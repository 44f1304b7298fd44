---------------------------- MODULE MCBpfCapture ----------------------------
(* Instances of BpfCapture for TLC.                                        *)
EXTENDS BpfCapture, TLC

CONSTANTS s1, s2, c1, c2

MCSocks == {s1, s2}
MCCPUs == {c1, c2}
MCSymmetry == Permutations(MCCPUs)
============================================================================
