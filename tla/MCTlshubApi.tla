---------------------------- MODULE MCTlshubApi ----------------------------
(* TlshubApi with two thread ids.                                           *)
EXTENDS TlshubApi

CONSTANTS t1, t2, u1, u2

MCTids == {t1, t2}
MCTuples == {u1, u2}
============================================================================
