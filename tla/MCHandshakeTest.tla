-------------------------- MODULE MCHandshakeTest --------------------------
(* HandshakeTest with two thread ids.                                       *)
EXTENDS HandshakeTest

CONSTANTS t1, t2, u1, u2

MCTids == {t1, t2}
MCTuples == {u1, u2}
============================================================================
