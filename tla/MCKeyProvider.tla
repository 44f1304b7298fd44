--------------------------- MODULE MCKeyProvider ---------------------------
(* Instances of KeyProvider for TLC; the .cfg files give the constants.    *)
EXTENDS KeyProvider

CONSTANTS t1, t2

MCTuples == {t1, t2}
============================================================================
