---------------------------- MODULE MCKtlsConfig ----------------------------
(* An instance of KtlsConfig for TLC: 2 bytes of salt and 2 of IV, one key *)
(* with a whole nonce and more, one with a nonce too short by one byte.    *)
EXTENDS KtlsConfig, TLC

CONSTANTS p1, p2

MCThreads == {p1, p2}
MCMaterials == {[key |-> "k1", iv |-> <<1, 2, 3, 4, 5>>], [key |-> "k2", iv |-> <<6, 7, 8>>]}
MCSymmetry == Permutations(MCThreads)
============================================================================
