-------------------------- MODULE MCSystemMetrics --------------------------
(* An instance of SystemMetrics for TLC: counters of 3 bits whose busy sum *)
(* wraps.                                                                  *)
EXTENDS SystemMetrics

MCBoot == [busy |-> 6, idle |-> 1]
MCTransfers == {[sent |-> 0, received |-> 0], [sent |-> 1, received |-> 0], [sent |-> 0, received |-> 1]}
============================================================================
