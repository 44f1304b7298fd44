---------------------------- MODULE MCEchoBench ----------------------------
(* Two bench clients and one echo server.                                  *)
EXTENDS EchoBench
============================================================================
