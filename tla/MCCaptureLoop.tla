---------------------------- MODULE MCCaptureLoop ----------------------------
(* CaptureLoop with two slots: the third connection finds none.             *)
EXTENDS CaptureLoop
============================================================================
