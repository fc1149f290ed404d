----------------------------- MODULE MCRecorder -----------------------------
(* Small instances of Recorder for TLC: the numbers are given in the cfgs.   *)
EXTENDS Recorder
=============================================================================
