------------------------------ MODULE MCMonitors ------------------------------
(* An instance of Monitors for TLC.  Processes are numbered in the order   *)
(* in which they start, so none may be exchanged for another.              *)
EXTENDS Monitors, TLC
=============================================================================
