---------------------------- MODULE MCEventStream ----------------------------
(* EventStream on small instances: the producers of a run's handlers, a reader *)
(* that follows and one that does not.                                         *)
EXTENDS EventStream, TLC

CONSTANTS run, cancel, r1, r2
=============================================================================
