--------------------------- MODULE MCRunLifecycle ---------------------------
(* RunLifecycle for TLC. *)
EXTENDS RunLifecycle, TLC

LifecycleSymmetry == Permutations(Tasks) \cup Permutations(Items)
=============================================================================
