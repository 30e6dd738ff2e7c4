--------------------------- MODULE MCRuntimeQueue ---------------------------
(* RuntimeQueue on a small instance; the cfg files choose the commands. *)
EXTENDS QueueRefinement, TLC

SlotSymmetry == Permutations(Slots)
=============================================================================
