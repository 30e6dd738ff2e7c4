--------------------------- MODULE MCEffectCommit ---------------------------
(* EffectCommit and its refinement for TLC. *)
EXTENDS EffectRefinement, TLC

CommitSymmetry ==
    Permutations(Clients) \cup Permutations(Workers) \cup Permutations(Reconcilers)
=============================================================================
