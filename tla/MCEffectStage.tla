---------------------------- MODULE MCEffectStage ----------------------------
(* EffectStage for TLC. *)
EXTENDS EffectStage, TLC

StageSymmetry == Permutations(Clients) \cup Permutations(UserLanes)
=============================================================================
