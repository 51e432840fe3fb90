--------------------------- MODULE MCRolloutIndex ---------------------------
(***************************************************************************)
(* A model for TLC: rollouts that are told apart by what befalls them      *)
(* only, so that any two may be exchanged.                                 *)
(***************************************************************************)
EXTENDS RolloutIndex, TLC

AnyRollout == Permutations(Rollout)
=============================================================================
