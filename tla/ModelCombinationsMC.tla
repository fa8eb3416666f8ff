------------------------- MODULE ModelCombinationsMC -------------------------
(* All vectors of up to MaxModels models whose amounts add up to MaxTotal.  *)
EXTENDS ModelCombinations
=============================================================================
