--------------------------- MODULE SubsetChooserMC ---------------------------
(* All containers of up to MaxSize elements, and all sizes of subsets.      *)
EXTENDS SubsetChooser
=============================================================================
