--------------------------- MODULE InjectionLoopsMC ---------------------------
(* Two or three nested models over one byte of RAM and two CPU states.      *)
EXTENDS InjectionLoops, TLC

CONSTANTS c1, c2

MCCPU == {c1, c2}
MCSP == (c1 :> 8) @@ (c2 :> 1)

Symmetry == Permutations(Code) \union Permutations(Value)
=============================================================================
