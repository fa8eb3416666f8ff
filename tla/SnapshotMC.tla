----------------------------- MODULE SnapshotMC -----------------------------
(* Small values for Snapshot.  Middle puts the stack boundary between the   *)
(* second and the third byte of the RAM; Wrapped puts it, after the wrap of *)
(* SP - 80, above every address.                                            *)
EXTENDS Snapshot, TLC

CONSTANTS Middle, Wrapped

MCCPU == {Middle, Wrapped}
MCSP == (Middle :> 8) @@ (Wrapped :> 1)

Symmetry == Permutations(Snap) \union Permutations(Value)
=============================================================================
