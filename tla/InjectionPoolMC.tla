--------------------------- MODULE InjectionPoolMC ---------------------------
(* Two threads over all programs that execute at most MaxLength             *)
(* instructions; each run picks one program, timeout and ignored ranges.    *)
EXTENDS InjectionPool, TLC

CONSTANTS a, b, c, Worker

Addresses == <<a, b, c>>

Symmetry == Permutations(Address)

(* Addresses have no order, and it is enough to take the programs in which  *)
(* they first occur in that of Addresses.  Unlike a symmetry set, this is   *)
(* sound for liveness.                                                      *)
NamedInOrder ==
  \A i, j \in DOMAIN Addresses : i < j =>
    \A t \in DOMAIN trace : trace[t] = Addresses[j] =>
      \E s \in DOMAIN trace : s < t /\ trace[s] = Addresses[i]

(* Of several lists, the first one has a permanent model, which is quickly  *)
(* done; what it leaves behind is what matters to the next.                 *)
ListsInTurn == Rounds > 1 => target[1] = "permanent"

ListsInit == StraightInit /\ NamedInOrder /\ ListsInTurn

ListsSpec == ListsInit /\ [][Next]_vars /\ Fairness
=============================================================================
