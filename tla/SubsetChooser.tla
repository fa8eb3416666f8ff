---------------------------- MODULE SubsetChooser ----------------------------
(***************************************************************************)
(* SubsetChooser::advance (armory/subset_chooser.h), called in a loop      *)
(* until it returns false, as everywhere in the fault simulator.           *)
(*                                                                         *)
(* The container has the positions 0 .. n - 1, and n is its end(); every   *)
(* subset is valid.  One action is one turn of a loop of the code: its     *)
(* iterators are forward iterators, so to advance one beyond end() would   *)
(* be undefined.                                                           *)
(***************************************************************************)
EXTENDS Integers, Sequences

CONSTANT MaxSize   \* bound on the size of the container

ASSUME SizeAssumption == MaxSize \in Nat \ {0}

VARIABLES n,        \* size of the container
          size,     \* m_subset_size
          state,    \* m_state, the positions of its iterators
          at,       \* the loop advance() is in
          emitted   \* auxiliary: the subsets returned so far

vars == <<n, size, state, at, emitted>>

Top(s)   == s[Len(s)]
Moved(s) == [s EXCEPT ![Len(s)] = @ + 1]
Pop(s)   == SubSeq(s, 1, Len(s) - 1)

(* The callers choose at least one element and at most all of them. *)
Init ==
  /\ n \in 1 .. MaxSize
  /\ size \in 1 .. n
  /\ state = <<>>
  /\ at = "body"
  /\ emitted = <<>>

(* m_state is empty: start with the first element. *)
First ==
  /\ at = "body" /\ state = <<>>
  /\ state' = <<0>>
  /\ at' = "test"
  /\ UNCHANGED <<n, size, emitted>>

(* Mutant: the last iterator is not copied before it moves. *)
StepFlat ==
  /\ at = "body" /\ state # <<>>
  /\ state' = Moved(state)
  /\ at' = "roll"
  /\ UNCHANGED <<n, size, emitted>>

(* Mutant: the copy is not moved on. *)
StepTwice ==
  /\ at = "body" /\ state # <<>>
  /\ state' = IF Len(state) < size THEN Append(state, Top(state)) ELSE Moved(state)
  /\ at' = "roll"
  /\ UNCHANGED <<n, size, emitted>>

(* Mutant: the copy is moved but not kept. *)
StepLost ==
  /\ at = "body" /\ state # <<>>
  /\ state' = IF Len(state) < size THEN state ELSE Moved(state)
  /\ at' = "roll"
  /\ UNCHANGED <<n, size, emitted>>

(* Grow by a copy of the last iterator, and move the last one. *)
Step ==
  /\ at = "body" /\ state # <<>>
  /\ state' = Moved(IF Len(state) < size THEN Append(state, Top(state)) ELSE state)
  /\ at' = "roll"
  /\ UNCHANGED <<n, size, emitted>>

(* Mutant: one element more is thought to be left. *)
TooFarLate == Top(state) + (size - Len(state)) = n + 1

(* is_n_from of the last iterator: too few elements are left. *)
TooFar == Top(state) + (size - Len(state)) = n

(* Mutant: the previous iterator is not moved after the last one is dropped. *)
RollStays ==
  /\ at = "roll" /\ TooFar /\ Len(state) > 1
  /\ state' = Pop(state)
  /\ at' = "test"
  /\ UNCHANGED <<n, size, emitted>>

(* Roll over: drop the last iterator and move the one before. *)
Roll ==
  /\ at = "roll" /\ TooFar /\ Len(state) > 1
  /\ state' = Moved(Pop(state))
  /\ UNCHANGED <<n, size, at, emitted>>

(* No iterator is left: return false. *)
Exhaust ==
  /\ at = "roll" /\ TooFar /\ Len(state) = 1
  /\ state' = <<>>
  /\ at' = "exhausted"
  /\ UNCHANGED <<n, size, emitted>>

Rolled ==
  /\ at = "roll" /\ ~TooFar
  /\ at' = "test"
  /\ UNCHANGED <<n, size, state, emitted>>

(* Not enough elements yet: once more. *)
Short ==
  /\ at = "test" /\ Len(state) < size
  /\ at' = "body"
  /\ UNCHANGED <<n, size, state, emitted>>

(* Return true; the caller takes the subset and calls again. *)
Emit ==
  /\ at = "test" /\ Len(state) = size
  /\ emitted' = Append(emitted, state)
  /\ at' = "body"
  /\ UNCHANGED <<n, size, state>>

Exhausted == at = "exhausted" /\ UNCHANGED vars

Next ==
  First \/ Step \/ Roll \/ Exhaust \/ Rolled \/ Short \/ Emit \/ Exhausted

Spec == Init /\ [][Next]_vars /\ WF_vars(Next)

-----------------------------------------------------------------------------
(* With InRange, the invariant of SubsetChooserProofs.                      *)
TypeOK ==
  /\ n \in Nat \ {0} /\ size \in 1 .. n
  /\ state \in Seq(Nat) /\ Len(state) <= size
  /\ at \in {"body", "roll", "test", "exhausted"}
  /\ (at \in {"roll", "test"} => state # <<>>)

(* No iterator is moved beyond end(), nor advanced beyond it by is_n_from:  *)
(* the iterators that are still missing fit behind each one.                *)
InRange ==
  \A i \in 1 .. Len(state) :
    state[i] + (size - i) < n + (IF at = "roll" /\ i = Len(state) THEN 1 ELSE 0)

Increasing(s) == \A i, j \in 1 .. Len(s) : i < j => s[i] < s[j]

(* What advance() hands out has the right size and no element twice. *)
SubsetsProper ==
  \A k \in 1 .. Len(emitted) : Len(emitted[k]) = size /\ Increasing(emitted[k])

LexLess(s, t) ==
  \E i \in 1 .. size : s[i] < t[i] /\ \A j \in 1 .. i - 1 : s[j] = t[j]

(* No subset is handed out twice: each comes after the one before in        *)
(* lexicographic order.                                                     *)
Ordered == \A k \in 1 .. Len(emitted) - 1 : LexLess(emitted[k], emitted[k + 1])

(* All subsets of the size, as increasing sequences of positions. *)
AllSubsets == {s \in [1 .. size -> 0 .. n - 1] : Increasing(s)}

(* When advance() returns false, every subset of the size was handed out.   *)
AllEmitted == at = "exhausted" => {emitted[k] : k \in 1 .. Len(emitted)} = AllSubsets

(* The loop over advance() ends. *)
Termination == <>(at = "exhausted")
=============================================================================
