---------------------------- MODULE KnownFaultsMC ----------------------------
(* Vectors of fault models for KnownFaults.                                 *)
EXTENDS KnownFaults

Once == [instruction : BOOLEAN, permanent : BOOLEAN, amount : {1}]
Times(k, n) == [k EXCEPT !.amount = n]
InstructionsFirst(s) == \A i, j \in DOMAIN s : i < j /\ s[j].instruction => s[i].instruction

Pairs == [1 .. 2 -> Once]
Twice == {<<Times(k, 2)>> : k \in Once}

(* Two models of any kinds, or one model twice. *)
UpToTwo == Pairs \cup Twice

(* With three models of different kinds, one once and one twice, or one     *)
(* three times; here the instruction models come first.                     *)
Three == {s \in [1 .. 3 -> Once] : InstructionsFirst(s) /\ IsInjective(s)}
OnceAndTwice == {<<s[1], Times(s[2], 2)>> : s \in {t \in Pairs : InstructionsFirst(t)}}
Thrice == {<<Times(k, 3)>> : k \in Once}
UpToThree == UpToTwo \cup Three \cup OnceAndTwice \cup Thrice

InstructionPair == {s \in Pairs : \A i \in DOMAIN s : s[i].instruction /\ ~s[i].permanent}
RegisterTwice == {s \in Twice : ~s[1].instruction /\ ~s[1].permanent}
=============================================================================
