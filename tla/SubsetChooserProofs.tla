------------------------- MODULE SubsetChooserProofs -------------------------
(***************************************************************************)
(* For containers and subsets of any size: advance() never leaves the      *)
(* container, and what it hands out are all subsets of the size asked for, *)
(* each once and in lexicographic order.                                   *)
(***************************************************************************)
EXTENDS SubsetChooser, SequenceTheorems, SetInduction, TLAPS

(* What advance() keeps true between any two turns of its loops: the        *)
(* iterators are distinct and in order, not only those handed out.          *)
Inv == TypeOK /\ InRange /\ Increasing(state)

(* The elements of a vector of iterators are numbers. *)
LEMMA ElementsAreNat ==
  ASSUME NEW s \in Seq(Nat)
  PROVE  Len(s) \in Nat /\ \A k \in 1 .. Len(s) : s[k] \in Nat
OBVIOUS

(* The two ways in which advance() changes its vector, followed by a step   *)
(* of the last iterator: growing by a copy, and staying as long.            *)
LEMMA MovedFacts ==
  ASSUME NEW s \in Seq(Nat), s # <<>>
  PROVE  /\ Moved(s) \in Seq(Nat)
         /\ Len(Moved(s)) = Len(s)
         /\ Moved(s)[Len(s)] = s[Len(s)] + 1
         /\ \A i \in 1 .. Len(s) - 1 : Moved(s)[i] = s[i]
BY DEF Moved

LEMMA GrownFacts ==
  ASSUME NEW s \in Seq(Nat), s # <<>>
  PROVE  LET t == Append(s, Top(s)) IN
         /\ t \in Seq(Nat) /\ t # <<>>
         /\ Len(t) = Len(s) + 1
         /\ t[Len(s) + 1] = s[Len(s)]
         /\ \A i \in 1 .. Len(s) : t[i] = s[i]
BY DEF Top

LEMMA PopFacts ==
  ASSUME NEW s \in Seq(Nat), Len(s) > 1
  PROVE  /\ Pop(s) \in Seq(Nat) /\ Pop(s) # <<>>
         /\ Len(Pop(s)) = Len(s) - 1
         /\ \A i \in 1 .. Len(s) - 1 : Pop(s)[i] = s[i]
<1> DEFINE last == Len(s) - 1
<1>1. last \in Int /\ 1 <= last /\ \A i \in 1 .. last : s[i] \in Nat
  OBVIOUS
<1>2. /\ SubSeq(s, 1, last) \in Seq(Nat)
      /\ Len(SubSeq(s, 1, last)) = IF 1 <= last THEN last - 1 + 1 ELSE 0
      /\ \A i \in 1 .. last - 1 + 1 : SubSeq(s, 1, last)[i] = s[1 + i - 1]
  <2> HIDE DEF last
  <2> QED BY <1>1, SubSeqProperties
<1>3. /\ Pop(s) \in Seq(Nat)
      /\ Len(Pop(s)) = last
      /\ \A i \in 1 .. last : Pop(s)[i] = s[1 + i - 1]
  BY <1>1, <1>2 DEF Pop
<1> QED BY <1>1, <1>3

(* t is s up to its own last position, where it is one more than s is at p, *)
(* the same position or the one before.  All moves of advance() are such.   *)
MovesOn(s, t, p) ==
  /\ s \in Seq(Nat) /\ t \in Seq(Nat) /\ Len(t) > 0
  /\ p \in 1 .. Len(s) /\ (p = Len(t) \/ p = Len(t) - 1)
  /\ \A i \in 1 .. Len(t) - 1 : t[i] = s[i]
  /\ t[Len(t)] = s[p] + 1

LEMMA MoveIncreasing ==
  ASSUME NEW s, NEW t, NEW p, MovesOn(s, t, p), Increasing(s)
  PROVE  Increasing(t)
<1> SUFFICES ASSUME NEW i \in 1 .. Len(t), NEW j \in 1 .. Len(t), i < j
             PROVE  t[i] < t[j]
  BY DEF Increasing
<1>a. /\ s \in Seq(Nat) /\ t \in Seq(Nat)
      /\ p \in 1 .. Len(s) /\ (p = Len(t) \/ p = Len(t) - 1)
      /\ \A k \in 1 .. Len(t) - 1 : t[k] = s[k]
      /\ t[Len(t)] = s[p] + 1
  BY DEF MovesOn
<1>b. Len(s) \in Nat /\ Len(t) \in Nat /\ p \in Nat /\ p <= Len(s) /\ Len(t) - 1 <= p
  <2>1. Len(s) \in Nat /\ Len(t) \in Nat
    BY <1>a
  <2>2. p \in Nat /\ p <= Len(s)
    BY <2>1, <1>a
  <2> QED BY <2>1, <2>2, <1>a
<1>c. \A k \in 1 .. Len(t) - 1 : k \in 1 .. Len(s) /\ k <= p
  BY <1>b
<1>d. i \in 1 .. Len(t) - 1
  BY <1>b
<1>1. i \in 1 .. Len(s) /\ i <= p /\ t[i] = s[i] /\ s[i] \in Nat /\ s[p] \in Nat
  <2>1. i \in 1 .. Len(s) /\ i <= p /\ t[i] = s[i]
    BY <1>a, <1>c, <1>d
  <2>2. \A k \in 1 .. Len(s) : s[k] \in Nat
    <3>1. s \in Seq(Nat)
      BY <1>a
    <3> QED BY ONLY <3>1, ElementsAreNat
  <2> QED BY <2>1, <2>2, <1>a
<1>2. CASE j = Len(t)
  <2>1. s[i] <= s[p]
    <3>1. CASE i = p
      BY <1>1, <3>1
    <3>2. CASE i # p
      <4>1. i < p
        BY <1>a, <1>b, <1>1, <3>2
      <4>2. s[i] < s[p]
        BY <4>1, <1>a, <1>1 DEF Increasing
      <4> QED BY <4>2, <1>1
    <3> QED BY <3>1, <3>2
  <2>2. t[j] = s[p] + 1
    BY <1>2, <1>a
  <2> QED BY <2>1, <2>2, <1>1
<1>3. CASE j # Len(t)
  <2>1. j \in 1 .. Len(t) - 1
    BY <1>3, <1>b
  <2>2. j \in 1 .. Len(s) /\ t[j] = s[j]
    BY <2>1, <1>a, <1>c
  <2> QED BY <2>2, <1>1 DEF Increasing
<1> QED BY <1>2, <1>3

LEMMA MoveFits ==
  ASSUME NEW s, NEW t, NEW p, MovesOn(s, t, p), NEW N \in Nat, NEW z \in Nat,
         \A i \in 1 .. Len(t) - 1 : s[i] + (z - i) < N,
         s[p] + (z - p) < N
  PROVE  \A i \in 1 .. Len(t) : t[i] + (z - i) < N + (IF i = Len(t) THEN 1 ELSE 0)
<1> SUFFICES ASSUME NEW i \in 1 .. Len(t)
             PROVE  t[i] + (z - i) < N + (IF i = Len(t) THEN 1 ELSE 0)
  OBVIOUS
<1>1. /\ s \in Seq(Nat) /\ t \in Seq(Nat)
      /\ p \in 1 .. Len(s) /\ (p = Len(t) \/ p = Len(t) - 1)
      /\ \A k \in 1 .. Len(t) - 1 : t[k] = s[k]
      /\ t[Len(t)] = s[p] + 1
  BY DEF MovesOn
<1>2. Len(t) \in Nat /\ Len(s) \in Nat /\ s[p] \in Nat
  BY <1>1, ElementsAreNat
<1>3. CASE i = Len(t)
  <2>1. t[i] = s[p] + 1 /\ i >= p
    BY <1>1, <1>2, <1>3
  <2>2. s[p] + 1 + (z - i) < N + 1
    <3>1. p \in Nat /\ i \in Nat
      BY <1>1, <1>2
    <3>2. s[p] + (z - p) < N
      OBVIOUS
    <3> QED BY <3>1, <3>2, <2>1, <1>2
  <2> QED BY <2>1, <2>2, <1>3
<1>4. CASE i # Len(t)
  <2>1. i \in 1 .. Len(t) - 1
    BY <1>2, <1>4
  <2>2. t[i] = s[i] /\ s[i] + (z - i) < N
    BY <2>1, <1>1
  <2>3. t[i] + (z - i) < N
    BY <2>2
  <2>4. (IF i = Len(t) THEN 1 ELSE 0) = 0
    BY <1>4
  <2> QED BY <2>3, <2>4
<1> QED BY <1>3, <1>4

(* Initially the vector is empty. *)
LEMMA InvInit == Init => Inv
BY SizeAssumption DEF Init, Inv, TypeOK, InRange, Increasing

(* A move to the loop that rolls over keeps Inv. *)
LEMMA MoveKeepsInv ==
  ASSUME Inv, NEW p, MovesOn(state, state', p), Len(state') <= size,
         \A i \in 1 .. Len(state') - 1 : state[i] + (size - i) < n,
         state[p] + (size - p) < n,
         at' = "roll", n' = n, size' = size
  PROVE  Inv'
<1>1. state' \in Seq(Nat) /\ state' # <<>> /\ Increasing(state')
  <2>1. Increasing(state')
    BY MoveIncreasing DEF Inv
  <2>2. state' \in Seq(Nat) /\ Len(state') > 0
    BY DEF MovesOn
  <2> QED BY <2>1, <2>2
<1>2. TypeOK'
  BY <1>1 DEF Inv, TypeOK
<1>3. n \in Nat /\ size \in Nat
  BY DEF Inv, TypeOK
<1>4. \A i \in 1 .. Len(state') :
        state'[i] + (size - i) < n + (IF i = Len(state') THEN 1 ELSE 0)
  BY <1>3, MoveFits
<1>5. InRange'
  BY <1>4 DEF InRange
<1> QED BY <1>1, <1>2, <1>5 DEF Inv

(* How Step and Roll change the vector. *)
LEMMA StepMoves ==
  ASSUME Inv, Step
  PROVE  /\ MovesOn(state, state', Len(state))
         /\ Len(state') \in Nat /\ Len(state') <= size /\ Len(state') - 1 <= Len(state)
         /\ Len(state) < size => Len(state') = Len(state) + 1
         /\ Len(state) = size => Len(state') = Len(state)
<1>0. /\ state \in Seq(Nat) /\ Len(state) \in Nat /\ Len(state) <= size
      /\ n \in Nat /\ size \in Nat
  BY DEF Inv, TypeOK
<1>1. state # <<>> /\ Len(state) \in 1 .. Len(state)
  BY <1>0 DEF Step
<1>2. CASE Len(state) < size
  <2> DEFINE grown == Append(state, Top(state))
  <2>1. /\ grown \in Seq(Nat) /\ grown # <<>>
        /\ Len(grown) = Len(state) + 1
        /\ grown[Len(state) + 1] = state[Len(state)]
        /\ \A i \in 1 .. Len(state) : grown[i] = state[i]
    BY <1>0, <1>1, GrownFacts
  <2>2. state' = Moved(grown)
    BY <1>2 DEF Step
  <2> HIDE DEF grown
  <2>3. /\ Moved(grown) \in Seq(Nat)
        /\ Len(Moved(grown)) = Len(grown)
        /\ Moved(grown)[Len(grown)] = grown[Len(grown)] + 1
        /\ \A i \in 1 .. Len(grown) - 1 : Moved(grown)[i] = grown[i]
    BY <2>1, MovedFacts
  <2>4. /\ state' \in Seq(Nat) /\ Len(state') = Len(state) + 1
        /\ state'[Len(state')] = state[Len(state)] + 1
    BY <1>0, <2>1, <2>2, <2>3
  <2>5. \A i \in 1 .. Len(state') - 1 : state'[i] = state[i]
    BY <1>0, <2>1, <2>2, <2>3, <2>4
  <2>6. Len(state') > 0 /\ Len(state) = Len(state') - 1
    BY <1>0, <2>4
  <2>7. MovesOn(state, state', Len(state))
    BY <1>0, <1>1, <2>4, <2>5, <2>6 DEF MovesOn
  <2> QED BY <1>0, <1>2, <2>4, <2>7
<1>3. CASE ~(Len(state) < size)
  <2>1. state' = Moved(state)
    BY <1>3 DEF Step
  <2>2. /\ Moved(state) \in Seq(Nat)
        /\ Len(Moved(state)) = Len(state)
        /\ Moved(state)[Len(state)] = state[Len(state)] + 1
        /\ \A i \in 1 .. Len(state) - 1 : Moved(state)[i] = state[i]
    BY <1>0, <1>1, MovedFacts
  <2>3. Len(state') = Len(state) /\ Len(state') > 0
    BY <1>0, <1>1, <2>1, <2>2
  <2>4. MovesOn(state, state', Len(state))
    BY <1>0, <1>1, <2>1, <2>2, <2>3 DEF MovesOn
  <2> QED BY <1>0, <1>3, <2>3, <2>4
<1> QED BY <1>2, <1>3

LEMMA RollMoves ==
  ASSUME Inv, Roll
  PROVE  MovesOn(state, state', Len(state) - 1) /\ Len(state') = Len(state) - 1
<1>0. /\ state \in Seq(Nat) /\ Len(state) \in Nat /\ Len(state) <= size
      /\ n \in Nat /\ size \in Nat
  BY DEF Inv, TypeOK
<1>1. Len(state) > 1 /\ state' = Moved(Pop(state))
  BY DEF Roll
<1> DEFINE popped == Pop(state)
<1>2. /\ popped \in Seq(Nat) /\ popped # <<>>
      /\ Len(popped) = Len(state) - 1
      /\ \A i \in 1 .. Len(state) - 1 : popped[i] = state[i]
  BY <1>0, <1>1, PopFacts
<1>3. state' = Moved(popped)
  BY <1>1
<1> HIDE DEF popped
<1> QED
  <2>1. /\ state' \in Seq(Nat)
        /\ Len(state') = Len(popped)
        /\ state'[Len(popped)] = popped[Len(popped)] + 1
        /\ \A i \in 1 .. Len(popped) - 1 : state'[i] = popped[i]
    BY <1>2, <1>3, MovedFacts
  <2>2. Len(state') = Len(state) - 1 /\ Len(state') > 0
    BY <1>0, <1>1, <1>2, <2>1
  <2>3. Len(state) - 1 \in 1 .. Len(state) - 1 /\ Len(state) - 1 \in 1 .. Len(state)
    BY <1>0, <1>1
  <2>4. state'[Len(state')] = state[Len(state) - 1] + 1
    BY <1>2, <2>1, <2>2, <2>3
  <2>5. \A i \in 1 .. Len(state') - 1 : state'[i] = state[i]
    <3> SUFFICES ASSUME NEW i \in 1 .. Len(state') - 1 PROVE state'[i] = state[i]
      OBVIOUS
    <3>1. i \in 1 .. Len(popped) - 1 /\ i \in 1 .. Len(state) - 1
      BY <1>0, <1>2, <2>2
    <3> QED BY <3>1, <1>2, <2>1
  <2> QED BY <1>0, <2>1, <2>2, <2>3, <2>4, <2>5 DEF MovesOn

(* Every turn of a loop keeps Inv. *)
LEMMA InvStep == Inv /\ [Next]_vars => Inv'
<1> SUFFICES ASSUME Inv, [Next]_vars PROVE Inv'
  OBVIOUS
<1> USE DEF Inv
<1>0. /\ state \in Seq(Nat) /\ Len(state) \in Nat /\ Len(state) <= size
      /\ n \in Nat /\ size \in Nat
  BY DEF TypeOK
<1>1. CASE First
  BY <1>1 DEF First, TypeOK, InRange, Increasing
<1>2. CASE Step
  <2>1. /\ state # <<>> /\ Len(state) \in 1 .. Len(state)
        /\ at' = "roll" /\ n' = n /\ size' = size
    BY <1>0, <1>2 DEF Step
  <2>2. \A i \in 1 .. Len(state) : state[i] + (size - i) < n
    BY <1>0, <1>2 DEF Step, InRange, TypeOK
  <2>3. /\ MovesOn(state, state', Len(state)) /\ Len(state') <= size
        /\ Len(state') - 1 <= Len(state) /\ Len(state') \in Nat
    BY <1>0, <1>2, StepMoves
  <2>4. \A i \in 1 .. Len(state') - 1 : state[i] + (size - i) < n
    <3> SUFFICES ASSUME NEW i \in 1 .. Len(state') - 1
                 PROVE  state[i] + (size - i) < n
      OBVIOUS
    <3>1. i \in 1 .. Len(state)
      BY <1>0, <2>3
    <3> QED BY <2>2, <3>1
  <2>5. state[Len(state)] + (size - Len(state)) < n
    BY <2>1, <2>2
  <2> QED BY <2>1, <2>3, <2>4, <2>5, MoveKeepsInv
<1>3. CASE Roll
  <2>1. /\ Len(state) > 1 /\ state' = Moved(Pop(state))
        /\ at = "roll" /\ at' = "roll" /\ n' = n /\ size' = size
    BY <1>3 DEF Roll
  <2>4. MovesOn(state, state', Len(state) - 1) /\ Len(state') = Len(state) - 1
    BY <1>3, RollMoves
  <2>5. \A i \in 1 .. Len(state) - 1 : state[i] + (size - i) < n
    <3> SUFFICES ASSUME NEW i \in 1 .. Len(state) - 1
                 PROVE  state[i] + (size - i) < n
      OBVIOUS
    <3>1. i \in 1 .. Len(state) /\ i # Len(state) /\ state[i] \in Nat
      BY <1>0
    <3> QED BY <1>0, <3>1 DEF InRange
  <2>6. state[Len(state) - 1] + (size - (Len(state) - 1)) < n
    <3>1. Len(state) - 1 \in 1 .. Len(state) - 1
      BY <1>0, <2>1
    <3> QED BY <3>1, <2>5
  <2>7. Len(state') <= size /\ \A i \in 1 .. Len(state') - 1 : state[i] + (size - i) < n
    BY <1>0, <2>4, <2>5
  <2> QED BY <2>1, <2>4, <2>6, <2>7, MoveKeepsInv
<1>4. CASE Exhaust
  BY <1>4 DEF Exhaust, TypeOK, InRange, Increasing
<1>5. CASE Rolled
  <2>1. TypeOK' /\ Increasing(state')
    BY <1>5 DEF Rolled, TypeOK, Increasing
  <2>2. InRange'
    <3>1. /\ at = "roll" /\ at' = "test" /\ state' = state /\ n' = n /\ size' = size
          /\ state # <<>>
      BY <1>5 DEF Rolled, TypeOK
    <3> SUFFICES ASSUME NEW i \in 1 .. Len(state) PROVE state[i] + (size - i) < n
      BY <1>0, <3>1 DEF InRange
    <3>2. state[i] \in Nat
      BY <1>0
    <3>3. CASE i = Len(state)
      <4>1. state[i] + (size - i) < n + 1
        BY <3>1, <3>3 DEF InRange
      <4>2. state[i] + (size - i) # n
        BY <1>5, <3>3 DEF Rolled, TooFar, Top
      <4> QED BY <1>0, <3>2, <4>1, <4>2
    <3>4. CASE i # Len(state)
      BY <1>0, <3>2, <3>4 DEF InRange
    <3> QED BY <3>3, <3>4
  <2> QED BY <2>1, <2>2
<1>6. CASE Short
  BY <1>6 DEF Short, TypeOK, InRange, Increasing
<1>7. CASE Emit
  BY <1>7 DEF Emit, TypeOK, InRange, Increasing
<1>8. CASE UNCHANGED vars
  BY <1>8 DEF vars, TypeOK, InRange, Increasing
<1> QED
  BY <1>1, <1>2, <1>3, <1>4, <1>5, <1>6, <1>7, <1>8 DEF Next, Exhausted

(* No iterator of advance() leaves the container, not even the copy that    *)
(* is_n_from advances by the number of missing elements.                    *)
THEOREM StaysInRange == Spec => []InRange
BY InvInit, InvStep, PTL DEF Spec, Inv

(* What is handed out was the vector when Emit took it. *)
LEMMA ProperStep ==
  Inv /\ emitted \in Seq(Seq(Nat)) /\ SubsetsProper /\ [Next]_vars
    => (emitted \in Seq(Seq(Nat)) /\ SubsetsProper)'
<1> SUFFICES ASSUME Inv, emitted \in Seq(Seq(Nat)), SubsetsProper, [Next]_vars
             PROVE  (emitted \in Seq(Seq(Nat)) /\ SubsetsProper)'
  OBVIOUS
<1>1. CASE Emit
  <2>1. /\ emitted' = Append(emitted, state) /\ size' = size
        /\ Len(state) = size /\ Increasing(state) /\ state \in Seq(Nat)
    BY <1>1 DEF Emit, Inv, TypeOK
  <2>2. emitted' \in Seq(Seq(Nat))
    BY <2>1
  <2>3. SubsetsProper'
    <3> SUFFICES ASSUME NEW k \in 1 .. Len(emitted')
                 PROVE  Len(emitted'[k]) = size' /\ Increasing(emitted'[k])
      BY DEF SubsetsProper
    <3>1. CASE k = Len(emitted) + 1
      BY <2>1, <3>1
    <3>2. CASE k # Len(emitted) + 1
      <4>1. k \in 1 .. Len(emitted) /\ emitted'[k] = emitted[k]
        BY <2>1, <3>2
      <4> QED BY <4>1, <2>1 DEF SubsetsProper
    <3> QED BY <3>1, <3>2
  <2> QED BY <2>2, <2>3
<1>2. CASE UNCHANGED <<size, emitted>>
  BY <1>2 DEF SubsetsProper
<1> QED
  BY <1>1, <1>2 DEF Next, vars, First, Step, Roll, Exhaust, Rolled, Short, Exhausted

(* Whatever advance() hands out has the right size and no element twice.    *)
THEOREM ProperSubsets == Spec => []SubsetsProper
<1>1. Init => emitted \in Seq(Seq(Nat)) /\ SubsetsProper
  BY DEF Init, SubsetsProper
<1> QED
  BY <1>1, InvInit, InvStep, ProperStep, PTL DEF Spec
-----------------------------------------------------------------------------
(* The order of what is handed out.                                         *)

(* s comes before every sequence that begins with t, or after every one. *)
Before(s, t) == \E i \in 1 .. Len(t) : s[i] < t[i] /\ \A j \in 1 .. i - 1 : s[j] = t[j]
Beyond(s, t) == \E i \in 1 .. Len(t) : t[i] < s[i] /\ \A j \in 1 .. i - 1 : s[j] = t[j]

(* s begins with t. *)
Begins(s, t) == \A i \in 1 .. Len(t) : s[i] = t[i]

(* The vector of iterators has moved on from the subset handed out last. *)
Ahead ==
  emitted # <<>> =>
    \/ at = "exhausted"
    \/ at = "body" /\ Len(state) = size /\ state = emitted[Len(emitted)]
    \/ Before(emitted[Len(emitted)], state)

(* Every move of advance() goes on in this order, wherever it drops the     *)
(* iterators behind the one it moves.                                       *)
LEMMA MoveGoesOn ==
  ASSUME NEW s, NEW t, NEW p, MovesOn(s, t, p), p = Len(t) \/ p = Len(s),
         NEW e, Before(e, s), \A i \in 1 .. Len(s) : e[i] \in Nat
  PROVE  Before(e, t)
<1>1. /\ s \in Seq(Nat) /\ t \in Seq(Nat) /\ Len(t) > 0
      /\ p \in 1 .. Len(s) /\ (p = Len(t) \/ p = Len(t) - 1)
      /\ \A i \in 1 .. Len(t) - 1 : t[i] = s[i]
      /\ t[Len(t)] = s[p] + 1
  BY DEF MovesOn
<1>2. Len(s) \in Nat /\ Len(t) \in Nat /\ \A k \in 1 .. Len(s) : s[k] \in Nat
  BY <1>1, ElementsAreNat
<1>3. PICK i \in 1 .. Len(s) : e[i] < s[i] /\ \A j \in 1 .. i - 1 : e[j] = s[j]
  BY DEF Before
<1>4. CASE i < Len(t)
  <2>1. i \in 1 .. Len(t) /\ i \in 1 .. Len(t) - 1
    BY <1>2, <1>4
  <2>2. e[i] < t[i]
    BY <1>1, <1>3, <2>1
  <2>3. \A j \in 1 .. i - 1 : e[j] = t[j]
    <3> SUFFICES ASSUME NEW j \in 1 .. i - 1 PROVE e[j] = t[j]
      OBVIOUS
    <3>1. j \in 1 .. Len(t) - 1
      BY <1>2, <1>4
    <3> QED BY <1>1, <1>3, <3>1
  <2> QED BY <2>1, <2>2, <2>3 DEF Before
<1>5. CASE i >= Len(t)
  <2>1. p = Len(t) /\ p \in 1 .. i /\ s[p] \in Nat
    BY <1>1, <1>2, <1>5
  <2>2. e[p] <= s[p] /\ e[p] \in Int
    <3>1. CASE p = i
      <4>1. p \in 1 .. Len(s)
        BY <1>1
      <4> QED BY <1>2, <1>3, <3>1, <2>1
    <3>2. CASE p # i
      <4>1. p \in 1 .. i - 1
        BY <2>1, <3>2
      <4> QED BY <1>3, <2>1, <4>1
    <3> QED BY <3>1, <3>2
  <2>3. e[p] < t[p]
    BY <1>1, <2>1, <2>2
  <2>4. \A j \in 1 .. p - 1 : e[j] = t[j]
    <3> SUFFICES ASSUME NEW j \in 1 .. p - 1 PROVE e[j] = t[j]
      OBVIOUS
    <3>1. j \in 1 .. i - 1 /\ j \in 1 .. Len(t) - 1
      BY <2>1
    <3> QED BY <1>1, <1>3, <3>1
  <2>5. p \in 1 .. Len(t)
    BY <1>1, <2>1
  <2> QED BY <2>3, <2>4, <2>5 DEF Before
<1> QED BY <1>2, <1>4, <1>5

(* The last iterator of a vector that was handed out moves beyond it. *)
LEMMA MoveLeaves ==
  ASSUME NEW s, NEW t, NEW p, MovesOn(s, t, p), p = Len(t)
  PROVE  Before(s, t)
<1>1. /\ s \in Seq(Nat) /\ t \in Seq(Nat) /\ Len(t) > 0 /\ p \in 1 .. Len(s)
      /\ \A i \in 1 .. Len(t) - 1 : t[i] = s[i]
      /\ t[p] = s[p] + 1
  BY DEF MovesOn
<1>2. s[p] \in Nat /\ p \in 1 .. Len(t)
  BY <1>1, ElementsAreNat
<1>3. s[p] < t[p] /\ \A j \in 1 .. p - 1 : s[j] = t[j]
  BY <1>1, <1>2
<1> QED BY <1>2, <1>3 DEF Before

(* What was handed out, and what advance() is about to do with it. *)
OrderInv == emitted \in Seq(Seq(Nat)) /\ SubsetsProper /\ Ordered /\ Ahead

LEMMA OrderStep == Inv /\ OrderInv /\ [Next]_vars => OrderInv'
<1> SUFFICES ASSUME Inv, OrderInv, [Next]_vars PROVE OrderInv'
  OBVIOUS
<1>0. /\ state \in Seq(Nat) /\ Len(state) \in Nat /\ Len(state) <= size
      /\ n \in Nat /\ size \in Nat /\ size > 0
      /\ emitted \in Seq(Seq(Nat)) /\ Len(emitted) \in Nat
  BY DEF Inv, TypeOK, OrderInv
<1>1. emitted' \in Seq(Seq(Nat)) /\ SubsetsProper'
  BY ProperStep DEF OrderInv
<1> DEFINE last == emitted[Len(emitted)]
<1>2. emitted # <<>> =>
        Len(emitted) \in 1 .. Len(emitted) /\ last \in Seq(Nat) /\ Len(last) = size
          /\ \A i \in 1 .. Len(state) : last[i] \in Nat
  <2> SUFFICES ASSUME emitted # <<>>
               PROVE  Len(emitted) \in 1 .. Len(emitted) /\ last \in Seq(Nat) /\ Len(last) = size
                        /\ \A i \in 1 .. Len(state) : last[i] \in Nat
    OBVIOUS
  <2>1. Len(emitted) \in 1 .. Len(emitted)
    BY <1>0
  <2>2. last \in Seq(Nat) /\ Len(last) = size
    BY <1>0, <2>1 DEF OrderInv, SubsetsProper
  <2> HIDE DEF last
  <2>3. \A i \in 1 .. size : last[i] \in Nat
    BY <2>2, ElementsAreNat
  <2>4. \A i \in 1 .. Len(state) : i \in 1 .. size
    BY <1>0
  <2> QED BY <2>1, <2>2, <2>3, <2>4
<1>3. ASSUME UNCHANGED <<size, emitted>> PROVE Ordered'
  BY <1>3 DEF Ordered, LexLess, OrderInv
<1>4. CASE First
  <2>1. state = <<>> /\ at = "body" /\ Len(state) = 0
    BY <1>0, <1>4 DEF First
  <2>2. ~Before(last, state)
    BY <2>1 DEF Before
  <2>3. emitted = <<>>
    BY <1>0, <2>1, <2>2 DEF OrderInv, Ahead
  <2>4. Ahead'
    BY <1>4, <2>3 DEF First, Ahead
  <2> QED BY <1>1, <1>3, <1>4, <2>4 DEF OrderInv, First
<1>5. CASE Step
  <2>1. /\ MovesOn(state, state', Len(state))
        /\ Len(state) = size => Len(state') = Len(state)
        /\ emitted' = emitted /\ size' = size /\ at = "body" /\ at' = "roll"
    BY <1>5, StepMoves DEF Step
  <2>2. ASSUME emitted # <<>> PROVE Before(last, state')
    <3>1. CASE Before(last, state)
      <4> HIDE DEF last
      <4> QED BY <1>2, <2>1, <2>2, <3>1, MoveGoesOn
    <3>2. CASE Len(state) = size /\ state = last
      BY <2>1, <3>2, MoveLeaves
    <3> QED BY <2>1, <2>2, <3>1, <3>2 DEF OrderInv, Ahead
  <2>3. Ahead'
    BY <2>1, <2>2 DEF Ahead
  <2> QED BY <1>1, <1>3, <2>1, <2>3 DEF OrderInv
<1>6. CASE Roll
  <2>1. /\ MovesOn(state, state', Len(state) - 1) /\ Len(state') = Len(state) - 1
        /\ emitted' = emitted /\ size' = size /\ at = "roll" /\ at' = "roll"
    BY <1>6, RollMoves DEF Roll
  <2>2. ASSUME emitted # <<>> PROVE Before(last, state')
    <3>1. Before(last, state)
      BY <2>1, <2>2 DEF OrderInv, Ahead
    <3> HIDE DEF last
    <3> QED BY <1>2, <2>1, <2>2, <3>1, MoveGoesOn
  <2>3. Ahead'
    BY <2>1, <2>2 DEF Ahead
  <2> QED BY <1>1, <1>3, <2>1, <2>3 DEF OrderInv
<1>7. CASE Emit
  <2>1. /\ emitted' = Append(emitted, state) /\ size' = size /\ Len(state) = size
        /\ at = "test" /\ at' = "body" /\ state' = state
    BY <1>7 DEF Emit
  <2>2. /\ Len(emitted') = Len(emitted) + 1 /\ emitted'[Len(emitted) + 1] = state
        /\ \A k \in 1 .. Len(emitted) : emitted'[k] = emitted[k]
    BY <1>0, <2>1
  <2>3. Ahead'
    BY <2>1, <2>2 DEF Ahead
  <2>4. ASSUME NEW k \in 1 .. Len(emitted') - 1
        PROVE  \E i \in 1 .. size : /\ emitted'[k][i] < emitted'[k + 1][i]
                                    /\ \A j \in 1 .. i - 1 : emitted'[k][j] = emitted'[k + 1][j]
    <3>1. CASE k = Len(emitted)
      <4>1. emitted # <<>> /\ emitted'[k] = last /\ emitted'[k + 1] = state
        BY <1>0, <2>2, <3>1
      <4>2. Before(last, state)
        BY <2>1, <4>1 DEF OrderInv, Ahead
      <4> QED BY <2>1, <4>1, <4>2 DEF Before
    <3>2. CASE k # Len(emitted)
      <4>1. k \in 1 .. Len(emitted) - 1 /\ k \in 1 .. Len(emitted) /\ k + 1 \in 1 .. Len(emitted)
        BY <1>0, <2>2, <3>2
      <4>2. emitted'[k] = emitted[k] /\ emitted'[k + 1] = emitted[k + 1]
        BY <2>2, <4>1
      <4>3. LexLess(emitted[k], emitted[k + 1])
        BY <4>1 DEF OrderInv, Ordered
      <4> QED BY <4>2, <4>3 DEF LexLess
    <3> QED BY <3>1, <3>2
  <2>5. Ordered'
    BY <2>1, <2>4 DEF Ordered, LexLess
  <2> QED BY <1>1, <2>3, <2>5 DEF OrderInv
<1>8. CASE Exhaust
  BY <1>1, <1>3, <1>8 DEF Exhaust, OrderInv, Ahead
<1>9. CASE Rolled \/ Short
  <2>1. /\ UNCHANGED <<n, size, state, emitted>>
        /\ at # "exhausted" /\ ~(at = "body" /\ Len(state) = size)
    BY <1>9 DEF Rolled, Short
  <2>2. Ahead'
    BY <2>1 DEF OrderInv, Ahead, Before
  <2> QED BY <1>1, <1>3, <2>1, <2>2 DEF OrderInv
<1>10. CASE UNCHANGED vars
  BY <1>1, <1>3, <1>10 DEF vars, OrderInv, Ahead, Before
<1> QED
  BY <1>4, <1>5, <1>6, <1>7, <1>8, <1>9, <1>10 DEF Next, Exhausted

(* No subset is handed out twice: each comes after the one before in        *)
(* lexicographic order.                                                     *)
THEOREM NoneTwice == Spec => []Ordered
<1>1. Init => OrderInv
  BY DEF Init, OrderInv, SubsetsProper, Ordered, Ahead
<1> QED
  BY <1>1, InvInit, InvStep, OrderStep, PTL DEF Spec, OrderInv
-----------------------------------------------------------------------------
(* That none is left out.                                                   *)

Handed(s) == \E k \in 1 .. Len(emitted) : emitted[k] = s

(* s is not before the sequences that begin with t. *)
NotBefore(s, t) == Begins(s, t) \/ Beyond(s, t)

(* Every subset was handed out or is not passed yet. *)
NoneLost == \A s \in AllSubsets : Handed(s) \/ (at # "exhausted" /\ NotBefore(s, state))

(* What was handed out are subsets of the container, and a full vector that *)
(* advance() starts from is among them.                                     *)
CompleteInv ==
  /\ emitted \in Seq(Seq(Nat))
  /\ \A k \in 1 .. Len(emitted) : emitted[k] \in AllSubsets
  /\ (at = "body" /\ Len(state) = size => Handed(state))
  /\ NoneLost

(* A function on 1 .. z is a sequence of length z. *)
LEMMA SameInterval ==
  ASSUME NEW a \in Nat, NEW b \in Nat, 1 .. a = 1 .. b
  PROVE  a = b
<1>1. ASSUME a < b PROVE FALSE
  <2>1. b \in 1 .. b
    BY <1>1
  <2>2. b \in 1 .. a
    BY <2>1
  <2> QED BY <1>1, <2>2
<1>2. ASSUME b < a PROVE FALSE
  <2>1. a \in 1 .. a
    BY <1>2
  <2>2. a \in 1 .. b
    BY <2>1
  <2> QED BY <1>2, <2>2
<1> QED BY <1>1, <1>2

LEMMA FunctionIsSeq ==
  ASSUME NEW S, NEW z \in Nat, NEW f \in [1 .. z -> S]
  PROVE  f \in Seq(S) /\ Len(f) = z
<1>1. f \in Seq(S)
  BY SeqDef
<1>2. Len(f) \in Nat /\ DOMAIN f = 1 .. Len(f)
  BY <1>1, LenProperties
<1>3. 1 .. Len(f) = 1 .. z
  BY <1>2
<1>4. Len(f) = z
  BY ONLY <1>2, <1>3, z \in Nat, SameInterval
<1> QED BY <1>1, <1>4

(* Subsets as functions. *)
LEMMA SubsetFacts ==
  ASSUME n \in Nat, size \in Nat, NEW s
  PROVE  s \in AllSubsets <=>
           /\ s \in [1 .. size -> 0 .. n - 1]
           /\ \A i, j \in 1 .. size : i < j => s[i] < s[j]
<1>1. ASSUME s \in [1 .. size -> 0 .. n - 1] PROVE Len(s) = size
  BY <1>1, FunctionIsSeq
<1>2. ASSUME s \in [1 .. size -> 0 .. n - 1]
      PROVE  Increasing(s) <=> \A i, j \in 1 .. size : i < j => s[i] < s[j]
  BY <1>1, <1>2 DEF Increasing
<1>3. s \in AllSubsets <=> s \in [1 .. size -> 0 .. n - 1] /\ Increasing(s)
  BY DEF AllSubsets
<1> QED BY <1>2, <1>3

(* Behind an element of a subset there is room for the others. *)
LEMMA RoomBehind ==
  ASSUME NEW N \in Nat, NEW z \in Nat, NEW s \in [1 .. z -> 0 .. N - 1],
         \A i, j \in 1 .. z : i < j => s[i] < s[j],
         NEW i \in 1 .. z
  PROVE  s[i] + (z - i) < N
<1> DEFINE S == {k \in 0 .. z - 1 : s[z - k] + k < N}
<1>0. z - 1 \in Nat /\ i \in Nat /\ i <= z /\ z \in 1 .. z
  OBVIOUS
<1>1. S \in SUBSET (0 .. z - 1)
  OBVIOUS
<1>2. 0 \in S
  <2>1. s[z] \in 0 .. N - 1
    BY <1>0
  <2>2. z - 0 = z /\ s[z] + 0 < N
    BY <2>1
  <2> QED BY <1>0, <2>2
<1>3. ASSUME NEW k \in S, k < z - 1 PROVE k + 1 \in S
  <2>1. k \in Nat /\ k \in 0 .. z - 1 /\ s[z - k] + k < N
    OBVIOUS
  <2>2. z - k \in 1 .. z /\ z - (k + 1) \in 1 .. z /\ z - (k + 1) < z - k
    BY <1>3, <2>1
  <2>3. s[z - (k + 1)] < s[z - k]
    BY <2>2
  <2>4. s[z - (k + 1)] \in 0 .. N - 1 /\ s[z - k] \in 0 .. N - 1
    BY <2>2
  <2>5. s[z - (k + 1)] + (k + 1) < N
    <3> HIDE DEF S
    <3> QED BY <2>1, <2>3, <2>4
  <2>6. k + 1 \in 0 .. z - 1
    BY <1>3, <2>1
  <2> QED BY <2>5, <2>6
<1>4. S = 0 .. z - 1
  <2> HIDE DEF S
  <2> QED BY <1>0, <1>1, <1>2, <1>3, IntervalInduct
<1>5. z - i \in S
  <2>1. z - i \in 0 .. z - 1
    BY <1>0
  <2> HIDE DEF S
  <2> QED BY <1>4, <2>1
<1>6. s[z - (z - i)] + (z - i) < N
  BY <1>5
<1>7. z - (z - i) = i
  BY <1>0
<1> QED BY <1>6, <1>7

(* A move of an iterator that stays in the vector passes only what begins   *)
(* with the vector as it was.                                               *)
LEMMA MoveLosesNone ==
  ASSUME NEW s, NEW t, NEW p, MovesOn(s, t, p), p = Len(t),
         NEW w, \A k \in 1 .. Len(s) : w[k] \in Nat,
         NEW i \in 1 .. p, s[i] < w[i], \A j \in 1 .. i - 1 : w[j] = s[j]
  PROVE  NotBefore(w, t)
<1>1. /\ s \in Seq(Nat) /\ t \in Seq(Nat) /\ Len(t) > 0
      /\ p \in 1 .. Len(s)
      /\ \A k \in 1 .. p - 1 : t[k] = s[k]
      /\ t[p] = s[p] + 1
  BY DEF MovesOn
<1>2. Len(s) \in Nat /\ p \in Nat /\ \A k \in 1 .. Len(s) : s[k] \in Nat
  BY <1>1, ElementsAreNat
<1>3. \A j \in 1 .. i - 1 : w[j] = t[j]
  <2> SUFFICES ASSUME NEW j \in 1 .. i - 1 PROVE w[j] = t[j]
    OBVIOUS
  <2>1. j \in 1 .. p - 1
    BY <1>2
  <2> QED BY <1>1, <2>1
<1>4. CASE i < p
  <2>1. i \in 1 .. p - 1
    BY <1>2, <1>4
  <2>2. t[i] < w[i] /\ i \in 1 .. Len(t)
    BY <1>1, <2>1
  <2> QED BY <1>3, <2>2 DEF NotBefore, Beyond
<1>5. CASE i = p
  <2>1. s[p] \in Nat /\ w[p] \in Nat
    BY <1>1, <1>2
  <2>2. t[p] <= w[p]
    BY <1>1, <1>5, <2>1
  <2>3. CASE t[p] = w[p]
    <3>1. ASSUME NEW k \in 1 .. Len(t) PROVE w[k] = t[k]
      <4>1. CASE k = p
        BY <2>3, <4>1
      <4>2. CASE k # p
        <5>1. k \in 1 .. i - 1
          BY <1>2, <1>5, <4>2
        <5> QED BY <1>3, <5>1
      <4> QED BY <4>1, <4>2
    <3> QED BY <3>1 DEF NotBefore, Begins
  <2>4. CASE t[p] # w[p]
    <3>1. t[p] < w[p] /\ p \in 1 .. Len(t)
      BY <1>1, <2>1, <2>2, <2>4
    <3> QED BY <1>3, <1>5, <3>1 DEF NotBefore, Beyond
  <2> QED BY <2>3, <2>4
<1> QED BY <1>2, <1>4, <1>5

(* An iterator that is added right behind the last one passes nothing. *)
LEMMA GrowthLosesNone ==
  ASSUME NEW s, NEW t, MovesOn(s, t, Len(s)), Len(t) = Len(s) + 1,
         NEW w, \A k \in 1 .. Len(t) : w[k] \in Nat,
         w[Len(s)] < w[Len(t)], NotBefore(w, s)
  PROVE  NotBefore(w, t)
<1> DEFINE p == Len(s)
<1>1. /\ s \in Seq(Nat) /\ t \in Seq(Nat) /\ p \in 1 .. p
      /\ \A k \in 1 .. p : t[k] = s[k]
      /\ t[p + 1] = s[p] + 1
  BY DEF MovesOn
<1>2. p \in Nat /\ \A k \in 1 .. p : s[k] \in Nat
  BY <1>1, ElementsAreNat
<1>3. CASE Beyond(w, s)
  <2>1. PICK i \in 1 .. p : s[i] < w[i] /\ \A j \in 1 .. i - 1 : w[j] = s[j]
    BY <1>3 DEF Beyond
  <2>2. t[i] < w[i] /\ i \in 1 .. Len(t)
    BY <1>1, <1>2, <2>1
  <2>3. \A j \in 1 .. i - 1 : w[j] = t[j]
    <3> SUFFICES ASSUME NEW j \in 1 .. i - 1 PROVE w[j] = t[j]
      OBVIOUS
    <3>1. j \in 1 .. p
      BY <1>2
    <3> QED BY <1>1, <2>1, <3>1
  <2> QED BY <2>2, <2>3 DEF NotBefore, Beyond
<1>4. CASE Begins(w, s)
  <2>1. \A k \in 1 .. p : w[k] = t[k]
    BY <1>1, <1>4 DEF Begins
  <2>2. w[p] = s[p] /\ s[p] \in Nat /\ w[p + 1] \in Nat /\ w[p] < w[p + 1]
    <3>1. p + 1 \in 1 .. Len(t)
      BY <1>2
    <3> QED BY <1>1, <1>2, <1>4, <3>1 DEF Begins
  <2>3. t[p + 1] <= w[p + 1]
    BY <1>1, <2>2
  <2>4. CASE t[p + 1] = w[p + 1]
    <3>1. ASSUME NEW k \in 1 .. Len(t) PROVE w[k] = t[k]
      <4>1. CASE k = p + 1
        BY <2>4, <4>1
      <4>2. CASE k # p + 1
        <5>1. k \in 1 .. p
          BY <1>2, <4>2
        <5> QED BY <2>1, <5>1
      <4> QED BY <4>1, <4>2
    <3> QED BY <3>1 DEF NotBefore, Begins
  <2>5. CASE t[p + 1] # w[p + 1]
    <3>1. t[p + 1] < w[p + 1] /\ p + 1 \in 1 .. Len(t)
      BY <1>1, <1>2, <2>2, <2>3, <2>5
    <3>2. \A j \in 1 .. (p + 1) - 1 : w[j] = t[j]
      BY <1>2, <2>1
    <3> QED BY <3>1, <3>2 DEF NotBefore, Beyond
  <2> QED BY <2>4, <2>5
<1> QED BY <1>3, <1>4 DEF NotBefore
(* For the subsets that are still to come. *)
LEMMA SubsetElements ==
  ASSUME Inv, NEW w \in AllSubsets
  PROVE  /\ \A i \in 1 .. size : w[i] \in Nat /\ w[i] + (size - i) < n
         /\ \A i, j \in 1 .. size : i < j => w[i] < w[j]
         /\ w \in Seq(Nat) /\ Len(w) = size
<1>1. n \in Nat /\ size \in Nat
  BY DEF Inv, TypeOK
<1>2. /\ w \in [1 .. size -> 0 .. n - 1]
      /\ \A i, j \in 1 .. size : i < j => w[i] < w[j]
  BY <1>1, SubsetFacts
<1>3. \A i \in 1 .. size : w[i] + (size - i) < n
  BY <1>1, <1>2, RoomBehind
<1>4. \A i \in 1 .. size : w[i] \in Nat
  BY <1>1, <1>2
<1>5. w \in [1 .. size -> Nat]
  BY <1>2, <1>4
<1>6. w \in Seq(Nat) /\ Len(w) = size
  BY <1>1, <1>5, FunctionIsSeq
<1> QED BY <1>2, <1>3, <1>4, <1>6

(* When is_n_from says that too few elements are left, no subset to come    *)
(* begins with the vector or goes beyond it only at its last element.       *)
LEMMA TooFarPassed ==
  ASSUME Inv, state # <<>>, TooFar, NEW w \in AllSubsets, NotBefore(w, state)
  PROVE  \E i \in 1 .. Len(state) - 1 : state[i] < w[i] /\ \A j \in 1 .. i - 1 : w[j] = state[j]
<1>1. /\ state \in Seq(Nat) /\ Len(state) \in Nat /\ Len(state) <= size
      /\ n \in Nat /\ size \in Nat /\ Len(state) \in 1 .. Len(state) /\ Len(state) \in 1 .. size
  BY DEF Inv, TypeOK
<1>2. state[Len(state)] \in Nat /\ state[Len(state)] + (size - Len(state)) = n
  BY <1>1 DEF TooFar, Top
<1>3. w[Len(state)] \in Nat /\ w[Len(state)] + (size - Len(state)) < n
  BY <1>1, SubsetElements
<1>4. w[Len(state)] < state[Len(state)]
  BY <1>1, <1>2, <1>3
<1>5. ~Begins(w, state)
  BY <1>1, <1>2, <1>3, <1>4 DEF Begins
<1>6. PICK i \in 1 .. Len(state) : state[i] < w[i] /\ \A j \in 1 .. i - 1 : w[j] = state[j]
  BY <1>5 DEF NotBefore, Beyond
<1>7. i # Len(state)
  BY <1>2, <1>3, <1>4, <1>6
<1>8. i \in 1 .. Len(state) - 1
  BY <1>1, <1>7
<1> QED BY <1>6, <1>8

LEMMA CompleteStep == Inv /\ CompleteInv /\ [Next]_vars => CompleteInv'
<1> SUFFICES ASSUME Inv, CompleteInv, [Next]_vars PROVE CompleteInv'
  OBVIOUS
<1>0. /\ state \in Seq(Nat) /\ Len(state) \in Nat /\ Len(state) <= size
      /\ n \in Nat /\ size \in Nat /\ size > 0
      /\ emitted \in Seq(Seq(Nat)) /\ Len(emitted) \in Nat
  BY DEF Inv, TypeOK, CompleteInv
<1>1. ASSUME UNCHANGED <<n, size, emitted>>, ~(at' = "body" /\ Len(state') = size'),
             at' # "exhausted",
             \A w \in AllSubsets : NotBefore(w, state) => Handed(w) \/ NotBefore(w, state'),
             at # "exhausted"
      PROVE  CompleteInv'
  <2>1. AllSubsets' = AllSubsets /\ \A w : Handed(w)' <=> Handed(w)
    BY <1>1 DEF AllSubsets, Handed
  <2>2. NoneLost'
    <3> SUFFICES ASSUME NEW w \in AllSubsets PROVE Handed(w) \/ NotBefore(w, state')
      BY <1>1, <2>1 DEF NoneLost, NotBefore, Begins, Beyond
    <3> QED BY <1>1 DEF CompleteInv, NoneLost
  <2>3. \A k \in 1 .. Len(emitted') : emitted'[k] \in AllSubsets'
    BY <1>1, <2>1 DEF CompleteInv
  <2> QED BY <1>0, <1>1, <2>2, <2>3 DEF CompleteInv
<1>2. CASE First
  <2>1. state = <<>> /\ state' = <<0>> /\ Len(state') = 1 /\ at' = "test" /\ at = "body"
        /\ UNCHANGED <<n, size, emitted>>
    BY <1>2 DEF First
  <2>2. ASSUME NEW w \in AllSubsets PROVE NotBefore(w, state')
    <3>1. 1 \in 1 .. size /\ 1 \in 1 .. Len(state')
      BY <1>0, <2>1
    <3>2. w[1] \in Nat
      BY <3>1, SubsetElements
    <3>3. CASE w[1] = 0
      <4>1. \A i \in 1 .. Len(state') : w[i] = state'[i]
        BY <2>1, <3>3
      <4> QED BY <4>1 DEF NotBefore, Begins
    <3>4. CASE w[1] # 0
      <4>1. state'[1] < w[1] /\ \A j \in 1 .. 1 - 1 : w[j] = state'[j]
        BY <2>1, <3>2, <3>4
      <4> QED BY <3>1, <4>1 DEF NotBefore, Beyond
    <3> QED BY <3>3, <3>4
  <2> QED BY <1>1, <2>1, <2>2
<1>3. CASE Step
  <2>1. /\ MovesOn(state, state', Len(state))
        /\ Len(state') \in Nat /\ Len(state') <= size
        /\ Len(state) < size => Len(state') = Len(state) + 1
        /\ Len(state) = size => Len(state') = Len(state)
        /\ UNCHANGED <<n, size, emitted>> /\ at = "body" /\ at' = "roll"
        /\ Len(state) \in 1 .. Len(state) /\ Len(state) \in 1 .. size
    BY <1>0, <1>3, StepMoves DEF Step
  <2>2. ASSUME NEW w \in AllSubsets, NotBefore(w, state) PROVE Handed(w) \/ NotBefore(w, state')
    <3>1. /\ \A i \in 1 .. size : w[i] \in Nat
          /\ \A i, j \in 1 .. size : i < j => w[i] < w[j]
          /\ w \in Seq(Nat) /\ Len(w) = size
      BY SubsetElements
    <3>2. CASE Len(state) < size
      <4>1. \A i \in 1 .. Len(state') : i \in 1 .. size
        BY <1>0, <2>1
      <4>2. Len(state') \in 1 .. size /\ Len(state) < Len(state')
        BY <1>0, <2>1, <3>2
      <4>3. w[Len(state)] < w[Len(state')]
        BY <2>1, <3>1, <4>2
      <4> QED BY <2>1, <2>2, <3>1, <3>2, <4>1, <4>3, GrowthLosesNone
    <3>3. CASE Len(state) = size
      <4>1. CASE Begins(w, state)
        <5>1. w = state
          BY <1>0, <3>1, <3>3, <4>1, SeqEqual DEF Begins
        <5> QED BY <2>1, <3>3, <5>1 DEF CompleteInv
      <4>2. CASE Beyond(w, state)
        <5>1. PICK i \in 1 .. Len(state) : state[i] < w[i] /\ \A j \in 1 .. i - 1 : w[j] = state[j]
          BY <4>2 DEF Beyond
        <5>2. MovesOn(state, state', Len(state)) /\ Len(state) = Len(state')
          BY <2>1, <3>3
        <5> QED BY <3>1, <3>3, <5>1, <5>2, MoveLosesNone
      <4> QED BY <2>2, <4>1, <4>2 DEF NotBefore
    <3> QED BY <1>0, <3>2, <3>3
  <2> QED BY <1>1, <2>1, <2>2
<1>4. CASE Roll
  <2>1. /\ MovesOn(state, state', Len(state) - 1) /\ Len(state') = Len(state) - 1
        /\ UNCHANGED <<n, size, emitted>> /\ at = "roll" /\ at' = "roll"
        /\ TooFar /\ state # <<>>
    BY <1>0, <1>4, RollMoves DEF Roll
  <2>2. ASSUME NEW w \in AllSubsets, NotBefore(w, state) PROVE NotBefore(w, state')
    <3>1. PICK i \in 1 .. Len(state) - 1 :
            state[i] < w[i] /\ \A j \in 1 .. i - 1 : w[j] = state[j]
      BY <2>1, <2>2, TooFarPassed
    <3>2. \A k \in 1 .. Len(state) : w[k] \in Nat
      <4>1. \A k \in 1 .. Len(state) : k \in 1 .. size
        BY <1>0
      <4> QED BY <4>1, SubsetElements
    <3> QED BY <2>1, <3>1, <3>2, MoveLosesNone
  <2> QED BY <1>1, <2>1, <2>2
<1>5. CASE Exhaust
  <2>1. /\ at = "roll" /\ TooFar /\ Len(state) = 1 /\ state # <<>>
        /\ at' = "exhausted" /\ UNCHANGED <<n, size, emitted>>
    BY <1>5 DEF Exhaust
  <2>2. AllSubsets' = AllSubsets /\ \A w : Handed(w)' <=> Handed(w)
    BY <2>1 DEF AllSubsets, Handed
  <2>3. ASSUME NEW w \in AllSubsets PROVE Handed(w)
    <3>1. ASSUME NotBefore(w, state) PROVE FALSE
      <4>1. \E i \in 1 .. Len(state) - 1 : state[i] < w[i]
        BY <2>1, <3>1, TooFarPassed
      <4> QED BY <2>1, <4>1
    <3> QED BY <3>1 DEF CompleteInv, NoneLost
  <2>4. NoneLost'
    BY <2>2, <2>3 DEF NoneLost
  <2> QED BY <2>1, <2>2, <2>4 DEF CompleteInv
<1>6. CASE Emit
  <2>1. /\ emitted' = Append(emitted, state) /\ n' = n /\ size' = size /\ Len(state) = size
        /\ at = "test" /\ at' = "body" /\ state' = state
    BY <1>6 DEF Emit
  <2>2. /\ emitted' \in Seq(Seq(Nat))
        /\ Len(emitted') = Len(emitted) + 1 /\ emitted'[Len(emitted) + 1] = state
        /\ \A k \in 1 .. Len(emitted) : emitted'[k] = emitted[k]
    BY <1>0, <2>1
  <2>3. AllSubsets' = AllSubsets
    BY <2>1 DEF AllSubsets
  <2>4. Handed(state)'
    <3>1. Len(emitted) + 1 \in 1 .. Len(emitted')
      BY <1>0, <2>2
    <3> QED BY <2>1, <2>2, <3>1 DEF Handed
  <2>5. ASSUME NEW w, Handed(w) PROVE Handed(w)'
    <3>1. PICK k \in 1 .. Len(emitted) : emitted[k] = w
      BY <2>5 DEF Handed
    <3>2. k \in 1 .. Len(emitted')
      BY <1>0, <2>2
    <3> QED BY <2>2, <3>1, <3>2 DEF Handed
  <2>6. NoneLost'
    <3> SUFFICES ASSUME NEW w \in AllSubsets, ~Handed(w) PROVE NotBefore(w, state)
      BY <2>1, <2>3, <2>5 DEF NoneLost, NotBefore, Begins, Beyond
    <3> QED BY DEF CompleteInv, NoneLost
  <2>7. state \in AllSubsets
    <3>1. \A i \in 1 .. size : state[i] \in 0 .. n - 1
      <4> SUFFICES ASSUME NEW i \in 1 .. size PROVE state[i] \in 0 .. n - 1
        OBVIOUS
      <4>1. state[i] \in Nat /\ i \in 1 .. Len(state)
        <5>1. i \in 1 .. Len(state)
          BY <2>1
        <5> QED BY <1>0, <5>1, ElementsAreNat
      <4>2. state[i] + (size - i) < n + 0
        BY <2>1, <4>1 DEF Inv, InRange
      <4> QED BY <1>0, <4>1, <4>2
    <3>2. state \in [1 .. size -> Nat]
      BY <1>0, <2>1, LenProperties
    <3>3. state \in [1 .. size -> 0 .. n - 1]
      BY <3>1, <3>2
    <3> QED BY <1>0, <3>3 DEF Inv, AllSubsets
  <2>8. \A k \in 1 .. Len(emitted') : emitted'[k] \in AllSubsets'
    <3> SUFFICES ASSUME NEW k \in 1 .. Len(emitted') PROVE emitted'[k] \in AllSubsets
      BY <2>3
    <3>1. CASE k = Len(emitted) + 1
      BY <2>2, <2>7, <3>1
    <3>2. CASE k # Len(emitted) + 1
      <4>1. k \in 1 .. Len(emitted)
        BY <1>0, <2>2, <3>2
      <4> QED BY <2>2, <4>1 DEF CompleteInv
    <3> QED BY <3>1, <3>2
  <2> QED BY <2>1, <2>2, <2>4, <2>6, <2>8 DEF CompleteInv, Handed
<1>7. CASE Rolled \/ Short
  <2>1. /\ UNCHANGED <<n, size, state, emitted>> /\ at # "exhausted" /\ at' # "exhausted"
        /\ ~(at' = "body" /\ Len(state') = size')
    BY <1>0, <1>7 DEF Rolled, Short
  <2> QED BY <1>1, <2>1
<1>8. CASE UNCHANGED vars
  <2>1. AllSubsets' = AllSubsets /\ \A w : Handed(w)' <=> Handed(w)
    BY <1>8 DEF vars, AllSubsets, Handed
  <2> QED BY <1>8, <2>1 DEF vars, CompleteInv, NoneLost, NotBefore, Begins, Beyond
<1> QED
  BY <1>2, <1>3, <1>4, <1>5, <1>6, <1>7, <1>8 DEF Next, Exhausted

(* When advance() returns false, every subset of the size asked for was     *)
(* handed out, and nothing else.                                            *)
THEOREM NoneLeftOut == Spec => []AllEmitted
<1>1. Init => CompleteInv
  BY DEF Init, CompleteInv, NoneLost, NotBefore, Begins
<1>2. CompleteInv => AllEmitted
  <2> SUFFICES ASSUME CompleteInv, at = "exhausted"
               PROVE  {emitted[k] : k \in 1 .. Len(emitted)} = AllSubsets
    BY DEF AllEmitted
  <2>1. \A w \in AllSubsets : \E k \in 1 .. Len(emitted) : emitted[k] = w
    BY DEF CompleteInv, NoneLost, Handed
  <2> QED BY <2>1 DEF CompleteInv
<1> QED
  BY <1>1, <1>2, InvInit, InvStep, CompleteStep, PTL DEF Spec
=============================================================================
