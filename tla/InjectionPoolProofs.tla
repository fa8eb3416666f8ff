-------------------------- MODULE InjectionPoolProofs --------------------------
(***************************************************************************)
(* For every number of threads, model lists and programs: no index is      *)
(* injected twice, and each fault has the whole timeout.  For the straight *)
(* programs, of any length: each fault is injected where it was meant to   *)
(* be, and none is left out of the results.                                *)
(*                                                                         *)
(* ClaimedOnce is not inductive: it says nothing of the indices that are   *)
(* claimed and not yet injected.  ClaimInv adds that these lie below the   *)
(* shared counter, differ from each other and from those in done.  TimeInv *)
(* relates the cycles left to a thread's snapshot and emulator, PlaceInv   *)
(* both to the entry of the list it has come to, and done to what each     *)
(* thread has found or merged.                                             *)
(***************************************************************************)
EXTENDS InjectionPool, FiniteSetTheorems, SetInduction

(* The threads that have claimed an index and not yet injected it. *)
Holds(w) == pc[w] \in {"restore", "replay", "inject"}

CountersOK == progress \in Nat /\ pc \in [Thread -> Labels] /\ index \in [Thread -> Nat]

HeldBelow == \A w \in Thread : Holds(w) => index[w] < progress
DoneBelow == \A d \in done : d[2] \in Nat /\ d[2] < progress

HeldApart ==
  \A v, w \in Thread : (Holds(v) /\ Holds(w) /\ index[v] = index[w]) => v = w

HeldNotDone == \A w \in Thread : \A d \in done : Holds(w) => d[2] # index[w]

ClaimInv ==
  CountersOK /\ HeldBelow /\ DoneBelow /\ HeldApart /\ HeldNotDone /\ ClaimedOnce

LEMMA ClaimInit == Init => ClaimInv
  <1> SUFFICES ASSUME Init PROVE ClaimInv
    OBVIOUS
  <1>1. CountersOK /\ ~ \E w \in Thread : Holds(w)
    BY DEF Init, CountersOK, Labels, Holds
  <1>2. done = {}
    BY DEF Init
  <1> QED
    BY <1>1, <1>2 DEF ClaimInv, HeldBelow, DoneBelow, HeldApart, HeldNotDone, ClaimedOnce

(* A step that claims nothing and injects nothing, and after which no more  *)
(* threads hold an index than before.                                       *)
LEMMA NothingClaimed ==
  ASSUME ClaimInv,
         UNCHANGED <<progress, index, done>>,
         pc' \in [Thread -> Labels],
         \A v \in Thread : Holds(v)' => Holds(v)
  PROVE  ClaimInv'
  BY DEF ClaimInv, CountersOK, HeldBelow, DoneBelow, HeldApart, HeldNotDone, ClaimedOnce

(* A step of one thread from a label to another, neither or both of which   *)
(* are those of a thread that holds an index.                               *)
LEMMA Moves ==
  ASSUME ClaimInv, NEW w \in Thread, NEW label \in Labels,
         Go(w, label),
         label \in {"restore", "replay", "inject"} => Holds(w)
  PROVE  pc' \in [Thread -> Labels] /\ \A v \in Thread : Holds(v)' => Holds(v)
  BY DEF ClaimInv, CountersOK, Go, Holds

LEMMA ClaimStep ==
  ASSUME ClaimInv, NEW w \in Thread, Claim(w)
  PROVE  ClaimInv'
  <1>1. /\ progress \in Nat /\ pc \in [Thread -> Labels] /\ index \in [Thread -> Nat]
        /\ pc[w] = "claim"
        /\ index' = [index EXCEPT ![w] = progress]
        /\ progress' = progress + 1
        /\ done' = done
    BY DEF Claim, ClaimInv, CountersOK
  <1>2. Go(w, "merge") \/ Go(w, "restore") \/ UNCHANGED pc
    <2>1. CASE progress >= IndexBound
      BY <2>1 DEF Claim
    <2>2. CASE ~(progress >= IndexBound) /\ progress \in Indices
      BY <2>2 DEF Claim
    <2>3. CASE ~(progress >= IndexBound) /\ progress \notin Indices
      BY <2>3 DEF Claim
    <2> QED
      BY <2>1, <2>2, <2>3
  <1>3. pc' \in [Thread -> Labels] /\ \A v \in Thread \ {w} : pc'[v] = pc[v]
    BY <1>1, <1>2 DEF Go, Labels
  <1>4. index'[w] = progress /\ \A v \in Thread \ {w} : index'[v] = index[v]
    BY <1>1
  <1>5. CountersOK'
    <2>1. progress' \in Nat
      BY <1>1
    <2>2. index' \in [Thread -> Nat]
      BY <1>1
    <2> QED
      BY <1>3, <2>1, <2>2 DEF CountersOK
  <1>6. HeldBelow'
    BY <1>1, <1>3, <1>4 DEF ClaimInv, HeldBelow, Holds
  <1>7. DoneBelow'
    BY <1>1 DEF ClaimInv, DoneBelow
  <1>8. HeldApart'
    BY <1>1, <1>3, <1>4 DEF ClaimInv, HeldApart, HeldBelow, Holds
  <1>9. HeldNotDone'
    BY <1>1, <1>3, <1>4 DEF ClaimInv, HeldNotDone, DoneBelow, Holds
  <1>10. ClaimedOnce'
    BY <1>1 DEF ClaimInv, ClaimedOnce
  <1> QED
    BY <1>5, <1>6, <1>7, <1>8, <1>9, <1>10 DEF ClaimInv

LEMMA InjectStep ==
  ASSUME ClaimInv, NEW w \in Thread, Inject(w)
  PROVE  ClaimInv'
  <1>1. PICK place : done' = done \union {<<w, index[w], place>>}
    BY DEF Inject
  <1>2. /\ Go(w, "claim") /\ Holds(w)
        /\ UNCHANGED <<progress, index>>
        /\ index[w] \in Nat /\ index[w] < progress
        /\ pc \in [Thread -> Labels]
    BY DEF Inject, ClaimInv, CountersOK, HeldBelow, Holds
  <1>3. /\ pc' \in [Thread -> Labels]
        /\ ~Holds(w)'
        /\ \A v \in Thread : Holds(v)' => v # w /\ Holds(v)
    BY <1>2 DEF Go, Holds, Labels
  <1>4. \A d \in done' : d \in done \/ d = <<w, index[w], place>>
    BY <1>1
  <1>5. CountersOK'
    BY <1>2, <1>3 DEF ClaimInv, CountersOK
  <1>6. HeldBelow' /\ HeldApart'
    BY <1>2, <1>3 DEF ClaimInv, HeldBelow, HeldApart
  <1>7. DoneBelow'
    BY <1>2, <1>4 DEF ClaimInv, DoneBelow
  <1>8. HeldNotDone'
    <2> SUFFICES ASSUME NEW v \in Thread, NEW d \in done', Holds(v)'
                 PROVE  d[2] # index[v]
      BY <1>2 DEF HeldNotDone
    <2>1. v # w /\ Holds(v)
      BY <1>3
    <2>2. CASE d \in done
      BY <2>1, <2>2 DEF ClaimInv, HeldNotDone
    <2>3. CASE d = <<w, index[w], place>>
      BY <1>2, <2>1, <2>3 DEF ClaimInv, HeldApart
    <2> QED
      BY <1>4, <2>2, <2>3
  <1>9. ClaimedOnce'
    <2>1. \A d \in done : d[2] # index[w]
      BY <1>2 DEF ClaimInv, HeldNotDone
    <2> QED
      BY <1>4, <2>1 DEF ClaimInv, ClaimedOnce
  <1> QED
    BY <1>5, <1>6, <1>7, <1>8, <1>9 DEF ClaimInv

LEMMA JoinStep ==
  ASSUME ClaimInv, Join
  PROVE  ClaimInv'
  <1>1. CASE round < Rounds
    <2>1. /\ progress' = 0 /\ done' = {} /\ index' = index
          /\ pc' = [w \in Thread |-> IF w = Main THEN "spawn" ELSE "unborn"]
      BY <1>1 DEF Join
    <2>2. CountersOK' /\ ~ \E w \in Thread : Holds(w)'
      BY <2>1 DEF ClaimInv, CountersOK, Labels, Holds
    <2> QED
      BY <2>1, <2>2 DEF ClaimInv, HeldBelow, DoneBelow, HeldApart, HeldNotDone, ClaimedOnce
  <1>2. CASE ~(round < Rounds)
    <2>1. Go(Main, "returned") /\ UNCHANGED <<progress, index, done>>
      BY <1>2 DEF Join
    <2>2. Main \in Thread /\ "returned" \in Labels
      BY PoolAssumption DEF Labels
    <2> QED
      BY <2>1, <2>2, Moves, NothingClaimed
  <1> QED
    BY <1>1, <1>2

LEMMA ClaimInvariance == ClaimInv /\ [Next]_vars => ClaimInv'
  <1> SUFFICES ASSUME ClaimInv, [Next]_vars PROVE ClaimInv'
    OBVIOUS
  <1>0. Main \in Thread
    BY PoolAssumption
  <1>1. ASSUME NEW w \in Thread, Step(w) PROVE ClaimInv'
    <2>1. CASE Claim(w)
      BY <2>1, ClaimStep
    <2>2. CASE Inject(w)
      BY <2>2, InjectStep
    <2>3. CASE Spawn(w)
      <3>1. Go(w, "collect") /\ UNCHANGED <<progress, index, done>>
        BY <2>3 DEF Spawn, Shared
      <3> QED
        BY <3>1, Moves, NothingClaimed DEF Labels
    <2>4. CASE Collect(w)
      <3>1. Go(w, "claim") /\ UNCHANGED <<progress, index, done>>
        BY <2>4 DEF Collect, Shared
      <3> QED
        BY <3>1, Moves, NothingClaimed DEF Labels
    <2>5. CASE Restore(w)
      <3>1. Holds(w) /\ UNCHANGED <<progress, index, done>>
        BY <2>5 DEF Restore, Shared, Holds
      <3>2. PICK label \in {"inject", "replay"} : Go(w, label)
        BY <2>5 DEF Restore
      <3> QED
        BY <3>1, <3>2, Moves, NothingClaimed DEF Labels
    <2>6. CASE ReplayInstruction(w)
      <3>1. UNCHANGED <<progress, index, done>>
        BY <2>6 DEF ReplayInstruction, Shared
      <3>2. UNCHANGED pc \/ \E label \in {"merge", "crashed"} : Go(w, label)
        BY <2>6 DEF ReplayInstruction
      <3>3. CASE UNCHANGED pc
        BY <3>1, <3>3, NothingClaimed DEF ClaimInv, CountersOK, Holds
      <3>4. ASSUME NEW label \in {"merge", "crashed"}, Go(w, label) PROVE ClaimInv'
        BY <3>1, <3>4, Moves, NothingClaimed DEF Labels
      <3> QED
        BY <3>2, <3>3, <3>4
    <2>7. CASE ReplayRegister(w)
      <3>1. UNCHANGED <<progress, index, done>>
        BY <2>7 DEF ReplayRegister, Shared
      <3>2. UNCHANGED pc \/ Go(w, "crashed")
        BY <2>7 DEF ReplayRegister
      <3>3. CASE UNCHANGED pc
        BY <3>1, <3>3, NothingClaimed DEF ClaimInv, CountersOK, Holds
      <3>4. CASE Go(w, "crashed")
        BY <3>1, <3>4, Moves, NothingClaimed DEF Labels
      <3> QED
        BY <3>2, <3>3, <3>4
    <2>8. CASE Replayed(w)
      <3>1. Holds(w) /\ UNCHANGED <<progress, index, done>>
        BY <2>8 DEF Replayed, Shared, Holds
      <3>2. PICK label \in {"merge", "inject"} : Go(w, label)
        BY <2>8 DEF Replayed
      <3> QED
        BY <3>1, <3>2, Moves, NothingClaimed DEF Labels
    <2>9. CASE Merge(w)
      <3>1. UNCHANGED <<progress, index, done>>
        BY <2>9 DEF Merge
      <3>2. PICK label \in {"join", "finished"} : Go(w, label)
        BY <2>9 DEF Merge
      <3> QED
        BY <3>1, <3>2, Moves, NothingClaimed DEF Labels
    <2> QED
      BY <1>1, <2>1, <2>2, <2>3, <2>4, <2>5, <2>6, <2>7, <2>8, <2>9 DEF Step
  <1>2. CASE Spawned
    <2>1. Go(Main, "collect") /\ UNCHANGED <<progress, index, done>>
      BY <1>2 DEF Spawned, Shared
    <2> QED
      BY <1>0, <2>1, Moves, NothingClaimed DEF Labels
  <1>3. CASE Join
    BY <1>3, JoinStep
  <1>4. CASE Returned \/ UNCHANGED vars
    <2>1. UNCHANGED <<progress, index, done, pc>>
      BY <1>4 DEF Returned, vars, local
    <2> QED
      BY <2>1, NothingClaimed DEF ClaimInv, CountersOK, Holds
  <1> QED
    BY <1>1, <1>2, <1>3, <1>4 DEF Next

(* m_thread_progress and its mutex hand every index to one thread: no two   *)
(* injections of a model list are for the same index.                       *)
THEOREM EveryIndexOnce == Spec => []ClaimedOnce
  <1>1. ClaimInv => ClaimedOnce
    BY DEF ClaimInv
  <1> QED
    BY ClaimInit, ClaimInvariance, <1>1, PTL DEF Spec

-----------------------------------------------------------------------------
(* Where a thread's emulator and snapshot are while it works on an index.   *)
Working(w) == pc[w] \in {"claim", "restore", "replay", "inject"}
AtRest(w)  == pc[w] \in {"claim", "restore", "inject"}
Running(w) == pc[w] \in {"replay", "inject"} /\ target[round] # "permanent"

ProgramOK ==
  /\ Length \in Nat /\ budget \in Nat /\ target \in [1 .. Rounds -> Targets]
  /\ round \in 1 .. Rounds

TypesOK ==
  /\ last \in [Thread -> Nat] /\ saved \in [Thread -> Nat]
  /\ now \in [Thread -> Nat] /\ remaining \in [Thread -> Int]
  /\ found \in [Thread -> SUBSET Nat]

(* The cycles left belong to the snapshot, and to the emulator while it is  *)
(* brought to the next place.                                               *)
CyclesOK(w) ==
  /\ AtRest(w) => remaining[w] + saved[w] = budget
  /\ Running(w) => remaining[w] + now[w] = budget
  /\ pc[w] = "replay" => target[round] # "permanent"

TimeInv == ProgramOK /\ TypesOK /\ \A w \in Thread : CyclesOK(w)

LEMMA ProgramInit ==
  ASSUME Init PROVE ProgramOK
<1>1. PICK n \in 1 .. MaxLength : trace \in [1 .. n + 1 -> Address]
  BY DEF Init
<1>2. n \in Nat /\ n + 1 \in Nat /\ Len(trace) = n + 1
  BY <1>1, PoolAssumption
<1>3. Length \in Nat
  BY <1>2 DEF Length
<1>4. budget \in Nat /\ target \in [1 .. Rounds -> Targets] /\ round \in 1 .. Rounds
  BY PoolAssumption DEF Init
<1>5. QED
  BY <1>3, <1>4 DEF ProgramOK

LEMMA TimeInit ==
  ASSUME Init PROVE TimeInv
<1>1. TypesOK
  BY DEF Init, TypesOK
<1>2. \A w \in Thread : pc[w] \in {"spawn", "unborn"}
  BY DEF Init
<1>3. \A w \in Thread : CyclesOK(w)
  BY <1>2 DEF CyclesOK, AtRest, Running
<1>4. QED
  BY <1>1, <1>3, ProgramInit DEF TimeInv

LEMMA RunLengthFacts ==
  ASSUME ProgramOK
  PROVE  RunLength \in Nat /\ RunLength <= budget /\ RunLength <= Length
BY DEF ProgramOK, RunLength

(* What the steps of one thread leave to the others. *)
Others(w) ==
  \A v \in Thread : v # w =>
    /\ pc'[v] = pc[v] /\ index'[v] = index[v] /\ last'[v] = last[v] /\ saved'[v] = saved[v]
    /\ now'[v] = now[v] /\ remaining'[v] = remaining[v] /\ found'[v] = found[v]

LEMMA StepIsLocal ==
  ASSUME CountersOK, TypesOK, NEW w \in Thread, Step(w)
  PROVE  UNCHANGED <<program, round, results>> /\ Others(w)
<1>1. CASE Spawn(w)
  BY <1>1 DEF Spawn, Go, Shared, Others, CountersOK, TypesOK
<1>2. CASE Collect(w)
  BY <1>2 DEF Collect, Go, Shared, Others, CountersOK, TypesOK
<1>3. CASE Claim(w)
  <2>1. Go(w, "merge") \/ Go(w, "restore") \/ UNCHANGED pc
    BY <1>3 DEF Claim
  <2>2. \A v \in Thread : v # w => pc'[v] = pc[v]
    BY <2>1 DEF Go, CountersOK
  <2>3. QED
    BY <1>3, <2>2 DEF Claim, Others, CountersOK, TypesOK
<1>4. CASE Restore(w)
  BY <1>4 DEF Restore, Go, Shared, Others, CountersOK, TypesOK
<1>5. CASE ReplayInstruction(w)
  <2>1. UNCHANGED pc \/ Go(w, "merge") \/ Go(w, "crashed")
    BY <1>5 DEF ReplayInstruction
  <2>2. \A v \in Thread : v # w => pc'[v] = pc[v]
    BY <2>1 DEF Go, CountersOK
  <2>3. \A v \in Thread : v # w => now'[v] = now[v] /\ remaining'[v] = remaining[v] /\ last'[v] = last[v]
    BY <1>5 DEF ReplayInstruction, TypesOK
  <2>4. QED
    BY <1>5, <2>2, <2>3 DEF ReplayInstruction, Others, Shared
<1>6. CASE ReplayRegister(w)
  <2>1. UNCHANGED pc \/ Go(w, "crashed")
    BY <1>6 DEF ReplayRegister
  <2>2. \A v \in Thread : v # w => pc'[v] = pc[v]
    BY <2>1 DEF Go, CountersOK
  <2>3. \A v \in Thread : v # w => now'[v] = now[v] /\ remaining'[v] = remaining[v] /\ last'[v] = last[v]
    BY <1>6 DEF ReplayRegister, TypesOK
  <2>4. QED
    BY <1>6, <2>2, <2>3 DEF ReplayRegister, Others, Shared
<1>7. CASE Replayed(w)
  <2>1. Go(w, "merge") \/ Go(w, "inject")
    BY <1>7 DEF Replayed
  <2>2. \A v \in Thread : v # w => pc'[v] = pc[v] /\ saved'[v] = saved[v]
    BY <1>7, <2>1 DEF Replayed, Go, CountersOK, TypesOK
  <2>3. QED
    BY <1>7, <2>2 DEF Replayed, Others, Shared
<1>8. CASE Inject(w)
  BY <1>8 DEF Inject, Go, Shared, Others, CountersOK, TypesOK
<1>9. CASE Merge(w)
  <2>1. Go(w, "join") \/ Go(w, "finished")
    BY <1>9 DEF Merge
  <2>2. \A v \in Thread : v # w => pc'[v] = pc[v]
    BY <2>1 DEF Go, CountersOK
  <2>3. QED
    BY <1>9, <2>2 DEF Merge, Others
<1>10. QED
  BY <1>1, <1>2, <1>3, <1>4, <1>5, <1>6, <1>7, <1>8, <1>9 DEF Step

(* A run to an address stops at its first arrival, or does not arrive.      *)
Ahead(w) == Arrivals(now[w], At(CollectedAt(last[w])), remaining[w])

Arrives(w, t) ==
  /\ t \in Nat /\ t \in Ahead(w) /\ \A u \in Ahead(w) : t <= u
  /\ now' = [now EXCEPT ![w] = t]
  /\ remaining' = [remaining EXCEPT ![w] = remaining[w] - (t - now[w])]
  /\ last' = [last EXCEPT ![w] = last[w] + 1]
  /\ UNCHANGED <<pc, index, saved, found>>

NoArrival(w) ==
  /\ Ahead(w) = {}
  /\ Go(w, "merge") \/ Go(w, "crashed")
  /\ UNCHANGED <<now, remaining, last, index, saved, found>>

LEMMA ReplayArrives ==
  ASSUME TypesOK, NEW w \in Thread, ReplayInstruction(w)
  PROVE  Arrives(w, FirstOf(Ahead(w))) \/ NoArrival(w)
<1>1. CASE Ahead(w) = {}
  BY <1>1 DEF ReplayInstruction, Ahead, NoArrival
<1>2. CASE Ahead(w) # {}
  <2> DEFINE S == Ahead(w)
  <2>1. S \in SUBSET Nat
    BY DEF Ahead, Arrivals, TypesOK
  <2>2. /\ now' = [now EXCEPT ![w] = FirstOf(S)]
        /\ remaining' = [remaining EXCEPT ![w] = remaining[w] - (FirstOf(S) - now[w])]
        /\ last' = [last EXCEPT ![w] = last[w] + 1]
        /\ UNCHANGED <<pc, index, saved, found>>
    BY <1>2 DEF ReplayInstruction, Ahead
  <2> HIDE DEF S
  <2>3. \E t \in S : \A u \in S : t <= u
    BY <1>2, <2>1, LeastElement DEF S
  <2>4. FirstOf(S) \in S /\ \A u \in S : FirstOf(S) <= u
    BY <2>3 DEF FirstOf
  <2>5. QED
    BY <2>1, <2>2, <2>4 DEF Arrives, S
<1>3. QED
  BY <1>1, <1>2

LEMMA StepTypes ==
  ASSUME CountersOK, ProgramOK, TypesOK, NEW w \in Thread, Step(w)
  PROVE  TypesOK'
<1>1. CASE Spawn(w) \/ Claim(w) \/ Merge(w)
  BY <1>1 DEF Spawn, Claim, Merge, Shared, TypesOK
<1>2. CASE Collect(w)
  <2>1. RunLength \in Nat /\ budget \in Int
    BY RunLengthFacts DEF ProgramOK
  <2>2. QED
    BY <1>2, <2>1 DEF Collect, TypesOK
<1>3. CASE Restore(w) \/ Replayed(w)
  BY <1>3 DEF Restore, Replayed, TypesOK
<1>4. CASE ReplayInstruction(w)
  <2>1. CASE NoArrival(w)
    BY <2>1 DEF NoArrival, TypesOK
  <2>2. ASSUME NEW t, Arrives(w, t) PROVE TypesOK'
    <3>1. t \in Nat /\ last[w] + 1 \in Nat /\ remaining[w] - (t - now[w]) \in Int
      BY <2>2 DEF Arrives, TypesOK
    <3>2. QED
      BY <2>2, <3>1 DEF Arrives, TypesOK
  <2>3. QED
    BY <1>4, <2>1, <2>2, ReplayArrives
<1>5. CASE ReplayRegister(w)
  <2>1. index[w] \in Nat /\ last[w] \in Nat /\ now[w] \in Nat /\ remaining[w] \in Int /\ last[w] < index[w]
    BY <1>5 DEF ReplayRegister, CountersOK, TypesOK
  <2>2. now[w] + (index[w] - last[w]) \in Nat /\ remaining[w] - (index[w] - last[w]) \in Int
    BY <2>1
  <2>3. QED
    BY <1>5, <2>1, <2>2 DEF ReplayRegister, TypesOK
<1>6. CASE Inject(w)
  <2>1. PICK place \in Nat : found' = [found EXCEPT ![w] = @ \union {place}]
    BY <1>6 DEF Inject, CountersOK, TypesOK
  <2>2. QED
    BY <1>6, <2>1 DEF Inject, TypesOK
<1>7. QED
  BY <1>1, <1>2, <1>3, <1>4, <1>5, <1>6 DEF Step

LEMMA StepCycles ==
  ASSUME CountersOK, ProgramOK, TypesOK, NEW w \in Thread, CyclesOK(w), Step(w)
  PROVE  CyclesOK(w)'
<1>0. UNCHANGED <<budget, target, round>> /\ target[round] \in Targets
  BY StepIsLocal DEF program, ProgramOK
<1>1. CASE Spawn(w)
  <2>1. pc'[w] = "collect"
    BY <1>1 DEF Spawn, Go, CountersOK
  <2>2. QED
    BY <2>1 DEF CyclesOK, AtRest, Running
<1>2. CASE Collect(w)
  <2>1. pc'[w] = "claim" /\ saved'[w] = 0 /\ remaining'[w] = budget /\ budget \in Nat
    BY <1>2 DEF Collect, Go, CountersOK, TypesOK, ProgramOK
  <2>2. QED
    BY <1>0, <2>1 DEF CyclesOK, AtRest, Running
<1>3. CASE Claim(w)
  <2>1. pc[w] = "claim" /\ pc'[w] \in {"claim", "merge", "restore"}
    <3>1. Go(w, "merge") \/ Go(w, "restore") \/ UNCHANGED pc
      BY <1>3 DEF Claim
    <3>2. pc[w] = "claim"
      BY <1>3 DEF Claim
    <3>3. QED
      BY <3>1, <3>2 DEF Go, CountersOK
  <2>2. UNCHANGED <<saved, remaining>>
    BY <1>3 DEF Claim
  <2>3. QED
    BY <1>0, <2>1, <2>2 DEF CyclesOK, AtRest, Running
<1>4. CASE Restore(w)
  <2>1. /\ pc[w] = "restore" /\ now'[w] = saved[w] /\ saved' = saved /\ remaining' = remaining
        /\ pc'[w] = IF target[round] = "permanent" THEN "inject" ELSE "replay"
    BY <1>4 DEF Restore, Go, CountersOK, TypesOK
  <2>2. QED
    BY <1>0, <2>1 DEF CyclesOK, AtRest, Running
<1>5. CASE ReplayInstruction(w)
  <2>1. pc[w] = "replay"
    BY <1>5 DEF ReplayInstruction
  <2>2. CASE NoArrival(w)
    <3>1. pc'[w] \in {"merge", "crashed"}
      BY <2>2 DEF NoArrival, Go, CountersOK
    <3>2. QED
      BY <3>1 DEF CyclesOK, AtRest, Running
  <2>3. ASSUME NEW t, Arrives(w, t) PROVE CyclesOK(w)'
    <3>1. /\ t \in Nat /\ now[w] \in Nat /\ remaining[w] \in Int /\ budget \in Nat
          /\ now'[w] = t /\ remaining'[w] = remaining[w] - (t - now[w]) /\ pc' = pc
      BY <2>3 DEF Arrives, TypesOK, ProgramOK
    <3>2. QED
      BY <1>0, <2>1, <3>1 DEF CyclesOK, AtRest, Running
  <2>4. QED
    BY <1>5, <2>2, <2>3, ReplayArrives
<1>6. CASE ReplayRegister(w)
  <2>1. pc[w] = "replay"
    BY <1>6 DEF ReplayRegister
  <2>2. index[w] \in Nat /\ last[w] \in Nat /\ now[w] \in Nat /\ remaining[w] \in Int /\ budget \in Nat
    BY DEF CountersOK, TypesOK, ProgramOK
  <2>3. CASE now[w] + (index[w] - last[w]) <= Length
    <3>1. /\ now'[w] = now[w] + (index[w] - last[w])
          /\ remaining'[w] = remaining[w] - (index[w] - last[w]) /\ pc' = pc
      BY <1>6, <2>3 DEF ReplayRegister, TypesOK
    <3>2. QED
      BY <1>0, <2>1, <2>2, <3>1 DEF CyclesOK, AtRest, Running
  <2>4. CASE ~(now[w] + (index[w] - last[w]) <= Length)
    <3>1. pc'[w] = "crashed"
      BY <1>6, <2>4 DEF ReplayRegister, Go, CountersOK
    <3>2. QED
      BY <3>1 DEF CyclesOK, AtRest, Running
  <2>5. QED
    BY <2>3, <2>4
<1>7. CASE Replayed(w)
  <2>1. pc[w] = "replay" /\ now' = now /\ remaining' = remaining
    BY <1>7 DEF Replayed
  <2>2. CASE remaining[w] = 0
    <3>1. pc'[w] = "merge"
      BY <1>7, <2>2 DEF Replayed, Go, CountersOK
    <3>2. QED
      BY <3>1 DEF CyclesOK, AtRest, Running
  <2>3. CASE remaining[w] # 0
    <3>1. pc'[w] = "inject" /\ saved'[w] = now[w]
      BY <1>7, <2>3 DEF Replayed, Go, CountersOK, TypesOK
    <3>2. QED
      BY <1>0, <2>1, <3>1 DEF CyclesOK, AtRest, Running
  <2>4. QED
    BY <2>2, <2>3
<1>8. CASE Inject(w)
  <2>1. pc[w] = "inject" /\ pc'[w] = "claim" /\ UNCHANGED <<saved, remaining>>
    BY <1>8 DEF Inject, Go, CountersOK
  <2>2. QED
    BY <1>0, <2>1 DEF CyclesOK, AtRest, Running
<1>9. CASE Merge(w)
  <2>1. pc'[w] \in {"join", "finished"}
    BY <1>9 DEF Merge, Go, CountersOK
  <2>2. QED
    BY <2>1 DEF CyclesOK, AtRest, Running
<1>10. QED
  BY <1>1, <1>2, <1>3, <1>4, <1>5, <1>6, <1>7, <1>8, <1>9 DEF Step

LEMMA TimeStep == ClaimInv /\ TimeInv /\ [Next]_vars => TimeInv'
<1> SUFFICES ASSUME ClaimInv, TimeInv, [Next]_vars PROVE TimeInv'
  OBVIOUS
<1>0. CountersOK /\ ProgramOK /\ TypesOK /\ Main \in Thread
  BY PoolAssumption DEF ClaimInv, TimeInv
<1>1. ASSUME NEW w \in Thread, Step(w) PROVE TimeInv'
  <2>1. UNCHANGED <<program, round>> /\ Others(w)
    BY <1>0, <1>1, StepIsLocal
  <2>2. ProgramOK'
    BY <1>0, <2>1 DEF program, ProgramOK, Length
  <2>3. TypesOK'
    BY <1>0, <1>1, StepTypes
  <2>4. ASSUME NEW v \in Thread PROVE CyclesOK(v)'
    <3>1. CyclesOK(v)
      BY DEF TimeInv
    <3>2. CASE v = w
      BY <1>0, <1>1, <3>1, <3>2, StepCycles
    <3>3. CASE v # w
      BY <2>1, <3>1, <3>3 DEF Others, program, CyclesOK, AtRest, Running
    <3>4. QED
      BY <3>2, <3>3
  <2>5. QED
    BY <2>2, <2>3, <2>4 DEF TimeInv
<1>2. CASE Spawned
  <2>1. /\ UNCHANGED <<program, round, last, saved, now, remaining, found>>
        /\ pc'[Main] = "collect" /\ \A v \in Thread : v # Main => pc'[v] = pc[v]
    BY <1>0, <1>2 DEF Spawned, Shared, Go, CountersOK
  <2>2. ProgramOK' /\ TypesOK'
    BY <1>0, <2>1 DEF program, ProgramOK, Length, TypesOK
  <2>3. \A v \in Thread : CyclesOK(v)'
    BY <2>1 DEF TimeInv, program, CyclesOK, AtRest, Running
  <2>4. QED
    BY <2>2, <2>3 DEF TimeInv
<1>3. CASE Join
  <2>1. UNCHANGED <<program, last, saved, now, remaining, found>>
    BY <1>3 DEF Join
  <2>2. \A v \in Thread : pc'[v] \in {"spawn", "unborn", "finished", "returned"}
    <3>1. \A v \in Thread : v # Main => pc[v] = "finished"
      BY <1>3 DEF Join
    <3>2. \/ pc' = [w \in Thread |-> IF w = Main THEN "spawn" ELSE "unborn"]
          \/ Go(Main, "returned")
      BY <1>3 DEF Join
    <3>3. QED
      BY <1>0, <3>1, <3>2 DEF Go, CountersOK
  <2>3. ProgramOK' /\ TypesOK'
    <3>1. round' \in 1 .. Rounds
      BY <1>0, <1>3, PoolAssumption DEF Join, ProgramOK
    <3>2. QED
      BY <1>0, <2>1, <3>1 DEF program, ProgramOK, Length, TypesOK
  <2>4. \A v \in Thread : CyclesOK(v)'
    BY <2>2 DEF CyclesOK, AtRest, Running
  <2>5. QED
    BY <2>3, <2>4 DEF TimeInv
<1>4. CASE Returned \/ UNCHANGED vars
  <2>1. UNCHANGED <<program, round, pc, last, saved, now, remaining, found>>
    BY <1>4 DEF Returned, vars, local
  <2>2. ProgramOK' /\ TypesOK'
    BY <1>0, <2>1 DEF program, ProgramOK, Length, TypesOK
  <2>3. \A v \in Thread : CyclesOK(v)'
    BY <2>1 DEF TimeInv, program, CyclesOK, AtRest, Running
  <2>4. QED
    BY <2>2, <2>3 DEF TimeInv
<1>5. QED
  BY <1>1, <1>2, <1>3, <1>4 DEF Next

(* For every program, with any branches and ignored ranges, the cycles      *)
(* left when a fault is injected and those run so far add up to the         *)
(* timeout: replaying from one place to the next costs no fault its time.   *)
THEOREM WholeTimeout == Spec => []TimeoutPerFault
<1>1. TimeInv => TimeoutPerFault
  BY DEF TimeInv, CyclesOK, Running, TimeoutPerFault
<1>2. Init => TimeInv
  BY TimeInit
<1>3. QED
  BY ClaimInit, ClaimInvariance, <1>1, <1>2, TimeStep, PTL DEF Spec

-----------------------------------------------------------------------------
Straight ==
  /\ \A t \in 0 .. Length - 1 : At(t) # At(t + 1)
  /\ skipped = {} /\ ignored.start \in Nat /\ ignored.end \in Nat /\ ignored.end >= Length
  /\ Length >= 1 /\ budget >= 1

(* The number of places of the round: times, or entries of flash. *)
FaultTimes == IF ignored.start < RunLength THEN ignored.start ELSE RunLength
Places == IF target[round] = "permanent" THEN Faultable ELSE FaultTimes

(* How far a thread whose emulator is at a time has come in its list. *)
Agrees(w, time) ==
  CASE target[round] = "instruction" -> last[w] = time + 1 \/ (last[w] = 0 /\ time = 0)
    [] target[round] = "register"    -> last[w] = time
    [] OTHER                         -> TRUE

Reached(w) == last[w] = IF target[round] = "instruction" THEN index[w] + 1 ELSE index[w]

ReplayOK(w) ==
  /\ pc[w] = "claim" => Agrees(w, saved[w]) /\ last[w] <= progress
  /\ pc[w] = "restore" => Agrees(w, saved[w]) /\ last[w] <= index[w]
  /\ pc[w] = "replay" => Agrees(w, now[w]) /\ (last[w] <= index[w] \/ Reached(w))
  /\ pc[w] = "inject" => Agrees(w, saved[w]) /\ last[w] <= index[w] + 1
  /\ pc[w] = "inject" /\ Running(w) => now[w] = index[w]
  /\ Holds(w) => index[w] < Places
  /\ pc[w] \in {"merge", "finished", "join"} => progress >= IndexBound
  /\ pc[w] # "crashed"

-----------------------------------------------------------------------------
Merged(w) == pc[w] \in {"finished", "join", "returned"}
Active(w) == Working(w) \/ pc[w] = "merge"

DoneInv ==
  /\ \A d \in done : d[1] \in Thread /\ (Active(d[1]) \/ Merged(d[1]))
  /\ \A d \in done : d[3] = d[2] /\ d[2] < Places
  /\ \A i \in Nat : i < progress /\ i < Places =>
       \/ \E d \in done : d[2] = i
       \/ \E w \in Thread : Holds(w) /\ index[w] = i

FoundInv ==
  /\ \A w \in Thread : Active(w) => \A x : x \in found[w] <=> \E d \in done : d[1] = w /\ d[3] = x
  /\ pc[Main] # "returned" => \A x : x \in new <=> \E d \in done : Merged(d[1]) /\ d[3] = x

Expected(r) == IF target[r] = "permanent" THEN 0 .. Faultable - 1 ELSE CollectedTimes

ResultsInv ==
  /\ results \in Seq(SUBSET Nat)
  /\ pc[Main] # "returned" => Len(results) = round - 1
  /\ \A r \in 1 .. Len(results) : r \in 1 .. Rounds /\ results[r] = Expected(r)

PlaceInv == Straight /\ (\A w \in Thread : ReplayOK(w)) /\ DoneInv /\ FoundInv /\ ResultsInv

-----------------------------------------------------------------------------
LEMMA StraightStart ==
  ASSUME StraightInit PROVE Straight
<1>1. Init /\ \A t \in 0 .. Length - 1 : At(t) # At(t + 1)
  BY DEF StraightInit
<1>2. skipped = {} /\ ignored.end = MaxLength
  BY DEF StraightInit
<1>3. PICK n \in 1 .. MaxLength : trace \in [1 .. n + 1 -> Address]
  BY <1>1 DEF Init
<1>4. n \in Nat /\ Len(trace) = n + 1 /\ n <= MaxLength /\ n >= 1
  BY <1>3, PoolAssumption
<1>5. Length = n /\ MaxLength >= Length /\ Length >= 1 /\ MaxLength \in Nat
  BY <1>4, PoolAssumption DEF Length
<1>6. ignored.start \in Nat /\ budget >= 1
  BY <1>1, PoolAssumption DEF Init
<1>7. QED
  BY <1>1, <1>2, <1>5, <1>6 DEF Straight

(* The instructions to fault are those before the ignored end of the run,   *)
(* so that the i-th of them is executed at time i.                          *)
LEMMA StraightTimes ==
  ASSUME ProgramOK, Straight
  PROVE  /\ FaultTimes \in Nat /\ FaultTimes <= RunLength
         /\ CollectedTimes = 0 .. FaultTimes - 1
         /\ Cardinality(CollectedTimes) = FaultTimes
         /\ \A i \in Nat : i < FaultTimes => CollectedAt(i) = i
         /\ \A t \in Nat : t < RunLength => (Ignored(t) <=> t >= FaultTimes)
<1>1. RunLength \in Nat /\ RunLength <= Length /\ Length \in Nat /\ ignored.start \in Nat
  BY RunLengthFacts DEF ProgramOK, Straight
<1>2. FaultTimes \in Nat /\ FaultTimes <= RunLength /\ FaultTimes <= ignored.start
  BY <1>1 DEF FaultTimes
<1>3. \A t \in Nat : t < RunLength => (Ignored(t) <=> t >= FaultTimes)
  <2>1. SUFFICES ASSUME NEW t \in Nat, t < RunLength PROVE Ignored(t) <=> t >= FaultTimes
    OBVIOUS
  <2>2. At(t) \notin skipped
    BY DEF Straight
  <2>3. t < ignored.end
    BY <1>1, <2>1 DEF Straight
  <2>4. Ignored(t) <=> ignored.start <= t
    BY <2>2, <2>3 DEF Ignored
  <2>5. QED
    BY <1>1, <2>1, <2>4 DEF FaultTimes
<1>4. \A t : t \in CollectedTimes <=> t \in Nat /\ t < FaultTimes
  BY <1>1, <1>2, <1>3 DEF CollectedTimes
<1>5. CollectedTimes = 0 .. FaultTimes - 1
  <2>1. \A t : t \in 0 .. FaultTimes - 1 <=> t \in Nat /\ t < FaultTimes
    BY <1>2
  <2>2. QED
    BY <1>4, <2>1, Zenon
<1>6. \A n \in Nat : Cardinality(0 .. n - 1) = n
  <2>1. SUFFICES ASSUME NEW n \in Nat PROVE Cardinality(0 .. n - 1) = n
    OBVIOUS
  <2>2. Cardinality(0 .. n - 1) = IF 0 > n - 1 THEN 0 ELSE (n - 1) - 0 + 1
    BY FS_Interval
  <2>3. QED
    BY <2>2
<1>7. ASSUME NEW i \in Nat, i < FaultTimes PROVE CollectedAt(i) = i
  <2>1. ASSUME NEW t \in CollectedTimes PROVE Cardinality({u \in CollectedTimes : u < t}) = t
    <3>1. t \in Nat /\ t < FaultTimes
      BY <1>4
    <3>2. {u \in CollectedTimes : u < t} = 0 .. t - 1
      BY <1>2, <1>4, <3>1
    <3>3. QED
      BY <1>6, <3>1, <3>2
  <2>2. i \in CollectedTimes
    BY <1>4, <1>7
  <2>3. \A t \in CollectedTimes : Cardinality({u \in CollectedTimes : u < t}) = i <=> t = i
    BY <2>1
  <2>4. QED
    BY <2>2, <2>3 DEF CollectedAt
<1>8. QED
  BY <1>2, <1>3, <1>5, <1>6, <1>7

LEMMA PlacesOfRound ==
  ASSUME ProgramOK, Straight
  PROVE  /\ Places \in Nat /\ IndexBound \in Nat /\ Places <= IndexBound
         /\ target[round] # "permanent" => Places = FaultTimes
         /\ \A i \in Nat : i \in Indices <=> i < Places
         /\ \A i \in Nat : i < Places => Place(i) = i
         /\ \A x : x \in Expected(round) <=> x \in Nat /\ x < Places
<1>0. target[round] \in Targets /\ Faultable \in Nat
  BY PoolAssumption DEF ProgramOK
<1>1. /\ FaultTimes \in Nat /\ FaultTimes <= RunLength /\ RunLength \in Nat
      /\ Cardinality(CollectedTimes) = FaultTimes
      /\ \A i \in Nat : i < FaultTimes => CollectedAt(i) = i
      /\ \A t \in Nat : t < RunLength => (Ignored(t) <=> t >= FaultTimes)
  BY StraightTimes, RunLengthFacts
<1>2. \A x : x \in CollectedTimes <=> x \in Nat /\ x < FaultTimes
  BY StraightTimes
<1>3. CASE target[round] = "instruction"
  <2>1. IndexBound = FaultTimes /\ Places = FaultTimes
    BY <1>1, <1>3 DEF IndexBound, Places
  <2>2. QED
    BY <1>1, <1>2, <1>3, <2>1 DEF Indices, Place, Expected
<1>4. CASE target[round] = "register"
  <2>1. IndexBound = RunLength /\ Places = FaultTimes
    BY <1>4 DEF IndexBound, Places
  <2>2. \A i \in Nat : i \in Indices <=> i < Places
    BY <1>1, <1>4, <2>1 DEF Indices
  <2>3. QED
    BY <1>1, <1>2, <1>4, <2>1, <2>2 DEF Place, Expected
<1>5. CASE target[round] = "permanent"
  <2>1. IndexBound = Faultable /\ Places = Faultable
    BY <1>5 DEF IndexBound, Places
  <2>2. QED
    BY <1>0, <1>5, <2>1 DEF Indices, Place, Expected
<1>6. QED
  BY <1>0, <1>3, <1>4, <1>5 DEF Targets

(* Nothing but the step to the next round changes what is to be faulted.    *)
LEMMA SameProgram ==
  ASSUME UNCHANGED program
  PROVE  /\ Straight' = Straight /\ FaultTimes' = FaultTimes /\ CollectedTimes' = CollectedTimes
         /\ \A r \in 1 .. Rounds : Expected(r)' = Expected(r)
         /\ UNCHANGED round => Places' = Places /\ IndexBound' = IndexBound
<1>1. UNCHANGED <<trace, budget, ignored, skipped, target>>
  BY DEF program
<1>2. Length' = Length /\ RunLength' = RunLength /\ \A t : At(t)' = At(t)
  BY <1>1 DEF Length, RunLength, At
<1>3. \A t : Ignored(t)' = Ignored(t)
  BY <1>1, <1>2 DEF Ignored
<1>4. CollectedTimes' = CollectedTimes
  BY <1>2, <1>3 DEF CollectedTimes
<1>5. FaultTimes' = FaultTimes
  BY <1>1, <1>2 DEF FaultTimes
<1>6. Straight' = Straight
  BY <1>1, <1>2 DEF Straight
<1>7. \A r \in 1 .. Rounds : Expected(r)' = Expected(r)
  BY <1>1, <1>4 DEF Expected
<1>8. UNCHANGED round => Places' = Places /\ IndexBound' = IndexBound
  BY <1>1, <1>2, <1>4, <1>5 DEF Places, IndexBound
<1>9. QED
  BY <1>4, <1>5, <1>6, <1>7, <1>8

-----------------------------------------------------------------------------
(* What the replay may rely on. *)
Base(w) ==
  ClaimInv /\ TimeInv /\ Straight /\ ReplayOK(w)

LEMMA BaseFacts ==
  ASSUME NEW w \in Thread, Base(w)
  PROVE  /\ CountersOK /\ ProgramOK /\ TypesOK /\ CyclesOK(w)
         /\ target[round] \in Targets /\ budget \in Nat /\ Length \in Nat
         /\ index[w] \in Nat /\ last[w] \in Nat /\ saved[w] \in Nat /\ now[w] \in Nat
         /\ remaining[w] \in Int /\ progress \in Nat /\ pc[w] \in Labels
         /\ Holds(w) => index[w] < progress
BY DEF Base, ClaimInv, TimeInv, CountersOK, ProgramOK, TypesOK, HeldBelow

(* No two instructions in a row are the same, so a run to the address of    *)
(* the next one of the list ends at its time.                               *)
LEMMA ReplayFinds ==
  ASSUME NEW w \in Thread, Base(w), ReplayInstruction(w)
  PROVE  /\ now'[w] = last[w] /\ last'[w] = last[w] + 1
         /\ pc[w] = "replay" /\ UNCHANGED <<pc, index, saved, found>>
         /\ target[round] = "instruction" /\ last[w] <= index[w]
<1>0. /\ CountersOK /\ ProgramOK /\ TypesOK /\ CyclesOK(w)
      /\ index[w] \in Nat /\ last[w] \in Nat /\ now[w] \in Nat /\ remaining[w] \in Int
      /\ budget \in Nat /\ Length \in Nat
  BY BaseFacts
<1>1. pc[w] = "replay" /\ target[round] = "instruction" /\ last[w] <= index[w]
  BY DEF ReplayInstruction
<1>2. Straight /\ Agrees(w, now[w]) /\ index[w] < Places
  BY <1>1 DEF Base, ReplayOK, Holds
<1>3. /\ FaultTimes \in Nat /\ Places = FaultTimes /\ FaultTimes <= RunLength
      /\ RunLength \in Nat /\ RunLength <= budget /\ RunLength <= Length
  BY <1>0, <1>1, <1>2, StraightTimes, PlacesOfRound, RunLengthFacts
<1>4. last[w] < FaultTimes /\ last[w] < budget /\ last[w] < Length
  BY <1>0, <1>1, <1>2, <1>3
<1>5. CollectedAt(last[w]) = last[w]
  BY <1>0, <1>2, <1>4, StraightTimes
<1>6. remaining[w] + now[w] = budget
  BY <1>0, <1>1 DEF CyclesOK, Running
<1>7. last[w] = now[w] + 1 \/ (last[w] = 0 /\ now[w] = 0)
  BY <1>1, <1>2 DEF Agrees
<1>8. last[w] \in Ahead(w)
  BY <1>0, <1>4, <1>5, <1>6, <1>7 DEF Ahead, Arrivals
<1>9. ASSUME NEW u \in Ahead(w) PROVE last[w] <= u
  <2>1. u \in Nat /\ now[w] <= u /\ At(u) = At(last[w])
    BY <1>0, <1>5 DEF Ahead, Arrivals
  <2>2. last[w] = now[w] + 1 => At(now[w]) # At(last[w])
    BY <1>0, <1>2, <1>4 DEF Straight
  <2>3. QED
    BY <1>0, <1>7, <2>1, <2>2
<1>10. ~NoArrival(w)
  BY <1>8 DEF NoArrival
<1>11. Arrives(w, FirstOf(Ahead(w)))
  BY <1>0, <1>10, ReplayArrives
<1>12. FirstOf(Ahead(w)) = last[w]
  BY <1>0, <1>8, <1>9, <1>11 DEF Arrives
<1>13. QED
  BY <1>0, <1>1, <1>11, <1>12 DEF Arrives, TypesOK

(* Running on for the difference of two indices ends at the time of the     *)
(* second one.                                                              *)
LEMMA ReplayRuns ==
  ASSUME NEW w \in Thread, Base(w), ReplayRegister(w)
  PROVE  /\ now'[w] = index[w] /\ last'[w] = index[w]
         /\ pc[w] = "replay" /\ UNCHANGED <<pc, index, saved, found>>
         /\ target[round] = "register"
<1>0. /\ CountersOK /\ ProgramOK /\ TypesOK
      /\ index[w] \in Nat /\ last[w] \in Nat /\ now[w] \in Nat /\ Length \in Nat
  BY BaseFacts
<1>1. pc[w] = "replay" /\ target[round] = "register" /\ last[w] < index[w]
  BY DEF ReplayRegister
<1>2. Straight /\ Agrees(w, now[w]) /\ index[w] < Places
  BY <1>1 DEF Base, ReplayOK, Holds
<1>3. last[w] = now[w]
  BY <1>1, <1>2 DEF Agrees
<1>4. /\ Places \in Nat /\ Places = FaultTimes /\ FaultTimes <= RunLength
      /\ RunLength \in Nat /\ RunLength <= Length
  BY <1>0, <1>1, <1>2, StraightTimes, PlacesOfRound, RunLengthFacts
<1>5. now[w] + (index[w] - last[w]) = index[w] /\ index[w] <= Length
  BY <1>0, <1>2, <1>3, <1>4
<1>6. QED
  BY <1>0, <1>1, <1>5 DEF ReplayRegister, TypesOK, Shared

(* When the replay is over the emulator is at the index, with cycles left.  *)
LEMMA ReplayEnds ==
  ASSUME NEW w \in Thread, Base(w), Replayed(w)
  PROVE  /\ now[w] = index[w] /\ now' = now /\ Reached(w)
         /\ pc[w] = "replay" /\ pc'[w] = "inject" /\ saved'[w] = now[w]
         /\ UNCHANGED <<index, last, found>> /\ target[round] # "permanent"
<1>0. /\ CountersOK /\ ProgramOK /\ TypesOK /\ CyclesOK(w) /\ budget \in Nat
      /\ index[w] \in Nat /\ last[w] \in Nat /\ now[w] \in Nat /\ remaining[w] \in Int
  BY BaseFacts
<1>1. pc[w] = "replay"
  BY DEF Replayed
<1>2. Straight /\ Agrees(w, now[w]) /\ index[w] < Places /\ (last[w] <= index[w] \/ Reached(w))
  BY <1>1 DEF Base, ReplayOK, Holds
<1>3. target[round] # "permanent" /\ remaining[w] + now[w] = budget
  BY <1>0, <1>1 DEF CyclesOK, Running
<1>4. now[w] = index[w] /\ Reached(w)
  <2>1. CASE target[round] = "instruction"
    <3>1. last[w] = index[w] + 1 /\ Reached(w)
      BY <1>0, <1>2, <2>1 DEF Replayed, Reached
    <3>2. last[w] = now[w] + 1 \/ last[w] = 0
      BY <1>2, <2>1 DEF Agrees
    <3>3. QED
      BY <1>0, <3>1, <3>2
  <2>2. CASE target[round] = "register"
    <3>1. last[w] = index[w] /\ Reached(w)
      BY <1>0, <1>2, <2>2 DEF Replayed, Reached
    <3>2. last[w] = now[w]
      BY <1>2, <2>2 DEF Agrees
    <3>3. QED
      BY <3>1, <3>2
  <2>3. QED
    BY <2>1, <2>2 DEF Replayed
<1>5. /\ Places \in Nat /\ Places = FaultTimes /\ FaultTimes <= RunLength
      /\ RunLength \in Nat /\ RunLength <= budget
  BY <1>0, <1>2, <1>3, StraightTimes, PlacesOfRound, RunLengthFacts
<1>6. remaining[w] # 0
  BY <1>0, <1>2, <1>3, <1>4, <1>5
<1>7. QED
  BY <1>0, <1>1, <1>3, <1>4, <1>6 DEF Replayed, Go, Shared, CountersOK, TypesOK

(* A claim takes the counter as index, if there is something to fault.      *)
LEMMA ClaimTakes ==
  ASSUME NEW w \in Thread, Base(w), Claim(w)
  PROVE  /\ pc[w] = "claim" /\ index'[w] = progress /\ progress' = progress + 1
         /\ UNCHANGED <<done, new, last, saved, now, remaining, found>>
         /\ \/ pc'[w] = "merge" /\ progress >= IndexBound
            \/ pc'[w] = "restore" /\ progress < Places
            \/ pc'[w] = "claim" /\ progress >= Places
<1>0. CountersOK /\ ProgramOK /\ Straight /\ progress \in Nat
  BY BaseFacts DEF Base
<1>1. /\ pc[w] = "claim" /\ index'[w] = progress /\ progress' = progress + 1
      /\ UNCHANGED <<done, new, last, saved, now, remaining, found>>
  BY <1>0 DEF Claim, CountersOK
<1>2. progress \in Indices <=> progress < Places
  BY <1>0, PlacesOfRound
<1>3. CASE progress >= IndexBound
  <2>1. progress \notin Indices
    BY <1>0, <1>2, <1>3, PlacesOfRound
  <2>2. Go(w, "merge")
    BY <1>3, <2>1 DEF Claim
  <2>3. QED
    BY <1>0, <1>1, <1>3, <2>2 DEF Go, CountersOK
<1>4. CASE ~(progress >= IndexBound) /\ progress \in Indices
  <2>1. Go(w, "restore")
    BY <1>4 DEF Claim
  <2>2. QED
    BY <1>0, <1>1, <1>2, <1>4, <2>1 DEF Go, CountersOK
<1>5. CASE ~(progress >= IndexBound) /\ progress \notin Indices
  <2>1. pc' = pc
    BY <1>5 DEF Claim
  <2>2. Places \in Nat
    BY <1>0, PlacesOfRound
  <2>3. QED
    BY <1>0, <1>1, <1>2, <1>5, <2>1, <2>2
<1>6. QED
  BY <1>3, <1>4, <1>5

LEMMA InjectPuts ==
  ASSUME NEW w \in Thread, Base(w), Inject(w)
  PROVE  /\ pc[w] = "inject" /\ pc'[w] = "claim" /\ index[w] < Places
         /\ done' = done \union {<<w, index[w], index[w]>>}
         /\ found'[w] = found[w] \union {index[w]}
         /\ UNCHANGED <<progress, new, index, last, saved, now, remaining>>
<1>0. CountersOK /\ TypesOK
  BY BaseFacts
<1>1. pc[w] = "inject"
  BY DEF Inject
<1>2. target[round] # "permanent" => now[w] = index[w]
  BY <1>1 DEF Base, ReplayOK, Running
<1>3. (IF target[round] = "permanent" THEN index[w] ELSE now[w]) = index[w]
  BY <1>2
<1>4. index[w] < Places
  BY <1>1 DEF Base, ReplayOK, Holds
<1>5. QED
  BY <1>0, <1>1, <1>3, <1>4 DEF Inject, Go, CountersOK, TypesOK

-----------------------------------------------------------------------------
LEMMA StepReplayOK ==
  ASSUME NEW w \in Thread, Base(w), Step(w)
  PROVE  ReplayOK(w)'
<1>0. /\ CountersOK /\ ProgramOK /\ TypesOK /\ Straight /\ ReplayOK(w)
      /\ target[round] \in Targets /\ index[w] \in Nat /\ last[w] \in Nat
      /\ progress \in Nat /\ pc[w] \in Labels /\ (Holds(w) => index[w] < progress)
  BY BaseFacts DEF Base
<1>1. UNCHANGED <<program, round>> /\ target'[round'] = target[round]
  BY <1>0, StepIsLocal DEF program
<1>2. Places' = Places /\ IndexBound' = IndexBound /\ Places \in Nat /\ IndexBound \in Nat
  BY <1>0, <1>1, SameProgram, PlacesOfRound
<1>3. CASE Spawn(w)
  <2>1. pc'[w] = "collect"
    BY <1>0, <1>3 DEF Spawn, Go, CountersOK
  <2>2. QED
    BY <2>1 DEF ReplayOK, Holds, Running
<1>4. CASE Collect(w)
  <2>1. pc'[w] = "claim" /\ last'[w] = 0 /\ saved'[w] = 0 /\ progress' = progress
    BY <1>0, <1>4 DEF Collect, Go, Shared, CountersOK, TypesOK
  <2>2. Agrees(w, saved[w])'
    BY <2>1 DEF Agrees
  <2>3. QED
    BY <1>0, <2>1, <2>2 DEF ReplayOK, Holds, Running
<1>5. CASE Claim(w)
  <2>1. /\ pc[w] = "claim" /\ index'[w] = progress /\ progress' = progress + 1
        /\ last' = last /\ saved' = saved
        /\ \/ pc'[w] = "merge" /\ progress >= IndexBound
           \/ pc'[w] = "restore" /\ progress < Places
           \/ pc'[w] = "claim" /\ progress >= Places
    BY <1>5, ClaimTakes
  <2>2. Agrees(w, saved[w]) /\ last[w] <= progress
    BY <1>0, <2>1 DEF ReplayOK
  <2>3. Agrees(w, saved[w])'
    BY <1>1, <2>1, <2>2 DEF Agrees
  <2>4. QED
    BY <1>0, <1>2, <2>1, <2>2, <2>3 DEF ReplayOK, Holds, Running
<1>6. CASE Restore(w)
  <2>1. /\ pc[w] = "restore" /\ now'[w] = saved[w] /\ UNCHANGED <<saved, last, index, progress>>
        /\ pc'[w] = IF target[round] = "permanent" THEN "inject" ELSE "replay"
    BY <1>0, <1>6 DEF Restore, Go, Shared, CountersOK, TypesOK
  <2>2. Agrees(w, saved[w]) /\ last[w] <= index[w] /\ index[w] < Places
    BY <1>0, <2>1 DEF ReplayOK, Holds
  <2>3. Agrees(w, saved[w])' /\ Agrees(w, now[w])'
    BY <1>1, <2>1, <2>2 DEF Agrees
  <2>4. QED
    BY <1>0, <1>1, <1>2, <2>1, <2>2, <2>3 DEF ReplayOK, Holds, Running
<1>7. CASE ReplayInstruction(w)
  <2>1. /\ now'[w] = last[w] /\ last'[w] = last[w] + 1 /\ pc'[w] = "replay" /\ index' = index
        /\ target[round] = "instruction" /\ last[w] <= index[w] /\ index[w] < Places
    BY <1>0, <1>7, ReplayFinds DEF ReplayOK, Holds
  <2>2. Agrees(w, now[w])'
    BY <1>1, <2>1 DEF Agrees
  <2>3. last'[w] <= index'[w] \/ Reached(w)'
    BY <1>0, <1>1, <2>1 DEF Reached
  <2>4. QED
    BY <1>2, <2>1, <2>2, <2>3 DEF ReplayOK, Holds
<1>8. CASE ReplayRegister(w)
  <2>1. /\ now'[w] = index[w] /\ last'[w] = index[w] /\ pc[w] = "replay" /\ pc'[w] = "replay"
        /\ index' = index /\ target[round] = "register"
    BY <1>8, ReplayRuns
  <2>2. Agrees(w, now[w])' /\ last'[w] <= index'[w] /\ index[w] < Places
    BY <1>0, <1>1, <2>1 DEF Agrees, ReplayOK, Holds
  <2>3. QED
    BY <1>2, <2>1, <2>2 DEF ReplayOK, Holds
<1>9. CASE Replayed(w)
  <2>1. /\ now[w] = index[w] /\ now' = now /\ Reached(w)
        /\ pc[w] = "replay" /\ pc'[w] = "inject" /\ saved'[w] = now[w]
        /\ UNCHANGED <<index, last>>
    BY <1>9, ReplayEnds
  <2>2. Agrees(w, now[w]) /\ index[w] < Places
    BY <1>0, <2>1 DEF ReplayOK, Holds
  <2>3. Agrees(w, saved[w])'
    BY <1>1, <2>1, <2>2 DEF Agrees
  <2>4. last[w] <= index[w] + 1
    BY <1>0, <2>1 DEF Reached
  <2>5. QED
    BY <1>2, <2>1, <2>2, <2>3, <2>4 DEF ReplayOK, Holds, Running
<1>10. CASE Inject(w)
  <2>1. /\ pc[w] = "inject" /\ pc'[w] = "claim"
        /\ UNCHANGED <<progress, index, last, saved>>
    BY <1>10, InjectPuts
  <2>2. Agrees(w, saved[w]) /\ last[w] <= index[w] + 1 /\ index[w] < progress
    BY <1>0, <2>1 DEF ReplayOK, Holds
  <2>3. Agrees(w, saved[w])'
    BY <1>1, <2>1, <2>2 DEF Agrees
  <2>4. QED
    BY <1>0, <2>1, <2>2, <2>3 DEF ReplayOK, Holds, Running
<1>11. CASE Merge(w)
  <2>1. pc[w] = "merge" /\ pc'[w] \in {"join", "finished"} /\ progress' = progress
    BY <1>0, <1>11 DEF Merge, Go, CountersOK
  <2>2. progress >= IndexBound
    BY <1>0, <2>1 DEF ReplayOK
  <2>3. QED
    BY <1>2, <2>1, <2>2 DEF ReplayOK, Holds, Running
<1>12. QED
  BY <1>3, <1>4, <1>5, <1>6, <1>7, <1>8, <1>9, <1>10, <1>11 DEF Step

(* The counter only moves on during a round. *)
LEMMA CounterMoves ==
  ASSUME CountersOK, NEW w \in Thread, Step(w)
  PROVE  progress' \in Nat /\ progress' >= progress
<1>1. progress' = progress \/ progress' = progress + 1
  BY DEF Step, Spawn, Collect, Claim, Restore, ReplayInstruction, ReplayRegister, Replayed, Inject,
         Merge, Shared
<1>2. QED
  BY <1>1 DEF CountersOK

LEMMA OtherReplayOK ==
  ASSUME CountersOK, ProgramOK, TypesOK, Straight, NEW w \in Thread, Step(w),
         NEW v \in Thread, v # w, ReplayOK(v)
  PROVE  ReplayOK(v)'
<1>1. UNCHANGED <<program, round>> /\ Others(w) /\ target'[round'] = target[round]
  BY StepIsLocal DEF program
<1>2. Places' = Places /\ IndexBound' = IndexBound /\ IndexBound \in Nat
  BY <1>1, SameProgram, PlacesOfRound
<1>3. progress \in Nat /\ progress' \in Nat /\ progress' >= progress /\ last[v] \in Nat
  BY CounterMoves DEF CountersOK, TypesOK
<1>4. /\ pc'[v] = pc[v] /\ index'[v] = index[v] /\ last'[v] = last[v] /\ saved'[v] = saved[v]
      /\ now'[v] = now[v]
  BY <1>1 DEF Others
<1>5. /\ Agrees(v, saved[v])' = Agrees(v, saved[v]) /\ Agrees(v, now[v])' = Agrees(v, now[v])
      /\ Reached(v)' = Reached(v) /\ Running(v)' = Running(v) /\ Holds(v)' = Holds(v)
  BY <1>1, <1>4 DEF Agrees, Reached, Running, Holds
<1>6. QED
  BY <1>2, <1>3, <1>4, <1>5 DEF ReplayOK

-----------------------------------------------------------------------------
(* What has been injected, what a thread has found, and what was merged.    *)
Merging(w) == Active(w) \/ Merged(w)

(* A step of a thread that neither claims, injects nor merges.              *)
LEMMA QuietStep ==
  ASSUME CountersOK, DoneInv, FoundInv, NEW w \in Thread, Others(w),
         UNCHANGED <<program, round, done, progress, new>>, index'[w] = index[w],
         Merging(w) => Active(w)' /\ found'[w] = found[w],
         ~Merging(w) => (Active(w)' => found'[w] = {}),
         ~Merged(w), ~Merged(w)',
         Holds(w) => Holds(w)'
  PROVE  DoneInv' /\ FoundInv'
<1>1. Places' = Places
  BY SameProgram
<1>2. \A v \in Thread : v # w => /\ Holds(v)' = Holds(v) /\ Active(v)' = Active(v)
                                 /\ Merged(v)' = Merged(v) /\ index'[v] = index[v]
                                 /\ found'[v] = found[v]
  BY DEF Others, Holds, Active, Working, Merged
<1>3. DoneInv'
  <2>1. \A d \in done' : d[1] \in Thread /\ (Active(d[1])' \/ Merged(d[1])')
    BY <1>2 DEF DoneInv, Merging
  <2>2. ASSUME NEW i \in Nat, i < progress', i < Places'
        PROVE  (\E d \in done' : d[2] = i) \/ (\E v \in Thread : Holds(v)' /\ index'[v] = i)
    <3>1. (\E d \in done : d[2] = i) \/ (\E v \in Thread : Holds(v) /\ index[v] = i)
      BY <1>1, <2>2 DEF DoneInv
    <3>2. QED
      BY <1>2, <3>1
  <2>3. QED
    BY <1>1, <2>1, <2>2 DEF DoneInv
<1>4. FoundInv'
  <2>1. ASSUME NEW v \in Thread, Active(v)', NEW x
        PROVE  x \in found'[v] <=> \E d \in done' : d[1] = v /\ d[3] = x
    <3>1. CASE v # w \/ Merging(w)
      <4>1. Active(v) /\ found'[v] = found[v]
        BY <1>2, <2>1, <3>1 DEF Merging
      <4>2. QED
        BY <4>1 DEF FoundInv
    <3>2. CASE v = w /\ ~Merging(w)
      <4>1. \A d \in done : d[1] # w
        BY <3>2 DEF DoneInv, Merging
      <4>2. QED
        BY <2>1, <3>2, <4>1
    <3>3. QED
      BY <3>1, <3>2
  <2>2. ASSUME pc'[Main] # "returned", NEW x
        PROVE  x \in new' <=> \E d \in done' : Merged(d[1])' /\ d[3] = x
    <3>1. pc[Main] # "returned"
      BY <2>2, PoolAssumption DEF Others, Merged
    <3>2. ASSUME NEW d \in done PROVE Merged(d[1])' <=> Merged(d[1])
      <4>1. d[1] \in Thread
        BY DEF DoneInv
      <4>2. CASE d[1] = w
        BY <4>2
      <4>3. CASE d[1] # w
        BY <1>2, <4>1, <4>3
      <4>4. QED
        BY <4>2, <4>3
    <3>3. QED
      BY <3>1, <3>2 DEF FoundInv
  <2>3. QED
    BY <2>1, <2>2 DEF FoundInv
<1>5. QED
  BY <1>3, <1>4

LEMMA ClaimKeepsDone ==
  ASSUME DoneInv, FoundInv, NEW w \in Thread, Base(w), Claim(w)
  PROVE  DoneInv' /\ FoundInv'
<1>0. CountersOK /\ ProgramOK /\ TypesOK /\ Straight /\ progress \in Nat /\ Step(w)
  BY BaseFacts DEF Base, Step
<1>1. UNCHANGED <<program, round>> /\ Others(w)
  BY <1>0, StepIsLocal
<1>2. Places' = Places /\ Places \in Nat /\ IndexBound \in Nat /\ Places <= IndexBound
  BY <1>0, <1>1, SameProgram, PlacesOfRound
<1>3. /\ pc[w] = "claim" /\ index'[w] = progress /\ progress' = progress + 1
      /\ UNCHANGED <<done, new, found>>
      /\ \/ pc'[w] = "merge" /\ progress >= IndexBound
         \/ pc'[w] = "restore" /\ progress < Places
         \/ pc'[w] = "claim" /\ progress >= Places
  BY ClaimTakes
<1>4. ~Holds(w) /\ Active(w) /\ Active(w)' /\ ~Merged(w) /\ ~Merged(w)'
      /\ (Holds(w)' <=> pc'[w] = "restore")
  BY <1>3 DEF Holds, Active, Working, Merged
<1>5. \A v \in Thread : v # w => /\ Holds(v)' = Holds(v) /\ Active(v)' = Active(v)
                                 /\ Merged(v)' = Merged(v) /\ index'[v] = index[v]
  BY <1>1 DEF Others, Holds, Active, Working, Merged
<1>6. DoneInv'
  <2>1. \A d \in done' : d[1] \in Thread /\ (Active(d[1])' \/ Merged(d[1])')
    BY <1>3, <1>4, <1>5 DEF DoneInv
  <2>2. ASSUME NEW i \in Nat, i < progress', i < Places'
        PROVE  (\E d \in done' : d[2] = i) \/ (\E v \in Thread : Holds(v)' /\ index'[v] = i)
    <3>1. CASE i = progress
      <4>1. pc'[w] = "restore"
        BY <1>2, <1>3, <2>2, <3>1
      <4>2. QED
        BY <1>3, <1>4, <3>1, <4>1
    <3>2. CASE i # progress
      <4>1. i < progress /\ i < Places
        BY <1>0, <1>2, <1>3, <2>2, <3>2
      <4>2. (\E d \in done : d[2] = i) \/ (\E v \in Thread : Holds(v) /\ index[v] = i)
        BY <4>1 DEF DoneInv
      <4>3. QED
        BY <1>3, <1>4, <1>5, <4>2
    <3>3. QED
      BY <3>1, <3>2
  <2>3. QED
    BY <1>2, <1>3, <2>1, <2>2 DEF DoneInv
<1>7. FoundInv'
  <2>1. \A v \in Thread : Active(v)' = Active(v) /\ Merged(v)' = Merged(v)
    BY <1>4, <1>5 DEF Active, Merged, Working
  <2>2. pc'[Main] # "returned" => pc[Main] # "returned"
    BY <1>1, <1>3, PoolAssumption DEF Others
  <2>3. \A d \in done : Merged(d[1])' = Merged(d[1])
    BY <2>1 DEF DoneInv
  <2>4. QED
    BY <1>3, <2>1, <2>2, <2>3 DEF FoundInv
<1>8. QED
  BY <1>6, <1>7

LEMMA InjectKeepsDone ==
  ASSUME DoneInv, FoundInv, NEW w \in Thread, Base(w), Inject(w)
  PROVE  DoneInv' /\ FoundInv'
<1>0. CountersOK /\ ProgramOK /\ TypesOK /\ Straight /\ progress \in Nat /\ Step(w)
  BY BaseFacts DEF Base, Step
<1>1. UNCHANGED <<program, round>> /\ Others(w)
  BY <1>0, StepIsLocal
<1>2. Places' = Places
  BY <1>1, SameProgram
<1> DEFINE d0 == <<w, index[w], index[w]>>
<1>3. /\ pc[w] = "inject" /\ pc'[w] = "claim" /\ index[w] < Places
      /\ done' = done \union {d0} /\ found'[w] = found[w] \union {index[w]}
      /\ UNCHANGED <<progress, new, index>>
  BY InjectPuts
<1>4. d0[1] = w /\ d0[2] = index[w] /\ d0[3] = index[w]
  OBVIOUS
<1> HIDE DEF d0
<1>5. Active(w) /\ Active(w)' /\ ~Merged(w) /\ ~Merged(w)'
  BY <1>3 DEF Active, Working, Merged
<1>6. \A v \in Thread : v # w => /\ Holds(v)' = Holds(v) /\ Active(v)' = Active(v)
                                 /\ Merged(v)' = Merged(v) /\ found'[v] = found[v]
  BY <1>1 DEF Others, Holds, Active, Working, Merged
<1>7. DoneInv'
  <2>1. \A d \in done' : d[1] \in Thread /\ (Active(d[1])' \/ Merged(d[1])')
    BY <1>3, <1>4, <1>5, <1>6 DEF DoneInv
  <2>2. \A d \in done' : d[3] = d[2] /\ d[2] < Places'
    BY <1>2, <1>3, <1>4 DEF DoneInv
  <2>3. ASSUME NEW i \in Nat, i < progress', i < Places'
        PROVE  (\E d \in done' : d[2] = i) \/ (\E v \in Thread : Holds(v)' /\ index'[v] = i)
    <3>1. (\E d \in done : d[2] = i) \/ (\E v \in Thread : Holds(v) /\ index[v] = i)
      BY <1>2, <1>3, <2>3 DEF DoneInv
    <3>2. QED
      BY <1>3, <1>4, <1>6, <3>1
  <2>4. QED
    BY <2>1, <2>2, <2>3 DEF DoneInv
<1>8. FoundInv'
  <2>1. ASSUME NEW v \in Thread, Active(v)', NEW x
        PROVE  x \in found'[v] <=> \E d \in done' : d[1] = v /\ d[3] = x
    <3>1. Active(v) /\ (x \in found[v] <=> \E d \in done : d[1] = v /\ d[3] = x)
      BY <1>5, <1>6, <2>1 DEF FoundInv
    <3>2. CASE v = w
      BY <1>3, <1>4, <3>1, <3>2
    <3>3. CASE v # w
      BY <1>3, <1>4, <1>6, <3>1, <3>3
    <3>4. QED
      BY <3>2, <3>3
  <2>2. ASSUME pc'[Main] # "returned", NEW x
        PROVE  x \in new' <=> \E d \in done' : Merged(d[1])' /\ d[3] = x
    <3>1. pc[Main] # "returned"
      BY <1>1, <1>3, <2>2, PoolAssumption DEF Others
    <3>2. ASSUME NEW d \in done PROVE Merged(d[1])' <=> Merged(d[1])
      <4>1. d[1] \in Thread
        BY DEF DoneInv
      <4>2. CASE d[1] = w
        BY <1>5, <4>2
      <4>3. CASE d[1] # w
        BY <1>5, <1>6, <4>1, <4>3
      <4>4. QED
        BY <4>2, <4>3
    <3>3. QED
      BY <1>3, <1>4, <1>5, <3>1, <3>2 DEF FoundInv
  <2>3. QED
    BY <2>1, <2>2 DEF FoundInv
<1>9. QED
  BY <1>7, <1>8

LEMMA MergeKeepsDone ==
  ASSUME DoneInv, FoundInv, NEW w \in Thread, Base(w), Merge(w)
  PROVE  DoneInv' /\ FoundInv'
<1>0. CountersOK /\ TypesOK /\ Step(w)
  BY BaseFacts DEF Step
<1>1. UNCHANGED <<program, round>> /\ Others(w)
  BY <1>0, StepIsLocal
<1>2. Places' = Places
  BY <1>1, SameProgram
<1>3. /\ pc[w] = "merge" /\ pc'[w] \in {"join", "finished"} /\ new' = new \union found[w]
      /\ UNCHANGED <<progress, index, done, found>>
  BY <1>0 DEF Merge, Go, CountersOK
<1>4. Active(w) /\ ~Active(w)' /\ ~Merged(w) /\ Merged(w)' /\ ~Holds(w)
  BY <1>3 DEF Active, Working, Merged, Holds
<1>5. \A v \in Thread : v # w => /\ Holds(v)' = Holds(v) /\ Active(v)' = Active(v)
                                 /\ Merged(v)' = Merged(v)
  BY <1>1 DEF Others, Holds, Active, Working, Merged
<1>6. DoneInv'
  <2>1. \A d \in done' : d[1] \in Thread /\ (Active(d[1])' \/ Merged(d[1])')
    BY <1>3, <1>4, <1>5 DEF DoneInv
  <2>2. ASSUME NEW i \in Nat, i < progress', i < Places'
        PROVE  (\E d \in done' : d[2] = i) \/ (\E v \in Thread : Holds(v)' /\ index'[v] = i)
    <3>1. (\E d \in done : d[2] = i) \/ (\E v \in Thread : Holds(v) /\ index[v] = i)
      BY <1>2, <1>3, <2>2 DEF DoneInv
    <3>2. QED
      BY <1>3, <1>4, <1>5, <3>1
  <2>3. QED
    BY <1>2, <1>3, <2>1, <2>2 DEF DoneInv
<1>7. FoundInv'
  <2>1. \A v \in Thread : Active(v)' => v # w /\ Active(v)
    BY <1>4, <1>5
  <2>2. ASSUME pc'[Main] # "returned", NEW x
        PROVE  x \in new' <=> \E d \in done' : Merged(d[1])' /\ d[3] = x
    <3>1. pc[Main] # "returned"
      BY <1>1, <1>3, <2>2, PoolAssumption DEF Others
    <3>2. x \in new <=> \E d \in done : Merged(d[1]) /\ d[3] = x
      BY <3>1 DEF FoundInv
    <3>3. x \in found[w] <=> \E d \in done : d[1] = w /\ d[3] = x
      BY <1>4 DEF FoundInv
    <3>4. \A d \in done : Merged(d[1])' <=> Merged(d[1]) \/ d[1] = w
      BY <1>4, <1>5 DEF DoneInv
    <3>5. QED
      BY <1>3, <3>2, <3>3, <3>4
  <2>3. QED
    BY <1>3, <2>1, <2>2 DEF FoundInv
<1>8. QED
  BY <1>6, <1>7

LEMMA StepKeepsDone ==
  ASSUME DoneInv, FoundInv, NEW w \in Thread, Base(w), Step(w)
  PROVE  DoneInv' /\ FoundInv'
<1>0. CountersOK /\ ProgramOK /\ TypesOK
  BY BaseFacts
<1>1. UNCHANGED <<program, round>> /\ Others(w)
  BY <1>0, StepIsLocal
<1>2. CASE Spawn(w)
  <2>1. /\ pc[w] = "unborn" /\ pc'[w] = "collect"
        /\ UNCHANGED <<done, progress, new, index>>
    BY <1>0, <1>2 DEF Spawn, Go, Shared, CountersOK
  <2>2. ~Merging(w) /\ ~Active(w)' /\ ~Merged(w) /\ ~Merged(w)' /\ ~Holds(w)
    BY <2>1 DEF Merging, Active, Working, Merged, Holds
  <2>3. QED
    BY <1>0, <1>1, <2>1, <2>2, QuietStep
<1>3. CASE Collect(w)
  <2>1. /\ pc[w] = "collect" /\ pc'[w] = "claim" /\ found'[w] = {}
        /\ UNCHANGED <<done, progress, new, index>>
    BY <1>0, <1>3 DEF Collect, Go, Shared, CountersOK, TypesOK
  <2>2. ~Merging(w) /\ ~Merged(w) /\ ~Merged(w)' /\ ~Holds(w)
    BY <2>1 DEF Merging, Active, Working, Merged, Holds
  <2>3. QED
    BY <1>0, <1>1, <2>1, <2>2, QuietStep
<1>4. CASE Restore(w) \/ ReplayInstruction(w) \/ ReplayRegister(w) \/ Replayed(w)
  <2>1. UNCHANGED <<done, progress, new, index, found>>
    BY <1>4 DEF Restore, ReplayInstruction, ReplayRegister, Replayed, Shared
  <2>2. pc[w] \in {"restore", "replay"} /\ pc'[w] \in {"replay", "inject"}
    <3>1. CASE Restore(w)
      BY <1>0, <3>1 DEF Restore, Go, CountersOK
    <3>2. CASE ReplayInstruction(w)
      BY <3>2, ReplayFinds
    <3>3. CASE ReplayRegister(w)
      BY <3>3, ReplayRuns
    <3>4. CASE Replayed(w)
      BY <3>4, ReplayEnds
    <3>5. QED
      BY <1>4, <3>1, <3>2, <3>3, <3>4
  <2>3. Merging(w) /\ Active(w)' /\ ~Merged(w) /\ ~Merged(w)' /\ Holds(w)'
    BY <2>2 DEF Merging, Active, Working, Merged, Holds
  <2>4. QED
    BY <1>0, <1>1, <2>1, <2>3, QuietStep
<1>5. QED
  BY <1>2, <1>3, <1>4, ClaimKeepsDone, InjectKeepsDone, MergeKeepsDone DEF Step

-----------------------------------------------------------------------------
PlaceIndInv == ClaimInv /\ TimeInv /\ PlaceInv

LEMMA PlaceStart ==
  ASSUME StraightInit PROVE PlaceIndInv
<1>1. Init /\ Straight
  BY StraightStart DEF StraightInit
<1>2. ClaimInv /\ TimeInv
  BY <1>1, ClaimInit, TimeInit
<1>3. /\ \A w \in Thread : pc[w] \in {"spawn", "unborn"}
      /\ done = {} /\ progress = 0 /\ new = {} /\ results = <<>> /\ round = 1
  BY <1>1 DEF Init
<1>4. \A w \in Thread : ReplayOK(w) /\ ~Active(w) /\ ~Holds(w)
  BY <1>3 DEF ReplayOK, Holds, Running, Active, Working
<1>5. DoneInv /\ FoundInv
  BY <1>3, <1>4 DEF DoneInv, FoundInv
<1>6. ResultsInv
  <2>1. <<>> \in Seq(SUBSET Nat) /\ Len(<<>>) = 0
    OBVIOUS
  <2>2. QED
    BY <1>3, <2>1 DEF ResultsInv
<1>7. QED
  BY <1>1, <1>2, <1>4, <1>5, <1>6 DEF PlaceIndInv, PlaceInv

(* The results of earlier rounds stay. *)
LEMMA ResultsStay ==
  ASSUME ResultsInv, UNCHANGED <<program, round, results>>,
         pc'[Main] # "returned" => pc[Main] # "returned"
  PROVE  ResultsInv'
<1>1. \A r \in 1 .. Rounds : Expected(r)' = Expected(r)
  BY SameProgram
<1>2. QED
  BY <1>1 DEF ResultsInv

(* When all have merged, every place was injected and its faults are in new.*)
LEMMA AllMerged ==
  ASSUME PlaceIndInv, Join
  PROVE  /\ \A w \in Thread : Merged(w) /\ ~Active(w) /\ ~Holds(w)
         /\ new \in SUBSET Nat /\ new = Expected(round)
<1>0. CountersOK /\ ProgramOK /\ TypesOK /\ Straight /\ DoneInv /\ FoundInv /\ DoneBelow
      /\ Main \in Thread /\ ReplayOK(Main) /\ progress \in Nat
  BY PoolAssumption DEF PlaceIndInv, PlaceInv, ClaimInv, TimeInv, CountersOK
<1>1. pc[Main] = "join" /\ \A w \in Thread : w # Main => pc[w] = "finished"
  BY DEF Join
<1>2. \A w \in Thread : Merged(w) /\ ~Active(w) /\ ~Holds(w)
  BY <1>1 DEF Merged, Active, Working, Holds
<1>3. progress >= IndexBound /\ Places <= IndexBound /\ Places \in Nat /\ IndexBound \in Nat
  BY <1>0, <1>1, PlacesOfRound DEF ReplayOK
<1>4. ASSUME NEW x PROVE x \in new <=> x \in Nat /\ x < Places
  <2>1. x \in new <=> \E d \in done : d[3] = x
    BY <1>0, <1>1, <1>2 DEF FoundInv, DoneInv
  <2>2. ASSUME NEW d \in done, d[3] = x PROVE x \in Nat /\ x < Places
    BY <1>0, <2>2 DEF DoneInv, DoneBelow
  <2>3. ASSUME x \in Nat, x < Places PROVE \E d \in done : d[3] = x
    <3>1. x < progress
      BY <1>0, <1>3, <2>3
    <3>2. PICK d \in done : d[2] = x
      BY <1>0, <1>2, <2>3, <3>1 DEF DoneInv
    <3>3. QED
      BY <1>0, <3>2 DEF DoneInv
  <2>4. QED
    BY <2>1, <2>2, <2>3
<1>5. \A x : x \in Expected(round) <=> x \in Nat /\ x < Places
  BY <1>0, PlacesOfRound
<1>6. \A x : x \in new <=> x \in Expected(round)
  BY <1>4, <1>5
<1>7. new = Expected(round)
  BY <1>6, Zenon
<1>8. QED
  BY <1>2, <1>4, <1>7

LEMMA JoinKeepsPlaces ==
  ASSUME PlaceIndInv, Join
  PROVE  PlaceInv'
<1>0. /\ CountersOK /\ ProgramOK /\ Straight /\ DoneInv /\ ResultsInv /\ Main \in Thread
      /\ round \in 1 .. Rounds /\ Rounds \in Nat /\ pc[Main] = "join"
      /\ \A w \in Thread : ReplayOK(w) /\ (w # Main => pc[w] = "finished")
  BY PoolAssumption DEF PlaceIndInv, PlaceInv, ClaimInv, TimeInv, ProgramOK, Join
<1>1. /\ UNCHANGED <<program, index>> /\ new' = {}
      /\ results' = Append(results, new)
  BY DEF Join
<1>2. Straight' /\ \A r \in 1 .. Rounds : Expected(r)' = Expected(r)
  BY <1>0, <1>1, SameProgram
<1>3. /\ \A w \in Thread : Merged(w) /\ ~Active(w) /\ ~Holds(w)
      /\ new \in SUBSET Nat /\ new = Expected(round)
  BY AllMerged
<1>4. /\ results' \in Seq(SUBSET Nat) /\ Len(results') = round
      /\ \A r \in 1 .. Len(results') : r \in 1 .. Rounds /\ results'[r] = Expected(r)'
  <2>1. /\ results \in Seq(SUBSET Nat) /\ Len(results) = round - 1
        /\ \A r \in 1 .. Len(results) : r \in 1 .. Rounds /\ results[r] = Expected(r)
    BY <1>0 DEF ResultsInv
  <2>2. /\ results' \in Seq(SUBSET Nat) /\ Len(results') = Len(results) + 1
        /\ results'[Len(results) + 1] = new
        /\ \A r \in 1 .. Len(results) : results'[r] = results[r]
    BY <1>1, <1>3, <2>1
  <2>3. Len(results) + 1 = round
    BY <1>0, <2>1
  <2>4. ASSUME NEW r \in 1 .. Len(results') PROVE r \in 1 .. Rounds /\ results'[r] = Expected(r)'
    <3>1. CASE r = round
      BY <1>0, <1>2, <1>3, <2>2, <2>3, <3>1
    <3>2. CASE r # round
      <4>1. r \in 1 .. Len(results)
        BY <1>0, <2>1, <2>2, <2>3, <3>2
      <4>2. QED
        BY <1>2, <2>1, <2>2, <4>1
    <3>3. QED
      BY <3>1, <3>2
  <2>5. QED
    BY <2>2, <2>3, <2>4
<1>5. CASE round < Rounds
  <2>1. /\ round' = round + 1 /\ progress' = 0 /\ done' = {}
        /\ pc' = [w \in Thread |-> IF w = Main THEN "spawn" ELSE "unborn"]
    BY <1>5 DEF Join
  <2>2. \A w \in Thread : pc'[w] \in {"spawn", "unborn"}
    BY <2>1
  <2>3. \A w \in Thread : ReplayOK(w)' /\ ~Active(w)'
    BY <2>2 DEF ReplayOK, Holds, Running, Active, Working
  <2>4. DoneInv' /\ FoundInv'
    <3>1. \A i \in Nat : ~(i < progress')
      BY <2>1
    <3>2. DoneInv'
      BY <2>1, <3>1 DEF DoneInv
    <3>3. FoundInv'
      BY <1>1, <2>1, <2>3 DEF FoundInv
    <3>4. QED
      BY <3>2, <3>3
  <2>5. ResultsInv'
    <3>1. Len(results') = round' - 1
      BY <1>0, <1>4, <2>1
    <3>2. QED
      BY <1>4, <3>1 DEF ResultsInv
  <2>6. QED
    BY <1>2, <2>3, <2>4, <2>5 DEF PlaceInv
<1>6. CASE ~(round < Rounds)
  <2>1. Go(Main, "returned") /\ UNCHANGED <<round, progress, done>>
    BY <1>6 DEF Join
  <2>2. pc'[Main] = "returned" /\ \A w \in Thread : w # Main => pc'[w] = "finished"
    BY <1>0, <2>1 DEF Go, CountersOK
  <2>3. Places' = Places /\ IndexBound' = IndexBound
    BY <1>1, <2>1, SameProgram
  <2>4. \A w \in Thread : Merged(w)' /\ ~Active(w)' /\ ~Holds(w)'
    BY <2>2 DEF Merged, Active, Working, Holds
  <2>5. \A w \in Thread : ReplayOK(w)'
    <3>1. SUFFICES ASSUME NEW w \in Thread PROVE ReplayOK(w)'
      OBVIOUS
    <3>2. CASE w = Main
      BY <2>2, <2>4, <3>2 DEF ReplayOK, Running
    <3>3. CASE w # Main
      <4>1. progress >= IndexBound
        BY <1>0, <3>3 DEF ReplayOK
      <4>2. QED
        BY <2>1, <2>2, <2>3, <2>4, <3>3, <4>1 DEF ReplayOK, Running
    <3>4. QED
      BY <3>2, <3>3
  <2>6. DoneInv'
    BY <1>0, <1>3, <2>1, <2>3, <2>4 DEF DoneInv
  <2>7. FoundInv'
    BY <2>2, <2>4 DEF FoundInv
  <2>8. ResultsInv'
    BY <1>4, <2>2 DEF ResultsInv
  <2>9. QED
    BY <1>2, <2>5, <2>6, <2>7, <2>8 DEF PlaceInv
<1>7. QED
  BY <1>5, <1>6

LEMMA PlaceStep == PlaceIndInv /\ [Next]_vars => PlaceIndInv'
<1> SUFFICES ASSUME PlaceIndInv, [Next]_vars PROVE PlaceIndInv'
  OBVIOUS
<1>0. /\ CountersOK /\ ProgramOK /\ TypesOK /\ Straight /\ DoneInv /\ FoundInv /\ ResultsInv
      /\ Main \in Thread /\ \A w \in Thread : ReplayOK(w) /\ Base(w)
  BY PoolAssumption DEF PlaceIndInv, PlaceInv, ClaimInv, TimeInv, Base
<1>1. ClaimInv' /\ TimeInv'
  BY ClaimInvariance, TimeStep DEF PlaceIndInv
<1> SUFFICES PlaceInv'
  BY <1>1 DEF PlaceIndInv
<1>2. ASSUME NEW w \in Thread, Step(w) PROVE PlaceInv'
  <2>1. UNCHANGED <<program, round, results>> /\ Others(w)
    BY <1>0, <1>2, StepIsLocal
  <2>2. Straight'
    BY <1>0, <2>1, SameProgram
  <2>3. \A v \in Thread : ReplayOK(v)'
    <3>1. ReplayOK(w)'
      BY <1>0, <1>2, StepReplayOK
    <3>2. \A v \in Thread : v # w => ReplayOK(v)'
      BY <1>0, <1>2, OtherReplayOK
    <3>3. QED
      BY <3>1, <3>2
  <2>4. DoneInv' /\ FoundInv'
    BY <1>0, <1>2, StepKeepsDone
  <2>5. ResultsInv'
    <3>1. pc[w] # "returned"
      BY <1>2 DEF Step, Spawn, Collect, Claim, Restore, ReplayInstruction, ReplayRegister, Replayed,
                  Inject, Merge
    <3>2. pc'[Main] # "returned" => pc[Main] # "returned"
      BY <1>0, <2>1, <3>1 DEF Others
    <3>3. QED
      BY <1>0, <2>1, <3>2, ResultsStay
  <2>6. QED
    BY <2>2, <2>3, <2>4, <2>5 DEF PlaceInv
<1>3. CASE Spawned
  <2>1. /\ pc[Main] = "spawn" /\ pc'[Main] = "collect"
        /\ \A v \in Thread : v # Main => pc'[v] = pc[v]
        /\ UNCHANGED <<program, round, progress, new, results, done>>
        /\ UNCHANGED <<index, last, saved, now, remaining, found>>
    BY <1>0, <1>3 DEF Spawned, Go, Shared, CountersOK
  <2>2. Others(Main)
    BY <2>1 DEF Others
  <2>3. Straight' /\ Places' = Places /\ IndexBound' = IndexBound
    BY <1>0, <2>1, SameProgram
  <2>4. \A v \in Thread : ReplayOK(v)'
    <3>1. SUFFICES ASSUME NEW v \in Thread PROVE ReplayOK(v)'
      OBVIOUS
    <3>2. CASE v = Main
      BY <2>1, <3>2 DEF ReplayOK, Holds, Running
    <3>3. CASE v # Main
      <4>1. pc'[v] = pc[v] /\ target'[round'] = target[round] /\ ReplayOK(v)
        BY <1>0, <2>1, <3>3 DEF program
      <4>2. QED
        BY <2>1, <2>3, <4>1 DEF ReplayOK, Agrees, Reached, Holds, Running
    <3>4. QED
      BY <3>2, <3>3
  <2>5. ~Merging(Main) /\ ~Active(Main)' /\ ~Merged(Main) /\ ~Merged(Main)' /\ ~Holds(Main)
    BY <2>1 DEF Merging, Active, Working, Merged, Holds
  <2>6. DoneInv' /\ FoundInv'
    BY <1>0, <2>1, <2>2, <2>5, QuietStep
  <2>7. ResultsInv'
    BY <1>0, <2>1, ResultsStay
  <2>8. QED
    BY <2>3, <2>4, <2>6, <2>7 DEF PlaceInv
<1>4. CASE Join
  BY <1>4, JoinKeepsPlaces
<1>5. CASE Returned \/ UNCHANGED vars
  <2>1. /\ UNCHANGED <<program, round, progress, new, results, done, pc>>
        /\ UNCHANGED <<index, last, saved, now, remaining, found>>
    BY <1>5 DEF Returned, vars, local
  <2>2. Straight' /\ Places' = Places /\ IndexBound' = IndexBound /\ target' = target
    BY <1>0, <2>1, SameProgram DEF program
  <2>3. \A v \in Thread : ReplayOK(v)'
    BY <1>0, <2>1, <2>2 DEF ReplayOK, Agrees, Reached, Holds, Running
  <2>4. DoneInv' /\ FoundInv'
    BY <1>0, <2>1, <2>2 DEF DoneInv, FoundInv, Active, Merged, Working, Holds
  <2>5. ResultsInv'
    BY <1>0, <2>1, ResultsStay
  <2>6. QED
    BY <2>2, <2>3, <2>4, <2>5 DEF PlaceInv
<1>6. QED
  BY <1>2, <1>3, <1>4, <1>5 DEF Next

(* A thread's snapshot, emulator and position in its list belong together,  *)
(* and together the threads account for every index claimed so far.         *)
LEMMA PlacesAlways == StraightSpec => []PlaceIndInv
<1>1. StraightInit => PlaceIndInv
  BY PlaceStart
<1>2. QED
  BY <1>1, PlaceStep, PTL DEF StraightSpec

(* For programs of any length, any number of threads and any interleaving   *)
(* of their claims, each fault is injected at the occurrence of the         *)
(* instruction that its index stands for.                                   *)
THEOREM RightPlace == StraightSpec => []InjectedInPlace
<1>1. PlaceIndInv => InjectedInPlace
  <2>1. SUFFICES ASSUME PlaceIndInv, NEW d \in done PROVE d[2] \in Indices /\ d[3] = Place(d[2])
    BY DEF InjectedInPlace
  <2>2. d[2] \in Nat /\ d[2] < Places /\ d[3] = d[2]
    BY <2>1 DEF PlaceIndInv, ClaimInv, DoneBelow, PlaceInv, DoneInv
  <2>3. ProgramOK /\ Straight
    BY <2>1 DEF PlaceIndInv, TimeInv, PlaceInv
  <2>4. QED
    BY <2>2, <2>3, PlacesOfRound
<1>2. QED
  BY <1>1, PlacesAlways, PTL

(* Replaying to a place never ends anywhere else, so that no thread throws. *)
THEOREM NeverThrows == StraightSpec => []NoCrash
<1>1. PlaceIndInv => NoCrash
  BY DEF PlaceIndInv, PlaceInv, ReplayOK, NoCrash
<1>2. QED
  BY <1>1, PlacesAlways, PTL

(* The results of every model list are complete once the workers are        *)
(* joined: each place is in them, whichever thread claimed it.              *)
THEOREM ResultsComplete == StraightSpec => []AllIndicesInResults
<1>1. PlaceIndInv => AllIndicesInResults
  <2>1. SUFFICES ASSUME PlaceIndInv, NEW r \in 1 .. Len(results)
                 PROVE  results[r] = CASE target[r] = "instruction" -> CollectedTimes
                                       [] target[r] = "register"    -> CollectedTimes
                                       [] target[r] = "permanent"   -> 0 .. Faultable - 1
    BY DEF AllIndicesInResults
  <2>2. r \in 1 .. Rounds /\ results[r] = Expected(r) /\ target \in [1 .. Rounds -> Targets]
    BY <2>1 DEF PlaceIndInv, PlaceInv, ResultsInv, TimeInv, ProgramOK
  <2>3. target[r] \in {"instruction", "register", "permanent"}
    BY <2>2 DEF Targets
  <2>4. QED
    BY <2>2, <2>3 DEF Expected
<1>2. QED
  BY <1>1, PlacesAlways, PTL
=============================================================================
