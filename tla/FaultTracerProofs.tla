-------------------------- MODULE FaultTracerProofs --------------------------
(***************************************************************************)
(* For every program, every list of models and every timeout: the tracer   *)
(* repeats the run of the simulator and comes to its verdict.              *)
(*                                                                         *)
(* Both are compared with a third run, the ideal run of a chain of faults: *)
(* a function of time that has no hooks, no snapshots and no end.  At each *)
(* time it says where the program is and what it has computed, when every  *)
(* fault of the chain was in force exactly when it should be.  Adding a    *)
(* fault to a chain does not change the ideal run before the time of that  *)
(* fault; that is why the simulator may go on from a saved place.          *)
(* Values written in ignored memory ranges are left alone in the ideal run *)
(* as the simulator does; the tracer parts from it at the first such value *)
(* under a permanent register fault.                                       *)
(***************************************************************************)
EXTENDS FaultTracer, SequenceTheorems, SetInduction

Step == [pc : Address, instruction : Instruction, reg : 0 .. 1, time : Nat]
Core == [pc : 0 .. Size, reg : 0 .. 1, mem : 0 .. 1, visits : Nat, trace : Seq(Step)]

Start == [pc |-> 0, reg |-> 0, mem |-> 0, visits |-> 0, trace |-> <<>>]

(* The faults of chain c that are in force at time t. *)
InstructionHit(c, a, t) ==
  \E i \in DOMAIN c : /\ c[i].instruction /\ c[i].where = a
                      /\ c[i].type = "permanent" \/ c[i].time = t
RegisterHit(c, t) == \E i \in DOMAIN c : ~c[i].instruction /\ c[i].time = t
PutBack(c, t)     == \E i \in DOMAIN c : Is(c[i], FALSE, "transient") /\ c[i].time = t

FlashAt(c, t) ==
  [a \in Address |-> IF InstructionHit(c, a, t) THEN ManipulatedInstruction(program[a]) ELSE program[a]]
RegisterAt(c, t, v) == IF RegisterHit(c, t) THEN 1 - v ELSE v

(* One cycle at time t of the ideal run of c. *)
Cycle(c, t, k, i, v) ==
  [pc     |-> IF i = "branch" /\ v = 1 THEN 0 ELSE k.pc + 1,
   reg    |-> IF PutBack(c, t) THEN k.reg
              ELSE IF i # "flip" THEN v
              ELSE IF HasPermanent(c) /\ k.pc \notin ignored THEN v ELSE 1 - v,
   mem    |-> IF i = "store" THEN v ELSE k.mem,
   visits |-> IF k.pc = end_address THEN k.visits + 1 ELSE k.visits,
   trace  |-> Append(k.trace, [pc |-> k.pc, instruction |-> i, reg |-> v, time |-> t])]
Advance(c, t, k) ==
  IF k.pc \notin Address THEN k
  ELSE Cycle(c, t, k, FlashAt(c, t)[k.pc], RegisterAt(c, t, k.reg))

IsIdeal(c, k) ==
  /\ k \in [0 .. timeout -> Core]
  /\ k[0] = Start
  /\ \A t \in 1 .. timeout : k[t] = Advance(c, t - 1, k[t - 1])

SetupInv ==
  /\ program \in [Address -> Instruction]
  /\ end_address \in Address
  /\ required \in 1 .. 2
  /\ timeout \in Nat
  /\ models \in ModelLists

-----------------------------------------------------------------------------
(* The ideal run *)

LEMMA StartType == ASSUME SetupInv PROVE Start \in Core
<1>1. 0 \in 0 .. Size
  BY SizeAssumption
<1>2. <<>> \in Seq(Step)
  BY EmptySeq
<1> QED BY <1>1, <1>2 DEF Start, Core

LEMMA ManipulatedType == \A i \in Instruction : ManipulatedInstruction(i) \in Instruction
BY DEF Instruction, ManipulatedInstruction

LEMMA FlashType == ASSUME SetupInv PROVE \A c, t : FlashAt(c, t) \in [Address -> Instruction]
BY ManipulatedType DEF SetupInv, FlashAt

LEMMA AdvanceType ==
  ASSUME SetupInv PROVE \A c : \A t \in Nat : \A k \in Core : Advance(c, t, k) \in Core
<1> SUFFICES ASSUME NEW c, NEW t \in Nat, NEW k \in Core, k.pc \in Address
             PROVE  Advance(c, t, k) \in Core
  BY DEF Advance
<1> DEFINE i == FlashAt(c, t)[k.pc]
           v == RegisterAt(c, t, k.reg)
           s == [pc |-> k.pc, instruction |-> i, reg |-> v, time |-> t]
<1>1. i \in Instruction
  BY FlashType
<1>2. k.reg \in 0 .. 1 /\ k.mem \in 0 .. 1 /\ k.visits \in Nat /\ k.trace \in Seq(Step)
  BY DEF Core
<1>3. v \in 0 .. 1 /\ 1 - v \in 0 .. 1
  BY <1>2 DEF RegisterAt
<1> HIDE DEF i, v
<1>4. s \in Step
  BY <1>1, <1>3 DEF Step
<1> HIDE DEF s
<1>5. Append(k.trace, s) \in Seq(Step)
  BY <1>2, <1>4, AppendProperties
<1>6. k.pc + 1 \in 0 .. Size /\ 0 \in 0 .. Size
  BY SizeAssumption DEF Address
<1>7. Cycle(c, t, k, i, v) \in Core
  BY <1>2, <1>3, <1>5, <1>6 DEF Cycle, Core, s
<1> QED BY <1>7 DEF Advance, i, v

(* Every chain has an ideal run. *)
LEMMA IdealExists == ASSUME SetupInv PROVE \A c : \E k : IsIdeal(c, k)
<1> SUFFICES ASSUME NEW c PROVE \E k : IsIdeal(c, k)
  OBVIOUS
<1> DEFINE step == [t \in 1 .. timeout |-> [k \in Core |-> Advance(c, t - 1, k)]]
<1>1. timeout \in Nat
  BY DEF SetupInv
<1>2. \A t \in 1 .. timeout : t - 1 \in Nat
  BY <1>1
<1>3. \A t \in 1 .. timeout : [k \in Core |-> Advance(c, t - 1, k)] \in [Core -> Core]
  BY <1>2, AdvanceType
<1>4. step \in [1 .. timeout -> [Core -> Core]]
  BY <1>3
<1>5. \A t \in 1 .. timeout : \A k \in Core : step[t][k] = Advance(c, t - 1, k)
  OBVIOUS
<1> HIDE DEF step
<1>6. PICK k \in [0 .. timeout -> Core] :
        k[0] = Start /\ \A t \in 1 .. timeout : k[t] = step[t][k[t - 1]]
  BY <1>1, <1>4, StartType, RecursionByStep
<1>7. \A t \in 1 .. timeout : k[t - 1] \in Core
  BY <1>1
<1>8. IsIdeal(c, k)
  BY <1>5, <1>6, <1>7 DEF IsIdeal
<1> QED BY <1>8

(* Two chains whose faults are the same before a time have the same ideal   *)
(* run up to that time.                                                     *)
LEMMA SameUntil ==
  ASSUME SetupInv, NEW c, NEW d, NEW k, NEW j, IsIdeal(c, k), IsIdeal(d, j),
         NEW n \in 0 .. timeout,
         \A t \in 0 .. n - 1 : \A x \in Core : Advance(c, t, x) = Advance(d, t, x)
  PROVE  \A t \in 0 .. n : k[t] = j[t]
<1> DEFINE Same == {t \in 0 .. n : k[t] = j[t]}
<1>1. timeout \in Nat /\ n \in Nat
  BY DEF SetupInv
<1>2. 0 \in Same
  BY <1>1 DEF IsIdeal
<1>3. ASSUME NEW t \in Same, t < n PROVE t + 1 \in Same
  <2>1. t \in 0 .. n - 1 /\ t + 1 \in 1 .. timeout /\ (t + 1) - 1 = t /\ t \in 0 .. timeout
    BY <1>1, <1>3
  <2>2. k[t] = j[t] /\ k[t] \in Core
    BY <2>1 DEF IsIdeal
  <2>3. k[t + 1] = Advance(c, t, k[t]) /\ j[t + 1] = Advance(d, t, j[t])
    BY <2>1 DEF IsIdeal
  <2>4. k[t + 1] = j[t + 1]
    BY <2>1, <2>2, <2>3
  <2> QED BY <1>1, <2>1, <2>4
<1>4. Same = 0 .. n
  <2> HIDE DEF Same
  <2>1. Same \in SUBSET (0 .. n)
    BY DEF Same
  <2> QED BY <1>1, <1>2, <1>3, <2>1, IntervalInduct
<1> QED BY <1>4

(* The trace of the ideal run has the addresses it went through. *)
LEMMA IdealTrace ==
  ASSUME SetupInv, NEW c, NEW k, IsIdeal(c, k), NEW n \in 0 .. timeout,
         \A u \in 0 .. n - 1 : k[u].pc \in Address
  PROVE  /\ Len(k[n].trace) = n
         /\ \A u \in 0 .. n - 1 : k[n].trace[u + 1].pc = k[u].pc
<1> DEFINE Right(t) == /\ Len(k[t].trace) = t
                       /\ \A u \in 0 .. t - 1 : k[t].trace[u + 1].pc = k[u].pc
           Traced == {t \in 0 .. n : Right(t)}
<1>1. timeout \in Nat /\ n \in Nat
  BY DEF SetupInv
<1>2. 0 \in Traced
  BY <1>1 DEF IsIdeal, Start
<1>3. ASSUME NEW t \in Traced, t < n PROVE t + 1 \in Traced
  <2>1. t \in 0 .. n - 1 /\ t + 1 \in 1 .. timeout /\ (t + 1) - 1 = t /\ t \in 0 .. timeout
    BY <1>1, <1>3
  <2>2. k[t] \in Core /\ k[t].trace \in Seq(Step) /\ k[t].pc \in Address
    BY <2>1 DEF IsIdeal, Core
  <2>3. k[t + 1] = Advance(c, t, k[t])
    BY <2>1 DEF IsIdeal
  <2>4. PICK s : k[t + 1].trace = Append(k[t].trace, s) /\ s.pc = k[t].pc
    BY <2>2, <2>3 DEF Advance, Cycle
  <2>5. k[t + 1].trace \in Seq(Step)
    BY <2>1 DEF IsIdeal, Core
  <2>6. Len(k[t + 1].trace) = t + 1 /\ k[t + 1].trace[t + 1] = s
        /\ \A i \in 1 .. t : k[t + 1].trace[i] = k[t].trace[i]
    BY <2>2, <2>4, <2>1
  <2>7. Right(t + 1)
    <3>1. SUFFICES ASSUME NEW u \in 0 .. t PROVE k[t + 1].trace[u + 1].pc = k[u].pc
      BY <2>1, <2>6
    <3>2. CASE u = t
      BY <2>4, <2>6, <3>2
    <3>3. CASE u # t
      BY <2>1, <2>6, <3>3
    <3> QED BY <3>2, <3>3
  <2> HIDE DEF Right
  <2> QED BY <1>1, <2>1, <2>7
<1>4. Traced = 0 .. n
  <2> HIDE DEF Traced
  <2>1. Traced \in SUBSET (0 .. n)
    BY DEF Traced
  <2> QED BY <1>1, <1>2, <1>3, <2>1, IntervalInduct
<1> QED BY <1>1, <1>4

LEMMA NoVisits ==
  ASSUME SetupInv, NEW c, NEW k, IsIdeal(c, k), NEW n \in 0 .. timeout,
         \A u \in 0 .. n - 1 : k[u].pc # end_address
  PROVE  k[n].visits = 0
<1> DEFINE Unvisited == {t \in 0 .. n : k[t].visits = 0}
<1>1. timeout \in Nat /\ n \in Nat
  BY DEF SetupInv
<1>2. 0 \in Unvisited
  BY <1>1 DEF IsIdeal, Start
<1>3. ASSUME NEW t \in Unvisited, t < n PROVE t + 1 \in Unvisited
  <2>1. t \in 0 .. n - 1 /\ t + 1 \in 1 .. timeout /\ (t + 1) - 1 = t /\ t \in 0 .. timeout
    BY <1>1, <1>3
  <2>2. k[t + 1] = Advance(c, t, k[t]) /\ k[t].pc # end_address
    BY <2>1 DEF IsIdeal
  <2>3. k[t + 1].visits = 0
    BY <2>2 DEF Advance, Cycle
  <2> QED BY <1>1, <2>1, <2>3
<1>4. Unvisited = 0 .. n
  <2> HIDE DEF Unvisited
  <2>1. Unvisited \in SUBSET (0 .. n)
    BY DEF Unvisited
  <2> QED BY <1>1, <1>2, <1>3, <2>1, IntervalInduct
<1> QED BY <1>1, <1>4

-----------------------------------------------------------------------------
(* Chains of faults *)

(* The originals are what the ideal run has at the time of the fault; no    *)
(* transient fault hits an instruction with a permanent one.                *)
GoodFault(f, k) ==
  /\ f.time \in 0 .. timeout
  /\ f.type = "permanent" => f.time = 0
  /\ f.instruction => f.original = program[f.where]
  /\ ~f.instruction => f.original = k[f.time].reg
Apart(f, g) ==
  f.instruction /\ g.instruction /\ f.type = "permanent" /\ g.type # "permanent"
    => f.where # g.where
GoodChain(c, k) ==
  /\ c \in Seq(Fault)
  /\ \A i \in DOMAIN c : GoodFault(c[i], k)
  /\ \A i, j \in DOMAIN c : Apart(c[i], c[j])

(* All transient instruction faults are over before t. *)
Over(c, t) == \A i \in DOMAIN c : c[i].instruction /\ c[i].type # "permanent" => c[i].time < t

LEMMA FaultKinds ==
  \A f \in Fault : /\ f.time \in Nat
                   /\ f.instruction \in BOOLEAN
                   /\ f.instruction => f.where \in Address /\ f.type \in {"permanent", "transient"}
BY DEF Fault, InstructionFault, RegisterFault

LEMMA FlashSettles ==
  ASSUME NEW c \in Seq(Fault), NEW t \in Nat, NEW s \in Nat, t <= s, Over(c, t)
  PROVE  FlashAt(c, s) = FlashAt(c, t)
<1>1. \A i \in DOMAIN c : c[i] \in Fault
  BY ElementOfSeq
<1>2. \A a \in Address : InstructionHit(c, a, s) <=> InstructionHit(c, a, t)
  BY <1>1, FaultKinds DEF Over, InstructionHit
<1> QED BY <1>2 DEF FlashAt

(* Repairing the newest fault after its cycle *)
OneCycleFault(f) == f.instruction /\ f.type # "permanent"

LEMMA FlashRepairs ==
  ASSUME NEW c \in Seq(Fault), c # <<>>, NEW k, GoodChain(c, k), NEW f, f = c[Len(c)],
         OneCycleFault(f),
         \A i \in 1 .. Len(c) - 1 : OneCycleFault(c[i]) => c[i].time < f.time
  PROVE  [FlashAt(c, f.time) EXCEPT ![f.where] = f.original] = FlashAt(c, f.time + 1)
<1>1. \A i \in DOMAIN c : c[i] \in Fault
  BY ElementOfSeq
<1>2. DOMAIN c = 1 .. Len(c) /\ Len(c) \in DOMAIN c /\ f \in Fault
  BY <1>1, LenProperties
<1>3. f.where \in Address /\ f.time \in Nat /\ f.original = program[f.where]
  BY <1>2, FaultKinds DEF GoodChain, GoodFault, OneCycleFault
<1>4. \A i \in DOMAIN c : OneCycleFault(c[i]) => c[i].time # f.time + 1
  <2>1. SUFFICES ASSUME NEW i \in DOMAIN c, OneCycleFault(c[i]) PROVE c[i].time # f.time + 1
    OBVIOUS
  <2>2. c[i].time \in Nat
    BY <1>1, FaultKinds
  <2>3. CASE i = Len(c)
    BY <1>3, <2>3
  <2>4. CASE i # Len(c)
    <3>1. i \in 1 .. Len(c) - 1
      BY <1>2, <2>4
    <3>2. c[i].time < f.time
      BY <2>1, <3>1
    <3> QED BY <1>3, <2>2, <3>2
  <2> QED BY <2>3, <2>4
<1>5. ASSUME NEW a \in Address, a # f.where
      PROVE  InstructionHit(c, a, f.time + 1) <=> InstructionHit(c, a, f.time)
  <2>1. InstructionHit(c, a, f.time + 1) => InstructionHit(c, a, f.time)
    BY <1>4 DEF InstructionHit, OneCycleFault
  <2>2. ASSUME NEW i \in DOMAIN c, OneCycleFault(c[i]), c[i].where = a PROVE c[i].time # f.time
    <3>1. i \in 1 .. Len(c) - 1
      BY <1>2, <1>5, <2>2
    <3>2. c[i].time \in Nat /\ c[i].time < f.time
      BY <1>1, <2>2, <3>1, FaultKinds
    <3> QED BY <1>3, <3>2
  <2>3. InstructionHit(c, a, f.time) => InstructionHit(c, a, f.time + 1)
    BY <2>2 DEF InstructionHit, OneCycleFault
  <2> QED BY <2>1, <2>3
<1>6. ~InstructionHit(c, f.where, f.time + 1)
  <2>1. \A i \in DOMAIN c : c[i].instruction /\ c[i].where = f.where => c[i].type # "permanent"
    BY <1>2 DEF GoodChain, Apart, OneCycleFault
  <2> QED BY <1>4, <2>1 DEF InstructionHit, OneCycleFault
<1>7. FlashAt(c, f.time + 1)[f.where] = program[f.where]
  BY <1>3, <1>6 DEF FlashAt
<1>8. \A a \in Address : a # f.where => FlashAt(c, f.time + 1)[a] = FlashAt(c, f.time)[a]
  BY <1>5 DEF FlashAt
<1>9. \A t : FlashAt(c, t) = [a \in Address |-> FlashAt(c, t)[a]]
  BY DEF FlashAt
<1> QED BY <1>3, <1>7, <1>8, <1>9

(* What a new fault at time t changes: nothing before t. *)
LEMMA ChainGrows ==
  ASSUME SetupInv, NEW c, NEW k, IsIdeal(c, k), GoodChain(c, k), NEW f \in Fault,
         NEW j, IsIdeal(Append(c, f), j),
         f.time \in 0 .. timeout, f.type = "permanent" => f.time = 0,
         f.instruction => f.original = program[f.where],
         ~f.instruction => f.original = k[f.time].reg,
         \A i \in DOMAIN c : c[i].time <= f.time /\ Apart(c[i], f) /\ Apart(f, c[i])
  PROVE  /\ \A t \in 0 .. f.time : j[t] = k[t]
         /\ GoodChain(Append(c, f), j)
<1> DEFINE d == Append(c, f)
<1>1. c \in Seq(Fault) /\ \A i \in DOMAIN c : c[i] \in Fault
  BY ElementOfSeq DEF GoodChain
<1>2. /\ d \in Seq(Fault) /\ DOMAIN d = DOMAIN c \union {Len(c) + 1}
      /\ d[Len(c) + 1] = f /\ Len(c) + 1 \in DOMAIN d
      /\ \A i \in DOMAIN c : d[i] = c[i] /\ i \in DOMAIN d
  BY <1>1, AppendProperties
<1> HIDE DEF d
<1>3. ASSUME NEW t \in 0 .. f.time - 1
      PROVE  /\ \A a : InstructionHit(c, a, t) <=> InstructionHit(d, a, t)
             /\ RegisterHit(c, t) <=> RegisterHit(d, t)
             /\ PutBack(c, t) <=> PutBack(d, t)
             /\ HasPermanent(c) <=> HasPermanent(d)
  <2>1. f.time # t /\ f.type # "permanent"
    OBVIOUS
  <2>2. \A a : InstructionHit(c, a, t) <=> InstructionHit(d, a, t)
    BY <1>2, <2>1 DEF InstructionHit
  <2>3. RegisterHit(c, t) <=> RegisterHit(d, t)
    BY <1>2, <2>1 DEF RegisterHit
  <2>4. PutBack(c, t) <=> PutBack(d, t)
    BY <1>2, <2>1 DEF PutBack
  <2>5. HasPermanent(c) <=> HasPermanent(d)
    BY <1>2, <2>1 DEF HasPermanent, Is
  <2> QED BY <2>2, <2>3, <2>4, <2>5
<1>4. ASSUME NEW t \in 0 .. f.time - 1, NEW x \in Core PROVE Advance(c, t, x) = Advance(d, t, x)
  <2>1. FlashAt(c, t) = FlashAt(d, t)
    BY <1>3 DEF FlashAt
  <2>2. RegisterAt(c, t, x.reg) = RegisterAt(d, t, x.reg)
    BY <1>3 DEF RegisterAt
  <2>3. \A i, v : Cycle(c, t, x, i, v) = Cycle(d, t, x, i, v)
    BY <1>3 DEF Cycle
  <2> QED BY <2>1, <2>2, <2>3 DEF Advance
<1>5. \A t \in 0 .. f.time : k[t] = j[t]
  <2>1. IsIdeal(d, j)
    BY DEF d
  <2> QED BY <1>4, <2>1, SameUntil
<1>6. ASSUME NEW i \in DOMAIN d PROVE GoodFault(d[i], j)
  <2>1. CASE i = Len(c) + 1
    BY <1>2, <1>5, <2>1 DEF GoodFault
  <2>2. CASE i \in DOMAIN c
    <3>1. d[i] = c[i] /\ GoodFault(c[i], k) /\ c[i].time \in 0 .. f.time
      BY <1>2, <2>2 DEF GoodChain, GoodFault
    <3> QED BY <1>5, <3>1 DEF GoodFault
  <2> QED BY <1>2, <2>1, <2>2
<1>7. ASSUME NEW i \in DOMAIN d, NEW l \in DOMAIN d PROVE Apart(d[i], d[l])
  <2>1. Apart(f, f)
    BY DEF Apart
  <2> QED BY <1>2, <2>1 DEF GoodChain
<1>8. GoodChain(d, j)
  BY <1>2, <1>6, <1>7 DEF GoodChain
<1> QED BY <1>5, <1>8 DEF d

-----------------------------------------------------------------------------
(* The simulator on the ideal run *)

Members == {"pc", "reg", "mem", "time", "flash", "faults", "visits", "end_reached",
            "decision", "code", "trace"}

(* m, with the flash of the last cycle repaired, is where the ideal run of  *)
(* its chain k is at this time.                                             *)
OnRun(m, k) ==
  /\ DOMAIN m = Members
  /\ m.time \in 0 .. timeout
  /\ IsIdeal(m.faults, k) /\ GoodChain(m.faults, k)
  /\ \A i \in DOMAIN m.faults : m.faults[i].time <= m.time
  /\ m.pc = k[m.time].pc /\ m.mem = k[m.time].mem /\ m.trace = k[m.time].trace
  /\ m.flash = FlashAt(m.faults, m.time)
  /\ m.reg = RegisterAt(m.faults, m.time, k[m.time].reg)
  /\ \A u \in 0 .. m.time - 1 : k[u].pc \in Address

Settled(m) == Over(m.faults, m.time)

(* The exploitability model ends the run before this fetch. *)
Final(m) == m.pc = end_address /\ m.visits + 1 = required

(* n follows m, one cycle later. *)
Follows(m, n, k) ==
  /\ DOMAIN n = Members
  /\ n.time = m.time + 1 /\ n.code = "OK" /\ n.faults = m.faults
  /\ n.end_reached = m.end_reached /\ n.decision = m.decision
  /\ n.visits = IF m.pc = end_address THEN m.visits + 1 ELSE m.visits
  /\ n.pc = k[n.time].pc /\ n.mem = k[n.time].mem /\ n.trace = k[n.time].trace

LEMMA Reverts ==
  ASSUME NEW m, NEW k, GoodChain(m.faults, k)
  PROVE  RevertTransient(m) = IF PutBack(m.faults, m.time) THEN k[m.time].reg ELSE m.reg
<1> DEFINE now == {f \in Range(m.faults) : Is(f, FALSE, "transient") /\ f.time = m.time}
<1>1. \A f \in now : f.original = k[m.time].reg
  BY DEF Range, GoodChain, GoodFault, Is
<1>2. now # {} <=> PutBack(m.faults, m.time)
  BY DEF Range, PutBack
<1>3. now # {} => (CHOOSE f \in now : TRUE) \in now
  OBVIOUS
<1> HIDE DEF now
<1>4. now # {} => (CHOOSE f \in now : TRUE).original = k[m.time].reg
  BY <1>1, <1>3
<1> QED BY <1>2, <1>4 DEF RevertTransient, now

(* The next step of its trace. *)
NextStep(m) == [pc |-> m.pc, instruction |-> m.flash[m.pc], reg |-> m.reg, time |-> m.time]

(* What an instruction does that writes w, if it writes the register.       *)
Stepped(m, w) ==
  LET i == m.flash[m.pc]
  IN [m EXCEPT !.reg = IF i = "flip" THEN w ELSE @,
               !.mem = IF i = "store" THEN m.reg ELSE @,
               !.pc  = IF i = "branch" /\ m.reg = 1 THEN 0 ELSE @ + 1,
               !.trace = Append(@, NextStep(m))]

(* What simulator and tracer leave in a register that is written. *)
SimulatorWrites(m) ==
  IF HasPermanent(m.faults) /\ m.pc \notin ignored THEN m.reg ELSE 1 - m.reg

TracerWrites(m) == IF HasPermanent(m.faults) THEN m.reg ELSE 1 - m.reg

(* A machine at time t of the ideal run of its chain, with its faults in    *)
(* force, and what it is after an instruction that writes w.                *)
Poised(m, k, t) ==
  /\ t \in 0 .. timeout /\ t < timeout
  /\ DOMAIN m = Members /\ IsIdeal(m.faults, k) /\ m.time = t
  /\ m.pc = k[t].pc /\ m.mem = k[t].mem /\ m.trace = k[t].trace /\ m.pc \in Address
  /\ m.flash = FlashAt(m.faults, t) /\ m.reg = RegisterAt(m.faults, t, k[t].reg)

Advances(m, k, t, w, x) ==
  /\ DOMAIN x = Members
  /\ x.time = m.time /\ x.flash = m.flash /\ x.faults = m.faults /\ x.visits = m.visits
  /\ x.end_reached = m.end_reached /\ x.decision = m.decision /\ x.code = m.code
  /\ x.pc = k[t + 1].pc /\ x.mem = k[t + 1].mem /\ x.trace = k[t + 1].trace
  /\ k[t + 1].trace = Append(m.trace, NextStep(m))
  /\ w = SimulatorWrites(m) \/ NextStep(m).instruction # "flip" =>
       k[t + 1].reg = IF PutBack(m.faults, t) THEN k[t].reg ELSE x.reg

(* A cycle of either emulator, on the flash and the register of this time.  *)
LEMMA StepAdvances ==
  ASSUME SetupInv, NEW m, NEW w, NEW k, NEW t, Poised(m, k, t)
  PROVE  Advances(m, k, t, w, Stepped(m, w))
<1> USE DEF Poised
<1> DEFINE i == m.flash[m.pc]
           v == m.reg
           x == Stepped(m, w)
<1>1. timeout \in Nat
  BY DEF SetupInv
<1>2. t + 1 \in 1 .. timeout /\ (t + 1) - 1 = t
  BY <1>1
<1>3. k[t] \in Core
  BY DEF IsIdeal
<1>4. k[t + 1] = Advance(m.faults, t, k[t])
  BY <1>2 DEF IsIdeal
<1>5. k[t + 1] = Cycle(m.faults, t, k[t], i, v)
  BY <1>4 DEF Advance
<1>10. NextStep(m) = [pc |-> m.pc, instruction |-> i, reg |-> v, time |-> t]
  BY DEF NextStep
<1>7. SimulatorWrites(m) = IF HasPermanent(m.faults) /\ k[t].pc \notin ignored THEN v ELSE 1 - v
  BY DEF SimulatorWrites
<1>8. x = [m EXCEPT !.reg = IF i = "flip" THEN w ELSE v,
                    !.mem = IF i = "store" THEN v ELSE m.mem,
                    !.pc  = IF i = "branch" /\ v = 1 THEN 0 ELSE m.pc + 1,
                    !.trace = Append(m.trace, NextStep(m))]
  BY DEF Stepped, Members
<1> HIDE DEF i, v, x
<1>9. /\ DOMAIN x = Members
      /\ x.reg = IF i = "flip" THEN w ELSE v
      /\ x.mem = IF i = "store" THEN v ELSE m.mem
      /\ x.pc = IF i = "branch" /\ v = 1 THEN 0 ELSE m.pc + 1
      /\ x.trace = Append(m.trace, NextStep(m))
      /\ x.time = m.time /\ x.flash = m.flash /\ x.faults = m.faults /\ x.visits = m.visits
      /\ x.end_reached = m.end_reached /\ x.decision = m.decision /\ x.code = m.code
  BY <1>8 DEF Members
<1>11. k[t + 1].reg = IF PutBack(m.faults, t) THEN k[t].reg
                      ELSE IF i # "flip" THEN v
                      ELSE IF HasPermanent(m.faults) /\ k[t].pc \notin ignored THEN v ELSE 1 - v
  BY <1>5 DEF Cycle
<1>12. x.pc = k[t + 1].pc /\ x.mem = k[t + 1].mem /\ k[t + 1].trace = Append(m.trace, NextStep(m))
  BY <1>5, <1>9, <1>10 DEF Cycle
<1>14. x.trace = k[t + 1].trace
  BY <1>9, <1>12
<1>13. ASSUME w = SimulatorWrites(m) \/ NextStep(m).instruction # "flip"
       PROVE  k[t + 1].reg = IF PutBack(m.faults, t) THEN k[t].reg ELSE x.reg
  <2>1. i # "flip" \/ w = IF HasPermanent(m.faults) /\ k[t].pc \notin ignored THEN v ELSE 1 - v
    BY <1>7, <1>10, <1>13
  <2> QED BY <1>9, <1>11, <2>1
<1> HIDE DEF Poised
<1>15. x = Stepped(m, w)
  BY DEF x
<1> QED BY <1>9, <1>12, <1>13, <1>14, <1>15 DEF Advances

(* What a cycle of the simulator and of the tracer writes. *)
LEMMA SimulatorExecutes ==
  ASSUME NEW m, m.reg \in 0 .. 1
  PROVE  Execute(m, FALSE) = Stepped(m, SimulatorWrites(m))
<1>1. 1 - (1 - m.reg) = m.reg
  OBVIOUS
<1>2. Written(m, 1 - m.reg, FALSE) = SimulatorWrites(m)
  BY <1>1 DEF Written, ManipulatedValue, SimulatorWrites
<1> QED BY <1>2 DEF Execute, Stepped, NextStep

LEMMA TracerExecutes ==
  ASSUME NEW m, m.reg \in 0 .. 1
  PROVE  Execute(m, TRUE) = Stepped(m, TracerWrites(m))
<1>1. 1 - (1 - m.reg) = m.reg
  OBVIOUS
<1>2. Written(m, 1 - m.reg, TRUE) = TracerWrites(m)
  BY <1>1 DEF Written, ManipulatedValue, TracerWrites
<1> QED BY <1>2 DEF Execute, Stepped, NextStep

LEMMA WriteAlike ==
  ASSUME NEW m, ~LeftAlone(m.faults, NextStep(m)), NextStep(m).instruction = "flip"
  PROVE  TracerWrites(m) = SimulatorWrites(m)
<1>1. NextStep(m).pc = m.pc
  BY DEF NextStep
<1>2. ~HasPermanent(m.faults) \/ m.pc \notin ignored
  BY <1>1 DEF LeftAlone
<1> QED BY <1>2 DEF SimulatorWrites, TracerWrites

(* One cycle of the simulator. *)
LEMMA ClockCases ==
  ASSUME SetupInv, NEW m, NEW k, OnRun(m, k), m.code = "OK", m.time < timeout
  PROVE  \/ m.pc \notin Address /\ Clock(m, FALSE) = [m EXCEPT !.code = "INVALID_MEMORY_ACCESS"]
         \/ /\ m.pc \in Address /\ Final(m)
            /\ Clock(m, FALSE) = [m EXCEPT !.visits = m.visits + 1, !.end_reached = TRUE,
                                           !.code = "STOP_EMULATION_CALLED",
                                           !.decision = IF m.mem = 1 THEN "EXPLOITABLE"
                                                        ELSE "NOT_EXPLOITABLE"]
         \/ /\ m.pc \in Address /\ ~Final(m)
            /\ Follows(m, Clock(m, FALSE), k)
            /\ Clock(m, FALSE).flash = m.flash
            /\ Clock(m, FALSE).reg = k[m.time + 1].reg
<1>1. CASE m.pc \notin Address
  BY <1>1 DEF Clock
<1>2. CASE m.pc \in Address /\ Final(m)
  <2>1. DetectEnd(m) = [m EXCEPT !.visits = m.visits + 1, !.end_reached = TRUE,
                                 !.code = "STOP_EMULATION_CALLED",
                                 !.decision = IF m.mem = 1 THEN "EXPLOITABLE"
                                              ELSE "NOT_EXPLOITABLE"]
    BY <1>2 DEF DetectEnd, Final, OnRun, Members
  <2>2. DetectEnd(m).code # "OK"
    BY <2>1 DEF OnRun, Members
  <2> QED BY <1>2, <2>1, <2>2 DEF Clock
<1>3. CASE m.pc \in Address /\ ~Final(m)
  <2> DEFINE e == DetectEnd(m)
             n == Execute(e, FALSE)
  <2>1. /\ DOMAIN e = Members
        /\ e.visits = IF m.pc = end_address THEN m.visits + 1 ELSE m.visits
        /\ e.pc = m.pc /\ e.reg = m.reg /\ e.mem = m.mem /\ e.time = m.time /\ e.flash = m.flash
        /\ e.faults = m.faults /\ e.end_reached = m.end_reached /\ e.decision = m.decision
        /\ e.code = "OK" /\ e.trace = m.trace
    BY <1>3 DEF DetectEnd, Final, OnRun, Members
  <2>2. Clock(m, FALSE) = [n EXCEPT !.reg = RevertTransient(n), !.time = n.time + 1]
    BY <1>3, <2>1 DEF Clock
  <2> HIDE DEF e
  <2>3. m.time \in 0 .. timeout /\ IsIdeal(e.faults, k) /\ GoodChain(e.faults, k)
    BY <2>1 DEF OnRun
  <2>4. /\ DOMAIN n = Members
        /\ n.time = e.time /\ n.flash = e.flash /\ n.faults = e.faults /\ n.visits = e.visits
        /\ n.end_reached = e.end_reached /\ n.decision = e.decision /\ n.code = e.code
        /\ n.pc = k[m.time + 1].pc
        /\ n.mem = k[m.time + 1].mem
        /\ n.trace = k[m.time + 1].trace
        /\ k[m.time + 1].reg = IF PutBack(e.faults, m.time) THEN k[m.time].reg ELSE n.reg
    <3>1. /\ e.pc = k[m.time].pc /\ e.mem = k[m.time].mem /\ e.trace = k[m.time].trace
          /\ e.pc \in Address /\ e.flash = FlashAt(e.faults, m.time)
          /\ e.reg = RegisterAt(e.faults, m.time, k[m.time].reg)
      BY <1>3, <2>1 DEF OnRun
    <3>2. e.reg \in 0 .. 1
      BY <2>1, <2>3, <3>1 DEF IsIdeal, Core, RegisterAt
    <3>3. n = Stepped(e, SimulatorWrites(e))
      BY <3>2, SimulatorExecutes
    <3>4. e.time = m.time /\ DOMAIN e = Members
      BY <2>1
    <3> HIDE DEF n
    <3>5. Poised(e, k, m.time)
      BY <2>3, <3>1, <3>4 DEF Poised
    <3>6. Advances(e, k, m.time, SimulatorWrites(e), n)
      BY <3>3, <3>5, StepAdvances
    <3> QED BY <3>6 DEF Advances
  <2> HIDE DEF n
  <2>5. n.faults = m.faults /\ n.time = m.time
    BY <2>1, <2>4
  <2>6. RevertTransient(n) = k[m.time + 1].reg
    BY <2>1, <2>3, <2>4, <2>5, Reverts
  <2> DEFINE o == Clock(m, FALSE)
  <2>7. /\ DOMAIN o = Members /\ o.time = m.time + 1 /\ o.reg = k[m.time + 1].reg
        /\ o.pc = n.pc /\ o.mem = n.mem /\ o.trace = n.trace /\ o.flash = n.flash
        /\ o.faults = n.faults /\ o.visits = n.visits /\ o.end_reached = n.end_reached
        /\ o.decision = n.decision /\ o.code = n.code
    <3>1. o = [n EXCEPT !.reg = k[m.time + 1].reg, !.time = m.time + 1]
      BY <2>2, <2>5, <2>6
    <3> HIDE DEF o
    <3> QED BY <2>4, <3>1 DEF Members
  <2> HIDE DEF o
  <2>8. Follows(m, o, k) /\ o.flash = m.flash
    BY <2>1, <2>4, <2>5, <2>7 DEF Follows
  <2> QED BY <1>3, <2>7, <2>8 DEF o
<1> QED BY <1>1, <1>2, <1>3

-----------------------------------------------------------------------------
(* Emulation *)

Once(n, stop, tracing) ==
  IF n.code # "OK" THEN n
  ELSE IF n.pc = stop THEN [n EXCEPT !.code = "END_ADDRESS_REACHED"]
  ELSE Clock(n, tracing)
Coded(n) == IF n.code # "OK" THEN n ELSE [n EXCEPT !.code = "MAX_INSTRUCTIONS_REACHED"]

(* The machines of an emulation, cycle by cycle. *)
Runs(m, stop, cycles, tracing, run) ==
  /\ run[0] = [m EXCEPT !.code = "OK"]
  /\ \A n \in 0 .. cycles - 1 : run[n + 1] = Once(run[n], stop, tracing)
  /\ Emulate(m, stop, cycles, tracing) = Coded(run[cycles])

LEMMA EmulateRuns ==
  ASSUME NEW m, NEW stop, NEW cycles \in Nat, NEW tracing
  PROVE  \E run : Runs(m, stop, cycles, tracing, run)
<1> DEFINE first == [m EXCEPT !.code = "OK"]
           next(n) == Once(n, stop, tracing)
           Turn(f, k) == IF k = 0 THEN first ELSE next(f[k - 1])
           Turns(n, f) == f = [k \in 0 .. n |-> Turn(f, k)]
           after == CHOOSE f : Turns(cycles, f)
           Reached == {n \in 0 .. cycles : \E f : Turns(n, f)}
<1>1. Emulate(m, stop, cycles, tracing) = Coded(after[cycles])
  BY DEF Emulate, Once, Coded
<1> HIDE DEF first, next
<1>2. 0 \in Reached
  <2>1. Turns(0, [k \in 0 .. 0 |-> first])
    OBVIOUS
  <2> HIDE DEF Turns
  <2>2. \E f : Turns(0, f)
    BY <2>1
  <2> QED BY <2>2
<1>3. ASSUME NEW n \in Reached, n < cycles PROVE n + 1 \in Reached
  <2>1. PICK f : Turns(n, f)
    OBVIOUS
  <2> DEFINE last == Turn(f, n + 1)
             g == [k \in 0 .. n + 1 |-> IF k <= n THEN f[k] ELSE last]
  <2>2. n \in Nat /\ n + 1 \in 0 .. cycles
    BY <1>3
  <2>3. \A k \in 0 .. n : f[k] = Turn(f, k)
    <3> HIDE DEF Turn
    <3> QED BY <2>1
  <2>4. g[n + 1] = last /\ \A k \in 0 .. n : g[k] = f[k]
    <3> HIDE DEF last
    <3> QED BY <2>2
  <2>5. ASSUME NEW k \in 0 .. n + 1 PROVE g[k] = Turn(g, k)
    <3>1. k # 0 => k - 1 \in 0 .. n
      BY <2>2
    <3>2. Turn(g, k) = Turn(f, k)
      <4> HIDE DEF g
      <4> QED BY <2>4, <3>1
    <3>3. k = n + 1 \/ k \in 0 .. n
      BY <2>2
    <3> HIDE DEF g, Turn
    <3> QED BY <2>3, <2>4, <3>2, <3>3
  <2>6. Turns(n + 1, g)
    <3> HIDE DEF Turn
    <3>1. g = [k \in 0 .. n + 1 |-> g[k]]
      OBVIOUS
    <3> HIDE DEF g
    <3> QED BY <2>5, <3>1
  <2> HIDE DEF g, Turns
  <2> QED BY <2>2, <2>6
<1>4. cycles \in Reached
  <2>1. Reached \in SUBSET (0 .. cycles)
    OBVIOUS
  <2> HIDE DEF Reached
  <2>2. Reached = 0 .. cycles
    BY <1>2, <1>3, <2>1, IntervalInduct
  <2> QED BY <2>2
<1>5. Turns(cycles, after)
  <2> HIDE DEF Turns
  <2> QED BY <1>4
<1>6. \A k \in 0 .. cycles : after[k] = Turn(after, k)
  <2> HIDE DEF Turn, after
  <2> QED BY <1>5
<1> HIDE DEF after
<1>7. after[0] = first
  BY <1>6
<1>8. \A n \in 0 .. cycles - 1 : after[n + 1] = next(after[n])
  <2>1. ASSUME NEW n \in 0 .. cycles - 1 PROVE after[n + 1] = next(after[n])
    <3>1. n + 1 \in 0 .. cycles /\ n + 1 # 0 /\ (n + 1) - 1 = n
      OBVIOUS
    <3> QED BY <1>6, <3>1
  <2> QED BY <2>1
<1>9. Runs(m, stop, cycles, tracing, after)
  BY <1>1, <1>7, <1>8 DEF Runs, first, next
<1> QED BY <1>9

-----------------------------------------------------------------------------
(* The end of a run *)

EndsAt(k, t) == t < timeout /\ k[t].pc = end_address /\ k[t].visits + 1 = required
Stops(k, t)  == t = timeout \/ k[t].pc \notin Address \/ EndsAt(k, t)
StopTime(k, t) == Stops(k, t) /\ \A u \in 0 .. t - 1 : ~Stops(k, u)

(* m is where the first thing that ends the ideal run has stopped it.       *)
Ended(m, k) ==
  \E t \in 0 .. timeout :
    /\ StopTime(k, t)
    /\ m.trace = k[t].trace
    /\ m.end_reached <=> EndsAt(k, t)
    /\ m.end_reached => m.decision = IF k[t].mem = 1 THEN "EXPLOITABLE" ELSE "NOT_EXPLOITABLE"

(* m has not come to it, and has counted the visits.                        *)
Under(m, k) ==
  /\ ~m.end_reached
  /\ m.visits = k[m.time].visits
  /\ \A u \in 0 .. m.time - 1 : ~Stops(k, u)

LEMMA EndUnique ==
  ASSUME SetupInv, NEW k, NEW m, NEW n, Ended(m, k), Ended(n, k)
  PROVE  /\ m.trace = n.trace
         /\ m.end_reached <=> n.end_reached
         /\ m.end_reached => m.decision = n.decision
<1>1. PICK t \in 0 .. timeout :
        /\ StopTime(k, t)
        /\ m.trace = k[t].trace
        /\ m.end_reached <=> EndsAt(k, t)
        /\ m.end_reached => m.decision = IF k[t].mem = 1 THEN "EXPLOITABLE" ELSE "NOT_EXPLOITABLE"
  BY DEF Ended
<1>2. PICK u \in 0 .. timeout :
        /\ StopTime(k, u)
        /\ n.trace = k[u].trace
        /\ n.end_reached <=> EndsAt(k, u)
        /\ n.end_reached => n.decision = IF k[u].mem = 1 THEN "EXPLOITABLE" ELSE "NOT_EXPLOITABLE"
  BY DEF Ended
<1>3. timeout \in Nat
  BY DEF SetupInv
<1>4. ~(t < u) /\ ~(u < t)
  BY <1>1, <1>2, <1>3 DEF StopTime
<1>5. t = u
  BY <1>3, <1>4
<1> QED BY <1>1, <1>2, <1>5

(* A cycle that executes takes the machine to the next time. *)
LEMMA CycleOnRun ==
  ASSUME SetupInv, NEW m, NEW n, NEW k, OnRun(m, k), Follows(m, n, k), m.pc \in Address,
         m.time < timeout, n.reg = k[n.time].reg, n.flash = FlashAt(n.faults, n.time)
  PROVE  OnRun(n, k)
<1>1. timeout \in Nat /\ m.time \in Nat /\ n.time \in 0 .. timeout /\ n.time = m.time + 1
      /\ n.faults = m.faults
  BY DEF SetupInv, OnRun, Follows
<1>2. \A i \in DOMAIN n.faults : n.faults[i].time \in Nat
  BY <1>1, ElementOfSeq, FaultKinds DEF OnRun, GoodChain
<1>3. \A i \in DOMAIN n.faults : n.faults[i].time <= n.time /\ n.faults[i].time # n.time
  BY <1>1, <1>2 DEF OnRun
<1>4. RegisterAt(n.faults, n.time, k[n.time].reg) = k[n.time].reg
  BY <1>3 DEF RegisterAt, RegisterHit
<1>5. ASSUME NEW u \in 0 .. n.time - 1 PROVE k[u].pc \in Address
  <2>1. u \in 0 .. m.time - 1 \/ u = m.time
    BY <1>1
  <2> QED BY <2>1 DEF OnRun
<1>6. IsIdeal(n.faults, k) /\ GoodChain(n.faults, k)
  BY <1>1 DEF OnRun
<1> QED BY <1>1, <1>3, <1>4, <1>5, <1>6 DEF OnRun, Follows

LEMMA SettledCycle ==
  ASSUME SetupInv, NEW m, NEW n, NEW k, OnRun(m, k), Settled(m), Follows(m, n, k),
         m.pc \in Address, m.time < timeout, n.reg = k[m.time + 1].reg, n.flash = m.flash
  PROVE  OnRun(n, k) /\ Settled(n)
<1>1. m.time \in Nat /\ n.time = m.time + 1 /\ n.faults = m.faults /\ m.faults \in Seq(Fault)
  BY DEF SetupInv, OnRun, Follows, GoodChain
<1>2. FlashAt(m.faults, m.time + 1) = FlashAt(m.faults, m.time)
  BY <1>1, FlashSettles DEF Settled
<1>3. n.flash = FlashAt(n.faults, n.time)
  BY <1>1, <1>2 DEF OnRun
<1>4. OnRun(n, k)
  BY <1>1, <1>3, CycleOnRun
<1>5. \A i \in DOMAIN m.faults : m.faults[i].time \in Nat
  BY <1>1, ElementOfSeq, FaultKinds
<1>6. Settled(n)
  BY <1>1, <1>5 DEF Settled, Over
<1> QED BY <1>4, <1>6

(* The two lemmas need nothing of a machine but its place on the run.       *)
LEMMA OnRunAlike ==
  ASSUME NEW m, NEW n, NEW k, OnRun(m, k), DOMAIN n = Members,
         n.pc = m.pc, n.reg = m.reg, n.mem = m.mem, n.time = m.time, n.flash = m.flash,
         n.faults = m.faults, n.trace = m.trace
  PROVE  OnRun(n, k) /\ (Settled(m) => Settled(n))
BY DEF OnRun, Settled

(* What a cycle of the simulator keeps, however it ends. *)
LEMMA ClockKeeps ==
  ASSUME SetupInv, NEW m, NEW k, OnRun(m, k), Settled(m), m.code = "OK", m.time < timeout
  PROVE  /\ OnRun(Clock(m, FALSE), k) /\ Settled(Clock(m, FALSE))
         /\ Clock(m, FALSE).faults = m.faults
         /\ Clock(m, FALSE).time \in {m.time, m.time + 1}
<1> DEFINE n == Clock(m, FALSE)
<1>1. CASE /\ m.pc \in Address /\ ~Final(m) /\ Follows(m, n, k)
           /\ n.flash = m.flash /\ n.reg = k[m.time + 1].reg
  <2> HIDE DEF n
  <2>1. OnRun(n, k) /\ Settled(n)
    BY <1>1, SettledCycle
  <2> QED BY <1>1, <2>1 DEF n, Follows
<1>2. CASE n = [m EXCEPT !.code = "INVALID_MEMORY_ACCESS"]
           \/ n = [m EXCEPT !.visits = m.visits + 1, !.end_reached = TRUE,
                            !.code = "STOP_EMULATION_CALLED",
                            !.decision = IF m.mem = 1 THEN "EXPLOITABLE" ELSE "NOT_EXPLOITABLE"]
  <2> HIDE DEF n
  <2>1. DOMAIN n = Members /\ n.pc = m.pc /\ n.reg = m.reg /\ n.mem = m.mem /\ n.time = m.time
        /\ n.flash = m.flash /\ n.faults = m.faults /\ n.trace = m.trace
    BY <1>2 DEF OnRun, Members
  <2>2. OnRun(n, k) /\ Settled(n)
    BY <2>1, OnRunAlike
  <2> QED BY <2>1, <2>2 DEF n
<1> QED BY <1>1, <1>2, ClockCases

LEMMA Somewhere ==
  ASSUME NEW c, NEW k, IsIdeal(c, k), NEW t \in 0 .. timeout
  PROVE  k[t].pc # Nowhere /\ k[t].pc \in 0 .. Size
BY SizeAssumption DEF IsIdeal, Core, Nowhere

(* A replay, however it ends, stays on the run. *)
LEMMA EmulateKeeps ==
  ASSUME SetupInv, NEW m, NEW k, OnRun(m, k), Settled(m), NEW stop,
         NEW cycles \in Nat, m.time + cycles <= timeout
  PROVE  /\ OnRun(Emulate(m, stop, cycles, FALSE), k) /\ Settled(Emulate(m, stop, cycles, FALSE))
         /\ Emulate(m, stop, cycles, FALSE).faults = m.faults
         /\ Emulate(m, stop, cycles, FALSE).time \in m.time .. m.time + cycles
<1>1. PICK run : Runs(m, stop, cycles, FALSE, run)
  BY EmulateRuns
<1> DEFINE Kept(n, i) == OnRun(n, k) /\ Settled(n) /\ n.faults = m.faults
                         /\ n.time \in m.time .. m.time + i
           Keeping == {i \in 0 .. cycles : Kept(run[i], i)}
<1>2. timeout \in Nat /\ m.time \in Nat
  BY DEF SetupInv, OnRun
<1>3. ASSUME NEW n, NEW i \in 0 .. cycles, Kept(n, i), NEW code
      PROVE  Kept([n EXCEPT !.code = code], i)
  <2> DEFINE o == [n EXCEPT !.code = code]
  <2>1. DOMAIN o = Members /\ o.pc = n.pc /\ o.reg = n.reg /\ o.mem = n.mem /\ o.time = n.time
        /\ o.flash = n.flash /\ o.faults = n.faults /\ o.trace = n.trace
    BY <1>3 DEF OnRun, Members
  <2> HIDE DEF o
  <2>2. OnRun(o, k) /\ Settled(o)
    BY <1>3, <2>1, OnRunAlike
  <2> QED BY <1>3, <2>1, <2>2 DEF o
<1>4. 0 \in Keeping
  <2>1. Kept(m, 0)
    BY <1>2
  <2> HIDE DEF Kept
  <2>2. Kept(run[0], 0)
    BY <1>1, <1>3, <2>1 DEF Runs
  <2> QED BY <2>2
<1>5. ASSUME NEW i \in Keeping, i < cycles PROVE i + 1 \in Keeping
  <2>1. i \in Nat /\ i \in 0 .. cycles - 1 /\ i + 1 \in 0 .. cycles /\ Kept(run[i], i)
    BY <1>5
  <2>2. run[i + 1] = Once(run[i], stop, FALSE)
    BY <1>1, <2>1 DEF Runs
  <2>3. \A n : Kept(n, i) => Kept(n, i + 1)
    BY <1>2, <2>1
  <2>4. CASE run[i].code = "OK" /\ run[i].pc # stop
    <3>1. run[i + 1] = Clock(run[i], FALSE)
      BY <2>2, <2>4 DEF Once
    <3>2. run[i].time < timeout
      BY <1>2, <2>1
    <3>3. OnRun(run[i + 1], k) /\ Settled(run[i + 1]) /\ run[i + 1].faults = run[i].faults
          /\ run[i + 1].time \in {run[i].time, run[i].time + 1}
      BY <2>1, <2>4, <3>1, <3>2, ClockKeeps
    <3>4. Kept(run[i + 1], i + 1)
      BY <1>2, <2>1, <3>3
    <3> HIDE DEF Kept
    <3> QED BY <2>1, <3>4
  <2>5. CASE run[i].code # "OK" \/ run[i].pc = stop
    <3> HIDE DEF Kept
    <3>1. run[i + 1] = run[i] \/ run[i + 1] = [run[i] EXCEPT !.code = "END_ADDRESS_REACHED"]
      BY <2>2, <2>5 DEF Once
    <3>2. Kept([run[i] EXCEPT !.code = "END_ADDRESS_REACHED"], i)
      BY <1>3, <2>1
    <3>3. Kept(run[i + 1], i)
      BY <2>1, <3>1, <3>2
    <3> QED BY <2>1, <2>3, <3>3
  <2> QED BY <2>4, <2>5
<1>6. Keeping = 0 .. cycles
  <2>1. Keeping \in SUBSET (0 .. cycles)
    OBVIOUS
  <2> HIDE DEF Keeping
  <2> QED BY <1>4, <1>5, <2>1, IntervalInduct
<1>7. cycles \in 0 .. cycles
  OBVIOUS
<1>8. Kept(run[cycles], cycles)
  BY <1>6, <1>7
<1>9. Kept(Emulate(m, stop, cycles, FALSE), cycles)
  <2> HIDE DEF Kept, Keeping
  <2>1. Emulate(m, stop, cycles, FALSE) = Coded(run[cycles])
    BY <1>1 DEF Runs
  <2>2. Kept([run[cycles] EXCEPT !.code = "MAX_INSTRUCTIONS_REACHED"], cycles)
    BY <1>3, <1>7, <1>8
  <2> QED BY <1>8, <2>1, <2>2 DEF Coded
<1> QED BY <1>9

(* The first thing that ends the ideal run ends that of a machine on it.    *)
LEMMA UnderCycle ==
  ASSUME SetupInv, NEW c, NEW k, IsIdeal(c, k), NEW m, NEW n, m.time \in 0 .. timeout,
         m.pc = k[m.time].pc, m.time < timeout, m.pc \in Address, ~Final(m), Under(m, k),
         Follows(m, n, k)
  PROVE  Under(n, k)
<1>1. timeout \in Nat /\ m.time \in Nat /\ n.time \in 1 .. timeout /\ n.time - 1 = m.time
      /\ n.time = m.time + 1
  BY DEF SetupInv, Follows
<1>2. k[n.time] = Advance(c, m.time, k[m.time])
  BY <1>1 DEF IsIdeal
<1>3. n.visits = k[n.time].visits
  BY <1>2 DEF Advance, Cycle, Under, Follows
<1>4. ~Stops(k, m.time)
  BY <1>1 DEF Stops, EndsAt, Final, Under
<1>5. ASSUME NEW u \in 0 .. n.time - 1 PROVE ~Stops(k, u)
  <2>1. u \in 0 .. m.time - 1 \/ u = m.time
    BY <1>1
  <2> QED BY <1>4, <2>1 DEF Under
<1> QED BY <1>3, <1>5 DEF Under, Follows

(* A machine under a run that does not execute its cycle has come to the end. *)
LEMMA EndsOutside ==
  ASSUME SetupInv, NEW k, NEW m, NEW n, m.time \in 0 .. timeout, m.trace = k[m.time].trace,
         m.pc = k[m.time].pc, Under(m, k), m.pc \notin Address, 
         n.trace = m.trace, n.end_reached = m.end_reached
  PROVE  Ended(n, k)
<1>1. StopTime(k, m.time)
  BY DEF StopTime, Stops, Under
<1>2. ~EndsAt(k, m.time)
  BY DEF EndsAt, SetupInv
<1> QED BY <1>1, <1>2 DEF Ended, Under

LEMMA EndsFinal ==
  ASSUME SetupInv, NEW k, NEW m, NEW n, m.time \in 0 .. timeout, m.trace = k[m.time].trace,
         m.pc = k[m.time].pc, m.mem = k[m.time].mem, Under(m, k), m.time < timeout, Final(m),
         n.trace = m.trace, n.end_reached = TRUE,
         n.decision = IF m.mem = 1 THEN "EXPLOITABLE" ELSE "NOT_EXPLOITABLE"
  PROVE  Ended(n, k)
<1>1. EndsAt(k, m.time)
  BY DEF EndsAt, Under, Final
<1>2. StopTime(k, m.time)
  BY <1>1 DEF StopTime, Stops, Under
<1> QED BY <1>1, <1>2 DEF Ended

LEMMA EndsTimeout ==
  ASSUME SetupInv, NEW k, NEW m, NEW n, m.time = timeout, m.trace = k[m.time].trace,
         Under(m, k), n.trace = m.trace, n.end_reached = m.end_reached
  PROVE  Ended(n, k)
<1>1. timeout \in Nat /\ timeout \in 0 .. timeout
  BY DEF SetupInv
<1>2. StopTime(k, timeout) /\ ~EndsAt(k, timeout)
  BY <1>1 DEF StopTime, Stops, EndsAt, Under
<1> QED BY <1>1, <1>2 DEF Ended, Under

LEMMA ClockEnds ==
  ASSUME SetupInv, NEW m, NEW k, OnRun(m, k), m.code = "OK", m.time < timeout, Under(m, k)
  PROVE  \/ /\ Clock(m, FALSE).code # "OK" /\ Ended(Clock(m, FALSE), k)
            /\ m.pc \notin Address \/ m.pc = end_address
            /\ Clock(m, FALSE).code = "INVALID_MEMORY_ACCESS" \/ Clock(m, FALSE).end_reached
            /\ DOMAIN Clock(m, FALSE) = Members /\ Clock(m, FALSE).trace = m.trace
         \/ /\ m.pc \in Address /\ ~Final(m)
            /\ Follows(m, Clock(m, FALSE), k) /\ Under(Clock(m, FALSE), k)
            /\ Clock(m, FALSE).flash = m.flash
            /\ Clock(m, FALSE).reg = k[m.time + 1].reg
<1> DEFINE n == Clock(m, FALSE)
<1>1. DOMAIN m = Members /\ m.time \in 0 .. timeout /\ IsIdeal(m.faults, k)
      /\ m.pc = k[m.time].pc /\ m.mem = k[m.time].mem /\ m.trace = k[m.time].trace
  BY DEF OnRun
<1>2. CASE m.pc \notin Address /\ n = [m EXCEPT !.code = "INVALID_MEMORY_ACCESS"]
  <2> HIDE DEF n
  <2>1. n.code = "INVALID_MEMORY_ACCESS" /\ n.trace = m.trace /\ n.end_reached = m.end_reached
        /\ DOMAIN n = Members
    BY <1>1, <1>2 DEF Members
  <2>2. Ended(n, k)
    BY <1>1, <1>2, <2>1, EndsOutside
  <2> QED BY <1>2, <2>1, <2>2 DEF n
<1>3. CASE /\ m.pc \in Address /\ Final(m)
           /\ n = [m EXCEPT !.visits = m.visits + 1, !.end_reached = TRUE,
                            !.code = "STOP_EMULATION_CALLED",
                            !.decision = IF m.mem = 1 THEN "EXPLOITABLE" ELSE "NOT_EXPLOITABLE"]
  <2> HIDE DEF n
  <2>1. n.code # "OK" /\ n.trace = m.trace /\ n.end_reached = TRUE
        /\ n.decision = (IF m.mem = 1 THEN "EXPLOITABLE" ELSE "NOT_EXPLOITABLE")
        /\ DOMAIN n = Members
    BY <1>1, <1>3 DEF Members
  <2>2. Ended(n, k)
    BY <1>1, <1>3, <2>1, EndsFinal
  <2> QED BY <1>3, <2>1, <2>2 DEF n, Final
<1>4. CASE /\ m.pc \in Address /\ ~Final(m) /\ Follows(m, n, k)
           /\ n.flash = m.flash /\ n.reg = k[m.time + 1].reg
  <2> HIDE DEF n
  <2>1. Under(n, k)
    BY <1>1, <1>4, UnderCycle
  <2> QED BY <1>4, <2>1 DEF n
<1> QED BY <1>2, <1>3, <1>4, ClockCases

LEMMA EmulateEnds ==
  ASSUME SetupInv, NEW m, NEW k, OnRun(m, k), Settled(m), Under(m, k),
         NEW cycles \in Nat, m.time + cycles = timeout
  PROVE  Ended(Emulate(m, Nowhere, cycles, FALSE), k)
<1>1. PICK run : Runs(m, Nowhere, cycles, FALSE, run)
  BY EmulateRuns
<1> DEFINE Going(n, i) == n.code = "OK" /\ OnRun(n, k) /\ Settled(n) /\ Under(n, k)
                          /\ n.time = m.time + i
           Gone(n) == n.code # "OK" /\ Ended(n, k)
           Keeping == {i \in 0 .. cycles : Going(run[i], i) \/ Gone(run[i])}
<1>2. timeout \in Nat /\ m.time \in Nat /\ DOMAIN m = Members
  BY DEF SetupInv, OnRun
<1>4. 0 \in Keeping
  <2> DEFINE o == [m EXCEPT !.code = "OK"]
  <2>1. DOMAIN o = Members /\ o.pc = m.pc /\ o.reg = m.reg /\ o.mem = m.mem /\ o.time = m.time
        /\ o.flash = m.flash /\ o.faults = m.faults /\ o.trace = m.trace /\ o.code = "OK"
        /\ o.visits = m.visits /\ o.end_reached = m.end_reached
    BY <1>2 DEF Members
  <2>2. run[0] = o
    BY <1>1 DEF Runs
  <2> HIDE DEF o
  <2>3. OnRun(o, k) /\ Settled(o)
    BY <2>1, OnRunAlike
  <2>4. Under(o, k)
    BY <2>1 DEF Under
  <2>5. Going(run[0], 0)
    BY <1>2, <2>1, <2>2, <2>3, <2>4
  <2> HIDE DEF Going
  <2> QED BY <2>5
<1>5. ASSUME NEW i \in Keeping, i < cycles PROVE i + 1 \in Keeping
  <2>1. i \in Nat /\ i \in 0 .. cycles - 1 /\ i + 1 \in 0 .. cycles
        /\ (Going(run[i], i) \/ Gone(run[i]))
    BY <1>5
  <2>2. run[i + 1] = Once(run[i], Nowhere, FALSE)
    BY <1>1, <2>1 DEF Runs
  <2>3. CASE Gone(run[i])
    <3>1. run[i + 1] = run[i]
      BY <2>2, <2>3 DEF Once
    <3> HIDE DEF Gone, Going
    <3> QED BY <2>1, <2>3, <3>1
  <2>4. CASE Going(run[i], i)
    <3>1. run[i].pc # Nowhere /\ run[i].time < timeout
      BY <1>2, <2>1, <2>4, Somewhere DEF OnRun
    <3>2. run[i + 1] = Clock(run[i], FALSE)
      BY <2>2, <2>4, <3>1 DEF Once
    <3>3. Gone(run[i + 1]) \/ Going(run[i + 1], i + 1)
      <4>1. CASE run[i + 1].code # "OK" /\ Ended(run[i + 1], k)
        BY <4>1
      <4>2. CASE /\ run[i].pc \in Address
                 /\ Follows(run[i], run[i + 1], k) /\ Under(run[i + 1], k)
                 /\ run[i + 1].flash = run[i].flash
                 /\ run[i + 1].reg = k[run[i].time + 1].reg
        <5>1. OnRun(run[i + 1], k) /\ Settled(run[i + 1])
          BY <2>4, <3>1, <4>2, SettledCycle
        <5>2. run[i + 1].code = "OK" /\ run[i + 1].time = m.time + (i + 1)
          BY <1>2, <2>1, <2>4, <4>2 DEF Follows
        <5> QED BY <4>2, <5>1, <5>2
      <4> QED BY <2>4, <3>1, <3>2, <4>1, <4>2, ClockEnds
    <3> HIDE DEF Gone, Going
    <3> QED BY <2>1, <3>3
  <2> QED BY <2>1, <2>3, <2>4
<1>6. Keeping = 0 .. cycles
  <2>1. Keeping \in SUBSET (0 .. cycles)
    OBVIOUS
  <2> HIDE DEF Keeping
  <2> QED BY <1>4, <1>5, <2>1, IntervalInduct
<1>7. cycles \in 0 .. cycles
  OBVIOUS
<1>8. Going(run[cycles], cycles) \/ Gone(run[cycles])
  BY <1>6, <1>7
<1>9. Emulate(m, Nowhere, cycles, FALSE) = Coded(run[cycles])
  BY <1>1 DEF Runs
<1>10. CASE Gone(run[cycles])
  BY <1>9, <1>10 DEF Coded
<1>11. CASE Going(run[cycles], cycles)
  <2> DEFINE n == run[cycles]
             o == [n EXCEPT !.code = "MAX_INSTRUCTIONS_REACHED"]
  <2>1. Emulate(m, Nowhere, cycles, FALSE) = o
    BY <1>9, <1>11 DEF Coded
  <2>2. n.time = timeout /\ n.trace = k[n.time].trace /\ Under(n, k) /\ DOMAIN n = Members
    BY <1>11 DEF OnRun
  <2> HIDE DEF n
  <2>3. o.trace = n.trace /\ o.end_reached = n.end_reached
    BY <2>2 DEF Members
  <2> HIDE DEF o
  <2>4. Ended(o, k)
    BY <2>2, <2>3, EndsTimeout
  <2> QED BY <2>1, <2>4
<1> QED BY <1>8, <1>10, <1>11

-----------------------------------------------------------------------------
(* The tracer on the ideal run *)

(* The flash before the faults of this time: the permanent faults are       *)
(* written at time 0.                                                       *)
LastingFlash(c, t) ==
  [a \in Address |->
     IF t > 0 /\ \E i \in DOMAIN c : c[i].instruction /\ c[i].where = a /\ c[i].type = "permanent"
     THEN ManipulatedInstruction(program[a]) ELSE program[a]]

LEMMA LastingStart == \A c : \A a \in Address : LastingFlash(c, 0)[a] = program[a]
BY DEF LastingFlash

(* The hooks before the fetch will make m what the ideal run is.            *)
OnTrace(m, k) ==
  /\ DOMAIN m = Members
  /\ m.time \in 0 .. timeout
  /\ IsIdeal(m.faults, k) /\ GoodChain(m.faults, k)
  /\ m.pc = k[m.time].pc /\ m.mem = k[m.time].mem /\ m.trace = k[m.time].trace
  /\ Repaired(m) = LastingFlash(m.faults, m.time)
  /\ RepairedRegister(m) = k[m.time].reg

(* A transient fault of the last cycle is to be taken back. *)
Passing(c, a, t) ==
  \E i \in DOMAIN c : Is(c[i], TRUE, "transient") /\ c[i].time = t /\ c[i].where = a

(* What the repairs of the tracer find, for any chain of good faults.       *)
LEMMA RepairsFlash ==
  ASSUME SetupInv, NEW m, NEW k, GoodChain(m.faults, k)
  PROVE  \A a \in Address :
           Repaired(m)[a] = IF Passing(m.faults, a, m.time - 1) THEN program[a] ELSE m.flash[a]
<1> SUFFICES ASSUME NEW a \in Address
             PROVE  Repaired(m)[a] = IF Passing(m.faults, a, m.time - 1)
                                     THEN program[a] ELSE m.flash[a]
  OBVIOUS
<1> DEFINE last == {f \in Range(m.faults) :
                      Is(f, TRUE, "transient") /\ f.time = m.time - 1 /\ f.where = a}
<1>1. \A f \in last : f.original = program[a]
  BY DEF Range, GoodChain, GoodFault, Is
<1>2. last # {} <=> Passing(m.faults, a, m.time - 1)
  BY DEF Range, Passing
<1>3. Repaired(m)[a] = IF last = {} THEN m.flash[a] ELSE (CHOOSE f \in last : TRUE).original
  BY DEF Repaired
<1>4. last # {} => (CHOOSE f \in last : TRUE) \in last
  OBVIOUS
<1> HIDE DEF last
<1>5. last # {} => (CHOOSE f \in last : TRUE).original = program[a]
  BY <1>1, <1>4
<1> QED BY <1>2, <1>3, <1>5

LEMMA RepairsRegister ==
  ASSUME SetupInv, NEW m, NEW k, GoodChain(m.faults, k), NEW t \in Nat, m.time = t + 1
  PROVE  RepairedRegister(m) = IF PutBack(m.faults, t) THEN k[t].reg ELSE m.reg
<1> DEFINE last == {f \in Range(m.faults) : Is(f, FALSE, "transient") /\ f.time + 1 = m.time}
<1>0. \A i \in DOMAIN m.faults : m.faults[i].time \in Nat
  BY ElementOfSeq, FaultKinds DEF GoodChain
<1>1. \A f \in last : f.original = k[t].reg
  BY <1>0 DEF Range, GoodChain, GoodFault, Is
<1>2. last # {} <=> PutBack(m.faults, t)
  <2>1. \A i \in DOMAIN m.faults : m.faults[i].time + 1 = m.time <=> m.faults[i].time = t
    BY <1>0
  <2>2. last # {} <=> \E i \in DOMAIN m.faults :
                        Is(m.faults[i], FALSE, "transient") /\ m.faults[i].time + 1 = m.time
    BY DEF Range
  <2> QED BY <2>1, <2>2 DEF PutBack
<1>3. last # {} => (CHOOSE f \in last : TRUE) \in last
  OBVIOUS
<1> HIDE DEF last
<1>4. last # {} => (CHOOSE f \in last : TRUE).original = k[t].reg
  BY <1>1, <1>3
<1> QED BY <1>2, <1>4 DEF RepairedRegister, last

(* The hooks of the tracer before a fetch write the faults of this time,    *)
(* and learn about the originals what the simulator has known.              *)
LEMMA FetchFaults ==
  ASSUME SetupInv, NEW m, NEW k, OnTrace(m, k)
  PROVE  /\ Manipulated(m, Repaired(m)) = FlashAt(m.faults, m.time)
         /\ ManipulatedRegister(m, RepairedRegister(m)) = RegisterAt(m.faults, m.time, k[m.time].reg)
         /\ Learnt(m, Repaired(m), RepairedRegister(m)) = m.faults
<1> DEFINE c == m.faults
           t == m.time
           flash == Repaired(m)
           v == k[t].reg
<1>1. /\ t \in Nat /\ c \in Seq(Fault)
      /\ \A i \in DOMAIN c : c[i] \in Fault /\ GoodFault(c[i], k)
      /\ \A i, j \in DOMAIN c : Apart(c[i], c[j])
      /\ flash = LastingFlash(c, t) /\ RepairedRegister(m) = v
  BY ElementOfSeq DEF OnTrace, GoodChain, SetupInv
<1>2. Manipulated(m, flash) = FlashAt(c, t)
  <2>1. \A a \in Address :
          (\E f \in Range(c) : f.instruction /\ f.time = t /\ f.where = a)
            <=> \E i \in DOMAIN c : c[i].instruction /\ c[i].time = t /\ c[i].where = a
    BY DEF Range
  <2> HIDE DEF c, t, flash
  <2>2. ASSUME NEW a \in Address, NEW i \in DOMAIN c,
               c[i].instruction /\ c[i].time = t /\ c[i].where = a
        PROVE  InstructionHit(c, a, t) /\ flash[a] = program[a]
    <3>1. InstructionHit(c, a, t)
      BY <2>2 DEF InstructionHit
    <3>2. CASE t = 0
      BY <1>1, <3>1, <3>2, LastingStart
    <3>3. CASE t > 0
      <4>1. c[i].type # "permanent"
        BY <1>1, <2>2, <3>3 DEF GoodFault
      <4>2. \A j \in DOMAIN c : c[j].instruction /\ c[j].where = a => c[j].type # "permanent"
        BY <1>1, <2>2, <4>1 DEF Apart
      <4> QED BY <1>1, <3>1, <4>2 DEF LastingFlash
    <3> QED BY <1>1, <3>1, <3>2, <3>3
  <2>3. ASSUME NEW a \in Address,
               ~ \E i \in DOMAIN c : c[i].instruction /\ c[i].time = t /\ c[i].where = a
        PROVE  flash[a] = FlashAt(c, t)[a]
    <3>1. InstructionHit(c, a, t) <=>
            \E i \in DOMAIN c : c[i].instruction /\ c[i].where = a /\ c[i].type = "permanent"
      BY <2>3 DEF InstructionHit
    <3>2. InstructionHit(c, a, t) => t > 0
      BY <1>1, <2>3, <3>1 DEF GoodFault
    <3> QED BY <1>1, <3>1, <3>2 DEF LastingFlash, FlashAt
  <2>4. ASSUME NEW a \in Address
        PROVE  FlashAt(c, t)[a] =
                 IF \E i \in DOMAIN c : c[i].instruction /\ c[i].time = t /\ c[i].where = a
                 THEN ManipulatedInstruction(flash[a]) ELSE flash[a]
    BY <2>2, <2>3 DEF FlashAt
  <2> QED BY <2>1, <2>4 DEF Manipulated, FlashAt, c, t
<1>3. ManipulatedRegister(m, RepairedRegister(m)) = RegisterAt(c, t, v)
  <2>1. (\E f \in Range(c) : ~f.instruction /\ f.time = t) <=> RegisterHit(c, t)
    BY DEF Range, RegisterHit
  <2> QED BY <1>1, <2>1 DEF ManipulatedRegister, RegisterAt, ManipulatedValue
<1>4. ASSUME NEW i \in DOMAIN c, c[i].time = t
      PROVE  [c[i] EXCEPT !.original = IF c[i].instruction THEN flash[c[i].where] ELSE v] = c[i]
  <2> DEFINE f == c[i]
  <2>1. f \in Fault /\ GoodFault(f, k) /\ f.time = t
    BY <1>1, <1>4
  <2>2. (IF f.instruction THEN flash[f.where] ELSE v) = f.original
    <3>1. CASE ~f.instruction
      BY <2>1, <3>1 DEF GoodFault
    <3>2. CASE f.instruction
      <4>1. f.where \in Address /\ f.original = program[f.where]
        BY <2>1, <3>2, FaultKinds DEF GoodFault
      <4>2. CASE t = 0
        BY <1>1, <3>2, <4>1, <4>2, LastingStart
      <4>3. CASE t # 0
        <5>1. f.type # "permanent"
          BY <2>1, <4>3 DEF GoodFault
        <5>2. \A j \in DOMAIN c : c[j].instruction /\ c[j].where = f.where => c[j].type # "permanent"
          BY <1>1, <3>2, <5>1 DEF Apart
        <5> HIDE DEF c, t, flash
        <5>3. flash[f.where] = program[f.where]
          BY <1>1, <4>1, <5>2 DEF LastingFlash
        <5> QED BY <3>2, <4>1, <5>3
      <4> QED BY <4>2, <4>3
    <3> QED BY <2>1, <3>1, <3>2, FaultKinds
  <2> HIDE DEF f
  <2>3. [f EXCEPT !.original = f.original] = f
    BY <2>1 DEF Fault, InstructionFault, RegisterFault
  <2> QED BY <2>2, <2>3 DEF f
<1>5. Learnt(m, flash, RepairedRegister(m)) = c
  <2>1. Learnt(m, flash, v) =
          [i \in DOMAIN c |->
             IF c[i].time # t THEN c[i]
             ELSE [c[i] EXCEPT !.original = IF c[i].instruction THEN flash[c[i].where] ELSE v]]
    BY DEF Learnt
  <2>2. c = [i \in DOMAIN c |-> c[i]]
    BY <1>1
  <2> HIDE DEF c, t, flash, v
  <2>3. Learnt(m, flash, v) = c
    BY <1>4, <2>1, <2>2
  <2> QED BY <1>1, <2>3
<1> QED BY <1>2, <1>3, <1>5

(* The tracer starts on the ideal run. *)
LEMMA TraceStarts ==
  ASSUME SetupInv, NEW c, NEW k, IsIdeal(c, k), GoodChain(c, k)
  PROVE  OnTrace(MainEmulator(c), k) /\ Under(MainEmulator(c), k)
<1> DEFINE m == MainEmulator(c)
<1>1. /\ DOMAIN m = Members /\ m.time = 0 /\ m.pc = 0 /\ m.mem = 0 /\ m.reg = 0
      /\ m.trace = <<>> /\ m.flash = program /\ m.faults = c /\ m.visits = 0
      /\ m.end_reached = FALSE
  BY DEF MainEmulator, Members
<1> HIDE DEF m
<1>2. timeout \in Nat /\ k[0] = Start
  BY DEF SetupInv, IsIdeal
<1>3. \A i \in DOMAIN c : c[i].time \in Nat
  BY ElementOfSeq, FaultKinds DEF GoodChain
<1>4. \A f \in Range(c) : f.time \in Nat
  BY <1>3 DEF Range
<1>5. RepairedRegister(m) = 0
  <2> DEFINE last == {f \in Range(c) : Is(f, FALSE, "transient") /\ f.time + 1 = 0}
  <2>1. last = {}
    <3>1. SUFFICES ASSUME NEW f \in last PROVE FALSE
      OBVIOUS
    <3>2. f \in Range(c) /\ f.time + 1 = 0
      BY <3>1
    <3>3. f.time \in Nat
      BY <1>4, <3>2
    <3> HIDE DEF last
    <3> QED BY <3>2, <3>3
  <2> QED BY <1>1, <2>1 DEF RepairedRegister
<1>6. Repaired(m) = LastingFlash(c, 0)
  <2>1. \A a \in Address : Repaired(m)[a] = program[a]
    BY <1>1, <1>3, RepairsFlash DEF Passing
  <2>2. \A a \in Address : Repaired(m)[a] = LastingFlash(c, 0)[a]
    BY <2>1, LastingStart
  <2>3. Repaired(m) = [a \in Address |-> Repaired(m)[a]]
    BY DEF Repaired
  <2>4. LastingFlash(c, 0) = [a \in Address |-> LastingFlash(c, 0)[a]]
    BY DEF LastingFlash
  <2> QED BY <2>2, <2>3, <2>4
<1>7. OnTrace(m, k)
  BY <1>1, <1>2, <1>5, <1>6 DEF OnTrace, Start
<1>8. Under(m, k)
  BY <1>1, <1>2 DEF Under, Start
<1> QED BY <1>7, <1>8 DEF m

(* The repairs at the next fetch take back the transient faults. *)
LEMMA RepairsNext ==
  ASSUME SetupInv, NEW n, NEW k, GoodChain(n.faults, k), NEW t \in Nat, n.time = t + 1,
         n.flash = FlashAt(n.faults, t)
  PROVE  Repaired(n) = LastingFlash(n.faults, t + 1)
<1> DEFINE c == n.faults
           lasting(a) == \E i \in DOMAIN c : c[i].instruction /\ c[i].where = a
                                             /\ c[i].type = "permanent"
<1>1. /\ \A i \in DOMAIN c : c[i] \in Fault
      /\ \A i, j \in DOMAIN c : Apart(c[i], c[j])
  BY ElementOfSeq DEF GoodChain
<1>2. \A a \in Address : Repaired(n)[a] = IF Passing(c, a, t) THEN program[a] ELSE n.flash[a]
  <2>1. n.time - 1 = t
    OBVIOUS
  <2> QED BY <2>1, RepairsFlash
<1>3. ASSUME NEW a \in Address, Passing(c, a, t) PROVE ~lasting(a)
  BY <1>1, <1>3 DEF Apart, Is, Passing
<1>4. ASSUME NEW a \in Address, ~Passing(c, a, t) PROVE InstructionHit(c, a, t) <=> lasting(a)
  <2>1. \A i \in DOMAIN c : c[i].instruction /\ c[i].type # "permanent"
                            => Is(c[i], TRUE, "transient")
    BY <1>1, FaultKinds DEF Is
  <2> QED BY <1>4, <2>1 DEF InstructionHit, Passing
<1>5. \A a \in Address : n.flash[a] = IF InstructionHit(c, a, t)
                                      THEN ManipulatedInstruction(program[a]) ELSE program[a]
  BY DEF FlashAt
<1>6. \A a \in Address : LastingFlash(c, t + 1)[a] =
                           IF lasting(a) THEN ManipulatedInstruction(program[a]) ELSE program[a]
  BY DEF LastingFlash
<1> HIDE DEF lasting
<1>7. \A a \in Address : Repaired(n)[a] = LastingFlash(c, t + 1)[a]
  BY <1>2, <1>3, <1>4, <1>5, <1>6
<1>8. Repaired(n) = [a \in Address |-> Repaired(n)[a]]
  BY DEF Repaired
<1>9. LastingFlash(c, t + 1) = [a \in Address |-> LastingFlash(c, t + 1)[a]]
  BY DEF LastingFlash
<1> QED BY <1>7, <1>8, <1>9

(* Traces that go on *)
Extends(long, short) == \A i \in DOMAIN short : i \in DOMAIN long /\ long[i] = short[i]

LEMMA AppendExtends ==
  ASSUME NEW T, NEW s \in Seq(T), NEW e
  PROVE  /\ Append(s, e) \in Seq(T \cup {e})
         /\ Extends(Append(s, e), s)
         /\ Len(Append(s, e)) \in DOMAIN Append(s, e)
         /\ Append(s, e)[Len(Append(s, e))] = e
<1>1. s \in Seq(T \cup {e})
  <2>1. \A i \in 1 .. Len(s) : s[i] \in T \cup {e}
    BY ElementOfSeq
  <2>2. s = [i \in 1 .. Len(s) |-> s[i]] /\ Len(s) \in Nat
    BY LenProperties
  <2> QED BY <2>1, <2>2, IsASeq
<1> DEFINE S == T \cup {e}
<1>2. e \in S
  OBVIOUS
<1> HIDE DEF S
<1> QED BY <1>1, <1>2, AppendProperties DEF Extends, S

LEMMA ExtendsFurther ==
  ASSUME NEW a, NEW b, NEW c, Extends(a, b), Extends(b, c) PROVE Extends(a, c)
BY DEF Extends

LEMMA IdealExtends ==
  ASSUME SetupInv, NEW c, NEW k, IsIdeal(c, k), NEW t \in 0 .. timeout, NEW e \in t .. timeout
  PROVE  Extends(k[e].trace, k[t].trace)
<1> DEFINE Longer == {n \in 0 .. e : n < t \/ Extends(k[n].trace, k[t].trace)}
<1>1. timeout \in Nat /\ t \in Nat /\ e \in Nat
  BY DEF SetupInv
<1>2. Extends(k[t].trace, k[t].trace)
  BY DEF Extends
<1>3. 0 \in Longer
  <2>1. 0 < t \/ 0 = t
    BY <1>1
  <2> QED BY <1>1, <1>2, <2>1
<1>4. ASSUME NEW n \in Longer, n < e PROVE n + 1 \in Longer
  <2>1. n \in 0 .. timeout /\ n + 1 \in 0 .. e /\ n + 1 \in 1 .. timeout /\ (n + 1) - 1 = n
    BY <1>1, <1>4
  <2>2. k[n] \in Core /\ k[n].trace \in Seq(Step)
    BY <2>1 DEF IsIdeal, Core
  <2>3. k[n + 1] = Advance(c, n, k[n])
    BY <2>1 DEF IsIdeal
  <2>4. k[n + 1].trace = k[n].trace \/ \E s : k[n + 1].trace = Append(k[n].trace, s)
    BY <2>3 DEF Advance, Cycle
  <2>5. Extends(k[n + 1].trace, k[n].trace)
    <3>1. CASE k[n + 1].trace = k[n].trace
      BY <3>1 DEF Extends
    <3>2. CASE \E s : k[n + 1].trace = Append(k[n].trace, s)
      <4>1. PICK s : k[n + 1].trace = Append(k[n].trace, s)
        BY <3>2
      <4>2. Extends(Append(k[n].trace, s), k[n].trace)
        BY <2>2, AppendExtends
      <4> QED BY <4>1, <4>2
    <3> QED BY <2>4, <3>1, <3>2
  <2>6. CASE n + 1 = t
    BY <1>2, <2>1, <2>6
  <2>7. CASE n + 1 < t
    BY <2>1, <2>7
  <2>8. CASE n + 1 > t
    <3>1. Extends(k[n].trace, k[t].trace)
      BY <1>1, <1>4, <2>1, <2>8
    <3>2. Extends(k[n + 1].trace, k[t].trace)
      BY <2>5, <3>1, ExtendsFurther
    <3> QED BY <2>1, <3>2
  <2> QED BY <1>1, <2>1, <2>6, <2>7, <2>8
<1>5. Longer = 0 .. e
  <2>1. Longer \in SUBSET (0 .. e)
    OBVIOUS
  <2> HIDE DEF Longer
  <2> QED BY <1>1, <1>3, <1>4, <2>1, IntervalInduct
<1>6. e \in Longer /\ ~(e < t)
  BY <1>1, <1>5
<1> QED BY <1>6

(* The ideal run of c has not ended when it leaves a value alone, and the   *)
(* trace goes on from there.                                                *)
LeavesAt(c, k, t) ==
  /\ \A u \in 0 .. t - 1 : ~Stops(k, u)
  /\ \E i \in DOMAIN k[t].trace : LeftAlone(c, k[t].trace[i])
Parted(c, k, trace) ==
  \E t \in 0 .. timeout : LeavesAt(c, k, t) /\ Extends(trace, k[t].trace)

(* A tracer that has parted from the run. *)
Astray(n, c, k) ==
  /\ DOMAIN n = Members
  /\ \E T : n.trace \in Seq(T)
  /\ Parted(c, k, n.trace)

LEMMA AstrayAlike ==
  ASSUME NEW m, NEW n, NEW c, NEW k, Astray(m, c, k), DOMAIN n = Members, n.trace = m.trace
  PROVE  Astray(n, c, k)
BY DEF Astray

LEMMA AstrayClock ==
  ASSUME NEW m, NEW c, NEW k, Astray(m, c, k) PROVE Astray(Clock(m, TRUE), c, k)
<1> DEFINE e == TracerFetch(m)
           x == Execute(e, TRUE)
           n == Clock(m, TRUE)
<1>1. DOMAIN m = Members
  BY DEF Astray
<1>2. DOMAIN DetectEnd(m) = Members /\ DetectEnd(m).trace = m.trace
  BY <1>1 DEF DetectEnd, Members
<1>3. DOMAIN e = Members /\ e.trace = m.trace
  BY <1>2 DEF TracerFetch, Members
<1> HIDE DEF e
<1>4. \E s : DOMAIN x = Members /\ x.trace = Append(m.trace, s)
  BY <1>3 DEF Execute, Members
<1>5. n = [m EXCEPT !.code = "INVALID_MEMORY_ACCESS"] \/ n = e
      \/ n = [x EXCEPT !.reg = x.reg, !.time = x.time + 1]
  BY DEF Clock, e
<1> HIDE DEF n, x
<1>6. CASE n = [m EXCEPT !.code = "INVALID_MEMORY_ACCESS"]
  <2>1. DOMAIN n = Members /\ n.trace = m.trace
    BY <1>1, <1>6 DEF Members
  <2> QED BY <2>1, AstrayAlike DEF n
<1>7. CASE n = e
  BY <1>3, <1>7, AstrayAlike DEF n
<1>8. CASE n = [x EXCEPT !.reg = x.reg, !.time = x.time + 1]
  <2>1. PICK s : DOMAIN x = Members /\ x.trace = Append(m.trace, s)
    BY <1>4
  <2>2. DOMAIN n = Members /\ n.trace = Append(m.trace, s)
    BY <1>8, <2>1 DEF Members
  <2>3. PICK T : m.trace \in Seq(T)
    BY DEF Astray
  <2>4. n.trace \in Seq(T \cup {s}) /\ Extends(n.trace, m.trace)
    BY <2>2, <2>3, AppendExtends
  <2>5. PICK t \in 0 .. timeout : LeavesAt(c, k, t) /\ Extends(m.trace, k[t].trace)
    BY DEF Astray, Parted
  <2>6. Extends(n.trace, k[t].trace)
    BY <2>4, <2>5, ExtendsFurther
  <2>7. Parted(c, k, n.trace)
    BY <2>5, <2>6 DEF Parted
  <2> QED BY <2>2, <2>4, <2>7 DEF Astray, n
<1> QED BY <1>5, <1>6, <1>7, <1>8

(* One cycle of the tracer. *)
LEMMA TraceClock ==
  ASSUME SetupInv, NEW m, NEW k, OnTrace(m, k), m.code = "OK", m.time < timeout, Under(m, k)
  PROVE  LET n == Clock(m, TRUE)
         IN \/ n.code # "OK" /\ Ended(n, k)
            \/ n.code = "OK" /\ OnTrace(n, k) /\ Under(n, k) /\ n.time = m.time + 1
               /\ n.faults = m.faults
            \/ Astray(n, m.faults, k)
<1> DEFINE n == Clock(m, TRUE)
           d == DetectEnd(m)
           e == TracerFetch(m)
<1>1. DOMAIN m = Members /\ m.time \in 0 .. timeout /\ m.time \in Nat /\ timeout \in Nat
      /\ IsIdeal(m.faults, k) /\ GoodChain(m.faults, k)
      /\ m.pc = k[m.time].pc /\ m.mem = k[m.time].mem /\ m.trace = k[m.time].trace
  BY DEF OnTrace, SetupInv
<1>2. CASE m.pc \notin Address
  <2>1. n = [m EXCEPT !.code = "INVALID_MEMORY_ACCESS"]
    BY <1>2 DEF Clock
  <2> HIDE DEF n
  <2>2. n.code # "OK" /\ n.trace = m.trace /\ n.end_reached = m.end_reached
    BY <1>1, <2>1 DEF Members
  <2>3. Ended(n, k)
    BY <1>1, <1>2, <2>2, EndsOutside
  <2> QED BY <2>2, <2>3 DEF n
<1>3. e = [d EXCEPT !.flash = FlashAt(m.faults, m.time),
                    !.reg = RegisterAt(m.faults, m.time, k[m.time].reg),
                    !.faults = m.faults]
  BY FetchFaults DEF TracerFetch
<1>4. CASE m.pc \in Address /\ Final(m)
  <2>1. d = [m EXCEPT !.visits = m.visits + 1, !.end_reached = TRUE,
                      !.code = "STOP_EMULATION_CALLED",
                      !.decision = IF m.mem = 1 THEN "EXPLOITABLE" ELSE "NOT_EXPLOITABLE"]
    BY <1>1, <1>4 DEF DetectEnd, Final, Members
  <2> HIDE DEF d, e
  <2>2. DOMAIN d = Members /\ d.code # "OK" /\ d.trace = m.trace /\ d.end_reached = TRUE
        /\ d.decision = (IF m.mem = 1 THEN "EXPLOITABLE" ELSE "NOT_EXPLOITABLE")
    BY <1>1, <2>1 DEF Members
  <2>3. e.code # "OK" /\ e.trace = m.trace /\ e.end_reached = TRUE
        /\ e.decision = (IF m.mem = 1 THEN "EXPLOITABLE" ELSE "NOT_EXPLOITABLE")
    BY <1>3, <2>2 DEF Members
  <2>4. n = e
    BY <1>4, <2>3 DEF Clock, e
  <2>5. Ended(n, k)
    <3> HIDE DEF n
    <3> QED BY <1>1, <1>4, <2>3, <2>4, EndsFinal
  <2> QED BY <2>3, <2>4, <2>5
<1>5. CASE m.pc \in Address /\ ~Final(m)
  <2> DEFINE x == Execute(e, TRUE)
  <2>1. /\ DOMAIN d = Members
        /\ d.visits = IF m.pc = end_address THEN m.visits + 1 ELSE m.visits
        /\ d.pc = m.pc /\ d.mem = m.mem /\ d.time = m.time
        /\ d.end_reached = m.end_reached /\ d.decision = m.decision
        /\ d.code = "OK" /\ d.trace = m.trace
    BY <1>1, <1>5 DEF DetectEnd, Final, Members
  <2> HIDE DEF d, e
  <2>2. /\ DOMAIN e = Members /\ e.visits = d.visits /\ e.pc = d.pc /\ e.mem = d.mem
        /\ e.time = d.time /\ e.end_reached = d.end_reached /\ e.decision = d.decision
        /\ e.code = d.code /\ e.trace = d.trace /\ e.faults = m.faults
        /\ e.flash = FlashAt(m.faults, m.time)
        /\ e.reg = RegisterAt(m.faults, m.time, k[m.time].reg)
    BY <1>3, <2>1 DEF Members
  <2>3. n = [x EXCEPT !.reg = x.reg, !.time = x.time + 1]
    BY <1>5, <2>1, <2>2 DEF Clock, e
  <2> HIDE DEF n
  <2>4. /\ DOMAIN x = Members
        /\ x.time = e.time /\ x.flash = e.flash /\ x.faults = e.faults /\ x.visits = e.visits
        /\ x.end_reached = e.end_reached /\ x.decision = e.decision /\ x.code = e.code
        /\ x.pc = k[m.time + 1].pc /\ x.mem = k[m.time + 1].mem
        /\ x.trace = k[m.time + 1].trace
        /\ \/ k[m.time + 1].reg = IF PutBack(m.faults, m.time) THEN k[m.time].reg ELSE x.reg
           \/ k[m.time + 1].trace = Append(m.trace, NextStep(e)) /\ LeftAlone(m.faults, NextStep(e))
    <3>1. /\ e.pc = k[m.time].pc /\ e.mem = k[m.time].mem /\ e.trace = k[m.time].trace
          /\ e.pc \in Address /\ IsIdeal(e.faults, k) /\ e.time = m.time
          /\ e.flash = FlashAt(e.faults, m.time)
          /\ e.reg = RegisterAt(e.faults, m.time, k[m.time].reg)
      BY <1>1, <1>5, <2>1, <2>2
    <3>2. e.faults = m.faults
      BY <2>2
    <3> HIDE DEF x
    <3> DEFINE t == m.time
    <3>4. t \in 0 .. timeout /\ t < timeout /\ e.time = t /\ IsIdeal(e.faults, k)
      BY <1>1, <3>1
    <3>5. /\ e.pc = k[t].pc /\ e.mem = k[t].mem /\ e.trace = k[t].trace /\ e.pc \in Address
          /\ e.flash = FlashAt(e.faults, t) /\ e.reg = RegisterAt(e.faults, t, k[t].reg)
          /\ DOMAIN e = Members /\ e.trace = m.trace
      BY <1>1, <2>2, <3>1
    <3>9. e.reg \in 0 .. 1
      BY <3>4, <3>5 DEF IsIdeal, Core, RegisterAt
    <3>10. x = Stepped(e, TracerWrites(e))
      BY <3>9, TracerExecutes DEF x
    <3> HIDE DEF t
    <3>11. Poised(e, k, t)
      BY <3>4, <3>5 DEF Poised
    <3>6. Advances(e, k, t, TracerWrites(e), x)
      BY <3>10, <3>11, StepAdvances
    <3>7. ~LeftAlone(e.faults, NextStep(e)) =>
            k[t + 1].reg = IF PutBack(e.faults, t) THEN k[t].reg ELSE x.reg
      BY <3>6, WriteAlike DEF Advances
    <3>8. /\ DOMAIN x = Members
          /\ x.time = e.time /\ x.flash = e.flash /\ x.faults = e.faults /\ x.visits = e.visits
          /\ x.end_reached = e.end_reached /\ x.decision = e.decision /\ x.code = e.code
          /\ x.pc = k[t + 1].pc /\ x.mem = k[t + 1].mem /\ x.trace = k[t + 1].trace
          /\ k[t + 1].trace = Append(e.trace, NextStep(e))
      BY <3>6 DEF Advances
    <3> QED BY <3>2, <3>5, <3>7, <3>8 DEF t
  <2> HIDE DEF x
  <2>5. /\ DOMAIN n = Members /\ n.time = m.time + 1 /\ n.reg = x.reg
        /\ n.flash = x.flash /\ n.faults = x.faults /\ n.visits = x.visits
        /\ n.end_reached = x.end_reached /\ n.decision = x.decision /\ n.code = x.code
        /\ n.pc = x.pc /\ n.mem = x.mem /\ n.trace = x.trace
    <3>1. x.time + 1 = m.time + 1
      BY <2>1, <2>2, <2>4
    <3>2. n = [x EXCEPT !.reg = x.reg, !.time = m.time + 1]
      BY <2>3, <3>1
    <3> QED BY <2>4, <3>2 DEF Members
  <2>6. n.faults = m.faults /\ n.flash = FlashAt(m.faults, m.time)
    BY <2>2, <2>4, <2>5
  <2>7. Follows(m, n, k)
    BY <2>1, <2>2, <2>4, <2>5, <2>6 DEF Follows
  <2>8. Under(n, k)
    BY <1>1, <1>5, <2>7, UnderCycle
  <2>9. Repaired(n) = LastingFlash(n.faults, n.time)
    BY <1>1, <2>5, <2>6, RepairsNext
  <2>10. n.time \in 0 .. timeout /\ n.code = "OK"
    BY <1>1, <2>5, <2>7 DEF Follows
  <2>11. CASE k[m.time + 1].reg = IF PutBack(m.faults, m.time) THEN k[m.time].reg ELSE x.reg
    <3>1. RepairedRegister(n) = k[n.time].reg
      BY <1>1, <2>5, <2>6, <2>11, RepairsRegister
    <3>2. OnTrace(n, k)
      BY <1>1, <2>5, <2>6, <2>7, <2>9, <2>10, <3>1 DEF OnTrace, Follows
    <3> QED BY <2>5, <2>6, <2>8, <2>10, <3>2 DEF n
  <2>12. CASE k[m.time + 1].trace = Append(m.trace, NextStep(e)) /\ LeftAlone(m.faults, NextStep(e))
    <3>1. PICK s : n.trace = Append(m.trace, s) /\ LeftAlone(m.faults, s)
      BY <2>4, <2>5, <2>12
    <3>2. m.trace \in Seq(Step)
      BY <1>1 DEF IsIdeal, Core
    <3>3. n.trace \in Seq(Step \cup {s}) /\ \E i \in DOMAIN n.trace : LeftAlone(m.faults, n.trace[i])
      BY <3>1, <3>2, AppendExtends
    <3>4. n.trace = k[n.time].trace
      BY <2>7 DEF Follows
    <3>5. LeavesAt(m.faults, k, n.time) /\ Extends(n.trace, k[n.time].trace)
      BY <2>8, <3>3, <3>4 DEF Under, LeavesAt, Extends
    <3>6. Parted(m.faults, k, n.trace)
      BY <2>10, <3>5 DEF Parted
    <3>7. Astray(n, m.faults, k)
      BY <2>5, <3>3, <3>6 DEF Astray
    <3> QED BY <3>7 DEF n
  <2> QED BY <2>4, <2>11, <2>12
<1> QED BY <1>2, <1>4, <1>5

(* The run of the tracer ends where the ideal run does, or has parted from  *)
(* it.                                                                      *)
LEMMA TraceEnds ==
  ASSUME SetupInv, NEW c, NEW k, IsIdeal(c, k), GoodChain(c, k)
  PROVE  LET n == Emulate(MainEmulator(c), Nowhere, timeout, TRUE)
         IN Ended(n, k) \/ Parted(c, k, n.trace)
<1> DEFINE m == MainEmulator(c)
           Going(n, i) == n.code = "OK" /\ OnTrace(n, k) /\ Under(n, k) /\ n.time = i
                          /\ n.faults = c
           Gone(n) == n.code # "OK" /\ Ended(n, k)
<1>1. timeout \in Nat
  BY DEF SetupInv
<1>2. PICK run : Runs(m, Nowhere, timeout, TRUE, run)
  BY <1>1, EmulateRuns
<1> DEFINE Keeping == {i \in 0 .. timeout :
                         Going(run[i], i) \/ Gone(run[i]) \/ Astray(run[i], c, k)}
<1>3. 0 \in Keeping
  <2>1. OnTrace(m, k) /\ Under(m, k)
    BY TraceStarts
  <2>2. m.code = "OK" /\ m.time = 0 /\ m.faults = c /\ m = [x \in DOMAIN m |-> m[x]]
    BY DEF MainEmulator
  <2> HIDE DEF m
  <2>4. [m EXCEPT !.code = "OK"] = m
    BY <2>2
  <2>3. run[0] = m
    BY <1>2, <2>4 DEF Runs, m
  <2> QED BY <1>1, <2>1, <2>2, <2>3
<1>4. ASSUME NEW i \in Keeping, i < timeout PROVE i + 1 \in Keeping
  <2>1. i \in Nat /\ i \in 0 .. timeout - 1 /\ i + 1 \in 0 .. timeout
        /\ (Going(run[i], i) \/ Gone(run[i]) \/ Astray(run[i], c, k))
    BY <1>1, <1>4
  <2>2. run[i + 1] = Once(run[i], Nowhere, TRUE)
    BY <1>2, <2>1 DEF Runs
  <2>3. CASE Gone(run[i])
    <3>1. run[i + 1] = run[i]
      BY <2>2, <2>3 DEF Once
    <3> HIDE DEF Gone, Going
    <3> QED BY <2>1, <2>3, <3>1
  <2>4. CASE Going(run[i], i)
    <3>1. run[i].pc # Nowhere /\ run[i].time < timeout
      <4>1. run[i].time \in 0 .. timeout /\ run[i].pc = k[run[i].time].pc
            /\ IsIdeal(run[i].faults, k)
        BY <2>4 DEF OnTrace
      <4>2. run[i].pc # Nowhere
        BY <4>1, Somewhere
      <4>3. run[i].time < timeout
        BY <1>1, <2>1, <2>4
      <4> QED BY <4>2, <4>3
    <3>2. run[i + 1] = Clock(run[i], TRUE)
      BY <2>2, <2>4, <3>1 DEF Once
    <3>3. Gone(run[i + 1]) \/ Going(run[i + 1], i + 1) \/ Astray(run[i + 1], c, k)
      BY <2>4, <3>1, <3>2, TraceClock
    <3> HIDE DEF Gone, Going
    <3> QED BY <2>1, <3>3
  <2>5. CASE Astray(run[i], c, k)
    <3>1. Astray(Clock(run[i], TRUE), c, k)
      BY <2>5, AstrayClock
    <3>2. Astray([run[i] EXCEPT !.code = "END_ADDRESS_REACHED"], c, k)
      <4> DEFINE o == [run[i] EXCEPT !.code = "END_ADDRESS_REACHED"]
      <4>1. DOMAIN o = Members /\ o.trace = run[i].trace
        BY <2>5 DEF Astray, Members
      <4> HIDE DEF o
      <4>2. Astray(o, c, k)
        BY <2>5, <4>1, AstrayAlike
      <4> QED BY <4>2 DEF o
    <3>3. Astray(run[i + 1], c, k)
      BY <2>2, <2>5, <3>1, <3>2 DEF Once
    <3> HIDE DEF Gone, Going
    <3> QED BY <2>1, <3>3
  <2> QED BY <2>1, <2>3, <2>4, <2>5
<1>5. Keeping = 0 .. timeout
  <2>1. Keeping \in SUBSET (0 .. timeout)
    OBVIOUS
  <2> HIDE DEF Keeping
  <2> QED BY <1>1, <1>3, <1>4, <2>1, IntervalInduct
<1>6. timeout \in 0 .. timeout
  BY <1>1
<1>7. Going(run[timeout], timeout) \/ Gone(run[timeout]) \/ Astray(run[timeout], c, k)
  BY <1>5, <1>6
<1>8. Emulate(m, Nowhere, timeout, TRUE) = Coded(run[timeout])
  BY <1>2 DEF Runs
<1> HIDE DEF m
<1>9. CASE Gone(run[timeout])
  BY <1>8, <1>9 DEF Coded, m
<1>10. CASE Going(run[timeout], timeout)
  <2> DEFINE n == run[timeout]
             o == [n EXCEPT !.code = "MAX_INSTRUCTIONS_REACHED"]
  <2>1. Emulate(m, Nowhere, timeout, TRUE) = o
    BY <1>8, <1>10 DEF Coded
  <2>2. n.time = timeout /\ n.trace = k[n.time].trace /\ Under(n, k) /\ DOMAIN n = Members
    BY <1>10 DEF OnTrace
  <2> HIDE DEF n
  <2>3. o.trace = n.trace /\ o.end_reached = n.end_reached
    BY <2>2 DEF Members
  <2> HIDE DEF o
  <2>4. Ended(o, k)
    BY <2>2, <2>3, EndsTimeout
  <2> QED BY <2>1, <2>4 DEF m
<1>11. CASE Astray(run[timeout], c, k)
  <2> DEFINE n == run[timeout]
             o == [n EXCEPT !.code = "MAX_INSTRUCTIONS_REACHED"]
  <2>1. Emulate(m, Nowhere, timeout, TRUE) \in {n, o}
    BY <1>8 DEF Coded
  <2>2. o.trace = n.trace
    BY <1>11 DEF Astray, Members
  <2>3. Parted(c, k, n.trace)
    BY <1>11 DEF Astray
  <2> HIDE DEF o, n
  <2> QED BY <2>1, <2>2, <2>3 DEF m
<1> QED BY <1>7, <1>9, <1>10, <1>11

-----------------------------------------------------------------------------
(* Places: where the newest fault of a chain is injected *)

Struck(m) == IF Newest(m).instruction THEN WriteInstruction(m) ELSE WriteRegister(m)

(* m has a new fault in its chain, and will be on the run with it.          *)
Placed(m, k) ==
  /\ DOMAIN m = Members
  /\ m.faults \in Seq(Fault) /\ m.faults # <<>>
  /\ Newest(m).time = m.time
  /\ \A i \in 1 .. Len(m.faults) - 1 : OneCycleFault(m.faults[i]) => m.faults[i].time < m.time
  /\ OnRun(Struck(m), k)

LEMMA StruckFields ==
  ASSUME NEW m, DOMAIN m = Members
  PROVE  /\ DOMAIN Struck(m) = Members
         /\ Struck(m).pc = m.pc /\ Struck(m).mem = m.mem /\ Struck(m).time = m.time
         /\ Struck(m).faults = m.faults /\ Struck(m).trace = m.trace
         /\ Struck(m).visits = m.visits /\ Struck(m).end_reached = m.end_reached
         /\ Struck(m).code = m.code
         /\ Newest(m).instruction =>
              /\ Struck(m).flash = [m.flash EXCEPT ![Newest(m).where] =
                                      ManipulatedInstruction(Newest(m).original)]
              /\ Struck(m).reg = m.reg
         /\ ~Newest(m).instruction =>
              /\ Struck(m).flash = m.flash
              /\ Struck(m).reg = ManipulatedValue(Newest(m).original)
<1>1. CASE Newest(m).instruction
  <2>1. Struck(m) = [m EXCEPT !.flash = [m.flash EXCEPT ![Newest(m).where] =
                                           ManipulatedInstruction(Newest(m).original)]]
    BY <1>1 DEF Struck, WriteInstruction
  <2> QED BY <1>1, <2>1 DEF Members
<1>2. CASE ~Newest(m).instruction
  <2>1. Struck(m) = [m EXCEPT !.reg = ManipulatedValue(Newest(m).original)]
    BY <1>2 DEF Struck, WriteRegister
  <2> QED BY <1>2, <2>1 DEF Members
<1> QED BY <1>1, <1>2

LEMMA PlacedAlike ==
  ASSUME NEW m, NEW n, NEW k, Placed(m, k), DOMAIN n = Members,
         n.pc = m.pc, n.reg = m.reg, n.mem = m.mem, n.time = m.time, n.flash = m.flash,
         n.faults = m.faults, n.trace = m.trace
  PROVE  Placed(n, k)
<1>1. Newest(n) = Newest(m)
  BY DEF Newest
<1>2. DOMAIN m = Members /\ OnRun(Struck(m), k)
  BY DEF Placed
<1>3. /\ DOMAIN Struck(n) = Members
      /\ Struck(n).pc = Struck(m).pc /\ Struck(n).reg = Struck(m).reg
      /\ Struck(n).mem = Struck(m).mem /\ Struck(n).time = Struck(m).time
      /\ Struck(n).flash = Struck(m).flash /\ Struck(n).faults = Struck(m).faults
      /\ Struck(n).trace = Struck(m).trace
  <2> DEFINE v == Struck(m)
             w == Struck(n)
  <2>1. DOMAIN w = Members /\ w.pc = m.pc /\ w.mem = m.mem /\ w.time = m.time
        /\ w.faults = m.faults /\ w.trace = m.trace
    BY StruckFields
  <2>2. v.pc = m.pc /\ v.mem = m.mem /\ v.time = m.time /\ v.faults = m.faults
        /\ v.trace = m.trace
    BY <1>2, StruckFields
  <2>3. w.flash = v.flash /\ w.reg = v.reg
    <3>1. CASE Newest(m).instruction
      <4>1. v.flash = [m.flash EXCEPT ![Newest(m).where] = ManipulatedInstruction(Newest(m).original)]
            /\ v.reg = m.reg
        BY <1>2, <3>1, StruckFields
      <4>2. w.flash = [n.flash EXCEPT ![Newest(n).where] = ManipulatedInstruction(Newest(n).original)]
            /\ w.reg = n.reg
        BY <1>1, <3>1, StruckFields
      <4> HIDE DEF v, w
      <4> QED BY <1>1, <4>1, <4>2
    <3>2. CASE ~Newest(m).instruction
      <4>1. v.flash = m.flash /\ v.reg = ManipulatedValue(Newest(m).original)
        BY <1>2, <3>2, StruckFields
      <4>2. w.flash = n.flash /\ w.reg = ManipulatedValue(Newest(n).original)
        BY <1>1, <3>2, StruckFields
      <4> HIDE DEF v, w
      <4> QED BY <1>1, <4>1, <4>2
    <3> QED BY <3>1, <3>2
  <2> HIDE DEF v, w
  <2> QED BY <2>1, <2>2, <2>3 DEF v, w
<1>4. OnRun(Struck(n), k)
  BY <1>2, <1>3, OnRunAlike
<1> QED BY <1>1, <1>4 DEF Placed

(* The guards of the injections *)
MayFollow(f, n) ==
  /\ f \in Fault /\ f.time = n.time
  /\ f.type = "permanent" => n.time = 0
  /\ f.instruction => f.original = n.flash[f.where]
  /\ ~f.instruction => f.original = n.reg
  /\ \A i \in DOMAIN n.faults :
       LET g == n.faults[i]
       IN /\ f.instruction /\ g.instruction /\ g.where = f.where
               => g.type # "permanent" /\ f.type # "permanent"
          /\ ~f.instruction /\ ~g.instruction => g.time # f.time

LEMMA NewPlace ==
  ASSUME SetupInv, NEW n, NEW k, OnRun(n, k), Settled(n), NEW f, MayFollow(f, n)
  PROVE  \E j : Placed(WithFault(n, f), j)
<1> DEFINE c == n.faults
           d == Append(c, f)
           t == n.time
           m == WithFault(n, f)
<1>1. PICK j : IsIdeal(d, j)
  BY IdealExists
<1>2. /\ t \in 0 .. timeout /\ t \in Nat /\ timeout \in Nat /\ DOMAIN n = Members
      /\ IsIdeal(c, k) /\ GoodChain(c, k) /\ c \in Seq(Fault)
      /\ n.flash = FlashAt(c, t) /\ n.reg = RegisterAt(c, t, k[t].reg)
      /\ \A i \in DOMAIN c : c[i] \in Fault /\ c[i].time <= t
  BY ElementOfSeq DEF OnRun, SetupInv, GoodChain
<1>3. f \in Fault /\ f.time = t
  BY DEF MayFollow
<1>4. /\ d \in Seq(Fault) /\ d # <<>> /\ Len(d) = Len(c) + 1 /\ d[Len(d)] = f
      /\ DOMAIN d = DOMAIN c \union {Len(d)} /\ DOMAIN c = 1 .. Len(d) - 1
      /\ \A i \in DOMAIN c : d[i] = c[i]
  BY <1>2, <1>3, AppendProperties, LenProperties
<1>5. /\ DOMAIN m = Members /\ m.faults = d /\ m.time = t /\ m.pc = n.pc /\ m.mem = n.mem
      /\ m.trace = n.trace /\ m.flash = n.flash /\ m.reg = n.reg
  BY <1>2 DEF WithFault, Members
<1> HIDE DEF d, m
<1>6. Newest(m) = f
  BY <1>4, <1>5 DEF Newest
<1> DEFINE w == Struck(m)
<1>16. /\ DOMAIN w = Members /\ w.pc = n.pc /\ w.mem = n.mem /\ w.time = t
       /\ w.faults = d /\ w.trace = n.trace
       /\ f.instruction =>
            /\ w.flash = [FlashAt(c, t) EXCEPT ![f.where] = ManipulatedInstruction(f.original)]
            /\ w.reg = n.reg
       /\ ~f.instruction => w.flash = FlashAt(c, t) /\ w.reg = ManipulatedValue(f.original)
  <2>1. m.flash = FlashAt(c, t)
    BY <1>2, <1>5
  <2> HIDE DEF w
  <2> QED BY <1>5, <1>6, <2>1, StruckFields DEF w
<1> HIDE DEF w
<1>7. ~f.instruction => ~RegisterHit(c, t)
  BY <1>3 DEF MayFollow, RegisterHit
<1>8. ASSUME f.instruction
      PROVE  f.where \in Address /\ ~InstructionHit(c, f.where, t) /\ f.original = program[f.where]
  <2>1. f.where \in Address
    BY <1>3, <1>8, FaultKinds
  <2>2. ~InstructionHit(c, f.where, t)
    BY <1>2, <1>8, FaultKinds DEF MayFollow, InstructionHit, Settled, Over
  <2> QED BY <1>2, <1>8, <2>1, <2>2 DEF MayFollow, FlashAt
<1>9. /\ f.type = "permanent" => f.time = 0
      /\ f.instruction => f.original = program[f.where]
      /\ ~f.instruction => f.original = k[f.time].reg
      /\ \A i \in DOMAIN c : c[i].time <= f.time /\ Apart(c[i], f) /\ Apart(f, c[i])
  BY <1>2, <1>3, <1>7, <1>8 DEF MayFollow, RegisterAt, Apart
<1>10. j[t] = k[t] /\ (\A u \in 0 .. t : j[u] = k[u]) /\ GoodChain(d, j)
  BY <1>1, <1>2, <1>3, <1>9, ChainGrows DEF d
<1>11. w.flash = FlashAt(d, t)
  <2>1. \A a \in Address : InstructionHit(c, a, t) => InstructionHit(d, a, t)
    BY <1>4 DEF InstructionHit
  <2>2. \A a \in Address : InstructionHit(d, a, t)
                             => InstructionHit(c, a, t) \/ (f.instruction /\ f.where = a)
    BY <1>4 DEF InstructionHit
  <2>3. f.instruction => InstructionHit(d, f.where, t)
    BY <1>3, <1>4 DEF InstructionHit
  <2>4. CASE f.instruction
    <3>1. \A a \in Address : a # f.where => FlashAt(d, t)[a] = FlashAt(c, t)[a]
      BY <2>1, <2>2 DEF FlashAt
    <3>2. FlashAt(d, t)[f.where] = ManipulatedInstruction(f.original)
      BY <1>8, <2>3, <2>4 DEF FlashAt
    <3>3. w.flash = [FlashAt(c, t) EXCEPT ![f.where] = ManipulatedInstruction(f.original)]
      BY <1>16, <2>4
    <3>4. FlashAt(c, t) = [a \in Address |-> FlashAt(c, t)[a]]
          /\ FlashAt(d, t) = [a \in Address |-> FlashAt(d, t)[a]]
      BY DEF FlashAt
    <3>5. w.flash = [a \in Address |-> IF a = f.where THEN ManipulatedInstruction(f.original)
                                       ELSE FlashAt(c, t)[a]]
      BY <3>3, <3>4
    <3> QED BY <3>1, <3>2, <3>4, <3>5
  <2>5. CASE ~f.instruction
    <3>1. \A a \in Address : InstructionHit(d, a, t) <=> InstructionHit(c, a, t)
      BY <2>1, <2>2, <2>5
    <3>2. w.flash = FlashAt(c, t)
      BY <1>16, <2>5
    <3> QED BY <3>1, <3>2 DEF FlashAt
  <2> QED BY <2>4, <2>5
<1>12. w.reg = RegisterAt(d, t, j[t].reg)
  <2>1. RegisterHit(c, t) => RegisterHit(d, t)
    BY <1>4 DEF RegisterHit
  <2>2. RegisterHit(d, t) => RegisterHit(c, t) \/ ~f.instruction
    BY <1>4 DEF RegisterHit
  <2>3. ~f.instruction => RegisterHit(d, t)
    BY <1>3, <1>4 DEF RegisterHit
  <2>4. CASE f.instruction
    BY <1>2, <1>10, <1>16, <2>1, <2>2, <2>4 DEF RegisterAt
  <2>5. CASE ~f.instruction
    <3>1. w.reg = 1 - k[t].reg
      BY <1>3, <1>9, <1>16, <2>5 DEF ManipulatedValue
    <3> QED BY <1>10, <2>3, <2>5, <3>1 DEF RegisterAt
  <2> QED BY <2>4, <2>5
<1>13. \A i \in DOMAIN d : d[i].time <= t
  BY <1>2, <1>3, <1>4
<1>14. OnRun(w, j)
  <2>1. \A u \in 0 .. t - 1 : j[u].pc \in Address
    BY <1>2, <1>10 DEF OnRun
  <2>2. n.pc = j[t].pc /\ n.mem = j[t].mem /\ n.trace = j[t].trace
    BY <1>10 DEF OnRun
  <2>3. IsIdeal(d, j)
    BY <1>1 DEF d
  <2> QED BY <1>2, <1>10, <1>11, <1>12, <1>13, <1>16, <2>1, <2>2, <2>3 DEF OnRun
<1>15. \A i \in 1 .. Len(d) - 1 : OneCycleFault(d[i]) => d[i].time < t
  BY <1>2, <1>4 DEF OneCycleFault, Settled, Over
<1>17. Placed(m, j)
  BY <1>3, <1>4, <1>5, <1>6, <1>14, <1>15 DEF Placed, w
<1> QED BY <1>17 DEF m

LEMMA OneCycle ==
  ASSUME SetupInv, NEW w, NEW k, OnRun(w, k)
  PROVE  Emulate(w, Nowhere, 1, FALSE) = Coded(Clock([w EXCEPT !.code = "OK"], FALSE))
<1>1. PICK run : Runs(w, Nowhere, 1, FALSE, run)
  BY EmulateRuns
<1> DEFINE x == [w EXCEPT !.code = "OK"]
<1>2. DOMAIN w = Members /\ w.time \in 0 .. timeout /\ w.pc = k[w.time].pc /\ IsIdeal(w.faults, k)
  BY DEF OnRun
<1>3. x.code = "OK" /\ x.pc = w.pc /\ w.pc # Nowhere
  <2>1. x.code = "OK" /\ x.pc = w.pc
    BY <1>2 DEF Members
  <2>2. w.pc # Nowhere
    BY <1>2, Somewhere
  <2> QED BY <2>1, <2>2
<1>4. run[0] = x /\ run[1] = Once(run[0], Nowhere, FALSE)
      /\ Emulate(w, Nowhere, 1, FALSE) = Coded(run[1])
  <2>1. 0 \in 0 .. 1 - 1 /\ 0 + 1 = 1
    OBVIOUS
  <2>2. run[0 + 1] = Once(run[0], Nowhere, FALSE)
    BY <1>1, <2>1 DEF Runs
  <2> QED BY <1>1, <2>1, <2>2 DEF Runs
<1> HIDE DEF x
<1>5. run[1] = Clock(x, FALSE)
  BY <1>3, <1>4 DEF Once
<1> QED BY <1>4, <1>5 DEF x

(* The cycle of an instruction fault and the repair after it, whichever     *)
(* exploitability model is there: a full cycle, or nothing.                 *)
LEMMA StruckCycle ==
  ASSUME SetupInv, NEW m, NEW k, Placed(m, k), OneCycleFault(Newest(m)), m.time < timeout,
         NEW o, o = Emulate(Struck(m), Nowhere, 1, FALSE), NEW r, r = RepairFlash(o)
  PROVE  \/ /\ o.code = "MAX_INSTRUCTIONS_REACHED" /\ o.end_reached = m.end_reached
            /\ OnRun(r, k) /\ Settled(r) /\ r.time = m.time + 1 /\ m.pc \in Address
            /\ Under(Struck(m), k) => Under(r, k)
         \/ /\ o.code # "MAX_INSTRUCTIONS_REACHED"
            /\ m.pc \notin Address \/ m.pc = end_address
            /\ o.code = "INVALID_MEMORY_ACCESS" \/ o.end_reached
            /\ r.trace = m.trace
            /\ Under(Struck(m), k) => Ended(r, k)
<1> DEFINE w == Struck(m)
           c == m.faults
           t == m.time
           f == Newest(m)
           x == [w EXCEPT !.code = "OK"]
           y == Clock(x, FALSE)
<1>1. /\ DOMAIN w = Members /\ w.pc = m.pc /\ w.mem = m.mem /\ w.time = t /\ w.faults = c
      /\ w.trace = m.trace /\ w.end_reached = m.end_reached
  BY StruckFields DEF Placed
<1>2. OnRun(w, k) /\ c \in Seq(Fault) /\ c # <<>> /\ f = c[Len(c)] /\ f.time = t
      /\ \A i \in 1 .. Len(c) - 1 : OneCycleFault(c[i]) => c[i].time < t
  BY DEF Placed, Newest
<1> HIDE DEF w
<1>3. /\ DOMAIN x = Members /\ x.pc = w.pc /\ x.reg = w.reg /\ x.mem = w.mem /\ x.time = w.time
      /\ x.flash = w.flash /\ x.faults = w.faults /\ x.trace = w.trace /\ x.code = "OK"
      /\ x.end_reached = w.end_reached /\ x.visits = w.visits
  BY <1>1 DEF Members
<1>4. o = Coded(y)
  BY <1>2, OneCycle DEF w
<1> HIDE DEF x
<1>5. OnRun(x, k)
  BY <1>2, <1>3, OnRunAlike
<1>6. Under(w, k) <=> Under(x, k)
  BY <1>3 DEF Under
<1>7. /\ t \in Nat /\ timeout \in Nat /\ IsIdeal(c, k) /\ GoodChain(c, k) /\ t \in 0 .. timeout
      /\ x.pc = k[t].pc /\ x.mem = k[t].mem /\ x.trace = k[t].trace /\ x.flash = FlashAt(c, t)
      /\ x.time = t /\ x.faults = c /\ \A i \in DOMAIN c : c[i].time <= t
  BY <1>1, <1>3, <1>5 DEF OnRun, SetupInv
<1>8. RepairFlash(o) = [o EXCEPT !.flash = [o.flash EXCEPT ![o.faults[Len(o.faults)].where] =
                                              o.faults[Len(o.faults)].original]]
  BY DEF RepairFlash, Newest
<1>9. CASE x.pc \notin Address /\ y = [x EXCEPT !.code = "INVALID_MEMORY_ACCESS"]
  <2> HIDE DEF y
  <2>1. DOMAIN y = Members /\ y.code = "INVALID_MEMORY_ACCESS" /\ y.trace = x.trace
        /\ y.end_reached = x.end_reached
    BY <1>3, <1>9 DEF Members
  <2>2. o = y
    BY <1>4, <2>1 DEF Coded
  <2>3. r.trace = x.trace /\ r.end_reached = x.end_reached
    BY <1>8, <2>1, <2>2 DEF Members
  <2>4. Under(x, k) => Ended(r, k)
    BY <1>7, <1>9, <2>3, EndsOutside
  <2> QED BY <1>1, <1>3, <1>6, <1>9, <2>1, <2>2, <2>3, <2>4 DEF w
<1>10. CASE /\ x.pc \in Address /\ Final(x)
            /\ y = [x EXCEPT !.visits = x.visits + 1, !.end_reached = TRUE,
                             !.code = "STOP_EMULATION_CALLED",
                             !.decision = IF x.mem = 1 THEN "EXPLOITABLE" ELSE "NOT_EXPLOITABLE"]
  <2> HIDE DEF y
  <2>1. DOMAIN y = Members /\ y.code = "STOP_EMULATION_CALLED" /\ y.trace = x.trace
        /\ y.end_reached = TRUE
        /\ y.decision = (IF x.mem = 1 THEN "EXPLOITABLE" ELSE "NOT_EXPLOITABLE")
    BY <1>3, <1>10 DEF Members
  <2>2. o = y
    BY <1>4, <2>1 DEF Coded
  <2>3. r.trace = x.trace /\ r.end_reached = TRUE
        /\ r.decision = (IF x.mem = 1 THEN "EXPLOITABLE" ELSE "NOT_EXPLOITABLE")
    BY <1>8, <2>1, <2>2 DEF Members
  <2>4. Under(x, k) => Ended(r, k)
    BY <1>7, <1>10, <2>3, EndsFinal
  <2>5. m.pc = end_address
    BY <1>1, <1>3, <1>10 DEF Final
  <2> QED BY <1>1, <1>3, <1>6, <2>1, <2>2, <2>3, <2>4, <2>5 DEF w
<1>11. CASE /\ x.pc \in Address /\ ~Final(x) /\ Follows(x, y, k)
            /\ y.flash = x.flash /\ y.reg = k[x.time + 1].reg
  <2> HIDE DEF y
  <2> DEFINE z == [y EXCEPT !.flash = FlashAt(c, t + 1)]
  <2>1. DOMAIN y = Members /\ y.faults = c /\ y.time = t + 1 /\ y.code = "OK"
        /\ y.end_reached = x.end_reached
    BY <1>7, <1>11 DEF Follows
  <2>2. o = [y EXCEPT !.code = "MAX_INSTRUCTIONS_REACHED"]
    BY <1>4, <2>1 DEF Coded
  <2>3. /\ DOMAIN o = Members /\ o.faults = c /\ o.flash = FlashAt(c, t) /\ o.pc = y.pc
        /\ o.reg = y.reg /\ o.mem = y.mem /\ o.time = t + 1 /\ o.trace = y.trace
        /\ o.visits = y.visits /\ o.end_reached = y.end_reached
        /\ o.code = "MAX_INSTRUCTIONS_REACHED"
    BY <1>7, <1>11, <2>1, <2>2 DEF Members
  <2>4. [FlashAt(c, t) EXCEPT ![f.where] = f.original] = FlashAt(c, t + 1)
    <3> HIDE DEF f, c, t
    <3>1. OneCycleFault(f)
      BY DEF f
    <3> QED BY <1>2, <1>7, <3>1, FlashRepairs
  <2>5. r = [o EXCEPT !.flash = FlashAt(c, t + 1)]
    <3>1. o.faults[Len(o.faults)] = f
      BY <1>2, <2>3
    <3> HIDE DEF f, c, t
    <3> QED BY <1>8, <2>3, <2>4, <3>1
  <2>6. /\ DOMAIN r = Members /\ r.faults = c /\ r.flash = FlashAt(c, t + 1) /\ r.pc = y.pc
        /\ r.reg = y.reg /\ r.mem = y.mem /\ r.time = t + 1 /\ r.trace = y.trace
        /\ r.visits = y.visits /\ r.end_reached = y.end_reached
    BY <2>3, <2>5 DEF Members
  <2>7. /\ DOMAIN z = Members /\ z.faults = c /\ z.flash = FlashAt(c, t + 1) /\ z.pc = y.pc
        /\ z.reg = y.reg /\ z.mem = y.mem /\ z.time = t + 1 /\ z.trace = y.trace
        /\ z.visits = y.visits /\ z.end_reached = y.end_reached /\ z.code = y.code
        /\ z.decision = y.decision
    BY <2>1 DEF Members
  <2> HIDE DEF z
  <2>8. Follows(x, z, k)
    BY <1>11, <2>1, <2>7 DEF Follows
  <2>9. OnRun(z, k)
    <3>1. z.reg = k[z.time].reg /\ z.flash = FlashAt(z.faults, z.time) /\ x.time < timeout
      BY <1>7, <1>11, <2>7
    <3> QED BY <1>5, <1>11, <2>8, <3>1, CycleOnRun
  <2>10. OnRun(r, k)
    BY <2>6, <2>7, <2>9, OnRunAlike
  <2>11. Settled(r)
    <3>1. \A i \in DOMAIN c : c[i].time \in Nat /\ c[i].time < t + 1
      BY <1>2, <1>7, ElementOfSeq, FaultKinds
    <3> QED BY <2>6, <3>1 DEF Settled, Over
  <2>12. Under(x, k) => Under(z, k)
    <3>1. x.time \in 0 .. timeout /\ x.pc = k[x.time].pc /\ x.time < timeout
      BY <1>7
    <3> QED BY <1>7, <1>11, <2>8, <3>1, UnderCycle
  <2>13. Under(x, k) => Under(r, k)
    BY <2>6, <2>7, <2>12 DEF Under
  <2> QED BY <1>1, <1>3, <1>6, <1>11, <2>1, <2>3, <2>6, <2>10, <2>11, <2>13 DEF w
<1>12. x.time < timeout
  BY <1>7
<1> QED BY <1>3, <1>5, <1>9, <1>10, <1>11, <1>12, ClockCases

-----------------------------------------------------------------------------
(* Tries *)

Visited(m) == \E i \in DOMAIN m.trace : m.trace[i].pc = end_address

(* With no visit before it, the fresh exploitability model has counted as   *)
(* many visits as the one of the tracer.                                    *)
LEMMA FreshUnder ==
  ASSUME SetupInv, NEW w, NEW k, OnRun(w, k), w.visits = 0, ~w.end_reached, ~Visited(w)
  PROVE  Under(w, k)
<1> DEFINE n == w.time
<1>1. /\ n \in 0 .. timeout /\ timeout \in Nat /\ IsIdeal(w.faults, k) /\ w.trace = k[n].trace
      /\ \A u \in 0 .. n - 1 : k[u].pc \in Address
  BY DEF OnRun, SetupInv
<1> HIDE DEF n
<1>2. k[n].trace \in Seq(Step)
  BY <1>1 DEF IsIdeal, Core
<1>3. Len(k[n].trace) = n /\ \A u \in 0 .. n - 1 : k[n].trace[u + 1].pc = k[u].pc
  BY <1>1, IdealTrace
<1>4. DOMAIN w.trace = 1 .. n
  BY <1>1, <1>2, <1>3, LenProperties
<1>5. \A u \in 0 .. n - 1 : k[u].pc # end_address
  BY <1>1, <1>3, <1>4 DEF Visited
<1>6. k[n].visits = 0
  BY <1>1, <1>5, NoVisits
<1>7. \A u \in 0 .. n - 1 : ~Stops(k, u)
  BY <1>1, <1>5 DEF Stops, EndsAt
<1> QED BY <1>6, <1>7 DEF Under, n

LEMMA FreshEnds ==
  ASSUME SetupInv, NEW w, NEW k, OnRun(w, k), Settled(w), w.visits = 0, ~w.end_reached,
         ~Visited(w), NEW cycles \in Nat, w.time + cycles = timeout
  PROVE  Ended(Emulate(w, Nowhere, cycles, FALSE), k)
<1>1. Under(w, k)
  BY FreshUnder
<1> QED BY <1>1, EmulateEnds

(* The machine of a place with the fresh exploitability model, or another. *)
LEMMA FreshFields ==
  ASSUME NEW m, DOMAIN m = Members
  PROVE  /\ DOMAIN Fresh(m) = Members
         /\ Fresh(m).pc = m.pc /\ Fresh(m).reg = m.reg /\ Fresh(m).mem = m.mem
         /\ Fresh(m).time = m.time /\ Fresh(m).flash = m.flash /\ Fresh(m).faults = m.faults
         /\ Fresh(m).trace = m.trace /\ Fresh(m).visits = 0 /\ ~Fresh(m).end_reached
         /\ Newest(Fresh(m)) = Newest(m)
<1>1. /\ DOMAIN Fresh(m) = Members
      /\ Fresh(m).pc = m.pc /\ Fresh(m).reg = m.reg /\ Fresh(m).mem = m.mem
      /\ Fresh(m).time = m.time /\ Fresh(m).flash = m.flash /\ Fresh(m).faults = m.faults
      /\ Fresh(m).trace = m.trace /\ Fresh(m).visits = 0 /\ Fresh(m).end_reached = FALSE
  BY DEF Fresh, Members
<1> QED BY <1>1 DEF Newest

(* A fault that stays in force leaves nothing to repair. *)
LEMMA StruckSettled ==
  ASSUME NEW m, NEW k, Placed(m, k), ~OneCycleFault(Newest(m))
  PROVE  OnRun(Struck(m), k) /\ Settled(Struck(m))
<1>1. DOMAIN m = Members /\ m.faults \in Seq(Fault)
      /\ \A i \in 1 .. Len(m.faults) - 1 : OneCycleFault(m.faults[i]) => m.faults[i].time < m.time
  BY DEF Placed
<1>2. Struck(m).faults = m.faults /\ Struck(m).time = m.time
  BY <1>1, StruckFields
<1>3. Len(m.faults) \in Nat /\ DOMAIN m.faults = 1 .. Len(m.faults)
  BY <1>1, LenProperties
<1>4. \A i \in DOMAIN m.faults : OneCycleFault(m.faults[i]) => m.faults[i].time < m.time
  BY <1>1, <1>3 DEF Newest
<1> QED BY <1>2, <1>4 DEF Placed, Settled, Over, OneCycleFault

(* The simulator's run with a register fault or a permanent fault. *)
LEMMA TryLasting ==
  ASSUME SetupInv, NEW m, NEW k, Placed(m, k), ~OneCycleFault(Newest(m)), ~Visited(m),
         NEW cycles \in Nat, m.time + cycles = timeout
  PROVE  /\ Ended(Emulate(Struck(Fresh(m)), Nowhere, cycles, FALSE), k)
         /\ Ended(Emulate(Fresh(Struck(m)), Nowhere, cycles, FALSE), k)
<1>1. DOMAIN m = Members
  BY DEF Placed
<1>2. ASSUME NEW w, OnRun(w, k), Settled(w), w.visits = 0, ~w.end_reached,
             w.trace = m.trace, w.time = m.time
      PROVE  Ended(Emulate(w, Nowhere, cycles, FALSE), k)
  <2>1. ~Visited(w)
    BY <1>2 DEF Visited
  <2> QED BY <1>2, <2>1, FreshEnds
<1>3. Ended(Emulate(Struck(Fresh(m)), Nowhere, cycles, FALSE), k)
  <2> DEFINE n == Fresh(m)
  <2>1. /\ DOMAIN n = Members /\ n.pc = m.pc /\ n.reg = m.reg /\ n.mem = m.mem
        /\ n.time = m.time /\ n.flash = m.flash /\ n.faults = m.faults
        /\ n.trace = m.trace /\ n.visits = 0 /\ ~n.end_reached /\ Newest(n) = Newest(m)
    BY <1>1, FreshFields
  <2> HIDE DEF n
  <2>2. Placed(n, k)
    BY <2>1, PlacedAlike
  <2>3. OnRun(Struck(n), k) /\ Settled(Struck(n))
    BY <2>1, <2>2, StruckSettled
  <2>4. Struck(n).visits = n.visits /\ Struck(n).end_reached = n.end_reached
        /\ Struck(n).trace = n.trace /\ Struck(n).time = n.time
    BY <2>1, StruckFields
  <2> QED BY <1>2, <2>1, <2>3, <2>4 DEF n
<1>4. Ended(Emulate(Fresh(Struck(m)), Nowhere, cycles, FALSE), k)
  <2> DEFINE v == Struck(m)
             w == Fresh(v)
  <2>1. DOMAIN v = Members /\ v.trace = m.trace /\ v.time = m.time
    BY <1>1, StruckFields
  <2>2. OnRun(v, k) /\ Settled(v)
    BY StruckSettled
  <2> HIDE DEF v
  <2>3. /\ DOMAIN w = Members /\ w.pc = v.pc /\ w.reg = v.reg /\ w.mem = v.mem
        /\ w.time = v.time /\ w.flash = v.flash /\ w.faults = v.faults
        /\ w.trace = v.trace /\ w.visits = 0 /\ ~w.end_reached
    BY <2>1, FreshFields
  <2> HIDE DEF w
  <2>4. OnRun(w, k) /\ Settled(w)
    BY <2>2, <2>3, OnRunAlike
  <2> QED BY <1>2, <2>1, <2>3, <2>4 DEF v, w
<1> QED BY <1>3, <1>4

(* The simulator's run with an instruction fault. *)
LEMMA TryInstruction ==
  ASSUME SetupInv, NEW m, NEW k, Placed(m, k), OneCycleFault(Newest(m)),
         NEW cycles \in Nat \ {0}, m.time + cycles = timeout
  PROVE  /\ ~Visited(m) => Ended(RunInstructionFault(m, cycles), k)
         /\ m.pc \notin Address => RunInstructionFault(m, cycles).trace = m.trace
<1> DEFINE n == Fresh(m)
           o == Emulate(Struck(n), Nowhere, 1, FALSE)
           r == RepairFlash(o)
           w == Struck(n)
<1>1. /\ DOMAIN n = Members /\ n.pc = m.pc /\ n.reg = m.reg /\ n.mem = m.mem
      /\ n.time = m.time /\ n.flash = m.flash /\ n.faults = m.faults
      /\ n.trace = m.trace /\ n.visits = 0 /\ ~n.end_reached /\ Newest(n) = Newest(m)
  BY FreshFields DEF Placed
<1>2. RunInstructionFault(m, cycles)
        = IF o.code = "INVALID_MEMORY_ACCESS" \/ o.end_reached \/ cycles <= 1 THEN r
          ELSE Emulate(r, Nowhere, cycles - 1, FALSE)
  BY <1>1 DEF RunInstructionFault, Struck, OneCycleFault
<1> HIDE DEF n
<1>3. Placed(n, k)
  BY <1>1, PlacedAlike
<1>4. w.visits = 0 /\ ~w.end_reached /\ w.trace = m.trace
  BY <1>1, StruckFields
<1>5. OnRun(w, k)
  BY <1>3 DEF Placed
<1> HIDE DEF w
<1>6. ~Visited(m) => Under(w, k)
  BY <1>4, <1>5, FreshUnder DEF Visited
<1>7. timeout \in Nat /\ n.time < timeout /\ m.time \in Nat
  <2>1. w.time = m.time
    BY <1>1, StruckFields DEF w
  <2>2. w.time \in 0 .. timeout /\ timeout \in Nat
    BY <1>5 DEF OnRun, SetupInv
  <2> QED BY <1>1, <2>1, <2>2
<1>8. \/ /\ o.code = "MAX_INSTRUCTIONS_REACHED" /\ o.end_reached = n.end_reached
         /\ OnRun(r, k) /\ Settled(r) /\ r.time = n.time + 1 /\ n.pc \in Address
         /\ Under(w, k) => Under(r, k)
      \/ /\ o.code # "MAX_INSTRUCTIONS_REACHED"
         /\ n.pc \notin Address \/ n.pc = end_address
         /\ o.code = "INVALID_MEMORY_ACCESS" \/ o.end_reached
         /\ r.trace = n.trace
         /\ Under(w, k) => Ended(r, k)
  <2>1. OneCycleFault(Newest(n))
    BY <1>1
  <2> HIDE DEF o, r
  <2> QED BY <1>3, <1>7, <2>1, StruckCycle DEF o, r, w
<1> HIDE DEF o, r
<1>9. CASE o.code # "MAX_INSTRUCTIONS_REACHED"
  <2>1. RunInstructionFault(m, cycles) = r
    BY <1>2, <1>8, <1>9
  <2> QED BY <1>1, <1>6, <1>8, <1>9, <2>1
<1>10. CASE o.code = "MAX_INSTRUCTIONS_REACHED"
  <2>1. OnRun(r, k) /\ Settled(r) /\ r.time = m.time + 1 /\ m.pc \in Address
        /\ (Under(w, k) => Under(r, k)) /\ ~o.end_reached
    BY <1>1, <1>8, <1>10
  <2>2. CASE cycles <= 1
    <3>1. cycles = 1 /\ r.time = timeout /\ r.trace = k[r.time].trace
      BY <1>7, <2>1, <2>2 DEF OnRun
    <3>2. RunInstructionFault(m, cycles) = r
      BY <1>2, <2>2
    <3>3. Under(r, k) => Ended(r, k)
      BY <3>1, EndsTimeout
    <3> QED BY <1>6, <2>1, <3>2, <3>3
  <2>3. CASE cycles > 1
    <3>1. cycles - 1 \in Nat /\ r.time + (cycles - 1) = timeout
      BY <1>7, <2>1, <2>3
    <3>2. RunInstructionFault(m, cycles) = Emulate(r, Nowhere, cycles - 1, FALSE)
      <4>1. ~(cycles <= 1) /\ o.code # "INVALID_MEMORY_ACCESS"
        BY <1>10, <2>3
      <4> QED BY <1>2, <2>1, <4>1
    <3>3. Under(r, k) => Ended(Emulate(r, Nowhere, cycles - 1, FALSE), k)
      BY <2>1, <3>1, EmulateEnds
    <3> QED BY <1>6, <2>1, <3>2, <3>3
  <2> QED BY <2>2, <2>3
<1> QED BY <1>9, <1>10

(* The repeated injection: a full cycle, or the instruction is not executed. *)
Again(m, visits) ==
  Emulate(WriteInstruction([m EXCEPT !.visits = visits, !.end_reached = FALSE]), Nowhere, 1, FALSE)

LEMMA AgainRight ==
  ASSUME SetupInv, NEW m, NEW k, Placed(m, k), OneCycleFault(Newest(m)), m.time < timeout,
         NEW visits
  PROVE  /\ Again(m, visits).code = "MAX_INSTRUCTIONS_REACHED" =>
              /\ OnRun(RepairFlash(Again(m, visits)), k) /\ Settled(RepairFlash(Again(m, visits)))
              /\ RepairFlash(Again(m, visits)).time = m.time + 1
         /\ Again(m, visits).code # "MAX_INSTRUCTIONS_REACHED" =>
              m.pc \notin Address \/ m.pc = end_address
<1> DEFINE n == [m EXCEPT !.visits = visits, !.end_reached = FALSE]
           o == Emulate(Struck(n), Nowhere, 1, FALSE)
           r == RepairFlash(o)
<1>1. DOMAIN n = Members /\ n.pc = m.pc /\ n.reg = m.reg /\ n.mem = m.mem
      /\ n.time = m.time /\ n.flash = m.flash /\ n.faults = m.faults /\ n.trace = m.trace
  BY DEF Placed, Members
<1> HIDE DEF n
<1>2. Newest(n) = Newest(m)
  BY <1>1 DEF Newest
<1>3. o = Again(m, visits)
  BY <1>2 DEF n, Again, Struck, OneCycleFault
<1>4. Placed(n, k)
  BY <1>1, PlacedAlike
<1> HIDE DEF o, r
<1>5. \/ /\ o.code = "MAX_INSTRUCTIONS_REACHED" /\ OnRun(r, k) /\ Settled(r) /\ r.time = n.time + 1
      \/ o.code # "MAX_INSTRUCTIONS_REACHED" /\ (n.pc \notin Address \/ n.pc = end_address)
  <2>1. OneCycleFault(Newest(n)) /\ n.time < timeout
    BY <1>1, <1>2
  <2> QED BY <1>4, <2>1, StruckCycle DEF o, r
<1> QED BY <1>1, <1>3, <1>5 DEF r

-----------------------------------------------------------------------------
(* Replays *)

(* m is where a level's own run may come to. *)
Within(m, k) ==
  /\ OnRun(m, k) /\ Settled(m)
  /\ m.faults = entry.faults
  /\ m.time \in entry.time .. timeout

EntryInv(k) ==
  /\ OnRun(entry, k) /\ Settled(entry)
  /\ remaining \in Nat /\ entry.time + remaining = timeout

LEMMA FreshWithin ==
  ASSUME SetupInv, NEW k, EntryInv(k)
  PROVE  Within(Fresh(entry), k)
<1> DEFINE m == Fresh(entry)
<1>1. DOMAIN entry = Members /\ entry.time \in 0 .. timeout /\ timeout \in Nat
  BY DEF EntryInv, OnRun, SetupInv
<1>2. /\ DOMAIN m = Members /\ m.pc = entry.pc /\ m.reg = entry.reg /\ m.mem = entry.mem
      /\ m.time = entry.time /\ m.flash = entry.flash /\ m.faults = entry.faults
      /\ m.trace = entry.trace
  BY <1>1, FreshFields
<1> HIDE DEF m
<1>3. OnRun(m, k) /\ Settled(m)
  BY <1>2, OnRunAlike DEF EntryInv
<1> QED BY <1>1, <1>2, <1>3 DEF Within, m

LEMMA EmulateWithin ==
  ASSUME SetupInv, NEW k, EntryInv(k), NEW m, Within(m, k), NEW stop,
         NEW cycles \in Nat, m.time + cycles <= timeout
  PROVE  /\ Within(Emulate(m, stop, cycles, FALSE), k)
         /\ Emulate(m, stop, cycles, FALSE).time \in m.time .. m.time + cycles
<1> DEFINE n == Emulate(m, stop, cycles, FALSE)
<1>1. timeout \in Nat /\ entry.time \in Nat /\ m.time \in Nat /\ m.time \in entry.time .. timeout
  BY DEF SetupInv, EntryInv, OnRun, Within
<1>2. OnRun(n, k) /\ Settled(n) /\ n.faults = m.faults /\ n.time \in m.time .. m.time + cycles
  BY EmulateKeeps DEF Within
<1> HIDE DEF n
<1>3. n.time \in entry.time .. timeout
  BY <1>1, <1>2
<1> QED BY <1>2, <1>3 DEF Within, n

(* What a level collects from its run. *)
LEMMA ExecutedType ==
  ASSUME SetupInv, NEW k, EntryInv(k)
  PROVE  Executed(entry, remaining) \in Seq(Step) /\ Len(Executed(entry, remaining)) <= remaining
<1> DEFINE m == Emulate(Fresh(entry), Nowhere, remaining, FALSE)
           all == m.trace
           u == Len(entry.trace) + 1
           v == Len(all)
<1>1. timeout \in Nat /\ entry.time \in 0 .. timeout /\ remaining \in Nat
      /\ entry.time + remaining = timeout /\ DOMAIN entry = Members
  BY DEF SetupInv, EntryInv, OnRun
<1>2. Fresh(entry).time = entry.time
  BY <1>1, FreshFields
<1>3. Within(m, k) /\ m.time \in entry.time .. entry.time + remaining
  <2> DEFINE n == Fresh(entry)
  <2>1. Within(n, k) /\ n.time + remaining <= timeout
    BY <1>1, <1>2, FreshWithin
  <2>2. n.time = entry.time
    BY <1>2
  <2> HIDE DEF n
  <2>3. /\ Within(Emulate(n, Nowhere, remaining, FALSE), k)
        /\ Emulate(n, Nowhere, remaining, FALSE).time \in n.time .. n.time + remaining
    BY <1>1, <2>1, EmulateWithin
  <2> QED BY <2>2, <2>3 DEF n
<1> HIDE DEF m
<1>4. ASSUME NEW n, OnRun(n, k) PROVE n.trace \in Seq(Step) /\ Len(n.trace) = n.time
  <2>1. n.time \in 0 .. timeout /\ IsIdeal(n.faults, k) /\ n.trace = k[n.time].trace
        /\ \A i \in 0 .. n.time - 1 : k[i].pc \in Address
    BY <1>4 DEF OnRun
  <2>2. k[n.time].trace \in Seq(Step)
    BY <2>1 DEF IsIdeal, Core
  <2> QED BY <2>1, <2>2, IdealTrace
<1>5. all \in Seq(Step) /\ v = m.time /\ u = entry.time + 1
  BY <1>3, <1>4 DEF Within, EntryInv
<1>6. Executed(entry, remaining) = SubSeq(all, u, v)
  BY DEF Executed, m
<1>7. u \in Nat /\ v \in Nat /\ u >= 1 /\ v <= Len(all) /\ u <= v + 1
  BY <1>1, <1>3, <1>5
<1>8. SubSeq(all, u, v) \in Seq(Step) /\ Len(SubSeq(all, u, v)) = (v + 1) - u
  <2> HIDE DEF u, v, all
  <2>1. \A i \in u .. v : all[i] \in Step
    <3>1. DOMAIN all = 1 .. Len(all)
      BY <1>5, LenProperties
    <3>2. \A i \in u .. v : i \in DOMAIN all
      BY <1>5, <1>7, <3>1 DEF v
    <3> QED BY <1>5, <3>2, ElementOfSeq
  <2> QED BY <1>5, <1>7, <2>1, SubSeqProperties
<1>9. (v + 1) - u <= remaining
  <2> HIDE DEF u, v
  <2> QED BY <1>1, <1>3, <1>5
<1> QED BY <1>6, <1>8, <1>9

(* One step of a replay. *)
Onward(before, executed, i) ==
  IF i \notin Collected(executed) \/ before.code = "MAX_INSTRUCTIONS_REACHED" THEN before
  ELSE Emulate(before, executed[i].pc, Left(before), FALSE)

LEMMA OnwardWithin ==
  ASSUME SetupInv, NEW k, EntryInv(k), NEW m, Within(m, k), NEW executed, NEW i
  PROVE  Within(Onward(m, executed, i), k)
<1>1. timeout \in Nat /\ entry.time \in Nat /\ remaining \in Nat /\ entry.time + remaining = timeout
      /\ m.time \in Nat /\ m.time \in entry.time .. timeout
  BY DEF SetupInv, EntryInv, OnRun, Within
<1>2. Left(m) \in Nat /\ m.time + Left(m) <= timeout
  BY <1>1 DEF Left
<1>3. Within(Emulate(m, executed[i].pc, Left(m), FALSE), k)
  <2> DEFINE l == Left(m)
  <2>1. l \in Nat /\ m.time + l <= timeout
    BY <1>2
  <2> HIDE DEF l
  <2>2. Within(Emulate(m, executed[i].pc, l, FALSE), k)
    BY <2>1, EmulateWithin
  <2> QED BY <2>2 DEF l
<1> QED BY <1>3 DEF Onward

LEMMA ReplayRuns ==
  ASSUME NEW executed, NEW last \in Nat
  PROVE  \E to : /\ to[0] = Fresh(entry)
                 /\ \A i \in 1 .. last : to[i] = Onward(to[i - 1], executed, i)
                 /\ Replay(executed, last) = to[last]
<1> DEFINE first == Fresh(entry)
           next(n, i) == Onward(n, executed, i)
           Turn(f, i) == IF i = 0 THEN first ELSE next(f[i - 1], i)
           Turns(n, f) == f = [i \in 0 .. n |-> Turn(f, i)]
           after == CHOOSE f : Turns(last, f)
           Reached == {n \in 0 .. last : \E f : Turns(n, f)}
<1>1. Replay(executed, last) = after[last]
  BY DEF Replay, Onward
<1> HIDE DEF first, next
<1>2. 0 \in Reached
  <2>1. Turns(0, [i \in 0 .. 0 |-> first])
    OBVIOUS
  <2> HIDE DEF Turns
  <2>2. \E f : Turns(0, f)
    BY <2>1
  <2> QED BY <2>2
<1>3. ASSUME NEW n \in Reached, n < last PROVE n + 1 \in Reached
  <2>1. PICK f : Turns(n, f)
    OBVIOUS
  <2> DEFINE new == Turn(f, n + 1)
             g == [i \in 0 .. n + 1 |-> IF i <= n THEN f[i] ELSE new]
  <2>2. n \in Nat /\ n + 1 \in 0 .. last
    BY <1>3
  <2>3. \A i \in 0 .. n : f[i] = Turn(f, i)
    <3> HIDE DEF Turn
    <3> QED BY <2>1
  <2>4. g[n + 1] = new /\ \A i \in 0 .. n : g[i] = f[i]
    <3> HIDE DEF new
    <3> QED BY <2>2
  <2>5. ASSUME NEW i \in 0 .. n + 1 PROVE g[i] = Turn(g, i)
    <3>1. i # 0 => i - 1 \in 0 .. n
      BY <2>2
    <3>2. Turn(g, i) = Turn(f, i)
      <4> HIDE DEF g
      <4> QED BY <2>4, <3>1
    <3>3. i = n + 1 \/ i \in 0 .. n
      BY <2>2
    <3> HIDE DEF g, Turn
    <3> QED BY <2>3, <2>4, <3>2, <3>3
  <2>6. Turns(n + 1, g)
    <3> HIDE DEF Turn
    <3>1. g = [i \in 0 .. n + 1 |-> g[i]]
      OBVIOUS
    <3> HIDE DEF g
    <3> QED BY <2>5, <3>1
  <2> HIDE DEF g, Turns
  <2> QED BY <2>2, <2>6
<1>4. last \in Reached
  <2>1. Reached \in SUBSET (0 .. last)
    OBVIOUS
  <2> HIDE DEF Reached
  <2>2. Reached = 0 .. last
    BY <1>2, <1>3, <2>1, IntervalInduct
  <2> QED BY <2>2
<1>5. Turns(last, after)
  <2> HIDE DEF Turns
  <2> QED BY <1>4
<1>6. \A i \in 0 .. last : after[i] = Turn(after, i)
  <2> HIDE DEF Turn, after
  <2> QED BY <1>5
<1> HIDE DEF after
<1>7. after[0] = first
  BY <1>6
<1>8. \A i \in 1 .. last : after[i] = next(after[i - 1], i)
  BY <1>6
<1> QED BY <1>1, <1>7, <1>8 DEF first, next

(* A replay to any of its addresses stays on the run. *)
LEMMA ReplayWithin ==
  ASSUME SetupInv, NEW k, EntryInv(k), NEW executed, NEW last \in Nat
  PROVE  Within(Replay(executed, last), k)
<1>1. PICK to : /\ to[0] = Fresh(entry)
                /\ \A i \in 1 .. last : to[i] = Onward(to[i - 1], executed, i)
                /\ Replay(executed, last) = to[last]
  BY ReplayRuns
<1> DEFINE Kept == {i \in 0 .. last : Within(to[i], k)}
<1>2. 0 \in Kept
  BY <1>1, FreshWithin
<1>3. ASSUME NEW i \in Kept, i < last PROVE i + 1 \in Kept
  <2>1. i + 1 \in 1 .. last /\ (i + 1) - 1 = i /\ i + 1 \in 0 .. last /\ Within(to[i], k)
    BY <1>3
  <2>2. to[i + 1] = Onward(to[i], executed, i + 1)
    BY <1>1, <2>1
  <2>3. Within(to[i + 1], k)
    BY <2>1, <2>2, OnwardWithin
  <2> QED BY <2>1, <2>3
<1>4. Kept = 0 .. last
  <2>1. Kept \in SUBSET (0 .. last)
    OBVIOUS
  <2> HIDE DEF Kept
  <2> QED BY <1>2, <1>3, <2>1, IntervalInduct
<1> QED BY <1>1, <1>4

-----------------------------------------------------------------------------
(* The invariant *)

(* A level below a model that is not permanent may start at any time, the   *)
(* others at the beginning of the program.                                  *)
LevelInv ==
  /\ level \in DOMAIN models
  /\ (\A i \in 1 .. level - 1 : models[i].type = "permanent") => entry.time = 0

EntryOnRun == \E k : EntryInv(k)

(* The chain being tried. *)
ChainInv ==
  /\ Newest(place).instruction = model.instruction /\ Newest(place).type = model.type
  /\ left \in Nat /\ place.time + left = timeout
  /\ forgotten <=> Visited(place)
  /\ found <=> tried.end_reached /\ tried.decision = "EXPLOITABLE"
  /\ OneCycleFault(Newest(place)) /\ place.pc \notin Address => tried.trace = place.trace
RunsInv ==
  \E k : /\ Placed(place, k)
         /\ ~forgotten => Ended(tried, k)
         /\ pc = "verified" /\ ~forgotten =>
              Ended(traced, k) \/ Parted(place.faults, k, traced.trace)
SkipInv ==
  pc = "skipped" => /\ OneCycleFault(Newest(place))
                    /\ place.pc \notin Address \/ place.pc = end_address

IInv ==
  /\ SetupInv
  /\ LevelInv
  /\ EntryOnRun
  /\ pc # "inject" => ChainInv /\ RunsInv
  /\ SkipInv

(* The run of a chain is the same in the next state. *)
LEMMA SetupConstant ==
  ASSUME SetupInv, UNCHANGED setup
  PROVE  /\ SetupInv'
         /\ timeout' = timeout /\ models' = models /\ end_address' = end_address
         /\ \A m, k : OnRun(m, k)' <=> OnRun(m, k)
         /\ \A m, k : Ended(m, k)' <=> Ended(m, k)
         /\ \A m, k : Placed(m, k)' <=> Placed(m, k)
         /\ \A c, k, trace : Parted(c, k, trace)' <=> Parted(c, k, trace)
<1>1. program' = program /\ end_address' = end_address /\ required' = required
      /\ ignored' = ignored /\ models' = models /\ timeout' = timeout
  BY DEF setup
<1>2. SetupInv'
  BY <1>1 DEF SetupInv, Address, Instruction
<1>3. ASSUME NEW m, NEW k PROVE OnRun(m, k)' <=> OnRun(m, k)
  BY <1>1 DEF OnRun, IsIdeal, GoodChain, GoodFault, Apart, FlashAt, RegisterAt, Advance, Cycle,
              InstructionHit, RegisterHit, PutBack, HasPermanent
<1>4. ASSUME NEW m, NEW k PROVE Ended(m, k)' <=> Ended(m, k)
  BY <1>1 DEF Ended, StopTime, Stops, EndsAt
<1>5. ASSUME NEW m, NEW k PROVE Placed(m, k)' <=> Placed(m, k)
  BY <1>1, <1>3 DEF Placed
<1>6. ASSUME NEW c, NEW k, NEW trace PROVE Parted(c, k, trace)' <=> Parted(c, k, trace)
  BY <1>1 DEF Parted, LeavesAt, LeftAlone, Extends, Stops, EndsAt, Address, HasPermanent
<1> QED BY <1>1, <1>2, <1>3, <1>4, <1>5, <1>6

LEMMA ModelTypes ==
  ASSUME SetupInv, LevelInv
  PROVE  /\ models \in Seq([instruction : BOOLEAN, type : {"permanent", "transient", "until_overwrite"}])
         /\ DOMAIN models = 1 .. Len(models) /\ Len(models) \in Nat /\ level \in 1 .. Len(models)
         /\ model.instruction \in BOOLEAN
         /\ model.type \in {"permanent", "transient", "until_overwrite"}
         /\ model.instruction => model.type # "until_overwrite"
         /\ model.type = "permanent" => entry.time = 0
<1>1. /\ models \in Seq([instruction : BOOLEAN, type : {"permanent", "transient", "until_overwrite"}])
      /\ \A i \in DOMAIN models : models[i].instruction => models[i].type # "until_overwrite"
      /\ \A i, j \in DOMAIN models : i < j /\ models[j].type = "permanent" => models[i].type = "permanent"
  BY ListsAssumption DEF ModelAssumption, SetupInv
<1>2. DOMAIN models = 1 .. Len(models) /\ Len(models) \in Nat
  BY <1>1, LenProperties
<1>3. level \in DOMAIN models
  BY DEF LevelInv
<1>4. models[level] \in [instruction : BOOLEAN, type : {"permanent", "transient", "until_overwrite"}]
  BY <1>1, <1>2, <1>3, ElementOfSeq
<1>5. ASSUME model.type = "permanent" PROVE entry.time = 0
  <2>1. \A i \in 1 .. level - 1 : i \in DOMAIN models /\ i < level
    BY <1>2, <1>3
  <2> QED BY <1>1, <1>3, <1>5, <2>1 DEF LevelInv, model
<1> QED BY <1>1, <1>2, <1>3, <1>4, <1>5 DEF model

LEMMA TryStep ==
  ASSUME IInv, NEW m, NEW cycles \in Nat, NEW run, NEW k, Placed(m, k),
         Newest(m).instruction = model.instruction, Newest(m).type = model.type,
         m.time + cycles = timeout, ~Visited(m) => Ended(run, k),
         OneCycleFault(Newest(m)) /\ m.pc \notin Address => run.trace = m.trace,
         Try(m, cycles, run)
  PROVE  IInv'
<1>1. /\ place' = m /\ left' = cycles /\ tried' = run /\ pc' = "verify"
      /\ found' = (run.end_reached /\ run.decision = "EXPLOITABLE")
      /\ forgotten' = Visited(m)
      /\ UNCHANGED setup /\ level' = level /\ entry' = entry /\ remaining' = remaining
  BY DEF Try, Visited
<1>2. /\ SetupInv' /\ timeout' = timeout /\ models' = models /\ end_address' = end_address
      /\ \A x, y : OnRun(x, y)' <=> OnRun(x, y)
      /\ \A x, y : Ended(x, y)' <=> Ended(x, y)
      /\ \A x, y : Placed(x, y)' <=> Placed(x, y)
  BY <1>1, SetupConstant DEF IInv
<1>3. LevelInv'
  BY <1>1, <1>2 DEF IInv, LevelInv
<1>4. EntryOnRun'
  <2>1. PICK j : EntryInv(j)
    BY DEF IInv, EntryOnRun
  <2>2. OnRun(entry, j)' /\ Settled(entry)'
    BY <1>1, <1>2, <2>1 DEF EntryInv, Settled, Over
  <2>3. EntryInv(j)'
    BY <1>1, <1>2, <2>1, <2>2 DEF EntryInv
  <2> QED BY <2>3 DEF EntryOnRun
<1>5. ChainInv'
  BY <1>1, <1>2 DEF ChainInv, model, Newest, Visited, OneCycleFault
<1>6. RunsInv'
  <2>1. Placed(place, k)' /\ (~Visited(m) => Ended(tried, k)')
    BY <1>1, <1>2
  <2> QED BY <1>1, <2>1 DEF RunsInv
<1>7. SkipInv'
  BY <1>1 DEF SkipInv
<1> QED BY <1>2, <1>3, <1>4, <1>5, <1>6, <1>7 DEF IInv

LEMMA DescendStep ==
  ASSUME IInv, ~LastLevel, NEW m, NEW cycles \in Nat, NEW k, OnRun(m, k), Settled(m),
         m.time + cycles = timeout, m.time = entry.time \/ model.type # "permanent",
         Descend(m, cycles)
  PROVE  IInv'
<1>1. level' = level + 1 /\ entry' = m /\ remaining' = cycles /\ pc' = "inject" /\ UNCHANGED setup
  BY DEF Descend
<1>2. /\ SetupInv' /\ timeout' = timeout /\ models' = models
      /\ \A x, y : OnRun(x, y)' <=> OnRun(x, y)
  BY <1>1, SetupConstant DEF IInv
<1>3. LevelInv'
  <2>1. DOMAIN models = 1 .. Len(models) /\ Len(models) \in Nat /\ level \in 1 .. Len(models)
    BY ModelTypes DEF IInv
  <2>2. level + 1 \in DOMAIN models
    <3>1. level # Len(models)
      BY DEF LastLevel
    <3>2. level + 1 \in 1 .. Len(models)
      <4> DEFINE n == Len(models)
      <4>1. n \in Nat /\ level \in 1 .. n /\ level # n
        BY <2>1, <3>1
      <4> HIDE DEF n
      <4>2. level + 1 \in 1 .. n
        BY <4>1
      <4> QED BY <4>2 DEF n
    <3> QED BY <2>1, <3>2
  <2>3. ASSUME \A i \in 1 .. (level + 1) - 1 : models[i].type = "permanent" PROVE m.time = 0
    <3>1. level \in 1 .. (level + 1) - 1 /\ \A i \in 1 .. level - 1 : i \in 1 .. (level + 1) - 1
      BY <2>1
    <3>2. model.type = "permanent" /\ entry.time = 0
      BY <2>3, <3>1 DEF model, IInv, LevelInv
    <3> QED BY <3>2
  <2> QED BY <1>1, <1>2, <2>2, <2>3 DEF LevelInv
<1>4. EntryOnRun'
  <2>1. OnRun(entry, k)' /\ Settled(entry)'
    BY <1>1, <1>2 DEF Settled, Over
  <2>2. EntryInv(k)'
    BY <1>1, <1>2, <2>1 DEF EntryInv
  <2> QED BY <2>2 DEF EntryOnRun
<1>5. SkipInv'
  BY <1>1 DEF SkipInv
<1> QED BY <1>1, <1>2, <1>3, <1>4, <1>5 DEF IInv

-----------------------------------------------------------------------------
(* The steps *)

LEMMA LeftOver ==
  ASSUME SetupInv, NEW k, EntryInv(k), NEW n, Within(n, k)
  PROVE  Left(n) \in Nat /\ n.time + Left(n) = timeout
<1>1. timeout \in Nat /\ entry.time \in Nat /\ remaining \in Nat /\ entry.time + remaining = timeout
      /\ n.time \in Nat /\ n.time \in entry.time .. timeout
  BY DEF SetupInv, EntryInv, OnRun, Within
<1> QED BY <1>1 DEF Left

LEMMA NewestWith ==
  ASSUME NEW n, NEW k, OnRun(n, k), NEW f \in Fault
  PROVE  Newest(WithFault(n, f)) = f /\ WithFault(n, f).time = n.time
<1>1. n.faults \in Seq(Fault) /\ DOMAIN n = Members
  BY DEF OnRun, GoodChain
<1>2. WithFault(n, f).faults = Append(n.faults, f) /\ WithFault(n, f).time = n.time
  BY <1>1 DEF WithFault, Members
<1>3. Append(n.faults, f)[Len(Append(n.faults, f))] = f
  BY <1>1, AppendProperties
<1> QED BY <1>2, <1>3 DEF Newest

LEMMA MachineTypes ==
  ASSUME SetupInv, NEW n, NEW k, OnRun(n, k)
  PROVE  n.reg \in 0 .. 1 /\ n.flash \in [Address -> Instruction] /\ n.time \in Nat
<1>1. n.time \in 0 .. timeout /\ timeout \in Nat /\ k[n.time] \in Core
  BY DEF OnRun, IsIdeal, SetupInv
<1>2. k[n.time].reg \in 0 .. 1
  BY <1>1 DEF Core
<1>3. n.reg \in 0 .. 1
  BY <1>2 DEF OnRun, RegisterAt
<1>4. n.flash \in [Address -> Instruction]
  BY FlashType DEF OnRun
<1> QED BY <1>1, <1>3, <1>4

LEMMA InstructionFaultType ==
  ASSUME SetupInv, LevelInv, model.instruction, NEW n, NEW k, OnRun(n, k), NEW where \in Address
  PROVE  NewInstructionFault(n, where) \in Fault
<1>1. n.flash[where] \in Instruction /\ n.time \in Nat
  BY MachineTypes
<1>2. model.type \in {"permanent", "transient"}
  BY ModelTypes
<1> QED BY <1>1, <1>2 DEF NewInstructionFault, Fault, InstructionFault

LEMMA RegisterFaultType ==
  ASSUME SetupInv, LevelInv, NEW n, NEW k, OnRun(n, k)
  PROVE  NewRegisterFault(n) \in Fault
<1>1. n.reg \in 0 .. 1 /\ n.time \in Nat
  BY MachineTypes
<1>2. model.type \in {"permanent", "transient", "until_overwrite"}
  BY ModelTypes
<1> QED BY <1>1, <1>2 DEF NewRegisterFault, Fault, RegisterFault

LEMMA InjectInstructionStep == ASSUME IInv, InjectInstruction PROVE IInv'
<1>1. SetupInv /\ LevelInv /\ pc = "inject" /\ model.instruction /\ model.type # "permanent"
  BY ModelTypes DEF IInv, InjectInstruction, AtModel
<1>2. PICK k : EntryInv(k)
  BY DEF IInv, EntryOnRun
<1> DEFINE executed == Executed(entry, remaining)
<1>3. PICK i \in Collected(executed) :
        LET n == Replay(executed, i)
            cycles == Left(n)
            where == executed[i].pc
            m == WithFault(n, NewInstructionFault(n, where))
        IN /\ cycles # 0
           /\ ~Chained(TRUE, LAMBDA f : f.type = "permanent" /\ f.where = where)
           /\ Try(m, cycles, RunInstructionFault(m, cycles))
  BY DEF InjectInstruction
<1> DEFINE n == Replay(executed, i)
           cycles == Left(n)
           where == executed[i].pc
           f == NewInstructionFault(n, where)
           m == WithFault(n, f)
           run == RunInstructionFault(m, cycles)
<1>4. /\ cycles # 0 /\ Try(m, cycles, run)
      /\ \A l \in DOMAIN entry.faults :
           entry.faults[l].instruction = TRUE =>
             ~(entry.faults[l].type = "permanent" /\ entry.faults[l].where = where)
  BY <1>3 DEF Chained
<1>5. executed \in Seq(Step)
  BY <1>1, <1>2, ExecutedType
<1> HIDE DEF executed
<1>6. i \in Nat /\ where \in Address
  <2>1. i \in DOMAIN executed /\ DOMAIN executed = 1 .. Len(executed)
    BY <1>5, LenProperties DEF Collected
  <2>2. executed[i] \in Step /\ i \in Nat
    BY <1>5, <2>1, ElementOfSeq
  <2> QED BY <2>2 DEF Step
<1>7. Within(n, k)
  BY <1>1, <1>2, <1>6, ReplayWithin
<1> HIDE DEF n
<1>8. cycles \in Nat \ {0} /\ n.time + cycles = timeout
  BY <1>1, <1>2, <1>4, <1>7, LeftOver
<1> HIDE DEF cycles, where
<1>9. OnRun(n, k) /\ Settled(n) /\ n.faults = entry.faults
  BY <1>7 DEF Within
<1>10. f \in Fault
  BY <1>1, <1>6, <1>9, InstructionFaultType
<1>11. f.instruction = TRUE /\ f.type = model.type /\ f.where = where /\ f.time = n.time
       /\ f.original = n.flash[where]
  BY DEF NewInstructionFault
<1> HIDE DEF f
<1>12. MayFollow(f, n)
  BY <1>1, <1>4, <1>9, <1>10, <1>11 DEF MayFollow
<1>13. PICK j : Placed(m, j)
  BY <1>1, <1>9, <1>12, NewPlace
<1>14. Newest(m) = f /\ m.time = n.time
  BY <1>9, <1>10, NewestWith
<1> HIDE DEF m
<1>15. OneCycleFault(Newest(m))
  BY <1>1, <1>11, <1>14 DEF OneCycleFault
<1>16. (~Visited(m) => Ended(run, j)) /\ (m.pc \notin Address => run.trace = m.trace)
  BY <1>1, <1>8, <1>13, <1>14, <1>15, TryInstruction
<1>17. cycles \in Nat /\ m.time + cycles = timeout
       /\ Newest(m).instruction = model.instruction /\ Newest(m).type = model.type
  BY <1>1, <1>8, <1>11, <1>14
<1> HIDE DEF run
<1> QED BY <1>4, <1>13, <1>16, <1>17, TryStep

LEMMA InjectRegisterStep == ASSUME IInv, InjectRegister PROVE IInv'
<1>1. SetupInv /\ LevelInv /\ pc = "inject" /\ model.instruction = FALSE /\ model.type # "permanent"
  BY ModelTypes DEF IInv, InjectRegister, AtModel
<1>2. PICK k : EntryInv(k)
  BY DEF IInv, EntryOnRun
<1> DEFINE executed == Executed(entry, remaining)
<1>3. PICK i \in Collected(executed) :
        LET n == IF i = 1 THEN Fresh(entry) ELSE Emulate(Fresh(entry), Nowhere, i - 1, FALSE)
            m == WithFault(n, NewRegisterFault(n))
            cycles == Left(n)
        IN /\ ~Chained(FALSE, LAMBDA f :
                 \/ f.type = "permanent" \/ f.time = n.time
                 \/ f.type = "until_overwrite" /\ ManipulatedValue(f.original) = n.reg)
           /\ Try(m, cycles, Emulate(WriteRegister(Fresh(m)), Nowhere, cycles, FALSE))
  BY DEF InjectRegister
<1> DEFINE n == IF i = 1 THEN Fresh(entry) ELSE Emulate(Fresh(entry), Nowhere, i - 1, FALSE)
           cycles == Left(n)
           f == NewRegisterFault(n)
           m == WithFault(n, f)
           run == Emulate(WriteRegister(Fresh(m)), Nowhere, cycles, FALSE)
<1>4. /\ Try(m, cycles, run)
      /\ \A l \in DOMAIN entry.faults :
           entry.faults[l].instruction = FALSE => entry.faults[l].time # n.time
  BY <1>3 DEF Chained
<1>5. executed \in Seq(Step) /\ Len(executed) <= remaining
  BY <1>1, <1>2, ExecutedType
<1> HIDE DEF executed
<1>6. i \in Nat /\ i - 1 \in Nat /\ i <= remaining
  <2>1. i \in DOMAIN executed /\ DOMAIN executed = 1 .. Len(executed) /\ Len(executed) \in Nat
    BY <1>5, LenProperties DEF Collected
  <2> QED BY <1>2, <1>5, <2>1 DEF EntryInv
<1>7. Within(n, k)
  <2> DEFINE e == Fresh(entry)
  <2>1. Within(e, k) /\ e.time = entry.time
    <3>1. DOMAIN entry = Members
      BY <1>2 DEF EntryInv, OnRun
    <3> QED BY <1>1, <1>2, <3>1, FreshWithin, FreshFields
  <2> HIDE DEF e
  <2>2. e.time + (i - 1) <= timeout
    <3>1. timeout \in Nat /\ entry.time \in Nat /\ remaining \in Nat
          /\ entry.time + remaining = timeout
      BY <1>1, <1>2 DEF SetupInv, EntryInv, OnRun
    <3> QED BY <1>6, <2>1, <3>1
  <2>3. Within(Emulate(e, Nowhere, i - 1, FALSE), k)
    BY <1>1, <1>2, <1>6, <2>1, <2>2, EmulateWithin
  <2> QED BY <2>1, <2>3 DEF e
<1> HIDE DEF n
<1>8. cycles \in Nat /\ n.time + cycles = timeout
  BY <1>1, <1>2, <1>7, LeftOver
<1> HIDE DEF cycles
<1>9. OnRun(n, k) /\ Settled(n) /\ n.faults = entry.faults
  BY <1>7 DEF Within
<1>10. f \in Fault
  BY <1>1, <1>9, RegisterFaultType
<1>11. f.instruction = FALSE /\ f.type = model.type /\ f.time = n.time /\ f.original = n.reg
  BY DEF NewRegisterFault
<1> HIDE DEF f
<1>12. MayFollow(f, n)
  <2>1. \A l \in DOMAIN n.faults : n.faults[l].instruction \in BOOLEAN
    BY <1>9, ElementOfSeq, FaultKinds DEF OnRun, GoodChain
  <2> QED BY <1>1, <1>4, <1>9, <1>10, <1>11, <2>1 DEF MayFollow
<1>13. PICK j : Placed(m, j)
  BY <1>1, <1>9, <1>12, NewPlace
<1>14. Newest(m) = f /\ m.time = n.time
  BY <1>9, <1>10, NewestWith
<1> HIDE DEF m
<1>15. ~OneCycleFault(Newest(m))
  BY <1>11, <1>14 DEF OneCycleFault
<1>16. run = Emulate(Struck(Fresh(m)), Nowhere, cycles, FALSE)
  <2>1. DOMAIN m = Members
    BY <1>13 DEF Placed
  <2>2. Newest(Fresh(m)) = Newest(m)
    BY <2>1, FreshFields
  <2> QED BY <1>11, <1>14, <2>2 DEF Struck
<1>17. ~Visited(m) => Ended(run, j)
  BY <1>1, <1>8, <1>13, <1>14, <1>15, <1>16, TryLasting
<1>18. m.time + cycles = timeout
       /\ Newest(m).instruction = model.instruction /\ Newest(m).type = model.type
  BY <1>1, <1>8, <1>11, <1>14
<1> HIDE DEF run
<1> QED BY <1>4, <1>8, <1>13, <1>15, <1>17, <1>18, TryStep

(* A permanent fault is in force from the start of the program. *)
LEMMA PermanentStep ==
  ASSUME IInv, model.type = "permanent", NEW k, EntryInv(k), NEW f, MayFollow(f, entry),
         f.instruction = model.instruction, f.type = model.type,
         TryPermanent(WithFault(entry, f), Struck(WithFault(entry, f)))
  PROVE  IInv'
<1> DEFINE m == WithFault(entry, f)
           w == Struck(m)
           run == Emulate(Fresh(w), Nowhere, remaining, FALSE)
<1>1. SetupInv /\ OnRun(entry, k) /\ Settled(entry) /\ f \in Fault
      /\ remaining \in Nat /\ entry.time + remaining = timeout
  BY DEF IInv, EntryInv, MayFollow
<1>2. PICK j : Placed(m, j)
  BY <1>1, NewPlace
<1>3. Newest(m) = f /\ m.time = entry.time
  BY <1>1, NewestWith
<1>4. (LastLevel /\ Try(m, remaining, run)) \/ (~LastLevel /\ Descend(w, remaining))
  BY DEF TryPermanent
<1> HIDE DEF m
<1>5. ~OneCycleFault(Newest(m))
  BY <1>3 DEF OneCycleFault
<1>6. CASE LastLevel /\ Try(m, remaining, run)
  <2>1. ~Visited(m) => Ended(run, j)
    BY <1>1, <1>2, <1>3, <1>5, TryLasting
  <2> HIDE DEF run
  <2> QED BY <1>1, <1>2, <1>3, <1>5, <1>6, <2>1, TryStep
<1>7. CASE ~LastLevel /\ Descend(w, remaining)
  <2>1. OnRun(w, j) /\ Settled(w)
    BY <1>2, <1>5, StruckSettled
  <2>2. w.time = entry.time
    BY <1>2, <1>3, StruckFields DEF Placed
  <2> HIDE DEF w
  <2> QED BY <1>1, <1>7, <2>1, <2>2, DescendStep
<1> QED BY <1>4, <1>6, <1>7

LEMMA InjectPermanentInstructionStep == ASSUME IInv, InjectPermanentInstruction PROVE IInv'
<1>1. SetupInv /\ LevelInv /\ model.instruction = TRUE /\ model.type = "permanent"
  BY ModelTypes DEF IInv, InjectPermanentInstruction, AtModel
<1>2. PICK k : EntryInv(k)
  BY DEF IInv, EntryOnRun
<1>3. PICK a \in AllInstructions :
        LET m == WithFault(entry, NewInstructionFault(entry, a))
        IN /\ ~Chained(TRUE, LAMBDA f : f.where = a)
           /\ TryPermanent(m, WriteInstruction(m))
  BY DEF InjectPermanentInstruction
<1> DEFINE f == NewInstructionFault(entry, a)
           m == WithFault(entry, f)
<1>4. /\ TryPermanent(m, WriteInstruction(m))
      /\ \A l \in DOMAIN entry.faults :
           entry.faults[l].instruction = TRUE => entry.faults[l].where # a
  BY <1>3 DEF Chained
<1>5. a \in Address
  BY DEF AllInstructions
<1>6. OnRun(entry, k) /\ entry.time = 0
  BY <1>1, <1>2, ModelTypes DEF EntryInv
<1>7. f \in Fault
  BY <1>1, <1>5, <1>6, InstructionFaultType
<1>8. f.instruction = TRUE /\ f.type = model.type /\ f.where = a /\ f.time = entry.time
      /\ f.original = entry.flash[a]
  BY DEF NewInstructionFault
<1> HIDE DEF f
<1>9. MayFollow(f, entry)
  <2>1. \A l \in DOMAIN entry.faults : entry.faults[l].instruction \in BOOLEAN
    BY <1>6, ElementOfSeq, FaultKinds DEF OnRun, GoodChain
  <2> QED BY <1>1, <1>4, <1>6, <1>7, <1>8, <2>1 DEF MayFollow
<1>10. Newest(m) = f
  BY <1>6, <1>7, NewestWith
<1>11. Struck(m) = WriteInstruction(m)
  BY <1>8, <1>10 DEF Struck
<1> QED BY <1>1, <1>2, <1>4, <1>8, <1>9, <1>11, PermanentStep

LEMMA InjectPermanentRegisterStep == ASSUME IInv, InjectPermanentRegister PROVE IInv'
<1>1. SetupInv /\ LevelInv /\ model.instruction = FALSE /\ model.type = "permanent"
  BY ModelTypes DEF IInv, InjectPermanentRegister, AtModel
<1>2. PICK k : EntryInv(k)
  BY DEF IInv, EntryOnRun
<1> DEFINE f == NewRegisterFault(entry)
           m == WithFault(entry, f)
<1>4. /\ TryPermanent(m, WriteRegister(m))
      /\ \A l \in DOMAIN entry.faults : ~(entry.faults[l].instruction = FALSE /\ TRUE)
  BY DEF Chained, InjectPermanentRegister
<1>6. OnRun(entry, k) /\ entry.time = 0
  BY <1>1, <1>2, ModelTypes DEF EntryInv
<1>7. f \in Fault
  BY <1>1, <1>6, RegisterFaultType
<1>8. f.instruction = FALSE /\ f.type = model.type /\ f.time = entry.time
      /\ f.original = entry.reg
  BY DEF NewRegisterFault
<1> HIDE DEF f
<1>9. MayFollow(f, entry)
  <2>1. \A l \in DOMAIN entry.faults : entry.faults[l].instruction \in BOOLEAN
    BY <1>6, ElementOfSeq, FaultKinds DEF OnRun, GoodChain
  <2> QED BY <1>1, <1>4, <1>6, <1>7, <1>8, <2>1 DEF MayFollow
<1>10. Newest(m) = f
  BY <1>6, <1>7, NewestWith
<1>11. Struck(m) = WriteRegister(m)
  BY <1>8, <1>10 DEF Struck
<1> QED BY <1>1, <1>2, <1>4, <1>8, <1>9, <1>11, PermanentStep

(* What a step that leaves the level alone keeps. *)
LEMMA SameLevel ==
  ASSUME IInv, UNCHANGED <<setup, level, entry, remaining>>
  PROVE  SetupInv' /\ LevelInv' /\ EntryOnRun'
<1>1. UNCHANGED setup /\ level' = level /\ entry' = entry /\ remaining' = remaining
  OBVIOUS
<1>2. SetupInv' /\ timeout' = timeout /\ models' = models
      /\ \A x, y : OnRun(x, y)' <=> OnRun(x, y)
  BY <1>1, SetupConstant DEF IInv
<1>3. LevelInv'
  BY <1>1, <1>2 DEF IInv, LevelInv
<1>4. EntryOnRun'
  <2>1. PICK j : EntryInv(j)
    BY DEF IInv, EntryOnRun
  <2>2. OnRun(entry, j)' /\ Settled(entry)'
    BY <1>1, <1>2, <2>1 DEF EntryInv, Settled, Over
  <2>3. EntryInv(j)'
    BY <1>1, <1>2, <2>1, <2>2 DEF EntryInv
  <2> QED BY <2>3 DEF EntryOnRun
<1> QED BY <1>2, <1>3, <1>4

LEMMA SameChain ==
  ASSUME IInv, UNCHANGED <<setup, level, entry, remaining, place, left, tried, forgotten, found>>,
         pc # "inject"
  PROVE  ChainInv'
<1>1. UNCHANGED setup /\ level' = level /\ place' = place /\ left' = left /\ tried' = tried
      /\ forgotten' = forgotten /\ found' = found
  OBVIOUS
<1>2. timeout' = timeout /\ models' = models /\ end_address' = end_address
  BY <1>1, SetupConstant DEF IInv
<1>3. Address' = Address
  BY DEF Address
<1> QED BY <1>1, <1>2, <1>3 DEF IInv, ChainInv, model, Newest, Visited, OneCycleFault

LEMMA VerifyStep == ASSUME IInv, Verify PROVE IInv'
<1>1. /\ pc = "verify" /\ pc' = "verified"
      /\ traced' = Emulate(MainEmulator(place.faults), Nowhere, timeout, TRUE)
      /\ UNCHANGED <<setup, level, entry, remaining, place, left, tried, forgotten, found>>
  BY DEF Verify
<1>2. SetupInv' /\ LevelInv' /\ EntryOnRun' /\ ChainInv' /\ SkipInv'
  BY <1>1, SameLevel, SameChain DEF SkipInv
<1>3. PICK k : Placed(place, k) /\ (~forgotten => Ended(tried, k))
  BY <1>1 DEF IInv, RunsInv
<1> DEFINE run == Emulate(MainEmulator(place.faults), Nowhere, timeout, TRUE)
<1>4. Ended(run, k) \/ Parted(place.faults, k, run.trace)
  <2>1. Struck(place).faults = place.faults
    BY <1>3, StruckFields DEF Placed
  <2>2. IsIdeal(place.faults, k) /\ GoodChain(place.faults, k)
    BY <1>3, <2>1 DEF Placed, OnRun
  <2> QED BY <2>2, TraceEnds DEF IInv
<1> HIDE DEF run
<1>5. RunsInv'
  <2>1. UNCHANGED setup /\ traced' = run /\ place' = place /\ tried' = tried /\ forgotten' = forgotten
    BY <1>1 DEF run
  <2>2. /\ \A x, y : Ended(x, y)' <=> Ended(x, y)
        /\ \A x, y : Placed(x, y)' <=> Placed(x, y)
        /\ \A c, x, y : Parted(c, x, y)' <=> Parted(c, x, y)
    BY <2>1, SetupConstant DEF IInv
  <2>3. Placed(place, k)' /\ (~forgotten => Ended(tried, k)')
        /\ (Ended(traced, k)' \/ Parted(place.faults, k, traced.trace)')
    BY <1>3, <1>4, <2>1, <2>2
  <2> QED BY <2>1, <2>3 DEF RunsInv
<1> QED BY <1>2, <1>5 DEF IInv

(* What is known of a chain that the next level continues. *)
LEMMA ContinuesFrom ==
  ASSUME IInv, Continues
  PROVE  \E k : /\ SetupInv /\ Placed(place, k) /\ ~LastLevel /\ model.type # "permanent"
                /\ Newest(place).instruction = model.instruction
                /\ Newest(place).type = model.type
                /\ left \in Nat /\ place.time + left = timeout
                /\ place.time \in Nat
<1>1. SetupInv /\ ChainInv /\ RunsInv /\ ~LastLevel /\ model.type # "permanent"
  BY DEF IInv, Continues
<1>2. PICK k : Placed(place, k)
  BY <1>1 DEF RunsInv
<1>3. Struck(place).time = place.time /\ OnRun(Struck(place), k) /\ timeout \in Nat
  BY <1>1, <1>2, StruckFields DEF Placed, SetupInv
<1>4. place.time \in Nat
  BY <1>3 DEF OnRun
<1> QED BY <1>1, <1>2, <1>4 DEF ChainInv

LEMMA AgainInstructionStep == ASSUME IInv, AgainInstruction PROVE IInv'
<1>1. /\ Continues /\ model.instruction /\ left > 2
      /\ AgainOnce.code = "MAX_INSTRUCTIONS_REACHED" /\ Descend(RepairFlash(AgainOnce), left - 1)
  BY DEF AgainInstruction
<1>2. PICK k : /\ SetupInv /\ Placed(place, k) /\ ~LastLevel /\ model.type # "permanent"
               /\ Newest(place).instruction = model.instruction
               /\ Newest(place).type = model.type
               /\ left \in Nat /\ place.time + left = timeout
               /\ place.time \in Nat
  BY <1>1, ContinuesFrom
<1> DEFINE m == RepairFlash(AgainOnce)
<1>3. AgainOnce = Again(place, tried.visits)
  BY DEF AgainOnce, Again
<1>4. OneCycleFault(Newest(place)) /\ place.time < timeout
  BY <1>1, <1>2 DEF OneCycleFault
<1>5. OnRun(m, k) /\ Settled(m) /\ m.time = place.time + 1
  BY <1>1, <1>2, <1>3, <1>4, AgainRight
<1> HIDE DEF m
<1>6. left - 1 \in Nat /\ m.time + (left - 1) = timeout
  BY <1>1, <1>2, <1>5
<1>7. Descend(m, left - 1)
  BY <1>1 DEF m
<1> QED BY <1>2, <1>5, <1>6, <1>7, DescendStep

LEMMA AgainFailedStep == ASSUME IInv, AgainFailed PROVE IInv'
<1>1. /\ Continues /\ model.instruction /\ left > 2 /\ pc # "inject" /\ pc' = "skipped"
      /\ AgainOnce.code # "MAX_INSTRUCTIONS_REACHED"
      /\ UNCHANGED <<setup, level, entry, remaining, place, left, tried, forgotten, found, traced>>
  BY DEF AgainFailed, Continues
<1>2. PICK k : /\ SetupInv /\ Placed(place, k) /\ ~LastLevel /\ model.type # "permanent"
               /\ Newest(place).instruction = model.instruction
               /\ Newest(place).type = model.type
               /\ left \in Nat /\ place.time + left = timeout
               /\ place.time \in Nat
  BY <1>1, ContinuesFrom
<1>3. AgainOnce = Again(place, tried.visits)
  BY DEF AgainOnce, Again
<1>4. OneCycleFault(Newest(place)) /\ place.time < timeout
  BY <1>1, <1>2 DEF OneCycleFault
<1>5. place.pc \notin Address \/ place.pc = end_address
  BY <1>1, <1>2, <1>3, <1>4, AgainRight
<1>6. SetupInv' /\ LevelInv' /\ EntryOnRun' /\ ChainInv'
  BY <1>1, SameLevel, SameChain
<1>7. place' = place /\ UNCHANGED setup /\ tried' = tried /\ forgotten' = forgotten
  BY <1>1
<1>8. SkipInv'
  <2>1. end_address' = end_address /\ Address' = Address
    BY <1>2, <1>7, SetupConstant DEF Address
  <2> QED BY <1>4, <1>5, <1>7, <2>1 DEF SkipInv, OneCycleFault, Newest
<1>9. RunsInv'
  <2>1. PICK j : Placed(place, j) /\ (~forgotten => Ended(tried, j))
    BY <1>1 DEF IInv, RunsInv
  <2>2. /\ \A x, y : Ended(x, y)' <=> Ended(x, y)
        /\ \A x, y : Placed(x, y)' <=> Placed(x, y)
    BY <1>2, <1>7, SetupConstant
  <2>3. Placed(place, j)' /\ (~forgotten => Ended(tried, j)')
    BY <1>7, <2>1, <2>2
  <2> QED BY <1>1, <1>7, <2>3 DEF RunsInv
<1> QED BY <1>6, <1>8, <1>9 DEF IInv

LEMMA AgainRegisterStep == ASSUME IInv, AgainRegister PROVE IInv'
<1>1. Continues /\ ~model.instruction /\ Descend(WriteRegister(place), left)
  BY DEF AgainRegister
<1>2. PICK k : /\ SetupInv /\ Placed(place, k) /\ ~LastLevel /\ model.type # "permanent"
               /\ Newest(place).instruction = model.instruction
               /\ Newest(place).type = model.type
               /\ left \in Nat /\ place.time + left = timeout
               /\ place.time \in Nat
  BY <1>1, ContinuesFrom
<1> DEFINE m == Struck(place)
<1>3. m = WriteRegister(place) /\ ~OneCycleFault(Newest(place))
  BY <1>1, <1>2 DEF Struck, OneCycleFault
<1>4. OnRun(m, k) /\ Settled(m)
  BY <1>2, <1>3, StruckSettled
<1>5. m.time = place.time
  BY <1>2, StruckFields DEF Placed
<1> HIDE DEF m
<1> QED BY <1>1, <1>2, <1>3, <1>4, <1>5, DescendStep

LEMMA MainOnRun ==
  ASSUME SetupInv, NEW k, IsIdeal(<<>>, k)
  PROVE  OnRun(MainEmulator(<<>>), k) /\ Settled(MainEmulator(<<>>))
<1> DEFINE m == MainEmulator(<<>>)
<1>1. /\ DOMAIN m = Members /\ m.pc = 0 /\ m.reg = 0 /\ m.mem = 0 /\ m.time = 0
      /\ m.flash = program /\ m.faults = <<>> /\ m.trace = <<>>
  BY DEF MainEmulator, Members
<1> HIDE DEF m
<1>2. timeout \in Nat /\ 0 \in 0 .. timeout /\ k[0] = Start /\ program \in [Address -> Instruction]
  BY DEF SetupInv, IsIdeal
<1> DEFINE c == <<>>
<1>3. DOMAIN c = {} /\ c \in Seq(Fault)
  BY EmptySeq
<1> HIDE DEF c
<1>4. FlashAt(c, 0) = program
  <2>1. \A a \in Address : ~InstructionHit(c, a, 0)
    BY <1>3 DEF InstructionHit
  <2> QED BY <1>2, <2>1 DEF FlashAt
<1>5. RegisterAt(c, 0, k[0].reg) = 0
  BY <1>2, <1>3 DEF RegisterAt, RegisterHit, Start
<1>6. GoodChain(c, k)
  BY <1>3 DEF GoodChain
<1>7. m.faults = c /\ IsIdeal(c, k)
  BY <1>1 DEF c
<1>8. OnRun(m, k)
  BY <1>1, <1>2, <1>3, <1>4, <1>5, <1>6, <1>7 DEF OnRun, Start
<1>9. Settled(m)
  BY <1>3, <1>7 DEF Settled, Over
<1> QED BY <1>8, <1>9 DEF m

LEMMA InitHolds == Init => IInv
<1> SUFFICES ASSUME Init PROVE IInv
  OBVIOUS
<1>1. SetupInv
  BY TimeoutAssumption DEF Init, SetupInv
<1>2. models \in Seq([instruction : BOOLEAN, type : {"permanent", "transient", "until_overwrite"}])
      /\ Len(models) > 0
  BY <1>1, ListsAssumption DEF ModelAssumption, SetupInv
<1>3. level \in DOMAIN models
  <2>1. DOMAIN models = 1 .. Len(models) /\ Len(models) \in Nat
    BY <1>2, LenProperties
  <2> DEFINE n == Len(models)
  <2>2. n \in Nat /\ n > 0
    BY <1>2, <2>1
  <2> HIDE DEF n
  <2>3. 1 \in 1 .. n
    BY <2>2
  <2> QED BY <2>1, <2>3 DEF n, Init
<1>4. entry = MainEmulator(<<>>) /\ remaining = timeout /\ pc = "inject" /\ timeout \in Nat
  BY <1>1 DEF Init, SetupInv
<1>5. entry.time = 0
  BY <1>4 DEF MainEmulator
<1>6. PICK k : IsIdeal(<<>>, k)
  BY <1>1, IdealExists
<1>7. EntryInv(k)
  BY <1>1, <1>4, <1>5, <1>6, MainOnRun DEF EntryInv
<1> QED BY <1>1, <1>3, <1>4, <1>5, <1>7 DEF IInv, LevelInv, EntryOnRun, SkipInv

LEMMA StutterStep == ASSUME IInv, UNCHANGED vars PROVE IInv'
<1>1. UNCHANGED <<setup, level, entry, remaining, place, left, tried, forgotten, found, traced, pc>>
  BY DEF vars
<1>2. SetupInv' /\ LevelInv' /\ EntryOnRun' /\ (pc # "inject" => ChainInv')
  BY <1>1, SameLevel, SameChain
<1>3. UNCHANGED setup /\ place' = place /\ tried' = tried /\ traced' = traced
      /\ forgotten' = forgotten /\ pc' = pc
  BY <1>1
<1>4. /\ \A x, y : Ended(x, y)' <=> Ended(x, y)
      /\ \A x, y : Placed(x, y)' <=> Placed(x, y)
      /\ \A c, x, y : Parted(c, x, y)' <=> Parted(c, x, y)
      /\ end_address' = end_address /\ Address' = Address
  BY <1>3, SetupConstant DEF IInv, Address
<1>5. ASSUME pc # "inject" PROVE RunsInv'
  <2>1. PICK k : /\ Placed(place, k)
                 /\ ~forgotten => Ended(tried, k)
                 /\ pc = "verified" /\ ~forgotten =>
                      Ended(traced, k) \/ Parted(place.faults, k, traced.trace)
    BY <1>5 DEF IInv, RunsInv
  <2>2. /\ Placed(place, k)'
        /\ ~forgotten => Ended(tried, k)'
        /\ pc = "verified" /\ ~forgotten =>
             Ended(traced, k)' \/ Parted(place.faults, k, traced.trace)'
    BY <1>3, <1>4, <2>1
  <2> QED BY <1>3, <2>2 DEF RunsInv
<1>6. SkipInv'
  BY <1>3, <1>4 DEF IInv, SkipInv, OneCycleFault, Newest
<1> QED BY <1>2, <1>3, <1>5, <1>6 DEF IInv

(* Where the tracer has parted from the run that the simulator has tried:   *)
(* both agree up to a value that the simulator left alone.                  *)
LEMMA PartedAfter ==
  ASSUME SetupInv, NEW c, NEW k, IsIdeal(c, k), NEW m, Ended(m, k), NEW trace, Parted(c, k, trace)
  PROVE  \E i \in DOMAIN m.trace :
           /\ LeftAlone(c, m.trace[i])
           /\ \A j \in 1 .. i : j \in DOMAIN trace /\ trace[j] = m.trace[j]
<1>1. PICK e \in 0 .. timeout : StopTime(k, e) /\ m.trace = k[e].trace
  BY DEF Ended
<1>2. PICK t \in 0 .. timeout : LeavesAt(c, k, t) /\ Extends(trace, k[t].trace)
  BY DEF Parted
<1>3. e \in t .. timeout
  <2>1. ~(e < t)
    BY <1>1, <1>2 DEF StopTime, LeavesAt
  <2> QED BY <2>1 DEF SetupInv
<1>4. Extends(m.trace, k[t].trace)
  BY <1>1, <1>3, IdealExtends
<1>5. PICK i \in DOMAIN k[t].trace : LeftAlone(c, k[t].trace[i])
  BY <1>2 DEF LeavesAt
<1>6. k[t].trace \in Seq(Step)
  BY DEF IsIdeal, Core
<1>7. \A j \in 1 .. i : j \in DOMAIN k[t].trace
  BY <1>5, <1>6, LenProperties
<1> QED BY <1>2, <1>4, <1>5, <1>7 DEF Extends

(* What is known when a chain was verified. *)
LEMMA BothRuns ==
  ASSUME IInv, pc = "verified", ~forgotten
  PROVE  \E k : /\ IsIdeal(place.faults, k) /\ Ended(tried, k)
                /\ Ended(traced, k) \/ Parted(place.faults, k, traced.trace)
<1>1. PICK k : /\ Placed(place, k) /\ Ended(tried, k)
               /\ Ended(traced, k) \/ Parted(place.faults, k, traced.trace)
  BY DEF IInv, RunsInv
<1>2. Struck(place).faults = place.faults
  BY <1>1, StruckFields DEF Placed
<1> QED BY <1>1, <1>2 DEF Placed, OnRun

(* Whatever faults the simulator has injected on its way to a chain, the    *)
(* saved emulators are on the ideal run of their chain, and the runs it has *)
(* tried have ended where that run ends; so has the run of the tracer,      *)
(* unless it parted from it at a value that the simulator left alone in an  *)
(* ignored memory range.                                                    *)
THEOREM PlacesOnRun == Spec => []IInv
<1>1. IInv /\ [Next]_vars => IInv'
  <2> SUFFICES ASSUME IInv, [Next]_vars PROVE IInv'
    OBVIOUS
  <2>1. CASE InjectInstruction
    BY <2>1, InjectInstructionStep
  <2>2. CASE InjectRegister
    BY <2>2, InjectRegisterStep
  <2>3. CASE InjectPermanentInstruction
    BY <2>3, InjectPermanentInstructionStep
  <2>4. CASE InjectPermanentRegister
    BY <2>4, InjectPermanentRegisterStep
  <2>5. CASE Verify
    BY <2>5, VerifyStep
  <2>6. CASE AgainInstruction
    BY <2>6, AgainInstructionStep
  <2>7. CASE AgainFailed
    BY <2>7, AgainFailedStep
  <2>8. CASE AgainRegister
    BY <2>8, AgainRegisterStep
  <2>9. CASE UNCHANGED vars
    BY <2>9, StutterStep
  <2> QED BY <2>1, <2>2, <2>3, <2>4, <2>5, <2>6, <2>7, <2>8, <2>9 DEF Next
<1> QED BY <1>1, InitHolds, PTL DEF Spec

(* The tracer, which finds the moment of every fault by its time in one     *)
(* run, executes the same instructions on the same values as the snapshots, *)
(* replays and repeated injections of simulate_fault; under a permanent     *)
(* register fault, up to the first value written in an ignored memory range.*)
THEOREM RunRepeated == Spec => []SameRun
<1>1. IInv => SameRun
  <2> SUFFICES ASSUME IInv, pc = "verified", ~forgotten
               PROVE  \/ traced.trace = tried.trace
                      \/ \E i \in DOMAIN tried.trace :
                           /\ LeftAlone(place.faults, tried.trace[i])
                           /\ \A j \in 1 .. i : /\ j \in DOMAIN traced.trace
                                                /\ traced.trace[j] = tried.trace[j]
    BY DEF SameRun
  <2>1. PICK k : /\ IsIdeal(place.faults, k) /\ Ended(tried, k)
                 /\ Ended(traced, k) \/ Parted(place.faults, k, traced.trace)
    BY BothRuns
  <2>2. CASE Ended(traced, k)
    BY <2>1, <2>2, EndUnique DEF IInv
  <2>3. CASE Parted(place.faults, k, traced.trace)
    BY <2>1, <2>3, PartedAfter DEF IInv
  <2> QED BY <2>1, <2>2, <2>3
<1> QED BY <1>1, PlacesOnRun, PTL

(* FaultTracer::verify confirms exactly the chains that the simulator has   *)
(* found, if no end address is visited before the last fault and no value   *)
(* is left alone in an ignored memory range.                                *)
THEOREM VerdictRepeated == Spec => []VerdictsAgree
<1>1. IInv => VerdictsAgree
  <2> SUFFICES ASSUME IInv, pc = "verified", ~forgotten,
                      \A i \in DOMAIN tried.trace : ~LeftAlone(place.faults, tried.trace[i])
               PROVE  Confirmed <=> found
    BY DEF VerdictsAgree
  <2>1. PICK k : /\ IsIdeal(place.faults, k) /\ Ended(tried, k)
                 /\ Ended(traced, k) \/ Parted(place.faults, k, traced.trace)
    BY BothRuns
  <2>2. Ended(traced, k)
    BY <2>1, PartedAfter DEF IInv
  <2>3. (traced.end_reached <=> tried.end_reached)
        /\ (traced.end_reached => traced.decision = tried.decision)
    BY <2>1, <2>2, EndUnique DEF IInv
  <2>4. found <=> tried.end_reached /\ tried.decision = "EXPLOITABLE"
    BY DEF IInv, ChainInv
  <2> QED BY <2>3, <2>4 DEF Confirmed
<1> QED BY <1>1, PlacesOnRun, PTL

(* simulate_instruction_fault leaves the inner levels out only for a fault  *)
(* whose instruction was not executed in the first run either.              *)
THEOREM SkipJustified == Spec => []SkippedOnlyIfNotExecuted
<1>1. IInv => SkippedOnlyIfNotExecuted
  BY DEF IInv, SkipInv, ChainInv, SkippedOnlyIfNotExecuted
<1> QED BY <1>1, PlacesOnRun, PTL
=============================================================================
