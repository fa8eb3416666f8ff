------------------------- MODULE InjectionLoopsProofs -------------------------
(***************************************************************************)
(* Two components, the second built on the first.                          *)
(*                                                                         *)
(* Snapshot: for any number of snapshots, any RAM region and any sequence  *)
(* of stores, the two hulls of a usable snapshot cover what changed since  *)
(* its backup, so that a restore is exact and the incremental snapshots    *)
(* implement the full copies of PerfectSnapshot.                           *)
(*                                                                         *)
(* InjectionLoops: for any number of nested fault models, any code and any *)
(* RAM, the calls of the recursion leave the flash and the hooks as they   *)
(* found them, use their snapshots as the snapshots demand, and inject     *)
(* every fault into the state the level saved.                             *)
(***************************************************************************)
EXTENDS InjectionLoops, TLAPS

IInv == TypeOK /\ CoverInv

-----------------------------------------------------------------------------
(* Extend returns a hull, keeps every byte of the hull it is given and adds *)
(* every byte of the write.                                                 *)
LEMMA ExtendCovers ==
  ASSUME NEW r \in Hull, r # Empty => r.start \in Ram /\ r.end - 1 \in Ram /\ r.start < r.end,
         NEW address \in Ram, NEW size \in Nat \ {0},
         address + size <= RamOffset + RamSize
  PROVE  LET x == Extend(r, address, size)
         IN  /\ x \in Hull
             /\ x.start \in Ram /\ x.end - 1 \in Ram /\ x.start < x.end
             /\ Bytes(r) \subseteq Bytes(x)
             /\ address .. address + size - 1 \subseteq Bytes(x)
  BY ConstantAssumption DEF Extend, Hull, Ram, Bytes, Empty

(* An empty hull covers no byte. *)
LEMMA EmptyHull == Empty \in Hull /\ Bytes(Empty) = {}
  BY ConstantAssumption DEF Empty, Hull, Bytes

-----------------------------------------------------------------------------
LEMMA TypeInit == Init => TypeOK
  BY EmptyHull DEF Init, TypeOK

LEMMA TypeStep == ASSUME IInv, [Next]_vars PROVE TypeOK'
<1> USE DEF IInv, CoverInv
<1>1. ASSUME NEW address \in Ram, NEW size \in AccessSize,
             NEW bytes \in [0 .. size - 1 -> Value], Store(address, size, bytes)
      PROVE  TypeOK'
  <2>1. size \in Nat \ {0} /\ address + size <= RamOffset + RamSize
    BY <1>1, ConstantAssumption DEF Store
  <2>2. ram' \in [Ram -> Value]
    BY <1>1, <2>1, ConstantAssumption DEF Store, TypeOK, Ram
  <2>3. \A s \in Snap : /\ Extend(low[s], address, size) \in Hull
                        /\ Extend(high[s], address, size) \in Hull
    BY <2>1, ExtendCovers DEF TypeOK, HullInRam
  <2>4. low' \in [Snap -> Hull] /\ high' \in [Snap -> Hull]
    BY <1>1, <2>3 DEF Store, OnMemoryWrite, TypeOK
  <2>5. QED
    BY <1>1, <2>2, <2>4 DEF Store, TypeOK
<1>2. ASSUME NEW c \in CPU, Compute(c) PROVE TypeOK'
  BY <1>2 DEF Compute, TypeOK, snapshot
<1>3. ASSUME NEW s \in Snap, Reset(s) PROVE TypeOK'
  BY <1>3, EmptyHull DEF Reset, ClearHulls, TypeOK, machine
<1>4. ASSUME NEW s \in Snap, Backup(s) PROVE TypeOK'
  BY <1>4, EmptyHull DEF Backup, ClearHulls, TypeOK, machine
<1>5. ASSUME NEW s \in Snap, Usable(s), Restore(s) PROVE TypeOK'
  <2>1. s \in valid /\ data[s] \in [Ram -> Value]
    BY <1>5 DEF Restore, Usable, NoGarbage
  <2>2. ram' \in [Ram -> Value]
    BY <1>5, <2>1 DEF Restore, TypeOK
  <2>3. QED
    BY <1>5, <2>2, EmptyHull DEF Restore, ClearHulls, TypeOK
<1>6. CASE UNCHANGED vars
  BY <1>6 DEF vars, machine, snapshot, TypeOK
<1>7. QED
  BY <1>1, <1>2, <1>3, <1>4, <1>5, <1>6 DEF Next, Execute

-----------------------------------------------------------------------------
(* A store of the program keeps the hulls of every snapshot in RAM, and     *)
(* adds exactly the bytes it may have changed to what they cover.           *)
LEMMA StoreExtends ==
  ASSUME IInv, NEW address \in Ram, NEW size \in AccessSize,
         NEW bytes \in [0 .. size - 1 -> Value], Store(address, size, bytes)
  PROVE  /\ HullInRam'
         /\ \A s \in Snap : Dirty(s) \union (address .. address + size - 1) \subseteq Dirty(s)'
         /\ \A a \in Ram : a \notin address .. address + size - 1 => ram'[a] = ram[a]
<1>1. size \in Nat \ {0} /\ address + size <= RamOffset + RamSize
  BY ConstantAssumption DEF Store
<1>2. \A s \in Snap : \A r \in {low[s], high[s]} :
        /\ r \in Hull
        /\ LET x == Extend(r, address, size)
           IN  /\ x.start \in Ram /\ x.end - 1 \in Ram /\ x.start < x.end
               /\ Bytes(r) \subseteq Bytes(x)
               /\ address .. address + size - 1 \subseteq Bytes(x)
  BY <1>1, ExtendCovers DEF IInv, CoverInv, HullInRam, TypeOK
<1>3. \A s \in Snap : \/ low'[s] = Extend(low[s], address, size) /\ high'[s] = high[s]
                      \/ high'[s] = Extend(high[s], address, size) /\ low'[s] = low[s]
  BY DEF Store, OnMemoryWrite
<1>4. HullInRam'
  BY <1>2, <1>3 DEF IInv, CoverInv, HullInRam
<1>5. \A s \in Snap : Dirty(s) \union (address .. address + size - 1) \subseteq Dirty(s)'
  BY <1>2, <1>3 DEF Dirty
<1>6. QED
  BY <1>4, <1>5 DEF Store

(* Clearing the hulls of one snapshot keeps all hulls in RAM, and leaves    *)
(* those of the other snapshots alone.                                      *)
LEMMA ClearKeepsOthers ==
  ASSUME IInv, NEW s \in Snap, ClearHulls(s)
  PROVE  /\ HullInRam'
         /\ Dirty(s)' = {}
         /\ \A t \in Snap \ {s} : Dirty(t)' = Dirty(t)
  BY EmptyHull DEF IInv, CoverInv, HullInRam, TypeOK, ClearHulls, Dirty, Empty, Bytes

-----------------------------------------------------------------------------
(* A backup leaves in the buffer exactly the current RAM contents.          *)
LEMMA BackupCopiesAll ==
  ASSUME IInv, NEW s \in Snap, Usable(s), Backup(s)
  PROVE  data'[s] = ram /\ \A t \in Snap \ {s} : data'[t] = data[t]
<1>1. \A a \in Ram : data'[s][a] = ram[a]
  <2>1. CASE ~initialized[s]
    BY <2>1 DEF Backup, IInv, TypeOK
  <2>2. CASE initialized[s]
    BY <2>2 DEF Backup, Usable, IInv, TypeOK, CoverInv, DirtyCover
  <2>3. QED
    BY <2>1, <2>2
<1>2. data'[s] \in [Ram -> Value \union {Garbage}] /\ ram \in [Ram -> Value]
  BY DEF Backup, IInv, TypeOK
<1>3. data'[s] = ram
  BY <1>1, <1>2
<1>4. QED
  BY <1>3 DEF Backup, IInv, TypeOK

(* A restore of a usable snapshot rewrites the RAM to the whole buffer.     *)
LEMMA RestoreCopiesAll ==
  ASSUME IInv, NEW s \in valid, Restore(s)
  PROVE  ram' = data[s]
<1>1. s \in Snap /\ data[s] \in [Ram -> Value] /\ ram \in [Ram -> Value]
  BY DEF IInv, TypeOK, CoverInv, NoGarbage
<1>2. \A a \in Ram : ram'[a] = data[s][a]
  BY <1>1 DEF Restore, IInv, CoverInv, DirtyCover
<1>3. ram' \in [Ram -> Value]
  BY <1>1 DEF Restore
<1>4. QED
  BY <1>1, <1>2, <1>3

-----------------------------------------------------------------------------
LEMMA CoverInit == Init => CoverInv
  BY EmptyHull DEF Init, CoverInv, HullInRam, DirtyCover, NewerCover, BackupOrder, NoGarbage

LEMMA CoverStep == ASSUME IInv, [Next]_vars PROVE CoverInv'
<1>1. ASSUME NEW address \in Ram, NEW size \in AccessSize,
             NEW bytes \in [0 .. size - 1 -> Value], Store(address, size, bytes)
      PROVE  CoverInv'
  <2>1. /\ HullInRam'
        /\ \A s \in Snap : Dirty(s) \union (address .. address + size - 1) \subseteq Dirty(s)'
        /\ \A a \in Ram : a \notin address .. address + size - 1 => ram'[a] = ram[a]
    BY <1>1, StoreExtends
  <2>2. UNCHANGED <<data, initialized, valid, newer>>
    BY <1>1 DEF Store
  <2>3. DirtyCover'
    BY <2>1, <2>2 DEF DirtyCover, IInv, CoverInv, TypeOK
  <2>4. NewerCover'
    BY <2>1, <2>2 DEF NewerCover, IInv, CoverInv, TypeOK
  <2>5. QED
    BY <2>1, <2>2, <2>3, <2>4 DEF IInv, CoverInv, BackupOrder, NoGarbage
<1>2. ASSUME NEW c \in CPU, Compute(c) PROVE CoverInv'
  BY <1>2 DEF Compute, snapshot, IInv, CoverInv, HullInRam, DirtyCover, NewerCover,
              BackupOrder, NoGarbage, Dirty
<1>3. ASSUME NEW s \in Snap, Reset(s) PROVE CoverInv'
  <2>1. HullInRam' /\ \A t \in Snap \ {s} : Dirty(t)' = Dirty(t)
    BY <1>3, ClearKeepsOthers DEF Reset
  <2>2. /\ valid' = valid \ {s} /\ valid \subseteq Snap
        /\ UNCHANGED <<ram, data, newer>>
        /\ \A t \in Snap \ {s} : initialized'[t] = initialized[t]
    BY <1>3 DEF Reset, machine, IInv, TypeOK
  <2>3. DirtyCover' /\ NewerCover'
    BY <2>1, <2>2 DEF IInv, CoverInv, DirtyCover, NewerCover
  <2>4. BackupOrder' /\ NoGarbage'
    BY <2>2 DEF IInv, CoverInv, BackupOrder, NoGarbage
  <2>5. QED
    BY <2>1, <2>3, <2>4 DEF CoverInv
<1>4. ASSUME NEW s \in Snap, Usable(s), Backup(s) PROVE CoverInv'
  <2>1. /\ HullInRam'
        /\ \A t \in Snap \ {s} : Dirty(t)' = Dirty(t)
    BY <1>4, ClearKeepsOthers DEF Backup
  <2>2. data'[s] = ram /\ \A t \in Snap \ {s} : data'[t] = data[t]
    BY <1>4, BackupCopiesAll
  <2>3. /\ valid' = valid \union {s} /\ valid \subseteq Snap
        /\ ram' = ram
        /\ newer'[s] = {} /\ \A t \in Snap \ {s} : newer'[t] = newer[t] \union {s}
        /\ initialized'[s] /\ \A t \in Snap \ {s} : initialized'[t] = initialized[t]
    BY <1>4 DEF Backup, machine, IInv, TypeOK
  <2>4. DirtyCover'
    BY <2>1, <2>2, <2>3 DEF IInv, CoverInv, DirtyCover
  <2>5. NewerCover'
    BY <2>1, <2>2, <2>3 DEF IInv, CoverInv, DirtyCover, NewerCover
  <2>6. BackupOrder'
    BY <2>3 DEF IInv, CoverInv, BackupOrder
  <2>7. NoGarbage'
    BY <2>2, <2>3 DEF IInv, TypeOK, CoverInv, NoGarbage
  <2>8. QED
    BY <2>1, <2>4, <2>5, <2>6, <2>7 DEF CoverInv
<1>5. ASSUME NEW s \in Snap, Usable(s), Restore(s) PROVE CoverInv'
  <2>1. s \in valid
    BY <1>5 DEF Restore, Usable
  <2>2. ram' = data[s]
    BY <1>5, <2>1, RestoreCopiesAll
  <2>3. /\ HullInRam'
        /\ \A t \in Snap \ {s} : Dirty(t)' = Dirty(t)
    BY <1>5, ClearKeepsOthers DEF Restore
  <2>4. /\ valid' = valid \ newer[s] /\ valid \subseteq Snap
        /\ newer'[s] = {} /\ \A t \in Snap \ {s} : newer'[t] = newer[t]
        /\ UNCHANGED <<data, initialized>>
    BY <1>5 DEF Restore, IInv, TypeOK
  <2>5. DirtyCover'
    BY <2>1, <2>2, <2>3, <2>4 DEF IInv, CoverInv, NewerCover, BackupOrder, DirtyCover
  <2>6. NewerCover'
    BY <2>3, <2>4 DEF IInv, CoverInv, NewerCover
  <2>7. BackupOrder' /\ NoGarbage'
    BY <2>4 DEF IInv, CoverInv, BackupOrder, NoGarbage
  <2>8. QED
    BY <2>3, <2>5, <2>6, <2>7 DEF CoverInv
<1>6. CASE UNCHANGED vars
  BY <1>6 DEF vars, machine, snapshot, IInv, CoverInv, HullInRam, DirtyCover, NewerCover,
              BackupOrder, NoGarbage, Dirty
<1>7. QED
  BY <1>1, <1>2, <1>3, <1>4, <1>5, <1>6 DEF Next, Execute

LEMMA Invariance == Spec => []IInv
<1>1. Init => IInv
  BY TypeInit, CoverInit DEF IInv
<1>2. IInv /\ [Next]_vars => IInv'
  BY TypeStep, CoverStep DEF IInv
<1>3. QED
  BY <1>1, <1>2, PTL DEF Spec

(* Every variable of the snapshots keeps its type, whatever the stores are. *)
THEOREM TypeCorrect == Spec => []TypeOK
<1>1. IInv => TypeOK
  BY DEF IInv
<1>2. QED
  BY <1>1, Invariance, PTL

(* The hulls of a usable snapshot cover every byte that differs from it,    *)
(* and stay inside the RAM region.                                          *)
THEOREM Covered == Spec => []CoverInv
<1>1. IInv => CoverInv
  BY DEF IInv
<1>2. QED
  BY <1>1, Invariance, PTL

(* A restore returns the emulator to exactly what the last backup of that   *)
(* snapshot stored, whatever other snapshots did in between.                *)
THEOREM RestoreExact == Spec => RestoreIsExact
<1>1. IInv /\ [Next]_vars =>
        [\A s \in valid : Restore(s) => ram' = data[s] /\ cpu' = state[s]]_vars
  <2>1. ASSUME IInv, NEW s \in valid, Restore(s)
        PROVE  ram' = data[s] /\ cpu' = state[s]
    BY <2>1, RestoreCopiesAll DEF Restore
  <2>2. QED
    BY <2>1
<1>2. QED
  BY <1>1, Invariance, PTL DEF Spec, RestoreIsExact

-----------------------------------------------------------------------------
(* The image PerfectSnapshot holds for each usable snapshot. *)
Image == [s \in valid |-> [ram |-> data[s], cpu |-> state[s]]]

LEMMA PerfectInit == Init => Perfect!Init
<1> SUFFICES ASSUME Init PROVE Perfect!Init
  OBVIOUS
<1>1. ram \in [Ram -> Value] /\ cpu \in CPU /\ valid = {} /\ newer = [s \in Snap |-> {}]
  BY DEF Init
<1>2. QED
  BY <1>1 DEF Perfect!Init

LEMMA PerfectStep == ASSUME IInv, [Next]_vars PROVE [Perfect!Next]_(Perfect!vars)
<1>1. ASSUME NEW address \in Ram, NEW size \in AccessSize,
             NEW bytes \in [0 .. size - 1 -> Value], Store(address, size, bytes)
      PROVE  Perfect!Run
  <2>1. ram' \in [Ram -> Value] /\ cpu' \in CPU
    BY <1>1, TypeStep DEF Next, Execute, TypeOK
  <2>2. UNCHANGED <<data, state, valid, newer>>
    BY <1>1 DEF Store
  <2>3. QED
    BY <2>1, <2>2 DEF Perfect!Run
<1>2. ASSUME NEW c \in CPU, Compute(c) PROVE Perfect!Run
  BY <1>2 DEF Compute, snapshot, Perfect!Run, IInv, TypeOK
<1>3. ASSUME NEW s \in Snap, Reset(s) PROVE Perfect!Forget(s)
  <2>1. valid' = valid \ {s} /\ UNCHANGED <<ram, cpu, data, state, newer>>
    BY <1>3 DEF Reset, machine
  <2>2. Image' = Perfect!Without(Image, {s})
    BY <2>1 DEF Image, Perfect!Without
  <2>3. QED
    BY <2>1, <2>2 DEF Perfect!Forget, Image
<1>4. ASSUME NEW s \in Snap, Usable(s), Backup(s) PROVE Perfect!Backup(s)
  <2>1. data'[s] = ram /\ \A t \in Snap \ {s} : data'[t] = data[t]
    BY <1>4, BackupCopiesAll
  <2>2. /\ valid' = valid \union {s} /\ valid \subseteq Snap
        /\ UNCHANGED <<ram, cpu>>
        /\ state'[s] = cpu /\ \A t \in Snap \ {s} : state'[t] = state[t]
        /\ newer' = [t \in Snap |-> IF t = s THEN {} ELSE newer[t] \union {s}]
    BY <1>4 DEF Backup, machine, IInv, TypeOK
  <2>3. Image' = [t \in DOMAIN Image \union {s} |->
                    IF t = s THEN [ram |-> ram, cpu |-> cpu] ELSE Image[t]]
    BY <2>1, <2>2 DEF Image
  <2>4. QED
    BY <2>2, <2>3 DEF Perfect!Backup, Image
<1>5. ASSUME NEW s \in Snap, Usable(s), Restore(s) PROVE Perfect!Restore(s)
  <2>1. s \in valid
    BY <1>5 DEF Restore, Usable
  <2>2. ram' = data[s]
    BY <1>5, <2>1, RestoreCopiesAll
  <2>3. /\ valid' = valid \ newer[s] /\ UNCHANGED <<data, state>>
        /\ cpu' = state[s] /\ newer' = [newer EXCEPT ![s] = {}]
    BY <1>5 DEF Restore
  <2>4. Image' = Perfect!Without(Image, newer[s])
    BY <2>3 DEF Image, Perfect!Without
  <2>5. QED
    BY <2>1, <2>2, <2>3, <2>4 DEF Perfect!Restore, Image
<1>6. CASE UNCHANGED vars
  BY <1>6 DEF vars, machine, snapshot, Perfect!vars
<1>7. QED
  BY <1>1, <1>2, <1>3, <1>4, <1>5, <1>6 DEF Next, Execute, Perfect!Next

(* The incremental snapshots implement full copies of RAM and registers.    *)
THEOREM Refinement == Spec => ImplementsPerfect
<1>1. IInv /\ [Next]_vars => [Perfect!Next]_(Perfect!vars)
  BY PerfectStep
<1>2. QED
  BY <1>1, PerfectInit, Invariance, PTL DEF Spec, ImplementsPerfect, Perfect!Spec

-----------------------------------------------------------------------------

(* Before the level has a backup of its own; while it looks for a place;    *)
(* and once it has chosen one.                                              *)
Entering  == {"reset", "first_backup"}
Searching == {"collect", "claim", "replay_restore", "replay", "save", "select"}
Placed    == {"iterate", "inject_restore", "inject", "step", "rest", "again_restore",
              "again", "again_step", "called", "revert"}
Label     == Entering \union Searching \union Placed \union {"idle", "done"}

LocalsType ==
  /\ fault \in [Level -> Code \union {None}]
  /\ original \in [Level -> Level \union {Original, None}]
  /\ flash \in [Code -> Level \union {Original}]
  /\ hooks \subseteq Level

(* Which models reach the labels that only some models reach. *)
Fits(l, label) ==
  /\ label \in {"step", "again_step", "again_restore", "again"} => ~Permanent(l)
  /\ label \in {"again_step", "again_restore", "again"} => ~Last(l)
  /\ label \in {"step", "again_step"} => Instr(l)

(* The outer levels wait for their call, the inner ones have none.          *)
Nesting ==
  /\ depth \in Level
  /\ pc \in [Level -> Label]
  /\ \A l \in Level : l < depth => pc[l] = "called"
  /\ \A l \in Level : l > depth => pc[l] = "idle"
  /\ pc[depth] \notin {"called", "idle"}
  /\ \A l \in Level : Fits(l, pc[l])

KindInv ==
  /\ kind \in [Level -> Kind]
  /\ \A l, m \in Level : l < m /\ Permanent(m) => Permanent(l)

ControlInv == KindInv /\ Nesting /\ LocalsType

(* A level that has chosen an address found the original instruction there, *)
(* and no permanent fault of an outer level.                                *)
FaultChosen ==
  \A l \in Level : Instr(l) /\ pc[l] \in Placed =>
    /\ fault[l] \in Code /\ original[l] = Original
    /\ \A k \in Level : k < l /\ Instr(k) /\ Permanent(k) => fault[k] # fault[l]

FlashInv == FlashHoldsFaultsInForce /\ FaultChosen

(* The levels whose snapshot is in use; the snapshots of inner levels are   *)
(* the only ones their restores invalidate.                                 *)
Saving == {l \in 0 .. depth : pc[l] \in Searching \union Placed}

SavedInv ==
  /\ Saving \subseteq valid
  /\ \A l \in Saving : \A m \in newer[l] : m > l
  /\ pc[depth] = "first_backup" => ~initialized[depth]

-----------------------------------------------------------------------------
(* The kinds of the models never change. *)
LEMMA KindStep == ASSUME KindInv, [LoopsNext]_loopVars PROVE kind' = kind /\ KindInv'
<1>1. kind' = kind
  BY DEF LoopsNext, loopVars, control, Done, Go, Call, Return, FirstReset, FirstBackup,
         Emulate, Collected, Claim, ReplayRestore, Replayed, Save, SelectInstruction,
         SelectRegister, Iterate, InjectRestore, InjectInstruction, InjectRegister,
         IneffectiveRegister, Stepped, Rested, AgainRestore, AgainInstruction,
         AgainRegister, AgainStepped, Revert
<1>2. QED
  BY <1>1 DEF KindInv, Permanent

(* The innermost call goes on at another label of its own. *)
LEMMA GoKeeps ==
  ASSUME Nesting, NEW l \in Level, depth = l, NEW label \in Label \ {"called", "idle"},
         Fits(l, label), Go(l, label)
  PROVE  Nesting'
  BY DEF Nesting, Go, Fits, Permanent, Last, Instr

(* A level that is not the last calls the next one. *)
LEMMA CallKeeps ==
  ASSUME Nesting, NEW l \in Level, depth = l, ~Last(l), Call(l)
  PROVE  Nesting'
<1>1. l + 1 \in Level /\ depth' = l + 1 /\ kind' = kind
  BY LevelsAssumption DEF Level, Last, Call
<1>2. pc' = [pc EXCEPT ![l] = "called", ![l + 1] = "reset"]
  BY DEF Call
<1>3. \A k \in Level : pc'[k] = IF k = l THEN "called" ELSE IF k = l + 1 THEN "reset" ELSE pc[k]
  BY <1>1, <1>2 DEF Nesting, Level
<1>4. pc' \in [Level -> Label]
  BY <1>2 DEF Nesting, Label, Entering, Placed
<1>5. /\ \A k \in Level : k < l + 1 => pc'[k] = "called"
      /\ \A k \in Level : k > l + 1 => pc'[k] = "idle"
  BY <1>3 DEF Nesting, Level
<1>6. \A k \in Level : Fits(k, pc'[k])
  BY <1>3 DEF Nesting, Fits
<1>7. QED
  BY <1>1, <1>3, <1>4, <1>5, <1>6 DEF Nesting, Fits, Permanent, Last, Instr

(* A return to the outer level, or out of the recursion. *)
LEMMA ReturnKeeps ==
  ASSUME Nesting, NEW l \in Level, depth = l, Return(l)
  PROVE  Nesting'
<1>1. CASE l = 0
  BY <1>1 DEF Nesting, Return, Level, Label, Fits, Permanent, Last, Instr
<1>2. CASE l # 0
  <2>1. l - 1 \in Level /\ depth' = l - 1 /\ kind' = kind
    BY <1>2, LevelsAssumption DEF Level, Return
  <2>2. pc' = [pc EXCEPT ![l] = "idle", ![l - 1] = "revert"]
    BY <1>2 DEF Return
  <2>3. \A k \in Level : pc'[k] = IF k = l THEN "idle" ELSE IF k = l - 1 THEN "revert" ELSE pc[k]
    BY <2>1, <2>2 DEF Nesting, Level
  <2>4. pc' \in [Level -> Label]
    BY <2>2 DEF Nesting, Label, Placed
  <2>5. /\ \A k \in Level : k < l - 1 => pc'[k] = "called"
        /\ \A k \in Level : k > l - 1 => pc'[k] = "idle"
    BY <2>3 DEF Nesting, Level
  <2>6. \A k \in Level : Fits(k, pc'[k])
    BY <2>3 DEF Nesting, Fits
  <2>7. QED
    BY <2>1, <2>3, <2>4, <2>5, <2>6 DEF Nesting, Fits, Permanent, Last, Instr
<1>3. QED
  BY <1>1, <1>2

(* Every step moves the innermost call, calls the next level or returns.    *)
LEMMA NestingStep == ASSUME Nesting, [LoopsNext]_loopVars PROVE Nesting'
<1> USE DEF At, Fits, Label, Entering, Searching, Placed
<1>1. ASSUME NEW l \in Level, depth = l,
             FirstReset(l) \/ FirstBackup(l) \/ Collected(l) \/ ReplayRestore(l) \/ InjectRestore(l)
      PROVE  Nesting'
  BY <1>1, GoKeeps DEF FirstReset, FirstBackup, Collected, ReplayRestore, InjectRestore
<1>2. ASSUME NEW l \in Level, Emulate(l) PROVE Nesting'
  BY <1>2 DEF Emulate, control, Nesting, Permanent, Last, Instr
<1>3. ASSUME NEW l \in Level, Claim(l) \/ Replayed(l) \/ Save(l) PROVE Nesting'
  BY <1>3, GoKeeps, ReturnKeeps DEF Claim, Replayed, Save
<1>4. ASSUME NEW l \in Level, SelectInstruction(l) \/ SelectRegister(l) \/ Iterate(l) PROVE Nesting'
  BY <1>4, GoKeeps DEF SelectInstruction, SelectRegister, Iterate
<1>5. ASSUME NEW l \in Level, InjectInstruction(l) PROVE Nesting'
  BY <1>5, GoKeeps, CallKeeps DEF InjectInstruction
<1>6. ASSUME NEW l \in Level, InjectRegister(l) \/ IneffectiveRegister(l) PROVE Nesting'
  BY <1>6, GoKeeps, CallKeeps DEF InjectRegister, IneffectiveRegister
<1>7. ASSUME NEW l \in Level, Stepped(l) \/ Rested(l) \/ Revert(l) PROVE Nesting'
  BY <1>7, GoKeeps DEF Stepped, Rested, Revert
<1>8. ASSUME NEW l \in Level, AgainRestore(l) \/ AgainInstruction(l) PROVE Nesting'
  BY <1>8, GoKeeps DEF AgainRestore, AgainInstruction, Nesting
<1>9. ASSUME NEW l \in Level, AgainRegister(l) \/ AgainStepped(l) PROVE Nesting'
  BY <1>9, GoKeeps, CallKeeps DEF AgainRegister, AgainStepped, Nesting
<1>10. CASE UNCHANGED loopVars
  BY <1>10 DEF loopVars, control, Nesting, Permanent, Last, Instr
<1>11. QED
  BY <1>1, <1>2, <1>3, <1>4, <1>5, <1>6, <1>7, <1>8, <1>9, <1>10
  DEF LoopsNext, Done, FirstReset, FirstBackup, Collected, ReplayRestore, InjectRestore

(* What a level puts back into the flash is an instruction: it has chosen   *)
(* an address whenever it does.                                             *)
LEMMA LocalsStep == ASSUME ControlInv, FaultChosen, LoopsNext PROVE LocalsType'
<1> USE DEF ControlInv, LocalsType, At
<1>1. ASSUME NEW l \in Level,
             UNCHANGED Locals
      PROVE  LocalsType'
  BY <1>1 DEF Locals
<1>2. ASSUME NEW l \in Level, Return(l) PROVE LocalsType'
  BY <1>2 DEF Return
<1>3. ASSUME NEW l \in Level, SelectInstruction(l) PROVE LocalsType'
  BY <1>3 DEF SelectInstruction, Locals
<1>4. ASSUME NEW l \in Level, InjectInstruction(l) \/ InjectRegister(l) \/ AgainInstruction(l) PROVE LocalsType'
  BY <1>4 DEF InjectInstruction, InjectRegister, AgainInstruction, WriteFault
<1>5. ASSUME NEW l \in Level, Stepped(l) \/ AgainStepped(l) \/ Revert(l) PROVE LocalsType'
  BY <1>5 DEF Stepped, AgainStepped, Revert, Unwrite, FaultChosen, Placed, Nesting, Fits
<1>6. QED
  BY <1>1, <1>2, <1>3, <1>4, <1>5
  DEF LoopsNext, Done, loopVars, control, Locals, FirstReset, FirstBackup,
         Emulate, Collected, Claim, ReplayRestore, Replayed, Save,
         SelectRegister, Iterate, InjectRestore, 
         IneffectiveRegister, Rested, AgainRestore, 
         AgainRegister

-----------------------------------------------------------------------------
(* Where each call is after a step. *)
LEMMA GoLabels ==
  ASSUME Nesting, NEW l \in Level, depth = l, NEW label, Go(l, label)
  PROVE  depth' = depth /\ \A m \in Level : pc'[m] = IF m = l THEN label ELSE pc[m]
  BY DEF Nesting, Go

LEMMA CallLabels ==
  ASSUME Nesting, NEW l \in Level, depth = l, Call(l)
  PROVE  /\ depth' = l + 1
         /\ \A m \in Level : pc'[m] = IF m = l THEN "called" ELSE IF m = l + 1 THEN "reset" ELSE pc[m]
  BY LevelsAssumption DEF Nesting, Call, Level

LEMMA ReturnLabels ==
  ASSUME Nesting, NEW l \in Level, depth = l, Return(l)
  PROVE  /\ depth' = IF l = 0 THEN 0 ELSE l - 1
         /\ \A m \in Level : pc'[m] = IF m = l THEN (IF l = 0 THEN "done" ELSE "idle")
                                     ELSE IF m = l - 1 THEN "revert" ELSE pc[m]
<1>1. CASE l = 0
  BY <1>1, LevelsAssumption DEF Nesting, Return, Level
<1>2. CASE l # 0
  <2>1. l - 1 \in Level
    BY <1>2, LevelsAssumption DEF Level
  <2>2. QED
    BY <1>2, <2>1, LevelsAssumption DEF Nesting, Return, Level
<1>3. QED
  BY <1>1, <1>2

(* The address a level chooses holds the original instruction: a fault in   *)
(* force there is a permanent one of an outer level, which the level skips. *)
LEMMA ChosenIsOriginal ==
  ASSUME ControlInv, FlashHoldsFaultsInForce, NEW l \in Level, At(l, "select"),
         NEW a \in Code \ Processed(l)
  PROVE  flash[a] = Original
<1>1. SUFFICES ASSUME NEW m \in Level, flash[a] = m PROVE FALSE
  BY DEF ControlInv, LocalsType
<1>2. m <= l /\ Instr(m) /\ InForce(m) /\ fault[m] = a
  BY <1>1 DEF FlashHoldsFaultsInForce, At
<1>3. m # l
  BY <1>2 DEF InForce, At
<1>4. m < l /\ Permanent(m)
  BY <1>2, <1>3 DEF InForce, At, Level
<1>5. QED
  BY <1>2, <1>4 DEF Processed, Level

(* A level keeps its address and the instruction it found there until it    *)
(* chooses the next.                                                        *)
LEMMA ChosenKeeps ==
  ASSUME FaultChosen, kind' = kind, UNCHANGED <<fault, original>>,
         \A m \in Level : Instr(m) /\ pc'[m] \in Placed => pc[m] \in Placed
  PROVE  FaultChosen'
  BY DEF FaultChosen, Instr, Permanent

LEMMA ChosenStep ==
  ASSUME ControlInv, FlashInv, LoopsNext
  PROVE  FaultChosen'
<1>0. kind' = kind /\ Nesting /\ FaultChosen
  BY KindStep DEF ControlInv, FlashInv
<1> USE DEF At, Placed
<1>1. ASSUME NEW l \in Level,
             FirstReset(l) \/ FirstBackup(l) \/ Collected(l) \/ ReplayRestore(l) \/ InjectRestore(l)
      PROVE  FaultChosen'
  BY <1>0, <1>1, GoLabels, ChosenKeeps DEF FirstReset, FirstBackup, Collected, ReplayRestore, InjectRestore, Locals
<1>2. ASSUME NEW l \in Level, Emulate(l) PROVE FaultChosen'
  BY <1>0, <1>2, ChosenKeeps DEF Emulate, control
<1>3. ASSUME NEW l \in Level, pc[l] \in Searching, Return(l), depth = l PROVE FaultChosen'
  <2>1. \A m \in Level : m # l => fault'[m] = fault[m] /\ original'[m] = original[m]
    BY <1>3 DEF Return
  <2>2. \A m \in Level : pc'[m] \in Placed => m < l /\ pc[m] \in Placed
    BY <1>0, <1>3, ReturnLabels DEF Nesting, Level
  <2>3. QED
    BY <1>0, <2>1, <2>2 DEF FaultChosen, Instr, Permanent, Level
<1>4. ASSUME NEW l \in Level, Claim(l) \/ Replayed(l) \/ Save(l) PROVE FaultChosen'
  BY <1>0, <1>4, <1>3, GoLabels, ChosenKeeps DEF Claim, Replayed, Save, Locals, Searching
<1>5. ASSUME NEW l \in Level, SelectInstruction(l) PROVE FaultChosen'
  <2>1. PICK a \in Code :
          IF a \in Processed(l)
          THEN Go(l, "claim") /\ UNCHANGED Locals
          ELSE /\ fault' = [fault EXCEPT ![l] = a]
               /\ original' = [original EXCEPT ![l] = flash[a]]
               /\ Go(l, "iterate")
    BY <1>5 DEF SelectInstruction
  <2>2. CASE a \in Processed(l)
    BY <1>0, <1>5, <2>1, <2>2, GoLabels, ChosenKeeps DEF Locals, SelectInstruction
  <2>3. CASE a \notin Processed(l)
    <3>1. flash[a] = Original
      BY <1>5, <2>3, ChosenIsOriginal DEF SelectInstruction, FlashInv
    <3>2. /\ fault'[l] = a /\ original'[l] = Original
          /\ \A m \in Level : m # l => fault'[m] = fault[m] /\ original'[m] = original[m]
      BY <2>1, <2>3, <3>1 DEF ControlInv, LocalsType
    <3>3. \A k \in Level : k < l /\ Instr(k) /\ Permanent(k) => fault[k] # a
      BY <2>3 DEF Processed, Level
    <3>4. \A m \in Level : pc'[m] \in Placed => m = l \/ (m < l /\ pc[m] \in Placed)
      BY <1>0, <1>5, <2>1, <2>3, GoLabels DEF SelectInstruction, Nesting, Level
    <3>5. QED
      BY <1>0, <3>2, <3>3, <3>4 DEF FaultChosen, Instr, Permanent, Level
  <2>4. QED
    BY <2>2, <2>3
<1>6. ASSUME NEW l \in Level, SelectRegister(l) \/ Iterate(l) PROVE FaultChosen'
  BY <1>0, <1>6, GoLabels, ChosenKeeps DEF SelectRegister, Iterate, Locals
<1>7. ASSUME NEW l \in Level, InjectInstruction(l) \/ InjectRegister(l) PROVE FaultChosen'
  BY <1>0, <1>7, GoLabels, CallLabels, ChosenKeeps DEF InjectInstruction, InjectRegister, Level
<1>8. ASSUME NEW l \in Level, IneffectiveRegister(l) \/ Stepped(l) \/ Rested(l) \/ Revert(l)
      PROVE  FaultChosen'
  BY <1>0, <1>8, GoLabels, ChosenKeeps DEF IneffectiveRegister, Stepped, Rested, Revert, Locals
<1>9. ASSUME NEW l \in Level, AgainRestore(l) \/ AgainInstruction(l) PROVE FaultChosen'
  BY <1>0, <1>9, GoLabels, ChosenKeeps DEF AgainRestore, AgainInstruction, Locals
<1>10. ASSUME NEW l \in Level, AgainRegister(l) \/ AgainStepped(l) PROVE FaultChosen'
  BY <1>0, <1>10, GoLabels, CallLabels, ChosenKeeps DEF AgainRegister, AgainStepped, Level, Locals
<1>11. CASE Done
  BY <1>0, <1>11, ChosenKeeps DEF Done, loopVars, control
<1>12. QED
  BY <1>1, <1>2, <1>4, <1>5, <1>6, <1>7, <1>8, <1>9, <1>10, <1>11 DEF LoopsNext

-----------------------------------------------------------------------------
(* The levels whose instruction fault the flash must hold, *)
Holds(m) == m <= depth /\ Instr(m) /\ InForce(m)

(* and what an innermost level at a label adds to them. *)
Forced(l, label) ==
  \/ label \in {"step", "again_step"}
  \/ Permanent(l) /\ label \in {"rest", "revert"}

(* What the moves do to the set of levels that hold a fault. *)
LEMMA GoHolds ==
  ASSUME Nesting, kind' = kind, NEW l \in Level, depth = l, NEW label, Go(l, label)
  PROVE  \A m \in Level : Holds(m)' <=> IF m = l THEN Instr(l) /\ Forced(l, label) ELSE Holds(m)
  BY GoLabels, LevelsAssumption DEF Holds, Forced, InForce, Instr, Permanent, Level

LEMMA CallHolds ==
  ASSUME Nesting, kind' = kind, NEW l \in Level, depth = l, Call(l)
  PROVE  \A m \in Level : Holds(m)' <=> IF m = l THEN Instr(l) /\ Permanent(l) ELSE Holds(m)
  BY CallLabels, LevelsAssumption DEF Holds, InForce, Instr, Permanent, Level, Nesting

LEMMA ReturnHolds ==
  ASSUME Nesting, kind' = kind, NEW l \in Level, depth = l, pc[l] \in Searching, Return(l)
  PROVE  \A m \in Level : /\ Holds(m)' <=> Holds(m)
                          /\ Holds(m) => m # l
<1>1. ~Holds(l) /\ ~Holds(l)'
  BY ReturnLabels, LevelsAssumption DEF Holds, InForce, Searching, Level
<1>2. ASSUME NEW m \in Level, m # l PROVE Holds(m)' <=> Holds(m)
  BY <1>2, ReturnLabels, LevelsAssumption DEF Holds, InForce, Instr, Permanent, Level, Nesting
<1>3. QED
  BY <1>1, <1>2

(* The flash is left alone, and so are the faults in force. *)
LEMMA FlashKeeps ==
  ASSUME FlashHoldsFaultsInForce, flash' = flash,
         \A m \in Level : Holds(m)' <=> Holds(m),
         \A m \in Level : Holds(m) => fault'[m] = fault[m]
  PROVE  FlashHoldsFaultsInForce'
  BY DEF FlashHoldsFaultsInForce, Holds

(* A level writes its fault over an original instruction. *)
LEMMA WriteKeeps ==
  ASSUME ControlInv, FlashInv, NEW l \in Level, depth = l, Instr(l), pc[l] \in Placed, ~Holds(l),
         WriteFault(l), fault' = fault, \A m \in Level : Holds(m)' <=> m = l \/ Holds(m)
  PROVE  FlashHoldsFaultsInForce'
<1>1. fault[l] \in Code /\ \A k \in Level : k < l /\ Instr(k) /\ Permanent(k) => fault[k] # fault[l]
  BY DEF FlashInv, FaultChosen
<1>2. \A m \in Level : Holds(m) => m < l /\ Permanent(m)
  BY DEF Holds, InForce, Level
<1>3. \A m \in Level : Holds(m) => fault[m] # fault[l]
  BY <1>1, <1>2 DEF Holds
<1>4. \A a \in Code : flash'[a] = IF a = fault[l] THEN l ELSE flash[a]
  BY <1>1 DEF WriteFault, ControlInv, LocalsType
<1>5. \A a \in Code : \A m \in Level : flash[a] = m <=> Holds(m) /\ fault[m] = a
  BY DEF FlashInv, FlashHoldsFaultsInForce, Holds
<1>6. \A a \in Code : \A m \in Level : flash'[a] = m <=> Holds(m)' /\ fault[m] = a
  BY <1>1, <1>3, <1>4, <1>5
<1>7. QED
  BY <1>6 DEF FlashHoldsFaultsInForce, Holds

(* A level puts the original instruction back. *)
LEMMA UnwriteKeeps ==
  ASSUME ControlInv, FlashInv, NEW l \in Level, depth = l, Instr(l), pc[l] \in Placed,
         Unwrite(l), fault' = fault, \A m \in Level : Holds(m)' <=> m # l /\ Holds(m)
  PROVE  FlashHoldsFaultsInForce'
<1>1. /\ fault[l] \in Code /\ original[l] = Original
      /\ \A k \in Level : k < l /\ Instr(k) /\ Permanent(k) => fault[k] # fault[l]
  BY DEF FlashInv, FaultChosen
<1>2. \A m \in Level : Holds(m) /\ m # l => m < l /\ Permanent(m)
  BY DEF Holds, InForce, Level
<1>3. \A m \in Level : Holds(m) /\ m # l => fault[m] # fault[l]
  BY <1>1, <1>2 DEF Holds
<1>4. \A a \in Code : flash'[a] = IF a = fault[l] THEN Original ELSE flash[a]
  BY <1>1 DEF Unwrite, ControlInv, LocalsType
<1>5. \A a \in Code : \A m \in Level : flash[a] = m <=> Holds(m) /\ fault[m] = a
  BY DEF FlashInv, FlashHoldsFaultsInForce, Holds
<1>6. \A a \in Code : \A m \in Level : flash'[a] = m <=> Holds(m)' /\ fault[m] = a
  BY <1>1, <1>3, <1>4, <1>5, LevelsAssumption
<1>7. QED
  BY <1>6 DEF FlashHoldsFaultsInForce, Holds

(* The flash holds the faults in force after every step. *)
LEMMA FlashStep ==
  ASSUME ControlInv, FlashInv, LoopsNext
  PROVE  FlashHoldsFaultsInForce'
<1>0. kind' = kind /\ Nesting /\ FlashHoldsFaultsInForce
  BY KindStep DEF ControlInv, FlashInv
<1>a. \A l \in Level : depth = l => (Holds(l) <=> Instr(l) /\ Forced(l, pc[l]))
  BY DEF Holds, InForce, Forced, Level
<1>b. \A l \in Level : Fits(l, pc[l])
  BY <1>0 DEF Nesting
<1> USE DEF At
<1>1. ASSUME NEW l \in Level, depth = l, UNCHANGED <<flash, fault>>,
             NEW label, Go(l, label), Forced(l, label) <=> Forced(l, pc[l])
      PROVE  FlashHoldsFaultsInForce'
  BY <1>0, <1>a, <1>1, GoHolds, FlashKeeps
<1>2. ASSUME NEW l \in Level,
             FirstReset(l) \/ FirstBackup(l) \/ Collected(l) \/ ReplayRestore(l) \/ InjectRestore(l)
      PROVE  FlashHoldsFaultsInForce'
  BY <1>2, <1>1 DEF FirstReset, FirstBackup, Collected, ReplayRestore, InjectRestore, Locals, Forced
<1>3. ASSUME NEW l \in Level, Emulate(l) PROVE FlashHoldsFaultsInForce'
  BY <1>0, <1>3, FlashKeeps DEF Emulate, control, Holds, InForce, Instr, Permanent
<1>4. ASSUME NEW l \in Level, depth = l, pc[l] \in Searching, Return(l)
      PROVE  FlashHoldsFaultsInForce'
  <2>1. flash' = flash /\ \A m \in Level : m # l => fault'[m] = fault[m]
    BY <1>4 DEF Return
  <2>2. QED
    BY <1>0, <1>4, <2>1, ReturnHolds, FlashKeeps
<1>5. ASSUME NEW l \in Level, Claim(l) \/ Replayed(l) \/ Save(l) PROVE FlashHoldsFaultsInForce'
  BY <1>5, <1>1, <1>4 DEF Claim, Replayed, Save, Locals, Searching, Forced
<1>6. ASSUME NEW l \in Level, SelectInstruction(l) PROVE FlashHoldsFaultsInForce'
  <2>1. PICK label \in {"claim", "iterate"} : Go(l, label)
    BY <1>6 DEF SelectInstruction
  <2>2. flash' = flash /\ \A m \in Level : m # l => fault'[m] = fault[m]
    BY <1>6 DEF SelectInstruction, Locals, ControlInv, LocalsType
  <2>3. ~Holds(l) /\ ~Forced(l, label)
    BY <1>a, <1>6, <2>1 DEF SelectInstruction, Forced
  <2>4. \A m \in Level : (Holds(m)' <=> Holds(m)) /\ (Holds(m) => m # l)
    BY <1>0, <1>6, <2>1, <2>3, GoHolds DEF SelectInstruction
  <2>5. QED
    BY <1>0, <2>2, <2>4, FlashKeeps
<1>7. ASSUME NEW l \in Level, SelectRegister(l) \/ Iterate(l) PROVE FlashHoldsFaultsInForce'
  BY <1>7, <1>1 DEF SelectRegister, Iterate, Locals, Forced
<1>8. ASSUME NEW l \in Level, InjectInstruction(l) PROVE FlashHoldsFaultsInForce'
  <2>1. depth = l /\ Instr(l) /\ pc[l] = "inject" /\ ~Holds(l) /\ WriteFault(l) /\ fault' = fault
    BY <1>8, <1>a DEF InjectInstruction, Forced
  <2>2. \A m \in Level : Holds(m)' <=> m = l \/ Holds(m)
    BY <1>0, <1>8, <2>1, GoHolds, CallHolds DEF InjectInstruction, Forced
  <2>3. QED
    BY <2>1, <2>2, WriteKeeps DEF Placed
<1>9. ASSUME NEW l \in Level, InjectRegister(l) \/ IneffectiveRegister(l) \/ AgainRegister(l)
      PROVE  FlashHoldsFaultsInForce'
  <2>1. \A m \in Level : Holds(m)' <=> Holds(m)
    BY <1>0, <1>a, <1>9, GoHolds, CallHolds
    DEF InjectRegister, IneffectiveRegister, AgainRegister, Forced
  <2>2. QED
    BY <1>0, <1>9, <2>1, FlashKeeps DEF InjectRegister, IneffectiveRegister, AgainRegister, Locals
<1>10. ASSUME NEW l \in Level, Stepped(l) \/ AgainStepped(l) PROVE FlashHoldsFaultsInForce'
  <2>1. depth = l /\ Instr(l) /\ ~Permanent(l) /\ pc[l] \in Placed /\ Unwrite(l) /\ fault' = fault
    BY <1>b, <1>10 DEF Stepped, AgainStepped, Fits, Placed
  <2>2. \A m \in Level : Holds(m)' <=> m # l /\ Holds(m)
    BY <1>0, <1>10, <2>1, GoHolds, CallHolds DEF Stepped, AgainStepped, Forced
  <2>3. QED
    BY <2>1, <2>2, UnwriteKeeps
<1>11. ASSUME NEW l \in Level, Rested(l) \/ AgainRestore(l) PROVE FlashHoldsFaultsInForce'
  BY <1>b, <1>11, <1>1 DEF Rested, AgainRestore, Locals, Forced, Fits
<1>12. ASSUME NEW l \in Level, AgainInstruction(l) PROVE FlashHoldsFaultsInForce'
  <2>1. depth = l /\ Instr(l) /\ pc[l] = "again" /\ ~Holds(l) /\ WriteFault(l) /\ fault' = fault
    BY <1>12, <1>a DEF AgainInstruction, Forced
  <2>2. \A m \in Level : Holds(m)' <=> m = l \/ Holds(m)
    BY <1>0, <1>12, <2>1, GoHolds DEF AgainInstruction, Forced
  <2>3. QED
    BY <2>1, <2>2, WriteKeeps DEF Placed
<1>13. ASSUME NEW l \in Level, Revert(l) PROVE FlashHoldsFaultsInForce'
  <2>1. depth = l /\ pc[l] = "revert" /\ fault' = fault /\ Go(l, "iterate")
    BY <1>13 DEF Revert
  <2>2. \A m \in Level : Holds(m)' <=> m # l /\ Holds(m)
    BY <1>0, <2>1, GoHolds DEF Forced
  <2>3. CASE Instr(l)
    BY <1>13, <2>1, <2>2, <2>3, UnwriteKeeps DEF Revert, Placed
  <2>4. CASE ~Instr(l)
    BY <1>0, <1>13, <2>1, <2>2, <2>4, FlashKeeps DEF Revert, Holds
  <2>5. QED
    BY <2>3, <2>4
<1>14. CASE Done
  BY <1>0, <1>14, FlashKeeps DEF Done, loopVars, control, Holds, InForce, Instr, Permanent
<1>15. QED
  BY <1>2, <1>3, <1>5, <1>6, <1>7, <1>8, <1>9, <1>10, <1>11, <1>12, <1>13, <1>14 DEF LoopsNext

-----------------------------------------------------------------------------
(* A hook is set at the place where the fault is injected, stays while the  *)
(* inner levels and the faulted runs need it, and is gone at the next fault. *)
LEMMA HooksStep ==
  ASSUME ControlInv, HooksOfChain, LoopsNext
  PROVE  HooksOfChain'
<1>0. kind' = kind /\ Nesting /\ hooks \subseteq Level
  BY KindStep DEF ControlInv, LocalsType
<1> DEFINE Hooked == {"rest", "again_restore", "again", "called", "revert"}
<1>1. ASSUME NEW l \in Level, depth = l, hooks' \subseteq hooks \union {l},
             l \in hooks' => ~Instr(l) /\ pc'[l] \in Hooked,
             depth' = depth, \A m \in Level : m # l => pc'[m] = pc[m]
      PROVE  HooksOfChain'
  <2>1. l <= depth'
    BY <1>1, LevelsAssumption DEF Level
  <2>2. ASSUME NEW m \in hooks', m # l
        PROVE  ~Instr(m) /\ m <= depth /\ pc[m] \in Hooked /\ pc'[m] = pc[m]
    BY <1>0, <1>1, <2>2 DEF HooksOfChain
  <2>3. \A m \in hooks' : ~Instr(m)' /\ m <= depth' /\ pc'[m] \in Hooked
    BY <1>0, <1>1, <2>1, <2>2 DEF Instr
  <2>4. QED
    BY <2>3 DEF HooksOfChain
<1>2. ASSUME NEW l \in Level, depth = l, hooks' \subseteq hooks, NEW label, Go(l, label),
             pc[l] \in Hooked => label \in Hooked \/ l \notin hooks'
      PROVE  HooksOfChain'
  <2>1. l \in hooks' => ~Instr(l) /\ label \in Hooked
    BY <1>2 DEF HooksOfChain
  <2>2. QED
    BY <1>0, <1>1, <1>2, <2>1, GoLabels
<1>3. ASSUME NEW l \in Level, depth = l, pc[l] \in Searching, Return(l) PROVE HooksOfChain'
  <2>1. hooks' = hooks /\ \A m \in hooks : m < l
    BY <1>0, <1>3 DEF Return, HooksOfChain, Searching, Level
  <2>2. QED
    BY <1>0, <1>3, <2>1, ReturnLabels, LevelsAssumption DEF HooksOfChain, Instr, Level
<1>4. ASSUME NEW l \in Level, depth = l, Call(l), hooks' \subseteq hooks \union {l}, l \in hooks' => ~Instr(l)
      PROVE  HooksOfChain'
  BY <1>0, <1>4, CallLabels, LevelsAssumption DEF HooksOfChain, Instr, Level
<1> HIDE DEF Hooked
<1> USE DEF At
<1>5. ASSUME NEW l \in Level,
             \/ FirstReset(l) \/ FirstBackup(l) \/ Collected(l) \/ ReplayRestore(l)
             \/ SelectInstruction(l) \/ SelectRegister(l) \/ Iterate(l) \/ InjectRestore(l)
             \/ IneffectiveRegister(l) \/ Stepped(l) \/ Rested(l) \/ AgainRestore(l)
      PROVE  HooksOfChain'
  BY <1>2, <1>5
  DEF FirstReset, FirstBackup, Collected, ReplayRestore, SelectInstruction, SelectRegister,
      Iterate, InjectRestore, IneffectiveRegister, Stepped, Rested, AgainRestore, Locals, Hooked
<1>6. ASSUME NEW l \in Level, Emulate(l) PROVE HooksOfChain'
  BY <1>0, <1>6 DEF Emulate, control, HooksOfChain, Instr
<1>7. ASSUME NEW l \in Level, Claim(l) \/ Replayed(l) \/ Save(l) PROVE HooksOfChain'
  BY <1>2, <1>3, <1>7 DEF Claim, Replayed, Save, Locals, Searching, Hooked
<1>8. ASSUME NEW l \in Level, InjectInstruction(l) PROVE HooksOfChain'
  <2>1. l \notin hooks
    BY <1>8 DEF InjectInstruction, HooksOfChain
  <2>2. QED
    BY <1>2, <1>4, <1>8, <2>1 DEF InjectInstruction, Hooked
<1>9. ASSUME NEW l \in Level, InjectRegister(l) PROVE HooksOfChain'
  <2>1. CASE Call(l)
    BY <1>4, <1>9, <2>1 DEF InjectRegister
  <2>2. CASE Go(l, "rest")
    <3>1. depth' = depth /\ pc'[l] = "rest" /\ \A m \in Level : m # l => pc'[m] = pc[m]
      BY <1>0, <1>9, <2>2, GoLabels DEF InjectRegister
    <3>2. QED
      BY <1>0, <1>1, <1>9, <3>1 DEF InjectRegister, Hooked
  <2>3. QED
    BY <1>9, <2>1, <2>2 DEF InjectRegister
<1>10. ASSUME NEW l \in Level, AgainInstruction(l) \/ AgainStepped(l) PROVE HooksOfChain'
  <2>1. Instr(l) /\ l \notin hooks /\ depth = l /\ hooks' = hooks
    BY <1>0, <1>10 DEF AgainInstruction, AgainStepped, HooksOfChain, Nesting, Fits
  <2>2. ASSUME NEW label, Go(l, label) PROVE HooksOfChain'
    BY <1>0, <1>1, <2>1, <2>2, GoLabels
  <2>3. QED
    BY <1>4, <1>10, <2>1, <2>2 DEF AgainInstruction, AgainStepped
<1>11. ASSUME NEW l \in Level, AgainRegister(l) PROVE HooksOfChain'
  BY <1>4, <1>11 DEF AgainRegister, Locals
<1>12. ASSUME NEW l \in Level, Revert(l) PROVE HooksOfChain'
  BY <1>0, <1>2, <1>12 DEF Revert, Hooked
<1>13. CASE Done
  BY <1>0, <1>13 DEF Done, loopVars, control, HooksOfChain, Instr
<1>14. QED
  BY <1>5, <1>6, <1>7, <1>8, <1>9, <1>10, <1>11, <1>12, <1>13 DEF LoopsNext

-----------------------------------------------------------------------------
(* Which snapshots are in use after a step. *)
LEMMA GoSaving ==
  ASSUME Nesting, NEW l \in Level, depth = l, NEW label, Go(l, label)
  PROVE  /\ Saving \subseteq Level /\ \A m \in Saving : m <= l
         /\ Saving' \subseteq Saving \union {l}
         /\ label \notin Searching \union Placed => l \notin Saving'
         /\ pc'[depth'] = label
  BY GoLabels, LevelsAssumption DEF Saving, Level

LEMMA CallSaving ==
  ASSUME Nesting, NEW l \in Level, depth = l, pc[l] \in Placed, ~Last(l), Call(l)
  PROVE  Saving' \subseteq Saving /\ pc'[depth'] = "reset"
<1>1. l + 1 \in Level
  BY LevelsAssumption DEF Level, Last
<1>2. \A m \in Saving' : m \in Level
  BY <1>1, CallLabels, LevelsAssumption DEF Saving, Level
<1>3. QED
  BY <1>1, <1>2, CallLabels, LevelsAssumption DEF Saving, Level, Searching, Placed

LEMMA ReturnSaving ==
  ASSUME Nesting, NEW l \in Level, depth = l, Return(l)
  PROVE  Saving' \subseteq Saving /\ pc'[depth'] # "first_backup"
<1>1. depth' \in Level
  BY ReturnLabels, LevelsAssumption DEF Level
<1>2. pc'[depth'] \in {"revert", "done"}
  BY <1>1, ReturnLabels, LevelsAssumption DEF Level
<1>3. ASSUME NEW m \in Saving' PROVE m \in Saving
  <2>1. m \in Level /\ m <= depth' /\ pc'[m] \in Searching \union Placed
    BY <1>1, LevelsAssumption DEF Saving, Level
  <2>2. m < l
    BY <2>1, ReturnLabels, LevelsAssumption DEF Level, Searching, Placed
  <2>3. pc[m] = "called"
    BY <2>1, <2>2 DEF Nesting
  <2>4. QED
    BY <2>1, <2>2, <2>3, LevelsAssumption DEF Saving, Level, Placed
<1>4. QED
  BY <1>2, <1>3

(* Steps that leave the bookkeeping of the snapshots alone. *)
LEMMA SavedKeeps ==
  ASSUME SavedInv, Saving' \subseteq Saving, UNCHANGED <<valid, newer, initialized>>,
         pc'[depth'] # "first_backup"
  PROVE  SavedInv'
  BY DEF SavedInv

(* The snapshot of the level is usable whenever the level uses it, *)
LEMMA LevelUsable ==
  ASSUME Nesting, SavedInv, NEW l \in Level, depth = l, pc[l] # "reset"
  PROVE  /\ pc[l] \in Searching \union Placed => l \in Saving /\ l \in valid
         /\ pc[l] \in Searching \union Placed \union {"first_backup"} => Usable(l)
  BY LevelsAssumption DEF SavedInv, Saving, Level, Usable

(* so that every step of the loops is one the snapshots allow, or none.     *)
LEMMA ContractStep ==
  ASSUME Nesting, SavedInv, [LoopsNext]_loopVars
  PROVE  [Next]_vars
<1> USE LevelsAssumption DEF At
<1>1. ASSUME NEW l \in Level, FirstReset(l) PROVE Next
  BY <1>1 DEF FirstReset, Next
<1>2. ASSUME NEW l \in Level, Backup(l), depth = l, pc[l] \in {"first_backup", "save"} PROVE Next
  <2>1. Usable(l)
    BY <1>2, LevelUsable DEF Searching
  <2>2. QED
    BY <1>2, <2>1 DEF Next
<1>3. ASSUME NEW l \in Level, Restore(l), depth = l, pc[l] \in Searching \union Placed PROVE Next
  <2>1. Usable(l)
    BY <1>3, LevelUsable DEF Searching, Placed
  <2>2. QED
    BY <1>3, <2>1 DEF Next
<1>4. ASSUME Execute PROVE Next
  BY <1>4 DEF Next
<1>5. ASSUME NEW l \in Level, FirstBackup(l) \/ Save(l) PROVE [Next]_vars
  BY <1>2, <1>5 DEF FirstBackup, Save, saved
<1>6. ASSUME NEW l \in Level,
             ReplayRestore(l) \/ SelectRegister(l) \/ InjectRestore(l) \/ AgainRestore(l)
      PROVE  [Next]_vars
  BY <1>3, <1>6 DEF ReplayRestore, SelectRegister, InjectRestore, AgainRestore, saved,
                    Searching, Placed
<1>7. ASSUME NEW l \in Level, Emulate(l) \/ InjectRegister(l) \/ AgainRegister(l) PROVE Next
  BY <1>4, <1>7 DEF Emulate, InjectRegister, AgainRegister, Execute
<1>8. QED
  BY <1>1, <1>5, <1>6, <1>7
  DEF LoopsNext, loopVars, saved, Done, Collected, Claim, Replayed, SelectInstruction, Iterate,
      InjectInstruction, IneffectiveRegister, Stepped, Rested, AgainInstruction, AgainStepped,
      Revert

(* A backup makes the snapshot newer than those of the outer levels only; a *)
(* restore invalidates newer ones, hence none of a level still in use.      *)
LEMMA SavedStep ==
  ASSUME TypeOK, Nesting, SavedInv, LoopsNext
  PROVE  SavedInv'
<1> USE DEF At
<1>a. \A l \in Level : Fits(l, pc[l])
  BY DEF Nesting
<1>1. ASSUME NEW l \in Level, FirstReset(l) PROVE SavedInv'
  <2>1. l \notin Saving /\ Saving' \subseteq Saving /\ pc'[depth'] = "first_backup" /\ depth' = l
    BY <1>1, GoSaving, GoLabels DEF FirstReset, Saving, Searching, Placed
  <2>2. valid' = valid \ {l} /\ newer' = newer /\ ~initialized'[l]
    BY <1>1, LevelsAssumption DEF FirstReset, Reset, TypeOK
  <2>3. QED
    BY <2>1, <2>2 DEF SavedInv
<1>2. ASSUME NEW l \in Level, depth = l, Backup(l), NEW label, label # "first_backup", Go(l, label)
      PROVE  SavedInv'
  <2>1. /\ Saving \subseteq Level /\ \A m \in Saving : m <= l
        /\ Saving' \subseteq Saving \union {l} /\ pc'[depth'] # "first_backup"
    BY <1>2, GoSaving
  <2>2. /\ valid' = valid \union {l} /\ newer'[l] = {}
        /\ \A m \in Level : m # l => newer'[m] = newer[m] \union {l}
    BY <1>2, LevelsAssumption DEF Backup, TypeOK
  <2>3. \A m \in Saving' : \A n \in newer'[m] : n > m
    BY <2>1, <2>2, LevelsAssumption DEF SavedInv, Level
  <2>4. QED
    BY <2>1, <2>2, <2>3 DEF SavedInv
<1>3. ASSUME NEW l \in Level, depth = l, pc[l] \in Searching \union Placed, Restore(l),
             NEW label, label # "first_backup", Go(l, label)
      PROVE  SavedInv'
  <2>1. /\ Saving \subseteq Level /\ \A m \in Saving : m <= l
        /\ Saving' \subseteq Saving /\ l \in Saving /\ pc'[depth'] # "first_backup"
    BY <1>3, GoSaving, LevelUsable DEF Searching, Placed
  <2>2. /\ valid' = valid \ newer[l] /\ newer'[l] = {}
        /\ \A m \in Level : m # l => newer'[m] = newer[m]
    BY <1>3, LevelsAssumption DEF Restore, TypeOK
  <2>3. \A m \in Saving : m \notin newer[l]
    BY <1>3, <2>1, LevelsAssumption DEF SavedInv, Level
  <2>4. QED
    BY <2>1, <2>2, <2>3 DEF SavedInv
<1>4. ASSUME NEW l \in Level, FirstBackup(l) \/ Save(l) PROVE SavedInv'
  BY <1>2, <1>4, ReturnSaving, SavedKeeps DEF FirstBackup, Save, saved, vars, snapshot
<1>5. ASSUME NEW l \in Level, depth = l, pc[l] \in Searching \union Placed,
             NEW label, label # "first_backup", Go(l, label), UNCHANGED <<valid, newer, initialized>>
      PROVE  SavedInv'
  <2>1. Saving' \subseteq Saving /\ pc'[depth'] # "first_backup"
    BY <1>5, GoSaving, LevelUsable DEF Searching, Placed
  <2>2. QED
    BY <1>5, <2>1, SavedKeeps
<1>6. ASSUME NEW l \in Level,
             ReplayRestore(l) \/ SelectRegister(l) \/ InjectRestore(l) \/ AgainRestore(l)
      PROVE  SavedInv'
  BY <1>3, <1>5, <1>6
  DEF ReplayRestore, SelectRegister, InjectRestore, AgainRestore, saved, vars, snapshot,
      Searching, Placed
<1>7. ASSUME NEW l \in Level,
             \/ Collected(l) \/ Claim(l) \/ Replayed(l) \/ SelectInstruction(l) \/ Iterate(l)
             \/ IneffectiveRegister(l) \/ Stepped(l) \/ Rested(l) \/ AgainInstruction(l) \/ Revert(l)
      PROVE  SavedInv'
  <2>1. depth = l /\ pc[l] \in Searching \union Placed /\ UNCHANGED <<valid, newer, initialized>>
    BY <1>7 DEF Collected, Claim, Replayed, SelectInstruction, Iterate, IneffectiveRegister,
       Stepped, Rested, AgainInstruction, Revert, saved, vars, snapshot, Searching, Placed
  <2>2. Return(l) \/ \E label \in Label \ {"first_backup"} : Go(l, label)
    BY <1>7 DEF Collected, Claim, Replayed, SelectInstruction, Iterate, IneffectiveRegister,
       Stepped, Rested, AgainInstruction, Revert, Label, Searching, Placed
  <2>3. QED
    BY <1>5, <2>1, <2>2, ReturnSaving, SavedKeeps
<1>8. ASSUME NEW l \in Level, InjectInstruction(l) \/ InjectRegister(l) \/ AgainRegister(l) \/ AgainStepped(l)
      PROVE  SavedInv'
  <2>1. depth = l /\ pc[l] \in Placed /\ UNCHANGED <<valid, newer, initialized>>
    BY <1>8 DEF InjectInstruction, InjectRegister, AgainRegister, AgainStepped, saved, vars, snapshot,
                Compute, Placed
  <2>2. (~Last(l) /\ Call(l)) \/ \E label \in Label \ {"first_backup"} : Go(l, label)
    BY <1>8, <1>a DEF InjectInstruction, InjectRegister, AgainRegister, AgainStepped, Label, Placed, Fits
  <2>3. QED
    BY <1>5, <2>1, <2>2, CallSaving, SavedKeeps
<1>9. ASSUME NEW l \in Level, Emulate(l) PROVE SavedInv'
  <2>1. UNCHANGED <<valid, newer, initialized>>
    BY <1>9 DEF Emulate, Execute, Store, Compute, snapshot
  <2>2. QED
    BY <1>9, <2>1, SavedKeeps DEF Emulate, control, Saving, Running
<1>10. CASE Done
  BY <1>10 DEF Done, loopVars, saved, vars, snapshot, control, SavedInv, Saving
<1>11. QED
  BY <1>1, <1>4, <1>6, <1>7, <1>8, <1>9, <1>10 DEF LoopsNext

-----------------------------------------------------------------------------
LEMMA LoopsInitially == LoopsInit => Init /\ ControlInv /\ FlashInv /\ HooksOfChain /\ SavedInv
<1> SUFFICES ASSUME LoopsInit
             PROVE  Init /\ ControlInv /\ FlashInv /\ HooksOfChain /\ SavedInv
  OBVIOUS
<1> USE LevelsAssumption DEF LoopsInit
<1>1. depth = 0 /\ 0 \in Level /\ \A l \in Level : pc[l] = IF l = 0 THEN "reset" ELSE "idle"
  BY DEF Level
<1>2. KindInv /\ LocalsType
  BY DEF KindInv, LocalsType
<1>3. Nesting
  BY <1>1 DEF Nesting, Fits, Label, Entering, Level
<1>4. FlashHoldsFaultsInForce
  BY <1>1 DEF FlashHoldsFaultsInForce, InForce, Level
<1>5. FaultChosen
  BY <1>1 DEF FaultChosen, Placed
<1>6. HooksOfChain
  BY DEF HooksOfChain
<1>7. SavedInv
  BY <1>1 DEF SavedInv, Saving, Searching, Placed
<1>8. QED
  BY <1>2, <1>3, <1>4, <1>5, <1>6, <1>7 DEF ControlInv, FlashInv

LEMMA LoopStep ==
  ASSUME IInv, ControlInv, FlashInv, HooksOfChain, SavedInv, [LoopsNext]_loopVars
  PROVE  IInv' /\ ControlInv' /\ FlashInv' /\ HooksOfChain' /\ SavedInv'
<1>1. IInv'
  BY ContractStep, TypeStep, CoverStep DEF ControlInv, IInv
<1>2. CASE LoopsNext
  <2>1. ControlInv'
    BY <1>2, KindStep, NestingStep, LocalsStep DEF ControlInv, FlashInv
  <2>2. FlashInv'
    BY <1>2, FlashStep, ChosenStep DEF FlashInv
  <2>3. HooksOfChain' /\ SavedInv'
    BY <1>2, HooksStep, SavedStep DEF ControlInv, IInv
  <2>4. QED
    BY <1>1, <2>1, <2>2, <2>3
<1>3. CASE UNCHANGED loopVars
  BY <1>1, <1>3
  DEF loopVars, saved, vars, snapshot, control, ControlInv, KindInv, Nesting, LocalsType, Fits,
      Permanent, Instr, Last, FlashInv, FlashHoldsFaultsInForce, InForce, FaultChosen,
      HooksOfChain, SavedInv, Saving
<1>4. QED
  BY <1>2, <1>3

LoopInv == IInv /\ ControlInv /\ FlashInv /\ HooksOfChain /\ SavedInv

(* The inductive invariant of the loops and of their snapshots together.    *)
LEMMA LoopInvariance == LoopsSpec => []LoopInv
<1>1. LoopsInit => LoopInv
  BY LoopsInitially, TypeInit, CoverInit DEF LoopInv, IInv
<1>2. LoopInv /\ [LoopsNext]_loopVars => LoopInv'
  BY LoopStep DEF LoopInv
<1>3. QED
  BY <1>1, <1>2, PTL DEF LoopsSpec

(* The loops use the snapshots of all levels as the snapshots demand: each  *)
(* step is a step of Snapshot's specification, or does not touch it.        *)
THEOREM SnapshotContract == LoopsSpec => ObeysSnapshotContract
<1>1. LoopInv /\ [LoopsNext]_loopVars => [Next]_vars
  BY ContractStep DEF LoopInv, ControlInv
<1>2. LoopsInit => Init
  BY LoopsInitially
<1>3. QED
  BY <1>1, <1>2, LoopInvariance, PTL DEF LoopsSpec, ObeysSnapshotContract, Spec

(* The flash differs from the original program in exactly the faults of the *)
(* chain under test, whatever path the calls took.                          *)
THEOREM FlashRepaired == LoopsSpec => []FlashHoldsFaultsInForce
<1>1. LoopInv => FlashHoldsFaultsInForce
  BY DEF LoopInv, FlashInv
<1>2. QED
  BY <1>1, LoopInvariance, PTL

(* No hook of a register fault outlives the chain it belongs to.            *)
THEOREM HooksRemoved == LoopsSpec => []HooksOfChain
<1>1. LoopInv => HooksOfChain
  BY DEF LoopInv
<1>2. QED
  BY <1>1, LoopInvariance, PTL

-----------------------------------------------------------------------------
(* A label reached by a restore is left by the next step: the state is the  *)
(* saved one whenever a fault is about to be injected.                      *)
LEMMA InjectStep ==
  ASSUME LoopInv, InjectedIntoSavedState, [LoopsNext]_loopVars
  PROVE  InjectedIntoSavedState'
<1>0. Nesting /\ SavedInv /\ IInv
  BY DEF LoopInv, ControlInv
<1> USE DEF At
<1>1. ASSUME NEW l \in Level, depth = l, pc[l] \in Searching \union Placed, Restore(l),
             NEW label, Go(l, label)
      PROVE  InjectedIntoSavedState'
  <2>1. l \in valid /\ l \notin newer[l] /\ l \in Saving
    BY <1>0, <1>1, LevelUsable, LevelsAssumption DEF SavedInv, Level, Searching, Placed
  <2>2. ram' = data[l] /\ cpu' = state[l]
    BY <1>0, <1>1, <2>1, RestoreCopiesAll DEF Restore
  <2>3. l \in valid' /\ data' = data /\ state' = state /\ depth' = l
    BY <1>0, <1>1, <2>1, GoLabels DEF Restore
  <2>4. QED
    BY <2>2, <2>3 DEF InjectedIntoSavedState
<1>2. ASSUME NEW l \in Level, depth = l, NEW label, label \notin {"inject", "again"}, Go(l, label)
      PROVE  InjectedIntoSavedState'
  BY <1>0, <1>2, GoLabels DEF InjectedIntoSavedState
<1>3. ASSUME NEW l \in Level, depth = l, Return(l) PROVE InjectedIntoSavedState'
  <2>1. pc'[depth'] \in {"revert", "done"}
    BY <1>0, <1>3, ReturnLabels, LevelsAssumption DEF Level
  <2>2. QED
    BY <2>1 DEF InjectedIntoSavedState
<1>4. ASSUME NEW l \in Level, depth = l, ~Last(l), Call(l) PROVE InjectedIntoSavedState'
  <2>1. pc'[depth'] = "reset"
    BY <1>0, <1>4, CallLabels, LevelsAssumption DEF Level, Last
  <2>2. QED
    BY <2>1 DEF InjectedIntoSavedState
<1>5. ASSUME NEW l \in Level, InjectRestore(l) \/ AgainRestore(l) PROVE InjectedIntoSavedState'
  BY <1>1, <1>5 DEF InjectRestore, AgainRestore, Placed
<1>6. ASSUME NEW l \in Level, Emulate(l) PROVE InjectedIntoSavedState'
  BY <1>6 DEF Emulate, control, Running, InjectedIntoSavedState
<1>7. ASSUME NEW l \in Level,
             \/ FirstReset(l) \/ FirstBackup(l) \/ Collected(l) \/ Claim(l) \/ ReplayRestore(l)
             \/ Replayed(l) \/ Save(l) \/ SelectInstruction(l) \/ SelectRegister(l) \/ Iterate(l)
             \/ IneffectiveRegister(l) \/ Stepped(l) \/ Rested(l) \/ AgainInstruction(l)
             \/ Revert(l)
      PROVE  InjectedIntoSavedState'
  <2>1. depth = l
    BY <1>7
    DEF FirstReset, FirstBackup, Collected, Claim, ReplayRestore, Replayed, Save,
        SelectInstruction, SelectRegister, Iterate, IneffectiveRegister, Stepped, Rested,
        AgainInstruction, Revert
  <2>2. Return(l) \/ (\E label \in Label \ {"inject", "again"} : Go(l, label))
                  \/ Go(l, "inject_restore")
    BY <1>7
    DEF FirstReset, FirstBackup, Collected, Claim, ReplayRestore, Replayed, Save,
        SelectInstruction, SelectRegister, Iterate, IneffectiveRegister, Stepped, Rested,
        AgainInstruction, Revert, Label, Entering, Searching, Placed
  <2>3. QED
    BY <1>2, <1>3, <2>1, <2>2
<1>8. ASSUME NEW l \in Level,
             InjectInstruction(l) \/ InjectRegister(l) \/ AgainRegister(l) \/ AgainStepped(l)
      PROVE  InjectedIntoSavedState'
  <2>1. depth = l /\ Fits(l, pc[l])
    BY <1>0, <1>8 DEF InjectInstruction, InjectRegister, AgainRegister, AgainStepped, Nesting
  <2>2. (~Last(l) /\ Call(l)) \/ \E label \in Label \ {"inject", "again"} : Go(l, label)
    BY <1>8, <2>1
    DEF InjectInstruction, InjectRegister, AgainRegister, AgainStepped, Label, Placed, Fits
  <2>3. QED
    BY <1>2, <1>4, <2>1, <2>2
<1>9. CASE UNCHANGED loopVars
  BY <1>9 DEF loopVars, saved, vars, machine, snapshot, control, InjectedIntoSavedState
<1>10. QED
  BY <1>5, <1>6, <1>7, <1>8, <1>9 DEF LoopsNext, Done

(* All the faults of one index, at every level of the recursion, are        *)
(* injected into byte for byte the state the level saved for that index.    *)
THEOREM SameStateForAllFaults == LoopsSpec => []InjectedIntoSavedState
<1>1. LoopsInit => InjectedIntoSavedState
  BY LevelsAssumption DEF LoopsInit, InjectedIntoSavedState, Level
<1>2. LoopInv /\ InjectedIntoSavedState /\ [LoopsNext]_loopVars => InjectedIntoSavedState'
  BY InjectStep
<1>3. QED
  BY <1>1, <1>2, LoopInvariance, PTL DEF LoopsSpec

(* Used from the loops, the incremental snapshots are full copies.          *)
THEOREM FullCopies == LoopsSpec => RestoreIsExact /\ ImplementsPerfect
  BY SnapshotContract, RestoreExact, Refinement, PTL DEF ObeysSnapshotContract
=============================================================================
