------------------------------ MODULE Snapshot ------------------------------
(***************************************************************************)
(* The incremental snapshots of ARMORY (armory/src/snapshot.cpp).          *)
(*                                                                         *)
(* Several Snapshot objects watch the RAM of one emulator.  Each owns a    *)
(* full-size buffer m_ram_data, filled once, and the hulls of the writes   *)
(* seen since its last backup() or restore(): one for addresses below the  *)
(* stack boundary SP - 80, one for those above.  Later backups and         *)
(* restores copy only these two hulls.  The hook on_memory_write runs for  *)
(* stores of the emulated program only: Emulator::write_memory, which      *)
(* restore() uses, fires no hook, so a restore through one snapshot is     *)
(* invisible to all the others.                                            *)
(*                                                                         *)
(* A CPU_State is copied as a whole; only its stack pointer is looked at.  *)
(* valid and newer are auxiliary: no guard of the code reads them.         *)
(***************************************************************************)
EXTENDS Integers, FiniteSets

CONSTANTS Snap,        \* the Snapshot objects attached to one emulator
          RamOffset,   \* m_ram_offset
          RamSize,     \* m_ram_size
          Value,       \* the values of a RAM byte
          Garbage,     \* content of a buffer that was allocated but not filled
          AccessSize,  \* sizes of the stores of the program, in bytes
          CPU,         \* the values of CPU_State
          SP,          \* CPU_State -> its stack pointer
          StackSlack,  \* 20 * 4, subtracted from SP for the boundary
          WordSize     \* 2^32, the number of addresses

ASSUME ConstantAssumption ==
  /\ RamOffset \in Nat /\ RamSize \in Nat \ {0}
  /\ WordSize \in Nat /\ RamOffset + RamSize < WordSize
  /\ AccessSize \subseteq Nat \ {0}
  /\ SP \in [CPU -> 0 .. WordSize - 1]
  /\ StackSlack \in Nat
  /\ Value # {} /\ CPU # {} /\ Garbage \notin Value

Ram == RamOffset .. RamOffset + RamSize - 1

VARIABLES ram,          \* Emulator::m_ram
          cpu,          \* Emulator::m_cpu_state
          state,        \* m_state
          data,         \* m_ram_data
          initialized,  \* m_initialized
          low,          \* m_low_change_start, m_low_change_end
          high,         \* m_high_change_start, m_high_change_end
          valid,        \* auxiliary: the snapshots that may be restored
          newer         \* auxiliary: those backed up after a snapshot's backup

machine  == <<ram, cpu>>
snapshot == <<state, data, initialized, low, high>>
vars     == <<machine, snapshot, valid, newer>>

Empty == [start |-> 0, end |-> 0]
Bytes(r) == r.start .. r.end - 1
Hull == [start : 0 .. RamOffset + RamSize, end : 0 .. RamOffset + RamSize]

TypeOK ==
  /\ ram \in [Ram -> Value]
  /\ cpu \in CPU
  /\ state \in [Snap -> CPU]
  /\ data \in [Snap -> [Ram -> Value \union {Garbage}]]
  /\ initialized \in [Snap -> BOOLEAN]
  /\ low \in [Snap -> Hull]
  /\ high \in [Snap -> Hull]
  /\ valid \subseteq Snap
  /\ newer \in [Snap -> SUBSET Snap]

-----------------------------------------------------------------------------
(* Snapshot::Snapshot, for every fault model before the simulation starts.  *)
Init ==
  /\ ram \in [Ram -> Value]
  /\ cpu \in CPU
  /\ state = [s \in Snap |-> cpu]
  /\ data = [s \in Snap |-> [a \in Ram |-> Garbage]]
  /\ initialized = [s \in Snap |-> FALSE]
  /\ low = [s \in Snap |-> Empty]
  /\ high = [s \in Snap |-> Empty]
  /\ valid = {}
  /\ newer = [s \in Snap |-> {}]

(* Mutant: the new end is one address too far. *)
ExtendTooFar(r, address, size) ==
  IF r.start = r.end
  THEN [start |-> address, end |-> address + size]
  ELSE [start |-> IF address < r.start THEN address ELSE r.start,
        end   |-> IF address + size > r.end THEN address + size + 1 ELSE r.end]

(* Mutant: the end is compared with the address, not the end of the write. *)
ExtendByAddress(r, address, size) ==
  IF r.start = r.end
  THEN [start |-> address, end |-> address + size]
  ELSE [start |-> IF address < r.start THEN address ELSE r.start,
        end   |-> IF address > r.end THEN address + size ELSE r.end]

(* Extend a hull by a write of size bytes at address. *)
Extend(r, address, size) ==
  IF r.start = r.end
  THEN [start |-> address, end |-> address + size]
  ELSE [start |-> IF address < r.start THEN address ELSE r.start,
        end   |-> IF address + size > r.end THEN address + size ELSE r.end]

(* The unsigned subtraction wraps: with a small SP every address is below.  *)
SpBoundary == (SP[cpu] - StackSlack) % WordSize

OnMemoryWrite(address, size) ==
  IF address < SpBoundary
  THEN /\ low' = [s \in Snap |-> Extend(low[s], address, size)]
       /\ high' = high
  ELSE /\ high' = [s \in Snap |-> Extend(high[s], address, size)]
       /\ low' = low

(* A store of the program, followed by the hooks of all the snapshots.      *)
Store(address, size, bytes) ==
  /\ address + size <= RamOffset + RamSize
  /\ ram' = [a \in Ram |-> IF a \in address .. address + size - 1
                           THEN bytes[a - address] ELSE ram[a]]
  /\ OnMemoryWrite(address, size)
  /\ UNCHANGED <<cpu, state, data, initialized, valid, newer>>

(* An instruction without a store. *)
Compute(c) ==
  /\ cpu' = c
  /\ UNCHANGED <<ram, snapshot, valid, newer>>

Execute ==
  \/ \E address \in Ram, size \in AccessSize :
       \E bytes \in [0 .. size - 1 -> Value] : Store(address, size, bytes)
  \/ \E c \in CPU : Compute(c)

(* Mutant: the hulls are those of all snapshots of the emulator. *)
ClearAllHulls(s) ==
  /\ low' = [t \in Snap |-> Empty]
  /\ high' = [t \in Snap |-> Empty]

ClearHulls(s) ==
  /\ low' = [low EXCEPT ![s] = Empty]
  /\ high' = [high EXCEPT ![s] = Empty]

Reset(s) ==
  /\ ClearHulls(s)
  /\ initialized' = [initialized EXCEPT ![s] = FALSE]
  /\ valid' = valid \ {s}
  /\ UNCHANGED <<machine, state, data, newer>>

(* Mutant: the high hull is only looked at when the low one is empty. *)
DirtyElse(s) == IF low[s] # Empty THEN Bytes(low[s]) ELSE Bytes(high[s])

(* The bytes a backup or a restore of an initialised snapshot copies.       *)
Dirty(s) == Bytes(low[s]) \union Bytes(high[s])

Backup(s) ==
  /\ state' = [state EXCEPT ![s] = cpu]
  /\ data' = [data EXCEPT ![s] =
                [a \in Ram |-> IF ~initialized[s] \/ a \in Dirty(s)
                               THEN ram[a] ELSE data[s][a]]]
  /\ initialized' = [initialized EXCEPT ![s] = TRUE]
  /\ ClearHulls(s)
  /\ valid' = valid \union {s}
  /\ newer' = [t \in Snap |-> IF t = s THEN {} ELSE newer[t] \union {s}]
  /\ UNCHANGED machine

Restore(s) ==
  /\ initialized[s]
  /\ cpu' = state[s]
  /\ ram' = [a \in Ram |-> IF a \in Dirty(s) THEN data[s][a] ELSE ram[a]]
  /\ ClearHulls(s)
  /\ valid' = valid \ newer[s]
  /\ newer' = [newer EXCEPT ![s] = {}]
  /\ UNCHANGED <<state, data, initialized>>

(* The simulator's part: every simulate_* function resets its snapshot on   *)
(* entry, so that one overtaken by the restore of an older one is reset     *)
(* before it is used again (InjectionLoops shows that they all do).         *)
Usable(s) == initialized[s] => s \in valid

Next ==
  \/ Execute
  \/ \E s \in Snap : \/ Reset(s)
                     \/ Usable(s) /\ Backup(s)
                     \/ Usable(s) /\ Restore(s)

Spec == Init /\ [][Next]_vars

-----------------------------------------------------------------------------
(* A hull is empty or a proper interval of RAM.  Were start > end, the      *)
(* unsigned size end - start would wrap; were it to leave the RAM region,   *)
(* read_memory and write_memory would throw INVALID_MEMORY_ACCESS.          *)
HullInRam ==
  \A s \in Snap : \A r \in {low[s], high[s]} :
    r # Empty => r.start \in Ram /\ r.end - 1 \in Ram /\ r.start < r.end

(* Where the RAM differs from a usable snapshot, one of its two hulls       *)
(* covers the address: although restores through other snapshots, and the   *)
(* hulls they clear, are never seen by this one.                            *)
DirtyCover ==
  \A s \in valid : \A a \in Ram : ram[a] # data[s][a] => a \in Dirty(s)

(* The buffer of a later snapshot differs from that of an earlier one only  *)
(* inside the hulls the earlier one has accumulated.                        *)
NewerCover ==
  \A s \in valid : \A t \in newer[s] \cap valid : \A a \in Ram :
    data[t][a] # data[s][a] => a \in Dirty(s)

(* Two usable snapshots are ordered by their backups. *)
BackupOrder ==
  \A s, t \in valid : s = t \/ t \in newer[s] \/ s \in newer[t]

(* The buffer of a usable snapshot has no byte left that was never copied.  *)
NoGarbage ==
  \A s \in valid : initialized[s] /\ data[s] \in [Ram -> Value]

(* The inductive invariant behind the properties below. *)
CoverInv == HullInRam /\ DirtyCover /\ NewerCover /\ BackupOrder /\ NoGarbage

(* After restore() the RAM is, byte for byte, the image the snapshot holds, *)
(* and the registers are those of the same backup.                          *)
RestoreIsExact ==
  [][\A s \in valid : Restore(s) => ram' = data[s] /\ cpu' = state[s]]_vars

(* Every backup and restore of the incremental snapshots is that of the     *)
(* full copies of PerfectSnapshot.                                          *)
Perfect == INSTANCE PerfectSnapshot WITH
  image <- [s \in valid |-> [ram |-> data[s], cpu |-> state[s]]]

ImplementsPerfect == Perfect!Spec
=============================================================================
