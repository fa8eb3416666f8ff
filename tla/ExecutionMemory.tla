--------------------------- MODULE ExecutionMemory ---------------------------
(***************************************************************************)
(* Emulator::execute, instructions that load and store.  CCR, which        *)
(* nothing sets, lets single loads and stores be unaligned.  An access     *)
(* that fails leaves what was done before it.                              *)
(***************************************************************************)
EXTENDS EmulatorState

TransferBytes(name) ==
  CASE name \in {"LDR", "LDRT", "STR", "STRT", "LDREX", "STREX"} -> 4
    [] name \in {"LDRH", "LDRHT", "LDRSH", "LDRSHT", "STRH", "STRHT", "LDREXH", "STREXH"} -> 2
    [] OTHER -> 1

SingleLoad == {"LDR", "LDRT", "LDRH", "LDRHT", "LDRB", "LDRBT", "LDRSH", "LDRSHT", "LDRSB", "LDRSBT"}

SingleStore == {"STR", "STRT", "STRH", "STRHT", "STRB", "STRBT"}

\* Base and offset, by which the base is written back.
OffsetAddress(m, i) ==
  Wrap(ReadRegister(m, i.Rn) + (IF i.add THEN i.imm ELSE -i.imm))

\* CHECK_SHIFT
OffsetRefused(m, i) == OnlyRegisters(i) /\ ~ShiftedOperand(m, i).ok

TransferAddress(m, i) ==
  LET literal == Align(ReadRegister(m, PC), 4)
  IN  CASE i.ot = "RI" -> Wrap(IF i.add THEN literal + i.imm ELSE literal - i.imm)
        [] OnlyRegisters(i) -> Wrap(ReadRegister(m, i.Rn) + ShiftedOperand(m, i).value)
        [] OTHER -> IF i.index THEN OffsetAddress(m, i) ELSE ReadRegister(m, i.Rn)

WriteBack(m, i, value) == IF i.wback THEN WriteRegister(m, i.Rn, value) ELSE m

\* A literal is not extended by LDRSBT and LDRSHT, which have none.
Load(m, i) ==
  LET bytes == TransferBytes(i.name)
      read == ReadMemory(m, TransferAddress(m, i), bytes)
      signed == i.name \in {"LDRSB", "LDRSBT", "LDRSH", "LDRSHT"}
      value == IF signed THEN SignExtend(read.value, bytes * ByteWidth) ELSE read.value
  IN  WriteBack(WriteRegister(read.m, i.Rd, value), i,
                IF i.wback THEN OffsetAddress(m, i) ELSE 0)

Store(m, i) ==
  WriteBack(WriteMemory(m, TransferAddress(m, i), ReadRegister(m, i.Rd), TransferBytes(i.name)), i,
            IF i.wback THEN OffsetAddress(m, i) ELSE 0)

\* The loops over the registers below PC of a list, the lowest of which is at
\* start: what is there after the first n turns.
TransferList(m, list, start, loads) ==
  LET transfer(state, r) ==
        LET address == Wrap(start + 4 * Cardinality({other \in list : other < r}))
            read == ReadMemory(state, address, 4)
        IN  CASE r \notin list -> state
              [] r \in list /\ loads -> WriteRegister(read.m, r, read.value)
              [] OTHER -> WriteMemory(state, address, ReadRegister(state, r), 4)
      after[n \in 0 .. PC] == IF n = 0 THEN m ELSE transfer(after[n - 1], n - 1)
  IN  after[PC]

LoadList(m, list, start) == TransferList(m, list, start, TRUE)

StoreList(m, list, start) == TransferList(m, list, start, FALSE)

\* PC is the last to be loaded.
LoadListAndPC(m, list, start) ==
  LET loaded == LoadList(m, list, start)
      last == ReadMemory(loaded, Wrap(start + 4 * Cardinality(list \ {PC})), 4)
  IN  IF PC \in list THEN [BxWritePC(last.m, last.value) EXCEPT !.branched = TRUE] ELSE loaded

\* The base after LDM does not count PC.
LoadMultiple(m, i) ==
  LET start == ReadRegister(m, i.Rn)
      list == BitsOf(i.imm)
  IN  WriteBack(LoadListAndPC(m, list, start), i, Wrap(start + 4 * Cardinality(list \ {PC})))

StoreMultiple(m, i) ==
  LET start == ReadRegister(m, i.Rn)
      list == BitsOf(i.imm) \ {PC}
  IN  WriteBack(StoreList(m, list, start), i, Wrap(start + 4 * Cardinality(list)))

\* LDMDB writes its base back if the list, as a number, exceeds the number of
\* the base.
LoadMultipleBefore(m, i) ==
  LET list == BitsOf(i.imm)
      start == Wrap(ReadRegister(m, i.Rn) - 4 * Cardinality(list))
      loaded == LoadListAndPC(m, list, start)
  IN  IF i.imm > i.Rn THEN WriteBack(loaded, i, start) ELSE loaded

StoreMultipleBefore(m, i) ==
  LET list == BitsOf(i.imm)
      start == Wrap(ReadRegister(m, i.Rn) - 4 * Cardinality(list))
  IN  WriteBack(StoreList(m, list, start), i, start)

Push(m, i) ==
  LET list == BitsOf(i.imm)
      start == Wrap(ReadRegister(m, SP) - 4 * Cardinality(list))
  IN  WriteRegister(StoreList(m, list, start), SP, start)

(* Mutant: PC is not counted, as LDM does not. *)
PopWithoutPC(m, i) ==
  LET list == BitsOf(i.imm)
      start == ReadRegister(m, SP)
  IN  WriteRegister(LoadListAndPC(m, list, start), SP, Wrap(start + 4 * Cardinality(list \ {PC})))

Pop(m, i) ==
  LET list == BitsOf(i.imm)
      start == ReadRegister(m, SP)
  IN  WriteRegister(LoadListAndPC(m, list, start), SP, Wrap(start + 4 * Cardinality(list)))

\* STRD and LDRD: Rd and Rm are the registers, a literal address is aligned.
DualBase(m, i) == IF i.ot = "RRI" THEN Align(ReadRegister(m, i.Rn), 4) ELSE ReadRegister(m, i.Rn)

DualOffset(m, i) == Wrap(DualBase(m, i) + (IF i.add THEN i.imm ELSE -i.imm))

DualAddress(m, i) == IF i.index THEN DualOffset(m, i) ELSE DualBase(m, i)

StoreDual(m, i) ==
  LET first == WriteMemory(m, DualAddress(m, i), ReadRegister(m, i.Rd), 4)
      second == WriteMemory(first, Wrap(DualAddress(m, i) + 4), ReadRegister(first, i.Rm), 4)
  IN  WriteBack(second, i, DualOffset(m, i))

LoadDual(m, i) ==
  LET first == ReadMemory(m, DualAddress(m, i), 4)
      loaded == WriteRegister(first.m, i.Rd, first.value)
      second == ReadMemory(loaded, Wrap(DualAddress(m, i) + 4), 4)
  IN  WriteBack(WriteRegister(second.m, i.Rm, second.value), i, DualOffset(m, i))

\* The exclusive monitor is an address that nothing clears.
ExclusiveAddress(m, i) ==
  IF i.name \in {"LDREX", "STREX"} THEN Wrap(ReadRegister(m, i.Rn) + i.imm) ELSE ReadRegister(m, i.Rn)

StoreExclusive(m, i) ==
  LET address == ExclusiveAddress(m, i)
      stored == WriteMemory(m, address, ReadRegister(m, i.Rm), TransferBytes(i.name))
  IN  IF address = m.exclusive THEN WriteRegister(stored, i.Rd, 0) ELSE WriteRegister(m, i.Rd, 1)

LoadExclusive(m, i) ==
  LET address == ExclusiveAddress(m, i)
      read == ReadMemory([m EXCEPT !.exclusive = address], address, TransferBytes(i.name))
  IN  WriteRegister(read.m, i.Rd, read.value)

\* The instructions that may not be unaligned, and the address they test.
AlignedName == {"LDM", "STM", "LDMDB", "STMDB", "PUSH", "POP", "LDRD", "STRD",
                "LDREX", "LDREXB", "LDREXH", "STREX", "STREXB", "STREXH"}

Unaligned(m, i) ==
  CASE i.name \in {"PUSH", "POP"} -> ReadRegister(m, SP) % 4 # 0
    [] i.name \in {"LDM", "STM", "LDMDB", "STMDB"} -> ReadRegister(m, i.Rn) % 4 # 0
    [] i.name \in {"LDRD", "STRD"} -> DualAddress(m, i) % 4 # 0
    [] OTHER -> ExclusiveAddress(m, i) % TransferBytes(i.name) # 0

Transfer(m, i) ==
  CASE i.name \in SingleLoad \union SingleStore /\ OffsetRefused(m, i) ->
         Fail(m, "INVALID_SHIFT_ARGUMENT")
    [] i.name \in SingleLoad /\ ~OffsetRefused(m, i) -> Load(m, i)
    [] i.name \in SingleStore /\ ~OffsetRefused(m, i) -> Store(m, i)
    [] i.name \in AlignedName /\ Unaligned(m, i) -> Fail(m, "HARD_FAULT")
    [] i.name \in AlignedName /\ ~Unaligned(m, i) ->
         CASE i.name = "LDM" -> LoadMultiple(m, i)
           [] i.name = "STM" -> StoreMultiple(m, i)
           [] i.name = "LDMDB" -> LoadMultipleBefore(m, i)
           [] i.name = "STMDB" -> StoreMultipleBefore(m, i)
           [] i.name = "PUSH" -> Push(m, i)
           [] i.name = "POP" -> Pop(m, i)
           [] i.name = "LDRD" -> LoadDual(m, i)
           [] i.name = "STRD" -> StoreDual(m, i)
           [] i.name \in {"LDREX", "LDREXB", "LDREXH"} -> LoadExclusive(m, i)
           [] i.name \in {"STREX", "STREXB", "STREXH"} -> StoreExclusive(m, i)
=============================================================================
