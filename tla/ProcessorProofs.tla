-------------------------- MODULE ProcessorProofs ---------------------------
(***************************************************************************)
(* For every program, every state an emulator may be in and words of any   *)
(* width: the flags and the IT state that instructions work on are those   *)
(* of register PSR whenever an instruction is over, an IT block runs as it *)
(* was encoded, nothing that was decoded is refused by execute but what    *)
(* has no case there, and a word is decoded alike on every core.           *)
(*                                                                         *)
(* Within an instruction the two copies differ: execute changes the one    *)
(* and sets m_psr_updated, MSR and register faults change both.  Honest    *)
(* says of a state in the middle of an instruction that nothing changed    *)
(* psr unnoticed, and that nothing touched the IT state since the state o; *)
(* one lemma per access or instruction.                                    *)
(*                                                                         *)
(* Runnable says of a decoded instruction what execute relies on: the      *)
(* members it writes a register by name one, its shift is none that        *)
(* Shift_C refuses, its condition is not 15, and an IT leaves no block in  *)
(* which 15 comes up (ItSound); one lemma per decoder operator.  Good and  *)
(* GoodFor say which return codes execute may leave; one lemma per access  *)
(* or instruction again.                                                   *)
(*                                                                         *)
(* Alike says of what two decoders make of the same halfwords that they    *)
(* differ in what they must only; one lemma per decoder operator.          *)
(***************************************************************************)
EXTENDS Processor, SequenceTheorems, FiniteSetTheorems, SetInduction

Members == {"arch", "reg", "xpsr", "psr", "flash", "ram", "exclusive", "special", "code",
            "updated", "branched"}

Honest(o, m) ==
  /\ DOMAIN m = Members
  /\ m.arch = o.arch /\ m.flash = o.flash /\ m.xpsr = o.xpsr
  /\ "it" \in DOMAIN m.psr /\ m.psr.it = o.psr.it
  /\ m.code = "OK" =>
       m.xpsr \subseteq PsrBits(m.arch) /\ (m.updated \/ m.psr = Fields(m.xpsr))

Mirrored(m) ==
  /\ DOMAIN m = Members
  /\ m.code = "OK" => m.psr = Fields(m.xpsr) /\ m.xpsr \subseteq PsrBits(m.arch)

(* A state that some instruction may go on from, of the same core and flash. *)
After(o, n) == Honest(n, n) /\ n.arch = o.arch /\ n.flash = o.flash

-----------------------------------------------------------------------------
(* The accesses that instructions are made of.                              *)

LEMMA FailHonest == \A o, m, code : Honest(o, m) /\ code # "OK" => Honest(o, Fail(m, code))
BY DEF Honest, Fail, Members

(* Register writes leave PSR alone.                                        *)
LEMMA RegisterHonest == \A o, m, r, value : Honest(o, m) => Honest(o, WriteRegister(m, r, value))
<1> SUFFICES ASSUME NEW o, NEW m, NEW r, NEW value, Honest(o, m)
             PROVE  Honest(o, WriteRegister(m, r, value))
  OBVIOUS
<1>1. Honest(o, Fail(m, "INVALID_REGISTER"))
  BY FailHonest
<1>2. Honest(o, [m EXCEPT !.reg[r] = IF r = SP THEN Align(Wrap(value), 4) ELSE Wrap(value)])
  BY DEF Honest, Members
<1> QED BY <1>1, <1>2 DEF WriteRegister

(* Reads change the return code at most.                                   *)
LEMMA ReadHonest ==
  \A o, m, address, bytes : Honest(o, m) => Honest(o, ReadMemory(m, address, bytes).m)
<1> SUFFICES ASSUME NEW o, NEW m, NEW address, NEW bytes, Honest(o, m)
             PROVE  Honest(o, ReadMemory(m, address, bytes).m)
  OBVIOUS
<1>1. Honest(o, Fail(m, "INVALID_MEMORY_ACCESS"))
  BY FailHonest
<1>2. ReadMemory(m, address, bytes).m \in {m, Fail(m, "INVALID_MEMORY_ACCESS")}
  BY DEF ReadMemory
<1> QED BY <1>1, <1>2

(* Writes to memory leave PSR and the flash alone.                         *)
LEMMA MemoryHonest ==
  \A o, m, address, value, bytes : Honest(o, m) => Honest(o, WriteMemory(m, address, value, bytes))
<1> SUFFICES ASSUME NEW o, NEW m, NEW address, NEW value, NEW bytes, Honest(o, m)
             PROVE  Honest(o, WriteMemory(m, address, value, bytes))
  OBVIOUS
<1>1. Honest(o, Fail(m, "INVALID_MEMORY_ACCESS"))
  BY FailHonest
<1>2. \A ram : Honest(o, [m EXCEPT !.ram = ram])
  BY DEF Honest, Members
<1> QED BY <1>1, <1>2 DEF WriteMemory

(* update_psr of flags sets m_psr_updated and leaves the IT state alone.   *)
LEMMA FlagsHonest ==
  \A o, m, f : Honest(o, m) /\ "it" \notin DOMAIN f => Honest(o, SetFlags(m, f))
<1> SUFFICES ASSUME NEW o, NEW m, NEW f, Honest(o, m), "it" \notin DOMAIN f
             PROVE  Honest(o, SetFlags(m, f))
  OBVIOUS
<1> DEFINE psr == Updated(m.psr, f)
<1>1. "it" \in DOMAIN psr /\ psr.it = m.psr.it
  BY DEF Honest, Updated
<1> HIDE DEF psr
<1>2. SetFlags(m, f) = [m EXCEPT !.psr = psr, !.updated = TRUE]
  BY DEF SetFlags, psr
<1> QED BY <1>1, <1>2 DEF Honest, Members

(* The flags that instructions set are not the IT state.                   *)
LEMMA FlagNames ==
  /\ \A result : "it" \notin DOMAIN NZ(result)
  /\ \A result, carry : "it" \notin DOMAIN NZC(result, carry)
  /\ \A overflow : "it" \notin DOMAIN [V |-> overflow]
  /\ \A saturated : "it" \notin DOMAIN [Q |-> saturated]
BY DEF NZ, NZC

(* A write of register PSR decodes it.                                     *)
LEMMA SetMirrored == \A m, bits : DOMAIN m = Members => Mirrored(SetPSR(m, bits))
BY DEF Mirrored, SetPSR, Members

(* Instructions that leave the IT state alone are of the general kind.     *)
LEMMA HonestAfter == \A o, m : Honest(o, m) => After(o, m)
BY DEF Honest, After

(* The IT state that there is after a write of PSR.                         *)
LEMMA PsrAfter ==
  \A o, m, bits : Honest(o, m) =>
    LET n == WritePSR(m, bits)
    IN  After(o, n) /\ (m.code = "OK" => n.psr.it = Fields(bits \cap PsrBits(o.arch)).it)
<1> SUFFICES ASSUME NEW o, NEW m, NEW bits, Honest(o, m)
             PROVE  LET n == WritePSR(m, bits)
                    IN  After(o, n) /\ (m.code = "OK" => n.psr.it = Fields(bits \cap PsrBits(o.arch)).it)
  OBVIOUS
<1>1. CASE m.code = "OK"
  <2> DEFINE kept == bits \cap PsrBits(m.arch)
             n == [m EXCEPT !.xpsr = kept, !.psr = Fields(kept)]
  <2>1. "it" \in DOMAIN Fields(kept) /\ kept \subseteq PsrBits(m.arch)
    BY DEF Fields
  <2>2. WritePSR(m, bits) = n
    BY <1>1 DEF WritePSR, SetPSR
  <2> HIDE DEF kept
  <2>3. /\ DOMAIN n = Members /\ n.arch = m.arch /\ n.flash = m.flash
        /\ n.psr = Fields(kept) /\ n.xpsr = kept
    BY DEF Honest, Members
  <2>4. m.arch = o.arch /\ m.flash = o.flash
    BY DEF Honest
  <2> HIDE DEF n
  <2>5. After(o, n) /\ n.psr.it = Fields(kept).it
    BY <2>1, <2>3, <2>4 DEF After, Honest
  <2> QED BY <2>2, <2>4, <2>5 DEF kept
<1>2. CASE m.code # "OK"
  BY <1>2, HonestAfter DEF WritePSR
<1> QED BY <1>1, <1>2

(* The IT state after pop_IT_condition.                                     *)
Popped(it) == IF it % 8 = 0 THEN 0 ELSE 32 * (it \div 32) + ((2 * it) % 32)

(* Instructions of an IT block step on in it, executed or not.              *)
LEMMA ConditionAfter ==
  \A m, i : Honest(m, m) =>
    LET n == EvaluateCondition(m, i).m
    IN  After(m, n) /\ n.xpsr = m.xpsr
          /\ n.psr.it = IF InITBlock(m) THEN Popped(m.psr.it) ELSE m.psr.it
<1> SUFFICES ASSUME NEW m, NEW i, Honest(m, m)
             PROVE  LET n == EvaluateCondition(m, i).m
                    IN  After(m, n) /\ n.xpsr = m.xpsr
                          /\ n.psr.it = IF InITBlock(m) THEN Popped(m.psr.it) ELSE m.psr.it
  OBVIOUS
<1> DEFINE p == PopITCondition(m)
<1>1. Honest(p, p) /\ p.arch = m.arch /\ p.flash = m.flash /\ p.xpsr = m.xpsr
      /\ p.psr.it = Popped(m.psr.it)
  BY DEF Honest, PopITCondition, Members, Popped
<1>2. EvaluateCondition(m, i).m \in
        IF InITBlock(m) THEN {p, Fail(p, "UNSUPPORTED")} ELSE {m, Fail(m, "UNSUPPORTED")}
  BY DEF EvaluateCondition
<1> HIDE DEF p
<1>3. Honest(p, Fail(p, "UNSUPPORTED")) /\ Honest(m, Fail(m, "UNSUPPORTED"))
  BY <1>1, FailHonest
<1> QED BY <1>1, <1>2, <1>3 DEF After, Honest

(* Branches write PC only.                                                 *)
LEMMA BranchHonest == \A o, m, address : Honest(o, m) => Honest(o, BranchWritePC(m, address))
<1> SUFFICES ASSUME NEW o, NEW m, NEW address, Honest(o, m)
             PROVE  Honest(o, BranchWritePC(m, address))
  OBVIOUS
<1>1. Honest(o, WriteRegister(m, PC, Align(address, 2)))
  BY RegisterHonest
<1> QED BY <1>1 DEF BranchWritePC, Honest, Members

(* Interworking branches write PC only.                                    *)
LEMMA BxHonest == \A o, m, address : Honest(o, m) => Honest(o, BxWritePC(m, address))
BY BranchHonest, FailHonest DEF BxWritePC

(* So does the advance to the next instruction.                            *)
LEMMA AdvanceHonest == \A o, m, size : Honest(o, m) => Honest(o, Advance(m, size))
BY RegisterHonest DEF Advance

-----------------------------------------------------------------------------
(* Instructions that compute on registers.                                  *)

LEMMA ArithmeticHonest == \A o, m, i : Honest(o, m) => Honest(o, Arithmetic(m, i))
<1> SUFFICES ASSUME NEW o, NEW m, NEW i, Honest(o, m) PROVE Honest(o, Arithmetic(m, i))
  OBVIOUS
<1>1. \A address : Honest(o, [m EXCEPT !.reg[PC] = address, !.branched = TRUE])
  BY DEF Honest, Members
<1> QED BY <1>1, FailHonest, RegisterHonest, FlagsHonest, FlagNames DEF Arithmetic, Refused

(* Logical instructions.                                                   *)
LEMMA LogicalHonest == \A o, m, i : Honest(o, m) => Honest(o, Logical(m, i))
BY FailHonest, RegisterHonest, FlagsHonest, FlagNames DEF Logical, Refused

(* Shifts.                                                                 *)
LEMMA ShiftHonest == \A o, m, i : Honest(o, m) => Honest(o, Shift(m, i))
BY FailHonest, RegisterHonest, FlagsHonest, FlagNames DEF Shift

(* Moves.                                                                  *)
LEMMA MoveHonest == \A o, m, i : Honest(o, m) => Honest(o, Move(m, i))
BY FailHonest, RegisterHonest, FlagsHonest, FlagNames DEF Move

(* Saturation.                                                             *)
LEMMA SaturationHonest == \A o, m, i : Honest(o, m) => Honest(o, Saturation(m, i))
BY FailHonest, RegisterHonest, FlagsHonest, FlagNames DEF Saturation

(* Multiplication and division.                                            *)
LEMMA ProductHonest == \A o, m, i : Honest(o, m) => Honest(o, Product(m, i))
BY RegisterHonest, FlagsHonest, FlagNames DEF Product

(* Bit fields.                                                             *)
LEMMA FieldHonest ==
  \A o, m, i : Honest(o, m) => Honest(o, ExtractField(m, i)) /\ Honest(o, InsertField(m, i))
BY FailHonest, RegisterHonest DEF ExtractField, InsertField

(* Extension, reversal and ADR.                                            *)
LEMMA PlainHonest ==
  \A o, m, i : Honest(o, m) => /\ Honest(o, Rearrange(m, i)) /\ Honest(o, LongProduct(m, i))
                         /\ Honest(o, Quotient(m, i)) /\ Honest(o, Address(m, i))
BY RegisterHonest DEF Rearrange, LongProduct, Quotient, Address

-----------------------------------------------------------------------------
(* Instructions that load and store.                                        *)

LEMMA BackHonest == \A o, m, i, value : Honest(o, m) => Honest(o, WriteBack(m, i, value))
BY RegisterHonest DEF WriteBack

(* Loads and stores of one register.                                       *)
LEMMA SingleHonest == \A o, m, i : Honest(o, m) => Honest(o, Load(m, i)) /\ Honest(o, Store(m, i))
BY BackHonest, RegisterHonest, ReadHonest, MemoryHonest DEF Load, Store

(* One turn of the loop over a list of registers.                           *)
Turned(list, start, loads, state, r) ==
  LET address == Wrap(start + 4 * Cardinality({other \in list : other < r}))
      read == ReadMemory(state, address, 4)
  IN  CASE r \notin list -> state
        [] r \in list /\ loads -> WriteRegister(read.m, r, read.value)
        [] OTHER -> WriteMemory(state, address, ReadRegister(state, r), 4)

(* The loop over a list of registers is its turns; that it computes what    *)
(* its definition says is an induction of its own.                          *)
LEMMA ListTurns ==
  ASSUME NEW m, NEW list, NEW start, NEW loads
  PROVE  \E after : /\ after[0] = m
                    /\ \A n \in 0 .. PC : n < PC => after[n + 1] = Turned(list, start, loads, after[n], n)
                    /\ TransferList(m, list, start, loads) = after[PC]
<1> DEFINE Turn(f, k) == IF k = 0 THEN m ELSE Turned(list, start, loads, f[k - 1], k - 1)
           Turns(n, f) == f = [k \in 0 .. n |-> Turn(f, k)]
           after == CHOOSE f : Turns(PC, f)
           Reached == {n \in 0 .. PC : \E f : Turns(n, f)}
<1>1. TransferList(m, list, start, loads) = after[PC]
  BY DEF TransferList, Turned
<1>3. PC \in Nat
  BY DEF PC
<1>4. 0 \in Reached
  <2>1. Turns(0, [k \in 0 .. 0 |-> m])
    OBVIOUS
  <2> HIDE DEF Turns
  <2>2. \E f : Turns(0, f)
    BY <2>1
  <2> QED BY <1>3, <2>2
<1>5. ASSUME NEW n \in Reached, n < PC PROVE n + 1 \in Reached
  <2>1. PICK f : Turns(n, f)
    OBVIOUS
  <2> DEFINE last == Turn(f, n + 1)
             g == [k \in 0 .. n + 1 |-> IF k <= n THEN f[k] ELSE last]
  <2>2. n \in Nat /\ n + 1 \in 0 .. PC
    BY <1>3, <1>5
  <2>3. \A k \in 0 .. n : f[k] = Turn(f, k)
    <3> HIDE DEF Turn
    <3> QED BY <2>1
  <2>4. g[n + 1] = last /\ \A k \in 0 .. n : g[k] = f[k]
    <3> HIDE DEF last
    <3> QED BY <2>2
  <2>5. ASSUME NEW k \in 0 .. n + 1 PROVE g[k] = Turn(g, k)
    <3>1. k # 0 => k - 1 \in 0 .. n
      BY <2>2
    <3>2. Turn(g, k) = Turn(f, k)
      <4> HIDE DEF g
      <4> QED BY <2>4, <3>1
    <3>3. k = n + 1 \/ k \in 0 .. n
      BY <2>2
    <3> HIDE DEF g, Turn
    <3> QED BY <2>3, <2>4, <3>2, <3>3
  <2>6. Turns(n + 1, g)
    <3> HIDE DEF Turn
    <3>1. g = [k \in 0 .. n + 1 |-> g[k]]
      OBVIOUS
    <3> HIDE DEF g
    <3> QED BY <2>5, <3>1
  <2> HIDE DEF g, Turns
  <2> QED BY <2>2, <2>6
<1>6. PC \in Reached
  <2>1. Reached \in SUBSET (0 .. PC)
    OBVIOUS
  <2> HIDE DEF Reached
  <2>2. Reached = 0 .. PC
    BY <1>3, <1>4, <1>5, <2>1, IntervalInduct
  <2> QED BY <1>3, <2>2
<1>7. Turns(PC, after)
  <2> HIDE DEF Turns
  <2> QED BY <1>6
<1>8. \A k \in 0 .. PC : after[k] = Turn(after, k)
  <2> HIDE DEF after, Turn
  <2> QED BY <1>7
<1> HIDE DEF after
<1>9. after[0] = m
  BY <1>3, <1>8
<1>10. ASSUME NEW n \in 0 .. PC, n < PC PROVE after[n + 1] = Turned(list, start, loads, after[n], n)
  <2>1. n + 1 \in 0 .. PC /\ n + 1 # 0 /\ (n + 1) - 1 = n
    BY <1>3, <1>10
  <2> QED BY <1>8, <2>1
<1> QED BY <1>1, <1>9, <1>10

(* The loop over a list of registers goes through honest states.           *)
LEMMA ListHonest ==
  \A o, m, list, start, loads : Honest(o, m) => Honest(o, TransferList(m, list, start, loads))
<1> SUFFICES ASSUME NEW o, NEW m, NEW list, NEW start, NEW loads, Honest(o, m)
             PROVE  Honest(o, TransferList(m, list, start, loads))
  OBVIOUS
<1>1. PICK after : /\ after[0] = m
                   /\ \A n \in 0 .. PC : n < PC => after[n + 1] = Turned(list, start, loads, after[n], n)
                   /\ TransferList(m, list, start, loads) = after[PC]
  BY ListTurns
<1>2. \A state, r : Honest(o, state) => Honest(o, Turned(list, start, loads, state, r))
  BY RegisterHonest, ReadHonest, MemoryHonest DEF Turned
<1> DEFINE Kept == {n \in 0 .. PC : Honest(o, after[n])}
<1>3. PC \in Nat
  BY DEF PC
<1>4. 0 \in Kept
  BY <1>1, <1>3
<1>5. ASSUME NEW n \in Kept, n < PC PROVE n + 1 \in Kept
  <2>1. n \in 0 .. PC /\ n + 1 \in 0 .. PC
    BY <1>3, <1>5
  <2> QED BY <1>1, <1>2, <1>5, <2>1
<1>6. Kept \in SUBSET (0 .. PC)
  OBVIOUS
<1>7. PC \in Kept
  <2> HIDE DEF Kept
  <2>1. Kept = 0 .. PC
    BY <1>3, <1>4, <1>5, <1>6, IntervalInduct
  <2> QED BY <1>3, <2>1
<1> QED BY <1>1, <1>7

(* A list of registers, and PC at the end of it.                           *)
LEMMA ListAndPCHonest ==
  \A o, m, list, start : Honest(o, m) => Honest(o, LoadListAndPC(m, list, start))
<1> SUFFICES ASSUME NEW o, NEW m, NEW list, NEW start, Honest(o, m)
             PROVE  Honest(o, LoadListAndPC(m, list, start))
  OBVIOUS
<1>1. \A s : Honest(o, s) => Honest(o, [s EXCEPT !.branched = TRUE])
  BY DEF Honest, Members
<1> QED BY <1>1, ListHonest, ReadHonest, BxHonest DEF LoadListAndPC, LoadList

(* PUSH, POP, LDM and STM.                                                 *)
LEMMA MultipleHonest ==
  \A o, m, i : Honest(o, m) => /\ Honest(o, LoadMultiple(m, i)) /\ Honest(o, StoreMultiple(m, i))
                         /\ Honest(o, LoadMultipleBefore(m, i)) /\ Honest(o, StoreMultipleBefore(m, i))
                         /\ Honest(o, Push(m, i)) /\ Honest(o, Pop(m, i))
<1> SUFFICES ASSUME NEW o, NEW m, NEW i, Honest(o, m)
             PROVE  /\ Honest(o, LoadMultiple(m, i)) /\ Honest(o, StoreMultiple(m, i))
                    /\ Honest(o, LoadMultipleBefore(m, i)) /\ Honest(o, StoreMultipleBefore(m, i))
                    /\ Honest(o, Push(m, i)) /\ Honest(o, Pop(m, i))
  OBVIOUS
<1>1. \A list, start : Honest(o, LoadListAndPC(m, list, start)) /\ Honest(o, StoreList(m, list, start))
  BY ListHonest, ListAndPCHonest DEF StoreList
<1>2. Honest(o, LoadMultiple(m, i)) /\ Honest(o, StoreMultiple(m, i))
  BY <1>1, BackHonest DEF LoadMultiple, StoreMultiple
<1>3. Honest(o, LoadMultipleBefore(m, i)) /\ Honest(o, StoreMultipleBefore(m, i))
  BY <1>1, BackHonest DEF LoadMultipleBefore, StoreMultipleBefore
<1>4. Honest(o, Push(m, i)) /\ Honest(o, Pop(m, i))
  BY <1>1, RegisterHonest DEF Push, Pop
<1> QED BY <1>2, <1>3, <1>4

(* Loads and stores of two registers.                                      *)
LEMMA DualHonest ==
  \A o, m, i : Honest(o, m) => Honest(o, LoadDual(m, i)) /\ Honest(o, StoreDual(m, i))
BY BackHonest, RegisterHonest, ReadHonest, MemoryHonest DEF LoadDual, StoreDual

(* Exclusive accesses.                                                     *)
LEMMA ExclusiveHonest ==
  \A o, m, i : Honest(o, m) => Honest(o, LoadExclusive(m, i)) /\ Honest(o, StoreExclusive(m, i))
<1> SUFFICES ASSUME NEW o, NEW m, NEW i, Honest(o, m)
             PROVE  Honest(o, LoadExclusive(m, i)) /\ Honest(o, StoreExclusive(m, i))
  OBVIOUS
<1>1. \A address : Honest(o, [m EXCEPT !.exclusive = address])
  BY DEF Honest, Members
<1> QED BY <1>1, RegisterHonest, ReadHonest, MemoryHonest DEF LoadExclusive, StoreExclusive

(* All instructions that access memory.                                    *)
LEMMA TransferHonest ==
  \A o, m, i : Honest(o, m) /\ i.name \in SingleLoad \union SingleStore \union AlignedName
            => Honest(o, Transfer(m, i))
<1> SUFFICES ASSUME NEW o, NEW m, NEW i, Honest(o, m),
                    i.name \in SingleLoad \union SingleStore \union AlignedName
             PROVE  Honest(o, Transfer(m, i))
  OBVIOUS
<1>1. /\ Honest(o, Load(m, i)) /\ Honest(o, Store(m, i)) /\ Honest(o, Fail(m, "HARD_FAULT"))
      /\ Honest(o, Fail(m, "INVALID_SHIFT_ARGUMENT"))
      /\ Honest(o, LoadMultiple(m, i)) /\ Honest(o, StoreMultiple(m, i))
      /\ Honest(o, LoadMultipleBefore(m, i)) /\ Honest(o, StoreMultipleBefore(m, i))
      /\ Honest(o, Push(m, i)) /\ Honest(o, Pop(m, i))
      /\ Honest(o, LoadDual(m, i)) /\ Honest(o, StoreDual(m, i))
      /\ Honest(o, LoadExclusive(m, i)) /\ Honest(o, StoreExclusive(m, i))
  BY SingleHonest, FailHonest, MultipleHonest, DualHonest, ExclusiveHonest
<1>2. CASE i.name \in SingleLoad \union SingleStore
  <2>1. i.name \notin AlignedName
    BY <1>2 DEF SingleLoad, SingleStore, AlignedName
  <2> QED BY <1>1, <1>2, <2>1 DEF Transfer
<1>3. CASE i.name \in AlignedName
  <2>1. i.name \notin SingleLoad /\ i.name \notin SingleStore
    BY <1>3 DEF SingleLoad, SingleStore, AlignedName
  <2>2. CASE Unaligned(m, i)
    BY <1>1, <1>3, <2>1, <2>2 DEF Transfer
  <2>3. CASE ~Unaligned(m, i)
    BY <1>1, <1>3, <2>1, <2>3 DEF Transfer, AlignedName
  <2> QED BY <2>2, <2>3
<1> QED BY <1>2, <1>3

-----------------------------------------------------------------------------
(* Branches, special registers, and the dispatch.                           *)

LEMMA BranchesHonest ==
  \A o, m, i : Honest(o, m) => /\ Honest(o, BranchTo(m, i)) /\ Honest(o, CompareBranch(m, i))
                               /\ Honest(o, TableBranch(m, i))
BY RegisterHonest, ReadHonest, BranchHonest, BxHonest DEF BranchTo, CompareBranch, TableBranch

(* MRS and CPS.                                                            *)
LEMMA SpecialHonest ==
  \A o, m, i : Honest(o, m) => /\ Honest(o, MoveFromSpecialRegister(m, i))
                               /\ Honest(o, ChangeState(m, i))
<1> SUFFICES ASSUME NEW o, NEW m, NEW i, Honest(o, m)
             PROVE  Honest(o, MoveFromSpecialRegister(m, i)) /\ Honest(o, ChangeState(m, i))
  OBVIOUS
<1>1. Honest(o, MoveFromSpecialRegister(m, i))
  BY RegisterHonest DEF MoveFromSpecialRegister
<1>2. Honest(o, ChangeState(m, i))
  BY DEF ChangeState, Honest, Members
<1> QED BY <1>1, <1>2

(* MSR writes the flags of PSR and the IT state that PSR has: the one of    *)
(* the instruction, unless that was stepped on.                             *)
LEMMA MsrAfter ==
  \A o, m, i : Honest(o, m) =>
    /\ After(o, MoveToSpecialRegister(m, i))
    /\ m.code = "OK" => MoveToSpecialRegister(m, i).psr.it \in {o.psr.it, Fields(o.xpsr).it}
<1> SUFFICES ASSUME NEW o, NEW m, NEW i, Honest(o, m)
             PROVE  /\ After(o, MoveToSpecialRegister(m, i))
                    /\ m.code = "OK" =>
                         MoveToSpecialRegister(m, i).psr.it \in {o.psr.it, Fields(o.xpsr).it}
  OBVIOUS
<1> DEFINE value == ReadRegister(m, i.Rn)
           flagged == (m.xpsr \ 27..31) \union WordFlags(value)
           n == MoveToSpecialRegister(m, i)
<1>1. \A special : /\ Honest(o, [m EXCEPT !.special.PRIMASK = special])
                   /\ Honest(o, [m EXCEPT !.special.BASEPRI = special])
                   /\ Honest(o, [m EXCEPT !.special.FAULTMASK = special])
                   /\ Honest(o, [m EXCEPT !.special.CONTROL = special])
  BY DEF Honest, Members
<1>2. Honest(o, n) \/ n = WritePSR(m, flagged) \/ n = WritePSR(m, m.xpsr)
  <2> DEFINE group == (i.imm \div 8) % 32
             failed == Fail(m, "UNPREDICTABLE")
             written == WriteRegister(m, SP, value)
  <2>1. CASE group = 0
    <3>1. n \in {failed, WritePSR(m, flagged), WritePSR(m, m.xpsr)}
      BY <2>1 DEF MoveToSpecialRegister
    <3> QED BY <3>1, FailHonest
  <2>2. CASE group = 1
    <3>1. n \in {written, m}
      BY <2>2 DEF MoveToSpecialRegister
    <3> QED BY <3>1, RegisterHonest
  <2>3. CASE group = 2
    <3> DEFINE part == i.imm % 8
               low == value % 256
    <3>1. CASE part = 0
      <4>1. n = [m EXCEPT !.special.PRIMASK = value % 2]
        BY <2>3, <3>1 DEF MoveToSpecialRegister
      <4> QED BY <1>1, <4>1
    <3>2. CASE part \in {1, 2}
      <4>1. n \in {[m EXCEPT !.special.BASEPRI = low], m}
        BY <2>3, <3>2 DEF MoveToSpecialRegister
      <4> QED BY <1>1, <4>1, ZenonT(30)
    <3>3. CASE part = 3
      <4>1. n = [m EXCEPT !.special.FAULTMASK = value % 2]
        BY <2>3, <3>3 DEF MoveToSpecialRegister
      <4> QED BY <1>1, <4>1
    <3>4. CASE part = 4
      <4>1. n = [m EXCEPT !.special.CONTROL = value % 4]
        BY <2>3, <3>4 DEF MoveToSpecialRegister
      <4> QED BY <1>1, <4>1
    <3>5. CASE part \notin {0, 1, 2, 3, 4}
      BY <2>3, <3>5 DEF MoveToSpecialRegister
    <3> QED BY <3>1, <3>2, <3>3, <3>4, <3>5
  <2>4. CASE group \notin {0, 1, 2}
    BY <2>4 DEF MoveToSpecialRegister
  <2> QED BY <2>1, <2>2, <2>3, <2>4
<1>3. WordFlags(value) \subseteq 27..31
  BY DEF WordFlags
<1> HIDE DEF value
<1>4. CASE Honest(o, n)
  BY <1>4, HonestAfter DEF Honest
<1>5. ASSUME NEW bits, bits \in {flagged, m.xpsr}, n = WritePSR(m, bits)
      PROVE  After(o, n) /\ (m.code = "OK" => n.psr.it = Fields(o.xpsr).it)
  <2>1. After(o, n) /\ (m.code = "OK" => n.psr.it = Fields(bits \cap PsrBits(o.arch)).it)
    BY <1>5, PsrAfter
  <2>2. ASSUME m.code = "OK" PROVE Fields(bits \cap PsrBits(o.arch)).it = Fields(o.xpsr).it
    <3>1. m.xpsr = o.xpsr /\ m.xpsr \subseteq PsrBits(o.arch)
      BY <2>2 DEF Honest
    <3>2. \A b \in {10, 11, 12, 13, 14, 15, 25, 26} : b \in bits <=> b \in m.xpsr
      BY <1>3, <1>5
    <3>3. \A b \in {10, 11, 12, 13, 14, 15, 25, 26} : b \in bits \cap PsrBits(o.arch) <=> b \in o.xpsr
      BY <3>1, <3>2
    <3> HIDE DEF flagged
    <3> QED BY <3>3 DEF Fields
  <2> QED BY <2>1, <2>2
<1> QED BY <1>2, <1>4, <1>5

(* Instructions that look at the condition, once it holds.                  *)
LEMMA PerformAfter ==
  \A o, m, i : Honest(o, m) =>
    /\ After(o, Perform(m, i))
    /\ i.name # "MSR" => Perform(m, i).psr.it = o.psr.it
    /\ m.code = "OK" => Perform(m, i).psr.it \in {o.psr.it, Fields(o.xpsr).it}
<1> SUFFICES ASSUME NEW o, NEW m, NEW i, Honest(o, m)
             PROVE  /\ After(o, Perform(m, i))
                    /\ i.name # "MSR" => Perform(m, i).psr.it = o.psr.it
                    /\ m.code = "OK" => Perform(m, i).psr.it \in {o.psr.it, Fields(o.xpsr).it}
  OBVIOUS
<1> DEFINE computed == {Arithmetic(m, i), Logical(m, i), Shift(m, i), Move(m, i), Rearrange(m, i),
                        Saturation(m, i), ExtractField(m, i), InsertField(m, i), Product(m, i),
                        LongProduct(m, i), Quotient(m, i), Address(m, i)}
           others == {BranchTo(m, i), TableBranch(m, i), MoveFromSpecialRegister(m, i),
                      Fail(m, "UNSUPPORTED")}
<1>1. \A n \in computed : Honest(o, n)
  BY ArithmeticHonest, LogicalHonest, ShiftHonest, MoveHonest, PlainHonest, SaturationHonest,
     FieldHonest, ProductHonest
<1>2. \A n \in others : Honest(o, n)
  BY BranchesHonest, SpecialHonest, FailHonest
<1>3. \/ Perform(m, i) \in computed \union others
      \/ i.name \in SingleLoad \union SingleStore \union AlignedName /\ Perform(m, i) = Transfer(m, i)
      \/ i.name = "MSR" /\ Perform(m, i) = MoveToSpecialRegister(m, i)
  BY DEF Perform
<1>4. Honest(o, Perform(m, i)) \/ (i.name = "MSR" /\ Perform(m, i) = MoveToSpecialRegister(m, i))
  <2> HIDE DEF computed, others
  <2> QED BY <1>1, <1>2, <1>3, TransferHonest
<1>5. CASE Honest(o, Perform(m, i))
  BY <1>5, HonestAfter DEF Honest
<1>6. CASE i.name = "MSR" /\ Perform(m, i) = MoveToSpecialRegister(m, i)
  BY <1>6, MsrAfter
<1> QED BY <1>4, <1>5, <1>6

(* Instructions that are executed whatever the condition.                  *)
LEMMA UnconditionalAfter ==
  \A m, i : Honest(m, m) /\ i.name \in Unconditional =>
    LET n == PerformUnconditional(m, i)
    IN  /\ After(m, n)
        /\ n.psr.it = IF i.name = "IT" THEN i.imm ELSE m.psr.it
        /\ i.name = "UDF" => n.code # "OK"
<1> SUFFICES ASSUME NEW m, NEW i, Honest(m, m), i.name \in Unconditional
             PROVE  LET n == PerformUnconditional(m, i)
                    IN  /\ After(m, n)
                        /\ n.psr.it = IF i.name = "IT" THEN i.imm ELSE m.psr.it
                        /\ i.name = "UDF" => n.code # "OK"
  OBVIOUS
<1> DEFINE opened == [m EXCEPT !.psr.it = i.imm, !.updated = TRUE]
           n == PerformUnconditional(m, i)
<1>1. After(m, opened) /\ opened.psr.it = i.imm
  BY DEF After, Honest, Members
<1>2. /\ Honest(m, CompareBranch(m, i)) /\ Honest(m, ChangeState(m, i))
      /\ Honest(m, Fail(m, "UNDEFINED")) /\ Fail(m, "UNDEFINED").code # "OK"
  <2>1. Honest(m, CompareBranch(m, i)) /\ Honest(m, ChangeState(m, i))
    BY BranchesHonest, SpecialHonest
  <2>2. Honest(m, Fail(m, "UNDEFINED"))
    BY FailHonest
  <2>3. Fail(m, "UNDEFINED").code # "OK"
    BY DEF Fail, Honest, Members
  <2> QED BY <2>1, <2>2, <2>3
<1>3. /\ i.name = "IT" => n = opened
      /\ i.name # "IT" => n \in {CompareBranch(m, i), m, ChangeState(m, i), Fail(m, "UNDEFINED")}
      /\ i.name = "UDF" => n = Fail(m, "UNDEFINED")
  BY DEF PerformUnconditional, Unconditional, HintName
<1> HIDE DEF opened, n
<1>4. CASE i.name = "IT"
  BY <1>1, <1>3, <1>4 DEF n
<1>5. CASE i.name # "IT"
  <2>1. Honest(m, n)
    BY <1>2, <1>3, <1>5
  <2> QED BY <1>2, <1>3, <1>5, <2>1, HonestAfter DEF Honest, n
<1> QED BY <1>4, <1>5

(* The advance after an instruction.                                       *)
LEMMA AdvanceAfter ==
  \A o, m, size : After(o, m) =>
    /\ After(o, Advance(m, size))
    /\ Advance(m, size).psr.it = m.psr.it
    /\ m.code # "OK" => Advance(m, size).code # "OK"
<1> SUFFICES ASSUME NEW o, NEW m, NEW size, After(o, m)
             PROVE  /\ After(o, Advance(m, size))
                    /\ Advance(m, size).psr.it = m.psr.it
                    /\ m.code # "OK" => Advance(m, size).code # "OK"
  OBVIOUS
<1>1. Honest(m, Advance(m, size))
  BY AdvanceHonest DEF After
<1> QED BY <1>1 DEF Advance, After, Honest

(* What execute does to the IT state.  Members of the last conjunct are     *)
(* refused, and so is a condition that there is none of.                    *)
LEMMA ExecuteAfter ==
  \A m, i, size : Honest(m, m) /\ m.code = "OK" =>
    LET n == Execute(m, i, size)
    IN  /\ After(m, n)
        /\ i.name = "IT" => n.psr.it = i.imm
        /\ i.name \in Unconditional \ {"IT"} => n.psr.it = m.psr.it
        /\ i.name \notin Unconditional \union {"MSR"} /\ n.code = "OK" =>
             n.psr.it = IF InITBlock(m) THEN Popped(m.psr.it) ELSE m.psr.it
        /\ i.name = "MSR" /\ n.code = "OK" =>
             \/ n.psr.it = Fields(m.xpsr).it
             \/ n.psr.it = IF InITBlock(m) THEN Popped(m.psr.it) ELSE m.psr.it
        /\ n.code = "OK" => i.name # "UDF"
<1> SUFFICES ASSUME NEW m, NEW i, NEW size, Honest(m, m), m.code = "OK"
             PROVE  LET n == Execute(m, i, size)
                    IN  /\ After(m, n)
                        /\ i.name = "IT" => n.psr.it = i.imm
                        /\ i.name \in Unconditional \ {"IT"} => n.psr.it = m.psr.it
                        /\ i.name \notin Unconditional \union {"MSR"} /\ n.code = "OK" =>
                             n.psr.it = IF InITBlock(m) THEN Popped(m.psr.it) ELSE m.psr.it
                        /\ i.name = "MSR" /\ n.code = "OK" =>
                             \/ n.psr.it = Fields(m.xpsr).it
                             \/ n.psr.it = IF InITBlock(m) THEN Popped(m.psr.it) ELSE m.psr.it
                        /\ n.code = "OK" => i.name # "UDF"
  OBVIOUS
<1> DEFINE n == Execute(m, i, size)
           p == EvaluateCondition(m, i).m
           done == IF EvaluateCondition(m, i).holds THEN Perform(p, i) ELSE p
<1>1. "UDF" \in Unconditional /\ "IT" \in Unconditional
        /\ "MSR" \notin Unconditional /\ \A name \in NotExecuted : name \notin Unconditional
  BY DEF NotExecuted, Unconditional, HintName
<1>2. CASE i.name \in NotExecuted
  <2>1. n = Fail(m, "UNSUPPORTED")
    BY <1>1, <1>2 DEF Execute
  <2>2. n.code # "OK" /\ After(m, n)
    BY <2>1, FailHonest, HonestAfter DEF Fail, Honest, Members
  <2> QED BY <1>1, <1>2, <2>2
<1>3. CASE i.name \in Unconditional
  <2>1. n = Advance(PerformUnconditional(m, i), size)
    BY <1>1, <1>3 DEF Execute
  <2> QED BY <1>1, <1>3, <2>1, UnconditionalAfter, AdvanceAfter
<1>4. CASE i.name \notin NotExecuted /\ i.name \notin Unconditional
  <2>1. n = Advance(done, size)
    BY <1>4 DEF Execute
  <2>2. After(m, p) /\ p.xpsr = m.xpsr
          /\ p.psr.it = IF InITBlock(m) THEN Popped(m.psr.it) ELSE m.psr.it
    BY ConditionAfter
  <2>3. Honest(p, p) /\ p.arch = m.arch /\ p.flash = m.flash
    BY <2>2 DEF After
  <2>4. EvaluateCondition(m, i).holds => p.code = m.code
    BY DEF EvaluateCondition, PopITCondition, Honest, Members
  <2>5. /\ After(p, Perform(p, i))
        /\ i.name # "MSR" => Perform(p, i).psr.it = p.psr.it
        /\ p.code = "OK" => Perform(p, i).psr.it \in {p.psr.it, Fields(p.xpsr).it}
    <3> HIDE DEF p
    <3> QED BY <2>3, PerformAfter
  <2>6. After(p, p)
    BY <2>3, HonestAfter
  <2>7. After(p, done)
    BY <2>5, <2>6
  <2>8. /\ i.name # "MSR" => done.psr.it = p.psr.it
        /\ done.psr.it \in {p.psr.it, Fields(m.xpsr).it}
    <3> HIDE DEF p
    <3> QED BY <2>2, <2>4, <2>5
  <2> HIDE DEF p, done
  <2>9. After(p, n) /\ n.psr.it = done.psr.it
    BY <2>1, <2>7, AdvanceAfter
  <2>10. After(m, n)
    BY <2>3, <2>9 DEF After
  <2> QED BY <1>1, <1>4, <2>2, <2>8, <2>9, <2>10
<1> QED BY <1>2, <1>3, <1>4 DEF NotExecuted

-----------------------------------------------------------------------------
(* The eight bits of an IT state.                                           *)

LEMMA ItBits ==
  ASSUME NEW it \in 0 .. 255
  PROVE  /\ Bit(it, 0) = it % 2 /\ Bit(it, 1) = (it \div 2) % 2
         /\ Bit(it, 2) = (it \div 4) % 2 /\ Bit(it, 3) = (it \div 8) % 2
         /\ Bit(it, 4) = (it \div 16) % 2 /\ Bit(it, 5) = (it \div 32) % 2
         /\ Bit(it, 6) = (it \div 64) % 2 /\ Bit(it, 7) = (it \div 128) % 2
BY DEF Bit

(* Its bits add up to a byte.                                              *)
LEMMA ItSum ==
  ASSUME NEW it \in 0 .. 255
  PROVE  it = (it % 2) + 2 * ((it \div 2) % 2) + 4 * ((it \div 4) % 2) + 8 * ((it \div 8) % 2)
                + 16 * ((it \div 16) % 2) + 32 * ((it \div 32) % 2) + 64 * ((it \div 64) % 2)
                + 128 * ((it \div 128) % 2)
OBVIOUS

(* Whatever PSR holds, its IT state is a byte.                             *)
LEMMA FieldsType == \A bits : Fields(bits).it \in 0 .. 255
BY DEF Fields

(* PSR keeps all bits of the IT state, where there is one.                  *)
LEMMA ValueKeepsIt ==
  ASSUME NEW psr, psr.it \in 0 .. 255, NEW arch, arch # "ARMv6M"
  PROVE  Fields(PsrValue(psr) \cap PsrBits(arch)).it = psr.it
<1> DEFINE bits == PsrValue(psr) \cap PsrBits(arch)
           bit(j) == Bit(psr.it, j)
<1>1. /\ 10 \in bits <=> bit(0) = 1
      /\ 11 \in bits <=> bit(1) = 1
      /\ 12 \in bits <=> bit(2) = 1
      /\ 13 \in bits <=> bit(3) = 1
      /\ 14 \in bits <=> bit(4) = 1
      /\ 15 \in bits <=> bit(5) = 1
      /\ 25 \in bits <=> bit(6) = 1
      /\ 26 \in bits <=> bit(7) = 1
  BY DEF PsrValue, PsrBits
<1>2. /\ bit(0) \in {0, 1} /\ bit(1) \in {0, 1} /\ bit(2) \in {0, 1} /\ bit(3) \in {0, 1}
      /\ bit(4) \in {0, 1} /\ bit(5) \in {0, 1} /\ bit(6) \in {0, 1} /\ bit(7) \in {0, 1}
  BY ItBits
<1>3. psr.it = bit(0) + 2 * bit(1) + 4 * bit(2) + 8 * bit(3) + 16 * bit(4) + 32 * bit(5)
                 + 64 * bit(6) + 128 * bit(7)
  BY ItBits, ItSum
<1> HIDE DEF bits, bit
<1>4. Fields(bits).it = bit(0) + 2 * bit(1) + 4 * bit(2) + 8 * bit(3) + 16 * bit(4) + 32 * bit(5)
                          + 64 * bit(6) + 128 * bit(7)
  BY <1>1, <1>2 DEF Fields
<1> QED BY <1>3, <1>4 DEF bits

(* So is what pop_IT_condition leaves.                                     *)
LEMMA PoppedType == \A it \in 0 .. 255 : Popped(it) \in 0 .. 255
BY DEF Popped

(* The write of PSR after an instruction leaves the IT state as it is.      *)
LEMMA CommittedAfter ==
  ASSUME NEW m, Honest(m, m)
  PROVE  /\ Committed(m).arch = m.arch /\ Committed(m).flash = m.flash
         /\ Committed(m).code = m.code
         /\ m.psr.it \in 0 .. 255 /\ m.arch # "ARMv6M" => Committed(m).psr.it = m.psr.it
<1> DEFINE written == IF m.updated THEN WritePSR(m, PsrValue(m.psr)) ELSE m
<1>1. /\ written.arch = m.arch /\ written.flash = m.flash /\ written.code = m.code
      /\ DOMAIN written = Members
      /\ m.psr.it \in 0 .. 255 /\ m.arch # "ARMv6M" => written.psr.it = m.psr.it
  <2>1. CASE m.updated /\ m.code = "OK"
    <3>1. written = SetPSR(m, PsrValue(m.psr))
      BY <2>1 DEF WritePSR
    <3>2. /\ written.arch = m.arch /\ written.flash = m.flash /\ written.code = m.code
          /\ DOMAIN written = Members
          /\ written.psr = Fields(PsrValue(m.psr) \cap PsrBits(m.arch))
      BY <3>1 DEF SetPSR, Honest, Members
    <3> HIDE DEF written
    <3> QED BY <3>2, ValueKeepsIt, SMTT(30)
  <2>2. CASE ~(m.updated /\ m.code = "OK")
    BY <2>2 DEF WritePSR, Honest
  <2> QED BY <2>1, <2>2
<1>2. Committed(m) = [written EXCEPT !.updated = FALSE, !.branched = FALSE]
  BY DEF Committed
<1> HIDE DEF written
<1> QED BY <1>1, <1>2 DEF Members

(* The lowest 1 of a mask, by cases.                                        *)
LEMMA LowestOfMask ==
  ASSUME NEW mask \in 1 .. 15
  PROVE  LowestOf(BitsOf(mask)) = IF mask % 2 = 1 THEN 0 ELSE IF mask % 4 = 2 THEN 1
                                  ELSE IF mask % 8 = 4 THEN 2 ELSE 3
<1> DEFINE list == BitsOf(mask)
           low == IF mask % 2 = 1 THEN 0 ELSE IF mask % 4 = 2 THEN 1
                  ELSE IF mask % 8 = 4 THEN 2 ELSE 3
<1>1. /\ 0 \in list <=> mask % 2 = 1
      /\ 1 \in list <=> (mask \div 2) % 2 = 1
      /\ 2 \in list <=> (mask \div 4) % 2 = 1
      /\ 3 \in list <=> (mask \div 8) % 2 = 1
  BY DEF BitsOf, IsSet
<1>2. list \subseteq 0 .. 15
  BY DEF BitsOf
<1> HIDE DEF list
<1>3. low \in list /\ \A j \in list : low <= j
  <2>1. low \in list
    BY <1>1
  <2>2. \A j \in list : j \in 0 .. 15
    BY <1>2
  <2>3. (low >= 1 => 0 \notin list) /\ (low >= 2 => 1 \notin list) /\ (low >= 3 => 2 \notin list)
    BY <1>1
  <2>4. low \in 0 .. 3
    OBVIOUS
  <2> HIDE DEF low
  <2> QED BY <2>1, <2>2, <2>3, <2>4
<1> HIDE DEF low
<1>4. \A i \in list : (\A j \in list : i <= j) => i = low
  BY <1>2, <1>3
<1>5. LowestOf(list) = low
  BY <1>3, <1>4 DEF LowestOf
<1> QED BY <1>5 DEF list, low

(* The conditions that an IT state has still to decide by.                  *)
Rest(it) == IF it % 16 = 0 THEN <<>> ELSE BlockConditions(it)

(* BlockConditions, by the position of the lowest 1 of the mask.           *)
LEMMA BlockOfMask ==
  ASSUME NEW it \in 0 .. 255, it % 16 # 0
  PROVE  LET last == IF it % 2 = 1 THEN 4 ELSE IF it % 4 = 2 THEN 3 ELSE IF it % 8 = 4 THEN 2 ELSE 1
         IN  /\ BlockConditions(it) \in Seq(Int) /\ Len(BlockConditions(it)) = last
             /\ BlockConditions(it)[1] = it \div 16
             /\ last >= 2 => BlockConditions(it)[2] = 2 * (it \div 32) + ((it \div 8) % 2)
             /\ last >= 3 => BlockConditions(it)[3] = 2 * (it \div 32) + ((it \div 4) % 2)
             /\ last = 4 => BlockConditions(it)[4] = 2 * (it \div 32) + ((it \div 2) % 2)
<1> DEFINE last == IF it % 2 = 1 THEN 4 ELSE IF it % 4 = 2 THEN 3 ELSE IF it % 8 = 4 THEN 2 ELSE 1
           condition(k) == 2 * (it \div 32) + IF k = 1 THEN Bit(it, 4) ELSE Bit(it, 5 - k)
<1>1. 4 - LowestOf(BitsOf(it % 16)) = last
  <2>1. it % 16 \in 1 .. 15 /\ (it % 16) % 2 = it % 2 /\ (it % 16) % 4 = it % 4
          /\ (it % 16) % 8 = it % 8
    OBVIOUS
  <2> QED BY <2>1, LowestOfMask
<1>2. last \in 1 .. 4
  OBVIOUS
<1>3. /\ condition(1) = it \div 16
      /\ condition(2) = 2 * (it \div 32) + ((it \div 8) % 2)
      /\ condition(3) = 2 * (it \div 32) + ((it \div 4) % 2)
      /\ condition(4) = 2 * (it \div 32) + ((it \div 2) % 2)
  <2>1. condition(1) = 2 * (it \div 32) + Bit(it, 4)
    OBVIOUS
  <2>2. condition(2) = 2 * (it \div 32) + Bit(it, 3)
    OBVIOUS
  <2>3. condition(3) = 2 * (it \div 32) + Bit(it, 2)
    OBVIOUS
  <2>4. condition(4) = 2 * (it \div 32) + Bit(it, 1)
    OBVIOUS
  <2> HIDE DEF condition
  <2> QED BY <2>1, <2>2, <2>3, <2>4, ItBits, SMTT(30)
<1>4. BlockConditions(it) = [k \in 1 .. last |-> condition(k)]
  <2> HIDE DEF last
  <2> QED BY <1>1 DEF BlockConditions
<1>5. \A k \in 1 .. last : condition(k) \in Int
  <2>1. \A k \in 1 .. last : k = 1 \/ k = 2 \/ k = 3 \/ k = 4
    BY <1>2
  <2> HIDE DEF condition, last
  <2> QED BY <1>3, <2>1
<1> HIDE DEF condition, last
<1>6. BlockConditions(it) \in Seq(Int) /\ Len(BlockConditions(it)) = last
  BY <1>2, <1>4, <1>5
<1>7. \A k \in 1 .. last : BlockConditions(it)[k] = condition(k)
  BY <1>4
<1> QED BY <1>2, <1>3, <1>6, <1>7 DEF last

(* What pop_IT_condition does to condition and mask.                       *)
LEMMA PoppedBits ==
  ASSUME NEW it \in 0 .. 255, it % 8 # 0
  PROVE  /\ Popped(it) % 16 = 2 * (it % 8) /\ Popped(it) \div 32 = it \div 32
         /\ Popped(it) \div 16 = 2 * (it \div 32) + ((it \div 8) % 2)
         /\ (Popped(it) \div 8) % 2 = (it \div 4) % 2
         /\ (Popped(it) \div 4) % 2 = (it \div 2) % 2
BY DEF Popped

(* A block has one to four conditions; popping one leaves all others in order.*)
LEMMA RestOfBlock ==
  ASSUME NEW it \in 0 .. 255, it % 16 # 0
  PROVE  /\ Rest(it) \in Seq(Int) /\ Len(Rest(it)) \in 1 .. 4
         /\ Rest(it)[1] = it \div 16
         /\ Len(Rest(it)) = 1 <=> it % 16 = 8
         /\ Len(Rest(Popped(it))) = Len(Rest(it)) - 1
         /\ Rest(Popped(it)) \in Seq(Int)
         /\ \A k \in 1 .. Len(Rest(it)) - 1 : Rest(Popped(it))[k] = Rest(it)[k + 1]
<1> DEFINE c == BlockConditions(it)
           last == Len(c)
           p == Popped(it)
           d == BlockConditions(p)
<1>1. Rest(it) = c
  BY DEF Rest
<1>2. /\ c \in Seq(Int)
      /\ last = IF it % 2 = 1 THEN 4 ELSE IF it % 4 = 2 THEN 3 ELSE IF it % 8 = 4 THEN 2 ELSE 1
      /\ c[1] = it \div 16
      /\ last >= 2 => c[2] = 2 * (it \div 32) + ((it \div 8) % 2)
      /\ last >= 3 => c[3] = 2 * (it \div 32) + ((it \div 4) % 2)
      /\ last = 4 => c[4] = 2 * (it \div 32) + ((it \div 2) % 2)
  BY BlockOfMask
<1>3. last \in 1 .. 4 /\ (last = 1 <=> it % 16 = 8) /\ (last = 1 <=> it % 8 = 0)
  <2> DEFINE mask == it % 16
  <2>1. mask \in 1 .. 15 /\ it % 2 = mask % 2 /\ it % 4 = mask % 4 /\ it % 8 = mask % 8
    OBVIOUS
  <2> HIDE DEF c, last, mask
  <2>2. \/ mask = 1 \/ mask = 2 \/ mask = 3 \/ mask = 4 \/ mask = 5 \/ mask = 6 \/ mask = 7 \/ mask = 8
        \/ mask = 9 \/ mask = 10 \/ mask = 11 \/ mask = 12 \/ mask = 13 \/ mask = 14 \/ mask = 15
    BY <2>1
  <2>3. last = IF mask % 2 = 1 THEN 4 ELSE IF mask % 4 = 2 THEN 3 ELSE IF mask % 8 = 4 THEN 2 ELSE 1
    BY <1>2, <2>1
  <2>4. last \in 1 .. 4 /\ (last = 1 <=> mask = 8) /\ (last = 1 <=> mask % 8 = 0)
    BY <2>2, <2>3
  <2> QED BY <2>1, <2>4 DEF mask
<1> HIDE DEF last
<1>4. CASE it % 8 = 0
  <2>1. Rest(p) = <<>>
    BY <1>4 DEF Popped, Rest
  <2> HIDE DEF c, p
  <2> QED BY <1>1, <1>2, <1>3, <1>4, <2>1 DEF c, p, last
<1>5. CASE it % 8 # 0
  <2>1. p \in 0 .. 255
    BY PoppedType
  <2>2. /\ p % 16 = 2 * (it % 8) /\ p \div 32 = it \div 32
        /\ p \div 16 = 2 * (it \div 32) + ((it \div 8) % 2)
        /\ (p \div 8) % 2 = (it \div 4) % 2
        /\ (p \div 4) % 2 = (it \div 2) % 2
    BY <1>5, PoppedBits
  <2> HIDE DEF p
  <2> DEFINE mask == it % 8
  <2>3. mask \in 1 .. 7 /\ it % 2 = mask % 2 /\ it % 4 = mask % 4
    BY <1>5
  <2>4. /\ p % 16 = 2 * mask
        /\ p % 2 = (2 * mask) % 2 /\ p % 4 = (2 * mask) % 4 /\ p % 8 = (2 * mask) % 8
    <3>1. p % 2 = (p % 16) % 2 /\ p % 4 = (p % 16) % 4 /\ p % 8 = (p % 16) % 8
      BY <2>1
    <3> QED BY <2>2, <3>1
  <2> HIDE DEF mask
  <2>5. mask = 1 \/ mask = 2 \/ mask = 3 \/ mask = 4 \/ mask = 5 \/ mask = 6 \/ mask = 7
    BY <2>3
  <2>6. p % 16 # 0
    BY <2>4, <2>5
  <2>7. /\ d \in Seq(Int)
        /\ Len(d) = IF p % 2 = 1 THEN 4 ELSE IF p % 4 = 2 THEN 3 ELSE IF p % 8 = 4 THEN 2 ELSE 1
        /\ d[1] = p \div 16
        /\ Len(d) >= 2 => d[2] = 2 * (p \div 32) + ((p \div 8) % 2)
        /\ Len(d) >= 3 => d[3] = 2 * (p \div 32) + ((p \div 4) % 2)
    BY <2>1, <2>6, BlockOfMask
  <2>8. Rest(p) = d
    BY <2>6 DEF Rest
  <2> HIDE DEF c, d
  <2>9. Len(d) = last - 1
    <3>1. last = IF mask % 2 = 1 THEN 4 ELSE IF mask % 4 = 2 THEN 3 ELSE IF mask = 4 THEN 2 ELSE 1
      BY <1>2, <2>3 DEF mask
    <3> QED BY <2>7, <2>4, <2>5, <3>1, SMTT(30)
  <2>10. \A k \in 1 .. last - 1 : d[k] = c[k + 1]
    <3>1. \A k \in 1 .. last - 1 : k = 1 \/ k = 2 \/ k = 3
      BY <1>3
    <3>2. ASSUME NEW k \in 1 .. last - 1 PROVE d[k] = c[k + 1]
      <4>1. k + 1 <= last /\ k <= Len(d)
        BY <1>3, <2>9
      <4>2. CASE k = 1
        <5>1. c[2] = 2 * (it \div 32) + ((it \div 8) % 2)
          BY <1>2, <1>3, <4>1, <4>2
        <5> QED BY <2>2, <2>7, <4>2, <5>1
      <4>3. CASE k = 2
        <5>1. c[3] = 2 * (it \div 32) + ((it \div 4) % 2)
          BY <1>2, <1>3, <4>1, <4>3
        <5>2. d[2] = 2 * (p \div 32) + ((p \div 8) % 2)
          BY <1>3, <2>7, <2>9, <4>1, <4>3
        <5> QED BY <2>2, <4>3, <5>1, <5>2
      <4>4. CASE k = 3
        <5>1. c[4] = 2 * (it \div 32) + ((it \div 2) % 2)
          BY <1>2, <1>3, <4>1, <4>4
        <5>2. d[3] = 2 * (p \div 32) + ((p \div 4) % 2)
          BY <1>3, <2>7, <2>9, <4>1, <4>4
        <5> QED BY <2>2, <4>4, <5>1, <5>2
      <4> QED BY <3>1, <4>2, <4>3, <4>4
    <3> QED BY <3>2
  <2> QED BY <1>1, <1>2, <1>3, <2>7, <2>8, <2>9, <2>10 DEF p, last
<1> QED BY <1>4, <1>5

-----------------------------------------------------------------------------
(* What the decoder accepts: IT, CBZ, CBNZ and CPS only outside an IT       *)
(* block, and IT with a mask, in an architecture that has it.               *)

Guarded == {"IT", "CBZ", "CBNZ", "CPS"}

(* What the decoder gives is not one of them, or is refused.               *)
Ordinary(i) == i.code = "OK" => i.name \notin Guarded

(* The name and the code of a decoded instruction.                         *)
LEMMA InsMembers ==
  \A name, ot, members :
    /\ Ins(name, ot, members).name = name
    /\ "imm" \in DOMAIN members => Ins(name, ot, members).imm = members["imm"]
<1> SUFFICES ASSUME NEW name, NEW ot, NEW members
             PROVE  /\ Ins(name, ot, members).name = name
                    /\ "imm" \in DOMAIN members => Ins(name, ot, members).imm = members["imm"]
  OBVIOUS
<1> DEFINE set == Updated(Blank, members)
           last == [name |-> name, ot |-> ot]
<1>1. /\ DOMAIN set = DOMAIN Blank
      /\ "imm" \in DOMAIN members => set["imm"] = members["imm"]
  BY DEF Updated, Blank
<1>2. "name" \in DOMAIN Blank /\ "imm" \in DOMAIN Blank
  BY DEF Blank
<1>3. "name" \in DOMAIN last /\ "imm" \notin DOMAIN last /\ last["name"] = name
  OBVIOUS
<1> HIDE DEF set, last
<1>4. Ins(name, ot, members) = [x \in DOMAIN set |-> IF x \in DOMAIN last THEN last[x] ELSE set[x]]
  BY DEF Ins, Updated, set, last
<1> QED BY <1>1, <1>2, <1>3, <1>4

(* Ins with an ordinary name is ordinary.                                  *)
LEMMA InsOrdinary ==
  \A name, ot, members : name \notin Guarded => Ordinary(Ins(name, ot, members))
BY InsMembers DEF Ordinary

(* Refusals are.                                                           *)
LEMMA RefuseOrdinary == \A code : code # "OK" => Ordinary(Refuse(code))
BY DEF Ordinary, Refuse

(* So is what ARMv7-M has and ARMv6-M has not.                             *)
LEMMA FromOrdinary == \A w, i : Ordinary(i) => Ordinary(From7(w, i))
BY RefuseOrdinary DEF From7

(* Fields of a halfword are numbers below a power of two.                  *)
LEMMA BitsType ==
  \A x \in Int : /\ Bits(x, 12, 11) \in 0 .. 3 /\ Bits(x, 10, 9) \in 0 .. 3
                 /\ Bits(x, 11, 9) \in 0 .. 7 /\ Bits(x, 9, 6) \in 0 .. 15
                 /\ Bits(x, 15, 11) \in 0 .. 31 /\ Bits(x, 15, 10) \in 0 .. 63
                 /\ Bits(x, 11, 6) \in 0 .. 63 /\ Bits(x, 7, 4) \in 0 .. 15
                 /\ Bits(x, 6, 5) \in 0 .. 3 /\ Bits(x, 5, 4) \in 0 .. 3 
                 /\ Bits(x, 8, 7) \in 0 .. 3 /\ Bits(x, 4, 4) \in 0 .. 1
                 /\ Bits(x, 6, 4) \in 0 .. 7 /\ Bits(x, 7, 6) \in 0 .. 3
                 /\ Bits(x, 14, 12) \in 0 .. 7 /\ Bits(x, 7, 0) \in 0 .. 255
                 /\ Bits(x, 11, 8) \in 0 .. 15
BY DEF Bits

(* Encodings of one halfword. *)
LEMMA SmallOrdinary ==
  ASSUME NEW w, w.H \in Int
  PROVE  /\ Ordinary(MovsRegister(w)) /\ Ordinary(ShiftAddSub(w)) /\ Ordinary(MovCmpAddSub(w))
         /\ Ordinary(DataProcessing(w)) /\ Ordinary(AddHigh(w))
         /\ Ordinary(SpecialDataBranchExchange(w)) /\ Ordinary(LoadLiteral(w))
         /\ Ordinary(LoadStoreRegister(w))
         /\ Ordinary(AddToPCorSP(w)) /\ Ordinary(PushPop(w)) /\ Ordinary(StoreLoadMultiple(w))
         /\ Ordinary(ConditionalBranchAndSVC(w)) /\ Ordinary(Branch(w))
         /\ Bits(w.H, 15, 11) \in 12 .. 19 => Ordinary(LoadStoreImmediate(w))
<1> USE InsOrdinary, RefuseOrdinary DEF Guarded
<1>1. Ordinary(MovsRegister(w)) /\ Ordinary(LoadLiteral(w)) /\ Ordinary(AddToPCorSP(w))
  BY DEF MovsRegister, LoadLiteral, AddToPCorSP
<1>2. Ordinary(ShiftAddSub(w))
  <2>1. Bits(w.H, 12, 11) \in 0 .. 3
    BY BitsType
  <2> QED BY <2>1 DEF ShiftAddSub
<1>3. Ordinary(MovCmpAddSub(w))
  BY DEF MovCmpAddSub
<1>4. Ordinary(DataProcessing(w))
  <2> DEFINE name == DataProcessingName[Bits(w.H, 9, 6) + 1]
  <2>1. name \notin Guarded
    BY BitsType DEF DataProcessingName
  <2> HIDE DEF name, Guarded
  <2>2. \A ot, members : Ordinary(Ins(name, ot, members))
    BY <2>1
  <2> QED BY <2>2 DEF DataProcessing, name
<1>5. Ordinary(AddHigh(w))
  BY DEF AddHigh
<1>6. Ordinary(SpecialDataBranchExchange(w))
  BY <1>5, BitsType DEF SpecialDataBranchExchange
<1>7. Ordinary(LoadStoreRegister(w))
  <2>1. Bits(w.H, 11, 9) \in 0 .. 7
    BY BitsType
  <2> QED BY <2>1 DEF LoadStoreRegister
<1>9. Ordinary(PushPop(w)) /\ Ordinary(Branch(w))
  BY DEF PushPop, Branch
<1>10. Ordinary(StoreLoadMultiple(w)) /\ Ordinary(ConditionalBranchAndSVC(w))
  BY DEF StoreLoadMultiple, ConditionalBranchAndSVC
<1>8. Bits(w.H, 15, 11) \in 12 .. 19 => Ordinary(LoadStoreImmediate(w))
  BY DEF LoadStoreImmediate
<1> QED BY <1>1, <1>2, <1>3, <1>4, <1>5, <1>6, <1>7, <1>8, <1>9, <1>10

(* What is decoded in a place of an IT block: nothing that may not be there, *)
(* and an IT only in an architecture that has it, with a mask.               *)
Allowed(w, i) ==
  i.code = "OK" =>
    /\ i.name \in Guarded => ~InIT(w)
    /\ i.name = "IT" => V7(w) /\ i.imm \in 0 .. 255 /\ i.imm % 16 # 0

(* What is ordinary needs no guard.                                        *)
LEMMA OrdinaryAllowed == \A w, i : Ordinary(i) => Allowed(w, i)
BY DEF Ordinary, Allowed, Guarded

(* IT and the hints, by decode_if_then_and_hints.                          *)
LEMMA ItAllowed ==
  ASSUME NEW w, w.H \in Int
  PROVE  Allowed(w, IfThenAndHints(w))
<1> DEFINE imm == Bits(w.H, 7, 0)
           mask == Bits(w.H, 3, 0)
<1>1. imm \in 0 .. 255 /\ mask = imm % 16
  BY DEF Bits
<1> DEFINE it == Ins("IT", "I", [imm |-> imm])
<1>2. it.imm = imm
  BY InsMembers
<1>3. \A n \in 0 .. 4 :
        \A ot, members : Ordinary(Ins(<<"NOP", "YIELD", "WFE", "WFI", "SEV">>[n + 1], ot, members))
  BY InsOrdinary DEF Guarded
<1>4. Bits(w.H, 7, 4) \in 0 .. 15
  BY BitsType
<1>5. CASE mask # 0 /\ IfThenAndHints(w) = it /\ V7(w) /\ ~InIT(w)
  <2> HIDE DEF imm, it
  <2> QED BY <1>1, <1>2, <1>5, Zenon DEF Allowed
<1>6. CASE ~(mask # 0 /\ IfThenAndHints(w) = it /\ V7(w) /\ ~InIT(w))
  <2>1. Ordinary(IfThenAndHints(w))
    BY <1>3, <1>4, <1>6, RefuseOrdinary DEF IfThenAndHints
  <2> QED BY <2>1, OrdinaryAllowed
<1> QED BY <1>5, <1>6

(* Miscellaneous 16-bit instructions.                                      *)
LEMMA MiscellaneousAllowed ==
  ASSUME NEW w, w.H \in Int
  PROVE  Allowed(w, Miscellaneous(w))
<1> USE OrdinaryAllowed, InsOrdinary, RefuseOrdinary
<1>1. Allowed(w, CompareAndBranch(w))
  <2>1. \A name \in {"CBZ", "CBNZ"} :
        \A ot, members : ~InIT(w) => Allowed(w, Ins(name, ot, members))
    BY InsMembers DEF Allowed, Guarded
  <2> QED BY <2>1 DEF CompareAndBranch
<1>2. Allowed(w, ChangeProcessorState(w))
  <2>1. \A ot, members : ~InIT(w) => Allowed(w, Ins("CPS", ot, members))
    BY InsMembers DEF Allowed, Guarded
  <2>2. Bits(w.H, 3, 2) \in Int
    BY DEF Bits
  <2> QED BY <2>1, <2>2 DEF ChangeProcessorState
<1>3. Allowed(w, PushPop(w)) /\ Allowed(w, IfThenAndHints(w))
  BY ItAllowed, SmallOrdinary
<1>4. \A n \in 8 .. 11 :
        \A ot, members : Allowed(w, Ins(<<"SXTH", "SXTB", "UXTH", "UXTB">>[n - 7], ot, members))
  BY DEF Guarded
<1>5. \A name \in {"ADD", "SUB", "REV", "REV16", "REVSH", "BKPT"} :
        \A ot, members : Allowed(w, Ins(name, ot, members))
  BY DEF Guarded
<1>6. \A code : code # "OK" => Allowed(w, Refuse(code))
  OBVIOUS
<1> QED BY <1>1, <1>2, <1>3, <1>4, <1>5, <1>6 DEF Miscellaneous

(* All 16-bit instructions.                                                *)
LEMMA SmallAllowed ==
  ASSUME NEW w, w.H \in Int, InstructionSize(w.H) = 2
  PROVE  Allowed(w, Decode16(w))
<1> DEFINE op5 == Bits(w.H, 15, 11)
           op6 == Bits(w.H, 15, 10)
<1>1. op5 \in 0 .. 31 /\ op6 \in {2 * op5, 2 * op5 + 1} /\ op5 \notin {29, 30, 31}
  BY DEF Bits, InstructionSize
<1>2. Allowed(w, Miscellaneous(w))
  BY MiscellaneousAllowed
<1> HIDE DEF op5, op6
<1> QED BY <1>1, <1>2, SmallOrdinary, OrdinaryAllowed DEF Decode16, op5, op6

(* Encodings of two halfwords: none of them is IT, CBZ, CBNZ or CPS.        *)
LEMMA CheckedOrdinary ==
  \A unexpected, unpredictable, i : Ordinary(i) => Ordinary(Checked(unexpected, unpredictable, i))
BY RefuseOrdinary DEF Checked

(* Load and store multiple, dual and exclusive, table branch.              *)
LEMMA MultipleOrdinary ==
  ASSUME NEW w, w.H \in Int, w.L \in Int
  PROVE  /\ Ordinary(LoadStoreMultipleOrNone(w))
         /\ Bits(w.H, 8, 7) \in 0 .. 3 => Ordinary(DualExclusiveTable(w))
<1> USE RefuseOrdinary, FromOrdinary, CheckedOrdinary
<1> DEFINE op == 2 * Bits(w.H, 8, 7) + Bits(w.H, 4, 4)
<1>1. \A name \in {"STM", "LDM", "LDMDB", "POP", "PUSH", "STMDB", "LDRD", "STRD", "LDREX", "STREX",
                   "TBB", "TBH", "LDREXB", "LDREXH", "STREXB", "STREXH"} :
        \A ot, members : Ordinary(Ins(name, ot, members))
  BY InsOrdinary DEF Guarded
<1>2. op \in Int
  BY DEF Bits
<1>3. op \in 2 .. 5 => Ordinary(LoadStoreMultiple(w))
  <2> HIDE DEF op
  <2> QED BY <1>1, <1>2 DEF LoadStoreMultiple, op
<1>4. Ordinary(LoadStoreMultipleOrNone(w))
  <2> HIDE DEF op
  <2> QED BY <1>3 DEF LoadStoreMultipleOrNone, op
<1>5. Ordinary(LoadStoreDual(w)) /\ Ordinary(Exclusive(w))
  <2>1. Ordinary(LoadStoreDual(w))
    <3> DEFINE name == IF IsSet(w.H, 4) THEN "LDRD" ELSE "STRD"
    <3>1. \A ot, members : Ordinary(Ins(name, ot, members))
      BY <1>1
    <3>2. \A bad, ot, members : Ordinary(Checked(FALSE, bad, Ins(name, ot, members)))
      BY <3>1
    <3> QED BY <3>2, ZenonT(30) DEF LoadStoreDual, name
  <2>2. Ordinary(Exclusive(w))
    BY <1>1 DEF Exclusive
  <2> QED BY <2>1, <2>2
<1>6. Ordinary(ExclusiveByteOrTable(w))
  BY <1>1 DEF ExclusiveByteOrTable
<1>7. Bits(w.H, 5, 4) \in 0 .. 3 /\ Bits(w.H, 8, 7) \in 0 .. 3
  BY BitsType
<1>8. Ordinary(DualExclusiveTable(w))
  BY <1>5, <1>6, <1>7 DEF DualExclusiveTable
<1> QED BY <1>4, <1>8

(* The names of data processing instructions.                              *)
LEMMA OperationNames ==
  /\ \A op \in DOMAIN OperationName : OperationName[op] \notin Guarded
  /\ \A op \in DOMAIN TestName : TestName[op] \notin Guarded
  /\ DOMAIN TestName \subseteq DOMAIN OperationName
<1> DEFINE opcodes == {0, 1, 2, 3, 4, 8, 10, 11, 13, 14}
           names == <<"AND", "BIC", "ORR", "ORN", "EOR", "none", "none", "none", "ADD",
                      "none", "ADC", "SBC", "none", "SUB", "RSB">>
<1>1. \A op \in opcodes : names[op + 1] \notin Guarded
  <2>1. \A k \in 1 .. 15 : names[k] \notin Guarded
    BY DEF Guarded
  <2>2. \A op \in opcodes : op + 1 \in 1 .. 15
    OBVIOUS
  <2> QED BY <2>1, <2>2
<1>2. OperationName = [op \in opcodes |-> names[op + 1]]
  BY DEF OperationName
<1>3. \A op \in {0, 4, 8, 13} : TestName[op] \notin Guarded
  BY DEF TestName, Guarded
<1>4. DOMAIN TestName = {0, 4, 8, 13} /\ {0, 4, 8, 13} \subseteq opcodes
  BY DEF TestName
<1> HIDE DEF opcodes, names
<1> QED BY <1>1, <1>2, <1>3, <1>4

(* Data processing with a shifted register.                                *)
LEMMA ShiftedOrdinary ==
  ASSUME NEW w, w.H \in Int, w.L \in Int
  PROVE  Ordinary(ShiftedRegister(w))
<1> USE RefuseOrdinary, FromOrdinary, CheckedOrdinary
<1> DEFINE op == Bits(w.H, 8, 5)
<1>1. \A name \in {"MOV", "RRX", "MVN"} :
        \A ot, members : Ordinary(Ins(name, ot, members))
  BY InsOrdinary DEF Guarded
<1>2. \A n \in 0 .. 3 :
        \A ot, members : Ordinary(Ins(<<"LSL", "LSR", "ASR", "ROR">>[n + 1], ot, members))
  BY InsOrdinary DEF Guarded
<1>3. Bits(w.L, 5, 4) \in 0 .. 3
  BY BitsType
<1>4. Ordinary(MoveOrShift(w)) /\ Ordinary(MoveNot(w))
  BY <1>1, <1>2, <1>3 DEF MoveOrShift, MoveNot
<1>5. op \in DOMAIN OperationName => Ordinary(ThreeRegisters(w))
  <2> DEFINE name == OperationName[op]
  <2>1. SUFFICES ASSUME op \in DOMAIN OperationName PROVE Ordinary(ThreeRegisters(w))
    OBVIOUS
  <2>2. \A ot, members : Ordinary(Ins(name, ot, members))
    BY <2>1, OperationNames, InsOrdinary
  <2> QED BY <2>2 DEF ThreeRegisters, name
<1>6. op \in DOMAIN TestName => Ordinary(TestRegister(w))
  <2> DEFINE name == TestName[op]
  <2>1. SUFFICES ASSUME op \in DOMAIN TestName PROVE Ordinary(TestRegister(w))
    OBVIOUS
  <2>2. \A ot, members : Ordinary(Ins(name, ot, members))
    BY <2>1, OperationNames, InsOrdinary
  <2> QED BY <2>2 DEF TestRegister, name
<1>7. CASE op \in DOMAIN TestName
  BY <1>4, <1>5, <1>6, <1>7, OperationNames DEF ShiftedRegister
<1>8. CASE op \notin DOMAIN TestName
  BY <1>4, <1>5, <1>8 DEF ShiftedRegister
<1> QED BY <1>7, <1>8

(* Data processing with a modified immediate.                              *)
LEMMA ModifiedOrdinary ==
  ASSUME NEW w, w.H \in Int, w.L \in Int
  PROVE  Ordinary(ModifiedImmediate(w))
<1> USE RefuseOrdinary, FromOrdinary, CheckedOrdinary
<1> DEFINE op == Bits(w.H, 8, 5)
<1>1. \A name \in {"MOV", "MVN"} :
        \A ot, members : Ordinary(Ins(name, ot, members))
  BY InsOrdinary DEF Guarded
<1>2. Ordinary(MoveImmediate(w))
  BY <1>1 DEF MoveImmediate
<1>3. op \in DOMAIN OperationName => Ordinary(TwoRegistersImmediate(w))
  <2> DEFINE name == OperationName[op]
  <2>1. SUFFICES ASSUME op \in DOMAIN OperationName PROVE Ordinary(TwoRegistersImmediate(w))
    OBVIOUS
  <2>2. \A ot, members : Ordinary(Ins(name, ot, members))
    BY <2>1, OperationNames, InsOrdinary
  <2> QED BY <2>2 DEF TwoRegistersImmediate, name
<1>4. op \in DOMAIN TestName => Ordinary(TestImmediate(w))
  <2> DEFINE name == TestName[op]
  <2>1. SUFFICES ASSUME op \in DOMAIN TestName PROVE Ordinary(TestImmediate(w))
    OBVIOUS
  <2>2. \A ot, members : Ordinary(Ins(name, ot, members))
    BY <2>1, OperationNames, InsOrdinary
  <2> QED BY <2>2 DEF TestImmediate, name
<1> QED BY <1>2, <1>3, <1>4 DEF ModifiedImmediate

(* Data processing with a plain immediate.                                 *)
LEMMA PlainOrdinary == \A w : Ordinary(PlainImmediate(w))
<1> SUFFICES ASSUME NEW w PROVE Ordinary(PlainImmediate(w))
  OBVIOUS
<1> USE RefuseOrdinary, FromOrdinary, CheckedOrdinary
<1>1. \A name \in {"ADDW", "SUBW", "MOVT", "MOVW", "SSAT", "USAT", "UBFX", "SBFX", "BFC", "BFI"} :
        \A ot, members : Ordinary(Ins(name, ot, members))
  BY InsOrdinary DEF Guarded
<1>2. Ordinary(AddSubWide(w))
  BY <1>1 DEF AddSubWide
<1>4. Ordinary(MoveWide(w))
  <2> DEFINE imm == 4096 * Hn(w) + SplitImm12(w)
             name == IF IsSet(w.H, 7) THEN "MOVT" ELSE "MOVW"
  <2>1. MoveWide(w) = Checked(FALSE, Ld(w) \in SPorPC, Ins(name, "RI", [Rd |-> Ld(w), imm |-> imm]))
    BY DEF MoveWide
  <2> HIDE DEF imm
  <2> QED BY <2>1, <1>1
<1>3. Ordinary(Saturate(w)) /\ Ordinary(BitFieldExtract(w)) /\ Ordinary(BitFieldInsert(w))
  <2>1. Ordinary(Saturate(w))
    BY <1>1 DEF Saturate
  <2>2. Ordinary(BitFieldExtract(w))
    BY <1>1 DEF BitFieldExtract
  <2>3. Ordinary(BitFieldInsert(w))
    BY <1>1 DEF BitFieldInsert
  <2> QED BY <2>1, <2>2, <2>3
<1> QED BY <1>2, <1>3, <1>4 DEF PlainImmediate

(* Branches and miscellaneous control.                                     *)
LEMMA ControlOrdinary ==
  ASSUME NEW w, w.H \in Int, w.L \in Int
  PROVE  Ordinary(BranchesAndControl(w))
<1> USE RefuseOrdinary, FromOrdinary, CheckedOrdinary
<1>1. \A name \in {"B", "BL", "MSR", "MRS", "UDF", "none", "CLREX", "SSBB", "PSSBB", "DSB", "DMB", "ISB",
                   "CSDB", "DBG"} :
        \A ot, members : Ordinary(Ins(name, ot, members))
  BY InsOrdinary DEF Guarded
<1>2. Ordinary(ConditionalBranchWide(w))
  BY <1>1 DEF ConditionalBranchWide
<1>3. Ordinary(BranchWide(w, "B")) /\ Ordinary(BranchWide(w, "BL"))
  <2> SUFFICES ASSUME NEW name \in {"B", "BL"} PROVE Ordinary(BranchWide(w, name))
    OBVIOUS
  <2>1. \A ot, members : Ordinary(Ins(name, ot, members))
    BY <1>1
  <2>2. \A imm : Ordinary(Checked(FALSE, MidIT(w), Ins(name, "I", [imm |-> imm])))
    BY <2>1
  <2> QED BY <2>2 DEF BranchWide
<1>4. Ordinary(MoveToSpecial(w)) /\ Ordinary(MoveFromSpecial(w))
  BY <1>1 DEF MoveToSpecial, MoveFromSpecial
<1>5. Ordinary(HintsWide(w))
  <2> DEFINE hint == Bits(w.L, 7, 0)
             name == CASE hint < 5 -> <<"NOP", "YIELD", "WFE", "WFI", "SEV">>[hint + 1]
                       [] hint = 20 -> "CSDB"
                       [] hint >= 240 -> "DBG"
                       [] OTHER -> "none"
  <2>1. hint \in 0 .. 255
    BY BitsType
  <2> HIDE DEF hint
  <2>2. name \notin Guarded
    <3>1. \A n \in 0 .. 4 : <<"NOP", "YIELD", "WFE", "WFI", "SEV">>[n + 1] \notin Guarded
      BY DEF Guarded
    <3>2. hint < 5 => hint \in 0 .. 4
      BY <2>1
    <3>3. "CSDB" \notin Guarded /\ "DBG" \notin Guarded /\ "none" \notin Guarded
      BY DEF Guarded
    <3> QED BY <3>1, <3>2, <3>3
  <2>3. \A ot, members : Ordinary(Ins(name, ot, members))
    BY <2>2, InsOrdinary
  <2>4. HintsWide(w) = CASE Bits(w.L, 10, 8) # 0 -> Refuse("UNDEFINED")
                         [] Bits(w.L, 10, 8) = 0 /\ name = "none" -> Refuse("UNKNOWN_INSTRUCTION")
                         [] OTHER -> From7(w, Checked(Hn(w) # 15 \/ IsSet(w.L, 13) \/ IsSet(w.L, 11),
                                                      FALSE, Ins(name, "NONE", <<>>)))
    BY DEF HintsWide, hint
  <2> HIDE DEF name
  <2> QED BY <2>3, <2>4
<1>6. Ordinary(Barriers(w))
  BY <1>1 DEF Barriers
<1>7. Ordinary(MiscellaneousControl(w))
  BY <1>1, <1>2, <1>4, <1>5, <1>6 DEF MiscellaneousControl
<1> QED BY <1>3, <1>7 DEF BranchesAndControl

(* Loads and stores of one register, and memory hints.                     *)
LEMMA MemoryOrdinary ==
  ASSUME NEW w, w.H \in Int, w.L \in Int
  PROVE  Ordinary(LoadStoreSingle(w))
<1> USE RefuseOrdinary, FromOrdinary, CheckedOrdinary
<1>1. \A size \in {"byte", "half", "word"} : \A k \in {1, 2} : StoreName[size][k] \notin Guarded
  BY DEF StoreName, Guarded
<1>2. \A size \in {"byte", "half", "word"} :
        Ordinary(StoreImmediate(w, size)) /\ Ordinary(StoreRegister(w, size))
  <2> SUFFICES ASSUME NEW size \in {"byte", "half", "word"}
               PROVE  Ordinary(StoreImmediate(w, size)) /\ Ordinary(StoreRegister(w, size))
    OBVIOUS
  <2>1. \A k \in {1, 2} :
        \A ot, members : Ordinary(Ins(StoreName[size][k], ot, members))
    BY <1>1, InsOrdinary
  <2>2. Ordinary(StoreImmediate(w, size))
    <3> DEFINE name == StoreName[size][IF ~IsSet(w.H, 7) /\ Bits(w.L, 10, 8) = 6 THEN 2 ELSE 1]
    <3>1. \A ot, members : Ordinary(Ins(name, ot, members))
      BY <2>1
    <3>2. \A i : Ordinary(i) => Ordinary(CheckedIndex(w, i))
      BY DEF CheckedIndex
    <3> QED BY <3>1, <3>2 DEF StoreImmediate, name
  <2>3. Ordinary(StoreRegister(w, size))
    BY <2>1 DEF StoreRegister
  <2> QED BY <2>2, <2>3
<1>3. Ordinary(StoreSingle(w))
  <2>1. Bits(w.H, 6, 5) \in 0 .. 3
    BY BitsType
  <2>2. \A n \in 0 .. 2 : <<"byte", "half", "word">>[n + 1] \in {"byte", "half", "word"}
    OBVIOUS
  <2> QED BY <1>2, <2>1, <2>2 DEF StoreSingle
<1>4. \A name \in {"PLI", "PLD", "NOP", "LDR", "LDRT"} :
        \A ot, members : Ordinary(Ins(name, ot, members))
  BY InsOrdinary DEF Guarded
<1>5. Ordinary(Preload(w))
  BY <1>4 DEF Preload
<1>10. Ordinary(HalfwordHint(w))
  BY <1>4 DEF HalfwordHint
<1>11. \A name, badT : name \notin Guarded => /\ Ordinary(Literal(w, name, badT))
                                              /\ Ordinary(ByImmediate(w, name, badT))
                                              /\ Ordinary(Unindexed(w, name))
  BY InsOrdinary DEF Literal, ByImmediate, Unindexed, CheckedIndex
<1>6. Ordinary(LoadWord(w))
  <2>1. "LDR" \notin Guarded /\ "LDRT" \notin Guarded
    BY DEF Guarded
  <2> QED BY <1>4, <1>11, <2>1 DEF LoadWord
<1>7. ASSUME NEW names, \A k \in 1 .. 4 : names[k] \notin Guarded
      PROVE  Ordinary(LoadPart(w, names))
  <2> DEFINE signed == IF IsSet(w.H, 8) THEN 2 ELSE 1
  <2>1. names[signed] \notin Guarded /\ names[signed + 2] \notin Guarded
    BY <1>7
  <2> HIDE DEF signed
  <2> QED BY <1>11, <2>1, InsOrdinary DEF LoadPart, signed
<1>8. Ordinary(LoadByte(w))
  <2> DEFINE names == <<"LDRB", "LDRSB", "LDRBT", "LDRSBT">>
  <2>1. \A k \in 1 .. 4 : names[k] \notin Guarded
    BY DEF Guarded
  <2> HIDE DEF names
  <2>2. Ordinary(LoadPart(w, names))
    BY <1>7, <2>1
  <2> QED BY <1>5, <2>2 DEF LoadByte, Known7, names
<1>9. Ordinary(LoadHalfword(w))
  <2> DEFINE names == <<"LDRH", "LDRSH", "LDRHT", "LDRSHT">>
  <2>1. \A k \in 1 .. 4 : names[k] \notin Guarded
    BY DEF Guarded
  <2> HIDE DEF names
  <2>2. Ordinary(LoadPart(w, names))
    BY <1>7, <2>1
  <2> QED BY <1>10, <2>2 DEF LoadHalfword, Known7, names
<1> QED BY <1>3, <1>6, <1>8, <1>9 DEF LoadStoreSingle

(* Data processing with registers, and multiplication.                     *)
LEMMA RegisterOrdinary ==
  ASSUME NEW w, w.H \in Int, w.L \in Int
  PROVE  Ordinary(RegisterOperations(w))
<1> USE RefuseOrdinary, FromOrdinary, CheckedOrdinary
<1>1. /\ Bits(w.H, 6, 5) \in 0 .. 3 /\ Bits(w.L, 5, 4) \in 0 .. 3 /\ Bits(w.H, 7, 4) \in 0 .. 15
  BY BitsType
<1>2. Ordinary(ShiftByRegister(w))
  <2>1. \A n \in 0 .. 3 :
        \A ot, members : Ordinary(Ins(<<"LSL", "LSR", "ASR", "ROR">>[n + 1], ot, members))
    BY InsOrdinary DEF Guarded
  <2> QED BY <1>1, <2>1 DEF ShiftByRegister
<1>3. Ordinary(ParallelArithmetic(w))
  BY DEF ParallelArithmetic
<1>4. Ordinary(ReverseOrCount(w))
  <2>1. \A n \in 0 .. 3 :
        \A ot, members : Ordinary(Ins(<<"REV", "REV16", "RBIT", "REVSH">>[n + 1], ot, members))
    BY InsOrdinary DEF Guarded
  <2>2. \A ot, members : Ordinary(Ins("CLZ", ot, members))
    BY InsOrdinary DEF Guarded
  <2> QED BY <1>1, <2>1, <2>2 DEF ReverseOrCount
<1>5. Ordinary(Extend(w))
  <2>1. \A n \in 0 .. 5 :
        \A ot, members : Ordinary(Ins(<<"SXTH", "UXTH", "none", "none", "SXTB", "UXTB">>[n + 1], ot, members))
    BY InsOrdinary DEF Guarded
  <2> QED BY <1>1, <2>1 DEF Extend
<1>6. \A name \in {"MLA", "MUL", "MLS", "SMULL", "UMULL", "SMLAL", "UMLAL", "SDIV", "UDIV"} :
        \A ot, members : Ordinary(Ins(name, ot, members))
  BY InsOrdinary DEF Guarded
<1>7. Ordinary(Multiply(w))
  BY <1>6 DEF Multiply
<1>8. Ordinary(MultiplyLongOrDivide(w))
  BY <1>6 DEF MultiplyLongOrDivide
<1>9. Ordinary(DataProcessingRegister(w))
  BY <1>2, <1>3, <1>4, <1>5 DEF DataProcessingRegister
<1> QED BY <1>7, <1>8, <1>9 DEF RegisterOperations

(* What the decoder gives, for any two halfwords.                          *)
LEMMA DecodedAllowed ==
  ASSUME NEW w, w.H \in Int, w.L \in Int
  PROVE  Allowed(w, Decode(w))
<1>1. CASE InstructionSize(w.H) = 2
  BY <1>1, SmallAllowed DEF Decode
<1>2. CASE InstructionSize(w.H) # 2
  <2> DEFINE op1 == Bits(w.H, 12, 11)
             op2 == Bits(w.H, 10, 9)
  <2>1. op1 \in 1 .. 3 /\ op2 \in 0 .. 3
    <3>1. Bits(w.H, 15, 11) \in {29, 30, 31}
      BY <1>2 DEF InstructionSize
    <3>2. op1 = Bits(w.H, 15, 11) % 4 /\ op2 \in 0 .. 3
      BY DEF Bits
    <3> QED BY <3>1, <3>2
  <2>2. Ordinary(Coprocessor(w))
    BY RefuseOrdinary, FromOrdinary DEF Coprocessor
  <2>3. Bits(w.H, 8, 7) \in 0 .. 3
    BY BitsType
  <2> HIDE DEF op1, op2
  <2>4. Ordinary(Decode32(w))
    BY <2>1, <2>2, <2>3, MultipleOrdinary, ShiftedOrdinary, ModifiedOrdinary, PlainOrdinary,
       ControlOrdinary, MemoryOrdinary, RegisterOrdinary DEF Decode32, op1, op2
  <2> QED BY <1>2, <2>4, OrdinaryAllowed DEF Decode
<1> QED BY <1>1, <1>2

-----------------------------------------------------------------------------
(* The bytes of the flash.                                                  *)

(* Bytes and halfwords, the numbers that they may be. *)
Byte == {x \in Int : 0 <= x /\ x < 256}

Halfword == {x \in Int : 0 <= x /\ x < 65536}

(* What is fetched are halfwords, and its size is two bytes or four.        *)
LEMMA FetchedHalfwords ==
  ASSUME NEW m, NEW n \in Nat, m.flash \in [0 .. n - 1 -> Byte],
         ValidateAddress(m, m.reg[PC]) = "OK"
  PROVE  /\ Fetched(m).H \in Halfword /\ Fetched(m).L \in Halfword
         /\ SizeAt(m, m.reg[PC]) \in {2, 4} /\ m.reg[PC] \in Nat
         /\ \A k \in 0 .. SizeAt(m, m.reg[PC]) - 1 : m.reg[PC] + k \in 0 .. n - 1
<1> DEFINE pc == m.reg[PC]
           size == SizeAt(m, pc)
<1>1. size \in {2, 4}
  BY DEF SizeAt, InstructionSize
<1>2. /\ pc \in 0 .. n - 1 /\ pc + 1 \in 0 .. n - 1
      /\ pc + size - 1 \in 0 .. n - 1
  <2>1. InFlash(m, pc, 2) /\ InFlash(m, pc, size)
    BY DEF ValidateAddress
  <2>2. pc \in DOMAIN m.flash /\ pc + 2 - 1 \in DOMAIN m.flash /\ pc + size - 1 \in DOMAIN m.flash
    BY <2>1 DEF InFlash
  <2> HIDE DEF pc, size
  <2> QED BY <1>1, <2>2, SMTT(30)
<1> HIDE DEF pc, size
<1>3. \A k \in 0 .. size - 1 : pc + k \in 0 .. n - 1
  BY <1>1, <1>2
<1>4. \A a \in 0 .. n - 1 : m.flash[a] \in Byte
  OBVIOUS
<1>5. HalfwordAt(m, pc) \in Halfword
  <2>1. \A a, b \in Byte : a + 256 * b \in Halfword
    BY DEF Byte, Halfword
  <2> QED BY <1>2, <1>4, <2>1, SMTT(30) DEF HalfwordAt
<1>6. size = 4 => HalfwordAt(m, pc + 2) \in Halfword
  <2>1. size = 4 => pc + 2 \in 0 .. n - 1 /\ pc + 2 + 1 \in 0 .. n - 1
    BY <1>2
  <2>2. \A a, b \in Byte : a + 256 * b \in Halfword
    BY DEF Byte, Halfword
  <2> QED BY <1>4, <2>1, <2>2, SMTT(30) DEF HalfwordAt
<1>7. Fetched(m).H = HalfwordAt(m, pc) /\ Fetched(m).L = IF size = 4 THEN HalfwordAt(m, pc + 2) ELSE 0
  BY DEF Fetched, pc, size
<1>8. 0 \in Halfword
  BY DEF Halfword
<1> QED BY <1>1, <1>2, <1>3, <1>5, <1>6, <1>7, <1>8 DEF pc, size

(* Flipping a bit of a byte makes a byte.                                   *)
LEMMA FlippedByte == \A byte \in Byte, i \in 0 .. 7 : Flipped(byte, i) \in Byte
<1> SUFFICES ASSUME NEW byte \in Byte, NEW i \in 0 .. 7 PROVE Flipped(byte, i) \in Byte
  OBVIOUS
<1> USE DEF Byte, Flipped, IsSet
<1>0. 2^0 = 1 /\ 2^1 = 2 /\ 2^2 = 4 /\ 2^3 = 8 /\ 2^4 = 16 /\ 2^5 = 32 /\ 2^6 = 64 /\ 2^7 = 128
  OBVIOUS
<1>1. CASE i = 0
  BY <1>0, <1>1
<1>2. CASE i = 1
  BY <1>0, <1>2
<1>3. CASE i = 2
  BY <1>0, <1>3
<1>4. CASE i = 3
  BY <1>0, <1>4
<1>5. CASE i = 4
  BY <1>0, <1>5
<1>6. CASE i = 5
  BY <1>0, <1>6
<1>7. CASE i = 6
  BY <1>0, <1>7
<1>8. CASE i = 7
  BY <1>0, <1>8
<1> QED BY <1>1, <1>2, <1>3, <1>4, <1>5, <1>6, <1>7, <1>8

(* What an instruction fault writes are bytes.                              *)
LEMMA ManipulatedBytes ==
  ASSUME NEW size \in {2, 4}, NEW original \in [0 .. size - 1 -> Byte],
         NEW model \in InstructionModel, NEW iteration \in InstructionIterations(model, size)
  PROVE  ManipulatedInstruction(model, iteration, original) \in [0 .. size - 1 -> Byte]
<1> DEFINE written == ManipulatedInstruction(model, iteration, original)
<1>1. Cardinality(DOMAIN original) = size
  <2>1. Cardinality(0 .. size - 1) = size
    <3>1. Cardinality(0 .. size - 1) = IF 0 > size - 1 THEN 0 ELSE size - 1 - 0 + 1
      <4> DEFINE high == size - 1
      <4>1. high \in Int
        OBVIOUS
      <4> HIDE DEF high
      <4>2. Cardinality(0 .. high) = IF 0 > high THEN 0 ELSE high - 0 + 1
        BY <4>1, FS_Interval
      <4> QED BY <4>2 DEF high
    <3> QED BY <3>1
  <2>2. DOMAIN original = 0 .. size - 1
    OBVIOUS
  <2> QED BY <2>1, <2>2
<1>2. CASE model = "skip"
  <2>1. \A k \in 0 .. 3 : <<175, 243, 0, 128>>[k + 1] \in Byte
    BY DEF Byte
  <2>2. \A k \in 0 .. 1 : <<0, 191>>[k + 1] \in Byte
    BY DEF Byte
  <2> DEFINE value(k) == IF size = 4 THEN <<175, 243, 0, 128>>[k + 1] ELSE <<0, 191>>[k + 1]
  <2>3. written = [k \in 0 .. size - 1 |-> value(k)]
    BY <1>1, <1>2 DEF ManipulatedInstruction
  <2>4. \A k \in 0 .. size - 1 : value(k) \in Byte
    <3>1. CASE size = 4
      BY <2>1, <3>1
    <3>2. CASE size = 2
      BY <2>2, <3>2
    <3> QED BY <3>1, <3>2
  <2> HIDE DEF value, written
  <2> QED BY <2>3, <2>4 DEF written
<1>3. CASE model \in {"byte_set", "byte_clear"}
  <2>1. written = [original EXCEPT ![iteration] = 255] \/ written = [original EXCEPT ![iteration] = 0]
    BY <1>3 DEF ManipulatedInstruction
  <2> HIDE DEF written
  <2>2. \A k \in 0 .. size - 1 : original[k] \in Byte
    OBVIOUS
  <2>3. 255 \in Byte /\ 0 \in Byte
    BY DEF Byte
  <2> QED BY <2>1, <2>2, <2>3 DEF written
<1>4. CASE model = "bit_flip"
  <2>1. iteration \in 0 .. 8 * size - 1
    BY <1>4 DEF InstructionIterations
  <2>2. iteration \div 8 \in 0 .. size - 1 /\ iteration % 8 \in 0 .. 7
    BY <2>1
  <2>4. Flipped(original[iteration \div 8], iteration % 8) \in Byte
    BY <2>2, FlippedByte
  <2> QED BY <1>4, <2>2, <2>4 DEF ManipulatedInstruction
<1> QED BY <1>2, <1>3, <1>4 DEF InstructionModel

(* The bytes of a program.                                                 *)
LEMMA BytesOfProgram ==
  ASSUME NEW S, S \subseteq Halfword, NEW program \in Seq(S)
  PROVE  2 * Len(program) \in Nat /\ Bytes(program) \in [0 .. 2 * Len(program) - 1 -> Byte]
<1> DEFINE n == Len(program)
           byte(a) == IF a % 2 = 0 THEN program[a \div 2 + 1] % 256 ELSE program[a \div 2 + 1] \div 256
<1>1. n \in Nat /\ \A k \in 1 .. n : program[k] \in Halfword
  OBVIOUS
<1>2. Bytes(program) = [a \in 0 .. 2 * n - 1 |-> byte(a)]
  BY DEF Bytes
<1> HIDE DEF n
<1>3. \A a \in 0 .. 2 * n - 1 : a \div 2 + 1 \in 1 .. n
  <2> SUFFICES ASSUME NEW a \in 0 .. 2 * n - 1 PROVE a \div 2 + 1 \in 1 .. n
    OBVIOUS
  <2>1. a \in Nat /\ a < 2 * n
    BY <1>1
  <2> QED BY <1>1, <2>1
<1>4. \A a \in 0 .. 2 * n - 1 : byte(a) \in Byte
  <2> SUFFICES ASSUME NEW a \in 0 .. 2 * n - 1 PROVE byte(a) \in Byte
    OBVIOUS
  <2> DEFINE halfword == program[a \div 2 + 1]
  <2>1. halfword \in Halfword
    BY <1>1, <1>3
  <2> HIDE DEF halfword
  <2>2. halfword % 256 \in Byte /\ halfword \div 256 \in Byte
    BY <2>1 DEF Byte, Halfword
  <2> QED BY <2>2 DEF halfword
<1> HIDE DEF byte
<1>5. 2 * n \in Nat
  BY <1>1
<1> QED BY <1>2, <1>4, <1>5 DEF n

(* Bytes stay bytes when some are written over.                            *)
LEMMA UpdatedBytes ==
  ASSUME NEW n \in Nat, NEW flash \in [0 .. n - 1 -> Byte], NEW values,
         \A a \in DOMAIN values : values[a] \in Byte
  PROVE  Updated(flash, values) \in [0 .. n - 1 -> Byte]
BY DEF Updated

-----------------------------------------------------------------------------
(* Between two instructions.                                                *)

LEMMA MirroredHonest == \A m : Mirrored(m) /\ m.code = "OK" => Honest(m, m)
BY DEF Mirrored, Honest, Fields

(* The write of PSR when m_psr_updated makes up for what execute has done.  *)
LEMMA CommittedMirrored == \A m : Honest(m, m) => Mirrored(Committed(m))
<1> SUFFICES ASSUME NEW m, Honest(m, m) PROVE Mirrored(Committed(m))
  OBVIOUS
<1> DEFINE written == IF m.updated THEN WritePSR(m, PsrValue(m.psr)) ELSE m
<1>1. Mirrored(written)
  <2>1. CASE m.updated /\ m.code = "OK"
    BY <2>1, SetMirrored DEF WritePSR, Honest
  <2>2. CASE m.code # "OK"
    BY <2>2 DEF WritePSR, Honest, Mirrored
  <2>3. CASE ~m.updated
    BY <2>3 DEF Honest, Mirrored
  <2> QED BY <2>1, <2>2, <2>3
<1>2. \A n : Mirrored(n) => Mirrored([n EXCEPT !.updated = FALSE, !.branched = FALSE])
  BY DEF Mirrored, Members
<1> HIDE DEF written
<1>3. Committed(m) = [written EXCEPT !.updated = FALSE, !.branched = FALSE]
  BY DEF Committed, written
<1> QED BY <1>1, <1>2, <1>3

(* clock_cpu leaves the copies equal.                                      *)
LEMMA ClockMirrored == \A m : Mirrored(m) /\ m.code = "OK" => Mirrored(ClockCPU(m).m)
<1> SUFFICES ASSUME NEW m, Mirrored(m), m.code = "OK" PROVE Mirrored(ClockCPU(m).m)
  OBVIOUS
<1> DEFINE code == ValidateAddress(m, m.reg[PC])
           i == Decode(Fetched(m))
           executed == Execute(m, i, SizeAt(m, m.reg[PC]))
<1>1. Honest(m, m)
  BY MirroredHonest
<1>2. Mirrored(Committed(executed))
  <2>1. After(m, executed)
    BY <1>1, ExecuteAfter
  <2> QED BY <2>1, CommittedMirrored DEF After
<1>3. \A c : c # "OK" => Mirrored(Fail(m, c))
  BY DEF Mirrored, Fail, Members
<1>4. /\ code # "OK" => ClockCPU(m).m = Fail(m, code)
      /\ code = "OK" /\ i.code # "OK" => ClockCPU(m).m = Fail(m, i.code)
      /\ code = "OK" /\ i.code = "OK" => ClockCPU(m).m = Committed(executed)
  BY DEF ClockCPU, IsOK
<1> HIDE DEF code, i, executed
<1> QED BY <1>2, <1>3, <1>4

(* What a clocked instruction does to the IT state; an MSR in a block may   *)
(* step on or write the state from before.                                  *)
Stepped(m, clocked) ==
  /\ clocked.m.arch = m.arch /\ clocked.m.flash = m.flash
  /\ IsOK(clocked.i) =>
       /\ clocked.i.name \in Guarded => ~InITBlock(m)
       /\ clocked.i.name = "IT" =>
            m.arch # "ARMv6M" /\ clocked.i.imm \in 0 .. 255 /\ clocked.i.imm % 16 # 0
  /\ clocked.m.code = "OK" =>
       /\ IsOK(clocked.i)
       /\ m.arch # "ARMv6M" =>
            /\ clocked.i.name = "IT" => clocked.m.psr.it = clocked.i.imm
            /\ clocked.i.name # "IT" /\ (~InITBlock(m) \/ clocked.i.name \in HintName) =>
                 clocked.m.psr.it = m.psr.it
            /\ clocked.i.name \notin HintName \union {"IT", "MSR"} /\ InITBlock(m) =>
                 clocked.m.psr.it = Popped(m.psr.it)
            /\ clocked.i.name = "MSR" => clocked.m.psr.it \in {m.psr.it, Popped(m.psr.it)}

(* clock_cpu steps so.                                                     *)
LEMMA ClockStepped ==
  ASSUME NEW m, Mirrored(m), m.code = "OK", NEW n \in Nat, m.flash \in [0 .. n - 1 -> Byte]
  PROVE  Stepped(m, ClockCPU(m))
<1> DEFINE pc == m.reg[PC]
           w == Fetched(m)
           i == Decode(w)
           executed == Execute(m, i, SizeAt(m, pc))
<1>1. Honest(m, m) /\ DOMAIN m = Members /\ m.psr.it \in 0 .. 255 /\ m.psr.it = Fields(m.xpsr).it
  <2>1. m.psr = Fields(m.xpsr) /\ DOMAIN m = Members
    BY DEF Mirrored
  <2> QED BY <2>1, MirroredHonest, FieldsType
<1>2. CASE ValidateAddress(m, pc) # "OK"
  <2>1. ClockCPU(m) = [m |-> Fail(m, ValidateAddress(m, pc)), i |-> Refuse(ValidateAddress(m, pc))]
    BY <1>2 DEF ClockCPU
  <2> QED BY <1>1, <1>2, <2>1 DEF Stepped, Fail, Refuse, IsOK, Members
<1>3. CASE ValidateAddress(m, pc) = "OK" /\ ~IsOK(i)
  <2>1. ClockCPU(m) = [m |-> Fail(m, i.code), i |-> i]
    BY <1>3 DEF ClockCPU
  <2> HIDE DEF i
  <2> QED BY <1>1, <1>3, <2>1 DEF Stepped, Fail, IsOK, Members
<1>4. CASE ValidateAddress(m, pc) = "OK" /\ IsOK(i)
  <2>1. w.H \in Int /\ w.L \in Int
    BY <1>4, FetchedHalfwords DEF Halfword
  <2>2. Allowed(w, i)
    BY <2>1, DecodedAllowed
  <2>3. /\ InIT(w) <=> InITBlock(m)
        /\ V7(w) <=> m.arch # "ARMv6M"
    BY DEF InIT, V7, Fetched, Position
  <2>4. ClockCPU(m).m = Committed(executed) /\ ClockCPU(m).i = i
    BY <1>4 DEF ClockCPU
  <2> HIDE DEF i
  <2>5. /\ After(m, executed)
        /\ i.name = "IT" => executed.psr.it = i.imm
        /\ i.name \in Unconditional \ {"IT"} => executed.psr.it = m.psr.it
        /\ executed.code = "OK" /\ i.name \notin Unconditional /\ ~InITBlock(m) =>
             executed.psr.it = m.psr.it
        /\ executed.code = "OK" /\ i.name \notin Unconditional /\ InITBlock(m) /\ i.name # "MSR" =>
             executed.psr.it = Popped(m.psr.it)
        /\ executed.code = "OK" /\ i.name = "MSR" => executed.psr.it \in {m.psr.it, Popped(m.psr.it)}
        /\ executed.code = "OK" => i.name # "UDF"
    BY <1>1, ExecuteAfter
  <2> HIDE DEF executed, w
  <2>6. Honest(executed, executed) /\ executed.arch = m.arch /\ executed.flash = m.flash
    BY <2>5 DEF After
  <2>7. /\ Committed(executed).arch = m.arch /\ Committed(executed).flash = m.flash
        /\ Committed(executed).code = executed.code
        /\ executed.psr.it \in 0 .. 255 /\ m.arch # "ARMv6M" =>
             Committed(executed).psr.it = executed.psr.it
    BY <2>6, CommittedAfter
  <2>8. /\ i.name \in Guarded => ~InITBlock(m)
        /\ i.name = "IT" => m.arch # "ARMv6M" /\ i.imm \in 0 .. 255 /\ i.imm % 16 # 0
    BY <1>4, <2>2, <2>3 DEF Allowed, IsOK
  <2>9. "IT" \notin HintName /\ HintName \subseteq Unconditional
    BY DEF HintName, Unconditional
  <2>10. Popped(m.psr.it) \in 0 .. 255
    BY <1>1, PoppedType
  <2>11. executed.code = "OK" =>
           /\ i.name = "IT" => executed.psr.it = i.imm
           /\ i.name # "IT" /\ (~InITBlock(m) \/ i.name \in HintName) => executed.psr.it = m.psr.it
           /\ i.name \notin HintName \union {"IT", "MSR"} /\ InITBlock(m) =>
                executed.psr.it = Popped(m.psr.it)
           /\ i.name = "MSR" => executed.psr.it \in {m.psr.it, Popped(m.psr.it)}
    <3>1. i.name \in Unconditional => i.name \in HintName \union Guarded \union {"UDF"}
      BY DEF Unconditional, Guarded
    <3> QED BY <2>5, <2>8, <2>9, <3>1
  <2>12. executed.code = "OK" => executed.psr.it \in 0 .. 255
    BY <1>1, <2>8, <2>10, <2>11
  <2> QED BY <1>4, <2>4, <2>7, <2>8, <2>11, <2>12 DEF Stepped
<1> QED BY <1>2, <1>3, <1>4

(* Faults that are written, or put back.                                    *)
LEMMA WrittenMirrored ==
  \A m, r, bits : Mirrored(m) => Mirrored(SetRegister(m, r, bits))
<1> SUFFICES ASSUME NEW m, NEW r, NEW bits, Mirrored(m) PROVE Mirrored(SetRegister(m, r, bits))
  OBVIOUS
<1>1. DOMAIN m = Members
  BY DEF Mirrored
<1>2. Mirrored([m EXCEPT !.reg[r] = Wrap(Number(bits))])
  BY DEF Mirrored, Members
<1> QED BY <1>1, <1>2, SetMirrored DEF SetRegister

(* Leaving the hook for the loop.                                          *)
LEMMA ResumedMirrored == \A m : Mirrored(m) => Mirrored(Resumed(m))
BY DEF Mirrored, Resumed, Members

(* A write to the flash.                                                   *)
LEMMA FlashMirrored == \A m, flash : Mirrored(m) => Mirrored([m EXCEPT !.flash = flash])
BY DEF Mirrored, Members

(* What faults leave alone: everything but registers and the flash, unless  *)
(* the register is PSR.                                                     *)
Same(m, n) == n.arch = m.arch /\ n.psr = m.psr /\ n.code = m.code

(* A register fault in another register.                                   *)
LEMMA WrittenSame ==
  \A m, r, bits : DOMAIN m = Members =>
    LET n == SetRegister(m, r, bits)
    IN  /\ r # PSR => Same(m, n)
        /\ DOMAIN n = Members /\ n.arch = m.arch /\ n.flash = m.flash /\ n.code = m.code
BY DEF SetRegister, SetPSR, Same, Members

(* The return from the hook.                                               *)
LEMMA ResumedSame ==
  \A m : DOMAIN m = Members =>
    DOMAIN Resumed(m) = Members /\ Same(m, Resumed(m)) /\ Resumed(m).flash = m.flash
BY DEF Resumed, Same, Members

(* A write to the flash.                                                   *)
LEMMA FlashSame ==
  \A m, flash : DOMAIN m = Members =>
    LET n == [m EXCEPT !.flash = flash]
    IN  DOMAIN n = Members /\ Same(m, n) /\ n.flash = flash
BY DEF Same, Members

(* What a transient or instruction fault puts back.                        *)
LEMMA PutBackAfter ==
  ASSUME NEW clocked, Mirrored(clocked.m)
  PROVE  /\ Mirrored(PutBack(clocked))
         /\ PutBack(clocked).arch = clocked.m.arch /\ PutBack(clocked).code = clocked.m.code
         /\ ~(pending.kind = "transient" /\ pending.register = PSR) =>
              PutBack(clocked).psr = clocked.m.psr
         /\ PutBack(clocked).flash = IF pending.kind = "instruction"
                                     THEN Updated(clocked.m.flash, pending.original)
                                     ELSE clocked.m.flash
<1> DEFINE m == clocked.m
           flash == Updated(m.flash, pending.original)
           restored == [m EXCEPT !.flash = flash]
           written == SetRegister(m, pending.register, pending.original)
<1>1. DOMAIN m = Members
  BY DEF Mirrored
<1>2. CASE pending.kind = "instruction"
  <2>1. PutBack(clocked) = Resumed(restored)
    BY <1>2 DEF PutBack
  <2> HIDE DEF flash
  <2>2. /\ DOMAIN restored = Members /\ Same(m, restored) /\ restored.flash = flash
        /\ Mirrored(restored)
    BY <1>1, FlashSame, FlashMirrored
  <2> HIDE DEF restored
  <2>3. Mirrored(Resumed(restored)) /\ Same(restored, Resumed(restored))
          /\ Resumed(restored).flash = flash
    BY <2>2, ResumedSame, ResumedMirrored
  <2> QED BY <1>2, <2>1, <2>2, <2>3 DEF Same, flash
<1>3. CASE pending.kind = "transient" /\ IsOK(clocked.i)
  <2>1. PutBack(clocked) = written
    BY <1>3 DEF PutBack
  <2>2. /\ Mirrored(written) /\ written.flash = m.flash /\ written.arch = m.arch
        /\ written.code = m.code
        /\ pending.register # PSR => Same(m, written)
    BY <1>1, WrittenMirrored, WrittenSame
  <2> HIDE DEF written
  <2> QED BY <1>3, <2>1, <2>2 DEF Same
<1>4. CASE pending.kind # "instruction" /\ ~(pending.kind = "transient" /\ IsOK(clocked.i))
  <2>1. PutBack(clocked) = m
    BY <1>4 DEF PutBack
  <2> QED BY <1>4, <2>1
<1> QED BY <1>2, <1>3, <1>4

-----------------------------------------------------------------------------
(* The inductive invariants.                                                *)

MirrorInv == Mirrored(emu)

(* The emulator that the scenarios start with.                             *)
LEMMA StartedMirrored ==
  \A arch, program, registers : Mirrored(Started(arch, program, registers))
BY DEF Started, Mirrored, Members

(* Init establishes it.                                                    *)
LEMMA MirroredInit == Init => MirrorInv
BY StartedMirrored DEF Init, MirrorInv

(* Every step preserves it.                                                *)
LEMMA MirroredStep == MirrorInv /\ [Next]_vars => MirrorInv'
<1> USE DEF MirrorInv
<1> SUFFICES ASSUME Mirrored(emu), [Next]_vars PROVE Mirrored(emu')
  OBVIOUS
<1>1. CASE Clock
  <2> DEFINE clocked == ClockCPU(emu)
  <2>1. Mirrored(clocked.m)
    BY <1>1, ClockMirrored DEF Clock, Running
  <2>2. emu' = PutBack(clocked)
    BY <1>1 DEF Clock
  <2> HIDE DEF clocked
  <2> QED BY <2>1, <2>2, PutBackAfter
<1>2. CASE Stop
  <2>1. emu'.code # "OK" /\ DOMAIN emu' = Members
    BY <1>2 DEF Stop, Fail, Mirrored, Members
  <2> QED BY <2>1 DEF Mirrored
<1>3. ASSUME NEW model, NEW iteration, FaultInstruction(model, iteration) PROVE Mirrored(emu')
  <2>1. PICK bytes : emu' = Resumed([emu EXCEPT !.flash = bytes])
    BY <1>3 DEF FaultInstruction
  <2> QED BY <2>1, FlashMirrored, ResumedMirrored
<1>4. ASSUME NEW r, NEW type, NEW model, NEW iteration, FaultRegister(r, type, model, iteration)
      PROVE  Mirrored(emu')
  <2>1. PICK bits : emu' = Resumed(SetRegister(emu, r, bits))
    BY <1>4 DEF FaultRegister
  <2> QED BY <2>1, WrittenMirrored, ResumedMirrored
<1>5. CASE UNCHANGED vars
  BY <1>5 DEF vars
<1> QED BY <1>1, <1>2, <1>3, <1>4, <1>5 DEF Next

(* The decoded flags and IT state that instructions work on, and register   *)
(* PSR, which snapshots, hooks and register faults work on, agree between   *)
(* two instructions, for any program and any fault.                         *)
THEOREM FlagsMirrored == Spec => []PsrMirrored
<1>1. MirrorInv => PsrMirrored
  BY DEF MirrorInv, Mirrored, PsrMirrored
<1> QED BY <1>1, MirroredInit, MirroredStep, PTL DEF Spec

(* A fault in PSR, in place or in the past. *)
PsrTouched ==
  \/ pending.kind \in {"transient", "until_overwrite"} /\ pending.register = PSR
  \/ \E k \in DOMAIN past : RegisterFaultAt(k, PSR)

(* There is one fault, the bytes it wrote over are kept, the flash holds    *)
(* numbers, and what was executed is a sequence.                            *)
FaultInv ==
  /\ pending.kind \in {"none", "instruction", "transient", "until_overwrite"}
  /\ pending.kind # "none" => ~target.instructions /\ target.registers = {}
  /\ pending.kind = "instruction" => \A a \in DOMAIN pending.original : pending.original[a] \in Byte
  /\ \E n \in Nat : emu.flash \in [0 .. n - 1 -> Byte]
  /\ \E S : past \in Seq(S)

(* Blocks are opened with a mask, and PSR holds the rest of the last one.   *)
OpenedInv ==
  \A k \in Opened : /\ emu.arch # "ARMv6M"
                    /\ past[k].i.imm \in 0 .. 255 /\ past[k].i.imm % 16 # 0

(* What is still to come, unless a fault was in PSR.                       *)
RestInv ==
  emu.code = "OK" /\ emu.arch # "ARMv6M" /\ ~PsrTouched
    /\ (\A k \in InBlock : past[k].i.name # "MSR") => ToCome = Rest(emu.psr.it)

(* The inductive invariant.                                                *)
BlockInv == MirrorInv /\ FaultInv /\ OpenedInv /\ RestInv

(* Init establishes it.                                                    *)
LEMMA BlockInit == Init => BlockInv
<1> SUFFICES ASSUME Init PROVE BlockInv
  OBVIOUS
<1>1. PICK s \in Scenarios : \E arch \in s.archs, registers \in s.inputs :
        emu = Started(arch, s.program, registers)
  BY DEF Init
<1>2. past = <<>> /\ pending = NoFault
  BY DEF Init
<1>3. emu.flash = Bytes(s.program) /\ emu.psr = Fields({})
  BY <1>1 DEF Started
<1>4. \E n \in Nat : emu.flash \in [0 .. n - 1 -> Byte]
  <2> DEFINE S == 0 .. 2^16 - 1
             n == 2 * Len(s.program)
  <2>1. S \subseteq Halfword
    BY DEF Halfword
  <2>2. s.program \in Seq(S)
    BY ProgramsAssumption
  <2> HIDE DEF S
  <2>3. n \in Nat /\ Bytes(s.program) \in [0 .. n - 1 -> Byte]
    BY <2>1, <2>2, BytesOfProgram
  <2> QED BY <1>3, <2>3
<1>5. FaultInv
  <2>1. past \in Seq({})
    BY <1>2
  <2> QED BY <1>2, <1>4, <2>1 DEF FaultInv, NoFault
<1>6. Opened = {} /\ ToCome = <<>>
  BY <1>2 DEF Opened, ToCome
<1>7. Rest(emu.psr.it) = <<>>
  BY <1>3 DEF Rest, Fields
<1> QED BY <1>5, <1>6, <1>7, MirroredInit DEF BlockInv, OpenedInv, RestInv

(* The definitions of a block for any past p, and what one more entry of it *)
(* makes of them.                                                           *)
OpenedIn(p) == {k \in DOMAIN p : p[k].i.name = "IT"}

(* What came after the last IT.                                            *)
BlockIn(p) == {k \in DOMAIN p : OpenedIn(p) # {} /\ k > Max(OpenedIn(p))}

(* What of it has taken a condition: hints do not.                         *)
DecidedIn(p) == {k \in BlockIn(p) : p[k].i.name \notin HintName}

(* The conditions of the last IT that are not taken yet.                   *)
ComingIn(p) ==
  IF OpenedIn(p) = {} THEN <<>>
  ELSE LET conditions == BlockConditions(p[Max(OpenedIn(p))].i.imm)
       IN  SubSeq(conditions, Cardinality(DecidedIn(p)) + 1, Len(conditions))

(* They are the operators of Processor.                                    *)
LEMMA BlockOfPast ==
  /\ Opened = OpenedIn(past) /\ InBlock = BlockIn(past) /\ ToCome = ComingIn(past)
  /\ Opened' = OpenedIn(past') /\ InBlock' = BlockIn(past') /\ ToCome' = ComingIn(past')
<1>1. Opened = OpenedIn(past) /\ Opened' = OpenedIn(past')
  BY DEF Opened, OpenedIn
<1>2. InBlock = BlockIn(past) /\ InBlock' = BlockIn(past')
  BY <1>1 DEF InBlock, BlockIn
<1>3. ToCome = ComingIn(past) /\ ToCome' = ComingIn(past')
  BY <1>1, <1>2 DEF ToCome, ComingIn, DecidedIn
<1> QED BY <1>1, <1>2, <1>3

(* A set of positions has a greatest one.                                  *)
LEMMA MaxOf ==
  ASSUME NEW L \in Nat, NEW S \in SUBSET (1 .. L), S # {}
  PROVE  Max(S) \in S /\ \A k \in S : k <= Max(S)
<1> DEFINE T == {L - k : k \in S}
<1>1. T \in SUBSET Nat /\ T # {}
  OBVIOUS
<1>2. PICK x \in T : \A y \in T : x <= y
  BY <1>1, LeastElement
<1>3. PICK k \in S : x = L - k
  BY <1>2
<1>4. \A j \in S : k >= j
  <2> SUFFICES ASSUME NEW j \in S PROVE k >= j
    OBVIOUS
  <2>1. L - k <= L - j
    BY <1>2, <1>3
  <2>2. k \in Int /\ j \in Int
    OBVIOUS
  <2> QED BY <2>1, <2>2
<1>5. \E i \in S : \A j \in S : i >= j
  BY <1>4
<1>6. Max(S) \in S /\ \A j \in S : Max(S) >= j
  BY <1>5 DEF Max
<1> QED BY <1>6

(* The greatest one is what no other exceeds.                              *)
LEMMA MaxIs ==
  ASSUME NEW S \in SUBSET Int, NEW x \in S, \A k \in S : k <= x
  PROVE  Max(S) = x
<1>1. \A k \in S : k >= x => k = x
  OBVIOUS
<1>2. \A k \in S : x >= k
  OBVIOUS
<1> QED BY <1>1, <1>2 DEF Max

(* What one more instruction makes of the positions.                       *)
Extended(p, e, q) ==
  /\ DOMAIN q = DOMAIN p \union {Len(p) + 1} /\ Len(p) + 1 \notin DOMAIN p
  /\ \A k \in DOMAIN p : q[k] = p[k]
  /\ q[Len(p) + 1] = e
  /\ e.i.name = "IT" => OpenedIn(q) = OpenedIn(p) \union {Len(p) + 1}
  /\ e.i.name # "IT" => OpenedIn(q) = OpenedIn(p)

(* An IT opens a block where it stands; nothing else opens one.            *)
LEMMA OpenedAppend ==
  ASSUME NEW S, NEW p \in Seq(S), NEW e
  PROVE  Extended(p, e, Append(p, e))
<1> DEFINE q == Append(p, e)
           n == Len(p)
<1>1. /\ q \in Seq(S \union {e}) /\ DOMAIN p = 1 .. n /\ n \in Nat /\ DOMAIN q = 1 .. n + 1
      /\ \A k \in 1 .. n : q[k] = p[k]
      /\ q[n + 1] = e
  <2>1. p \in Seq(S \union {e}) /\ e \in S \union {e}
    OBVIOUS
  <2> DEFINE U == S \union {e}
  <2> HIDE DEF U
  <2>2. p \in Seq(U) /\ e \in U
    BY <2>1 DEF U
  <2>3. q \in Seq(U) /\ Len(q) = n + 1 /\ n \in Nat
          /\ (\A k \in 1 .. n : q[k] = p[k]) /\ q[n + 1] = e
    BY <2>2
  <2> QED BY <2>3 DEF U
<1> HIDE DEF q, n
<1>2. 1 .. n + 1 = 1 .. n \union {n + 1} /\ n + 1 \notin 1 .. n
  BY <1>1
<1>3. OpenedIn(q) = IF e.i.name = "IT" THEN OpenedIn(p) \union {n + 1} ELSE OpenedIn(p)
  BY <1>1, <1>2 DEF OpenedIn
<1>4. /\ DOMAIN q = DOMAIN p \union {n + 1} /\ n + 1 \notin DOMAIN p
      /\ \A k \in DOMAIN p : q[k] = p[k]
      /\ q[n + 1] = e
      /\ e.i.name = "IT" => OpenedIn(q) = OpenedIn(p) \union {n + 1}
      /\ e.i.name # "IT" => OpenedIn(q) = OpenedIn(p)
  BY <1>1, <1>2, <1>3
<1> QED BY <1>4 DEF Extended, q, n

(* The sequence stays one.                                                 *)
LEMMA AppendType ==
  ASSUME NEW S, NEW p \in Seq(S), NEW e
  PROVE  Append(p, e) \in Seq(S \union {e})
<1> DEFINE U == S \union {e}
<1>1. p \in Seq(U) /\ e \in U
  OBVIOUS
<1> HIDE DEF U
<1>2. Append(p, e) \in Seq(U)
  BY <1>1
<1> QED BY <1>2 DEF U

(* A block has one to four conditions.                                     *)
LEMMA BlockType ==
  \A it \in 0 .. 255 :
    it % 16 # 0 => BlockConditions(it) \in Seq(Int) /\ Len(BlockConditions(it)) \in 1 .. 4
BY RestOfBlock DEF Rest

(* After an IT all its conditions are to come.                             *)
LEMMA OpenAppend ==
  ASSUME NEW S, NEW p \in Seq(S), NEW e, e.i.name = "IT",
         e.i.imm \in 0 .. 255, e.i.imm % 16 # 0
  PROVE  ComingIn(Append(p, e)) = BlockConditions(e.i.imm)
<1> DEFINE q == Append(p, e)
           n == Len(p)
           c == BlockConditions(e.i.imm)
<1>1. /\ DOMAIN q = 1 .. n + 1 /\ n \in Nat
      /\ q[n + 1] = e
      /\ OpenedIn(q) = OpenedIn(p) \union {n + 1}
      /\ OpenedIn(p) \subseteq 1 .. n
  <2>1. DOMAIN p = 1 .. n /\ n \in Nat
    OBVIOUS
  <2>2. 1 .. n + 1 = 1 .. n \union {n + 1}
    BY <2>1
  <2>3. Extended(p, e, q)
    BY OpenedAppend
  <2> HIDE DEF q
  <2>4. q[n + 1] = e /\ DOMAIN q = 1 .. n \union {n + 1} /\ OpenedIn(q) = OpenedIn(p) \union {n + 1}
    BY <2>1, <2>3 DEF Extended
  <2>5. OpenedIn(p) \subseteq 1 .. n
    BY <2>1 DEF OpenedIn
  <2> QED BY <2>1, <2>2, <2>4, <2>5
<1> HIDE DEF q, n, c
<1>2. Max(OpenedIn(q)) = n + 1
  <2>1. OpenedIn(q) \subseteq Int /\ n + 1 \in OpenedIn(q) /\ \A k \in OpenedIn(q) : k <= n + 1
    BY <1>1
  <2> QED BY <2>1, MaxIs
<1>3. DecidedIn(q) = {}
  BY <1>1, <1>2 DEF DecidedIn, BlockIn
<1>4. Cardinality(DecidedIn(q)) = 0
  BY <1>3, FS_EmptySet
<1>5. c \in Seq(Int)
  BY BlockType DEF c
<1>6. SubSeq(c, 1, Len(c)) = c
  BY <1>5, SubSeqFull
<1>7. OpenedIn(q) # {}
  BY <1>1
<1>8. q[Max(OpenedIn(q))].i.imm = e.i.imm
  BY <1>1, <1>2
<1>9. ComingIn(q) = SubSeq(c, 0 + 1, Len(c))
  BY <1>4, <1>7, <1>8 DEF ComingIn, c
<1> QED BY <1>6, <1>9 DEF q, c

(* After anything else one condition less is, or the same ones after a hint.*)
LEMMA StepAppend ==
  ASSUME NEW S, NEW p \in Seq(S), NEW e, e.i.name # "IT", OpenedIn(p) # {},
         \A k \in OpenedIn(p) : p[k].i.imm \in 0 .. 255 /\ p[k].i.imm % 16 # 0
  PROVE  /\ BlockIn(Append(p, e)) = BlockIn(p) \union {Len(p) + 1}
         /\ e.i.name \in HintName => ComingIn(Append(p, e)) = ComingIn(p)
         /\ e.i.name \notin HintName =>
              IF ComingIn(p) = <<>> THEN ComingIn(Append(p, e)) = <<>>
              ELSE ComingIn(Append(p, e)) = Tail(ComingIn(p))
<1> DEFINE q == Append(p, e)
           n == Len(p)
           o == Max(OpenedIn(p))
           c == BlockConditions(p[o].i.imm)
           d == Cardinality(DecidedIn(p))
<1>1. /\ DOMAIN p = 1 .. n /\ n \in Nat /\ DOMAIN q = 1 .. n \union {n + 1} /\ n + 1 \notin 1 .. n
      /\ \A k \in 1 .. n : q[k] = p[k]
      /\ q[n + 1] = e
      /\ OpenedIn(q) = OpenedIn(p)
  <2>1. DOMAIN p = 1 .. n /\ n \in Nat
    OBVIOUS
  <2>2. /\ DOMAIN q = DOMAIN p \union {n + 1} /\ n + 1 \notin DOMAIN p
        /\ \A k \in DOMAIN p : q[k] = p[k]
        /\ q[n + 1] = e
        /\ OpenedIn(q) = OpenedIn(p)
    <3>1. Extended(p, e, q)
      BY OpenedAppend
    <3> HIDE DEF q
    <3> QED BY <3>1 DEF Extended
  <2> HIDE DEF q, n
  <2> QED BY <2>1, <2>2
<1> HIDE DEF q, n
<1>2. o \in OpenedIn(p) /\ o \in 1 .. n
  <2>1. OpenedIn(p) \subseteq 1 .. n
    BY <1>1 DEF OpenedIn
  <2> QED BY <1>1, <2>1, MaxOf
<1>3. BlockIn(q) = BlockIn(p) \union {n + 1}
  BY <1>1, <1>2 DEF BlockIn
<1>4. DecidedIn(q) = IF e.i.name \in HintName THEN DecidedIn(p) ELSE DecidedIn(p) \union {n + 1}
  BY <1>1, <1>3 DEF DecidedIn, BlockIn
<1>5. d \in Nat /\ Cardinality(DecidedIn(q)) = IF e.i.name \in HintName THEN d ELSE d + 1
  <2>1. IsFiniteSet(1 .. n)
    BY <1>1, FS_Interval
  <2>2. DecidedIn(p) \subseteq 1 .. n
    BY <1>1 DEF DecidedIn, BlockIn
  <2>3. IsFiniteSet(DecidedIn(p))
    BY <2>1, <2>2, FS_Subset
  <2>4. n + 1 \notin DecidedIn(p)
    BY <1>1, <2>2
  <2>5. d \in Nat
    BY <2>3, FS_CardinalityType
  <2>6. Cardinality(DecidedIn(p) \union {n + 1}) = d + 1
    BY <2>3, <2>4, FS_AddElement
  <2> QED BY <1>4, <2>5, <2>6
<1> HIDE DEF d, o
<1>6. c \in Seq(Int) /\ Len(c) \in 1 .. 4
  <2>1. p[o].i.imm \in 0 .. 255 /\ p[o].i.imm % 16 # 0
    BY <1>2
  <2> QED BY <2>1, BlockType
<1>7. ComingIn(p) = SubSeq(c, d + 1, Len(c))
  BY DEF ComingIn, c, d, o
<1>8. ComingIn(q) = SubSeq(c, Cardinality(DecidedIn(q)) + 1, Len(c))
  <2>1. q[o] = p[o] /\ Max(OpenedIn(q)) = o
    BY <1>1, <1>2 DEF o
  <2> QED BY <1>1, <2>1 DEF ComingIn
<1> HIDE DEF c
<1>9. CASE e.i.name \in HintName
  BY <1>3, <1>5, <1>7, <1>8, <1>9 DEF q, n
<1>10. CASE e.i.name \notin HintName
  <2>1. ComingIn(q) = SubSeq(c, d + 1 + 1, Len(c))
    BY <1>5, <1>8, <1>10
  <2>2. CASE d + 1 <= Len(c)
    <3>1. Tail(ComingIn(p)) = ComingIn(q)
      <4>1. d + 1 \in 1 .. Len(c) /\ Len(c) \in d + 1 .. Len(c)
        BY <1>5, <1>6, <2>2
      <4> QED BY <1>6, <1>7, <2>1, <4>1, HeadTailOfSubSeq
    <3>2. ComingIn(p) # <<>>
      <4>1. \A k \in d + 1 .. Len(c) : c[k] \in Int
        BY <1>5, <1>6
      <4>2. Len(ComingIn(p)) = Len(c) - (d + 1) + 1
        <5> DEFINE a == d + 1
                   b == Len(c)
        <5>1. a \in Int /\ b \in Int /\ a <= b /\ \A k \in a .. b : c[k] \in Int
          BY <1>5, <1>6, <2>2, <4>1
        <5> HIDE DEF a, b
        <5>2. Len(SubSeq(c, a, b)) = IF a <= b THEN b - a + 1 ELSE 0
          BY <5>1, SubSeqProperties
        <5> QED BY <1>7, <5>1, <5>2 DEF a, b
      <4>3. Len(ComingIn(p)) # 0
        BY <1>5, <1>6, <2>2, <4>2
      <4> QED BY <4>3
    <3> QED BY <1>3, <1>10, <3>1, <3>2 DEF q, n
  <2>3. CASE ~(d + 1 <= Len(c))
    <3>1. ComingIn(p) = <<>>
      <4>1. d + 1 \in Int /\ Len(c) \in Int /\ Len(c) < d + 1
        BY <1>5, <1>6, <2>3
      <4> QED BY <1>7, <4>1, SubSeqEmpty
    <3>2. ComingIn(q) = <<>>
      <4>1. d + 1 + 1 \in Int /\ Len(c) \in Int /\ Len(c) < d + 1 + 1
        BY <1>5, <1>6, <2>3
      <4> QED BY <2>1, <4>1, SubSeqEmpty
    <3> QED BY <1>3, <1>10, <3>1, <3>2 DEF q, n
  <2> QED BY <2>2, <2>3
<1> QED BY <1>9, <1>10

(* The step of the IT state and that of what is still to come agree.        *)
LEMMA RestStep ==
  ASSUME NEW S, NEW p \in Seq(S), NEW e, NEW it \in 0 .. 255, NEW next,
         \A k \in OpenedIn(p) : p[k].i.imm \in 0 .. 255 /\ p[k].i.imm % 16 # 0,
         ComingIn(p) = Rest(it), e.i.name # "IT",
         it % 16 = 0 \/ e.i.name \in HintName => next = it,
         it % 16 # 0 /\ e.i.name \notin HintName => next = Popped(it)
  PROVE  ComingIn(Append(p, e)) = Rest(next)
<1>1. CASE OpenedIn(p) = {}
  <2>1. Rest(it) = <<>>
    BY <1>1 DEF ComingIn
  <2>2. it % 16 = 0
    <3> SUFFICES ASSUME it % 16 # 0 PROVE FALSE
      OBVIOUS
    <3>1. Len(Rest(it)) \in 1 .. 4
      BY RestOfBlock
    <3> QED BY <2>1, <3>1
  <2>3. OpenedIn(Append(p, e)) = {}
    <3>1. Extended(p, e, Append(p, e))
      BY OpenedAppend
    <3> QED BY <1>1, <3>1 DEF Extended
  <2> QED BY <2>1, <2>2, <2>3 DEF ComingIn
<1>2. CASE OpenedIn(p) # {}
  <2> DEFINE coming == ComingIn(Append(p, e))
  <2>1. /\ e.i.name \in HintName => coming = ComingIn(p)
        /\ e.i.name \notin HintName =>
             IF ComingIn(p) = <<>> THEN coming = <<>> ELSE coming = Tail(ComingIn(p))
    BY <1>2, StepAppend
  <2> HIDE DEF coming
  <2>2. CASE e.i.name \in HintName
    BY <2>1, <2>2 DEF coming
  <2>3. CASE e.i.name \notin HintName /\ it % 16 = 0
    BY <2>1, <2>3 DEF coming, Rest
  <2>4. CASE e.i.name \notin HintName /\ it % 16 # 0
    <3> DEFINE c == Rest(it)
               d == Rest(Popped(it))
    <3>1. /\ c \in Seq(Int) /\ Len(c) \in 1 .. 4 /\ d \in Seq(Int) /\ Len(d) = Len(c) - 1
          /\ \A k \in 1 .. Len(c) - 1 : d[k] = c[k + 1]
      BY <2>4, RestOfBlock
    <3> HIDE DEF c, d
    <3>2. c # <<>>
      BY <3>1
    <3>3. /\ Tail(c) \in Seq(Int) /\ Len(Tail(c)) = Len(c) - 1
          /\ \A k \in 1 .. Len(Tail(c)) : Tail(c)[k] = c[k + 1]
      BY <3>1, <3>2, HeadTailProperties
    <3>4. Tail(c) = d
      <4> DEFINE t == Tail(c)
      <4>1. /\ t \in Seq(Int) /\ d \in Seq(Int) /\ Len(t) = Len(d)
            /\ \A k \in 1 .. Len(t) : t[k] = d[k]
        BY <3>1, <3>3
      <4> HIDE DEF t
      <4>2. t = d
        BY <4>1, SeqEqual
      <4> QED BY <4>2 DEF t
    <3>5. coming = Tail(c)
      BY <2>1, <2>4, <3>2 DEF c
    <3> QED BY <2>4, <3>4, <3>5 DEF coming, d
  <2> QED BY <2>2, <2>3, <2>4
<1> QED BY <1>1, <1>2

(* An instruction preserves it.                                            *)
LEMMA ClockBlock == BlockInv /\ Clock => FaultInv' /\ OpenedInv' /\ RestInv'
<1> SUFFICES ASSUME BlockInv, Clock PROVE FaultInv' /\ OpenedInv' /\ RestInv'
  OBVIOUS
<1> DEFINE clocked == ClockCPU(emu)
           i == clocked.i
           m == clocked.m
           e == [i |-> i, reg |-> emu.reg, inIT |-> InITBlock(emu), code |-> m.code, fault |-> pending]
<1>1. /\ emu.code = "OK" /\ emu' = PutBack(clocked)
      /\ past' = IF IsOK(i) THEN Append(past, e) ELSE past
      /\ pending' = NoFault /\ target' = target
  BY DEF Clock, Running
<1>2. Mirrored(emu)
  BY DEF BlockInv, MirrorInv
<1>3. PICK n \in Nat : emu.flash \in [0 .. n - 1 -> Byte]
  BY DEF BlockInv, FaultInv
<1>4. PICK S : past \in Seq(S)
  BY DEF BlockInv, FaultInv
<1>5. Stepped(emu, clocked) /\ Mirrored(m)
  BY <1>1, <1>2, <1>3, ClockStepped, ClockMirrored
<1> HIDE DEF clocked
<1>6. /\ emu'.arch = emu.arch /\ emu'.code = m.code
      /\ ~(pending.kind = "transient" /\ pending.register = PSR) => emu'.psr = m.psr
      /\ emu'.flash = IF pending.kind = "instruction" THEN Updated(emu.flash, pending.original)
                      ELSE emu.flash
  <2>1. m.arch = emu.arch /\ m.flash = emu.flash
    BY <1>5 DEF Stepped
  <2> QED BY <1>1, <1>5, <2>1, PutBackAfter
<1>7. m.code = "OK" => IsOK(i)
  BY <1>5 DEF Stepped
<1>8. IsOK(i) =>
        /\ i.name \in Guarded => ~InITBlock(emu)
        /\ i.name = "IT" => emu.arch # "ARMv6M" /\ i.imm \in 0 .. 255 /\ i.imm % 16 # 0
  BY <1>5 DEF Stepped
<1>9. m.code = "OK" /\ emu.arch # "ARMv6M" =>
        /\ i.name = "IT" => m.psr.it = i.imm
        /\ i.name # "IT" /\ (~InITBlock(emu) \/ i.name \in HintName) => m.psr.it = emu.psr.it
        /\ i.name \notin HintName \union {"IT", "MSR"} /\ InITBlock(emu) =>
             m.psr.it = Popped(emu.psr.it)
  BY <1>5 DEF Stepped
<1>10. emu.psr.it \in 0 .. 255
  <2>1. emu.psr = Fields(emu.xpsr)
    BY <1>1, <1>2 DEF Mirrored
  <2> QED BY <2>1, FieldsType
<1>11. e.i = i /\ e.fault = pending
  OBVIOUS
<1> HIDE DEF e, i, m
<1>12. \E k \in Nat : emu'.flash \in [0 .. k - 1 -> Byte]
  <2>1. pending.kind = "instruction" => Updated(emu.flash, pending.original) \in [0 .. n - 1 -> Byte]
    BY <1>3, UpdatedBytes DEF BlockInv, FaultInv
  <2> QED BY <1>3, <1>6, <2>1
<1>13. /\ Append(past, e) \in Seq(S \union {e})
       /\ DOMAIN Append(past, e) = DOMAIN past \union {Len(past) + 1}
       /\ Len(past) + 1 \notin DOMAIN past
       /\ \A k \in DOMAIN past : Append(past, e)[k] = past[k]
       /\ Append(past, e)[Len(past) + 1] = e
       /\ e.i.name = "IT" => OpenedIn(Append(past, e)) = OpenedIn(past) \union {Len(past) + 1}
       /\ e.i.name # "IT" => OpenedIn(Append(past, e)) = OpenedIn(past)
  <2>1. Extended(past, e, Append(past, e)) /\ Append(past, e) \in Seq(S \union {e})
    BY <1>4, OpenedAppend, AppendType
  <2> QED BY <2>1 DEF Extended
<1>14. FaultInv'
  <2>1. pending'.kind = "none"
    BY <1>1 DEF NoFault
  <2>2. \E T : past' \in Seq(T)
    BY <1>1, <1>4, <1>13
  <2> QED BY <1>12, <2>1, <2>2 DEF FaultInv
<1>15. \A k \in OpenedIn(past) : emu.arch # "ARMv6M" /\ past[k].i.imm \in 0 .. 255
                                   /\ past[k].i.imm % 16 # 0
  BY BlockOfPast DEF BlockInv, OpenedInv
<1>16. CASE ~IsOK(i)
  <2>1. past' = past /\ emu'.code # "OK" /\ emu'.arch = emu.arch
    BY <1>1, <1>6, <1>7, <1>16
  <2>2. OpenedInv'
    BY <1>15, <2>1, BlockOfPast DEF OpenedInv
  <2>3. RestInv'
    BY <2>1 DEF RestInv
  <2> QED BY <1>14, <2>2, <2>3
<1>17. CASE IsOK(i)
  <2>1. past' = Append(past, e)
    BY <1>1, <1>17
  <2> DEFINE q == Append(past, e)
  <2> HIDE DEF q
  <2>2. OpenedInv'
    <3>1. \A k \in OpenedIn(q) : /\ emu.arch # "ARMv6M"
                                 /\ q[k].i.imm \in 0 .. 255 /\ q[k].i.imm % 16 # 0
      <4> SUFFICES ASSUME NEW k \in OpenedIn(q)
                   PROVE  emu.arch # "ARMv6M" /\ q[k].i.imm \in 0 .. 255 /\ q[k].i.imm % 16 # 0
        OBVIOUS
      <4>1. CASE k \in OpenedIn(past)
        <5>1. k \in DOMAIN past
          BY <4>1 DEF OpenedIn
        <5> QED BY <1>13, <1>15, <4>1, <5>1 DEF q
      <4>2. CASE k \notin OpenedIn(past)
        <5>1. k = Len(past) + 1 /\ i.name = "IT"
          BY <1>11, <1>13, <4>2 DEF q
        <5> QED BY <1>8, <1>11, <1>13, <1>17, <5>1 DEF q
      <4> QED BY <4>1, <4>2
    <3> QED BY <1>6, <2>1, <3>1, BlockOfPast DEF OpenedInv, q
  <2>3. RestInv'
    <3> SUFFICES ASSUME emu'.code = "OK", emu'.arch # "ARMv6M", ~PsrTouched',
                        \A k \in BlockIn(q) : q[k].i.name # "MSR"
                 PROVE  ComingIn(q) = Rest(emu'.psr.it)
      BY <2>1, BlockOfPast DEF RestInv, q
    <3>1. m.code = "OK" /\ emu.arch # "ARMv6M"
      BY <1>6
    <3>2. /\ ~(pending.kind \in {"transient", "until_overwrite"} /\ pending.register = PSR)
          /\ \A k \in DOMAIN past : ~RegisterFaultAt(k, PSR)
      <4>1. \A k \in DOMAIN q : ~(q[k].fault.kind \in {"transient", "until_overwrite"}
                                    /\ q[k].fault.register = PSR)
        BY <2>1 DEF PsrTouched, RegisterFaultAt, q
      <4>2. DOMAIN q = DOMAIN past \union {Len(past) + 1} /\ q[Len(past) + 1].fault = pending
              /\ \A k \in DOMAIN past : q[k] = past[k]
        BY <1>11, <1>13 DEF q
      <4>3. \A k \in DOMAIN past : ~RegisterFaultAt(k, PSR)
        BY <4>1, <4>2 DEF RegisterFaultAt
      <4> QED BY <4>1, <4>2, <4>3
    <3>3. emu'.psr = m.psr /\ ~PsrTouched
      BY <1>6, <3>2 DEF PsrTouched
    <3>4. CASE i.name = "IT"
      <4>1. i.imm \in 0 .. 255 /\ i.imm % 16 # 0 /\ emu'.psr.it = i.imm
        BY <1>8, <1>9, <1>17, <3>1, <3>3, <3>4
      <4>2. ComingIn(q) = BlockConditions(i.imm)
        BY <1>4, <1>11, <3>4, <4>1, OpenAppend DEF q
      <4> QED BY <4>1, <4>2 DEF Rest
    <3>5. CASE i.name # "IT"
      <4>1. OpenedIn(past) # {} => BlockIn(q) = BlockIn(past) \union {Len(past) + 1}
        BY <1>4, <1>11, <1>15, <3>5, StepAppend DEF q
      <4>2. /\ \A k \in BlockIn(past) : past[k].i.name # "MSR"
            /\ OpenedIn(past) # {} => i.name # "MSR"
        <5>1. OpenedIn(past) = {} => BlockIn(past) = {}
          BY DEF BlockIn
        <5>2. BlockIn(past) \subseteq DOMAIN past
          BY DEF BlockIn
        <5> QED BY <1>11, <1>13, <4>1, <5>1, <5>2 DEF q
      <4>3. ComingIn(past) = Rest(emu.psr.it)
        BY <1>1, <3>1, <3>3, <4>2, BlockOfPast DEF BlockInv, RestInv
      <4>4. OpenedIn(past) = {} => emu.psr.it % 16 = 0
        <5> SUFFICES ASSUME OpenedIn(past) = {}, emu.psr.it % 16 # 0 PROVE FALSE
          OBVIOUS
        <5>1. Rest(emu.psr.it) = <<>>
          BY <4>3 DEF ComingIn
        <5>2. Len(Rest(emu.psr.it)) \in 1 .. 4
          BY <1>10, RestOfBlock
        <5> QED BY <5>1, <5>2
      <4>5. InITBlock(emu) <=> emu.psr.it % 16 # 0
        BY <3>1 DEF InITBlock
      <4>6. /\ emu.psr.it % 16 = 0 \/ i.name \in HintName => emu'.psr.it = emu.psr.it
            /\ emu.psr.it % 16 # 0 /\ i.name \notin HintName => emu'.psr.it = Popped(emu.psr.it)
        BY <1>9, <3>1, <3>3, <3>5, <4>2, <4>4, <4>5
      <4> DEFINE it == emu.psr.it
                 next == emu'.psr.it
      <4>7. /\ it \in 0 .. 255 /\ ComingIn(past) = Rest(it)
            /\ it % 16 = 0 \/ e.i.name \in HintName => next = it
            /\ it % 16 # 0 /\ e.i.name \notin HintName => next = Popped(it)
        BY <1>10, <1>11, <4>3, <4>6
      <4> HIDE DEF it, next
      <4>8. ComingIn(q) = Rest(next)
        BY <1>4, <1>11, <1>15, <3>5, <4>7, RestStep DEF q
      <4> QED BY <4>8 DEF next
    <3> QED BY <3>4, <3>5
  <2> QED BY <1>14, <2>2, <2>3
<1> QED BY <1>16, <1>17

(* What a fault may change of this: the flash, or PSR.                      *)
LEMMA FaultBlock ==
  ASSUME BlockInv, past' = past, emu'.arch = emu.arch, emu'.code = emu.code,
         emu'.psr = emu.psr \/ PsrTouched', PsrTouched => PsrTouched'
  PROVE  OpenedInv' /\ RestInv'
<1>1. OpenedInv'
  BY BlockOfPast DEF BlockInv, OpenedInv
<1>2. RestInv'
  <2> SUFFICES ASSUME emu.code = "OK", emu.arch # "ARMv6M", ~PsrTouched',
                      \A k \in BlockIn(past) : past[k].i.name # "MSR"
               PROVE  ComingIn(past) = Rest(emu'.psr.it)
    BY BlockOfPast DEF RestInv
  <2> QED BY BlockOfPast DEF BlockInv, RestInv
<1> QED BY <1>1, <1>2

(* Every step does.                                                        *)
LEMMA BlockStep == BlockInv /\ [Next]_vars => BlockInv'
<1> SUFFICES ASSUME BlockInv, [Next]_vars PROVE BlockInv'
  OBVIOUS
<1>1. MirrorInv'
  BY MirroredStep DEF BlockInv
<1>2. DOMAIN emu = Members /\ FaultInv
  BY DEF BlockInv, MirrorInv, Mirrored
<1>3. PICK n \in Nat : emu.flash \in [0 .. n - 1 -> Byte]
  BY <1>2 DEF FaultInv
<1>4. CASE Clock
  BY <1>1, <1>4, ClockBlock DEF BlockInv
<1>5. CASE Stop
  <2>1. /\ past' = past /\ pending' = pending /\ target' = target
        /\ emu'.code # "OK" /\ emu'.arch = emu.arch /\ emu'.flash = emu.flash
    BY <1>2, <1>5 DEF Stop, Fail, Members
  <2>2. FaultInv'
    BY <1>2, <2>1 DEF FaultInv
  <2>3. OpenedInv'
    BY <2>1, BlockOfPast DEF BlockInv, OpenedInv
  <2>4. RestInv'
    BY <2>1 DEF RestInv
  <2> QED BY <1>1, <2>2, <2>3, <2>4 DEF BlockInv
<1>6. ASSUME NEW model \in InstructionModel, NEW iteration, FaultInstruction(model, iteration)
      PROVE  BlockInv'
  <2> DEFINE pc == emu.reg[PC]
             size == SizeAt(emu, pc)
             original == [k \in 0 .. size - 1 |-> emu.flash[pc + k]]
             written == ManipulatedInstruction(model, iteration, original)
             placed(bytes) == [a \in pc .. pc + size - 1 |-> bytes[a - pc]]
             flash == Updated(emu.flash, placed(written))
  <2>1. /\ target.instructions /\ ValidateAddress(emu, pc) = "OK"
        /\ iteration \in InstructionIterations(model, size)
        /\ emu' = Resumed([emu EXCEPT !.flash = flash])
        /\ pending' = [kind |-> "instruction", model |-> model, original |-> placed(original)]
        /\ target' = NothingLeft /\ past' = past
    BY <1>6 DEF FaultInstruction
  <2>2. size \in {2, 4} /\ pc \in Nat /\ \A k \in 0 .. size - 1 : pc + k \in 0 .. n - 1
    BY <1>3, <2>1, FetchedHalfwords
  <2>3. original \in [0 .. size - 1 -> Byte]
    BY <1>3, <2>2
  <2> HIDE DEF size, pc, original
  <2>4. written \in [0 .. size - 1 -> Byte]
    BY <2>1, <2>2, <2>3, ManipulatedBytes
  <2> HIDE DEF written
  <2>5. ASSUME NEW bytes \in [0 .. size - 1 -> Byte]
        PROVE  \A a \in DOMAIN placed(bytes) : placed(bytes)[a] \in Byte
    <3> SUFFICES ASSUME NEW a \in pc .. pc + size - 1 PROVE bytes[a - pc] \in Byte
      OBVIOUS
    <3>1. a - pc \in 0 .. size - 1
      BY <2>2
    <3> QED BY <3>1
  <2> HIDE DEF placed
  <2>6. flash \in [0 .. n - 1 -> Byte]
    <3>1. \A a \in DOMAIN placed(written) : placed(written)[a] \in Byte
      BY <2>4, <2>5
    <3> QED BY <1>3, <3>1, UpdatedBytes
  <2>7. \A a \in DOMAIN placed(original) : placed(original)[a] \in Byte
    BY <2>3, <2>5
  <2> HIDE DEF flash
  <2>8. emu'.flash = flash /\ Same(emu, emu')
    <3> DEFINE other == [emu EXCEPT !.flash = flash]
    <3>1. DOMAIN other = Members /\ Same(emu, other) /\ other.flash = flash
      BY <1>2, FlashSame
    <3> HIDE DEF other
    <3>2. Same(other, Resumed(other)) /\ Resumed(other).flash = flash
      BY <3>1, ResumedSame
    <3> QED BY <2>1, <3>1, <3>2 DEF Same, other
  <2>9. FaultInv'
    <3>1. pending'.kind = "instruction" /\ pending'.original = placed(original)
      BY <2>1
    <3>2. ~target'.instructions /\ target'.registers = {}
      BY <2>1 DEF NothingLeft
    <3> QED BY <1>2, <2>1, <2>6, <2>7, <2>8, <3>1, <3>2 DEF FaultInv
  <2>10. PsrTouched => PsrTouched'
    <3>1. pending.kind = "none"
      BY <1>2, <2>1 DEF FaultInv
    <3> QED BY <2>1, <3>1 DEF PsrTouched, RegisterFaultAt
  <2> QED BY <1>1, <2>1, <2>8, <2>9, <2>10, FaultBlock DEF BlockInv, Same
<1>7. ASSUME NEW r \in target.registers, NEW type \in {"transient", "until_overwrite"},
             NEW model, NEW iteration, FaultRegister(r, type, model, iteration)
      PROVE  BlockInv'
  <2>1. PICK bits : emu' = Resumed(SetRegister(emu, r, bits))
    BY <1>7 DEF FaultRegister
  <2>2. /\ pending'.kind = type /\ pending'.register = r
        /\ target' = NothingLeft /\ past' = past
    BY <1>7 DEF FaultRegister
  <2>3. /\ emu'.flash = emu.flash /\ emu'.arch = emu.arch /\ emu'.code = emu.code
        /\ r # PSR => emu'.psr = emu.psr
    <3> DEFINE written == SetRegister(emu, r, bits)
    <3>1. /\ DOMAIN written = Members /\ written.arch = emu.arch /\ written.flash = emu.flash
          /\ written.code = emu.code
          /\ r # PSR => Same(emu, written)
      BY <1>2, WrittenSame
    <3> HIDE DEF written
    <3>2. Same(written, Resumed(written)) /\ Resumed(written).flash = written.flash
      BY <3>1, ResumedSame
    <3> QED BY <2>1, <3>1, <3>2 DEF Same, written
  <2>4. FaultInv'
    <3>1. ~target'.instructions /\ target'.registers = {}
      BY <2>2 DEF NothingLeft
    <3> QED BY <1>2, <2>2, <2>3, <3>1 DEF FaultInv
  <2>5. PsrTouched => PsrTouched'
    <3>1. pending.kind = "none"
      BY <1>2 DEF FaultInv
    <3> QED BY <2>2, <3>1 DEF PsrTouched, RegisterFaultAt
  <2>6. emu'.psr = emu.psr \/ PsrTouched'
    BY <2>2, <2>3 DEF PsrTouched
  <2> QED BY <1>1, <2>2, <2>3, <2>4, <2>5, <2>6, FaultBlock DEF BlockInv
<1>8. CASE UNCHANGED vars
  <2>1. emu' = emu /\ past' = past /\ pending' = pending /\ target' = target
    BY <1>8 DEF vars
  <2>2. FaultInv'
    BY <1>2, <2>1 DEF FaultInv
  <2>3. PsrTouched => PsrTouched'
    BY <2>1 DEF PsrTouched, RegisterFaultAt
  <2> QED BY <1>1, <2>1, <2>2, <2>3, FaultBlock DEF BlockInv
<1> QED BY <1>4, <1>5, <1>6, <1>7, <1>8 DEF Next

(* An IT instruction decides about as many instructions as its mask says,   *)
(* each under the condition that it has there, however the IT state got     *)
(* from one to the next, for any program, any fault and words of any width. *)
THEOREM BlocksRun == Spec => []BlockAsEncoded
<1>1. BlockInv => BlockAsEncoded
  <2> SUFFICES ASSUME BlockInv, emu.code = "OK", ~PsrFaulted,
                      \A k \in InBlock : past[k].i.name # "MSR"
               PROVE  /\ InITBlock(emu) <=> ToCome # <<>>
                      /\ LastInITBlock(emu) <=> Len(ToCome) = 1
                      /\ ToCome # <<>> => emu.psr.it \div 16 = Head(ToCome)
    BY DEF BlockAsEncoded
  <2>1. ~PsrTouched
    BY DEF PsrFaulted, PsrTouched
  <2>2. CASE emu.arch = "ARMv6M"
    <3>1. Opened = {}
      BY <2>2 DEF BlockInv, OpenedInv
    <3>2. ToCome = <<>> /\ Len(<<>>) = 0
      BY <3>1 DEF ToCome
    <3> QED BY <2>2, <3>2 DEF InITBlock, LastInITBlock
  <2>3. CASE emu.arch # "ARMv6M"
    <3>1. ToCome = Rest(emu.psr.it)
      BY <2>1, <2>3 DEF BlockInv, RestInv
    <3>2. emu.psr.it \in 0 .. 255
      <4>1. emu.psr = Fields(emu.xpsr)
        BY DEF BlockInv, MirrorInv, Mirrored
      <4> QED BY <4>1, FieldsType
    <3>3. CASE emu.psr.it % 16 = 0
      <4>1. ToCome = <<>> /\ Len(<<>>) = 0
        BY <3>1, <3>3 DEF Rest
      <4> QED BY <3>3, <4>1 DEF InITBlock, LastInITBlock
    <3>4. CASE emu.psr.it % 16 # 0
      <4> DEFINE c == Rest(emu.psr.it)
      <4>1. /\ c \in Seq(Int) /\ Len(c) \in 1 .. 4 /\ c[1] = emu.psr.it \div 16
            /\ Len(c) = 1 <=> emu.psr.it % 16 = 8
        BY <3>2, <3>4, RestOfBlock
      <4> HIDE DEF c
      <4>2. c # <<>> /\ Head(c) = c[1]
        BY <4>1
      <4> QED BY <2>3, <3>1, <3>4, <4>1, <4>2 DEF InITBlock, LastInITBlock, c
    <3> QED BY <3>3, <3>4
  <2> QED BY <2>2, <2>3
<1> QED BY <1>1, BlockInit, BlockStep, PTL DEF Spec

-----------------------------------------------------------------------------
(* What the decoder gives, and execute can carry out: members that name a   *)
(* register that exists wherever one is written, no condition 15, and no    *)
(* shift that is refused.                                                   *)

(* Mnemonics, by the members that execute uses as the number of a register  *)
(* to write: none, Rd, or others besides.                                   *)
ShiftName == {"LSL", "LSR", "ASR", "ROR"}

LongName == {"SMULL", "UMULL", "SMLAL", "UMLAL"}

QuietName ==
  {"CMN", "CMP", "TST", "TEQ", "STR", "STRT", "STRH", "STRHT", "STRB", "STRBT", "LDM", "STM",
   "LDMDB", "STMDB", "PUSH", "POP", "STRD", "B", "BL", "BX", "BLX", "TBB", "TBH", "MSR",
   "CBZ", "CBNZ", "UDF", "CPS", "NOP", "SEV", "DSB", "ISB", "DMB", "CSDB", "DBG", "CLREX",
   "SSBB", "PSSBB", "PLD", "PLI", "YIELD", "WFE", "WFI", "BKPT", "SVC"}

SingleName ==
  {"ADC", "ADD", "ADDW", "SBC", "SUB", "SUBW", "RSB", "AND", "BIC", "EOR", "ORR", "ORN", "MVN",
   "RRX", "MOV", "MOVW", "MOVT", "RBIT", "REV", "REV16", "REVSH", "CLZ", "SXTB", "SXTH", "UXTB",
   "UXTH", "SSAT", "USAT", "SBFX", "UBFX", "BFI", "BFC", "MUL", "MLA", "MLS", "SDIV", "UDIV", "ADR",
   "LDR", "LDRT", "LDRH", "LDRHT", "LDRB", "LDRBT", "LDRSH", "LDRSHT", "LDRSB", "LDRSBT",
   "LDREX", "LDREXB", "LDREXH", "STREX", "STREXB", "STREXH", "MRS"}

(* The operand types of uses_only_registers.                               *)
RegisterOnly == {"R", "RR", "RRR", "RRRR"}

(* An IT state whose condition will never be 15.                           *)
ItSound(it) == it \div 32 = 7 /\ it % 16 # 0 => it % 32 \in {1, 2, 4, 8}

(* A branch has an offset and a condition; registers that are compared, or  *)
(* subtracted with the carry of a comparison, are not PC, whatever the      *)
(* flags are.                                                               *)
Measured(i) ==
  /\ i.name = "B" => i.imm \in Int /\ i.condition \in 0 .. 14
  /\ i.name \in {"CMP", "SBC"} /\ i.ot \in RegisterOnly =>
       i.Rn \in RegisterFile \ {PC} /\ i.Rm \in RegisterFile \ {PC} /\ i.condition = 14

(* An instruction that execute can carry out.                              *)
Runnable(i) ==
  i.code = "OK" =>
    /\ i.name \in QuietName \union SingleName \union LongName \union ShiftName \union {"LDRD", "IT"}
    /\ i.name \notin QuietName \union {"IT"} => i.Rd \in RegisterFile
    /\ i.name = "IT" => ItSound(i.imm)
    /\ i.name \in LongName => i.Ra \in RegisterFile
    /\ i.name = "LDRD" => i.Rm \in RegisterFile
    /\ i.wback => i.Rn \in RegisterFile
    /\ i.condition # 15
    /\ i.shift \in ShiftName \/ (i.shift = "RRX" /\ i.amount = 1)
    /\ i.name \in ShiftName /\ i.ot \in RegisterOnly => i.shift \in ShiftName
    /\ Measured(i)

(* Members that it can use: registers that exist, no condition 15, and RRX  *)
(* with its amount only.                                                    *)
Sound(f) ==
  /\ "code" \notin DOMAIN f
  /\ \A x \in {"Rd", "Rn", "Rm", "Ra"} : x \in DOMAIN f => f[x] \in RegisterFile
  /\ "condition" \in DOMAIN f => f["condition"] # 15
  /\ "shift" \in DOMAIN f =>
       f["shift"] \in ShiftName \/ (f["shift"] = "RRX" /\ "amount" \in DOMAIN f /\ f["amount"] = 1)

(* Where a base is written back, there is one.                             *)
Based(f) == "wback" \in DOMAIN f => "Rn" \in DOMAIN f

(* Every member of a decoded instruction.                                  *)
LEMMA InsMember ==
  ASSUME NEW name, NEW ot, NEW f, NEW x \in DOMAIN Blank \ {"name", "ot"}
  PROVE  Ins(name, ot, f)[x] = IF x \in DOMAIN f THEN f[x] ELSE Blank[x]
<1> DEFINE set == Updated(Blank, f)
           last == [name |-> name, ot |-> ot]
<1>1. DOMAIN set = DOMAIN Blank /\ set[x] = IF x \in DOMAIN f THEN f[x] ELSE Blank[x]
  BY DEF Updated
<1>2. x \notin DOMAIN last
  OBVIOUS
<1> HIDE DEF set, last
<1>3. Ins(name, ot, f) = [y \in DOMAIN set |-> IF y \in DOMAIN last THEN last[y] ELSE set[y]]
  BY DEF Ins, Updated, set, last
<1> QED BY <1>1, <1>2, <1>3

(* The members of struct Instruction that matter here.                     *)
LEMMA InsKnown ==
  ASSUME NEW name, NEW ot, NEW f
  PROVE  /\ Ins(name, ot, f).name = name /\ Ins(name, ot, f).ot = ot
         /\ Ins(name, ot, f).code = IF "code" \in DOMAIN f THEN f["code"] ELSE "OK"
         /\ Ins(name, ot, f).Rd = IF "Rd" \in DOMAIN f THEN f["Rd"] ELSE -1
         /\ Ins(name, ot, f).Rn = IF "Rn" \in DOMAIN f THEN f["Rn"] ELSE -1
         /\ Ins(name, ot, f).Rm = IF "Rm" \in DOMAIN f THEN f["Rm"] ELSE -1
         /\ Ins(name, ot, f).Ra = IF "Ra" \in DOMAIN f THEN f["Ra"] ELSE -1
         /\ Ins(name, ot, f).condition = IF "condition" \in DOMAIN f THEN f["condition"] ELSE 14
         /\ "wback" \notin DOMAIN f => ~Ins(name, ot, f).wback
         /\ Ins(name, ot, f).shift = IF "shift" \in DOMAIN f THEN f["shift"] ELSE "LSL"
         /\ Ins(name, ot, f).amount = IF "amount" \in DOMAIN f THEN f["amount"] ELSE 0
         /\ "imm" \in DOMAIN f => Ins(name, ot, f).imm = f["imm"]
<1> DEFINE i == Ins(name, ot, f)
<1>1. i.name = name
  BY InsMembers
<1>2. i.ot = ot
  <2>1. "ot" \in DOMAIN Updated(Blank, f)
    BY DEF Updated, Blank
  <2> HIDE DEF i
  <2> QED BY <2>1 DEF Ins, Updated, i
<1>3. \A x \in DOMAIN Blank \ {"name", "ot"} : i[x] = IF x \in DOMAIN f THEN f[x] ELSE Blank[x]
  BY InsMember
<1>4. /\ {"code", "Rd", "Rn", "Rm", "Ra", "condition", "wback", "shift", "amount", "imm"}
           \subseteq DOMAIN Blank \ {"name", "ot"}
      /\ Blank["code"] = "OK" /\ Blank["Rd"] = -1 /\ Blank["Rn"] = -1 /\ Blank["Rm"] = -1
      /\ Blank["Ra"] = -1 /\ Blank["condition"] = 14 /\ Blank["wback"] = FALSE
      /\ Blank["shift"] = "LSL" /\ Blank["amount"] = 0
  BY DEF Blank, Unset
<1> HIDE DEF i
<1>5. /\ i.code = IF "code" \in DOMAIN f THEN f["code"] ELSE "OK"
      /\ i.Rd = IF "Rd" \in DOMAIN f THEN f["Rd"] ELSE -1
      /\ i.Rn = IF "Rn" \in DOMAIN f THEN f["Rn"] ELSE -1
      /\ i.Rm = IF "Rm" \in DOMAIN f THEN f["Rm"] ELSE -1
      /\ i.Ra = IF "Ra" \in DOMAIN f THEN f["Ra"] ELSE -1
  BY <1>3, <1>4
<1>6. /\ i.condition = IF "condition" \in DOMAIN f THEN f["condition"] ELSE 14
      /\ "wback" \notin DOMAIN f => ~i.wback
      /\ i.shift = IF "shift" \in DOMAIN f THEN f["shift"] ELSE "LSL"
      /\ i.amount = IF "amount" \in DOMAIN f THEN f["amount"] ELSE 0
      /\ "imm" \in DOMAIN f => i.imm = f["imm"]
  BY <1>3, <1>4
<1> QED BY <1>1, <1>2, <1>5, <1>6 DEF i

(* What such members and a mnemonic make can be carried out.               *)
LEMMA InsRunnable ==
  ASSUME NEW name, NEW ot, NEW f, Sound(f), Based(f),
         \/ name \in QuietName
         \/ name \in SingleName /\ "Rd" \in DOMAIN f
         \/ name \in LongName /\ {"Rd", "Ra"} \subseteq DOMAIN f
         \/ name = "LDRD" /\ {"Rd", "Rm"} \subseteq DOMAIN f
         \/ /\ name \in ShiftName /\ "Rd" \in DOMAIN f
            /\ ot \in RegisterOnly /\ "shift" \in DOMAIN f => f["shift"] \in ShiftName,
         Measured(Ins(name, ot, f))
  PROVE  Runnable(Ins(name, ot, f))
<1> DEFINE i == Ins(name, ot, f)
<1>1. /\ i.name = name /\ i.ot = ot
      /\ i.Rd = IF "Rd" \in DOMAIN f THEN f["Rd"] ELSE -1
      /\ i.Rn = IF "Rn" \in DOMAIN f THEN f["Rn"] ELSE -1
      /\ i.Rm = IF "Rm" \in DOMAIN f THEN f["Rm"] ELSE -1
      /\ i.Ra = IF "Ra" \in DOMAIN f THEN f["Ra"] ELSE -1
      /\ i.condition = IF "condition" \in DOMAIN f THEN f["condition"] ELSE 14
      /\ "wback" \notin DOMAIN f => ~i.wback
      /\ i.shift = IF "shift" \in DOMAIN f THEN f["shift"] ELSE "LSL"
      /\ i.amount = IF "amount" \in DOMAIN f THEN f["amount"] ELSE 0
  BY InsKnown
<1> HIDE DEF i
<1>2. name \in QuietName \union SingleName \union LongName \union ShiftName \union {"LDRD"}
  OBVIOUS
<1>3. /\ name \in SingleName => name \notin LongName /\ name # "LDRD" /\ name \notin ShiftName
      /\ name \in QuietName => name \notin LongName /\ name # "LDRD" /\ name \notin ShiftName
      /\ name \in LongName => name # "LDRD" /\ name \notin ShiftName
      /\ name \in ShiftName => name # "LDRD" /\ name \notin LongName
  BY DEF SingleName, LongName, ShiftName, QuietName
<1>4. "LSL" \in ShiftName
  BY DEF ShiftName
<1>5. name \notin QuietName => i.Rd \in RegisterFile
  BY <1>1 DEF Sound
<1>6. name \in LongName => i.Ra \in RegisterFile
  BY <1>1, <1>3 DEF Sound
<1>7. name = "LDRD" => i.Rm \in RegisterFile
  BY <1>1, <1>3 DEF Sound
<1>8. i.wback => i.Rn \in RegisterFile
  BY <1>1 DEF Sound, Based
<1>9. i.condition # 15
  BY <1>1 DEF Sound
<1>10. i.shift \in ShiftName \/ (i.shift = "RRX" /\ i.amount = 1)
  BY <1>1, <1>4 DEF Sound
<1>11. name \in ShiftName /\ ot \in RegisterOnly => i.shift \in ShiftName
  BY <1>1, <1>3, <1>4
<1>12. name # "IT"
  BY DEF SingleName, LongName, ShiftName, QuietName
<1> QED BY <1>1, <1>2, <1>5, <1>6, <1>7, <1>8, <1>9, <1>10, <1>11, <1>12 DEF Runnable, i

(* Members joined, of which none is given twice.                           *)
LEMMA JoinedSound ==
  ASSUME NEW f, NEW g, Sound(f), Sound(g), DOMAIN f \cap DOMAIN g = {}
  PROVE  Sound(f ++ g) /\ DOMAIN (f ++ g) = DOMAIN f \union DOMAIN g
<1> DEFINE h == f ++ g
<1>1. /\ DOMAIN h = DOMAIN f \union DOMAIN g
      /\ \A x \in DOMAIN f : h[x] = f[x]
      /\ \A x \in DOMAIN g : h[x] = g[x]
  BY DEF ++
<1> HIDE DEF h
<1> QED BY <1>1 DEF Sound, h

(* decode_imm_shift gives a shift that is not refused.                      *)
LEMMA ImmShiftSound ==
  \A type \in 0 .. 3 : \A imm5 : Sound(ImmShift(type, imm5)) /\ DOMAIN ImmShift(type, imm5) = {"shift", "amount"}
BY DEF Sound, ImmShift, ShiftName

(* Members that such mnemonics need.                                        *)
Quiet(f) == Sound(f) /\ Based(f)

Single(f) == Sound(f) /\ Based(f) /\ "Rd" \in DOMAIN f

Long(f) == Sound(f) /\ Based(f) /\ {"Rd", "Ra"} \subseteq DOMAIN f

(* The names of which more is said.                                         *)
MeasuredName == {"B", "CMP", "SBC"}

LEMMA BareMeasured == \A name, ot, f : name \notin MeasuredName => Measured(Ins(name, ot, f))
BY InsKnown DEF Measured, MeasuredName

(* Then they can be carried out.                                            *)
LEMMA NamedRunnable ==
  /\ \A name \in QuietName \ MeasuredName : \A ot, f : Quiet(f) => Runnable(Ins(name, ot, f))
  /\ \A name \in SingleName \ MeasuredName : \A ot, f : Single(f) => Runnable(Ins(name, ot, f))
  /\ \A name \in LongName : \A ot, f : Long(f) => Runnable(Ins(name, ot, f))
<1>1. \A name \in QuietName \ MeasuredName : \A ot, f : Quiet(f) => Runnable(Ins(name, ot, f))
  BY InsRunnable, BareMeasured DEF Quiet
<1>2. \A name \in SingleName \ MeasuredName : \A ot, f : Single(f) => Runnable(Ins(name, ot, f))
  BY InsRunnable, BareMeasured DEF Single
<1>3. \A name \in LongName : \A ot, f : Long(f) => Runnable(Ins(name, ot, f))
  <2>1. \A name \in LongName : name \notin MeasuredName
    BY DEF LongName, MeasuredName
  <2> QED BY <2>1, InsRunnable, BareMeasured DEF Long
<1> QED BY <1>1, <1>2, <1>3

(* And so can those names, with what is said of them.                      *)
LEMMA BranchRunnable ==
  \A ot, f : /\ Quiet(f) /\ "imm" \in DOMAIN f /\ f["imm"] \in Int
             /\ "condition" \in DOMAIN f => f["condition"] \in 0 .. 14
             => Runnable(Ins("B", ot, f))
<1> SUFFICES ASSUME NEW ot, NEW f, Quiet(f), "imm" \in DOMAIN f, f["imm"] \in Int,
                    "condition" \in DOMAIN f => f["condition"] \in 0 .. 14
             PROVE  Runnable(Ins("B", ot, f))
  OBVIOUS
<1>1. Measured(Ins("B", ot, f))
  BY InsKnown DEF Measured
<1> QED BY <1>1, InsRunnable DEF Quiet, QuietName

Apart(ot, f) ==
  ot \in RegisterOnly =>
    {"Rn", "Rm"} \subseteq DOMAIN f /\ f["Rn"] # PC /\ f["Rm"] # PC /\ "condition" \notin DOMAIN f

LEMMA ComparedRunnable ==
  /\ \A ot, f : Quiet(f) /\ Apart(ot, f) => Runnable(Ins("CMP", ot, f))
  /\ \A ot, f : Single(f) /\ Apart(ot, f) => Runnable(Ins("SBC", ot, f))
<1>1. \A name \in {"CMP", "SBC"} : \A ot, f : Sound(f) /\ Apart(ot, f) => Measured(Ins(name, ot, f))
  <2> SUFFICES ASSUME NEW name \in {"CMP", "SBC"}, NEW ot, NEW f, Sound(f), Apart(ot, f)
               PROVE  Measured(Ins(name, ot, f))
    OBVIOUS
  <2> DEFINE i == Ins(name, ot, f)
  <2>1. /\ i.name = name /\ i.ot = ot
        /\ i.Rn = IF "Rn" \in DOMAIN f THEN f["Rn"] ELSE -1
        /\ i.Rm = IF "Rm" \in DOMAIN f THEN f["Rm"] ELSE -1
        /\ i.condition = IF "condition" \in DOMAIN f THEN f["condition"] ELSE 14
    BY InsKnown
  <2> HIDE DEF i
  <2>2. Measured(i)
    BY <2>1 DEF Measured, Sound, Apart
  <2> QED BY <2>2 DEF i
<1>2. \A ot, f : Quiet(f) /\ Apart(ot, f) => Runnable(Ins("CMP", ot, f))
  BY <1>1, InsRunnable DEF Quiet, QuietName
<1>3. \A ot, f : Single(f) /\ Apart(ot, f) => Runnable(Ins("SBC", ot, f))
  BY <1>1, InsRunnable DEF Single, SingleName
<1> QED BY <1>2, <1>3

(* Shifts need their type, unless they have an immediate.                   *)
LEMMA ShiftRunnable ==
  \A name \in ShiftName : \A ot, f :
    /\ Single(f)
    /\ ot \in RegisterOnly /\ "shift" \in DOMAIN f => f["shift"] \in ShiftName
    => Runnable(Ins(name, ot, f))
<1>1. \A name \in ShiftName : name \notin MeasuredName
  BY DEF ShiftName, MeasuredName
<1> QED BY <1>1, InsRunnable, BareMeasured DEF Single

(* A refusal is no instruction.                                             *)
LEMMA RefuseRunnable == \A code : code # "OK" => Runnable(Refuse(code))
BY DEF Runnable, Refuse

(* Refused, or as it was.                                                   *)
LEMMA CheckedRunnable ==
  \A w, unexpected, unpredictable, i :
    Runnable(i) => Runnable(Checked(unexpected, unpredictable, i)) /\ Runnable(From7(w, i))
BY RefuseRunnable DEF Checked, From7

(* The fields that name a register.                                         *)
LEMMA RegisterFields ==
  \A x \in Int : /\ Bits(x, 2, 0) \in RegisterFile /\ Bits(x, 5, 3) \in RegisterFile
                 /\ Bits(x, 8, 6) \in RegisterFile /\ Bits(x, 10, 8) \in RegisterFile
                 /\ Bits(x, 6, 3) \in RegisterFile
                 /\ 8 * Bits(x, 7, 7) + Bits(x, 2, 0) \in RegisterFile
BY DEF Bits, RegisterFile

(* Those of two halfwords.                                                  *)
LEMMA WideFields ==
  ASSUME NEW w, w.H \in Halfword, w.L \in Halfword
  PROVE  Hn(w) \in RegisterFile /\ Lt(w) \in RegisterFile /\ Ld(w) \in RegisterFile /\ Lm(w) \in RegisterFile
BY DEF Hn, Lt, Ld, Lm, RegisterFile, Halfword

(* SP and PC.                                                               *)
LEMMA NamedRegisters == SP \in RegisterFile /\ LR \in RegisterFile /\ PC \in RegisterFile
BY DEF SP, LR, PC, RegisterFile

(* Members and a shift.                                                     *)
LEMMA ShiftedSingle ==
  \A f : Single(f) /\ DOMAIN f \cap {"shift", "amount"} = {} =>
    \A type \in 0 .. 3 : \A imm5 : Single(f ++ ImmShift(type, imm5))
<1> SUFFICES ASSUME NEW f, Single(f), DOMAIN f \cap {"shift", "amount"} = {},
                    NEW type \in 0 .. 3, NEW imm5
             PROVE  Single(f ++ ImmShift(type, imm5))
  OBVIOUS
<1> DEFINE g == ImmShift(type, imm5)
<1>1. Sound(g) /\ DOMAIN g = {"shift", "amount"}
  BY ImmShiftSound
<1> HIDE DEF g
<1>2. Sound(f ++ g) /\ DOMAIN (f ++ g) = DOMAIN f \union {"shift", "amount"}
  BY <1>1, JoinedSound DEF Single
<1>3. Single(f ++ g)
  BY <1>2 DEF Single, Based
<1> QED BY <1>3 DEF g

(* A number whose sign is extended.                                         *)
LEMMA ExtendedType == \A x \in Int : \A n \in {9, 12, 21, 25} : SignExtended(x, n) \in Int
BY DEF SignExtended

(* Encodings of one halfword. *)
LEMMA SmallRunnable ==
  ASSUME NEW w, w.H \in Int
  PROVE  /\ Runnable(MovsRegister(w)) /\ Runnable(MovCmpAddSub(w)) /\ Runnable(LoadLiteral(w))
         /\ Runnable(ShiftAddSub(w)) /\ Runnable(DataProcessing(w)) /\ Runnable(AddHigh(w))
         /\ Runnable(SpecialDataBranchExchange(w)) /\ Runnable(LoadStoreRegister(w))
         /\ Runnable(AddToPCorSP(w)) /\ Runnable(PushPop(w)) /\ Runnable(StoreLoadMultiple(w))
         /\ Runnable(ConditionalBranchAndSVC(w)) /\ Runnable(Branch(w))
         /\ Bits(w.H, 15, 11) \in 12 .. 19 => Runnable(LoadStoreImmediate(w))
<1> DEFINE low == Bits(w.H, 2, 0)
           mid == Bits(w.H, 5, 3)
<1>1. Runnable(MovsRegister(w))
  <2>1. Single([S |-> TRUE, Rd |-> Bits(w.H, 2, 0), Rm |-> Bits(w.H, 5, 3)])
    BY RegisterFields DEF Single, Sound, Based
  <2> QED BY <2>1, NamedRunnable DEF MeasuredName, MovsRegister, SingleName
<1>2. Runnable(LoadLiteral(w))
  <2>1. \A imm : Single([Rd |-> Bits(w.H, 10, 8), imm |-> imm, add |-> TRUE])
    BY RegisterFields DEF Single, Sound, Based
  <2> QED BY <2>1, NamedRunnable DEF MeasuredName, LoadLiteral, SingleName
<1>3. Runnable(MovCmpAddSub(w))
  <2>1. \A s, imm : Single([S |-> s, Rd |-> Bits(w.H, 10, 8)] ++ [imm |-> imm])
    BY RegisterFields DEF Single, Sound, Based, ++
  <2>2. \A s, imm : Single([S |-> s, Rd |-> Bits(w.H, 10, 8), Rn |-> Bits(w.H, 10, 8)] ++ [imm |-> imm])
    BY RegisterFields DEF Single, Sound, Based, ++
  <2>3. \A imm : Quiet([Rn |-> Bits(w.H, 10, 8)] ++ [imm |-> imm])
    BY RegisterFields DEF Quiet, Sound, Based, ++
  <2>4. \A f : Quiet(f) => Runnable(Ins("CMP", "RI", f))
    BY ComparedRunnable DEF Apart, RegisterOnly
  <2> QED BY <2>1, <2>2, <2>3, <2>4, NamedRunnable DEF MeasuredName, MovCmpAddSub, SingleName
<1>4. Runnable(ShiftAddSub(w))
  <2> DEFINE type == Bits(w.H, 12, 11)
  <2>1. type \in 0 .. 3
    BY BitsType
  <2>2. \A s : Single([S |-> s, Rd |-> low, Rm |-> mid])
    BY RegisterFields DEF Single, Sound, Based
  <2>3. \A s, imm5 : Single([S |-> s, Rd |-> low, Rm |-> mid] ++ ImmShift(type, imm5))
    <3>1. \A s : DOMAIN [S |-> s, Rd |-> low, Rm |-> mid] \cap {"shift", "amount"} = {}
      OBVIOUS
    <3> HIDE DEF low, mid, type
    <3> QED BY <2>1, <2>2, <3>1, ShiftedSingle
  <2>4. \A s, imm : Single([imm |-> imm] ++ [S |-> s, Rd |-> low, Rn |-> mid])
    BY RegisterFields DEF Single, Sound, Based, ++
  <2>5. \A s : Single([Rm |-> Bits(w.H, 8, 6)] ++ [S |-> s, Rd |-> low, Rn |-> mid])
    BY RegisterFields DEF Single, Sound, Based, ++
  <2>6. \A n \in 0 .. 2 : \A f : Single(f) => Runnable(Ins(<<"LSL", "LSR", "ASR">>[n + 1], "RRI", f))
    BY ShiftRunnable DEF ShiftName, RegisterOnly
  <2>7. \A name \in {"ADD", "SUB"} : \A ot, f : Single(f) => Runnable(Ins(name, ot, f))
    BY NamedRunnable DEF MeasuredName, SingleName
  <2> QED BY <2>1, <2>3, <2>4, <2>5, <2>6, <2>7 DEF ShiftAddSub
<1>5. Runnable(DataProcessing(w))
  <2> DEFINE name == DataProcessingName[Bits(w.H, 9, 6) + 1]
  <2>1. name \in {"AND", "EOR", "LSL", "LSR", "ASR", "ADC", "SBC", "ROR", "TST",
                  "RSB", "CMP", "CMN", "ORR", "MUL", "BIC", "MVN"}
    BY BitsType DEF DataProcessingName
  <2>2. Quiet([Rn |-> low, Rm |-> mid])
    BY RegisterFields DEF Quiet, Sound, Based
  <2>3. \A s, imm : Single([Rd |-> low, Rn |-> mid, imm |-> imm] ++ [S |-> s])
    BY RegisterFields DEF Single, Sound, Based, ++
  <2>4. \A s : Single([Rd |-> low, Rm |-> low, Rn |-> mid] ++ [S |-> s])
    BY RegisterFields DEF Single, Sound, Based, ++
  <2>5. \A s : Single([Rd |-> low, Rm |-> mid] ++ [S |-> s])
    BY RegisterFields DEF Single, Sound, Based, ++
  <2>6. \A s : Single([Rd |-> low, Rn |-> low, Rm |-> mid] ++ [S |-> s])
    BY RegisterFields DEF Single, Sound, Based, ++
  <2>7. \A s, type : type \in ShiftName =>
          LET f == [Rd |-> low, Rn |-> low, Rm |-> mid, shift |-> type] ++ [S |-> s]
          IN  Single(f) /\ f["shift"] \in ShiftName
    BY RegisterFields DEF Single, Sound, Based, ++
  <2>8. \A type \in ShiftName : \A s :
          Runnable(Ins(type, "RR", [Rd |-> low, Rn |-> low, Rm |-> mid, shift |-> type] ++ [S |-> s]))
    BY <2>7, ShiftRunnable
  <2>12. low # PC /\ mid # PC
    BY DEF Bits, PC
  <2> HIDE DEF name, low, mid
  <2>9. CASE name \in {"TST", "CMP", "CMN"}
    <3>1. DataProcessing(w) = Ins(name, "RR", [Rn |-> low, Rm |-> mid])
      BY <2>9 DEF DataProcessing, name, low, mid
    <3>2. Runnable(Ins("CMP", "RR", [Rn |-> low, Rm |-> mid]))
      BY <2>2, <2>12, ComparedRunnable DEF Apart
    <3> QED BY <2>2, <2>9, <3>1, <3>2, NamedRunnable DEF MeasuredName, QuietName
  <2>10. CASE name \in {"LSL", "LSR", "ASR", "ROR"}
    <3>1. DataProcessing(w) = Ins(name, "RR", [Rd |-> low, Rn |-> low, Rm |-> mid, shift |-> name]
                                                ++ [S |-> ~InIT(w)])
      BY <2>10 DEF DataProcessing, name, low, mid
    <3> QED BY <2>8, <2>10, <3>1 DEF ShiftName
  <2>13. CASE name = "SBC"
    <3> DEFINE f == [Rd |-> low, Rn |-> low, Rm |-> mid] ++ [S |-> ~InIT(w)]
    <3>1. DataProcessing(w) = Ins("SBC", "RR", f)
      BY <2>13 DEF DataProcessing, name, low, mid
    <3>2. Apart("RR", f)
      BY <2>12 DEF Apart, ++
    <3> HIDE DEF f
    <3>3. Single(f)
      BY <2>6 DEF f
    <3> QED BY <3>1, <3>2, <3>3, ComparedRunnable
  <2>11. CASE name \in {"RSB", "MUL", "MVN", "AND", "EOR", "ADC", "ORR", "BIC"}
    <3>1. \A ot, f : Single(f) => Runnable(Ins(name, ot, f))
      BY <2>11, NamedRunnable DEF MeasuredName, SingleName
    <3>2. name \notin {"TST", "CMP", "CMN", "LSL", "LSR", "ASR", "ROR"}
      BY <2>11
    <3>3. DataProcessing(w) = CASE name = "RSB" -> Ins(name, "RRI", [Rd |-> low, Rn |-> mid, imm |-> 0]
                                                                      ++ [S |-> ~InIT(w)])
                                [] name = "MUL" -> Ins(name, "RR", [Rd |-> low, Rm |-> low, Rn |-> mid]
                                                                     ++ [S |-> ~InIT(w)])
                                [] name = "MVN" -> Ins(name, "RR", [Rd |-> low, Rm |-> mid]
                                                                     ++ [S |-> ~InIT(w)])
                                [] OTHER -> Ins(name, "RR", [Rd |-> low, Rn |-> low, Rm |-> mid]
                                                              ++ [S |-> ~InIT(w)])
      BY <3>2 DEF DataProcessing, name, low, mid
    <3> QED BY <2>3, <2>4, <2>5, <2>6, <3>1, <3>3
  <2> QED BY <2>1, <2>9, <2>10, <2>11, <2>13
<1>6. Runnable(AddHigh(w))
  <2>1. \A d, n, m : d \in RegisterFile /\ n \in RegisterFile /\ m \in RegisterFile =>
          Single([Rd |-> d, Rn |-> n, Rm |-> m])
    BY DEF Single, Sound, Based
  <2>2. \A ot, f : Single(f) => Runnable(Ins("ADD", ot, f))
    BY NamedRunnable DEF MeasuredName, SingleName
  <2> QED BY <2>1, <2>2, RegisterFields, NamedRegisters, RefuseRunnable DEF AddHigh
<1>7. Runnable(SpecialDataBranchExchange(w))
  <2>1. \A d, m : d \in RegisterFile /\ m \in RegisterFile => Single([Rd |-> d, Rm |-> m])
    BY DEF Single, Sound, Based
  <2>2. \A n, m : n \in RegisterFile \ {PC} /\ m \in RegisterFile \ {PC} =>
          Runnable(Ins("CMP", "RR", [Rn |-> n, Rm |-> m]))
    <3>1. \A n, m : n \in RegisterFile /\ m \in RegisterFile => Quiet([Rn |-> n, Rm |-> m])
      BY DEF Quiet, Sound, Based
    <3> QED BY <3>1, ComparedRunnable DEF Apart
  <2>3. \A m : m \in RegisterFile => Quiet([Rm |-> m])
    BY DEF Quiet, Sound, Based
  <2>4. \A ot, f : Single(f) => Runnable(Ins("MOV", ot, f))
    BY NamedRunnable DEF MeasuredName, SingleName
  <2>5. \A name \in {"BX", "BLX"} : \A ot, f : Quiet(f) => Runnable(Ins(name, ot, f))
    BY NamedRunnable DEF MeasuredName, QuietName
  <2>6. Bits(w.H, 9, 6) \in 0 .. 15
    BY BitsType
  <2> QED BY <1>6, <2>1, <2>2, <2>3, <2>4, <2>5, <2>6, RegisterFields, NamedRegisters, RefuseRunnable
          DEF SpecialDataBranchExchange
<1>8. Runnable(LoadStoreRegister(w))
  <2> DEFINE names == <<"STR", "STRH", "STRB", "LDRSB", "LDR", "LDRH", "LDRB", "LDRSH">>
             f == [Rd |-> Bits(w.H, 2, 0), Rn |-> Bits(w.H, 5, 3), Rm |-> Bits(w.H, 8, 6)]
                    ++ [index |-> TRUE, add |-> TRUE]
             name == names[Bits(w.H, 11, 9) + 1]
  <2>1. name \in {"STR", "STRH", "STRB", "LDRSB", "LDR", "LDRH", "LDRB", "LDRSH"}
    BY BitsType
  <2>2. Single(f)
    BY RegisterFields DEF Single, Sound, Based, ++
  <2>3. Quiet(f)
    BY <2>2 DEF Quiet, Single
  <2> HIDE DEF f, name
  <2>4. Runnable(Ins(name, "RRR", f))
    BY <2>1, <2>2, <2>3, NamedRunnable DEF MeasuredName, SingleName, QuietName
  <2> QED BY <2>4 DEF LoadStoreRegister, f, name
<1>9. Runnable(AddToPCorSP(w))
  <2>1. \A imm : Single([Rd |-> Bits(w.H, 10, 8), Rn |-> SP, imm |-> imm])
    BY RegisterFields, NamedRegisters DEF Single, Sound, Based
  <2>2. \A imm : Single([Rd |-> Bits(w.H, 10, 8), imm |-> imm, add |-> TRUE])
    BY RegisterFields DEF Single, Sound, Based
  <2> QED BY <2>1, <2>2, NamedRunnable DEF MeasuredName, AddToPCorSP, SingleName
<1>10. Runnable(PushPop(w)) /\ Runnable(Branch(w))
  <2>1. \A imm : Quiet([imm |-> imm])
    BY DEF Quiet, Sound, Based
  <2>2. \A name \in {"PUSH", "POP"} : \A ot, f : Quiet(f) => Runnable(Ins(name, ot, f))
    BY NamedRunnable DEF MeasuredName, QuietName
  <2>3. \A imm \in Int : Runnable(Ins("B", "I", [imm |-> imm]))
    BY <2>1, BranchRunnable
  <2>4. SignExtended(2 * Bits(w.H, 10, 0), 12) \in Int
    <3>1. 2 * Bits(w.H, 10, 0) \in Int
      BY DEF Bits
    <3> QED BY <3>1, ExtendedType
  <2> QED BY <2>1, <2>2, <2>3, <2>4, RefuseRunnable DEF PushPop, Branch
<1>11. Runnable(StoreLoadMultiple(w))
  <2>1. \A imm, wback : Quiet([wback |-> wback] ++ [Rn |-> Bits(w.H, 10, 8), imm |-> imm])
    BY RegisterFields DEF Quiet, Sound, Based, ++
  <2>2. \A name \in {"LDM", "STM"} : \A ot, f : Quiet(f) => Runnable(Ins(name, ot, f))
    BY NamedRunnable DEF MeasuredName, QuietName
  <2> QED BY <2>1, <2>2, RefuseRunnable DEF StoreLoadMultiple
<1>12. Runnable(ConditionalBranchAndSVC(w))
  <2>1. \A imm \in Int : \A condition \in 0 .. 14 :
          Runnable(Ins("B", "I", [condition |-> condition, imm |-> imm]))
    <3>1. \A imm : \A condition \in 0 .. 14 : Quiet([condition |-> condition, imm |-> imm])
      BY DEF Quiet, Sound, Based
    <3> QED BY <3>1, BranchRunnable
  <2>2. \A imm : Quiet([imm |-> imm])
    BY DEF Quiet, Sound, Based
  <2>3. Quiet(<<>>)
    BY DEF Quiet, Sound, Based
  <2>4. \A name \in {"UDF", "SVC"} : \A ot, f : Quiet(f) => Runnable(Ins(name, ot, f))
    BY NamedRunnable DEF MeasuredName, QuietName
  <2>5. SignExtended(2 * Bits(w.H, 7, 0), 9) \in Int
    <3>1. 2 * Bits(w.H, 7, 0) \in Int
      BY DEF Bits
    <3> QED BY <3>1, ExtendedType
  <2>6. Bits(w.H, 11, 8) \in 0 .. 15
    BY BitsType
  <2> DEFINE condition == Bits(w.H, 11, 8)
             imm == SignExtended(2 * Bits(w.H, 7, 0), 9)
             svc == [imm |-> Bits(w.H, 7, 0)]
  <2>7. ConditionalBranchAndSVC(w) =
          CASE condition = 14 -> Ins("UDF", "NONE", <<>>)
            [] condition = 15 -> Ins("SVC", "I", svc)
            [] OTHER -> IF InIT(w) THEN Refuse("UNPREDICTABLE")
                        ELSE Ins("B", "I", [condition |-> condition, imm |-> imm])
    BY DEF ConditionalBranchAndSVC
  <2>8. Quiet(svc)
    BY <2>2
  <2> HIDE DEF condition, imm, svc
  <2>9. Runnable(Ins("UDF", "NONE", <<>>)) /\ Runnable(Ins("SVC", "I", svc))
    BY <2>3, <2>4, <2>8
  <2>10. condition # 15 => Runnable(Ins("B", "I", [condition |-> condition, imm |-> imm]))
    <3>1. imm \in Int /\ condition \in 0 .. 15
      BY <2>5, <2>6 DEF imm, condition
    <3>2. condition # 15 => condition \in 0 .. 14
      BY <3>1
    <3> QED BY <2>1, <3>1, <3>2
  <2> QED BY <2>7, <2>9, <2>10, RefuseRunnable
<1>13. Bits(w.H, 15, 11) \in 12 .. 19 => Runnable(LoadStoreImmediate(w))
  <2> DEFINE rows == <<<<"STR", 4>>, <<"LDR", 4>>, <<"STRB", 1>>, <<"LDRB", 1>>, <<"STRH", 2>>,
                       <<"LDRH", 2>>, <<"STR", 4>>, <<"LDR", 4>>>>
             row == rows[Bits(w.H, 15, 11) - 11]
  <2>1. SUFFICES ASSUME Bits(w.H, 15, 11) \in 12 .. 19 PROVE Runnable(LoadStoreImmediate(w))
    OBVIOUS
  <2>2. row[1] \in {"STR", "LDR", "STRB", "LDRB", "STRH", "LDRH"}
    BY <2>1
  <2>3. \A imm : Single([Rd |-> Bits(w.H, 10, 8), Rn |-> SP, imm |-> imm] ++ [index |-> TRUE, add |-> TRUE])
    BY RegisterFields, NamedRegisters DEF Single, Sound, Based, ++
  <2>4. \A imm : Single([Rd |-> low, Rn |-> mid, imm |-> imm] ++ [index |-> TRUE, add |-> TRUE])
    BY RegisterFields DEF Single, Sound, Based, ++
  <2> HIDE DEF row, low, mid
  <2>5. \A ot, f : Single(f) => Runnable(Ins(row[1], ot, f))
    <3>1. \A f : Single(f) => Quiet(f)
      BY DEF Single, Quiet
    <3> QED BY <2>2, <3>1, NamedRunnable DEF MeasuredName, SingleName, QuietName
  <2> QED BY <2>3, <2>4, <2>5 DEF LoadStoreImmediate, row, low, mid
<1> QED BY <1>1, <1>2, <1>3, <1>4, <1>5, <1>6, <1>7, <1>8, <1>9, <1>10, <1>11, <1>12, <1>13

(* Of the masks that IT takes, those of a single instruction.               *)
LEMMA SingleMask ==
  ASSUME NEW mask \in 1 .. 15, Cardinality(BitsOf(mask)) = 1
  PROVE  mask \in {1, 2, 4, 8}
<1> DEFINE list == BitsOf(mask)
<1>1. /\ 0 \in list <=> mask % 2 = 1
      /\ 1 \in list <=> (mask \div 2) % 2 = 1
      /\ 2 \in list <=> (mask \div 4) % 2 = 1
      /\ 3 \in list <=> (mask \div 8) % 2 = 1
  BY DEF BitsOf, IsSet
<1>2. IsFiniteSet(list)
  <2>1. list \subseteq 0 .. 15
    BY DEF BitsOf
  <2>2. IsFiniteSet(0 .. 15)
    <3>1. 0 \in Int /\ 15 \in Int
      OBVIOUS
    <3> QED BY <3>1, FS_Interval
  <2> QED BY <2>1, <2>2, FS_Subset
<1>3. PICK i : list = {i}
  BY <1>2, FS_Singleton
<1> HIDE DEF list
<1>4. \A j, k \in list : j = k
  BY <1>3
<1>5. /\ ~(0 \in list /\ 1 \in list) /\ ~(0 \in list /\ 2 \in list) /\ ~(0 \in list /\ 3 \in list)
      /\ ~(1 \in list /\ 2 \in list) /\ ~(1 \in list /\ 3 \in list) /\ ~(2 \in list /\ 3 \in list)
  BY <1>4
<1> QED BY <1>1, <1>5

(* IT and the hints: the condition AL has one instruction only.             *)
LEMMA ItRunnable ==
  ASSUME NEW w, w.H \in Int
  PROVE  Runnable(IfThenAndHints(w))
<1> DEFINE imm == Bits(w.H, 7, 0)
           firstcond == Bits(w.H, 7, 4)
           mask == Bits(w.H, 3, 0)
           it == Ins("IT", "I", [imm |-> imm])
<1>1. imm \in 0 .. 255 /\ mask = imm % 16 /\ firstcond = imm \div 16
  BY DEF Bits
<1>2. CASE mask # 0 /\ IfThenAndHints(w) = it
          /\ firstcond # 15 /\ (firstcond = 14 => Cardinality(BitsOf(mask)) = 1)
  <2>1. firstcond = 14 => mask \in {1, 2, 4, 8}
    <3> HIDE DEF firstcond, imm, it
    <3>1. mask \in 1 .. 15
      BY <1>1, <1>2
    <3> QED BY <1>2, <3>1, SingleMask
  <2> HIDE DEF firstcond, mask, imm
  <2>2. ItSound(imm)
    BY <1>1, <1>2, <2>1 DEF ItSound
  <2>3. /\ it.name = "IT" /\ it.imm = imm /\ it.ot = "I" /\ ~it.wback /\ it.condition = 14
        /\ it.shift = "LSL"
    BY InsKnown, InsMembers
  <2> HIDE DEF it
  <2>4. Runnable(it)
    BY <2>2, <2>3 DEF Runnable, LongName, ShiftName, RegisterOnly, Measured
  <2> QED BY <1>2, <2>4
<1>3. CASE ~(mask # 0 /\ IfThenAndHints(w) = it
          /\ firstcond # 15 /\ (firstcond = 14 => Cardinality(BitsOf(mask)) = 1))
  <2>1. Quiet(<<>>)
    BY DEF Quiet, Sound, Based
  <2>2. \A n \in 0 .. 4 :
          \A ot, f : Quiet(f) => Runnable(Ins(<<"NOP", "YIELD", "WFE", "WFI", "SEV">>[n + 1], ot, f))
    BY NamedRunnable DEF MeasuredName, QuietName
  <2>3. firstcond \in 0 .. 15
    BY <1>1
  <2> HIDE DEF imm
  <2> QED BY <1>3, <2>1, <2>2, <2>3, RefuseRunnable DEF IfThenAndHints, imm
<1> QED BY <1>2, <1>3

(* Miscellaneous 16-bit instructions.                                      *)
LEMMA MiscellaneousRunnable ==
  ASSUME NEW w, w.H \in Int
  PROVE  Runnable(Miscellaneous(w))
<1> DEFINE dm == [Rd |-> Bits(w.H, 2, 0), Rm |-> Bits(w.H, 5, 3)]
<1>1. Single(dm) /\ (\A imm : Single([Rd |-> SP, Rn |-> SP, imm |-> imm]))
  BY RegisterFields, NamedRegisters DEF Single, Sound, Based
<1>2. Quiet(<<>>) /\ (\A imm : Quiet([imm |-> imm]))
      /\ \A imm : Quiet([Rn |-> Bits(w.H, 2, 0), imm |-> imm])
  BY RegisterFields DEF Quiet, Sound, Based
<1>3. \A name \in {"CBZ", "CBNZ", "CPS", "BKPT"} : \A ot, f : Quiet(f) => Runnable(Ins(name, ot, f))
  BY NamedRunnable DEF MeasuredName, QuietName
<1>4. \A name \in {"ADD", "SUB", "REV", "REV16", "REVSH"} :
        \A ot, f : Single(f) => Runnable(Ins(name, ot, f))
  BY NamedRunnable DEF MeasuredName, SingleName
<1>5. \A n \in 8 .. 11 :
        \A ot, f : Single(f) => Runnable(Ins(<<"SXTH", "SXTB", "UXTH", "UXTB">>[n - 7], ot, f))
  BY NamedRunnable DEF MeasuredName, SingleName
<1>6. Runnable(CompareAndBranch(w)) /\ Runnable(ChangeProcessorState(w))
  <2>1. Bits(w.H, 3, 2) \in Int
    BY DEF Bits
  <2> QED BY <1>2, <1>3, <2>1, RefuseRunnable DEF CompareAndBranch, ChangeProcessorState
<1>7. Runnable(PushPop(w)) /\ Runnable(IfThenAndHints(w))
  BY SmallRunnable, ItRunnable
<1> QED BY <1>1, <1>2, <1>3, <1>4, <1>5, <1>6, <1>7, RefuseRunnable DEF Miscellaneous

(* All 16-bit instructions.                                                *)
LEMMA Runnable16 ==
  ASSUME NEW w, w.H \in Halfword, InstructionSize(w.H) = 2
  PROVE  Runnable(Decode16(w))
<1> DEFINE op5 == Bits(w.H, 15, 11)
           op6 == Bits(w.H, 15, 10)
<1>0. w.H \in Int
  BY DEF Halfword
<1>1. op5 \in 0 .. 31 /\ op6 \in {2 * op5, 2 * op5 + 1} /\ op5 \notin {29, 30, 31}
  BY <1>0 DEF Bits, InstructionSize
<1>2. Runnable(Miscellaneous(w))
  BY <1>0, MiscellaneousRunnable
<1> HIDE DEF op5, op6
<1> QED BY <1>0, <1>1, <1>2, SmallRunnable DEF Decode16, op5, op6

(* Load and store multiple, dual and exclusive, table branch.              *)
LEMMA MultipleRunnable ==
  ASSUME NEW w, w.H \in Halfword, w.L \in Halfword
  PROVE  Runnable(LoadStoreMultipleOrNone(w)) /\ Runnable(DualExclusiveTable(w))
<1> USE RefuseRunnable, CheckedRunnable
<1>0. w.H \in Int /\ w.L \in Int
  BY DEF Halfword
<1>1. Hn(w) \in RegisterFile /\ Lt(w) \in RegisterFile /\ Ld(w) \in RegisterFile /\ Lm(w) \in RegisterFile
  BY WideFields
<1> DEFINE op == 2 * Bits(w.H, 8, 7) + Bits(w.H, 4, 4)
<1>2. op \in Int
  BY <1>0 DEF Bits
<1>3. op \in 2 .. 5 => Runnable(LoadStoreMultiple(w))
  <2>1. \A imm, wback : Quiet([Rn |-> Hn(w), imm |-> imm, wback |-> wback])
    BY <1>1 DEF Quiet, Sound, Based
  <2>2. \A imm : Quiet([imm |-> imm])
    BY DEF Quiet, Sound, Based
  <2>3. \A name \in {"STM", "LDM", "LDMDB", "POP", "PUSH", "STMDB"} :
          \A ot, f : Quiet(f) => Runnable(Ins(name, ot, f))
    BY NamedRunnable DEF MeasuredName, QuietName
  <2>4. \A name \in {"STM", "LDM", "LDMDB", "STMDB"} : \A unexpected, bad, imm, wback :
          Runnable(Checked(unexpected, bad, Ins(name, "RI", [Rn |-> Hn(w), imm |-> imm, wback |-> wback])))
    BY <2>1, <2>3
  <2>5. \A name \in {"PUSH", "POP"} : \A unexpected, bad, imm :
          Runnable(Checked(unexpected, bad, Ins(name, "I", [imm |-> imm])))
    BY <2>2, <2>3
  <2> HIDE DEF op
  <2>6. op \in 2 .. 5 => op = 2 \/ op = 3 \/ op = 4 \/ op = 5
    BY <1>2
  <2> HIDE RefuseRunnable, CheckedRunnable
  <2> QED BY <2>4, <2>5, <2>6 DEF LoadStoreMultiple, op
<1>4. Runnable(LoadStoreMultipleOrNone(w))
  <2> HIDE DEF op
  <2> QED BY <1>3 DEF LoadStoreMultipleOrNone, op
<1>5. Runnable(LoadStoreDual(w))
  <2> DEFINE literal == IsSet(w.H, 4) /\ Hn(w) = PC
             f == [Rd |-> Lt(w), Rm |-> Ld(w), Rn |-> Hn(w), imm |-> 4 * Bits(w.L, 7, 0),
                   wback |-> IsSet(w.H, 5), add |-> IsSet(w.H, 7), index |-> IsSet(w.H, 8) \/ literal]
             name == IF IsSet(w.H, 4) THEN "LDRD" ELSE "STRD"
             ot == IF literal THEN "RRI" ELSE "RRRI"
  <2>1. Sound(f) /\ Based(f) /\ {"Rd", "Rm"} \subseteq DOMAIN f
    BY <1>1 DEF Sound, Based
  <2>2. name = "LDRD" \/ name \in QuietName
    BY DEF QuietName
  <2> HIDE DEF f, name, ot
  <2>3. Runnable(Ins(name, ot, f))
    <3>1. name \notin MeasuredName
      BY DEF name, MeasuredName
    <3> QED BY <2>1, <2>2, <3>1, InsRunnable, BareMeasured
  <2>4. \E bad : LoadStoreDual(w) = Checked(FALSE, bad, Ins(name, ot, f))
    BY DEF LoadStoreDual, name, ot, f, literal
  <2> QED BY <2>3, <2>4
<1>6. Runnable(Exclusive(w))
  <2>1. \A imm : Single([Rd |-> Lt(w), Rn |-> Hn(w), imm |-> imm])
    BY <1>1 DEF Single, Sound, Based
  <2>2. \A imm : Single([Rd |-> Ld(w), Rm |-> Lt(w), Rn |-> Hn(w), imm |-> imm])
    BY <1>1 DEF Single, Sound, Based
  <2>3. \A name \in {"LDREX", "STREX"} : \A ot, f : Single(f) => Runnable(Ins(name, ot, f))
    BY NamedRunnable DEF MeasuredName, SingleName
  <2> QED BY <2>1, <2>2, <2>3 DEF Exclusive
<1>7. Runnable(ExclusiveByteOrTable(w))
  <2>1. Quiet([Rm |-> Lm(w), Rn |-> Hn(w)])
    BY <1>1 DEF Quiet, Sound, Based
  <2>2. Single([Rd |-> Lt(w), Rn |-> Hn(w)]) /\ Single([Rd |-> Lm(w), Rm |-> Lt(w), Rn |-> Hn(w)])
    BY <1>1 DEF Single, Sound, Based
  <2>3. \A name \in {"TBB", "TBH"} : \A ot, f : Quiet(f) => Runnable(Ins(name, ot, f))
    BY NamedRunnable DEF MeasuredName, QuietName
  <2>4. \A name \in {"LDREXB", "LDREXH", "STREXB", "STREXH"} :
          \A ot, f : Single(f) => Runnable(Ins(name, ot, f))
    BY NamedRunnable DEF MeasuredName, SingleName
  <2> QED BY <2>1, <2>2, <2>3, <2>4 DEF ExclusiveByteOrTable
<1>8. Bits(w.H, 5, 4) \in 0 .. 3 /\ Bits(w.H, 8, 7) \in 0 .. 3
  BY <1>0, BitsType
<1>9. Runnable(DualExclusiveTable(w))
  BY <1>5, <1>6, <1>7, <1>8 DEF DualExclusiveTable
<1> QED BY <1>4, <1>9

(* The operations that a destination, and those that none have.             *)
LEMMA OperationsNamed ==
  /\ \A op \in DOMAIN OperationName : OperationName[op] \in SingleName
  /\ \A op \in DOMAIN TestName : TestName[op] \in QuietName
  /\ DOMAIN TestName \subseteq DOMAIN OperationName
  /\ \A op \in DOMAIN OperationName : OperationName[op] \in MeasuredName => op = 11 /\ OperationName[op] = "SBC"
  /\ \A op \in DOMAIN TestName : TestName[op] \in MeasuredName => TestName[op] = "CMP"
<1> DEFINE opcodes == {0, 1, 2, 3, 4, 8, 10, 11, 13, 14}
           names == <<"AND", "BIC", "ORR", "ORN", "EOR", "none", "none", "none", "ADD",
                      "none", "ADC", "SBC", "none", "SUB", "RSB">>
<1>1. \A op \in opcodes : /\ names[op + 1] \in SingleName
                          /\ names[op + 1] \in MeasuredName => op = 11 /\ names[op + 1] = "SBC"
  BY DEF SingleName, MeasuredName
<1>2. OperationName = [op \in opcodes |-> names[op + 1]]
  BY DEF OperationName
<1>3. \A op \in {0, 4, 8, 13} : TestName[op] \in QuietName /\ (TestName[op] \in MeasuredName => TestName[op] = "CMP")
  BY DEF TestName, QuietName, MeasuredName
<1>4. DOMAIN TestName = {0, 4, 8, 13} /\ {0, 4, 8, 13} \subseteq opcodes
  BY DEF TestName
<1> HIDE DEF opcodes, names
<1> QED BY <1>1, <1>2, <1>3, <1>4

(* Data processing with a shifted register.                                *)
LEMMA ShiftedRunnable ==
  ASSUME NEW w, w.H \in Halfword, w.L \in Halfword
  PROVE  Runnable(ShiftedRegister(w))
<1> USE RefuseRunnable, CheckedRunnable
<1>0. w.H \in Int /\ w.L \in Int
  BY DEF Halfword
<1>1. Hn(w) \in RegisterFile /\ Ld(w) \in RegisterFile /\ Lm(w) \in RegisterFile
  BY WideFields
<1> DEFINE op == Bits(w.H, 8, 5)
           type == Bits(w.L, 5, 4)
           imm5 == 4 * Bits(w.L, 14, 12) + Bits(w.L, 7, 6)
<1>2. type \in 0 .. 3
  BY <1>0, BitsType
<1>3. \A s : Single([S |-> s, Rd |-> Ld(w), Rm |-> Lm(w)])
  BY <1>1 DEF Single, Sound, Based
<1>4. \A s : Single([S |-> s, Rd |-> Ld(w), Rm |-> Lm(w)] ++ ImmShift(type, imm5))
  <2>1. \A s : DOMAIN [S |-> s, Rd |-> Ld(w), Rm |-> Lm(w)] \cap {"shift", "amount"} = {}
    OBVIOUS
  <2> HIDE DEF type, imm5
  <2> QED BY <1>2, <1>3, <2>1, ShiftedSingle
<1>5. Runnable(MoveOrShift(w))
  <2>1. \A n \in 0 .. 3 :
          \A f : Single(f) => Runnable(Ins(<<"LSL", "LSR", "ASR", "ROR">>[n + 1], "RRI", f))
    BY ShiftRunnable DEF ShiftName, RegisterOnly
  <2>2. \A name \in {"MOV", "RRX"} : \A ot, f : Single(f) => Runnable(Ins(name, ot, f))
    BY NamedRunnable DEF MeasuredName, SingleName
  <2>3. type \in 0 .. 3
    BY <1>2
  <2> QED BY <1>3, <1>4, <2>1, <2>2, <2>3 DEF MoveOrShift
<1>6. Runnable(MoveNot(w))
  <2>1. \A ot, f : Single(f) => Runnable(Ins("MVN", ot, f))
    BY NamedRunnable DEF MeasuredName, SingleName
  <2> QED BY <1>4, <2>1 DEF MoveNot
<1>7. op \in DOMAIN OperationName => Runnable(ThreeRegisters(w))
  <2> DEFINE name == OperationName[op]
             f == [S |-> IsSet(w.H, 4), Rd |-> Ld(w), Rn |-> Hn(w), Rm |-> Lm(w)]
             g == ImmShift(type, imm5)
  <2>1. SUFFICES ASSUME op \in DOMAIN OperationName PROVE Runnable(ThreeRegisters(w))
    OBVIOUS
  <2>2. name \in SingleName
    BY <2>1, OperationsNamed
  <2>3. Single(f) /\ DOMAIN f \cap {"shift", "amount"} = {}
    BY <1>1 DEF Single, Sound, Based
  <2>4. Single(f ++ g)
    <3> HIDE DEF f, type, imm5
    <3> QED BY <1>2, <2>3, ShiftedSingle
  <2> DEFINE bad == \/ PC \in {Ld(w), Lm(w)} \/ Lm(w) = SP
                    \/ Ld(w) = SP /\ ~(op \in {8, 13} /\ Hn(w) = SP)
                    \/ Hn(w) = SP /\ op \notin {8, 13}
                    \/ Hn(w) = PC /\ op # 4
  <2>5. ThreeRegisters(w) = Checked(IsSet(w.L, 15), bad, Ins(name, "RRR", f ++ g))
    BY DEF ThreeRegisters, name, f, g
  <2>6. ~bad => Lm(w) # PC /\ (op = 11 => Hn(w) # PC)
    OBVIOUS
  <2>7. DOMAIN f = {"S", "Rd", "Rn", "Rm"} /\ f["Rn"] = Hn(w) /\ f["Rm"] = Lm(w)
    OBVIOUS
  <2>8. name \in MeasuredName => op = 11 /\ name = "SBC"
    BY <2>1, OperationsNamed
  <2>12. DOMAIN g = {"shift", "amount"}
    <3> HIDE DEF type, imm5
    <3> QED BY <1>2, ImmShiftSound
  <2> HIDE DEF f, g, name, bad
  <2>9. ~bad /\ op = 11 => Apart("RRR", f ++ g)
    BY <2>6, <2>7, <2>12 DEF Apart, ++
  <2>10. ~bad => Runnable(Ins(name, "RRR", f ++ g))
    BY <2>2, <2>4, <2>8, <2>9, NamedRunnable, ComparedRunnable
  <2> QED BY <2>5, <2>10 DEF Checked
<1>8. op \in DOMAIN TestName => Runnable(TestRegister(w))
  <2> DEFINE name == TestName[op]
             f == [Rn |-> Hn(w), Rm |-> Lm(w)]
             g == ImmShift(type, imm5)
  <2>1. SUFFICES ASSUME op \in DOMAIN TestName PROVE Runnable(TestRegister(w))
    OBVIOUS
  <2>2. name \in QuietName
    BY <2>1, OperationsNamed
  <2>3. Sound(f) /\ DOMAIN f = {"Rn", "Rm"}
    BY <1>1 DEF Sound
  <2>4. Quiet(f ++ g)
    <3>1. Sound(g) /\ DOMAIN g = {"shift", "amount"}
      <4> HIDE DEF type, imm5
      <4> QED BY <1>2, ImmShiftSound
    <3> HIDE DEF f, g
    <3>2. Sound(f ++ g) /\ DOMAIN (f ++ g) = {"Rn", "Rm", "shift", "amount"}
      BY <2>3, <3>1, JoinedSound
    <3> QED BY <3>2 DEF Quiet, Based
  <2> DEFINE bad == Lm(w) \in SPorPC \/ Hn(w) = PC \/ (Hn(w) = SP /\ op \notin {8, 13})
  <2>5. \/ TestRegister(w) = Refuse("UNPREDICTABLE")
        \/ TestRegister(w) = From7(w, Checked(IsSet(w.L, 15), bad, Ins(name, "RR", f ++ g)))
    BY DEF TestRegister, name, f, g
  <2>6. ~bad => Lm(w) # PC /\ Hn(w) # PC
    BY DEF SPorPC
  <2>7. f["Rn"] = Hn(w) /\ f["Rm"] = Lm(w)
    OBVIOUS
  <2>8. name \in MeasuredName => name = "CMP"
    BY <2>1, OperationsNamed
  <2>12. DOMAIN g = {"shift", "amount"}
    <3> HIDE DEF type, imm5
    <3> QED BY <1>2, ImmShiftSound
  <2> HIDE DEF f, g, name, bad
  <2>9. ~bad => Apart("RR", f ++ g)
    BY <2>3, <2>6, <2>7, <2>12 DEF Apart, ++
  <2>10. ~bad => Runnable(Ins(name, "RR", f ++ g))
    BY <2>2, <2>4, <2>8, <2>9, NamedRunnable, ComparedRunnable
  <2>11. Runnable(Checked(IsSet(w.L, 15), bad, Ins(name, "RR", f ++ g)))
    BY <2>10 DEF Checked
  <2> HIDE DEF op
  <2> QED BY <2>5, <2>11
<1>9. CASE op \in DOMAIN TestName
  BY <1>5, <1>6, <1>7, <1>8, <1>9, OperationsNamed DEF ShiftedRegister
<1>10. CASE op \notin DOMAIN TestName
  BY <1>5, <1>6, <1>7, <1>10 DEF ShiftedRegister
<1> QED BY <1>9, <1>10

(* Data processing with a modified immediate.                              *)
LEMMA ModifiedRunnable ==
  ASSUME NEW w, w.H \in Halfword, w.L \in Halfword
  PROVE  Runnable(ModifiedImmediate(w))
<1> USE RefuseRunnable, CheckedRunnable
<1>1. Hn(w) \in RegisterFile /\ Ld(w) \in RegisterFile
  BY WideFields
<1> DEFINE op == Bits(w.H, 8, 5)
<1>2. \A s, imm, x : Single([S |-> s, Rd |-> Ld(w)] ++ [imm |-> imm, expanded |-> x])
  BY <1>1 DEF Single, Sound, Based, ++
<1>3. \A s, imm, x : Single([S |-> s, Rd |-> Ld(w), Rn |-> Hn(w)] ++ [imm |-> imm, expanded |-> x])
  BY <1>1 DEF Single, Sound, Based, ++
<1>4. \A imm, x : Quiet([Rn |-> Hn(w)] ++ [imm |-> imm, expanded |-> x])
  BY <1>1 DEF Quiet, Sound, Based, ++
<1>5. Runnable(MoveImmediate(w))
  <2>1. \A name \in {"MOV", "MVN"} : \A ot, f : Single(f) => Runnable(Ins(name, ot, f))
    BY NamedRunnable DEF MeasuredName, SingleName
  <2> QED BY <1>2, <2>1 DEF MoveImmediate
<1>6. op \in DOMAIN OperationName => Runnable(TwoRegistersImmediate(w))
  <2> DEFINE name == OperationName[op]
  <2>1. SUFFICES ASSUME op \in DOMAIN OperationName PROVE Runnable(TwoRegistersImmediate(w))
    OBVIOUS
  <2>2. \A f : Single(f) => Runnable(Ins(name, "RRI", f))
    <3>1. \A f : Apart("RRI", f)
      BY DEF Apart, RegisterOnly
    <3> QED BY <2>1, <3>1, OperationsNamed, NamedRunnable, ComparedRunnable
  <2> QED BY <1>3, <2>2 DEF TwoRegistersImmediate, name
<1>7. op \in DOMAIN TestName => Runnable(TestImmediate(w))
  <2> DEFINE name == TestName[op]
  <2>1. SUFFICES ASSUME op \in DOMAIN TestName PROVE Runnable(TestImmediate(w))
    OBVIOUS
  <2>2. \A f : Quiet(f) => Runnable(Ins(name, "RI", f))
    <3>1. \A f : Apart("RI", f)
      BY DEF Apart, RegisterOnly
    <3> QED BY <2>1, <3>1, OperationsNamed, NamedRunnable, ComparedRunnable
  <2> QED BY <1>4, <2>2 DEF TestImmediate, name
<1> QED BY <1>5, <1>6, <1>7 DEF ModifiedImmediate

(* Data processing with a plain immediate.                                 *)
LEMMA PlainRunnable ==
  ASSUME NEW w, w.H \in Halfword, w.L \in Halfword
  PROVE  Runnable(PlainImmediate(w))
<1> USE RefuseRunnable, CheckedRunnable
<1>1. Hn(w) \in RegisterFile /\ Ld(w) \in RegisterFile
  BY WideFields
<1>2. \A name \in {"ADDW", "SUBW", "MOVT", "MOVW", "SSAT", "USAT", "UBFX", "SBFX", "BFC", "BFI"} :
        \A ot, f : Single(f) => Runnable(Ins(name, ot, f))
  BY NamedRunnable DEF MeasuredName, SingleName
<1>3. Runnable(AddSubWide(w))
  <2>1. \A imm, add : Single([Rd |-> Ld(w), Rn |-> Hn(w), imm |-> imm, add |-> add])
    BY <1>1 DEF Single, Sound, Based
  <2> QED BY <1>2, <2>1 DEF AddSubWide
<1>4. Runnable(MoveWide(w))
  <2> DEFINE imm == 4096 * Hn(w) + SplitImm12(w)
             name == IF IsSet(w.H, 7) THEN "MOVT" ELSE "MOVW"
             f == [Rd |-> Ld(w), imm |-> imm]
  <2>1. Single(f)
    BY <1>1 DEF Single, Sound, Based
  <2>2. MoveWide(w) = Checked(FALSE, Ld(w) \in SPorPC, Ins(name, "RI", f))
    BY DEF MoveWide
  <2> HIDE DEF f
  <2> QED BY <1>2, <2>1, <2>2
<1>5. Runnable(Saturate(w))
  <2> DEFINE imm5 == 4 * Bits(w.L, 14, 12) + Bits(w.L, 7, 6)
             name == IF IsSet(w.H, 7) THEN "USAT" ELSE "SSAT"
             imm == Bits(w.L, 4, 0) + (IF IsSet(w.H, 7) THEN 0 ELSE 1)
             f == [Rd |-> Ld(w), Rn |-> Hn(w), imm |-> imm]
             g == ImmShift(0, imm5)
  <2>1. Single(f) /\ DOMAIN f \cap {"shift", "amount"} = {}
    BY <1>1 DEF Single, Sound, Based
  <2>2. Single(f ++ g)
    <3> HIDE DEF f, imm5
    <3> QED BY <2>1, ShiftedSingle
  <2>3. \E unexpected, bad : Saturate(w) = Checked(unexpected, bad, Ins(name, "RRI", f ++ g))
    BY DEF Saturate
  <2> HIDE DEF f, g
  <2>4. Runnable(Ins(name, "RRI", f ++ g))
    BY <1>2, <2>2
  <2> HIDE DEF name
  <2> QED BY <2>3, <2>4
<1>6. Runnable(BitFieldExtract(w))
  <2>1. \A imm, imm2 : Single([Rd |-> Ld(w), Rn |-> Hn(w), imm |-> imm, imm2 |-> imm2])
    BY <1>1 DEF Single, Sound, Based
  <2> QED BY <1>2, <2>1 DEF BitFieldExtract
<1>7. Runnable(BitFieldInsert(w))
  <2>1. \A imm, imm2 : Single([Rd |-> Ld(w), imm |-> imm, imm2 |-> imm2])
    BY <1>1 DEF Single, Sound, Based
  <2>2. \A imm, imm2 : Single([Rn |-> Hn(w)] ++ [Rd |-> Ld(w), imm |-> imm, imm2 |-> imm2])
    BY <1>1 DEF Single, Sound, Based, ++
  <2> QED BY <1>2, <2>1, <2>2 DEF BitFieldInsert
<1> QED BY <1>3, <1>4, <1>5, <1>6, <1>7 DEF PlainImmediate

(* Branches and miscellaneous control.  The encoding of a conditional       *)
(* branch has no condition 14 or 15.                                        *)
LEMMA ControlRunnable ==
  ASSUME NEW w, w.H \in Halfword, w.L \in Halfword
  PROVE  Runnable(BranchesAndControl(w))
<1> USE RefuseRunnable, CheckedRunnable
<1>0. w.H \in Int /\ w.L \in Int
  BY DEF Halfword
<1>1. Hn(w) \in RegisterFile /\ Ld(w) \in RegisterFile
  BY WideFields
<1>2. \A name \in {"BL", "MSR", "UDF", "CLREX", "SSBB", "PSSBB", "DSB", "DMB", "ISB", "CSDB", "DBG",
                   "NOP", "YIELD", "WFE", "WFI", "SEV"} :
        \A ot, f : Quiet(f) => Runnable(Ins(name, ot, f))
  BY NamedRunnable DEF MeasuredName, QuietName
<1>3. Quiet(<<>>) /\ \A imm : Quiet([imm |-> imm])
  BY DEF Quiet, Sound, Based
<1>4. Bits(w.H, 9, 7) # 7 => Runnable(ConditionalBranchWide(w))
  <2>1. Bits(w.H, 9, 7) # 7 => Bits(w.H, 9, 6) \in 0 .. 14
    BY <1>0 DEF Bits
  <2>2. \A condition \in 0 .. 14 : \A imm \in Int : Quiet([condition |-> condition, imm |-> imm])
    BY DEF Quiet, Sound, Based
  <2>3. \A condition \in 0 .. 14 : \A imm \in Int :
          Runnable(Checked(FALSE, InIT(w), Ins("B", "I", [condition |-> condition, imm |-> imm])))
    BY <2>2, BranchRunnable
  <2>4. \E imm \in Int : ConditionalBranchWide(w) =
          Checked(FALSE, InIT(w), Ins("B", "I", [condition |-> Bits(w.H, 9, 6), imm |-> imm]))
    <3> DEFINE x == 2 * (2^19 * Bits(w.H, 10, 10) + 2^18 * Bits(w.L, 13, 13) + 2^17 * Bits(w.L, 11, 11)
                           + BranchOffset(w, 6))
    <3>1. x \in Int
      BY <1>0 DEF Bits, BranchOffset
    <3>2. ConditionalBranchWide(w) = Checked(FALSE, InIT(w),
            Ins("B", "I", [condition |-> Bits(w.H, 9, 6), imm |-> SignExtended(x, 21)]))
      BY DEF ConditionalBranchWide
    <3> HIDE DEF x
    <3> QED BY <3>1, <3>2, ExtendedType
  <2> QED BY <2>1, <2>3, <2>4
<1>5. Runnable(BranchWide(w, "B")) /\ Runnable(BranchWide(w, "BL"))
  <2> SUFFICES ASSUME NEW name \in {"B", "BL"} PROVE Runnable(BranchWide(w, name))
    OBVIOUS
  <2>1. \A imm \in Int : Runnable(Checked(FALSE, MidIT(w), Ins(name, "I", [imm |-> imm])))
    BY <1>2, <1>3, BranchRunnable
  <2>2. \E imm \in Int : BranchWide(w, name) = Checked(FALSE, MidIT(w), Ins(name, "I", [imm |-> imm]))
    <3> DEFINE sign == Bits(w.H, 10, 10)
               I1 == IF Bits(w.L, 13, 13) = sign THEN 1 ELSE 0
               I2 == IF Bits(w.L, 11, 11) = sign THEN 1 ELSE 0
               x == 2 * (2^23 * sign + 2^22 * I1 + 2^21 * I2 + BranchOffset(w, 10))
    <3>1. x \in Int
      <4>1. sign \in Int /\ I1 \in Int /\ I2 \in Int /\ BranchOffset(w, 10) \in Int
        BY <1>0 DEF Bits, BranchOffset
      <4> HIDE DEF sign, I1, I2
      <4> QED BY <4>1
    <3>2. BranchWide(w, name) = Checked(FALSE, MidIT(w), Ins(name, "I", [imm |-> SignExtended(x, 25)]))
      BY DEF BranchWide
    <3> HIDE DEF x
    <3> QED BY <3>1, <3>2, ExtendedType
  <2> QED BY <2>1, <2>2
<1>6. Runnable(MoveToSpecial(w))
  <2>1. \A imm : Quiet([Rn |-> Hn(w), imm |-> imm])
    BY <1>1 DEF Quiet, Sound, Based
  <2> QED BY <1>2, <2>1 DEF MoveToSpecial
<1>7. Runnable(MoveFromSpecial(w))
  <2>1. \A imm : Single([Rd |-> Ld(w), imm |-> imm])
    BY <1>1 DEF Single, Sound, Based
  <2>2. \A ot, f : Single(f) => Runnable(Ins("MRS", ot, f))
    BY NamedRunnable DEF MeasuredName, SingleName
  <2> QED BY <2>1, <2>2 DEF MoveFromSpecial
<1>8. Runnable(HintsWide(w))
  <2> DEFINE hint == Bits(w.L, 7, 0)
             name == CASE hint < 5 -> <<"NOP", "YIELD", "WFE", "WFI", "SEV">>[hint + 1]
                       [] hint = 20 -> "CSDB"
                       [] hint >= 240 -> "DBG"
                       [] OTHER -> "none"
  <2>1. hint \in 0 .. 255
    BY <1>0, BitsType
  <2> HIDE DEF hint
  <2>2. name # "none" => name \in {"NOP", "YIELD", "WFE", "WFI", "SEV", "CSDB", "DBG"}
    <3>1. \A n \in 0 .. 4 : <<"NOP", "YIELD", "WFE", "WFI", "SEV">>[n + 1]
                              \in {"NOP", "YIELD", "WFE", "WFI", "SEV", "CSDB", "DBG"}
      OBVIOUS
    <3>2. hint < 5 => hint \in 0 .. 4
      BY <2>1
    <3> QED BY <3>1, <3>2
  <2>3. HintsWide(w) = CASE Bits(w.L, 10, 8) # 0 -> Refuse("UNDEFINED")
                         [] Bits(w.L, 10, 8) = 0 /\ name = "none" -> Refuse("UNKNOWN_INSTRUCTION")
                         [] OTHER -> From7(w, Checked(Hn(w) # 15 \/ IsSet(w.L, 13) \/ IsSet(w.L, 11),
                                                      FALSE, Ins(name, "NONE", <<>>)))
    BY DEF HintsWide, hint
  <2> HIDE DEF name
  <2>4. name # "none" => Runnable(Ins(name, "NONE", <<>>))
    BY <1>2, <1>3, <2>2
  <2>5. Bits(w.L, 10, 8) \in Int
    BY <1>0 DEF Bits
  <2> QED BY <2>3, <2>4, <2>5
<1>9. Runnable(Barriers(w))
  <2> DEFINE op == Bits(w.L, 7, 4)
             name == CASE op = 2 -> "CLREX"
                       [] op = 4 -> (CASE Lm(w) = 0 -> "SSBB" [] Lm(w) = 4 -> "PSSBB" [] OTHER -> "DSB")
                       [] op = 5 -> "DMB"
                       [] op = 6 -> "ISB"
                       [] OTHER -> "none"
             i == Checked(Hn(w) # 15 \/ IsSet(w.L, 13) \/ Ld(w) # 15 \/ (op = 2 /\ Lm(w) # 15), FALSE,
                          Ins(name, "NONE", <<>>))
  <2>1. name \in {"none", "CLREX", "SSBB", "PSSBB", "DSB", "DMB", "ISB"}
    OBVIOUS
  <2>2. Barriers(w) = CASE name = "none" -> Refuse("UNKNOWN_INSTRUCTION")
                        [] name \in {"DSB", "DMB", "ISB"} -> i
                        [] OTHER -> From7(w, i)
    BY DEF Barriers
  <2> HIDE DEF name, op
  <2>3. name # "none" => Runnable(i)
    BY <1>2, <1>3, <2>1
  <2> HIDE DEF i
  <2> QED BY <2>1, <2>2, <2>3
<1>10. Runnable(MiscellaneousControl(w))
  <2>1. Bits(w.H, 9, 7) \in Int
    BY <1>0 DEF Bits
  <2> QED BY <1>2, <1>3, <1>4, <1>6, <1>7, <1>8, <1>9, <2>1 DEF MiscellaneousControl
<1> QED BY <1>5, <1>10 DEF BranchesAndControl

(* Loads and stores of one register, and memory hints.                     *)
LEMMA MemoryRunnable ==
  ASSUME NEW w, w.H \in Halfword, w.L \in Halfword
  PROVE  Runnable(LoadStoreSingle(w))
<1> USE RefuseRunnable, CheckedRunnable
<1>0. w.H \in Int /\ w.L \in Int
  BY DEF Halfword
<1>1. Hn(w) \in RegisterFile /\ Lt(w) \in RegisterFile /\ Lm(w) \in RegisterFile
  BY WideFields
<1>2. \A i : Runnable(i) => Runnable(CheckedIndex(w, i)) /\ Runnable(Known7(w, i))
  BY DEF CheckedIndex, Known7
<1>3. /\ \A imm : Single([Rd |-> Lt(w), Rn |-> Hn(w)] ++ ([imm |-> imm] ++ Positive))
      /\ \A imm : Single(([Rd |-> Lt(w), Rn |-> Hn(w)] ++ [imm |-> imm]) ++ Positive)
  <2>1. \A imm : Single([Rd |-> Lt(w), Rn |-> Hn(w)] ++ ([imm |-> imm] ++ Positive))
    BY <1>1 DEF Single, Sound, Based, ++, Positive
  <2>2. \A imm : Single(([Rd |-> Lt(w), Rn |-> Hn(w)] ++ [imm |-> imm]) ++ Positive)
    BY <1>1 DEF Single, Sound, Based, ++, Positive
  <2> QED BY <2>1, <2>2
<1>4. Single([Rd |-> Lt(w), Rn |-> Hn(w)] ++ Indexed(w))
  BY <1>1 DEF Single, Sound, Based, ++, Indexed
<1>5. /\ Single([Rd |-> Lt(w), Rn |-> Hn(w)] ++ ByRegister(w))
      /\ Single(([Rd |-> Lt(w), Rn |-> Hn(w)] ++ ByRegister(w)) ++ Positive)
  <2>1. Single([Rd |-> Lt(w), Rn |-> Hn(w)] ++ ByRegister(w))
    BY <1>1 DEF Single, Sound, Based, ++, ByRegister
  <2>2. Single(([Rd |-> Lt(w), Rn |-> Hn(w)] ++ ByRegister(w)) ++ Positive)
    BY <1>1 DEF Single, Sound, Based, ++, ByRegister, Positive
  <2> QED BY <2>1, <2>2
<1>6. \A size \in {"byte", "half", "word"} : \A k \in {1, 2} : StoreName[size][k] \in (SingleName \union QuietName) \ MeasuredName
  BY DEF StoreName, QuietName, MeasuredName
<1>7. \A name \in (SingleName \union QuietName) \ MeasuredName : \A ot, f : Single(f) => Runnable(Ins(name, ot, f))
  <2>1. \A f : Single(f) => Quiet(f)
    BY DEF Single, Quiet
  <2> QED BY <2>1, NamedRunnable
<1>8. \A size \in {"byte", "half", "word"} :
        Runnable(StoreImmediate(w, size)) /\ Runnable(StoreRegister(w, size))
  <2> SUFFICES ASSUME NEW size \in {"byte", "half", "word"}
               PROVE  Runnable(StoreImmediate(w, size)) /\ Runnable(StoreRegister(w, size))
    OBVIOUS
  <2>1. \A k \in {1, 2} : \A ot, f : Single(f) => Runnable(Ins(StoreName[size][k], ot, f))
    BY <1>6, <1>7
  <2>2. Runnable(StoreImmediate(w, size))
    <3> DEFINE name == StoreName[size][IF ~IsSet(w.H, 7) /\ Bits(w.L, 10, 8) = 6 THEN 2 ELSE 1]
    <3>1. \A ot, f : Single(f) => Runnable(Ins(name, ot, f))
      BY <2>1
    <3> QED BY <1>2, <1>3, <1>4, <3>1 DEF StoreImmediate, name
  <2>3. Runnable(StoreRegister(w, size))
    BY <1>5, <2>1 DEF StoreRegister
  <2> QED BY <2>2, <2>3
<1>9. Runnable(StoreSingle(w))
  <2>1. Bits(w.H, 6, 5) \in 0 .. 3
    BY <1>0, BitsType
  <2>2. \A n \in 0 .. 2 : <<"byte", "half", "word">>[n + 1] \in {"byte", "half", "word"}
    OBVIOUS
  <2> QED BY <1>8, <2>1, <2>2 DEF StoreSingle
<1>10. Runnable(Preload(w))
  <2>1. \A imm, add : /\ Quiet([imm |-> imm] ++ [add |-> add])
                      /\ Quiet(([imm |-> imm] ++ [Rn |-> Hn(w)]) ++ [add |-> add])
                      /\ Quiet([imm |-> imm] ++ [Rn |-> Hn(w)])
    BY <1>1 DEF Quiet, Sound, Based, ++
  <2>2. Quiet(ByRegister(w) ++ [Rn |-> Hn(w)])
    BY <1>1 DEF Quiet, Sound, Based, ++, ByRegister
  <2>3. \A name \in {"PLI", "PLD"} : \A ot, f : Quiet(f) => Runnable(Ins(name, ot, f))
    BY NamedRunnable DEF MeasuredName, QuietName
  <2> QED BY <2>1, <2>2, <2>3 DEF Preload
<1>11. Runnable(HalfwordHint(w))
  <2>1. Quiet(<<>>)
    BY DEF Quiet, Sound, Based
  <2>2. Runnable(Ins("NOP", "NONE", <<>>))
    BY <2>1, NamedRunnable DEF MeasuredName, QuietName
  <2> QED BY <2>2 DEF HalfwordHint
<1>12. \A name \in SingleName \ MeasuredName : \A badT : /\ Runnable(Literal(w, name, badT))
                                          /\ Runnable(ByImmediate(w, name, badT))
                                          /\ Runnable(Unindexed(w, name))
  <2> SUFFICES ASSUME NEW name \in SingleName \ MeasuredName, NEW badT
               PROVE  /\ Runnable(Literal(w, name, badT))
                      /\ Runnable(ByImmediate(w, name, badT))
                      /\ Runnable(Unindexed(w, name))
    OBVIOUS
  <2>1. \A ot, f : Single(f) => Runnable(Ins(name, ot, f))
    BY <1>7
  <2>2. Runnable(Literal(w, name, badT))
    <3>1. \A imm, add : Single([Rd |-> Lt(w), imm |-> imm, add |-> add])
      BY <1>1 DEF Single, Sound, Based
    <3> QED BY <2>1, <3>1 DEF Literal
  <2>3. Runnable(ByImmediate(w, name, badT))
    BY <1>2, <1>3, <1>4, <2>1 DEF ByImmediate
  <2>4. Runnable(Unindexed(w, name))
    <3>1. \A imm : Single([Rd |-> Lt(w), Rn |-> Hn(w), add |-> TRUE, imm |-> imm])
      BY <1>1 DEF Single, Sound, Based
    <3> QED BY <2>1, <3>1 DEF Unindexed
  <2> QED BY <2>2, <2>3, <2>4
<1>13. Runnable(LoadWord(w))
  <2>1. "LDR" \in SingleName \ MeasuredName /\ "LDRT" \in SingleName \ MeasuredName
    BY DEF SingleName, MeasuredName
  <2> QED BY <1>5, <1>7, <1>12, <2>1 DEF LoadWord
<1>14. ASSUME NEW names, \A k \in 1 .. 4 : names[k] \in SingleName \ MeasuredName
       PROVE  Runnable(LoadPart(w, names))
  <2> DEFINE signed == IF IsSet(w.H, 8) THEN 2 ELSE 1
  <2>1. names[signed] \in SingleName \ MeasuredName /\ names[signed + 2] \in SingleName \ MeasuredName
    BY <1>14
  <2> HIDE DEF signed
  <2> QED BY <1>5, <1>7, <1>12, <2>1 DEF LoadPart, signed
<1>15. Runnable(LoadByte(w))
  <2> DEFINE names == <<"LDRB", "LDRSB", "LDRBT", "LDRSBT">>
  <2>1. \A k \in 1 .. 4 : names[k] \in SingleName \ MeasuredName
    BY DEF SingleName, MeasuredName
  <2> HIDE DEF names
  <2>2. Runnable(LoadPart(w, names))
    BY <1>14, <2>1
  <2> QED BY <1>2, <1>10, <2>2 DEF LoadByte, names
<1>16. Runnable(LoadHalfword(w))
  <2> DEFINE names == <<"LDRH", "LDRSH", "LDRHT", "LDRSHT">>
  <2>1. \A k \in 1 .. 4 : names[k] \in SingleName \ MeasuredName
    BY DEF SingleName, MeasuredName
  <2> HIDE DEF names
  <2>2. Runnable(LoadPart(w, names))
    BY <1>14, <2>1
  <2> QED BY <1>2, <1>11, <2>2 DEF LoadHalfword, names
<1> QED BY <1>9, <1>13, <1>15, <1>16 DEF LoadStoreSingle

(* Data processing with registers, and multiplication.                     *)
LEMMA RegisterRunnable ==
  ASSUME NEW w, w.H \in Halfword, w.L \in Halfword
  PROVE  Runnable(RegisterOperations(w))
<1> USE RefuseRunnable, CheckedRunnable
<1>0. w.H \in Int /\ w.L \in Int
  BY DEF Halfword
<1>1. /\ Bits(w.H, 6, 5) \in 0 .. 3 /\ Bits(w.L, 5, 4) \in 0 .. 3 /\ Bits(w.H, 7, 4) \in 0 .. 15
      /\ Bits(w.H, 5, 4) \in 0 .. 3
  BY <1>0, BitsType
<1>2. Hn(w) \in RegisterFile /\ Lt(w) \in RegisterFile /\ Ld(w) \in RegisterFile /\ Lm(w) \in RegisterFile
  BY WideFields
<1> DEFINE dnm == [Rd |-> Ld(w), Rn |-> Hn(w), Rm |-> Lm(w)]
<1>3. Single(dnm) /\ Single([Ra |-> Lt(w)] ++ dnm) /\ Long([Ra |-> Lt(w)] ++ dnm)
  BY <1>2 DEF Single, Long, Sound, Based, ++
<1>4. Runnable(ShiftByRegister(w))
  <2> DEFINE type == <<"LSL", "LSR", "ASR", "ROR">>[Bits(w.H, 6, 5) + 1]
             f == [S |-> IsSet(w.H, 4), shift |-> type] ++ dnm
  <2>1. type \in ShiftName
    BY <1>1 DEF ShiftName
  <2> HIDE DEF type
  <2>2. Single(f) /\ f["shift"] \in ShiftName
    BY <1>2, <2>1 DEF Single, Sound, Based, ++
  <2> HIDE DEF f
  <2>3. Runnable(Ins(type, "RRR", f))
    BY <2>1, <2>2, ShiftRunnable
  <2>4. \E bad : ShiftByRegister(w) = From7(w, Checked(FALSE, bad, Ins(type, "RRR", f)))
    BY DEF ShiftByRegister, f, type
  <2> QED BY <2>3, <2>4
<1>5. Runnable(ParallelArithmetic(w))
  BY DEF ParallelArithmetic
<1>6. Single([Rd |-> Ld(w), Rm |-> Lm(w)])
  BY <1>2 DEF Single, Sound, Based
<1>7. Runnable(ReverseOrCount(w))
  <2>1. \A n \in 0 .. 3 : \A ot, f : Single(f) =>
          Runnable(Ins(<<"REV", "REV16", "RBIT", "REVSH">>[n + 1], ot, f))
    BY NamedRunnable DEF MeasuredName, SingleName
  <2>2. \A ot, f : Single(f) => Runnable(Ins("CLZ", ot, f))
    BY NamedRunnable DEF MeasuredName, SingleName
  <2> QED BY <1>1, <1>6, <2>1, <2>2 DEF ReverseOrCount
<1>8. Runnable(Extend(w))
  <2> DEFINE op == Bits(w.H, 7, 4)
             name == <<"SXTH", "UXTH", "none", "none", "SXTB", "UXTB">>[op + 1]
  <2>1. \A amount : Single([Rd |-> Ld(w), Rm |-> Lm(w), shift |-> "ROR", amount |-> amount])
    BY <1>2 DEF Single, Sound, Based, ShiftName
  <2>2. op \in {0, 1, 4, 5} => name \in SingleName \ MeasuredName
    BY DEF SingleName, MeasuredName
  <2>3. op \in {0, 1, 4, 5} => \A ot, f : Single(f) => Runnable(Ins(name, ot, f))
    BY <2>2, NamedRunnable
  <2>4. op \in 0 .. 15
    BY <1>1
  <2>5. op <= 5 /\ op \notin {2, 3} => op \in {0, 1, 4, 5}
    BY <2>4
  <2> HIDE DEF op
  <2> QED BY <2>1, <2>3, <2>4, <2>5 DEF Extend, op
<1>9. Runnable(Multiply(w))
  <2>1. \A name \in {"MLA", "MUL", "MLS"} : \A ot, f : Single(f) => Runnable(Ins(name, ot, f))
    BY NamedRunnable DEF MeasuredName, SingleName
  <2> QED BY <1>3, <2>1 DEF Multiply
<1>10. Runnable(MultiplyLongOrDivide(w))
  <2>1. \A name \in {"SMULL", "UMULL", "SMLAL", "UMLAL"} : \A ot, f : Long(f) => Runnable(Ins(name, ot, f))
    BY NamedRunnable DEF MeasuredName, LongName
  <2>2. \A name \in {"SDIV", "UDIV"} : \A ot, f : Single(f) => Runnable(Ins(name, ot, f))
    BY NamedRunnable DEF MeasuredName, SingleName
  <2> QED BY <1>3, <2>1, <2>2 DEF MultiplyLongOrDivide
<1>11. Runnable(DataProcessingRegister(w))
  BY <1>4, <1>5, <1>7, <1>8 DEF DataProcessingRegister
<1> QED BY <1>9, <1>10, <1>11 DEF RegisterOperations

(* Whatever two halfwords are decoded to can be executed.                   *)
LEMMA DecodedRunnable ==
  ASSUME NEW w, w.H \in Halfword, w.L \in Halfword
  PROVE  Runnable(Decode(w))
<1>0. w.H \in Int
  BY DEF Halfword
<1>1. CASE InstructionSize(w.H) = 2
  BY <1>1, Runnable16 DEF Decode
<1>2. CASE InstructionSize(w.H) # 2
  <2> DEFINE op1 == Bits(w.H, 12, 11)
             op2 == Bits(w.H, 10, 9)
  <2>1. op1 \in 1 .. 3 /\ op2 \in 0 .. 3
    <3>1. Bits(w.H, 15, 11) \in {29, 30, 31}
      BY <1>2 DEF InstructionSize
    <3>2. op1 = Bits(w.H, 15, 11) % 4 /\ op2 \in 0 .. 3
      BY <1>0 DEF Bits
    <3> QED BY <3>1, <3>2
  <2>2. Runnable(Coprocessor(w))
    BY RefuseRunnable, CheckedRunnable DEF Coprocessor
  <2> HIDE DEF op1, op2
  <2>4. Runnable(Decode32(w))
    BY <2>1, <2>2, MultipleRunnable, ShiftedRunnable, ModifiedRunnable, PlainRunnable,
       ControlRunnable, MemoryRunnable, RegisterRunnable DEF Decode32, op1, op2
  <2> QED BY <1>2, <2>4 DEF Decode
<1> QED BY <1>1, <1>2

-----------------------------------------------------------------------------

(* The return codes of what the decoder gives.                              *)

(* Those of instructions that can be executed.                              *)
Outcome == {"OK", "HARD_FAULT", "INVALID_MEMORY_ACCESS", "UNPREDICTABLE", "UNDEFINED"}

Good(m) == DOMAIN m = Members /\ m.code \in Outcome

(* Accesses. *)
LEMMA AccessGood ==
  /\ \A m, code : Good(m) /\ code \in Outcome => Good(Fail(m, code))
  /\ \A m, value : \A r \in RegisterFile : Good(m) => Good(WriteRegister(m, r, value))
  /\ \A m, address, bytes : Good(m) => Good(ReadMemory(m, address, bytes).m)
  /\ \A m, address, value, bytes : Good(m) => Good(WriteMemory(m, address, value, bytes))
<1>1. \A m, code : Good(m) /\ code \in Outcome => Good(Fail(m, code))
  BY DEF Good, Fail, Members
<1>2. ASSUME NEW m, NEW value, NEW r \in RegisterFile, Good(m)
      PROVE  Good(WriteRegister(m, r, value))
  <2>1. Good([m EXCEPT !.reg[r] = IF r = SP THEN Align(Wrap(value), 4) ELSE Wrap(value)])
    BY <1>2 DEF Good, Members
  <2> QED BY <1>2, <2>1 DEF WriteRegister
<1>3. ASSUME NEW m, NEW address, NEW bytes, Good(m)
      PROVE  Good(ReadMemory(m, address, bytes).m)
  <2>1. Good(Fail(m, "INVALID_MEMORY_ACCESS"))
    BY <1>1, <1>3 DEF Outcome
  <2>2. ReadMemory(m, address, bytes).m \in {m, Fail(m, "INVALID_MEMORY_ACCESS")}
    BY DEF ReadMemory
  <2> QED BY <1>3, <2>1, <2>2
<1>4. ASSUME NEW m, NEW address, NEW value, NEW bytes, Good(m)
      PROVE  Good(WriteMemory(m, address, value, bytes))
  <2>1. Good(Fail(m, "INVALID_MEMORY_ACCESS"))
    BY <1>1, <1>4 DEF Outcome
  <2>2. \A ram : Good([m EXCEPT !.ram = ram])
    BY <1>4 DEF Good, Members
  <2> QED BY <1>4, <2>1, <2>2 DEF WriteMemory
<1> QED BY <1>1, <1>2, <1>3, <1>4

(* Flags and PC. *)
LEMMA FlowGood ==
  /\ \A m, f : Good(m) => Good(SetFlags(m, f))
  /\ \A m, address : Good(m) => Good(BranchWritePC(m, address)) /\ Good(BxWritePC(m, address))
  /\ \A m, size : Good(m) => Good(Advance(m, size))
<1>1. \A m, f : Good(m) => Good(SetFlags(m, f))
  BY DEF Good, SetFlags, Members
<1>2. ASSUME NEW m, NEW address, Good(m) PROVE Good(BranchWritePC(m, address))
  <2> DEFINE written == WriteRegister(m, PC, Align(address, 2))
  <2>1. Good(written)
    BY <1>2, AccessGood, NamedRegisters
  <2> HIDE DEF written
  <2>2. Good([written EXCEPT !.branched = TRUE])
    BY <2>1 DEF Good, Members
  <2> QED BY <2>2 DEF BranchWritePC, written
<1>3. \A m, address : Good(m) => Good(BxWritePC(m, address))
  BY <1>2, AccessGood DEF BxWritePC, Outcome
<1>4. \A m, size : Good(m) => Good(Advance(m, size))
  BY AccessGood, NamedRegisters DEF Advance
<1> QED BY <1>1, <1>2, <1>3, <1>4

(* The loop over a list of registers. *)
LEMMA ListGood ==
  \A m, list, start, loads : Good(m) => Good(TransferList(m, list, start, loads))
<1> SUFFICES ASSUME NEW m, NEW list, NEW start, NEW loads, Good(m)
             PROVE  Good(TransferList(m, list, start, loads))
  OBVIOUS
<1>1. PICK after : /\ after[0] = m
                   /\ \A n \in 0 .. PC : n < PC => after[n + 1] = Turned(list, start, loads, after[n], n)
                   /\ TransferList(m, list, start, loads) = after[PC]
  BY ListTurns
<1>2. \A state : \A r \in RegisterFile : Good(state) => Good(Turned(list, start, loads, state, r))
  BY AccessGood DEF Turned
<1> DEFINE Kept == {n \in 0 .. PC : Good(after[n])}
<1>3. PC \in Nat /\ \A n \in 0 .. PC : n \in RegisterFile
  BY DEF PC, RegisterFile
<1>4. 0 \in Kept
  BY <1>1, <1>3
<1>5. ASSUME NEW n \in Kept, n < PC PROVE n + 1 \in Kept
  <2>1. n \in 0 .. PC /\ n + 1 \in 0 .. PC
    BY <1>3, <1>5
  <2> QED BY <1>1, <1>2, <1>3, <1>5, <2>1
<1>6. Kept \in SUBSET (0 .. PC)
  OBVIOUS
<1>7. PC \in Kept
  <2> HIDE DEF Kept
  <2>1. Kept = 0 .. PC
    BY <1>3, <1>4, <1>5, <1>6, IntervalInduct
  <2> QED BY <1>3, <2>1
<1> QED BY <1>1, <1>7

(* Shift_C refuses nothing but RRX of another amount than 1.                *)
LEMMA ShiftDone ==
  \A x, type, amount, carry :
    type \in ShiftName \/ (type = "RRX" /\ amount = 1) => Shift_C(x, type, amount, carry).ok
<1> SUFFICES ASSUME NEW x, NEW type, NEW amount, NEW carry,
                    type \in ShiftName \/ (type = "RRX" /\ amount = 1)
             PROVE  Shift_C(x, type, amount, carry).ok
  OBVIOUS
<1>1. \A value, bit : Valid(value, bit).ok
  BY DEF Valid
<1>2. amount # 0 => /\ LSL_C(x, amount).ok /\ LSR_C(x, amount).ok
                    /\ ASR_C(x, amount).ok /\ ROR_C(x, amount).ok
  <2>1. amount # 0 => LSL_C(x, amount).ok
    BY <1>1 DEF LSL_C
  <2>2. amount # 0 => LSR_C(x, amount).ok
    BY <1>1 DEF LSR_C
  <2>3. amount # 0 => ASR_C(x, amount).ok
    BY <1>1 DEF ASR_C
  <2>4. amount # 0 => ROR_C(x, amount).ok
    BY <1>1 DEF ROR_C
  <2> QED BY <2>1, <2>2, <2>3, <2>4
<1>3. RRX_C(x, carry).ok
  BY <1>1 DEF RRX_C
<1>4. CASE type = "RRX" /\ amount = 1
  <2>1. Shift_C(x, type, amount, carry) = RRX_C(x, carry)
    BY <1>4 DEF Shift_C
  <2> QED BY <1>3, <2>1
<1>5. CASE type \in ShiftName /\ amount = 0
  <2>1. Shift_C(x, type, amount, carry) = Valid(x, carry)
    BY <1>5 DEF Shift_C, ShiftName
  <2> QED BY <1>1, <2>1
<1>6. CASE type \in ShiftName /\ amount # 0
  <2>1. Shift_C(x, type, amount, carry) \in {LSL_C(x, amount), LSR_C(x, amount), ASR_C(x, amount),
                                             ROR_C(x, amount)}
    BY <1>6 DEF Shift_C, ShiftName
  <2> QED BY <1>2, <1>6, <2>1
<1> QED BY <1>4, <1>5, <1>6

(* The return codes of an instruction once it is decoded: an immediate may  *)
(* be refused where it is expanded.                                         *)
GoodFor(m, i) ==
  /\ DOMAIN m = Members
  /\ m.code \in Outcome \/ (m.code = "INVALID_IMMEDIATE" /\ i.name \in LogicalName \union {"MOV"})

(* Whatever can be executed has registers and shifts that exist.            *)
LEMMA RunnableShift ==
  \A m, i, x, carry : Runnable(i) /\ i.code = "OK" =>
    /\ ShiftedOperand(m, i).ok
    /\ i.name \in ShiftName /\ OnlyRegisters(i) => \A amount : Shift_C(x, i.shift, amount, carry).ok
    /\ Shift_C(x, i.shift, i.amount, carry).ok
BY ShiftDone DEF Runnable, ShiftedOperand, OnlyRegisters, RegisterOnly

(* Instructions that compute. *)
LEMMA ArithmeticGood ==
  ASSUME NEW m, NEW i, Good(m), Runnable(i), i.code = "OK", i.name \in ArithmeticName
  PROVE  Good(Arithmetic(m, i))
<1>1. ArithmeticOperand(m, i).ok
  BY RunnableShift DEF ArithmeticOperand, Valid
<1>2. i.name \notin {"CMN", "CMP"} => i.Rd \in RegisterFile
  BY DEF Runnable, ArithmeticName, QuietName
<1> DEFINE compare == i.name \in {"CMN", "CMP"}
           sum == Sum(i.name, ReadRegister(m, i.Rn), ArithmeticOperand(m, i).value, m.psr.C)
           written == IF compare THEN m ELSE WriteRegister(m, i.Rd, sum.result)
<1>3. Good(written)
  <2> HIDE DEF sum
  <2> QED BY <1>2, AccessGood
<1>4. Good([m EXCEPT !.reg[PC] = Align(sum.result, 2), !.branched = TRUE])
  <2> HIDE DEF sum
  <2> QED BY DEF Good, Members
<1>5. \A f, g : Good(SetFlags(SetFlags(written, f), g))
  <2> HIDE DEF written
  <2> QED BY <1>3, FlowGood
<1>6. \/ Arithmetic(m, i) = [m EXCEPT !.reg[PC] = Align(sum.result, 2), !.branched = TRUE]
      \/ Arithmetic(m, i) = written
      \/ \E f, g : Arithmetic(m, i) = SetFlags(SetFlags(written, f), g)
  <2> DEFINE set == SetFlags(SetFlags(written, NZC(sum.result, sum.carry)), [V |-> IF sum.overflow THEN 1 ELSE 0])
             branched == [m EXCEPT !.reg[PC] = Align(sum.result, 2), !.branched = TRUE]
  <2>1. Arithmetic(m, i) = CASE ~ArithmeticOperand(m, i).ok -> Refused(m, i)
                             [] ArithmeticOperand(m, i).ok /\ i.name \in {"ADD", "ADDW"} /\ i.Rd = PC -> branched
                             [] OTHER -> IF ~(i.S \/ compare) THEN written ELSE set
    BY DEF Arithmetic
  <2>2. Arithmetic(m, i) \in {branched, written, set}
    <3> HIDE DEF branched, written, set
    <3> QED BY <1>1, <2>1
  <2>3. \E f, g : set = SetFlags(SetFlags(written, f), g)
    OBVIOUS
  <2> HIDE DEF branched, written, set
  <2> QED BY <2>2, <2>3 DEF branched
<1> QED BY <1>3, <1>4, <1>5, <1>6

(* Logical instructions expand their immediate.                             *)
LEMMA LogicalGood ==
  ASSUME NEW m, NEW i, Good(m), Runnable(i), i.code = "OK", i.name \in LogicalName
  PROVE  GoodFor(Logical(m, i), i)
<1> DEFINE operand == LogicalOperand(m, i)
           test == i.name \in {"TST", "TEQ"}
           x == IF i.name = "MVN" THEN 0 ELSE ReadRegister(m, i.Rn)
           result == Combined(i.name, x, operand.value)
           written == IF test THEN m ELSE WriteRegister(m, i.Rd, result)
           set == SetFlags(written, NZC(result, operand.carry))
<1>1. OnlyRegisters(i) => operand.ok
  BY RunnableShift DEF LogicalOperand
<1>2. ~test => i.Rd \in RegisterFile
  BY DEF Runnable, LogicalName, QuietName
<1>3. Logical(m, i) = CASE ~operand.ok -> Refused(m, i)
                        [] operand.ok /\ (i.S \/ test) -> set
                        [] OTHER -> written
  BY DEF Logical
<1>4. GoodFor(written, i) /\ GoodFor(set, i)
  <2> HIDE DEF result, operand
  <2>1. Good(written)
    BY <1>2, AccessGood
  <2> HIDE DEF written
  <2>2. Good(set)
    BY <2>1, FlowGood
  <2> HIDE DEF set
  <2> QED BY <2>1, <2>2 DEF Good, GoodFor
<1>5. ~operand.ok => GoodFor(Refused(m, i), i)
  <2> HIDE DEF operand
  <2> QED BY <1>1 DEF Refused, GoodFor, Good, Fail, Members
<1> HIDE DEF operand, written, set
<1> QED BY <1>3, <1>4, <1>5

(* Shifts.                                                                  *)
LEMMA ShiftGood ==
  ASSUME NEW m, NEW i, Good(m), Runnable(i), i.code = "OK", i.name \in ShiftName \union {"RRX"}
  PROVE  Good(Shift(m, i))
<1> DEFINE byRegister == OnlyRegisters(i) /\ i.name # "RRX"
           amount == IF byRegister THEN ReadRegister(m, i.Rm) % 256 ELSE i.amount
           base == ReadRegister(m, IF byRegister THEN i.Rn ELSE i.Rm)
           shifted == IF i.name = "RRX" THEN RRX_C(base, m.psr.C)
                      ELSE Shift_C(base, i.shift, amount, m.psr.C)
           written == WriteRegister(m, i.Rd, shifted.value)
           set == SetFlags(written, NZC(shifted.value, shifted.carry))
<1>1. shifted.ok
  <2>1. \A x, carry : RRX_C(x, carry).ok
    BY DEF RRX_C, Valid
  <2> HIDE DEF base
  <2>2. CASE byRegister
    <3>1. i.name \in ShiftName /\ i.name # "RRX"
      BY <2>2
    <3> HIDE DEF amount
    <3>2. Shift_C(base, i.shift, amount, m.psr.C).ok
      BY <2>2, <3>1, RunnableShift
    <3> QED BY <3>1, <3>2
  <2>3. CASE ~byRegister
    <3>1. amount = i.amount
      BY <2>3
    <3>2. Shift_C(base, i.shift, i.amount, m.psr.C).ok
      BY RunnableShift
    <3> QED BY <2>1, <3>1, <3>2
  <2> QED BY <2>2, <2>3
<1>2. i.Rd \in RegisterFile
  BY DEF Runnable, ShiftName, QuietName
<1>3. Shift(m, i) = CASE ~shifted.ok -> Fail(m, "INVALID_SHIFT_ARGUMENT")
                      [] shifted.ok /\ i.S -> set
                      [] OTHER -> written
  BY DEF Shift
<1> HIDE DEF shifted
<1>4. Good(written)
  BY <1>2, AccessGood
<1> HIDE DEF written
<1>5. Good(set)
  BY <1>4, FlowGood
<1> HIDE DEF set
<1> QED BY <1>1, <1>3, <1>4, <1>5

(* Moves expand their immediate.                                            *)
LEMMA MoveGood ==
  ASSUME NEW m, NEW i, Good(m), Runnable(i), i.code = "OK", i.name \in {"MOV", "MOVW", "MOVT"}
  PROVE  GoodFor(Move(m, i), i)
<1> DEFINE half == 2^(2 * ByteWidth)
           moved == CASE i.name = "MOVW" -> Valid(Wrap(i.imm), m.psr.C)
                      [] i.name = "MOVT" ->
                           Valid((ReadRegister(m, i.Rd) % half) + Wrap(i.imm * half), m.psr.C)
                      [] i.name = "MOV" /\ OnlyRegisters(i) -> Valid(ReadRegister(m, i.Rm), m.psr.C)
                      [] OTHER -> ThumbExpandImm_C(i.imm, m.psr.C)
           written == WriteRegister(m, i.Rd, moved.value)
           set == SetFlags(written, NZC(moved.value, moved.carry))
           branched == WriteRegister(m, PC, Align(ReadRegister(m, i.Rm), 2))
<1>1. i.name # "MOV" => moved.ok
  <2>1. \A value, bit : Valid(value, bit).ok
    BY DEF Valid
  <2> QED BY <2>1
<1>2. i.Rd \in RegisterFile
  BY DEF Runnable, QuietName
<1>3. Move(m, i) = CASE i.Rd = PC -> branched
                     [] i.Rd # PC /\ ~moved.ok -> Fail(m, "INVALID_IMMEDIATE")
                     [] i.Rd # PC /\ moved.ok /\ i.S -> set
                     [] OTHER -> written
  BY DEF Move
<1> HIDE DEF moved
<1>4. Good(written) /\ Good(branched)
  BY <1>2, AccessGood, NamedRegisters
<1> HIDE DEF written, branched
<1>5. Good(set)
  BY <1>4, FlowGood
<1> HIDE DEF set
<1>6. GoodFor(written, i) /\ GoodFor(set, i) /\ GoodFor(branched, i)
  BY <1>4, <1>5 DEF Good, GoodFor
<1>7. ~moved.ok => GoodFor(Fail(m, "INVALID_IMMEDIATE"), i)
  BY <1>1 DEF GoodFor, Good, Fail, Members
<1> QED BY <1>3, <1>6, <1>7

(* What computes without a shifted operand or an expanded immediate.        *)
LEMMA PlainGood ==
  ASSUME NEW m, NEW i, Good(m), Runnable(i), i.code = "OK", i.Rd \in RegisterFile
  PROVE  /\ Good(Rearrange(m, i)) /\ Good(Saturation(m, i)) /\ Good(ExtractField(m, i))
         /\ Good(InsertField(m, i)) /\ Good(Product(m, i)) /\ Good(Quotient(m, i))
         /\ Good(Address(m, i)) /\ Good(MoveFromSpecialRegister(m, i))
<1>1. \A value : Good(WriteRegister(m, i.Rd, value))
  BY AccessGood
<1>2. Good(Rearrange(m, i)) /\ Good(InsertField(m, i)) /\ Good(Quotient(m, i)) /\ Good(Address(m, i))
  BY <1>1 DEF Rearrange, InsertField, Quotient, Address
<1>3. Good(Saturation(m, i))
  <2>1. Shift_C(ReadRegister(m, i.Rn), i.shift, i.amount, m.psr.C).ok
    BY RunnableShift
  <2> QED BY <1>1, <2>1, FlowGood DEF Saturation
<1>4. Good(Product(m, i))
  BY <1>1, FlowGood DEF Product
<1>5. Good(ExtractField(m, i))
  <2>1. Good(Fail(m, "UNPREDICTABLE"))
    BY AccessGood DEF Outcome
  <2> QED BY <1>1, <2>1 DEF ExtractField
<1>6. Good(MoveFromSpecialRegister(m, i))
  BY <1>1 DEF MoveFromSpecialRegister
<1> QED BY <1>2, <1>3, <1>4, <1>5, <1>6

(* Long products write two registers.                                       *)
LEMMA LongGood ==
  ASSUME NEW m, NEW i, Good(m), i.Rd \in RegisterFile, i.Ra \in RegisterFile
  PROVE  Good(LongProduct(m, i))
BY AccessGood DEF LongProduct

-----------------------------------------------------------------------------
(* Loads and stores. *)

LEMMA BackGood ==
  \A m, i, value : Good(m) /\ (i.wback => i.Rn \in RegisterFile) => Good(WriteBack(m, i, value))
BY AccessGood DEF WriteBack

(* Loads and stores of one register.                                       *)
LEMMA LoadStoreGood ==
  ASSUME NEW m, NEW i, Good(m), i.wback => i.Rn \in RegisterFile
  PROVE  /\ i.Rd \in RegisterFile => Good(Load(m, i))
         /\ Good(Store(m, i))
<1>1. i.Rd \in RegisterFile => Good(Load(m, i))
  <2> SUFFICES ASSUME i.Rd \in RegisterFile PROVE Good(Load(m, i))
    OBVIOUS
  <2> DEFINE read == ReadMemory(m, TransferAddress(m, i), TransferBytes(i.name))
  <2>1. Good(read.m)
    BY AccessGood
  <2> HIDE DEF read
  <2>2. \A value : Good(WriteRegister(read.m, i.Rd, value))
    BY <2>1, AccessGood
  <2> QED BY <2>2, BackGood DEF Load, read
<1>2. Good(Store(m, i))
  <2> DEFINE written == WriteMemory(m, TransferAddress(m, i), ReadRegister(m, i.Rd), TransferBytes(i.name))
  <2>1. Good(written)
    BY AccessGood
  <2> HIDE DEF written
  <2> QED BY <2>1, BackGood DEF Store, written
<1> QED BY <1>1, <1>2

(* PUSH, POP, LDM and STM.                                                 *)
LEMMA MultipleGood ==
  ASSUME NEW m, NEW i, Good(m), i.wback => i.Rn \in RegisterFile
  PROVE  /\ Good(LoadMultiple(m, i)) /\ Good(StoreMultiple(m, i))
         /\ Good(LoadMultipleBefore(m, i)) /\ Good(StoreMultipleBefore(m, i))
         /\ Good(Push(m, i)) /\ Good(Pop(m, i))
<1>1. \A list, start : Good(StoreList(m, list, start)) /\ Good(LoadList(m, list, start))
  BY ListGood DEF StoreList, LoadList
<1>2. ASSUME NEW list, NEW start PROVE Good(LoadListAndPC(m, list, start))
  <2> DEFINE loaded == LoadList(m, list, start)
             last == ReadMemory(loaded, Wrap(start + 4 * Cardinality(list \ {PC})), 4)
             exchanged == BxWritePC(last.m, last.value)
  <2>1. Good(loaded)
    BY <1>1
  <2> HIDE DEF loaded
  <2>2. Good(last.m)
    BY <2>1, AccessGood
  <2> HIDE DEF last
  <2>3. Good(exchanged)
    BY <2>2, FlowGood
  <2> HIDE DEF exchanged
  <2>4. Good([exchanged EXCEPT !.branched = TRUE])
    BY <2>3 DEF Good, Members
  <2> QED BY <2>1, <2>4 DEF LoadListAndPC, exchanged, last, loaded
<1>3. Good(LoadMultiple(m, i)) /\ Good(StoreMultiple(m, i))
  BY <1>1, <1>2, BackGood DEF LoadMultiple, StoreMultiple
<1>4. Good(LoadMultipleBefore(m, i)) /\ Good(StoreMultipleBefore(m, i))
  BY <1>1, <1>2, BackGood DEF LoadMultipleBefore, StoreMultipleBefore
<1>5. Good(Push(m, i)) /\ Good(Pop(m, i))
  BY <1>1, <1>2, AccessGood, NamedRegisters DEF Push, Pop
<1> QED BY <1>3, <1>4, <1>5

(* Loads and stores of two registers.                                      *)
LEMMA DualGood ==
  ASSUME NEW m, NEW i, Good(m), i.wback => i.Rn \in RegisterFile
  PROVE  /\ i.Rd \in RegisterFile /\ i.Rm \in RegisterFile => Good(LoadDual(m, i))
         /\ Good(StoreDual(m, i))
<1>1. Good(StoreDual(m, i))
  BY AccessGood, BackGood DEF StoreDual
<1>2. i.Rd \in RegisterFile /\ i.Rm \in RegisterFile => Good(LoadDual(m, i))
  BY AccessGood, BackGood DEF LoadDual
<1> QED BY <1>1, <1>2

(* Exclusive accesses.                                                     *)
LEMMA ExclusiveGood ==
  ASSUME NEW m, NEW i, Good(m), i.Rd \in RegisterFile
  PROVE  Good(LoadExclusive(m, i)) /\ Good(StoreExclusive(m, i))
<1>1. \A address : Good([m EXCEPT !.exclusive = address])
  BY DEF Good, Members
<1>2. Good(LoadExclusive(m, i))
  BY <1>1, AccessGood DEF LoadExclusive
<1>3. Good(StoreExclusive(m, i))
  BY AccessGood DEF StoreExclusive
<1> QED BY <1>2, <1>3

(* All instructions that access memory.                                    *)
LEMMA TransferGood ==
  ASSUME NEW m, NEW i, Good(m), Runnable(i), i.code = "OK",
         i.name \in SingleLoad \union SingleStore \union AlignedName
  PROVE  Good(Transfer(m, i))
<1>1. i.wback => i.Rn \in RegisterFile
  BY DEF Runnable
<1>2. Good(Store(m, i)) /\ Good(StoreDual(m, i)) /\ Good(Fail(m, "HARD_FAULT"))
      /\ Good(LoadMultiple(m, i)) /\ Good(StoreMultiple(m, i))
      /\ Good(LoadMultipleBefore(m, i)) /\ Good(StoreMultipleBefore(m, i))
      /\ Good(Push(m, i)) /\ Good(Pop(m, i))
  BY <1>1, LoadStoreGood, DualGood, MultipleGood, AccessGood DEF Outcome
<1>3. i.name \in SingleLoad => Good(Load(m, i))
  <2>1. i.name \in SingleLoad => i.Rd \in RegisterFile
    BY DEF Runnable, SingleLoad, QuietName
  <2> QED BY <1>1, <2>1, LoadStoreGood
<1>4. i.name = "LDRD" => Good(LoadDual(m, i))
  <2>1. i.name = "LDRD" => i.Rd \in RegisterFile /\ i.Rm \in RegisterFile
    BY DEF Runnable, QuietName
  <2> QED BY <1>1, <2>1, DualGood
<1>5. i.name \in {"LDREX", "LDREXB", "LDREXH", "STREX", "STREXB", "STREXH"} =>
        Good(LoadExclusive(m, i)) /\ Good(StoreExclusive(m, i))
  <2>1. i.name \in {"LDREX", "LDREXB", "LDREXH", "STREX", "STREXB", "STREXH"} => i.Rd \in RegisterFile
    BY DEF Runnable, QuietName
  <2> QED BY <2>1, ExclusiveGood
<1>6. CASE i.name \in SingleLoad \union SingleStore
  <2>1. i.name \notin AlignedName
    BY <1>6 DEF SingleLoad, SingleStore, AlignedName
  <2>2. ~OffsetRefused(m, i)
    BY RunnableShift DEF OffsetRefused
  <2> QED BY <1>2, <1>3, <1>6, <2>1, <2>2 DEF Transfer
<1>7. CASE i.name \in AlignedName
  <2>1. i.name \notin SingleLoad /\ i.name \notin SingleStore
    BY <1>7 DEF SingleLoad, SingleStore, AlignedName
  <2>2. CASE Unaligned(m, i)
    BY <1>2, <1>7, <2>1, <2>2 DEF Transfer
  <2>3. CASE ~Unaligned(m, i)
    BY <1>2, <1>4, <1>5, <1>7, <2>1, <2>3 DEF Transfer, AlignedName
  <2> QED BY <2>2, <2>3
<1> QED BY <1>6, <1>7

-----------------------------------------------------------------------------
(* Branches, special registers, and the dispatch. *)

LEMMA BranchesGood ==
  ASSUME NEW m, NEW i, Good(m)
  PROVE  Good(BranchTo(m, i)) /\ Good(CompareBranch(m, i)) /\ Good(TableBranch(m, i))
<1>1. Good(BranchTo(m, i))
  BY AccessGood, FlowGood, NamedRegisters DEF BranchTo
<1>2. Good(CompareBranch(m, i))
  BY FlowGood DEF CompareBranch
<1>3. Good(TableBranch(m, i))
  BY AccessGood, NamedRegisters DEF TableBranch
<1> QED BY <1>1, <1>2, <1>3

(* MSR.                                                                    *)
LEMMA MsrGood ==
  ASSUME NEW m, NEW i, Good(m)
  PROVE  Good(MoveToSpecialRegister(m, i))
<1> DEFINE value == ReadRegister(m, i.Rn)
           n == MoveToSpecialRegister(m, i)
           group == (i.imm \div 8) % 32
           part == i.imm % 8
           low == value % 256
<1>1. \A special : /\ Good([m EXCEPT !.special.PRIMASK = special])
                   /\ Good([m EXCEPT !.special.BASEPRI = special])
                   /\ Good([m EXCEPT !.special.FAULTMASK = special])
                   /\ Good([m EXCEPT !.special.CONTROL = special])
  BY DEF Good, Members
<1>2. \A bits : Good(WritePSR(m, bits))
  BY DEF Good, WritePSR, SetPSR, Members
<1>3. Good(Fail(m, "UNPREDICTABLE")) /\ Good(WriteRegister(m, SP, value))
  BY AccessGood, NamedRegisters DEF Outcome
<1>4. CASE group = 0
  <2> DEFINE flagged == (m.xpsr \ 27..31) \union WordFlags(value)
  <2>1. n \in {Fail(m, "UNPREDICTABLE"), WritePSR(m, flagged), WritePSR(m, m.xpsr)}
    BY <1>4 DEF MoveToSpecialRegister
  <2> QED BY <1>2, <1>3, <2>1
<1>5. CASE group = 1
  <2>1. n \in {WriteRegister(m, SP, value), m}
    BY <1>5 DEF MoveToSpecialRegister
  <2> QED BY <1>3, <2>1
<1>6. CASE group = 2
  <2>1. CASE part = 0
    <3>1. n = [m EXCEPT !.special.PRIMASK = value % 2]
      BY <1>6, <2>1 DEF MoveToSpecialRegister
    <3> QED BY <1>1, <3>1
  <2>2. CASE part \in {1, 2}
    <3>1. n \in {[m EXCEPT !.special.BASEPRI = low], m}
      BY <1>6, <2>2 DEF MoveToSpecialRegister
    <3> QED BY <1>1, <3>1, ZenonT(30)
  <2>3. CASE part = 3
    <3>1. n = [m EXCEPT !.special.FAULTMASK = value % 2]
      BY <1>6, <2>3 DEF MoveToSpecialRegister
    <3> QED BY <1>1, <3>1
  <2>4. CASE part = 4
    <3>1. n = [m EXCEPT !.special.CONTROL = value % 4]
      BY <1>6, <2>4 DEF MoveToSpecialRegister
    <3> QED BY <1>1, <3>1
  <2>5. CASE part \notin {0, 1, 2, 3, 4}
    BY <1>6, <2>5 DEF MoveToSpecialRegister
  <2> QED BY <2>1, <2>2, <2>3, <2>4, <2>5
<1>7. CASE group \notin {0, 1, 2}
  BY <1>7 DEF MoveToSpecialRegister
<1> QED BY <1>4, <1>5, <1>6, <1>7

(* Every mnemonic that the decoder gives has a case.                        *)
LEMMA NamesCovered ==
  ASSUME NEW i, Runnable(i), i.code = "OK", i.name \notin NotExecuted \union Unconditional
  PROVE  \/ i.name \in ArithmeticName \/ i.name \in LogicalName \/ i.name \in {"LSL", "LSR", "ASR", "ROR", "RRX"}
         \/ i.name \in {"MOV", "MOVW", "MOVT"} \/ i.name \in RearrangeName \/ i.name \in {"SSAT", "USAT"}
         \/ i.name \in {"SBFX", "UBFX"} \/ i.name \in {"BFI", "BFC"} \/ i.name \in {"MUL", "MLA", "MLS"}
         \/ i.name \in {"SMULL", "UMULL", "SMLAL", "UMLAL"} \/ i.name \in {"SDIV", "UDIV"}
         \/ i.name = "ADR" \/ i.name \in SingleLoad \union SingleStore \union AlignedName
         \/ i.name \in {"B", "BL", "BX", "BLX"} \/ i.name \in {"TBB", "TBH"}
         \/ i.name = "MRS" \/ i.name = "MSR"
<1> DEFINE name == i.name
<1>1. name \in QuietName \union SingleName \union LongName \union ShiftName \union {"LDRD", "IT"}
  BY DEF Runnable
<1>2. name \notin NotExecuted \union Unconditional
  OBVIOUS
<1> HIDE DEF name
<1>3. CASE name \in QuietName
  BY <1>2, <1>3 DEF QuietName, NotExecuted, Unconditional, HintName, SingleStore, AlignedName,
                    ArithmeticName, LogicalName, name
<1>4. CASE name \in SingleName
  BY <1>4 DEF SingleName, ArithmeticName, LogicalName, RearrangeName, SingleLoad, AlignedName, name
<1>5. CASE name \in LongName \union ShiftName \union {"LDRD", "IT"}
  BY <1>2, <1>5 DEF LongName, ShiftName, AlignedName, Unconditional, name
<1> QED BY <1>1, <1>3, <1>4, <1>5

(* What an instruction does leaves a return code that it may have.          *)
LEMMA PerformGood ==
  ASSUME NEW m, NEW i, Good(m), Runnable(i), i.code = "OK",
         i.name \notin NotExecuted \union Unconditional
  PROVE  GoodFor(Perform(m, i), i)
<1>0. \A n : Good(n) => GoodFor(n, i)
  BY DEF Good, GoodFor
<1> DEFINE plain == {Rearrange(m, i), Saturation(m, i), ExtractField(m, i), InsertField(m, i),
                     Product(m, i), Quotient(m, i), Address(m, i), MoveFromSpecialRegister(m, i)}
           flow == {BranchTo(m, i), TableBranch(m, i), MoveToSpecialRegister(m, i)}
           n == Perform(m, i)
<1>1. \/ i.name \in ArithmeticName /\ n = Arithmetic(m, i)
      \/ i.name \in LogicalName /\ n = Logical(m, i)
      \/ i.name \in ShiftName \union {"RRX"} /\ n = Shift(m, i)
      \/ i.name \in {"MOV", "MOVW", "MOVT"} /\ n = Move(m, i)
      \/ i.name \notin QuietName \union {"IT"} /\ n \in plain
      \/ i.name \in LongName /\ n = LongProduct(m, i)
      \/ i.name \in SingleLoad \union SingleStore \union AlignedName /\ n = Transfer(m, i)
      \/ n \in flow
  <2> DEFINE quiet == QuietName \union {"IT"}
  <2>1. /\ RearrangeName \intersect quiet = {} /\ {"SSAT", "USAT"} \intersect quiet = {}
        /\ {"SBFX", "UBFX"} \intersect quiet = {} /\ {"BFI", "BFC"} \intersect quiet = {}
        /\ {"MUL", "MLA", "MLS"} \intersect quiet = {} /\ {"SDIV", "UDIV"} \intersect quiet = {}
        /\ "ADR" \notin quiet /\ "MRS" \notin quiet
    BY DEF QuietName, RearrangeName
  <2> HIDE DEF quiet
  <2>2. \/ i.name \in ArithmeticName /\ n = Arithmetic(m, i)
        \/ i.name \in LogicalName /\ n = Logical(m, i)
        \/ i.name \in {"LSL", "LSR", "ASR", "ROR", "RRX"} /\ n = Shift(m, i)
        \/ i.name \in {"MOV", "MOVW", "MOVT"} /\ n = Move(m, i)
        \/ i.name \notin quiet /\ n \in plain
        \/ i.name \in {"SMULL", "UMULL", "SMLAL", "UMLAL"} /\ n = LongProduct(m, i)
        \/ i.name \in SingleLoad \union SingleStore \union AlignedName /\ n = Transfer(m, i)
        \/ n \in flow
    BY <2>1, NamesCovered DEF Perform
  <2> HIDE DEF plain, flow, n
  <2>3. {"LSL", "LSR", "ASR", "ROR", "RRX"} = ShiftName \union {"RRX"}
        /\ {"SMULL", "UMULL", "SMLAL", "UMLAL"} = LongName
    BY DEF ShiftName, LongName
  <2> QED BY <2>2, <2>3 DEF quiet
<1>2. \A p \in flow : Good(p)
  BY BranchesGood, MsrGood
<1>3. i.name \notin QuietName \union {"IT"} => \A p \in plain : Good(p)
  BY PlainGood DEF Runnable
<1>4. i.name \in LongName => Good(LongProduct(m, i))
  <2>1. i.name \in LongName => i.name \notin QuietName \union {"IT"}
    BY DEF LongName, QuietName
  <2> QED BY <2>1, LongGood DEF Runnable
<1> HIDE DEF plain, flow, n
<1>5. \/ GoodFor(n, i) \/ Good(n)
  BY <1>1, <1>2, <1>3, <1>4, ArithmeticGood, LogicalGood, ShiftGood, MoveGood, TransferGood
<1> QED BY <1>0, <1>5 DEF n

(* And what is done whatever the condition. *)
LEMMA UnconditionalGood ==
  ASSUME NEW m, NEW i, Good(m), i.name \in Unconditional
  PROVE  Good(PerformUnconditional(m, i))
<1>1. Good(CompareBranch(m, i)) /\ Good(Fail(m, "UNDEFINED"))
  BY BranchesGood, AccessGood DEF Outcome
<1>2. Good(ChangeState(m, i)) /\ Good([m EXCEPT !.psr.it = i.imm, !.updated = TRUE])
  BY DEF Good, Members, ChangeState
<1> QED BY <1>1, <1>2 DEF PerformUnconditional, Unconditional

-----------------------------------------------------------------------------
(* The return codes of instructions that are executed. *)

(* An IT state in a block whose condition is 15 is none that an IT leaves.  *)
LEMMA SoundCondition ==
  ASSUME NEW it \in 0 .. 255, ItSound(it), it % 16 # 0
  PROVE  it \div 16 # 15
<1> SUFFICES ASSUME it \div 16 = 15 PROVE FALSE
  OBVIOUS
<1>1. it = 240 + (it % 16) /\ it % 16 \in 1 .. 15
  OBVIOUS
<1>2. it \div 32 = 7 /\ it % 32 \in 17 .. 31
  BY <1>1
<1>3. it % 32 \in {1, 2, 4, 8}
  BY <1>2 DEF ItSound
<1> QED BY <1>2, <1>3

(* pop_IT_condition leaves a sound state sound.                            *)
LEMMA PoppedSound ==
  ASSUME NEW it \in 0 .. 255, ItSound(it)
  PROVE  ItSound(Popped(it))
<1>1. CASE it % 8 = 0
  BY <1>1 DEF Popped, ItSound
<1>2. CASE it % 8 # 0
  <2>1. Popped(it) = 32 * (it \div 32) + ((2 * it) % 32)
    BY <1>2 DEF Popped
  <2>2. (2 * it) % 32 \in 0 .. 31
    OBVIOUS
  <2>3. Popped(it) \div 32 = it \div 32 /\ Popped(it) % 32 = (2 * it) % 32
    BY <2>1, <2>2
  <2>4. SUFFICES ASSUME it \div 32 = 7 PROVE ItSound(Popped(it))
    BY <2>3 DEF ItSound
  <2>5. it % 16 # 0
    BY <1>2
  <2>6. it % 32 \in {1, 2, 4, 8}
    BY <2>4, <2>5 DEF ItSound
  <2>7. (2 * it) % 32 = (2 * (it % 32)) % 32
    OBVIOUS
  <2>8. (2 * it) % 32 \in {2, 4, 8, 16}
    BY <2>6, <2>7
  <2>9. Popped(it) % 16 = ((2 * it) % 32) % 16
    BY <2>1
  <2> QED BY <2>3, <2>8, <2>9 DEF ItSound
<1> QED BY <1>1, <1>2

(* ARMv6-M has no IT state.                                                *)
LEMMA NoneSound ==
  \A m : Mirrored(m) /\ m.code = "OK" /\ m.arch = "ARMv6M" => m.psr.it = 0
BY DEF Mirrored, PsrBits, Fields

(* What a return code may be after an instruction is executed.              *)
Fitting(code, i, sound) ==
  \/ code \in Outcome
  \/ code = "INVALID_IMMEDIATE" /\ i.name \in LogicalName \union {"MOV"}
  \/ code = "UNSUPPORTED" /\ (i.name \in NotExecuted \/ ~sound)

(* execute leaves such a code. *)
LEMMA ExecuteFits ==
  ASSUME NEW m, NEW i, NEW size, Good(m), m.code = "OK", m.psr.it \in 0 .. 255,
         Runnable(i), i.code = "OK"
  PROVE  Fitting(Execute(m, i, size).code, i, ItSound(m.psr.it))
<1> DEFINE sound == ItSound(m.psr.it)
           evaluated == EvaluateCondition(m, i)
           p == PopITCondition(m)
<1>1. \A n : GoodFor(n, i) => Fitting(n.code, i, sound)
  BY DEF GoodFor, Fitting
<1>2. \A n : Good(n) => GoodFor(n, i)
  BY DEF Good, GoodFor
<1>3. CASE i.name \in NotExecuted
  <2>1. Execute(m, i, size) = Fail(m, "UNSUPPORTED")
    <3>1. i.name \notin Unconditional
      BY <1>3 DEF NotExecuted, Unconditional, HintName
    <3> QED BY <1>3, <3>1 DEF Execute
  <2>2. Fail(m, "UNSUPPORTED").code = "UNSUPPORTED"
    BY DEF Fail, Good, Members
  <2> QED BY <1>3, <2>1, <2>2 DEF Fitting
<1>4. CASE i.name \in Unconditional
  <2>1. i.name \notin NotExecuted
    BY <1>4 DEF NotExecuted, Unconditional, HintName
  <2>2. Execute(m, i, size) = Advance(PerformUnconditional(m, i), size)
    BY <1>4, <2>1 DEF Execute
  <2>3. Good(Execute(m, i, size))
    BY <1>4, <2>2, UnconditionalGood, FlowGood
  <2> QED BY <1>1, <1>2, <2>3
<1>5. CASE i.name \notin NotExecuted \union Unconditional
  <2>1. Execute(m, i, size) = Advance(IF evaluated.holds THEN Perform(evaluated.m, i) ELSE evaluated.m, size)
    BY <1>5 DEF Execute
  <2>2. Good(p) /\ p.code = "OK"
    BY DEF PopITCondition, Good, Members
  <2>3. InITBlock(m) /\ sound => m.psr.it \div 16 # 15
    BY SoundCondition DEF InITBlock
  <2>4. i.condition # 15
    BY DEF Runnable
  <2>5. \/ Good(evaluated.m)
        \/ /\ ~evaluated.holds /\ ~sound
           /\ evaluated.m = Fail(p, "UNSUPPORTED")
    <3> HIDE DEF p, sound
    <3> QED BY <2>2, <2>3, <2>4 DEF EvaluateCondition, p
  <2>6. CASE Good(evaluated.m)
    <3> DEFINE done == IF evaluated.holds THEN Perform(evaluated.m, i) ELSE evaluated.m
    <3>1. GoodFor(done, i)
      <4> HIDE DEF evaluated
      <4> QED BY <1>2, <1>5, <2>6, PerformGood
    <3> HIDE DEF done
    <3>2. GoodFor(Advance(done, size), i)
      <4>1. CASE done.code = "OK"
        <5>1. Good(done)
          BY <3>1, <4>1 DEF GoodFor, Good, Outcome
        <5> QED BY <1>2, <5>1, FlowGood
      <4>2. CASE done.code # "OK"
        BY <3>1, <4>2 DEF Advance
      <4> QED BY <4>1, <4>2
    <3> QED BY <1>1, <2>1, <3>2 DEF done
  <2>7. CASE ~evaluated.holds /\ ~sound /\ evaluated.m = Fail(p, "UNSUPPORTED")
    <3>1. Fail(p, "UNSUPPORTED").code = "UNSUPPORTED"
      BY <2>2 DEF Fail, Good, Members
    <3> HIDE DEF p
    <3>2. Execute(m, i, size) = Fail(p, "UNSUPPORTED")
      BY <2>1, <2>7, <3>1 DEF Advance
    <3> QED BY <2>7, <3>1, <3>2 DEF Fitting
  <2> QED BY <2>5, <2>6, <2>7
<1> QED BY <1>3, <1>4, <1>5

(* clock_cpu, from a state between two instructions: the return code, and   *)
(* the IT state.                                                            *)
LEMMA ClockFits ==
  ASSUME NEW m, Mirrored(m), m.code = "OK", NEW n \in Nat, m.flash \in [0 .. n - 1 -> Byte],
         IsOK(ClockCPU(m).i)
  PROVE  /\ Fitting(ClockCPU(m).m.code, ClockCPU(m).i, ItSound(m.psr.it))
         /\ ItSound(m.psr.it) /\ ClockCPU(m).m.code = "OK" => ItSound(ClockCPU(m).m.psr.it)
<1> DEFINE pc == m.reg[PC]
           w == Fetched(m)
           i == Decode(w)
           executed == Execute(m, i, SizeAt(m, pc))
           clocked == ClockCPU(m)
<1>1. Honest(m, m) /\ DOMAIN m = Members /\ m.psr.it \in 0 .. 255
  <2>1. m.psr = Fields(m.xpsr) /\ DOMAIN m = Members
    BY DEF Mirrored
  <2> QED BY <2>1, MirroredHonest, FieldsType
<1>2. ValidateAddress(m, pc) = "OK" /\ i.code = "OK" /\ clocked.m = Committed(executed) /\ clocked.i = i
  BY DEF ClockCPU, IsOK, Refuse
<1>3. Runnable(i)
  <2>1. w.H \in Halfword /\ w.L \in Halfword
    BY <1>2, FetchedHalfwords
  <2> QED BY <2>1, DecodedRunnable
<1>4. Good(m)
  BY <1>1 DEF Good, Outcome
<1> HIDE DEF i
<1>5. Fitting(executed.code, i, ItSound(m.psr.it))
  BY <1>1, <1>2, <1>3, <1>4, ExecuteFits
<1>6. Committed(executed).code = executed.code
  <2>1. After(m, executed)
    BY <1>1, ExecuteAfter
  <2> HIDE DEF executed
  <2> QED BY <2>1, CommittedAfter DEF After
<1>7. Stepped(m, clocked) /\ Mirrored(clocked.m)
  BY ClockStepped, ClockMirrored
<1> HIDE DEF clocked, executed
<1>8. ASSUME ItSound(m.psr.it), clocked.m.code = "OK" PROVE ItSound(clocked.m.psr.it)
  <2>1. CASE m.arch = "ARMv6M"
    <3>1. clocked.m.psr.it = 0
      BY <1>7, <1>8, <2>1, NoneSound DEF Stepped
    <3> QED BY <3>1 DEF ItSound
  <2>2. CASE m.arch # "ARMv6M"
    <3>1. i.name = "IT" => ItSound(i.imm)
      BY <1>2, <1>3 DEF Runnable
    <3>2. ItSound(Popped(m.psr.it))
      BY <1>1, <1>8, PoppedSound
    <3>3. \/ clocked.m.psr.it \in {m.psr.it, Popped(m.psr.it)}
          \/ i.name = "IT" /\ clocked.m.psr.it = i.imm
      BY <1>2, <1>7, <1>8, <2>2 DEF Stepped
    <3> QED BY <1>8, <3>1, <3>2, <3>3
  <2> QED BY <2>1, <2>2
<1> QED BY <1>2, <1>5, <1>6, <1>8 DEF clocked

-----------------------------------------------------------------------------
(* Nothing that was executed was refused. *)

(* The IT state in place has no condition 15, unless a fault was in PSR.    *)
ItInv == emu.code = "OK" /\ ~PsrTouched => ItSound(emu.psr.it)

(* A fault in PSR, in what a past p tells up to its k-th instruction.       *)
TouchedIn(p, k) ==
  \E j \in 1 .. k : p[j].fault.kind \in {"transient", "until_overwrite"} /\ p[j].fault.register = PSR

(* The return codes of the past. *)
FittingIn(p) == \A k \in DOMAIN p : Fitting(p[k].code, p[k].i, ~TouchedIn(p, k))

(* The inductive invariant. *)
ExecInv == BlockInv /\ ItInv /\ FittingIn(past)

(* Init establishes it. *)
LEMMA ExecInit == Init => ExecInv
<1> SUFFICES ASSUME Init PROVE ExecInv
  OBVIOUS
<1>1. PICK s \in Scenarios : \E arch \in s.archs, registers \in s.inputs :
        emu = Started(arch, s.program, registers)
  BY DEF Init
<1>2. emu.psr = Fields({})
  BY <1>1 DEF Started
<1>3. ItSound(emu.psr.it)
  BY <1>2 DEF Fields, ItSound
<1>4. FittingIn(past)
  BY DEF Init, FittingIn
<1> QED BY <1>3, <1>4, BlockInit DEF ExecInv, ItInv

(* One more instruction, with a code that fits.                            *)
LEMMA FittingAppend ==
  ASSUME NEW S, NEW p \in Seq(S), NEW e, FittingIn(p),
         Fitting(e.code, e.i, ~TouchedIn(Append(p, e), Len(p) + 1))
  PROVE  FittingIn(Append(p, e))
<1> DEFINE q == Append(p, e)
           n == Len(p)
<1>1. n \in Nat /\ DOMAIN p = 1 .. n
  OBVIOUS
<1>2. Extended(p, e, q)
  BY OpenedAppend
<1> HIDE DEF q, n
<1>3. DOMAIN q = DOMAIN p \union {n + 1} /\ (\A k \in DOMAIN p : q[k] = p[k]) /\ q[n + 1] = e
  BY <1>2 DEF Extended, n
<1>4. ASSUME NEW k \in DOMAIN p PROVE Fitting(q[k].code, q[k].i, ~TouchedIn(q, k))
  <2>1. \A j \in 1 .. k : j \in DOMAIN p
    BY <1>1
  <2>2. TouchedIn(q, k) <=> TouchedIn(p, k)
    BY <1>3, <2>1 DEF TouchedIn
  <2>3. Fitting(p[k].code, p[k].i, ~TouchedIn(p, k))
    BY DEF FittingIn
  <2> QED BY <1>3, <2>2, <2>3 DEF Fitting
<1>5. Fitting(q[n + 1].code, q[n + 1].i, ~TouchedIn(q, n + 1))
  BY <1>3 DEF q, n
<1> QED BY <1>3, <1>4, <1>5 DEF FittingIn, q

(* What is clocked has a code that fits, and leaves an IT state that is     *)
(* sound.                                                                   *)
LEMMA ClockExec == ExecInv /\ Clock => ItInv' /\ FittingIn(past')
<1> SUFFICES ASSUME ExecInv, Clock PROVE ItInv' /\ FittingIn(past')
  OBVIOUS
<1> DEFINE clocked == ClockCPU(emu)
           i == clocked.i
           m == clocked.m
           e == [i |-> i, reg |-> emu.reg, inIT |-> InITBlock(emu), code |-> m.code, fault |-> pending]
           q == Append(past, e)
<1>1. /\ emu.code = "OK" /\ emu' = PutBack(clocked)
      /\ past' = IF IsOK(i) THEN q ELSE past
      /\ pending' = NoFault
  BY DEF Clock, Running
<1>2. Mirrored(emu) /\ FaultInv /\ FittingIn(past) /\ ItInv
  BY DEF ExecInv, BlockInv, MirrorInv
<1>3. PICK n \in Nat : emu.flash \in [0 .. n - 1 -> Byte]
  BY <1>2 DEF FaultInv
<1>4. PICK S : past \in Seq(S)
  BY <1>2 DEF FaultInv
<1>5. Mirrored(m) /\ Stepped(emu, clocked)
  BY <1>1, <1>2, <1>3, ClockMirrored, ClockStepped
<1>6. IsOK(i) =>
        /\ Fitting(m.code, i, ItSound(emu.psr.it))
        /\ ItSound(emu.psr.it) /\ m.code = "OK" => ItSound(m.psr.it)
  BY <1>1, <1>2, <1>3, ClockFits
<1> HIDE DEF clocked
<1>7. /\ emu'.code = m.code
      /\ ~(pending.kind = "transient" /\ pending.register = PSR) => emu'.psr = m.psr
  BY <1>1, <1>5, PutBackAfter
<1>8. m.code = "OK" => IsOK(i)
  BY <1>5 DEF Stepped
<1>9. e.i = i /\ e.code = m.code /\ e.fault = pending
  OBVIOUS
<1> HIDE DEF i, m, e
<1>10. CASE ~IsOK(i)
  <2>1. emu'.code # "OK" /\ past' = past
    BY <1>1, <1>7, <1>8, <1>10
  <2> QED BY <1>2, <2>1 DEF ItInv
<1>11. CASE IsOK(i)
  <2>1. Extended(past, e, q) /\ Len(past) \in Nat /\ DOMAIN past = 1 .. Len(past)
    BY <1>4, OpenedAppend
  <2> HIDE DEF q
  <2>2. /\ DOMAIN q = DOMAIN past \union {Len(past) + 1} /\ q[Len(past) + 1] = e
        /\ \A k \in DOMAIN past : q[k] = past[k]
    BY <2>1 DEF Extended
  <2>3. past' = q
    BY <1>1, <1>11
  <2>4. PsrTouched <=> TouchedIn(q, Len(past) + 1)
    <3>1. 1 .. Len(past) + 1 = DOMAIN past \union {Len(past) + 1}
      BY <2>1
    <3>2. TouchedIn(q, Len(past) + 1) <=>
            \/ \E j \in DOMAIN past : RegisterFaultAt(j, PSR)
            \/ pending.kind \in {"transient", "until_overwrite"} /\ pending.register = PSR
      BY <1>9, <2>2, <3>1 DEF TouchedIn, RegisterFaultAt
    <3> QED BY <3>2 DEF PsrTouched
  <2>5. PsrTouched => PsrTouched'
    <3>1. PsrTouched' <=> \E k \in DOMAIN q : q[k].fault.kind \in {"transient", "until_overwrite"}
                                                /\ q[k].fault.register = PSR
      BY <1>1, <2>3 DEF PsrTouched, RegisterFaultAt, NoFault
    <3>2. 1 .. Len(past) + 1 = DOMAIN q
      BY <2>1, <2>2
    <3> QED BY <2>4, <3>1, <3>2 DEF TouchedIn
  <2>6. Fitting(e.code, e.i, ~TouchedIn(q, Len(past) + 1))
    <3>1. ~PsrTouched => ItSound(emu.psr.it)
      BY <1>1, <1>2 DEF ItInv
    <3> QED BY <1>6, <1>9, <1>11, <2>4, <3>1 DEF Fitting
  <2>7. FittingIn(past')
    BY <1>2, <1>4, <2>3, <2>6, FittingAppend DEF q
  <2>8. ItInv'
    <3> SUFFICES ASSUME emu'.code = "OK", ~PsrTouched' PROVE ItSound(emu'.psr.it)
      BY DEF ItInv
    <3>1. ~PsrTouched /\ ItSound(emu.psr.it)
      BY <1>1, <1>2, <2>5 DEF ItInv
    <3>2. emu'.psr = m.psr /\ m.code = "OK"
      BY <1>7, <3>1 DEF PsrTouched
    <3> QED BY <1>6, <1>11, <3>1, <3>2
  <2> QED BY <2>7, <2>8
<1> QED BY <1>10, <1>11

(* What leaves the past and, but for a fault in PSR, the flags alone.       *)
LEMMA FaultExec ==
  ASSUME ExecInv, past' = past,
         emu'.code = "OK" => emu.code = "OK" /\ (emu'.psr = emu.psr \/ PsrTouched'),
         PsrTouched => PsrTouched'
  PROVE  ItInv' /\ FittingIn(past')
BY DEF ExecInv, ItInv

(* Every step does. *)
LEMMA ExecStep == ExecInv /\ [Next]_vars => ExecInv'
<1> SUFFICES ASSUME ExecInv, [Next]_vars PROVE ExecInv'
  OBVIOUS
<1>1. BlockInv /\ BlockInv'
  BY BlockStep DEF ExecInv
<1>2. DOMAIN emu = Members /\ FaultInv
  BY <1>1 DEF BlockInv, MirrorInv, Mirrored
<1>3. SUFFICES ItInv' /\ FittingIn(past')
  BY <1>1 DEF ExecInv
<1>4. CASE Clock
  BY <1>4, ClockExec
<1>5. CASE Stop
  <2>1. past' = past /\ pending' = pending /\ emu'.code # "OK"
    BY <1>2, <1>5 DEF Stop, Fail, Members
  <2>2. PsrTouched => PsrTouched'
    BY <2>1 DEF PsrTouched, RegisterFaultAt
  <2> QED BY <2>1, <2>2, FaultExec
<1>6. ASSUME NEW model, NEW iteration, FaultInstruction(model, iteration)
      PROVE  ItInv' /\ FittingIn(past')
  <2>1. PICK bytes : emu' = Resumed([emu EXCEPT !.flash = bytes])
    BY <1>6 DEF FaultInstruction
  <2>2. past' = past /\ target.instructions
    BY <1>6 DEF FaultInstruction
  <2>3. Same(emu, emu')
    <3> DEFINE other == [emu EXCEPT !.flash = bytes]
    <3>1. DOMAIN other = Members /\ Same(emu, other)
      BY <1>2, FlashSame
    <3> HIDE DEF other
    <3>2. Same(other, Resumed(other))
      BY <3>1, ResumedSame
    <3> QED BY <2>1, <3>1, <3>2 DEF Same, other
  <2>4. PsrTouched => PsrTouched'
    <3>1. pending.kind = "none"
      BY <1>2, <2>2 DEF FaultInv
    <3> QED BY <2>2, <3>1 DEF PsrTouched, RegisterFaultAt
  <2> QED BY <2>2, <2>3, <2>4, FaultExec DEF Same
<1>7. ASSUME NEW r \in target.registers, NEW type \in {"transient", "until_overwrite"},
             NEW model, NEW iteration, FaultRegister(r, type, model, iteration)
      PROVE  ItInv' /\ FittingIn(past')
  <2>1. PICK bits : emu' = Resumed(SetRegister(emu, r, bits))
    BY <1>7 DEF FaultRegister
  <2>2. pending'.kind = type /\ pending'.register = r /\ past' = past
    BY <1>7 DEF FaultRegister
  <2>3. emu'.code = emu.code /\ (r # PSR => emu'.psr = emu.psr)
    <3> DEFINE written == SetRegister(emu, r, bits)
    <3>1. DOMAIN written = Members /\ written.code = emu.code /\ (r # PSR => Same(emu, written))
      BY <1>2, WrittenSame
    <3> HIDE DEF written
    <3>2. Same(written, Resumed(written))
      BY <3>1, ResumedSame
    <3> QED BY <2>1, <3>1, <3>2 DEF Same, written
  <2>4. emu'.psr = emu.psr \/ PsrTouched'
    BY <2>2, <2>3 DEF PsrTouched
  <2>5. PsrTouched => PsrTouched'
    <3>1. pending.kind = "none"
      BY <1>2 DEF FaultInv
    <3> QED BY <2>2, <3>1 DEF PsrTouched, RegisterFaultAt
  <2> QED BY <2>2, <2>3, <2>4, <2>5, FaultExec
<1>8. CASE UNCHANGED vars
  <2>1. emu' = emu /\ past' = past /\ pending' = pending
    BY <1>8 DEF vars
  <2>2. PsrTouched => PsrTouched'
    BY <2>1 DEF PsrTouched, RegisterFaultAt
  <2> QED BY <2>1, <2>2, FaultExec
<1> QED BY <1>4, <1>5, <1>6, <1>7, <1>8 DEF Next

(* The decoder hands execute nothing that it cannot carry out: for any      *)
(* program, any state of the registers and any fault, no instruction that   *)
(* was decoded fails for a register that does not exist, a shift or a       *)
(* mnemonic without a case, but for those of NotExecuted.                   *)
THEOREM DecodedIsExecutable == Spec => []Executable
<1>1. ExecInv => Executable
  <2> SUFFICES ASSUME FittingIn(past), NEW k \in DOMAIN past
               PROVE  /\ past[k].code \notin {"INVALID_REGISTER", "INVALID_SHIFT_ARGUMENT"}
                      /\ past[k].code = "INVALID_IMMEDIATE" => past[k].i.name \in LogicalName \union {"MOV"}
                      /\ past[k].code = "UNSUPPORTED" =>
                           past[k].i.name \in NotExecuted \/ \E j \in 1 .. k : RegisterFaultAt(j, PSR)
    BY DEF ExecInv, Executable
  <2>1. Fitting(past[k].code, past[k].i, ~TouchedIn(past, k))
    BY DEF FittingIn
  <2>2. TouchedIn(past, k) => \E j \in 1 .. k : RegisterFaultAt(j, PSR)
    BY DEF TouchedIn, RegisterFaultAt
  <2> QED BY <2>1, <2>2 DEF Fitting, Outcome
<1> QED BY <1>1, ExecInit, ExecStep, PTL DEF Spec

-----------------------------------------------------------------------------
(* What two decoders make of the same halfwords.                            *)

(* A word of two halfwords as two decoders get it, that differ in their    *)
(* core or in the place in an IT block.                                    *)
Here(p) == [arch |-> p.arch, it |-> p.it, H |-> p.H, L |-> p.L]

There(p) == [arch |-> p.arch2, it |-> p.it2, H |-> p.H, L |-> p.L]

(* What the two make of it: k says how they differ. From ARMv6-M to        *)
(* ARMv7-M MSR gets a mask; in a larger core, or at the end of a block     *)
(* instead of within it, what was accepted stays as it is; after a block,  *)
(* the flags that are set may differ.                                      *)
Alike(k, i, j) ==
  IsOK(i) =>
    /\ k = "next" => SameBut(i, j, IF i.name = "MSR" THEN "imm" ELSE "code")
    /\ k = "larger" => j = i
    /\ k = "end" /\ IsOK(j) => SameBut(i, j, "S")

(* The pairs that are compared.                                            *)
Differing(k, p) ==
  \/ k = "next" /\ p.arch = "ARMv6M" /\ p.arch2 = "ARMv7M" /\ p.it2 = p.it
  \/ k = "larger" /\ p.arch = "ARMv7M" /\ p.arch2 = "ARMv7EM" /\ p.it2 = p.it
  \/ k = "larger" /\ p.arch = p.arch2 /\ p.it = "inside" /\ p.it2 = "last"
  \/ k = "end" /\ p.arch = p.arch2 /\ p.it = "last" /\ p.it2 = "outside"

(* Such a pair, of halfwords.                                              *)
Pair(k, p) == Differing(k, p) /\ p.H \in Halfword /\ p.L \in Halfword

(* Halfwords are numbers.                                                  *)
LEMMA PairInt == ASSUME NEW k, NEW p, Pair(k, p) PROVE p.H \in Int /\ p.L \in Int
BY DEF Pair, Halfword

(* What does not ask for the core or the place is decoded alike.           *)
LEMMA AlikeItself == \A k, i : Alike(k, i, i)
BY DEF Alike, SameBut

(* So is what the first one refuses.                                       *)
LEMMA AlikeRefused == \A k, code, j : code # "OK" => Alike(k, Refuse(code), j)
BY DEF Alike, Refuse, IsOK

(* The second one has all that the first one has, and is not more within a *)
(* block.                                                                  *)
LEMMA PairGrows ==
  ASSUME NEW k, NEW p, Pair(k, p)
  PROVE  /\ V7(Here(p)) => V7(There(p))
         /\ V7E(Here(p)) => V7E(There(p))
         /\ InIT(There(p)) => InIT(Here(p))
         /\ MidIT(There(p)) => MidIT(Here(p))
         /\ k # "end" => (InIT(There(p)) <=> InIT(Here(p)))
         /\ k # "next" => (V7(There(p)) <=> V7(Here(p)))
BY DEF Pair, Differing, Here, There, V7, V7E, InIT, MidIT

(* So that what ARMv7-M has stays alike.                                   *)
LEMMA FromAlike ==
  ASSUME NEW k, NEW p, Pair(k, p), NEW i, NEW j, Alike(k, i, j)
  PROVE  Alike(k, From7(Here(p), i), From7(There(p), j))
BY PairGrows, AlikeRefused DEF From7

(* Encodings of one halfword that ask for nothing.                         *)
LEMMA SmallSame ==
  ASSUME NEW p
  PROVE  /\ MovsRegister(Here(p)) = MovsRegister(There(p))
         /\ LoadLiteral(Here(p)) = LoadLiteral(There(p))
         /\ LoadStoreRegister(Here(p)) = LoadStoreRegister(There(p))
         /\ LoadStoreImmediate(Here(p)) = LoadStoreImmediate(There(p))
         /\ AddToPCorSP(Here(p)) = AddToPCorSP(There(p))
         /\ StoreLoadMultiple(Here(p)) = StoreLoadMultiple(There(p))
BY SMT DEF Here, There, MovsRegister, LoadLiteral, LoadStoreRegister, LoadStoreImmediate, AddToPCorSP, StoreLoadMultiple

(* Those that write PC, which must be the end of a block.                  *)
LEMMA HighAlike ==
  ASSUME NEW k, NEW p, Pair(k, p)
  PROVE  Alike(k, AddHigh(Here(p)), AddHigh(There(p)))
<1>1. MidIT(There(p)) => MidIT(Here(p))
  BY PairGrows
<1> QED BY <1>1, AlikeItself, AlikeRefused DEF Here, There, AddHigh

(* Special data instructions and branch and exchange.                      *)
LEMMA SpecialAlike ==
  ASSUME NEW k, NEW p, Pair(k, p)
  PROVE  Alike(k, SpecialDataBranchExchange(Here(p)), SpecialDataBranchExchange(There(p)))
<1>1. MidIT(There(p)) => MidIT(Here(p))
  BY PairGrows
<1>2. Alike(k, AddHigh(Here(p)), AddHigh(There(p)))
  BY HighAlike
<1>3. Bits(p.H, 9, 6) \in 0 .. 15
  BY PairInt, BitsType
<1> QED BY <1>1, <1>2, <1>3, AlikeItself, AlikeRefused DEF Here, There, SpecialDataBranchExchange

(* PUSH and POP, which may load PC.                                        *)
LEMMA PushAlike ==
  ASSUME NEW k, NEW p, Pair(k, p)
  PROVE  Alike(k, PushPop(Here(p)), PushPop(There(p)))
<1>1. MidIT(There(p)) => MidIT(Here(p))
  BY PairGrows
<1> QED BY <1>1, AlikeItself, AlikeRefused DEF Here, There, PushPop

(* Branches, and what may not be in a block.                               *)
LEMMA BranchesAlike ==
  ASSUME NEW k, NEW p, Pair(k, p)
  PROVE  /\ Alike(k, Branch(Here(p)), Branch(There(p)))
         /\ Alike(k, ConditionalBranchAndSVC(Here(p)), ConditionalBranchAndSVC(There(p)))
         /\ Alike(k, CompareAndBranch(Here(p)), CompareAndBranch(There(p)))
         /\ Alike(k, ChangeProcessorState(Here(p)), ChangeProcessorState(There(p)))
<1>1. (MidIT(There(p)) => MidIT(Here(p))) /\ (InIT(There(p)) => InIT(Here(p)))
  BY PairGrows
<1>2. Alike(k, Branch(Here(p)), Branch(There(p)))
  BY <1>1, AlikeItself, AlikeRefused DEF Here, There, Branch
<1>3. Alike(k, ConditionalBranchAndSVC(Here(p)), ConditionalBranchAndSVC(There(p)))
  BY <1>1, AlikeItself, AlikeRefused DEF Here, There, ConditionalBranchAndSVC
<1>4. Alike(k, CompareAndBranch(Here(p)), CompareAndBranch(There(p)))
  BY <1>1, AlikeItself, AlikeRefused DEF Here, There, CompareAndBranch
<1>5. Alike(k, ChangeProcessorState(Here(p)), ChangeProcessorState(There(p)))
  BY <1>1, AlikeItself, AlikeRefused DEF Here, There, ChangeProcessorState
<1> QED BY <1>2, <1>3, <1>4, <1>5

(* IT and the hints.                                                       *)
LEMMA ItAlike ==
  ASSUME NEW k, NEW p, Pair(k, p)
  PROVE  Alike(k, IfThenAndHints(Here(p)), IfThenAndHints(There(p)))
<1>1. (V7(Here(p)) => V7(There(p))) /\ (InIT(There(p)) => InIT(Here(p)))
  BY PairGrows
<1> QED BY <1>1, AlikeItself, AlikeRefused DEF Here, There, IfThenAndHints

(* CBZ and CBNZ, which ARMv6-M does not have, take no encoding from the    *)
(* others.                                                                 *)
LEMMA MiscellaneousAlike ==
  ASSUME NEW k, NEW p, Pair(k, p)
  PROVE  Alike(k, Miscellaneous(Here(p)), Miscellaneous(There(p)))
<1> DEFINE op5 == Bits(p.H, 11, 7)
           op6 == Bits(p.H, 11, 6)
           op4 == Bits(p.H, 11, 8)
           w == Here(p)
           v == There(p)
<1>1. V7(w) => V7(v)
  BY PairGrows
<1>2. /\ Alike(k, CompareAndBranch(w), CompareAndBranch(v))
      /\ Alike(k, PushPop(w), PushPop(v))
      /\ Alike(k, ChangeProcessorState(w), ChangeProcessorState(v))
      /\ Alike(k, IfThenAndHints(w), IfThenAndHints(v))
  BY PushAlike, BranchesAlike, ItAlike
<1>3. CASE ~(op4 \in {1, 3, 9, 11} /\ V7(v) /\ ~V7(w))
  BY <1>1, <1>2, <1>3, AlikeItself, AlikeRefused DEF Here, There, Miscellaneous
<1>4. CASE op4 \in {1, 3, 9, 11} /\ V7(v) /\ ~V7(w)
  <2>1. /\ op5 \notin {0, 1} /\ op6 \notin (8 .. 11) \union {40, 41, 43}
        /\ Bits(p.H, 10, 9) # 2 /\ Bits(p.H, 11, 5) # 51 /\ op4 \notin {14, 15}
    BY <1>4, PairInt DEF Bits
  <2>2. Miscellaneous(w) = Refuse("UNKNOWN_INSTRUCTION")
    BY <1>4, <2>1 DEF Here, Miscellaneous
  <2> QED BY <2>2, AlikeRefused
<1> QED BY <1>3, <1>4

(* Members that are the same but for one of them.                          *)
EqualBut(f, g, member) ==
  DOMAIN f = DOMAIN g /\ \A x \in DOMAIN f \ {member} : f[x] = g[x]

(* Instructions of such members are the same but for it.                   *)
LEMMA InsEqualBut ==
  ASSUME NEW member \in {"S", "imm"}, NEW name, NEW ot, NEW f, NEW g, EqualBut(f, g, member)
  PROVE  [Ins(name, ot, f) EXCEPT ![member] = 0] = [Ins(name, ot, g) EXCEPT ![member] = 0]
<1> DEFINE i == Updated(Blank, f)
           j == Updated(Blank, g)
           last == [name |-> name, ot |-> ot]
<1>1. /\ DOMAIN i = DOMAIN Blank /\ DOMAIN j = DOMAIN Blank
      /\ \A x \in DOMAIN Blank \ {member} : i[x] = j[x]
  BY DEF Updated, EqualBut
<1> HIDE DEF i, j, last
<1> DEFINE ii == Updated(i, last)
           jj == Updated(j, last)
<1>2. /\ ii = [x \in DOMAIN Blank |-> ii[x]] /\ jj = [x \in DOMAIN Blank |-> jj[x]]
      /\ \A x \in DOMAIN Blank \ {member} : ii[x] = jj[x]
  BY <1>1 DEF Updated
<1> HIDE DEF ii, jj
<1>3. [ii EXCEPT ![member] = 0] = [jj EXCEPT ![member] = 0]
  BY <1>2
<1>4. ii = Ins(name, ot, f) /\ jj = Ins(name, ot, g)
  BY DEF ii, jj, Ins, i, j, last
<1> QED BY <1>3, <1>4

(* Further members change nothing.                                         *)
LEMMA EqualButJoined ==
  ASSUME NEW f, NEW g, NEW h, NEW member, EqualBut(f, g, member)
  PROVE  EqualBut(f ++ h, g ++ h, member) /\ EqualBut(h ++ f, h ++ g, member)
BY DEF EqualBut, ++

(* The encodings that set flags outside a block only.                      *)
LEMMA FlagsAlike ==
  ASSUME NEW k, NEW p, Pair(k, p)
  PROVE  /\ Alike(k, ShiftAddSub(Here(p)), ShiftAddSub(There(p)))
         /\ Alike(k, MovCmpAddSub(Here(p)), MovCmpAddSub(There(p)))
         /\ Alike(k, DataProcessing(Here(p)), DataProcessing(There(p)))
<1> DEFINE w == Here(p)
           v == There(p)
<1>1. CASE (~InIT(w)) = ~InIT(v)
  <2>1. ShiftAddSub(w) = ShiftAddSub(v)
    BY <1>1 DEF ShiftAddSub, Here, There
  <2>2. MovCmpAddSub(w) = MovCmpAddSub(v)
    BY <1>1 DEF MovCmpAddSub, Here, There
  <2>3. DataProcessing(w) = DataProcessing(v)
    BY <1>1 DEF DataProcessing, Here, There
  <2> QED BY <2>1, <2>2, <2>3, AlikeItself
<1>2. CASE k = "end"
  <2>1. \A x, y, d, m : EqualBut([S |-> x, Rd |-> d, Rm |-> m], [S |-> y, Rd |-> d, Rm |-> m], "S")
    BY DEF EqualBut
  <2>2. \A x, y, d, n : EqualBut([S |-> x, Rd |-> d, Rn |-> n], [S |-> y, Rd |-> d, Rn |-> n], "S")
    BY DEF EqualBut
  <2>3. \A x, y, d : EqualBut([S |-> x, Rd |-> d], [S |-> y, Rd |-> d], "S")
    BY DEF EqualBut
  <2>4. \A x, y : EqualBut([S |-> x], [S |-> y], "S")
    BY DEF EqualBut
  <2>5. \A name, ot, f, g : EqualBut(f, g, "S") => Alike(k, Ins(name, ot, f), Ins(name, ot, g))
    BY <1>2, InsEqualBut DEF Alike, SameBut
  <2>6. Alike(k, ShiftAddSub(w), ShiftAddSub(v))
    BY <2>1, <2>2, <2>5, EqualButJoined DEF ShiftAddSub, Here, There
  <2>7. Alike(k, MovCmpAddSub(w), MovCmpAddSub(v))
    BY <2>2, <2>3, <2>5, EqualButJoined, AlikeItself DEF MovCmpAddSub, Here, There
  <2>8. Alike(k, DataProcessing(w), DataProcessing(v))
    BY <2>4, <2>5, EqualButJoined, AlikeItself DEF DataProcessing, Here, There
  <2> QED BY <2>6, <2>7, <2>8
<1>3. k # "end" => (~InIT(w)) = ~InIT(v)
  BY PairGrows
<1> QED BY <1>1, <1>2, <1>3

(* All encodings of one halfword.                                          *)
LEMMA Alike16 ==
  ASSUME NEW k, NEW p, Pair(k, p), InstructionSize(p.H) = 2
  PROVE  Alike(k, Decode16(Here(p)), Decode16(There(p)))
<1> DEFINE w == Here(p)
           v == There(p)
           op5 == Bits(p.H, 15, 11)
           op6 == Bits(p.H, 15, 10)
<1>1. op5 \in 0 .. 31 /\ op6 \in {2 * op5, 2 * op5 + 1} /\ op5 \notin {29, 30, 31}
  BY PairInt DEF Bits, InstructionSize
<1>2. /\ Alike(k, MovsRegister(w), MovsRegister(v))
      /\ Alike(k, ShiftAddSub(w), ShiftAddSub(v))
      /\ Alike(k, MovCmpAddSub(w), MovCmpAddSub(v))
      /\ Alike(k, DataProcessing(w), DataProcessing(v))
      /\ Alike(k, SpecialDataBranchExchange(w), SpecialDataBranchExchange(v))
      /\ Alike(k, LoadLiteral(w), LoadLiteral(v))
      /\ Alike(k, LoadStoreRegister(w), LoadStoreRegister(v))
      /\ Alike(k, LoadStoreImmediate(w), LoadStoreImmediate(v))
      /\ Alike(k, AddToPCorSP(w), AddToPCorSP(v))
      /\ Alike(k, Miscellaneous(w), Miscellaneous(v))
      /\ Alike(k, StoreLoadMultiple(w), StoreLoadMultiple(v))
      /\ Alike(k, ConditionalBranchAndSVC(w), ConditionalBranchAndSVC(v))
      /\ Alike(k, Branch(w), Branch(v))
  BY MiscellaneousAlike, SpecialAlike, SmallSame, FlagsAlike, BranchesAlike, AlikeItself
<1>3. w.H = p.H /\ v.H = p.H /\ p.H \in Int
  BY PairInt DEF Here, There
<1> HIDE DEF op5, op6, w, v
<1>4. Alike(k, Decode16(w), Decode16(v))
  BY <1>1, <1>2, <1>3 DEF Decode16, op5, op6
<1> QED BY <1>4 DEF w, v

(* Multiple, dual and exclusive transfers, table branches.                 *)
LEMMA MultipleAlike ==
  ASSUME NEW k, NEW p, Pair(k, p)
  PROVE  /\ Alike(k, LoadStoreMultipleOrNone(Here(p)), LoadStoreMultipleOrNone(There(p)))
         /\ Alike(k, ExclusiveByteOrTable(Here(p)), ExclusiveByteOrTable(There(p)))
         /\ Alike(k, DualExclusiveTable(Here(p)), DualExclusiveTable(There(p)))
<1> DEFINE w == Here(p)
           v == There(p)
<1>1. MidIT(v) => MidIT(w)
  BY PairGrows
<1>2. Bits(p.H, 8, 7) \in 0 .. 3 /\ Bits(p.H, 5, 4) \in 0 .. 3 /\ Bits(p.H, 4, 4) \in 0 .. 1
  BY PairInt, BitsType
<1>3. Alike(k, LoadStoreMultiple(w), LoadStoreMultiple(v)) \/ 2 * Bits(p.H, 8, 7) + Bits(p.H, 4, 4) \notin 2 .. 5
  BY <1>1, <1>2, AlikeItself, AlikeRefused DEF LoadStoreMultiple, Checked, Here, There, Hn
<1>4. Alike(k, LoadStoreMultipleOrNone(w), LoadStoreMultipleOrNone(v))
  BY <1>3, FromAlike, AlikeRefused DEF LoadStoreMultipleOrNone, Here, There
<1>5. LoadStoreDual(w) = LoadStoreDual(v) /\ Exclusive(w) = Exclusive(v)
  BY DEF LoadStoreDual, Exclusive, Here, There, Hn, Lt, Ld, Lm
<1>6. Alike(k, ExclusiveByteOrTable(w), ExclusiveByteOrTable(v))
  BY <1>1, FromAlike, AlikeItself, AlikeRefused DEF ExclusiveByteOrTable, Checked, Here, There, Hn, Lt, Ld, Lm
<1>7. Alike(k, DualExclusiveTable(w), DualExclusiveTable(v))
  BY <1>2, <1>5, <1>6, FromAlike, AlikeItself DEF DualExclusiveTable, Here, There
<1> QED BY <1>3, <1>4, <1>6, <1>7

(* Data processing with two halfwords; the operations of the DSP extension *)
(* are refused by every core, with different codes.                        *)
LEMMA DataAlike ==
  ASSUME NEW k, NEW p, Pair(k, p)
  PROVE  /\ Alike(k, ShiftedRegister(Here(p)), ShiftedRegister(There(p)))
         /\ Alike(k, ModifiedImmediate(Here(p)), ModifiedImmediate(There(p)))
         /\ Alike(k, PlainImmediate(Here(p)), PlainImmediate(There(p)))
<1> DEFINE w == Here(p)
           v == There(p)
<1>1. V7E(w) => V7E(v)
  BY PairGrows
<1>2. Alike(k, TestRegister(w), TestRegister(v))
  BY FromAlike, AlikeItself, AlikeRefused DEF TestRegister, Here, There, Hn, Lm
<1>3. MoveOrShift(w) = MoveOrShift(v)
  BY DEF MoveOrShift, Here, There, Ld, Lm
<1>4. MoveNot(w) = MoveNot(v)
  BY DEF MoveNot, Here, There, Ld, Lm
<1>5. ThreeRegisters(w) = ThreeRegisters(v)
  BY DEF ThreeRegisters, Here, There, Hn, Ld, Lm
<1>6. Alike(k, ShiftedRegister(w), ShiftedRegister(v))
  BY <1>1, <1>2, <1>3, <1>4, <1>5, FromAlike, AlikeItself, AlikeRefused DEF ShiftedRegister, Here, There, Hn, Ld
<1>7. TestImmediate(w) = TestImmediate(v)
  BY DEF TestImmediate, SplitImm12, Here, There, Hn
<1>8. MoveImmediate(w) = MoveImmediate(v)
  BY DEF MoveImmediate, SplitImm12, Here, There, Ld
<1>9. TwoRegistersImmediate(w) = TwoRegistersImmediate(v)
  BY DEF TwoRegistersImmediate, SplitImm12, Here, There, Hn, Ld
<1>10. Alike(k, ModifiedImmediate(w), ModifiedImmediate(v))
  BY <1>7, <1>8, <1>9, FromAlike, AlikeItself, AlikeRefused DEF ModifiedImmediate, Here, There, Hn, Ld
<1>11. AddSubWide(w) = AddSubWide(v) /\ MoveWide(w) = MoveWide(v) /\ Saturate(w) = Saturate(v)
  BY DEF AddSubWide, MoveWide, Saturate, SplitImm12, Here, There, Hn, Ld
<1>12. BitFieldExtract(w) = BitFieldExtract(v) /\ BitFieldInsert(w) = BitFieldInsert(v)
  BY DEF BitFieldExtract, BitFieldInsert, Here, There, Hn, Ld
<1>13. Alike(k, PlainImmediate(w), PlainImmediate(v))
  BY <1>1, <1>11, <1>12, FromAlike, AlikeItself, AlikeRefused DEF PlainImmediate, Here, There
<1> QED BY <1>6, <1>10, <1>13

(* MSR: what ARMv6-M takes has the mask 2 in ARMv7-M.                      *)
LEMMA MsrAlike ==
  ASSUME NEW k, NEW p, Pair(k, p)
  PROVE  Alike(k, MoveToSpecial(Here(p)), MoveToSpecial(There(p)))
<1> DEFINE w == Here(p)
           v == There(p)
<1>1. CASE V7(w) = V7(v)
  <2>1. MoveToSpecial(w) = MoveToSpecial(v)
    BY <1>1 DEF MoveToSpecial, Here, There, Hn
  <2> QED BY <2>1, AlikeItself
<1>2. CASE k = "next"
  <2>1. ~V7(w) /\ V7(v)
    BY <1>2 DEF Pair, Differing, Here, There, V7
  <2>2. Hn(w) = Hn(v)
    BY DEF Here, There, Hn
  <2>3. CASE IsOK(MoveToSpecial(w))
    <3> DEFINE imm == Bits(p.L, 7, 0)
               mask == Bits(p.L, 11, 10)
    <3>1. /\ ~IsSet(p.H, 4) /\ Bits(p.L, 13, 8) = 8 /\ Hn(w) \notin SPorPC
          /\ ~(imm = 4 \/ imm \in 10 .. 15 \/ imm > 20)
          /\ MoveToSpecial(w) = Ins("MSR", "RI", [Rn |-> Hn(w), imm |-> imm + 0])
      BY <2>1, <2>3 DEF MoveToSpecial, Here, IsOK, Refuse
    <3>2. ~IsSet(p.L, 13) /\ Bits(p.L, 9, 8) = 0 /\ mask = 2
      BY <3>1, PairInt, SMTT(30) DEF Bits, IsSet
    <3>3. MoveToSpecial(v) = Ins("MSR", "RI", [Rn |-> Hn(w), imm |-> imm + 256 * mask])
      BY <2>1, <2>2, <3>1, <3>2 DEF MoveToSpecial, There
    <3> HIDE DEF imm, mask
    <3>4. EqualBut([Rn |-> Hn(w), imm |-> imm + 0], [Rn |-> Hn(w), imm |-> imm + 256 * mask], "imm")
      BY DEF EqualBut
    <3>5. [MoveToSpecial(w) EXCEPT !["imm"] = 0] = [MoveToSpecial(v) EXCEPT !["imm"] = 0]
      BY <3>1, <3>3, <3>4, InsEqualBut
    <3>6. MoveToSpecial(w).name = "MSR" /\ IsOK(MoveToSpecial(v))
      <4>1. \A f : "code" \notin DOMAIN f => Ins("MSR", "RI", f).code = "OK"
        BY InsMember DEF Blank
      <4>2. \A f : Ins("MSR", "RI", f).name = "MSR"
        BY InsMembers
      <4> QED BY <3>1, <3>3, <4>1, <4>2 DEF IsOK
    <3> QED BY <1>2, <3>5, <3>6 DEF Alike, SameBut
  <2> QED BY <2>3 DEF Alike
<1>3. k # "next" => V7(w) = V7(v)
  BY DEF Pair, Differing, Here, There, V7
<1> QED BY <1>1, <1>2, <1>3

(* Branches and miscellaneous control.                                     *)
LEMMA ControlAlike ==
  ASSUME NEW k, NEW p, Pair(k, p)
  PROVE  Alike(k, BranchesAndControl(Here(p)), BranchesAndControl(There(p)))
<1> DEFINE w == Here(p)
           v == There(p)
<1>1. (MidIT(v) => MidIT(w)) /\ (InIT(v) => InIT(w))
  BY PairGrows
<1>2. Alike(k, ConditionalBranchWide(w), ConditionalBranchWide(v))
  BY <1>1, AlikeItself, AlikeRefused DEF ConditionalBranchWide, BranchOffset, Checked, Here, There
<1>3. \A name : Alike(k, BranchWide(w, name), BranchWide(v, name))
  BY <1>1, AlikeItself, AlikeRefused DEF BranchWide, BranchOffset, Checked, Here, There
<1>4. Alike(k, HintsWide(w), HintsWide(v))
  <2> DEFINE hint == Bits(p.L, 7, 0)
             name == CASE hint < 5 -> <<"NOP", "YIELD", "WFE", "WFI", "SEV">>[hint + 1]
                       [] hint = 20 -> "CSDB"
                       [] hint >= 240 -> "DBG"
                       [] OTHER -> "none"
             i == Checked(p.H % 16 # 15 \/ IsSet(p.L, 13) \/ IsSet(p.L, 11), FALSE, Ins(name, "NONE", <<>>))
             hints(c) == CASE Bits(p.L, 10, 8) # 0 -> Refuse("UNDEFINED")
                           [] Bits(p.L, 10, 8) = 0 /\ name = "none" -> Refuse("UNKNOWN_INSTRUCTION")
                           [] OTHER -> From7(c, i)
  <2>1. HintsWide(w) = hints(w) /\ HintsWide(v) = hints(v)
    BY DEF HintsWide, Here, There, Hn
  <2> HIDE DEF w, v, name, i
  <2>2. Alike(k, From7(w, i), From7(v, i))
    BY FromAlike, AlikeItself DEF w, v
  <2>3. Bits(p.L, 10, 8) \in Int
    BY PairInt DEF Bits
  <2>4. Alike(k, hints(w), hints(v))
    BY <2>2, <2>3, AlikeRefused
  <2> QED BY <2>1, <2>4 DEF w, v
<1>5. Alike(k, Barriers(w), Barriers(v))
  <2> DEFINE op == Bits(p.L, 7, 4)
             option == p.L % 16
             name == CASE op = 2 -> "CLREX"
                       [] op = 4 -> (CASE option = 0 -> "SSBB" [] option = 4 -> "PSSBB" [] OTHER -> "DSB")
                       [] op = 5 -> "DMB"
                       [] op = 6 -> "ISB"
                       [] OTHER -> "none"
             i == Checked(p.H % 16 # 15 \/ IsSet(p.L, 13) \/ (p.L \div 256) % 16 # 15
                            \/ (op = 2 /\ option # 15), FALSE, Ins(name, "NONE", <<>>))
             barriers(c) == CASE name = "none" -> Refuse("UNKNOWN_INSTRUCTION")
                              [] name \in {"DSB", "DMB", "ISB"} -> i
                              [] OTHER -> From7(c, i)
  <2>1. Barriers(w) = barriers(w) /\ Barriers(v) = barriers(v)
    BY DEF Barriers, Here, There, Hn, Ld, Lm
  <2> HIDE DEF w, v, name, i
  <2>2. Alike(k, From7(w, i), From7(v, i))
    BY FromAlike, AlikeItself DEF w, v
  <2>3. Alike(k, barriers(w), barriers(v))
    BY <2>2, AlikeItself, AlikeRefused
  <2> QED BY <2>1, <2>3 DEF w, v
<1>6. MoveFromSpecial(w) = MoveFromSpecial(v)
  BY DEF MoveFromSpecial, Here, There, Ld
<1>7. Alike(k, MiscellaneousControl(w), MiscellaneousControl(v))
  BY <1>2, <1>4, <1>5, <1>6, MsrAlike, FromAlike, AlikeItself, AlikeRefused DEF MiscellaneousControl, Here, There
<1> QED BY <1>3, <1>7, FromAlike, AlikeRefused DEF BranchesAndControl, Here, There

(* Loads and stores of one register, and memory hints.                     *)
LEMMA MemoryAlike ==
  ASSUME NEW k, NEW p, Pair(k, p)
  PROVE  Alike(k, LoadStoreSingle(Here(p)), LoadStoreSingle(There(p)))
<1> DEFINE w == Here(p)
           v == There(p)
<1>0. \A i : Alike(k, From7(w, i), From7(v, i))
  BY FromAlike, AlikeItself
<1>1. MidIT(v) => MidIT(w)
  BY PairGrows
<1>2. \A size : StoreImmediate(w, size) = StoreImmediate(v, size)
  BY DEF StoreImmediate, CheckedIndex, Indexed, Imm12, Here, There, Hn, Lt
<1>3. \A size : StoreRegister(w, size) = StoreRegister(v, size)
  BY DEF StoreRegister, ByRegister, Here, There, Hn, Lt, Lm
<1>4. Alike(k, StoreSingle(w), StoreSingle(v))
  BY <1>2, <1>3, FromAlike, AlikeItself, AlikeRefused DEF StoreSingle, Here, There
<1>5. \A name, badT : Literal(w, name, badT) = Literal(v, name, badT)
  BY DEF Literal, Imm12, Here, There, Lt
<1>6. \A name, badT : ByImmediate(w, name, badT) = ByImmediate(v, name, badT)
  BY DEF ByImmediate, CheckedIndex, Indexed, Imm12, Here, There, Hn, Lt
<1>7. \A name : Unindexed(w, name) = Unindexed(v, name)
  BY DEF Unindexed, Here, There, Hn, Lt
<1>8. \A names : LoadPart(w, names) = LoadPart(v, names)
  BY DEF LoadPart, Literal, ByImmediate, CheckedIndex, Indexed, Imm12, Unindexed, IndexedForm,
         Unprivileged, RegisterForm, ByRegister, Here, There, Hn, Lt, Lm
<1>9. \A i : Alike(k, Known7(w, i), Known7(v, i))
  BY FromAlike, AlikeItself DEF Known7
<1>10. Alike(k, Preload(w), Preload(v))
  <2> DEFINE pli == IsSet(p.H, 8)
             name == IF pli THEN "PLI" ELSE "PLD"
             add == [add |-> IsSet(p.H, 7)]
             n == [Rn |-> p.H % 16]
             literal == Ins(name, "I", [imm |-> p.L % 4096] ++ add)
             long == Ins(name, "RI", [imm |-> p.L % 4096] ++ n ++ add)
             short == Ins(name, "RI", [imm |-> Bits(p.L, 7, 0)] ++ n)
             register == Checked(FALSE, p.L % 16 \in SPorPC, Ins(name, "RR", ByRegister(w) ++ n))
             based == p.H % 16 # PC
             hint(c) ==
               CASE ~based /\ ~pli -> From7(c, literal)
                 [] (~based /\ pli) \/ (based /\ IsSet(p.H, 7)) -> From7(c, long)
                 [] based /\ ~IsSet(p.H, 7) /\ Bits(p.L, 11, 8) = 12 -> From7(c, short)
                 [] based /\ ~IsSet(p.H, 7) /\ RegisterForm(w) -> From7(c, register)
                 [] based /\ ~IsSet(p.H, 7) /\ BadHint(w) -> Refuse("UNPREDICTABLE")
                 [] OTHER -> Refuse("UNKNOWN_INSTRUCTION")
  <2>1. Preload(w) = hint(w)
    BY DEF Preload, Imm12, Here, Hn, Lm
  <2>2. ByRegister(v) = ByRegister(w)
    BY DEF ByRegister, Here, There, Lm
  <2>3. Preload(v) = hint(v)
    BY <2>2 DEF Preload, Imm12, RegisterForm, BadHint, Here, There, Hn, Lm
  <2> HIDE DEF w, v, literal, long, short, register
  <2>4. Alike(k, hint(w), hint(v))
    BY <1>0, AlikeRefused
  <2> QED BY <2>1, <2>3, <2>4
<1>11. Alike(k, HalfwordHint(w), HalfwordHint(v))
  BY <1>0, AlikeRefused DEF HalfwordHint, RegisterForm, BadHint, Here, There, Hn
<1>12. Alike(k, LoadByte(w), LoadByte(v))
  BY <1>8, <1>9, <1>10 DEF LoadByte, Here, There, Lt
<1>13. Alike(k, LoadHalfword(w), LoadHalfword(v))
  BY <1>8, <1>9, <1>11 DEF LoadHalfword, Here, There, Lt
<1>14. Alike(k, LoadWord(w), LoadWord(v))
  <2> DEFINE t == p.L \div 4096
             n == p.H % 16
             other == ~IsSet(p.H, 8) /\ n # PC
             long == IsSet(p.H, 7)
             literal == Literal(w, "LDR", FALSE)
             immediate == ByImmediate(w, "LDR", t = SP)
             unprivileged == Unindexed(w, "LDRT")
             register == Checked(FALSE, p.L % 16 \in SPorPC,
                                 Ins("LDR", "RRR", [Rd |-> t, Rn |-> n] ++ ByRegister(w)))
             word(c) ==
               CASE IsSet(p.H, 8) -> Refuse("UNKNOWN_INSTRUCTION")
                 [] ~IsSet(p.H, 8) /\ n = PC -> From7(c, literal)
                 [] other /\ (long \/ IndexedForm(w)) -> From7(c, immediate)
                 [] other /\ ~long /\ Unprivileged(w) -> From7(c, unprivileged)
                 [] other /\ ~long /\ RegisterForm(w) -> From7(c, register)
                 [] OTHER -> Refuse("UNKNOWN_INSTRUCTION")
  <2>1. CASE t = PC /\ MidIT(w)
    <3>1. LoadWord(w).code # "OK"
      BY <2>1 DEF LoadWord, Literal, ByImmediate, Unindexed, CheckedIndex, Checked, From7, Refuse,
                  Here, Hn, Lt, SPorPC
    <3> QED BY <3>1 DEF Alike, IsOK
  <2>2. CASE ~(t = PC /\ MidIT(w))
    <3>1. ~(t = PC /\ MidIT(v))
      BY <1>1, <2>2
    <3>2. LoadWord(w) = word(w)
      BY <2>2 DEF LoadWord, Literal, ByImmediate, CheckedIndex, Checked, Here, Hn, Lt, Lm
    <3>3. LoadWord(v) = word(v)
      BY <3>1 DEF LoadWord, Literal, ByImmediate, CheckedIndex, Checked, Indexed, Imm12, Unindexed,
                  IndexedForm, Unprivileged, RegisterForm, ByRegister, Here, There, Hn, Lt, Lm
    <3> HIDE DEF w, v, literal, immediate, unprivileged, register
    <3>4. Alike(k, word(w), word(v))
      BY <1>0, AlikeRefused
    <3> QED BY <3>2, <3>3, <3>4
  <2> QED BY <2>1, <2>2
<1> QED BY <1>4, <1>12, <1>13, <1>14, AlikeRefused DEF LoadStoreSingle, Here, There

(* Register operations, multiplications and divisions.                     *)
LEMMA RegisterAlike ==
  ASSUME NEW k, NEW p, Pair(k, p)
  PROVE  Alike(k, RegisterOperations(Here(p)), RegisterOperations(There(p)))
<1> DEFINE w == Here(p)
           v == There(p)
<1>0. \A i : Alike(k, From7(w, i), From7(v, i))
  BY FromAlike, AlikeItself
<1>1. V7E(w) => V7E(v)
  BY PairGrows
<1>2. Alike(k, DataProcessingRegister(w), DataProcessingRegister(v))
  <2>1. Alike(k, ShiftByRegister(w), ShiftByRegister(v))
    BY <1>0 DEF ShiftByRegister, Checked, Here, There, Hn, Ld, Lm
  <2>2. Alike(k, ParallelArithmetic(w), ParallelArithmetic(v))
    BY AlikeRefused DEF ParallelArithmetic, Here, There
  <2>3. Alike(k, ReverseOrCount(w), ReverseOrCount(v))
    BY <1>0, AlikeRefused DEF ReverseOrCount, Checked, Here, There, Hn, Ld, Lm
  <2>4. Alike(k, Extend(w), Extend(v))
    BY <1>0, AlikeRefused DEF Extend, Checked, Here, There, Hn, Ld, Lm
  <2> QED BY <2>1, <2>2, <2>3, <2>4, AlikeRefused DEF DataProcessingRegister, Here, There
<1>3. Alike(k, Multiply(w), Multiply(v))
  BY <1>0, AlikeRefused DEF Multiply, Checked, Here, There, Hn, Lt, Ld, Lm
<1>4. Alike(k, MultiplyLongOrDivide(w), MultiplyLongOrDivide(v))
  BY <1>0, AlikeRefused DEF MultiplyLongOrDivide, Checked, Here, There, Hn, Lt, Ld, Lm
<1> QED BY <1>2, <1>3, <1>4 DEF RegisterOperations, Here, There

(* All instructions.                                                       *)
LEMMA DecodeAlike ==
  ASSUME NEW k, NEW p, Pair(k, p)
  PROVE  Alike(k, Decode(Here(p)), Decode(There(p)))
<1> DEFINE w == Here(p)
           v == There(p)
<1>1. CASE InstructionSize(p.H) = 2
  <2>1. Alike(k, Decode16(w), Decode16(v))
    BY <1>1, Alike16
  <2> QED BY <1>1, <2>1 DEF Decode, Here, There
<1>2. CASE InstructionSize(p.H) # 2
  <2> DEFINE op1 == Bits(p.H, 12, 11)
             op2 == Bits(p.H, 10, 9)
  <2>1. op1 \in 1 .. 3 /\ op2 \in 0 .. 3
    <3>1. Bits(p.H, 15, 11) \in {29, 30, 31}
      BY <1>2 DEF InstructionSize
    <3>2. op1 = Bits(p.H, 15, 11) % 4 /\ op2 \in 0 .. 3
      BY PairInt DEF Bits
    <3> QED BY <3>1, <3>2
  <2>2. Alike(k, Coprocessor(w), Coprocessor(v))
    BY AlikeRefused, FromAlike, AlikeItself DEF Coprocessor, Here, There
  <2>4. /\ Alike(k, LoadStoreMultipleOrNone(w), LoadStoreMultipleOrNone(v))
        /\ Alike(k, DualExclusiveTable(w), DualExclusiveTable(v))
        /\ Alike(k, ShiftedRegister(w), ShiftedRegister(v))
        /\ Alike(k, ModifiedImmediate(w), ModifiedImmediate(v))
        /\ Alike(k, PlainImmediate(w), PlainImmediate(v))
        /\ Alike(k, BranchesAndControl(w), BranchesAndControl(v))
        /\ Alike(k, LoadStoreSingle(w), LoadStoreSingle(v))
        /\ Alike(k, RegisterOperations(w), RegisterOperations(v))
    BY MultipleAlike, DataAlike, ControlAlike, MemoryAlike, RegisterAlike
  <2> HIDE DEF op1, op2
  <2>5. w.H = p.H /\ v.H = p.H /\ w.L = p.L /\ v.L = p.L
    BY DEF Here, There
  <2> HIDE DEF w, v
  <2>6. Alike(k, Decode32(w), Decode32(v))
    BY <2>1, <2>2, <2>4, <2>5 DEF Decode32, op1, op2
  <2> QED BY <1>2, <2>5, <2>6 DEF Decode, w, v
<1> QED BY <1>1, <1>2

(* What an instruction word means does not depend on the core, nor on the   *)
(* place in an IT block: for any program, any state of the emulator and any *)
(* fault in them, a larger core and the last place of a block decode to the *)
(* same instruction, but for the mask of MSR and the flags that are set.    *)
THEOREM WordsDecodeAlike == Spec => []DecodedAlike
<1>1. BlockInv => DecodedAlike
  <2> DEFINE f == Fetched(emu)
             decoded == [arch \in Arch |-> [it \in ItPosition |-> Decode([f EXCEPT !.arch = arch, !.it = it])]]
             word(arch, it) == [arch |-> arch, it |-> it, H |-> f.H, L |-> f.L]
             pair(arch, it, arch2, it2) ==
               [arch |-> arch, it |-> it, arch2 |-> arch2, it2 |-> it2, H |-> f.H, L |-> f.L]
  <2> SUFFICES ASSUME BlockInv, emu.code = "OK", ValidateAddress(emu, emu.reg[PC]) = "OK"
               PROVE  CoresAlike(decoded) /\ PlacesAlike(decoded)
    BY Zenon DEF DecodedAlike
  <2>1. f.H \in Halfword /\ f.L \in Halfword
    BY FetchedHalfwords DEF BlockInv, FaultInv
  <2>2. ASSUME NEW arch \in Arch, NEW it \in ItPosition
        PROVE  decoded[arch][it] = Decode(word(arch, it))
    <3> DEFINE g == [f EXCEPT !.arch = arch]
               h == [g EXCEPT !.it = it]
    <3>1. DOMAIN f = {"arch", "it", "H", "L"} /\ f = [x \in DOMAIN f |-> f[x]]
      BY DEF Fetched
    <3> HIDE DEF f
    <3>2. DOMAIN g = DOMAIN f /\ g["arch"] = arch /\ g["H"] = f["H"] /\ g["L"] = f["L"]
      BY <3>1
    <3> HIDE DEF g
    <3>3. /\ DOMAIN h = DOMAIN f /\ h["arch"] = arch /\ h["H"] = f["H"] /\ h["L"] = f["L"]
          /\ h["it"] = it /\ h = [x \in DOMAIN h |-> h[x]]
      BY <3>1, <3>2
    <3> HIDE DEF h
    <3>4. h = word(arch, it)
      BY <3>1, <3>3
    <3>5. decoded[arch][it] = Decode(h)
      BY DEF g, h
    <3> QED BY <3>4, <3>5
  <2> HIDE DEF f, decoded
  <2>4. ASSUME NEW k, NEW arch, NEW it, NEW arch2, NEW it2, Differing(k, pair(arch, it, arch2, it2))
        PROVE  Alike(k, Decode(word(arch, it)), Decode(word(arch2, it2)))
    <3> DEFINE p == pair(arch, it, arch2, it2)
    <3>1. Pair(k, p)
      BY <2>1, <2>4 DEF Pair
    <3>2. Here(p) = word(arch, it) /\ There(p) = word(arch2, it2)
      BY DEF Here, There
    <3> HIDE DEF p
    <3> QED BY <3>1, <3>2, DecodeAlike
  <2>5. CoresAlike(decoded)
    <3> SUFFICES ASSUME NEW it \in ItPosition
                 PROVE  /\ Alike("next", decoded["ARMv6M"][it], decoded["ARMv7M"][it])
                        /\ Alike("larger", decoded["ARMv7M"][it], decoded["ARMv7EM"][it])
      BY DEF CoresAlike, Alike
    <3>1. /\ Differing("next", pair("ARMv6M", it, "ARMv7M", it))
          /\ Differing("larger", pair("ARMv7M", it, "ARMv7EM", it))
      BY DEF Differing
    <3> HIDE DEF word, pair
    <3>2. Alike("next", Decode(word("ARMv6M", it)), Decode(word("ARMv7M", it)))
      BY <2>4, <3>1
    <3>3. Alike("larger", Decode(word("ARMv7M", it)), Decode(word("ARMv7EM", it)))
      BY <2>4, <3>1
    <3> QED BY <2>2, <3>2, <3>3 DEF Arch
  <2>6. PlacesAlike(decoded)
    <3> SUFFICES ASSUME NEW arch \in Arch
                 PROVE  /\ Alike("larger", decoded[arch]["inside"], decoded[arch]["last"])
                        /\ Alike("end", decoded[arch]["last"], decoded[arch]["outside"])
      BY DEF PlacesAlike, Alike
    <3>1. /\ Differing("larger", pair(arch, "inside", arch, "last"))
          /\ Differing("end", pair(arch, "last", arch, "outside"))
      BY DEF Differing
    <3> HIDE DEF word, pair
    <3>2. Alike("larger", Decode(word(arch, "inside")), Decode(word(arch, "last")))
      BY <2>4, <3>1
    <3>3. Alike("end", Decode(word(arch, "last")), Decode(word(arch, "outside")))
      BY <2>4, <3>1
    <3> QED BY <2>2, <3>2, <3>3 DEF ItPosition
  <2> QED BY <2>5, <2>6
<1> QED BY <1>1, BlockInit, BlockStep, PTL DEF Spec

-----------------------------------------------------------------------------
(* Words: the powers of two, and the sums that bits and bytes are put       *)
(* together by.                                                             *)

(* A power of two counts subsets, and an element more doubles them.         *)
LEMMA PowerPositive == \A n \in Nat : 2^n \in Nat /\ 2^n > 0
<1> SUFFICES ASSUME NEW n \in Nat PROVE 2^n \in Nat /\ 2^n > 0
  OBVIOUS
<1>1. IsFiniteSet(1 .. n) /\ Cardinality(1 .. n) = n
  BY FS_Interval
<1>2. IsFiniteSet(SUBSET (1 .. n)) /\ Cardinality(SUBSET (1 .. n)) = 2^n
  BY <1>1, FS_SUBSET
<1>3. SUBSET (1 .. n) # {}
  OBVIOUS
<1>4. Cardinality(SUBSET (1 .. n)) \in Nat /\ Cardinality(SUBSET (1 .. n)) # 0
  BY <1>2, <1>3, FS_CardinalityType, FS_EmptySet
<1> QED BY <1>2, <1>4

LEMMA PowerDoubles == \A n \in Nat : 2^(n + 1) = 2 * 2^n
<1> SUFFICES ASSUME NEW n \in Nat PROVE 2^(n + 1) = 2 * 2^n
  OBVIOUS
<1> DEFINE S == 1 .. n
           T == 1 .. n + 1
           e == n + 1
           A == SUBSET S
           B == SUBSET T
           Larger == {s \union {e} : s \in A}
<1>1. IsFiniteSet(S) /\ Cardinality(S) = n /\ IsFiniteSet(T) /\ Cardinality(T) = n + 1
  BY FS_Interval
<1>2. /\ IsFiniteSet(A) /\ Cardinality(A) = 2^n
      /\ IsFiniteSet(B) /\ Cardinality(B) = 2^(n + 1)
  BY <1>1, FS_SUBSET
<1>3. T = S \union {e} /\ e \notin S
  OBVIOUS
<1> HIDE DEF S, T, e
<1>4. \A s \in A : e \notin s /\ s \in B /\ s \union {e} \in B
  BY <1>3
<1>5. \A t \in B : t \in A \/ (t \ {e} \in A /\ t = (t \ {e}) \union {e})
  BY <1>3
<1> HIDE DEF A, B
<1>6. IsFiniteSet(Larger) /\ Cardinality(Larger) = 2^n
  <2> DEFINE f == [s \in A |-> s \union {e}]
  <2>1. f \in [A -> Larger]
    OBVIOUS
  <2>2. ASSUME NEW s \in A, NEW t \in A, f[s] = f[t] PROVE s = t
    <3>1. s \union {e} = t \union {e}
      BY <2>2
    <3>2. e \notin s /\ e \notin t
      BY <1>4
    <3>3. \A x \in s : x \in t \union {e} /\ x # e
      BY <3>1, <3>2
    <3>4. \A x \in t : x \in s \union {e} /\ x # e
      BY <3>1, <3>2
    <3> QED BY <3>3, <3>4
  <2>3. \A x \in Larger : \E s \in A : f[s] = x
    OBVIOUS
  <2> HIDE DEF f, Larger
  <2>4. f \in Bijection(A, Larger)
    BY <2>1, <2>2, <2>3 DEF Bijection, Injection, Surjection, IsInjective
  <2>5. ExistsBijection(A, Larger)
    BY <2>4 DEF ExistsBijection
  <2> QED BY <1>2, <2>5, FS_Bijection
<1>7. (\A t \in B : t \in A \/ t \in Larger) /\ (\A t \in Larger : t \in B /\ e \in t)
  <2>1. \A t \in B : t \ {e} \in A /\ t = (t \ {e}) \union {e} => t \in Larger
    BY Zenon
  <2>2. \A t \in Larger : t \in B /\ e \in t
    BY <1>4
  <2> QED BY Zenon, <1>5, <2>1, <2>2
<1> HIDE DEF Larger
<1>8. B = A \union Larger /\ A \cap Larger = {}
  BY <1>4, <1>7
<1>9. Cardinality(B) = Cardinality(A) + Cardinality(Larger) - Cardinality({})
  BY <1>2, <1>6, <1>8, FS_Union
<1>10. Cardinality({}) = 0 /\ 2^n \in Nat
  BY FS_EmptySet, PowerPositive
<1> QED BY <1>2, <1>6, <1>9, <1>10

LEMMA PowerSum == \A a, b \in Nat : 2^(a + b) = 2^a * 2^b
<1> SUFFICES ASSUME NEW a \in Nat PROVE \A b \in Nat : 2^(a + b) = 2^a * 2^b
  OBVIOUS
<1> DEFINE S == {b \in Nat : 2^(a + b) = 2^a * 2^b}
<1>1. 0 \in S
  <2>1. 2^0 = 1 /\ a + 0 = a /\ 2^a \in Nat
    BY PowerPositive
  <2> QED BY <2>1
<1>2. ASSUME NEW b \in S PROVE b + 1 \in S
  <2>1. b \in Nat /\ 2^(a + b) = 2^a * 2^b /\ (a + b) + 1 = a + (b + 1)
    BY <1>2
  <2>2. 2^((a + b) + 1) = 2 * 2^(a + b) /\ 2^(b + 1) = 2 * 2^b
    BY <2>1, PowerDoubles
  <2>3. 2^a \in Nat /\ 2^b \in Nat
    BY <2>1, PowerPositive
  <2>4. \A x, y \in Nat : 2 * (x * y) = x * (2 * y)
    OBVIOUS
  <2> QED BY <2>1, <2>2, <2>3, <2>4
<1> HIDE DEF S
<1>3. S = Nat
  <2>1. S \subseteq Nat
    BY DEF S
  <2> QED BY <1>1, <1>2, <2>1, NatInduct
<1> QED BY <1>3 DEF S

(* A word has at least four bits: half of the words have no sign.           *)
Half == 2^(Width - 1)

LEMMA WidthType == Width \in Nat /\ Width >= 4 /\ Width - 1 \in Nat /\ 2 * ByteWidth \in Nat
BY ByteWidthAssumption DEF Width

LEMMA WordHalves ==
  /\ Half \in Nat /\ Half >= 8 /\ 2^Width \in Nat /\ 2^Width = 2 * Half
  /\ Half % 4 = 0
<1>1. Width - 1 \in Nat /\ (Width - 1) + 1 = Width /\ Width - 4 \in Nat /\ 3 + (Width - 4) = Width - 1
  BY WidthType
<1>2. 2^Width = 2 * 2^(Width - 1)
  BY <1>1, PowerDoubles
<1>3. 2^(Width - 1) = 2^3 * 2^(Width - 4)
  BY <1>1, PowerSum
<1>4. 2^3 = 8 /\ 2^(Width - 4) \in Nat /\ 2^(Width - 4) > 0
  BY <1>1, PowerPositive
<1> QED BY <1>2, <1>3, <1>4 DEF Half

(* The values of a register.                                                *)
Word == 0 .. 2^Width - 1

(* A number of at most two words, wrapped.                                  *)
LEMMA Wrapped ==
  \A m \in Nat \ {0} : \A z \in Int :
    /\ z % m \in 0 .. m - 1
    /\ 0 <= z /\ z < m => z % m = z
    /\ m <= z /\ z < 2 * m => z % m = z - m
    /\ -m <= z /\ z < 0 => z % m = z + m
OBVIOUS

(* Words.                                                                   *)
LEMMA WordWrap == \A z \in Int : Wrap(z) \in Word
<1> DEFINE m == 2^Width
<1>1. m \in Nat \ {0}
  BY WordHalves
<1> HIDE DEF m
<1>2. \A z \in Int : z % m \in 0 .. m - 1
  BY <1>1, Wrapped
<1> QED BY <1>2 DEF Wrap, Word, m

(* The sign of a word.                                                      *)
LEMMA SignBit == \A x \in Word : Bit(x, Width - 1) = IF x < Half THEN 0 ELSE 1
<1> SUFFICES ASSUME NEW x \in Word PROVE Bit(x, Width - 1) = IF x < Half THEN 0 ELSE 1
  OBVIOUS
<1>1. x \in Nat /\ x < 2 * Half /\ Half \in Nat /\ Half > 0
  BY WordHalves DEF Word
<1>2. x < Half => x \div Half = 0
  BY <1>1
<1>3. x >= Half => x \div Half = 1
  BY <1>1
<1> QED BY <1>1, <1>2, <1>3 DEF Bit, Half

(* The flags that a subtraction leaves.                                     *)
LEMMA Subtraction ==
  ASSUME NEW x \in Word, NEW y \in Word, NEW c \in {0, 1}
  PROVE  LET s == AddWithCarry(x, Not(y), c)
             d == x - y - 1 + c
             t == Signed(x) - Signed(y) - 1 + c
         IN  /\ s.carry = IF d >= 0 THEN 1 ELSE 0
             /\ s.result = IF d >= 0 THEN d ELSE d + 2^Width
             /\ s.result \in Word
             /\ s.overflow <=> t # Signed(s.result)
             /\ t >= 0 <=> ((Bit(s.result, Width - 1) = 1) <=> s.overflow)
<1> DEFINE m == 2^Width
           s == AddWithCarry(x, Not(y), c)
           d == x - y - 1 + c
           t == Signed(x) - Signed(y) - 1 + c
           z == x + Not(y) + c
           signed(v) == IF v < Half THEN v ELSE v - m
<1>1. m \in Nat \ {0} /\ m = 2 * Half /\ Half \in Nat /\ Half > 0
  BY WordHalves
<1>2. \A v : Signed(v) = signed(v)
  BY DEF Signed, Half
<1>3. Not(y) = m - 1 - y
  BY DEF Not
<1>4. x \in Int /\ 0 <= x /\ x < m /\ y \in Int /\ 0 <= y /\ y < m /\ c \in Int /\ 0 <= c /\ c <= 1
  BY <1>1 DEF Word
<1>5. s.result = z % m /\ (s.carry = IF z < m THEN 0 ELSE 1)
      /\ (s.overflow <=> Signed(z % m) # Signed(x) + Signed(Not(y)) + c)
  BY DEF AddWithCarry, Wrap
<1> HIDE DEF m, s
<1>6. z = d + m /\ z \in Int /\ 0 <= z /\ z < 2 * m
  BY <1>1, <1>3, <1>4
<1>7. z % m = IF d >= 0 THEN d ELSE d + m
  <2>1. z < m => z % m = z
    BY <1>1, <1>6, Wrapped
  <2>2. z >= m => z % m = z - m
    BY <1>1, <1>6, Wrapped
  <2> QED BY <1>1, <1>4, <1>6, <2>1, <2>2
<1>8. s.carry = IF d >= 0 THEN 1 ELSE 0
  BY <1>1, <1>4, <1>5, <1>6
<1>9. s.result = (IF d >= 0 THEN d ELSE d + m) /\ s.result \in Word
  BY <1>1, <1>4, <1>5, <1>7 DEF Word, m
<1>10. signed(Not(y)) = -1 - signed(y)
  BY <1>1, <1>3, <1>4
<1>11. s.overflow <=> t # Signed(s.result)
  BY <1>1, <1>2, <1>4, <1>5, <1>10
<1>12. Bit(s.result, Width - 1) = IF s.result < Half THEN 0 ELSE 1
  BY <1>9, SignBit
<1>13. t >= 0 <=> ((s.result >= Half) <=> t # signed(s.result))
  BY <1>1, <1>2, <1>4, <1>9
<1>14. t >= 0 <=> ((Bit(s.result, Width - 1) = 1) <=> s.overflow)
  <2>1. s.result >= Half <=> Bit(s.result, Width - 1) = 1
    BY <1>1, <1>9, <1>12 DEF Word
  <2> QED BY <1>2, <1>11, <1>13, <2>1
<1> QED BY <1>8, <1>9, <1>11, <1>14 DEF s, m

(* The flags of a comparison, as psr has them.                              *)
FlagsOf(psr, s) ==
  /\ psr.N = Bit(s.result, Width - 1)
  /\ psr.Z = (IF s.result = 0 THEN 1 ELSE 0)
  /\ psr.C = s.carry
  /\ psr.V = (IF s.overflow THEN 1 ELSE 0)

(* The conditions, one by one.                                              *)
LEMMA Conditions ==
  ASSUME NEW psr
  PROVE  /\ ConditionHolds(0, psr) <=> psr.Z = 1
         /\ ConditionHolds(1, psr) <=> psr.Z # 1
         /\ ConditionHolds(2, psr) <=> psr.C = 1
         /\ ConditionHolds(3, psr) <=> psr.C # 1
         /\ ConditionHolds(4, psr) <=> psr.N = 1
         /\ ConditionHolds(5, psr) <=> psr.N # 1
         /\ ConditionHolds(6, psr) <=> psr.V = 1
         /\ ConditionHolds(7, psr) <=> psr.V # 1
         /\ ConditionHolds(8, psr) <=> psr.C = 1 /\ psr.Z = 0
         /\ ConditionHolds(9, psr) <=> ~(psr.C = 1 /\ psr.Z = 0)
         /\ ConditionHolds(10, psr) <=> psr.N = psr.V
         /\ ConditionHolds(11, psr) <=> psr.N # psr.V
         /\ ConditionHolds(12, psr) <=> psr.N = psr.V /\ psr.Z = 0
         /\ ConditionHolds(13, psr) <=> ~(psr.N = psr.V /\ psr.Z = 0)
<1> DEFINE holds(k) == <<psr.Z = 1, psr.C = 1, psr.N = 1, psr.V = 1, psr.C = 1 /\ psr.Z = 0,
                         psr.N = psr.V, psr.N = psr.V /\ psr.Z = 0, TRUE>>[k]
<1>1. /\ holds(1) = (psr.Z = 1) /\ holds(2) = (psr.C = 1) /\ holds(3) = (psr.N = 1)
      /\ holds(4) = (psr.V = 1) /\ holds(5) = (psr.C = 1 /\ psr.Z = 0)
      /\ holds(6) = (psr.N = psr.V) /\ holds(7) = (psr.N = psr.V /\ psr.Z = 0)
  OBVIOUS
<1>2. \A condition : ConditionHolds(condition, psr) <=> (holds(condition \div 2 + 1) # (condition % 2 = 1))
  BY DEF ConditionHolds
<1> HIDE DEF holds
<1>3. /\ 0 \div 2 + 1 = 1 /\ 1 \div 2 + 1 = 1 /\ 2 \div 2 + 1 = 2 /\ 3 \div 2 + 1 = 2
      /\ 4 \div 2 + 1 = 3 /\ 5 \div 2 + 1 = 3 /\ 6 \div 2 + 1 = 4 /\ 7 \div 2 + 1 = 4
      /\ 8 \div 2 + 1 = 5 /\ 9 \div 2 + 1 = 5 /\ 10 \div 2 + 1 = 6 /\ 11 \div 2 + 1 = 6
      /\ 12 \div 2 + 1 = 7 /\ 13 \div 2 + 1 = 7
  OBVIOUS
<1>4. /\ 0 % 2 # 1 /\ 1 % 2 = 1 /\ 2 % 2 # 1 /\ 3 % 2 = 1 /\ 4 % 2 # 1 /\ 5 % 2 = 1 /\ 6 % 2 # 1
      /\ 7 % 2 = 1 /\ 8 % 2 # 1 /\ 9 % 2 = 1 /\ 10 % 2 # 1 /\ 11 % 2 = 1 /\ 12 % 2 # 1 /\ 13 % 2 = 1
  OBVIOUS
<1> QED BY <1>1, <1>2, <1>3, <1>4

(* After CMP of two words the conditions say how they compare.              *)
LEMMA WordsCompare ==
  ASSUME NEW x \in Word, NEW y \in Word, NEW psr, FlagsOf(psr, AddWithCarry(x, Not(y), 1)),
         NEW condition \in 0 .. 13
  PROVE  ConditionHolds(condition, psr) <=> Compared(x, y, Width)[condition + 1]
<1> DEFINE m == 2^Width
           s == AddWithCarry(x, Not(y), 1)
           n == Bit(s.result, Width - 1)
           low == (x - y) % m
           signed(v) == IF v < Half THEN v ELSE v - m
           t == signed(x) - signed(y)
<1>1. m \in Nat \ {0} /\ m = 2 * Half /\ Half \in Nat /\ Half > 0
  BY WordHalves
<1>2. x \in Int /\ 0 <= x /\ x < m /\ y \in Int /\ 0 <= y /\ y < m
  BY <1>1 DEF Word
<1>3. Signed(x) = signed(x) /\ Signed(y) = signed(y) /\ Signed(s.result) = signed(s.result)
  BY DEF Signed, Half
<1>4. /\ s.carry = IF x - y - 1 + 1 >= 0 THEN 1 ELSE 0
      /\ s.result = IF x - y - 1 + 1 >= 0 THEN x - y - 1 + 1 ELSE x - y - 1 + 1 + m
      /\ s.result \in Word
      /\ s.overflow <=> Signed(x) - Signed(y) - 1 + 1 # Signed(s.result)
      /\ Signed(x) - Signed(y) - 1 + 1 >= 0 <=> (n = 1 <=> s.overflow)
  BY Subtraction
<1>5. n = IF s.result < Half THEN 0 ELSE 1
  BY <1>4, SignBit
<1>6. psr.N = n /\ psr.Z = (IF s.result = 0 THEN 1 ELSE 0) /\ psr.C = s.carry
      /\ psr.V = (IF s.overflow THEN 1 ELSE 0)
  BY DEF FlagsOf
<1>7. Compared(x, y, Width) = <<x = y, x # y, x >= y, x < y, low >= Half, low < Half,
        t # signed(low), t = signed(low), x > y, x <= y, t >= 0, t < 0, t > 0, t <= 0>>
  BY DEF Compared, Half
<1> HIDE DEF m, s, n
<1>8. low = s.result
  <2> DEFINE z == x - y
  <2>1. z \in Int /\ -m <= z /\ z < m /\ low = z % m
    BY <1>1, <1>2
  <2>2. s.result = IF z >= 0 THEN z ELSE z + m
    BY <1>1, <1>2, <1>4
  <2> HIDE DEF z, low
  <2>3. z >= 0 => low = z
    BY <1>1, <2>1, Wrapped
  <2>4. z < 0 => low = z + m
    BY <1>1, <2>1, Wrapped
  <2> QED BY <2>1, <2>2, <2>3, <2>4
<1>9. s.result = (IF x >= y THEN x - y ELSE x - y + m) /\ s.result \in Int
      /\ s.carry = (IF x >= y THEN 1 ELSE 0)
  BY <1>1, <1>2, <1>4
<1>10. (s.overflow <=> t # signed(s.result)) /\ (t >= 0 <=> (n = 1 <=> s.overflow)) /\ t \in Int
  BY <1>1, <1>2, <1>3, <1>4
<1> HIDE DEF low
<1>11. t = 0 <=> x = y
  BY <1>1, <1>2
<1>12. s.result = 0 <=> x = y
  BY <1>1, <1>2, <1>9
<1>13. psr.C = 1 <=> x >= y
  BY <1>2, <1>6, <1>9
<1>14. psr.V = 1 <=> t # signed(s.result)
  BY <1>6, <1>10
<1>15. psr.N = 1 <=> s.result >= Half
  BY <1>1, <1>5, <1>6, <1>9
<1>16. psr.N = psr.V <=> t >= 0
  BY <1>5, <1>6, <1>10
<1>17. (psr.Z = 1 <=> x = y) /\ (psr.Z = 0 <=> x # y)
  BY <1>6, <1>12
<1> HIDE DEF t, signed
<1> DEFINE c == Compared(x, y, Width)
<1>24. /\ c[1] = (x = y) /\ c[2] = (x # y) /\ c[3] = (x >= y) /\ c[4] = (x < y)
       /\ c[5] = (low >= Half) /\ c[6] = (low < Half) /\ c[7] = (t # signed(low)) /\ c[8] = (t = signed(low))
       /\ c[9] = (x > y) /\ c[10] = (x <= y) /\ c[11] = (t >= 0)
       /\ c[12] = (t < 0) /\ c[13] = (t > 0) /\ c[14] = (t <= 0)
  BY <1>7
<1> HIDE DEF c
<1>18. /\ c[1] <=> x = y
       /\ c[2] <=> x # y
       /\ c[3] <=> x >= y
       /\ c[4] <=> x < y
       /\ c[5] <=> low >= Half
       /\ c[6] <=> low < Half
       /\ c[7] <=> t # signed(low)
       /\ c[8] <=> t = signed(low)
       /\ c[9] <=> x > y
       /\ c[10] <=> x <= y
       /\ c[11] <=> t >= 0
       /\ c[12] <=> t < 0
       /\ c[13] <=> t > 0
       /\ c[14] <=> t <= 0
  BY <1>24
<1>19. /\ ConditionHolds(0, psr) <=> c[1]
       /\ ConditionHolds(1, psr) <=> c[2]
       /\ ConditionHolds(2, psr) <=> c[3]
       /\ ConditionHolds(3, psr) <=> c[4]
  BY <1>2, <1>13, <1>17, <1>18, Conditions
<1>20. /\ ConditionHolds(4, psr) <=> c[5]
       /\ ConditionHolds(5, psr) <=> c[6]
       /\ ConditionHolds(6, psr) <=> c[7]
       /\ ConditionHolds(7, psr) <=> c[8]
  BY <1>1, <1>8, <1>9, <1>14, <1>15, <1>18, Conditions
<1>22. /\ ConditionHolds(8, psr) <=> c[9]
       /\ ConditionHolds(9, psr) <=> c[10]
       /\ ConditionHolds(10, psr) <=> c[11]
       /\ ConditionHolds(11, psr) <=> c[12]
  BY <1>2, <1>10, <1>13, <1>16, <1>17, <1>18, Conditions
<1>23. /\ ConditionHolds(12, psr) <=> c[13]
       /\ ConditionHolds(13, psr) <=> c[14]
  BY <1>10, <1>11, <1>16, <1>17, <1>18, Conditions
<1>21. \A k \in 0 .. 13 : ConditionHolds(k, psr) <=> c[k + 1]
  BY <1>19, <1>20, <1>22, <1>23
<1> QED BY <1>21 DEF c

(* Lower and upper word make a number that orders as the pair does.         *)
LEMMA Lexicographic ==
  ASSUME NEW m \in Nat, NEW a \in Int, NEW b \in Int, NEW x \in 0 .. m - 1, NEW y \in 0 .. m - 1
  PROVE  a * m + x >= b * m + y <=> (a > b \/ (a = b /\ x >= y))
<1>1. m \in Nat /\ m > 0 /\ x \in Int /\ y \in Int /\ 0 <= x /\ x < m /\ 0 <= y /\ y < m
  OBVIOUS
<1>2. CASE a > b
  <2> DEFINE d == a - b - 1
  <2>1. d \in Nat /\ a = b + 1 + d
    BY <1>2
  <2> HIDE DEF d
  <2>2. d * m \in Nat /\ b * m \in Int /\ (b + 1 + d) * m = b * m + m + d * m
    BY <1>1, <2>1
  <2>3. a * m + x >= b * m + y
    BY <1>1, <2>1, <2>2
  <2> QED BY <1>2, <2>3
<1>3. CASE a = b
  <2>1. b * m \in Int
    BY <1>1
  <2> QED BY <1>1, <1>3, <2>1
<1>4. CASE a < b
  <2> DEFINE d == b - a - 1
  <2>1. d \in Nat /\ b = a + 1 + d
    BY <1>4
  <2> HIDE DEF d
  <2>2. d * m \in Nat /\ a * m \in Int /\ (a + 1 + d) * m = a * m + m + d * m
    BY <1>1, <2>1
  <2>3. a * m + x < b * m + y
    BY <1>1, <2>1, <2>2
  <2>4. a * m + x \in Int /\ b * m + y \in Int
    BY <1>1
  <2> QED BY <1>4, <2>3, <2>4
<1> QED BY <1>2, <1>3, <1>4

(* Double words have the sign of their upper word.                          *)
LEMMA DoubleWord ==
  ASSUME NEW a \in Word, NEW x \in Word
  PROVE  LET z == a * 2^Width + x
         IN  /\ z \in Int
             /\ (IF z < 2^(2 * Width - 1) THEN z ELSE z - 2^(2 * Width)) = Signed(a) * 2^Width + x
<1> DEFINE m == 2^Width
           z == a * m + x
<1>1. m \in Nat \ {0} /\ m = 2 * Half /\ Half \in Nat /\ Half > 0
  BY WordHalves
<1>2. a \in Int /\ 0 <= a /\ a < m /\ x \in Int /\ 0 <= x /\ x < m
  BY <1>1 DEF Word
<1>3. 2^(2 * Width) = m * m /\ 2^(2 * Width - 1) = m * Half
  <2>1. Width \in Nat /\ Width - 1 \in Nat /\ Width + Width = 2 * Width /\ Width + (Width - 1) = 2 * Width - 1
    BY WidthType
  <2>2. 2^(Width + Width) = 2^Width * 2^Width /\ 2^(Width + (Width - 1)) = 2^Width * 2^(Width - 1)
    BY <2>1, PowerSum
  <2> QED BY <2>1, <2>2 DEF Half
<1>4. Signed(a) = IF a < Half THEN a ELSE a - m
  BY DEF Signed, Half
<1> HIDE DEF m
<1>5. z \in Int /\ a * m \in Int /\ Half * m \in Int /\ m * Half = Half * m /\ m * m \in Int
  BY <1>1, <1>2
<1>6. z >= Half * m + 0 <=> (a > Half \/ (a = Half /\ x >= 0))
  BY <1>1, <1>2, Lexicographic
<1>7. z >= Half * m <=> a >= Half
  BY <1>1, <1>2, <1>5, <1>6
<1>8. (a - m) * m = a * m - m * m
  BY <1>1, <1>2
<1>9. (IF z < m * Half THEN z ELSE z - m * m) = Signed(a) * m + x
  BY <1>1, <1>2, <1>4, <1>5, <1>7, <1>8
<1> QED BY <1>3, <1>5, <1>9 DEF m

(* After CMP of the lower words and SBC of the upper ones, the orders say   *)
(* how the double words compare.                                            *)
LEMMA DoublesCompare ==
  ASSUME NEW a \in Word, NEW b \in Word, NEW x \in Word, NEW y \in Word, NEW psr,
         FlagsOf(psr, AddWithCarry(a, Not(b), AddWithCarry(x, Not(y), 1).carry)),
         NEW condition \in {2, 3, 10, 11}
  PROVE  ConditionHolds(condition, psr)
           <=> Compared(a * 2^Width + x, b * 2^Width + y, 2 * Width)[condition + 1]
<1> DEFINE m == 2^Width
           carry == AddWithCarry(x, Not(y), 1).carry
           s == AddWithCarry(a, Not(b), carry)
           n == Bit(s.result, Width - 1)
           z == a * m + x
           v == b * m + y
           signed(u) == IF u < 2^(2 * Width - 1) THEN u ELSE u - 2^(2 * Width)
           t == signed(z) - signed(v)
<1>1. m \in Nat \ {0} /\ m = 2 * Half /\ Half \in Nat /\ Half > 0
  BY WordHalves
<1>2. /\ a \in Int /\ 0 <= a /\ a < m /\ b \in Int /\ 0 <= b /\ b < m
      /\ x \in Int /\ 0 <= x /\ x < m /\ y \in Int /\ 0 <= y /\ y < m
  BY <1>1 DEF Word
<1>3. carry = IF x >= y THEN 1 ELSE 0
  <2>1. carry = IF x - y - 1 + 1 >= 0 THEN 1 ELSE 0
    BY Subtraction
  <2> QED BY <1>2, <2>1
<1>4. Signed(a) \in Int /\ Signed(b) \in Int
  <2>1. \A u : Signed(u) = IF u < Half THEN u ELSE u - m
    BY DEF Signed, Half
  <2> HIDE DEF m
  <2> QED BY <1>1, <1>2, <2>1
<1>5. /\ s.carry = IF a - b - 1 + carry >= 0 THEN 1 ELSE 0
      /\ s.result \in Word
      /\ Signed(a) - Signed(b) - 1 + carry >= 0 <=> (n = 1 <=> s.overflow)
  <2>1. carry \in {0, 1}
    BY <1>3
  <2> HIDE DEF carry
  <2> QED BY <2>1, Subtraction
<1>6. n = IF s.result < Half THEN 0 ELSE 1
  BY <1>5, SignBit
<1>7. psr.N = n /\ psr.C = s.carry /\ psr.V = (IF s.overflow THEN 1 ELSE 0)
  BY DEF FlagsOf
<1>8. z \in Int /\ signed(z) = Signed(a) * m + x
  BY DoubleWord
<1>9. v \in Int /\ signed(v) = Signed(b) * m + y
  BY DoubleWord
<1>10. z >= v <=> (a > b \/ (a = b /\ x >= y))
  <2>1. m \in Nat /\ x \in 0 .. m - 1 /\ y \in 0 .. m - 1 /\ a \in Int /\ b \in Int
    BY <1>1, <1>2 DEF Word
  <2> HIDE DEF m
  <2> QED BY <2>1, Lexicographic
<1>11. Signed(a) * m + x >= Signed(b) * m + y <=> (Signed(a) > Signed(b) \/ (Signed(a) = Signed(b) /\ x >= y))
  <2>1. m \in Nat /\ x \in 0 .. m - 1 /\ y \in 0 .. m - 1
    BY <1>1, <1>2 DEF Word
  <2> HIDE DEF m
  <2> QED BY <1>4, <2>1, Lexicographic
<1> DEFINE c == Compared(z, v, 2 * Width)
<1>12. c[3] = (z >= v) /\ c[4] = (z < v) /\ c[11] = (t >= 0) /\ c[12] = (t < 0)
  <2> HIDE DEF z, v
  <2> QED BY DEF Compared
<1>13. Signed(a) * m \in Int /\ Signed(b) * m \in Int
  BY <1>1, <1>4
<1>14. t \in Int /\ (t >= 0 <=> Signed(a) * m + x >= Signed(b) * m + y)
  <2> HIDE DEF z, v, m, signed
  <2> QED BY <1>1, <1>2, <1>8, <1>9, <1>13
<1> HIDE DEF m, carry, s, n, z, v, signed, t, c
<1>15. psr.C = 1 <=> z >= v
  BY <1>2, <1>3, <1>5, <1>7, <1>10
<1>16. psr.N = psr.V <=> t >= 0
  <2>1. Signed(a) - Signed(b) - 1 + carry >= 0 <=> (Signed(a) > Signed(b) \/ (Signed(a) = Signed(b) /\ x >= y))
    BY <1>2, <1>3, <1>4
  <2>2. psr.N = psr.V <=> (n = 1 <=> s.overflow)
    BY <1>6, <1>7
  <2> QED BY <1>5, <1>11, <1>14, <2>1, <2>2
<1>17. (c[3] <=> z >= v) /\ (c[4] <=> z < v) /\ (c[11] <=> t >= 0) /\ (c[12] <=> t < 0)
  BY <1>12
<1>18. /\ ConditionHolds(2, psr) <=> c[3]
       /\ ConditionHolds(3, psr) <=> c[4]
  BY <1>8, <1>9, <1>15, <1>17, Conditions
<1>19. /\ ConditionHolds(10, psr) <=> c[11]
       /\ ConditionHolds(11, psr) <=> c[12]
  BY <1>14, <1>16, <1>17, Conditions
<1>20. \A k \in {2, 3, 10, 11} : ConditionHolds(k, psr) <=> c[k + 1]
  BY <1>18, <1>19
<1> QED BY <1>20 DEF c, z, v, m

-----------------------------------------------------------------------------
(* What a comparison and a branch do.                                       *)

(* The registers of a machine hold words.                                   *)
Registered(m) == m.reg \in [RegisterFile -> Word]

(* A number has one remainder.                                              *)
LEMMA OneRemainder ==
  ASSUME NEW m \in Nat \ {0}, NEW k \in Int, NEW r \in 0 .. m - 1
  PROVE  (k * m + r) % m = r
<1> DEFINE z == k * m + r
           d == z \div m
           s == z % m
<1>1. z \in Int
  OBVIOUS
<1>2. d \in Int /\ s \in 0 .. m - 1 /\ z = d * m + s
  <2> HIDE DEF z
  <2> QED BY <1>1
<1>3. k * m + r >= d * m + s /\ d * m + s >= k * m + r
  <2> HIDE DEF d, s
  <2> QED BY <1>1, <1>2
<1> HIDE DEF d, s
<1>4. k > d \/ (k = d /\ r >= s)
  BY <1>2, <1>3, Lexicographic
<1>5. d > k \/ (d = k /\ s >= r)
  BY <1>2, <1>3, Lexicographic
<1> QED BY <1>2, <1>4, <1>5 DEF s

(* To wrap once is enough.                                                  *)
LEMMA WrapSum == \A a, b \in Int : Wrap(Wrap(a) + b) = Wrap(a + b)
<1> SUFFICES ASSUME NEW a \in Int, NEW b \in Int PROVE Wrap(Wrap(a) + b) = Wrap(a + b)
  OBVIOUS
<1> DEFINE m == 2^Width
           q == a \div m
           r == a % m
           d == (r + b) \div m
           s == (r + b) % m
<1>1. m \in Nat \ {0}
  BY WordHalves
<1> HIDE DEF m
<1>2. q \in Int /\ r \in 0 .. m - 1 /\ a = q * m + r
  BY <1>1
<1>3. d \in Int /\ s \in 0 .. m - 1 /\ r + b = d * m + s
  <2> HIDE DEF r
  <2> QED BY <1>1, <1>2
<1> HIDE DEF q, r, d, s
<1>4. a + b = (q + d) * m + s
  <2>1. (q + d) * m = q * m + d * m /\ q * m \in Int /\ d * m \in Int
    BY <1>1, <1>2, <1>3
  <2> QED BY <1>1, <1>2, <1>3, <2>1
<1>5. (a + b) % m = s
  <2>1. q + d \in Int
    BY <1>2, <1>3
  <2> QED BY <1>1, <1>3, <1>4, <2>1, OneRemainder
<1> QED BY <1>5 DEF Wrap, m, r, s

(* An even address is a word, too.                                          *)
LEMMA EvenWord == \A x \in Word : Align(x, 2) \in Word /\ Wrap(Align(x, 2)) = Align(x, 2)
<1> SUFFICES ASSUME NEW x \in Word PROVE Align(x, 2) \in Word /\ Wrap(Align(x, 2)) = Align(x, 2)
  OBVIOUS
<1> DEFINE m == 2^Width
           z == Align(x, 2)
<1>1. m \in Nat \ {0} /\ x \in 0 .. m - 1
  BY WordHalves DEF Word
<1> HIDE DEF m
<1>2. z \in 0 .. m - 1
  <2>1. x \in Int /\ 0 <= x /\ x < m /\ m \in Int
    BY <1>1
  <2>2. z = x - (x % 2)
    BY DEF Align
  <2>3. x % 2 <= x /\ x % 2 >= 0 /\ x % 2 \in Int
    BY <2>1
  <2> QED BY <2>1, <2>2, <2>3
<1> HIDE DEF z
<1>3. z \in Int /\ 0 <= z /\ z < m
  BY <1>1, <1>2
<1>4. z % m = z
  BY <1>1, <1>3, Wrapped
<1>5. z \in Word /\ Wrap(z) = z
  BY <1>2, <1>4 DEF Word, Wrap, m
<1> QED BY <1>5 DEF z

(* Condition 14 holds always.                                               *)
LEMMA AlwaysHolds == \A psr : ConditionHolds(14, psr)
<1> SUFFICES ASSUME NEW psr PROVE ConditionHolds(14, psr)
  OBVIOUS
<1> DEFINE c == <<psr.Z = 1, psr.C = 1, psr.N = 1, psr.V = 1, psr.C = 1 /\ psr.Z = 0,
                  psr.N = psr.V, psr.N = psr.V /\ psr.Z = 0, TRUE>>
<1>1. c[8] = TRUE
  OBVIOUS
<1>2. ConditionHolds(14, psr) <=> (c[14 \div 2 + 1] # (14 % 2 = 1))
  BY DEF ConditionHolds
<1> HIDE DEF c
<1>3. 14 \div 2 + 1 = 8 /\ 14 % 2 # 1
  OBVIOUS
<1> QED BY <1>1, <1>2, <1>3

(* Writing a register that exists changes it alone.                         *)
LEMMA RegisterWritten ==
  ASSUME NEW m, DOMAIN m = Members, m.code = "OK", NEW r \in RegisterFile, NEW value,
         DOMAIN m.reg = RegisterFile
  PROVE  LET n == WriteRegister(m, r, value)
         IN  /\ DOMAIN n = Members /\ n.code = "OK" /\ n.arch = m.arch /\ n.flash = m.flash
             /\ n.psr = m.psr /\ n.updated = m.updated /\ n.branched = m.branched
             /\ DOMAIN n.reg = RegisterFile
             /\ \A t \in RegisterFile \ {r} : n.reg[t] = m.reg[t]
             /\ n.reg[r] = IF r = SP THEN Align(Wrap(value), 4) ELSE Wrap(value)
<1>1. WriteRegister(m, r, value) = [m EXCEPT !.reg[r] = IF r = SP THEN Align(Wrap(value), 4) ELSE Wrap(value)]
  BY DEF WriteRegister
<1> QED BY <1>1 DEF Members

(* The increment that follows changes PC alone.                             *)
LEMMA AdvanceWrites ==
  ASSUME NEW m, DOMAIN m = Members, m.code = "OK", NEW size, DOMAIN m.reg = RegisterFile
  PROVE  LET n == Advance(m, size)
         IN  /\ DOMAIN n = Members /\ n.code = "OK" /\ n.arch = m.arch /\ n.flash = m.flash
             /\ n.psr = m.psr /\ n.updated = m.updated /\ n.branched = m.branched
             /\ DOMAIN n.reg = RegisterFile
             /\ \A t \in RegisterFile \ {PC} : n.reg[t] = m.reg[t]
             /\ n.reg[PC] = IF m.branched THEN m.reg[PC] ELSE Wrap(m.reg[PC] + size)
<1>1. PC \in RegisterFile /\ PC # SP
  BY DEF PC, SP, RegisterFile
<1>2. CASE m.branched
  BY <1>2 DEF Advance
<1>3. CASE ~m.branched
  <2>1. Advance(m, size) = WriteRegister(m, PC, m.reg[PC] + size)
    BY <1>3 DEF Advance
  <2> QED BY <1>1, <1>3, <2>1, RegisterWritten
<1> QED BY <1>2, <1>3

(* Outside of a block, what is decoded without a condition is performed.    *)
LEMMA PerformedAlways ==
  ASSUME NEW m, ~InITBlock(m), NEW i, i.condition = 14, i.name \notin NotExecuted \union Unconditional,
         NEW size
  PROVE  Execute(m, i, size) = Advance(Perform(m, i), size)
<1> DEFINE evaluated == EvaluateCondition(m, i)
<1>1. evaluated = [m |-> m, holds |-> ConditionHolds(14, m.psr)]
  BY DEF EvaluateCondition
<1>2. evaluated.m = m /\ evaluated.holds
  BY <1>1, AlwaysHolds
<1>3. Execute(m, i, size) = Advance(IF evaluated.holds THEN Perform(evaluated.m, i) ELSE evaluated.m, size)
  <2> HIDE DEF evaluated
  <2> QED BY DEF Execute, evaluated
<1> QED BY <1>2, <1>3

(* CMP and SBC are no other instruction.                                    *)
LEMMA PerformedArithmetic ==
  \A m, i : i.name \in {"CMP", "SBC"} =>
    /\ Perform(m, i) = Arithmetic(m, i)
    /\ i.name \notin NotExecuted \union Unconditional
<1> SUFFICES ASSUME NEW m, NEW i, i.name \in {"CMP", "SBC"}
             PROVE  /\ Perform(m, i) = Arithmetic(m, i)
                    /\ i.name \notin NotExecuted \union Unconditional
  OBVIOUS
<1>1. i.name \notin NotExecuted \union Unconditional
  BY DEF NotExecuted, Unconditional, HintName
<1>2. /\ i.name \in ArithmeticName
      /\ i.name \notin LogicalName /\ i.name \notin RearrangeName
      /\ i.name \notin SingleLoad \union SingleStore \union AlignedName
  BY DEF ArithmeticName, LogicalName, RearrangeName, SingleLoad, SingleStore, AlignedName
<1>3. Perform(m, i) = Arithmetic(m, i)
  BY <1>2 DEF Perform
<1> QED BY <1>1, <1>3

(* The carry in of the difference that CMP and SBC make.                    *)
CarryIn(m, i) == IF i.name = "CMP" THEN 1 ELSE m.psr.C

(* CMP and SBC of registers: the flags of the difference, and CMP leaves    *)
(* the registers alone.                                                     *)
LEMMA ComparesRegisters ==
  ASSUME NEW m, Mirrored(m), m.code = "OK", DOMAIN m.reg = RegisterFile, ~InITBlock(m),
         NEW i, i.code = "OK", Runnable(i), OnlyRegisters(i), i.amount = 0,
         i.name \in {"CMP", "SBC"}, i.S \/ i.name = "CMP", NEW size
  PROVE  LET n == Execute(m, i, size)
         IN  /\ n.code = "OK" /\ n.updated /\ DOMAIN n = Members /\ DOMAIN n.reg = RegisterFile
             /\ i.Rn \in RegisterFile \ {PC} /\ i.Rm \in RegisterFile \ {PC}
             /\ FlagsOf(n.psr, AddWithCarry(m.reg[i.Rn], Not(m.reg[i.Rm]), CarryIn(m, i)))
             /\ i.name = "CMP" => \A r \in RegisterFile \ {PC} : n.reg[r] = m.reg[r]
<1> DEFINE x == m.reg[i.Rn]
           y == m.reg[i.Rm]
           s == AddWithCarry(x, Not(y), CarryIn(m, i))
           operand == ArithmeticOperand(m, i)
           sum == Sum(i.name, ReadRegister(m, i.Rn), operand.value, m.psr.C)
           written == IF i.name = "CMP" THEN m ELSE WriteRegister(m, i.Rd, s.result)
           flagged == SetFlags(written, NZC(s.result, s.carry))
           done == SetFlags(flagged, [V |-> IF s.overflow THEN 1 ELSE 0])
<1>1. /\ i.Rn \in RegisterFile \ {PC} /\ i.Rm \in RegisterFile \ {PC} /\ i.condition = 14
      /\ i.shift \in ShiftName
      /\ i.name = "SBC" => i.Rd \in RegisterFile
  BY DEF Runnable, Measured, OnlyRegisters, RegisterOnly, QuietName
<1>2. operand = Valid(y, m.psr.C)
  <2>1. ReadRegister(m, i.Rm) = y
    BY <1>1 DEF ReadRegister
  <2>2. operand = Shift_C(y, i.shift, 0, m.psr.C)
    BY <2>1 DEF ArithmeticOperand, ShiftedOperand
  <2>3. i.shift # "RRX"
    BY <1>1 DEF ShiftName
  <2> HIDE DEF operand, y
  <2> QED BY <2>2, <2>3 DEF Shift_C
<1>3. operand.ok /\ operand.value = y
  BY <1>2 DEF Valid
<1>4. sum = s
  <2>1. ReadRegister(m, i.Rn) = x
    BY <1>1 DEF ReadRegister
  <2> HIDE DEF operand, x, y
  <2> QED BY <1>3, <2>1 DEF Sum, CarryIn
<1>5. Arithmetic(m, i) = done
  <2>1. i.name \notin {"ADD", "ADDW"} /\ (i.name \in {"CMN", "CMP"} <=> i.name = "CMP")
    OBVIOUS
  <2> HIDE DEF operand, sum, s
  <2>2. Arithmetic(m, i) = IF ~(i.S \/ i.name \in {"CMN", "CMP"})
                           THEN IF i.name \in {"CMN", "CMP"} THEN m ELSE WriteRegister(m, i.Rd, sum.result)
                           ELSE SetFlags(SetFlags(IF i.name \in {"CMN", "CMP"} THEN m
                                                  ELSE WriteRegister(m, i.Rd, sum.result),
                                                  NZC(sum.result, sum.carry)),
                                         [V |-> IF sum.overflow THEN 1 ELSE 0])
    BY <1>3, <2>1 DEF Arithmetic, operand, sum
  <2> QED BY <1>4, <2>1, <2>2
<1>6. DOMAIN m = Members /\ DOMAIN m.psr = {"N", "Z", "C", "V", "Q", "it"}
  BY DEF Mirrored, Fields
<1> HIDE DEF s
<1>7. /\ DOMAIN written = Members /\ written.code = "OK" /\ written.psr = m.psr
      /\ DOMAIN written.reg = RegisterFile
      /\ i.name = "CMP" => \A r \in RegisterFile \ {PC} : written.reg[r] = m.reg[r]
  <2>1. CASE i.name = "CMP"
    BY <1>6, <2>1
  <2>2. CASE i.name = "SBC"
    <3>1. written = WriteRegister(m, i.Rd, s.result)
      BY <2>2
    <3> QED BY <1>1, <1>6, <2>2, <3>1, RegisterWritten
  <2> QED BY <2>1, <2>2
<1> HIDE DEF written
<1>8. /\ DOMAIN flagged = Members /\ flagged.code = "OK"
      /\ flagged.reg = written.reg
      /\ flagged.psr.N = Bit(s.result, Width - 1)
      /\ flagged.psr.Z = (IF s.result = 0 THEN 1 ELSE 0) /\ flagged.psr.C = s.carry
      /\ "N" \in DOMAIN flagged.psr /\ "Z" \in DOMAIN flagged.psr /\ "C" \in DOMAIN flagged.psr
      /\ "V" \in DOMAIN flagged.psr
  BY <1>6, <1>7 DEF SetFlags, NZC, Updated, Members
<1> HIDE DEF flagged
<1>9. /\ DOMAIN done = Members /\ done.code = "OK" /\ done.updated
      /\ done.reg = written.reg
      /\ done.psr.N = Bit(s.result, Width - 1)
      /\ done.psr.Z = (IF s.result = 0 THEN 1 ELSE 0) /\ done.psr.C = s.carry
      /\ done.psr.V = (IF s.overflow THEN 1 ELSE 0)
  BY <1>8 DEF SetFlags, Updated, Members
<1> HIDE DEF done
<1>10. Execute(m, i, size) = Advance(done, size)
  BY <1>1, <1>5, PerformedAlways, PerformedArithmetic
<1>11. /\ DOMAIN Advance(done, size) = Members /\ Advance(done, size).code = "OK"
       /\ DOMAIN Advance(done, size).reg = RegisterFile
       /\ Advance(done, size).psr = done.psr /\ Advance(done, size).updated
       /\ \A r \in RegisterFile \ {PC} : Advance(done, size).reg[r] = written.reg[r]
  BY <1>7, <1>9, AdvanceWrites
<1>12. FlagsOf(done.psr, s)
  BY <1>9 DEF FlagsOf
<1> QED BY <1>1, <1>7, <1>10, <1>11, <1>12 DEF s

(* PSR keeps the flags, on every core.                                      *)
LEMMA ValueKeepsFlags ==
  ASSUME NEW psr, psr.N \in {0, 1}, psr.Z \in {0, 1}, psr.C \in {0, 1}, psr.V \in {0, 1}, NEW arch
  PROVE  LET kept == Fields(PsrValue(psr) \cap PsrBits(arch))
         IN  kept.N = psr.N /\ kept.Z = psr.Z /\ kept.C = psr.C /\ kept.V = psr.V
<1> DEFINE bits == PsrValue(psr) \cap PsrBits(arch)
<1>1. /\ 31 \in bits <=> psr.N = 1
      /\ 30 \in bits <=> psr.Z = 1
      /\ 29 \in bits <=> psr.C = 1
      /\ 28 \in bits <=> psr.V = 1
  BY DEF PsrValue, PsrBits
<1> HIDE DEF bits
<1>2. /\ Fields(bits).N = IF 31 \in bits THEN 1 ELSE 0
      /\ Fields(bits).Z = IF 30 \in bits THEN 1 ELSE 0
      /\ Fields(bits).C = IF 29 \in bits THEN 1 ELSE 0
      /\ Fields(bits).V = IF 28 \in bits THEN 1 ELSE 0
  BY DEF Fields
<1> QED BY <1>1, <1>2 DEF bits

(* The flags of a comparison are kept; PC may be written again.             *)
LEMMA CommittedFlags ==
  ASSUME NEW m, DOMAIN m = Members, m.code = "OK", m.updated,
         NEW x \in Word, NEW y \in Word, NEW c \in {0, 1}, FlagsOf(m.psr, AddWithCarry(x, Not(y), c))
  PROVE  LET n == Committed(m)
         IN  n.code = "OK" /\ n.reg = m.reg /\ ~n.branched /\ FlagsOf(n.psr, AddWithCarry(x, Not(y), c))
<1> DEFINE s == AddWithCarry(x, Not(y), c)
           written == SetPSR(m, PsrValue(m.psr))
<1>1. s.carry = (IF x - y - 1 + c >= 0 THEN 1 ELSE 0) /\ s.result \in Word
  BY Subtraction
<1>2. Bit(s.result, Width - 1) \in {0, 1}
  BY <1>1, SignBit
<1> HIDE DEF s
<1>3. m.psr.N \in {0, 1} /\ m.psr.Z \in {0, 1} /\ m.psr.C \in {0, 1} /\ m.psr.V \in {0, 1}
  BY <1>1, <1>2 DEF FlagsOf, s
<1>4. Committed(m) = [written EXCEPT !.updated = FALSE, !.branched = FALSE]
  BY DEF Committed, WritePSR
<1>5. /\ DOMAIN written = Members /\ written.code = "OK" /\ written.reg = m.reg
      /\ written.psr = Fields(PsrValue(m.psr) \cap PsrBits(m.arch))
  BY DEF SetPSR, Members
<1> HIDE DEF written
<1>6. /\ Committed(m).code = "OK" /\ Committed(m).reg = m.reg /\ Committed(m).branched = FALSE
      /\ Committed(m).psr = Fields(PsrValue(m.psr) \cap PsrBits(m.arch))
  BY <1>4, <1>5 DEF Members
<1>7. LET kept == Committed(m).psr
      IN  kept.N = m.psr.N /\ kept.Z = m.psr.Z /\ kept.C = m.psr.C /\ kept.V = m.psr.V
  BY <1>3, <1>6, ValueKeepsFlags
<1>8. FlagsOf(Committed(m).psr, s)
  BY <1>7 DEF FlagsOf, s
<1> QED BY <1>6, <1>8 DEF s

(* The write of PSR leaves the registers alone.                             *)
LEMMA CommittedKeeps ==
  ASSUME NEW m, DOMAIN m = Members
  PROVE  Committed(m).reg = m.reg /\ Committed(m).code = m.code /\ ~Committed(m).branched
<1> DEFINE written == IF m.updated THEN WritePSR(m, PsrValue(m.psr)) ELSE m
<1>1. DOMAIN written = Members /\ written.reg = m.reg /\ written.code = m.code
  BY DEF WritePSR, SetPSR, Members
<1>2. Committed(m) = [written EXCEPT !.updated = FALSE, !.branched = FALSE]
  BY DEF Committed
<1> HIDE DEF written
<1> QED BY <1>1, <1>2 DEF Members

-----------------------------------------------------------------------------
(* A conditional branch. *)

(* Outside of a block it goes on to its target or to the next instruction.  *)
LEMMA BranchGoes ==
  ASSUME NEW m, DOMAIN m = Members, m.code = "OK", Registered(m), ~m.branched, ~InITBlock(m),
         NEW i, i.name = "B", i.condition \in 0 .. 13, i.imm \in Int, NEW size \in {2, 4}
  PROVE  /\ Execute(m, i, size).reg[PC] = IF ConditionHolds(i.condition, m.psr)
                                           THEN Align(Wrap(m.reg[PC] + 4 + i.imm), 2)
                                           ELSE Wrap(m.reg[PC] + size)
         /\ DOMAIN Execute(m, i, size) = Members
<1> DEFINE pc == m.reg[PC]
           holds == ConditionHolds(i.condition, m.psr)
           evaluated == EvaluateCondition(m, i)
           done == IF holds THEN Perform(m, i) ELSE m
           address == Wrap(Wrap(pc + 4) + i.imm)
           aim == Align(Wrap(pc + 4 + i.imm), 2)
<1>1. pc \in Word /\ pc \in Int /\ DOMAIN m.reg = RegisterFile
  <2>1. 2^Width \in Nat
    BY WordHalves
  <2>2. PC \in RegisterFile
    BY DEF PC, RegisterFile
  <2>3. pc \in Word /\ DOMAIN m.reg = RegisterFile
    BY <2>2 DEF Registered
  <2> QED BY <2>1, <2>3 DEF Word
<1>2. evaluated.m = m /\ evaluated.holds = holds
  <2>1. evaluated = [m |-> m, holds |-> holds]
    BY DEF EvaluateCondition
  <2> HIDE DEF holds
  <2> QED BY <2>1
<1>3. i.name \notin NotExecuted \union Unconditional
  BY DEF NotExecuted, Unconditional, HintName
<1>4. Execute(m, i, size) = Advance(done, size)
  <2>1. Execute(m, i, size) = Advance(IF evaluated.holds THEN Perform(evaluated.m, i) ELSE evaluated.m, size)
    BY <1>3 DEF Execute
  <2> HIDE DEF evaluated, holds
  <2> QED BY <1>2, <2>1
<1>5. address = Wrap(pc + 4 + i.imm)
  <2>1. pc + 4 \in Int /\ pc + 4 + i.imm \in Int
    BY <1>1
  <2> HIDE DEF pc
  <2> QED BY <2>1, WrapSum
<1>6. address \in Word /\ Align(address, 2) = aim /\ Wrap(aim) = aim
  <2>1. pc + 4 + i.imm \in Int
    BY <1>1
  <2>2. address \in Word
    BY <1>5, <2>1, WordWrap
  <2> QED BY <1>5, <2>2, EvenWord
<1>7. Perform(m, i) = BranchTo(m, i)
  <2>1. /\ i.name \notin ArithmeticName /\ i.name \notin LogicalName /\ i.name \notin RearrangeName
        /\ i.name \notin SingleLoad \union SingleStore \union AlignedName
    BY DEF ArithmeticName, LogicalName, RearrangeName, SingleLoad, SingleStore, AlignedName
  <2> QED BY <2>1 DEF Perform
<1>8. Perform(m, i) = BranchWritePC(m, address)
  <2>1. ReadRegister(m, PC) = Wrap(pc + 4)
    BY DEF ReadRegister
  <2> QED BY <1>7, <2>1 DEF BranchTo
<1> DEFINE written == WriteRegister(m, PC, aim)
<1>9. /\ DOMAIN written = Members /\ written.code = "OK" /\ DOMAIN written.reg = RegisterFile
      /\ written.reg[PC] = aim
  <2>1. PC \in RegisterFile /\ PC # SP
    BY DEF PC, SP, RegisterFile
  <2> HIDE DEF aim
  <2> QED BY <1>1, <1>6, <2>1, RegisterWritten
<1>10. Perform(m, i) = [written EXCEPT !.branched = TRUE]
  BY <1>6, <1>8 DEF BranchWritePC
<1> HIDE DEF written, aim
<1>11. CASE holds
  <2>1. /\ DOMAIN done = Members /\ done.code = "OK" /\ done.branched
        /\ DOMAIN done.reg = RegisterFile /\ done.reg[PC] = aim
    BY <1>9, <1>10, <1>11 DEF Members
  <2> HIDE DEF done, holds
  <2>2. Execute(m, i, size).reg[PC] = aim /\ DOMAIN Execute(m, i, size) = Members
    BY <1>4, <2>1, AdvanceWrites
  <2> QED BY <1>11, <2>2 DEF aim, holds
<1>12. CASE ~holds
  <2>1. done = m
    BY <1>12
  <2> HIDE DEF done, holds
  <2>2. Execute(m, i, size).reg[PC] = Wrap(pc + size) /\ DOMAIN Execute(m, i, size) = Members
    BY <1>1, <1>4, <2>1, AdvanceWrites
  <2> QED BY <1>12, <2>2 DEF holds
<1> QED BY <1>11, <1>12

(* What clock_cpu has decoded it has executed, and could carry out.         *)
LEMMA ClockRuns ==
  ASSUME NEW m, Mirrored(m), m.code = "OK", NEW n \in Nat, m.flash \in [0 .. n - 1 -> Byte],
         IsOK(ClockCPU(m).i)
  PROVE  LET i == ClockCPU(m).i
         IN  /\ i.code = "OK" /\ Runnable(i)
             /\ ClockCPU(m).m = Committed(Execute(m, i, SizeAt(m, m.reg[PC])))
             /\ SizeAt(m, m.reg[PC]) \in {2, 4}
<1> DEFINE pc == m.reg[PC]
           w == Fetched(m)
           i == Decode(w)
           executed == Execute(m, i, SizeAt(m, pc))
           clocked == ClockCPU(m)
<1>1. ValidateAddress(m, pc) = "OK" /\ i.code = "OK" /\ clocked.m = Committed(executed) /\ clocked.i = i
  BY DEF ClockCPU, IsOK, Refuse
<1>2. w.H \in Halfword /\ w.L \in Halfword /\ SizeAt(m, pc) \in {2, 4}
  BY <1>1, FetchedHalfwords
<1>3. Runnable(i)
  BY <1>2, DecodedRunnable
<1> HIDE DEF i, executed, clocked, w
<1> QED BY <1>1, <1>2, <1>3 DEF executed, clocked

(* What is not put back: the flags, and every register but PC when the      *)
(* fault was in no register.                                                *)
LEMMA PutBackKeeps ==
  ASSUME NEW clocked, DOMAIN clocked.m = Members, DOMAIN clocked.m.reg = RegisterFile,
         pending.kind \in {"none", "instruction"}
  PROVE  /\ PutBack(clocked).psr = clocked.m.psr /\ PutBack(clocked).code = clocked.m.code
         /\ PutBack(clocked).branched = clocked.m.branched
         /\ \A r \in RegisterFile \ {PC} : PutBack(clocked).reg[r] = clocked.m.reg[r]
         /\ pending.kind = "none" => PutBack(clocked) = clocked.m
<1>1. CASE pending.kind = "none"
  <2>1. PutBack(clocked) = clocked.m
    BY <1>1 DEF PutBack
  <2> QED BY <2>1
<1>2. CASE pending.kind = "instruction"
  <2> DEFINE restored == [clocked.m EXCEPT !.flash = Updated(@, pending.original)]
  <2>1. PutBack(clocked) = Resumed(restored)
    BY <1>2 DEF PutBack
  <2>2. /\ DOMAIN restored = Members /\ restored.psr = clocked.m.psr /\ restored.code = clocked.m.code
        /\ restored.branched = clocked.m.branched /\ restored.reg = clocked.m.reg
    BY DEF Members
  <2> HIDE DEF restored
  <2>3. /\ Resumed(restored).psr = restored.psr /\ Resumed(restored).code = restored.code
        /\ Resumed(restored).branched = restored.branched
        /\ \A r \in RegisterFile \ {PC} : Resumed(restored).reg[r] = restored.reg[r]
    BY <2>2 DEF Resumed, Members
  <2> QED BY <1>2, <2>1, <2>2, <2>3
<1> QED BY <1>1, <1>2

(* No fault leaves ~increment_pc behind.                                   *)
LEMMA PutBackBranched ==
  ASSUME NEW clocked, DOMAIN clocked.m = Members
  PROVE  PutBack(clocked).branched = clocked.m.branched
<1>1. \A flash : LET n == [clocked.m EXCEPT !.flash = flash]
                 IN  DOMAIN n = Members /\ n.branched = clocked.m.branched
  BY DEF Members
<1>2. \A m : DOMAIN m = Members => Resumed(m).branched = m.branched
  BY DEF Resumed, Members
<1>3. \A r, bits : SetRegister(clocked.m, r, bits).branched = clocked.m.branched
  BY DEF SetRegister, SetPSR, Members
<1> QED BY <1>1, <1>2, <1>3 DEF PutBack

(* clock_cpu on a comparison of registers, or a subtraction with the carry  *)
(* of one, outside of a block.                                              *)
LEMMA ComparisonClocked ==
  ASSUME NEW m, Mirrored(m), m.code = "OK", NEW n \in Nat, m.flash \in [0 .. n - 1 -> Byte],
         Registered(m), ~InITBlock(m), IsOK(ClockCPU(m).i), OnlyRegisters(ClockCPU(m).i),
         ClockCPU(m).i.amount = 0, ClockCPU(m).i.name \in {"CMP", "SBC"},
         ClockCPU(m).i.S \/ ClockCPU(m).i.name = "CMP"
  PROVE  LET i == ClockCPU(m).i
             o == ClockCPU(m).m
         IN  /\ i.Rn \in RegisterFile \ {PC} /\ i.Rm \in RegisterFile \ {PC}
             /\ DOMAIN o.reg = RegisterFile
             /\ FlagsOf(o.psr, AddWithCarry(m.reg[i.Rn], Not(m.reg[i.Rm]), CarryIn(m, i)))
             /\ i.name = "CMP" => \A r \in RegisterFile \ {PC} : o.reg[r] = m.reg[r]
<1> DEFINE i == ClockCPU(m).i
           size == SizeAt(m, m.reg[PC])
           executed == Execute(m, i, size)
<1>1. i.code = "OK" /\ Runnable(i) /\ ClockCPU(m).m = Committed(executed)
  BY ClockRuns
<1>2. DOMAIN m.reg = RegisterFile
  BY DEF Registered
<1>3. m.psr.C \in {0, 1}
  <2>1. m.psr = Fields(m.xpsr)
    BY DEF Mirrored
  <2> QED BY <2>1 DEF Fields
<1> HIDE DEF i, size
<1>4. /\ OnlyRegisters(i) /\ i.amount = 0 /\ i.name \in {"CMP", "SBC"} /\ (i.S \/ i.name = "CMP")
  BY DEF i
<1>5. /\ executed.code = "OK" /\ executed.updated
      /\ DOMAIN executed = Members /\ DOMAIN executed.reg = RegisterFile
      /\ i.Rn \in RegisterFile \ {PC} /\ i.Rm \in RegisterFile \ {PC}
      /\ FlagsOf(executed.psr, AddWithCarry(m.reg[i.Rn], Not(m.reg[i.Rm]), CarryIn(m, i)))
      /\ i.name = "CMP" => \A r \in RegisterFile \ {PC} : executed.reg[r] = m.reg[r]
  BY <1>1, <1>2, <1>4, ComparesRegisters
<1> HIDE DEF executed
<1>6. m.reg[i.Rn] \in Word /\ m.reg[i.Rm] \in Word
  BY <1>5 DEF Registered
<1>7. CarryIn(m, i) \in {0, 1}
  BY <1>3 DEF CarryIn
<1>8. /\ Committed(executed).reg = executed.reg
      /\ FlagsOf(Committed(executed).psr, AddWithCarry(m.reg[i.Rn], Not(m.reg[i.Rm]), CarryIn(m, i)))
  <2> DEFINE x == m.reg[i.Rn]
             y == m.reg[i.Rm]
             c == CarryIn(m, i)
  <2>1. x \in Word /\ y \in Word /\ c \in {0, 1} /\ FlagsOf(executed.psr, AddWithCarry(x, Not(y), c))
    BY <1>5, <1>6, <1>7
  <2> HIDE DEF x, y, c
  <2>2. Committed(executed).reg = executed.reg /\ FlagsOf(Committed(executed).psr, AddWithCarry(x, Not(y), c))
    BY <1>5, <2>1, CommittedFlags
  <2> QED BY <2>2 DEF x, y, c
<1> QED BY <1>1, <1>5, <1>8 DEF i

(* clock_cpu on a conditional branch, outside of a block.                   *)
LEMMA BranchClocked ==
  ASSUME NEW m, Mirrored(m), m.code = "OK", NEW n \in Nat, m.flash \in [0 .. n - 1 -> Byte],
         Registered(m), ~m.branched, ~InITBlock(m), IsOK(ClockCPU(m).i),
         ClockCPU(m).i.name = "B", ClockCPU(m).i.condition < 14
  PROVE  LET i == ClockCPU(m).i
             pc == m.reg[PC]
         IN  /\ i.condition \in 0 .. 13
             /\ ClockCPU(m).m.reg[PC] = IF ConditionHolds(i.condition, m.psr)
                                        THEN Align(Wrap(pc + 4 + i.imm), 2)
                                        ELSE Wrap(pc + SizeAt(m, pc))
<1> DEFINE i == ClockCPU(m).i
           size == SizeAt(m, m.reg[PC])
           executed == Execute(m, i, size)
<1>1. i.code = "OK" /\ Runnable(i) /\ ClockCPU(m).m = Committed(executed) /\ size \in {2, 4}
  BY ClockRuns
<1> HIDE DEF size
<1>2. i.name = "B" /\ i.imm \in Int /\ i.condition \in 0 .. 13
  <2>1. i.name = "B" /\ i.condition < 14
    OBVIOUS
  <2> HIDE DEF i
  <2> QED BY <1>1, <2>1 DEF Runnable, Measured
<1> HIDE DEF i
<1>3. DOMAIN m = Members
  BY DEF Mirrored
<1>4. /\ executed.reg[PC] = IF ConditionHolds(i.condition, m.psr)
                            THEN Align(Wrap(m.reg[PC] + 4 + i.imm), 2)
                            ELSE Wrap(m.reg[PC] + size)
      /\ DOMAIN executed = Members
  BY <1>1, <1>2, <1>3, BranchGoes
<1> HIDE DEF executed
<1>5. Committed(executed).reg = executed.reg
  BY <1>4, CommittedKeeps
<1> QED BY <1>1, <1>2, <1>4, <1>5 DEF i, size

(* clock_cpu leaves no branch behind, whether or not something was executed. *)
LEMMA ClockBranched ==
  ASSUME NEW m, Mirrored(m), m.code = "OK", ~m.branched
  PROVE  ~ClockCPU(m).m.branched
<1> DEFINE code == ValidateAddress(m, m.reg[PC])
           i == Decode(Fetched(m))
           executed == Execute(m, i, SizeAt(m, m.reg[PC]))
<1>1. Honest(m, m) /\ DOMAIN m = Members
  BY MirroredHonest DEF Mirrored
<1>2. ~Committed(executed).branched
  <2>1. After(m, executed)
    BY <1>1, ExecuteAfter
  <2> HIDE DEF executed
  <2>2. DOMAIN executed = Members
    BY <2>1 DEF After, Honest
  <2> QED BY <2>2, CommittedKeeps
<1>3. \A c : ~Fail(m, c).branched
  BY <1>1 DEF Fail, Members
<1>4. /\ code # "OK" => ClockCPU(m).m = Fail(m, code)
      /\ code = "OK" /\ i.code # "OK" => ClockCPU(m).m = Fail(m, i.code)
      /\ code = "OK" /\ i.code = "OK" => ClockCPU(m).m = Committed(executed)
  BY DEF ClockCPU, IsOK
<1> HIDE DEF code, i, executed
<1> QED BY <1>2, <1>3, <1>4

-----------------------------------------------------------------------------
(* The invariant. *)

(* IsComparison and ComparisonsDecide, for any past p and emulator m.       *)
ComparisonAt(p, k, names) ==
  /\ k \in DOMAIN p
  /\ p[k].i.name \in names /\ OnlyRegisters(p[k].i) /\ p[k].i.amount = 0
  /\ p[k].i.S \/ p[k].i.name = "CMP"
  /\ p[k].fault.kind \in {"none", "instruction"} /\ ~p[k].inIT

(* What a branch that is the last of p has decided.                         *)
Decides(p, m) ==
  LET n == Len(p)
      branch == p[n]
      pc == branch.reg[PC]
      first == p[n - 1].i
      pair == p[n - 2].i
      registers == p[n - 2].reg
      word(high, low) == registers[high] * 2^Width + registers[low]
      decided(relations) ==
        m.reg[PC] = IF relations[branch.i.condition + 1]
                    THEN Align(Wrap(pc + 4 + branch.i.imm), 2) ELSE Wrap(pc + SizeAt(m, pc))
  IN  n >= 2 /\ branch.i.name = "B"
        /\ branch.i.condition < 14 /\ branch.fault = NoFault /\ ~branch.inIT =>
        /\ ComparisonAt(p, n - 1, {"CMP"}) =>
             decided(Compared(p[n - 1].reg[first.Rn], p[n - 1].reg[first.Rm], Width))
        /\ ComparisonAt(p, n - 2, {"CMP"}) /\ ComparisonAt(p, n - 1, {"SBC"})
             /\ branch.i.condition \in {2, 3, 10, 11} =>
             decided(Compared(word(first.Rn, pair.Rn), word(first.Rm, pair.Rm), 2 * Width))

(* They are the operators of Processor.                                     *)
LEMMA DecidesPast ==
  /\ ComparisonsDecide <=> (emu.code = "OK" /\ pending = NoFault => Decides(past, emu))
  /\ ComparisonsDecide' <=> (emu'.code = "OK" /\ pending' = NoFault => Decides(past', emu'))
<1>1. \A k, names : /\ IsComparison(k, names) <=> ComparisonAt(past, k, names)
                    /\ IsComparison(k, names)' <=> ComparisonAt(past', k, names)
  BY DEF IsComparison, ComparisonAt
<1>2. ComparisonsDecide <=> (emu.code = "OK" /\ pending = NoFault => Decides(past, emu))
  BY <1>1, Zenon DEF ComparisonsDecide, Decides
<1>3. ComparisonsDecide' <=> (emu'.code = "OK" /\ pending' = NoFault => Decides(past', emu'))
  BY <1>1, Zenon DEF ComparisonsDecide, Decides
<1> QED BY <1>2, <1>3

(* A comparison that reads registers that exist, other than PC.             *)
Named(i) == i.Rn \in RegisterFile \ {PC} /\ i.Rm \in RegisterFile \ {PC}

(* What the comparison e of the past computes.                              *)
ComparisonOf(e) == AddWithCarry(e.reg[e.i.Rn], Not(e.reg[e.i.Rm]), 1)

(* What the subtraction e with the carry of the comparison first computes,  *)
(* from the registers before both.                                          *)
PairOf(first, e) ==
  AddWithCarry(first.reg[e.i.Rn], Not(first.reg[e.i.Rm]), ComparisonOf(first).carry)

(* The flags are those of the comparison that was executed last.            *)
JustCompared(p, m) ==
  LET n == Len(p)
  IN  /\ ComparisonAt(p, n, {"CMP"}) =>
           /\ Named(p[n].i) /\ FlagsOf(m.psr, ComparisonOf(p[n]))
           /\ \A r \in RegisterFile \ {PC} : m.reg[r] = p[n].reg[r]
      /\ ComparisonAt(p, n - 1, {"CMP"}) /\ ComparisonAt(p, n, {"SBC"}) =>
           /\ Named(p[n].i) /\ Named(p[n - 1].i)
           /\ FlagsOf(m.psr, PairOf(p[n - 1], p[n]))

(* The registers of a past are words. *)
RegisteredIn(p) == \A k \in DOMAIN p : Registered(p[k])

(* One more entry leaves the others where they are.                         *)
LEMMA OneMore ==
  ASSUME NEW S, NEW p \in Seq(S), NEW e
  PROVE  LET q == Append(p, e)
             n == Len(p)
         IN  /\ n \in Nat /\ DOMAIN p = 1 .. n /\ Len(q) = n + 1 /\ q[n + 1] = e
             /\ Len(q) - 1 = n /\ Len(q) - 2 = n - 1
             /\ \A k \in DOMAIN p : q[k] = p[k]
             /\ \A k, names : k # n + 1 /\ ComparisonAt(q, k, names) => k \in DOMAIN p /\ ComparisonAt(p, k, names)
<1> DEFINE U == S \union {e}
           q == Append(p, e)
           n == Len(p)
<1>1. n \in Nat /\ DOMAIN p = 1 .. n
  OBVIOUS
<1>2. Len(q) = n + 1
  <2>1. p \in Seq(U) /\ e \in U
    OBVIOUS
  <2> HIDE DEF U
  <2> QED BY <2>1
<1>3. Extended(p, e, q)
  BY OpenedAppend
<1> HIDE DEF q, n
<1>4. q[n + 1] = e /\ (\A k \in DOMAIN p : q[k] = p[k]) /\ DOMAIN q = DOMAIN p \union {n + 1}
  BY <1>3 DEF Extended, n
<1>5. \A k, names : k # n + 1 /\ ComparisonAt(q, k, names) => k \in DOMAIN p /\ ComparisonAt(p, k, names)
  BY <1>4 DEF ComparisonAt
<1>6. Len(q) - 1 = n /\ Len(q) - 2 = n - 1
  BY <1>1, <1>2
<1> QED BY <1>1, <1>2, <1>4, <1>5, <1>6 DEF q, n

(* One more comparison is the last one.                                     *)
LEMMA ComparedAppend ==
  ASSUME NEW S, NEW p \in Seq(S), RegisteredIn(p), NEW e, NEW m, NEW o,
         e.reg = m.reg, e.fault.kind \in {"none", "instruction"} => JustCompared(p, m),
         OnlyRegisters(e.i) /\ e.i.amount = 0 /\ e.i.name \in {"CMP", "SBC"}
           /\ (e.i.S \/ e.i.name = "CMP") /\ ~e.inIT /\ e.fault.kind \in {"none", "instruction"} =>
             /\ Named(e.i)
             /\ FlagsOf(o.psr, AddWithCarry(m.reg[e.i.Rn], Not(m.reg[e.i.Rm]), CarryIn(m, e.i)))
             /\ e.i.name = "CMP" => \A r \in RegisterFile \ {PC} : o.reg[r] = m.reg[r]
  PROVE  JustCompared(Append(p, e), o)
<1> DEFINE q == Append(p, e)
           n == Len(p)
<1>1. /\ n \in Nat /\ DOMAIN p = 1 .. n /\ Len(q) = n + 1 /\ q[n + 1] = e /\ Len(q) - 1 = n
      /\ \A k \in DOMAIN p : q[k] = p[k]
      /\ \A k, names : k # n + 1 /\ ComparisonAt(q, k, names) => k \in DOMAIN p /\ ComparisonAt(p, k, names)
  BY OneMore
<1> HIDE DEF q, n
<1>2. n # n + 1
  BY <1>1
<1>3. \A names : ComparisonAt(q, n, names) => n \in DOMAIN p /\ q[n] = p[n] /\ ComparisonAt(p, n, names)
  BY <1>1, <1>2
<1>4. \A names : ComparisonAt(q, n + 1, names) =>
        /\ OnlyRegisters(e.i) /\ e.i.amount = 0 /\ e.i.name \in names
        /\ (e.i.S \/ e.i.name = "CMP") /\ ~e.inIT /\ e.fault.kind \in {"none", "instruction"}
  BY <1>1 DEF ComparisonAt
<1>5. ASSUME ComparisonAt(q, n + 1, {"CMP"})
      PROVE  /\ Named(e.i) /\ FlagsOf(o.psr, ComparisonOf(e))
             /\ \A r \in RegisterFile \ {PC} : o.reg[r] = e.reg[r]
  <2>1. e.i.name = "CMP" /\ CarryIn(m, e.i) = 1
    BY <1>4, <1>5 DEF CarryIn
  <2>2. /\ Named(e.i)
        /\ FlagsOf(o.psr, AddWithCarry(m.reg[e.i.Rn], Not(m.reg[e.i.Rm]), CarryIn(m, e.i)))
        /\ \A r \in RegisterFile \ {PC} : o.reg[r] = m.reg[r]
    BY <1>4, <1>5, <2>1
  <2> QED BY <2>1, <2>2 DEF ComparisonOf
<1>6. ASSUME ComparisonAt(q, n, {"CMP"}), ComparisonAt(q, n + 1, {"SBC"})
      PROVE  Named(e.i) /\ Named(p[n].i) /\ FlagsOf(o.psr, PairOf(p[n], e))
  <2> DEFINE s == ComparisonOf(p[n])
  <2>1. JustCompared(p, m) /\ ComparisonAt(p, n, {"CMP"}) /\ e.i.name = "SBC"
    BY <1>3, <1>4, <1>6
  <2>2. /\ Named(p[n].i) /\ FlagsOf(m.psr, s)
        /\ \A r \in RegisterFile \ {PC} : m.reg[r] = p[n].reg[r]
    BY <2>1 DEF JustCompared, n
  <2>3. /\ Named(e.i)
        /\ FlagsOf(o.psr, AddWithCarry(m.reg[e.i.Rn], Not(m.reg[e.i.Rm]), CarryIn(m, e.i)))
    BY <1>4, <1>6, <2>1
  <2> HIDE DEF s
  <2>4. CarryIn(m, e.i) = s.carry
    BY <2>1, <2>2 DEF CarryIn, FlagsOf
  <2>5. m.reg[e.i.Rn] = p[n].reg[e.i.Rn] /\ m.reg[e.i.Rm] = p[n].reg[e.i.Rm]
    BY <2>2, <2>3 DEF Named
  <2>6. PairOf(p[n], e) = AddWithCarry(p[n].reg[e.i.Rn], Not(p[n].reg[e.i.Rm]), s.carry)
    BY DEF PairOf, s
  <2> QED BY <2>2, <2>3, <2>4, <2>5, <2>6
<1>7. JustCompared(q, o)
  BY <1>1, <1>3, <1>5, <1>6 DEF JustCompared
<1> QED BY <1>7 DEF q

(* A conditional branch after a comparison decides as the relation says.    *)
LEMMA BranchDecides ==
  ASSUME NEW S, NEW p \in Seq(S), RegisteredIn(p), NEW e, NEW m, NEW o,
         e.reg = m.reg,
         e.fault = NoFault => JustCompared(p, m) /\ SizeAt(o, m.reg[PC]) = SizeAt(m, m.reg[PC]),
         e.i.name = "B" /\ e.i.condition < 14 /\ ~e.inIT /\ e.fault = NoFault =>
           /\ e.i.condition \in 0 .. 13
           /\ o.reg[PC] = IF ConditionHolds(e.i.condition, m.psr)
                          THEN Align(Wrap(m.reg[PC] + 4 + e.i.imm), 2)
                          ELSE Wrap(m.reg[PC] + SizeAt(m, m.reg[PC]))
  PROVE  Decides(Append(p, e), o)
<1> DEFINE q == Append(p, e)
           n == Len(p)
           pc == m.reg[PC]
           aim == Align(Wrap(pc + 4 + e.i.imm), 2)
           after == Wrap(pc + SizeAt(m, pc))
           decided(relations) == o.reg[PC] = IF relations[e.i.condition + 1] THEN aim ELSE after
           word(registers, high, low) == registers[high] * 2^Width + registers[low]
           first == p[n].i
           pair == p[n - 1].i
<1>1. /\ n \in Nat /\ DOMAIN p = 1 .. n /\ Len(q) = n + 1 /\ q[n + 1] = e
      /\ Len(q) - 1 = n /\ Len(q) - 2 = n - 1
      /\ \A k \in DOMAIN p : q[k] = p[k]
      /\ \A k, names : k # n + 1 /\ ComparisonAt(q, k, names) => k \in DOMAIN p /\ ComparisonAt(p, k, names)
  BY OneMore
<1>2. n # n + 1 /\ n - 1 # n + 1 /\ (Len(q) >= 2 <=> n >= 1) /\ (n >= 1 => n \in DOMAIN p)
  <2> HIDE DEF q, n
  <2> QED BY <1>1
<1> HIDE DEF q
<1>3. SUFFICES ASSUME n >= 1, e.i.name = "B", e.i.condition < 14, e.fault = NoFault, ~e.inIT
               PROVE  /\ ComparisonAt(p, n, {"CMP"}) =>
                           decided(Compared(p[n].reg[first.Rn], p[n].reg[first.Rm], Width))
                      /\ ComparisonAt(p, n - 1, {"CMP"}) /\ ComparisonAt(p, n, {"SBC"})
                           /\ e.i.condition \in {2, 3, 10, 11} =>
                           decided(Compared(word(p[n - 1].reg, first.Rn, pair.Rn),
                                            word(p[n - 1].reg, first.Rm, pair.Rm), 2 * Width))
  <2> HIDE DEF n
  <2>1. n >= 1 => q[n] = p[n]
    BY <1>1, <1>2
  <2>2. \A names : /\ ComparisonAt(q, n, names) => ComparisonAt(p, n, names)
                   /\ ComparisonAt(q, n - 1, names) => q[n - 1] = p[n - 1] /\ ComparisonAt(p, n - 1, names)
    BY <1>1, <1>2
  <2>4. Decides(q, o)
    BY <1>1, <1>2, <1>3, <2>1, <2>2 DEF Decides
  <2> QED BY <2>4 DEF q
<1>4. /\ e.i.condition \in 0 .. 13 /\ JustCompared(p, m)
      /\ o.reg[PC] = IF ConditionHolds(e.i.condition, m.psr) THEN aim ELSE after
  BY <1>3
<1>5. ASSUME ComparisonAt(p, n, {"CMP"})
      PROVE  decided(Compared(p[n].reg[first.Rn], p[n].reg[first.Rm], Width))
  <2> DEFINE x == p[n].reg[first.Rn]
             y == p[n].reg[first.Rm]
  <2>1. Named(first) /\ FlagsOf(m.psr, ComparisonOf(p[n])) /\ n \in DOMAIN p
    BY <1>4, <1>5 DEF JustCompared, ComparisonAt
  <2>2. x \in Word /\ y \in Word
    BY <2>1 DEF RegisteredIn, Registered, Named
  <2>3. FlagsOf(m.psr, AddWithCarry(x, Not(y), 1))
    BY <2>1 DEF ComparisonOf
  <2> HIDE DEF x, y
  <2>4. ConditionHolds(e.i.condition, m.psr) <=> Compared(x, y, Width)[e.i.condition + 1]
    BY <1>4, <2>2, <2>3, WordsCompare
  <2> HIDE DEF aim, after
  <2>5. decided(Compared(x, y, Width))
    BY <1>4, <2>4
  <2> QED BY <2>5 DEF x, y
<1>6. ASSUME ComparisonAt(p, n - 1, {"CMP"}), ComparisonAt(p, n, {"SBC"}), e.i.condition \in {2, 3, 10, 11}
      PROVE  decided(Compared(word(p[n - 1].reg, first.Rn, pair.Rn),
                              word(p[n - 1].reg, first.Rm, pair.Rm), 2 * Width))
  <2> DEFINE registers == p[n - 1].reg
             a == registers[first.Rn]
             b == registers[first.Rm]
             x == registers[pair.Rn]
             y == registers[pair.Rm]
  <2>1. Named(first) /\ Named(pair) /\ FlagsOf(m.psr, PairOf(p[n - 1], p[n])) /\ n - 1 \in DOMAIN p
    BY <1>4, <1>6 DEF JustCompared, ComparisonAt
  <2>2. a \in Word /\ b \in Word /\ x \in Word /\ y \in Word
    <3>1. registers \in [RegisterFile -> Word]
      BY <2>1 DEF RegisteredIn, Registered
    <3> HIDE DEF registers
    <3> QED BY <2>1, <3>1 DEF Named
  <2>3. FlagsOf(m.psr, AddWithCarry(a, Not(b), AddWithCarry(x, Not(y), 1).carry))
    BY <2>1 DEF PairOf, ComparisonOf
  <2> HIDE DEF a, b, x, y
  <2>4. ConditionHolds(e.i.condition, m.psr)
          <=> Compared(a * 2^Width + x, b * 2^Width + y, 2 * Width)[e.i.condition + 1]
    BY <1>6, <2>2, <2>3, DoublesCompare
  <2> HIDE DEF aim, after
  <2>5. decided(Compared(a * 2^Width + x, b * 2^Width + y, 2 * Width))
    BY <1>4, <2>4
  <2> QED BY <2>5 DEF a, b, x, y
<1> QED BY <1>5, <1>6

(* The registers hold words.                                               *)
RegisterWords == Registered(emu)

(* The inductive invariant, as long as the registers hold words.            *)
CompareInv ==
  /\ ExecInv
  /\ ~emu.branched
  /\ RegisteredIn(past)
  /\ emu.code = "OK" /\ pending.kind \in {"none", "instruction"} => JustCompared(past, emu)
  /\ ComparisonsDecide

(* Init establishes it. *)
LEMMA CompareInit == Init => CompareInv
<1> SUFFICES ASSUME Init PROVE CompareInv
  OBVIOUS
<1>1. past = <<>> /\ DOMAIN past = {} /\ Len(past) = 0
  BY DEF Init
<1>2. ~emu.branched
  BY DEF Init, Started
<1>3. RegisteredIn(past)
  BY <1>1 DEF RegisteredIn
<1>4. JustCompared(past, emu)
  BY <1>1 DEF JustCompared, ComparisonAt
<1>5. ComparisonsDecide
  BY <1>1 DEF ComparisonsDecide
<1> QED BY <1>2, <1>3, <1>4, <1>5, ExecInit DEF CompareInv

(* An instruction preserves it.                                            *)
LEMMA ClockCompared ==
  CompareInv /\ RegisterWords /\ Clock =>
    /\ ~emu'.branched /\ RegisteredIn(past')
    /\ emu'.code = "OK" => JustCompared(past', emu') /\ Decides(past', emu')
<1> SUFFICES ASSUME CompareInv, RegisterWords, Clock
             PROVE  /\ ~emu'.branched /\ RegisteredIn(past')
                    /\ emu'.code = "OK" => JustCompared(past', emu') /\ Decides(past', emu')
  OBVIOUS
<1> DEFINE clocked == ClockCPU(emu)
           i == clocked.i
           m == clocked.m
           e == [i |-> i, reg |-> emu.reg, inIT |-> InITBlock(emu), code |-> m.code, fault |-> pending]
           pc == emu.reg[PC]
           Kind == {"none", "instruction"}
<1>1. /\ emu.code = "OK" /\ emu' = PutBack(clocked)
      /\ past' = IF IsOK(i) THEN Append(past, e) ELSE past
  BY DEF Clock, Running
<1>2. Mirrored(emu) /\ DOMAIN emu = Members /\ FaultInv /\ ~emu.branched /\ RegisteredIn(past) /\ Registered(emu)
  BY DEF CompareInv, ExecInv, BlockInv, MirrorInv, Mirrored, RegisterWords
<1>3. PICK n \in Nat : emu.flash \in [0 .. n - 1 -> Byte]
  BY <1>2 DEF FaultInv
<1>4. PICK S : past \in Seq(S)
  BY <1>2 DEF FaultInv
<1>5. Mirrored(m) /\ Stepped(emu, clocked) /\ ~m.branched
  BY <1>1, <1>2, <1>3, ClockMirrored, ClockStepped, ClockBranched
<1>6. IsOK(i) /\ OnlyRegisters(i) /\ i.amount = 0 /\ i.name \in {"CMP", "SBC"}
        /\ (i.S \/ i.name = "CMP") /\ ~InITBlock(emu) =>
        /\ Named(i) /\ DOMAIN m.reg = RegisterFile
        /\ FlagsOf(m.psr, AddWithCarry(emu.reg[i.Rn], Not(emu.reg[i.Rm]), CarryIn(emu, i)))
        /\ i.name = "CMP" => \A r \in RegisterFile \ {PC} : m.reg[r] = emu.reg[r]
  BY <1>1, <1>2, <1>3, ComparisonClocked DEF Named
<1>7. IsOK(i) /\ i.name = "B" /\ i.condition < 14 /\ ~InITBlock(emu) =>
        /\ i.condition \in 0 .. 13
        /\ m.reg[PC] = IF ConditionHolds(i.condition, emu.psr)
                       THEN Align(Wrap(pc + 4 + i.imm), 2) ELSE Wrap(pc + SizeAt(emu, pc))
  BY <1>1, <1>2, <1>3, BranchClocked
<1> HIDE DEF clocked
<1>8. DOMAIN m = Members
  BY <1>5 DEF Mirrored
<1>9. pending.kind \in Kind /\ DOMAIN m.reg = RegisterFile =>
        emu'.psr = m.psr /\ \A r \in RegisterFile \ {PC} : emu'.reg[r] = m.reg[r]
  BY <1>1, <1>8, PutBackKeeps
<1>10. pending.kind = "none" => emu' = m
  BY <1>1 DEF PutBack
<1>11. ~emu'.branched /\ emu'.code = m.code
  BY <1>1, <1>5, <1>8, PutBackBranched, PutBackAfter
<1>12. m.code = "OK" => IsOK(i)
  BY <1>5 DEF Stepped
<1>13. e.i = i /\ e.reg = emu.reg /\ e.inIT = InITBlock(emu) /\ e.fault = pending
  OBVIOUS
<1> HIDE DEF i, m, e
<1>14. pending.kind \in Kind => JustCompared(past, emu)
  BY <1>1 DEF CompareInv
<1>15. RegisteredIn(past')
  <2>1. IsOK(i) => RegisteredIn(Append(past, e))
    <3>1. Extended(past, e, Append(past, e))
      BY <1>4, OpenedAppend
    <3> QED BY <1>2, <1>13, <3>1 DEF Extended, RegisteredIn, Registered
  <2> QED BY <1>1, <1>2, <2>1
<1>16. ASSUME emu'.code = "OK" PROVE JustCompared(past', emu') /\ Decides(past', emu')
  <2>1. IsOK(i) /\ past' = Append(past, e)
    BY <1>1, <1>11, <1>12, <1>16
  <2>2. JustCompared(Append(past, e), emu')
    <3>1. OnlyRegisters(e.i) /\ e.i.amount = 0 /\ e.i.name \in {"CMP", "SBC"}
            /\ (e.i.S \/ e.i.name = "CMP") /\ ~e.inIT /\ e.fault.kind \in {"none", "instruction"} =>
            /\ Named(e.i)
            /\ FlagsOf(emu'.psr, AddWithCarry(emu.reg[e.i.Rn], Not(emu.reg[e.i.Rm]), CarryIn(emu, e.i)))
            /\ e.i.name = "CMP" => \A r \in RegisterFile \ {PC} : emu'.reg[r] = emu.reg[r]
      BY <1>6, <1>9, <1>13, <2>1
    <3> QED BY <1>2, <1>4, <1>13, <1>14, <3>1, ComparedAppend
  <2>3. Decides(Append(past, e), emu')
    <3>1. e.fault = NoFault => JustCompared(past, emu) /\ SizeAt(emu', pc) = SizeAt(emu, pc)
      <4>1. pending.kind = "none" => emu'.flash = emu.flash
        BY <1>5, <1>10 DEF Stepped, m
      <4>2. e.fault = NoFault => pending.kind = "none"
        BY <1>13 DEF NoFault
      <4> QED BY <1>14, <4>1, <4>2 DEF SizeAt, HalfwordAt
    <3>2. e.i.name = "B" /\ e.i.condition < 14 /\ ~e.inIT /\ e.fault = NoFault =>
            /\ e.i.condition \in 0 .. 13
            /\ emu'.reg[PC] = IF ConditionHolds(e.i.condition, emu.psr)
                              THEN Align(Wrap(pc + 4 + e.i.imm), 2) ELSE Wrap(pc + SizeAt(emu, pc))
      BY <1>7, <1>10, <1>13, <2>1 DEF NoFault
    <3> QED BY <1>2, <1>4, <1>13, <3>1, <3>2, BranchDecides
  <2> QED BY <2>1, <2>2, <2>3
<1> QED BY <1>11, <1>15, <1>16

(* Every step does.                                                        *)
LEMMA CompareStep == CompareInv /\ RegisterWords /\ [Next]_vars => CompareInv'
<1> SUFFICES ASSUME CompareInv, RegisterWords, [Next]_vars PROVE CompareInv'
  OBVIOUS
<1>1. ExecInv /\ ExecInv'
  BY ExecStep DEF CompareInv
<1>2. /\ Mirrored(emu) /\ DOMAIN emu = Members /\ FaultInv /\ ~emu.branched /\ RegisteredIn(past)
      /\ DOMAIN emu.reg = RegisterFile
  BY <1>1 DEF CompareInv, ExecInv, BlockInv, MirrorInv, Mirrored, RegisterWords, Registered
<1> DEFINE Kept == /\ ~emu'.branched /\ RegisteredIn(past')
                   /\ emu'.code = "OK" /\ pending'.kind \in {"none", "instruction"} => JustCompared(past', emu')
                   /\ emu'.code = "OK" /\ pending' = NoFault => Decides(past', emu')
<1>3. SUFFICES Kept
  BY <1>1, DecidesPast DEF CompareInv
<1>4. CASE Clock
  BY <1>4, ClockCompared
<1>5. CASE Stop
  <2>1. past' = past /\ emu'.code # "OK" /\ emu'.branched = emu.branched
    BY <1>2, <1>5 DEF Stop, Fail, Members
  <2> QED BY <1>2, <2>1
<1>6. ASSUME NEW model, NEW iteration, FaultInstruction(model, iteration)
      PROVE  Kept
  <2>1. PICK bytes : emu' = Resumed([emu EXCEPT !.flash = bytes])
    BY <1>6 DEF FaultInstruction
  <2>2. past' = past /\ target.instructions /\ pending'.kind = "instruction" /\ emu.code = "OK"
    BY <1>6 DEF FaultInstruction, Running
  <2>3. /\ emu'.psr = emu.psr /\ emu'.branched = emu.branched
        /\ \A r \in RegisterFile \ {PC} : emu'.reg[r] = emu.reg[r]
    <3> DEFINE other == [emu EXCEPT !.flash = bytes]
    <3>1. /\ DOMAIN other = Members /\ other.psr = emu.psr /\ other.branched = emu.branched
          /\ other.reg = emu.reg
      BY <1>2 DEF Members
    <3> HIDE DEF other
    <3>2. /\ Resumed(other).psr = other.psr /\ Resumed(other).branched = other.branched
          /\ \A r \in RegisterFile \ {PC} : Resumed(other).reg[r] = other.reg[r]
      BY <1>2, <3>1 DEF Resumed, Members
    <3> QED BY <2>1, <3>1, <3>2 DEF other
  <2>4. JustCompared(past, emu)
    <3>1. pending.kind = "none"
      BY <1>2, <2>2 DEF FaultInv
    <3> QED BY <2>2, <3>1 DEF CompareInv
  <2>5. JustCompared(past, emu')
    BY <2>3, <2>4 DEF JustCompared
  <2>6. pending' # NoFault
    BY <2>2 DEF NoFault
  <2> QED BY <1>2, <2>2, <2>3, <2>5, <2>6
<1>7. ASSUME NEW r \in target.registers, NEW type \in {"transient", "until_overwrite"},
             NEW model, NEW iteration, FaultRegister(r, type, model, iteration)
      PROVE  Kept
  <2>1. PICK bits : emu' = Resumed(SetRegister(emu, r, bits))
    BY <1>7 DEF FaultRegister
  <2>2. pending'.kind = type /\ past' = past
    BY <1>7 DEF FaultRegister
  <2>3. emu'.branched = emu.branched
    <3> DEFINE written == SetRegister(emu, r, bits)
    <3>1. DOMAIN written = Members /\ written.branched = emu.branched
      BY <1>2 DEF SetRegister, SetPSR, Members
    <3> HIDE DEF written
    <3>2. Resumed(written).branched = written.branched
      BY <3>1 DEF Resumed, Members
    <3> QED BY <2>1, <3>1, <3>2 DEF written
  <2>4. pending' # NoFault /\ pending'.kind \notin {"none", "instruction"}
    BY <2>2 DEF NoFault
  <2> QED BY <1>2, <2>2, <2>3, <2>4
<1>8. CASE UNCHANGED vars
  <2>1. emu' = emu /\ past' = past /\ pending' = pending
    BY <1>8 DEF vars
  <2>2. emu.code = "OK" /\ pending = NoFault => Decides(past, emu)
    BY DecidesPast DEF CompareInv
  <2>3. emu.code = "OK" /\ pending.kind \in {"none", "instruction"} => JustCompared(past, emu)
    BY DEF CompareInv
  <2> QED BY <1>2, <2>1, <2>2, <2>3
<1> QED BY <1>4, <1>5, <1>6, <1>7, <1>8 DEF Next

(* A conditional branch after a comparison goes where the relation of its   *)
(* condition says, for words of any width, any program and any fault.       *)
THEOREM ComparisonsAreDecided == Spec /\ []RegisterWords => []ComparisonsDecide
<1>1. CompareInv => ComparisonsDecide
  BY DEF CompareInv
<1> QED BY <1>1, CompareInit, CompareStep, PTL DEF Spec
=============================================================================
