------------------------------- MODULE Decoder -------------------------------
(***************************************************************************)
(* InstructionDecoder::decode_instruction.                                 *)
(***************************************************************************)
EXTENDS Decoder16, DecoderMultiple, DecoderData, DecoderControl, DecoderMemory, DecoderRegister

\* Coprocessor instructions are recognised and not implemented.  The code asks
\* for op1 and op2 again after other groups have assigned to them; what those
\* leave there is never op1 = x1 with op2 = 1xxxxxx.
Coprocessor(w) ==
  IF Bits(w.H, 9, 4) \in 2..47 THEN From7(w, Refuse("NOT_IMPLEMENTED"))
  ELSE Refuse("UNKNOWN_INSTRUCTION")

Decode32(w) ==
  LET op1 == Bits(w.H, 12, 11)
      op2 == Bits(w.H, 10, 9)
  IN  CASE op1 = 1 /\ op2 = 0 /\ ~IsSet(w.H, 6) -> LoadStoreMultipleOrNone(w)
        [] op1 = 1 /\ op2 = 0 /\ IsSet(w.H, 6) -> DualExclusiveTable(w)
        [] op1 = 1 /\ op2 = 1 -> ShiftedRegister(w)
        [] op1 = 2 /\ ~IsSet(w.L, 15) /\ ~IsSet(w.H, 9) -> ModifiedImmediate(w)
        [] op1 = 2 /\ ~IsSet(w.L, 15) /\ IsSet(w.H, 9) -> PlainImmediate(w)
        [] op1 = 2 /\ IsSet(w.L, 15) -> BranchesAndControl(w)
        [] op1 = 3 /\ op2 = 0 -> LoadStoreSingle(w)
        [] op1 = 3 /\ op2 = 1 -> RegisterOperations(w)
        [] op1 \in {1, 3} /\ op2 >= 2 -> Coprocessor(w)

\* The size of the code left is not a concern here: two halfwords are given.
Decode(w) == IF InstructionSize(w.H) = 2 THEN Decode16(w) ELSE Decode32(w)
=============================================================================
