--------------------------- MODULE DecoderMultiple ---------------------------
(***************************************************************************)
(* decode_instruction, 32-bit encodings with op1 = 01 and op2 = 00xxxxx:   *)
(* multiple, dual and exclusive transfers, table branches.                 *)
(***************************************************************************)
EXTENDS Thumb

\* LDM, LDMDB, STM, STMDB, and PUSH, POP where SP is written back.
LoadStoreMultiple(w) ==
  LET n == Hn(w)
      list == BitsOf(w.L)
      few == Cardinality(list) < 2
      wback == IsSet(w.H, 5)
      stack == wback /\ n = SP
      both == {14, 15} \subseteq list
      toPC == 15 \in list /\ MidIT(w)
      op == 2 * Bits(w.H, 8, 7) + Bits(w.H, 4, 4)
      many == [Rn |-> n, imm |-> w.L, wback |-> wback]
  IN  CASE op = 2 -> Checked({13, 15} \cap list # {}, few \/ n = PC, Ins("STM", "RI", many))
        [] (op = 3 /\ ~stack) \/ op = 5 ->
             Checked(13 \in list, few \/ n = PC \/ both \/ toPC \/ (n \in list /\ wback),
                     Ins(IF op = 3 THEN "LDM" ELSE "LDMDB", "RI", many))
        [] op = 3 /\ stack -> Checked(13 \in list, (few /\ both) \/ toPC,
                                      Ins("POP", "I", [imm |-> w.L]))
        [] op = 4 /\ ~stack ->
             Checked({13, 15} \cap list # {}, few \/ n = PC \/ (n \in list /\ wback),
                     Ins("STMDB", "RI", many))
        [] op = 4 /\ stack -> Checked({13, 15} \cap list # {}, few, Ins("PUSH", "I", [imm |-> w.L]))

LoadStoreMultipleOrNone(w) ==
  IF 2 * Bits(w.H, 8, 7) + Bits(w.H, 4, 4) \in 2..5 THEN From7(w, LoadStoreMultiple(w))
  ELSE Refuse("UNKNOWN_INSTRUCTION")

\* STRD and LDRD; a literal LDRD is indexed whatever the encoding says.
LoadStoreDual(w) ==
  LET t == Lt(w)
      t2 == Ld(w)
      n == Hn(w)
      load == IsSet(w.H, 4)
      wback == IsSet(w.H, 5)
      literal == load /\ n = PC
      dual == [Rd |-> t, Rm |-> t2, Rn |-> n, imm |-> 4 * Bits(w.L, 7, 0), wback |-> wback,
               add |-> IsSet(w.H, 7), index |-> IsSet(w.H, 8) \/ literal]
  IN  Checked(FALSE,
              \/ {t, t2} \cap SPorPC # {}
              \/ load /\ t = t2
              \/ n = PC /\ (wback \/ ~load)
              \/ n \in {t, t2} /\ wback,
              Ins(IF load THEN "LDRD" ELSE "STRD", IF literal THEN "RRI" ELSE "RRRI", dual))

\* STREX and LDREX, with an offset.
Exclusive(w) ==
  LET t == Lt(w)
      d == Ld(w)
      n == Hn(w)
      imm == 4 * Bits(w.L, 7, 0)
  IN  IF IsSet(w.H, 4)
      THEN Checked(d # 15, t \in SPorPC \/ n = PC,
                   Ins("LDREX", "RRI", [Rd |-> t, Rn |-> n, imm |-> imm]))
      ELSE Checked(FALSE, {d, t} \cap SPorPC # {} \/ n = PC \/ d \in {n, t},
                   Ins("STREX", "RRRI", [Rd |-> d, Rm |-> t, Rn |-> n, imm |-> imm]))

\* STREXB, STREXH, LDREXB, LDREXH, TBB, TBH.
ExclusiveByteOrTable(w) ==
  LET t == Lt(w)
      n == Hn(w)
      m == Lm(w)
      op3 == Bits(w.L, 7, 4)
      load == IsSet(w.H, 4)
  IN  CASE load /\ op3 \in {0, 1} ->
             From7(w, Checked(t # 15 \/ Ld(w) # 0, m \in SPorPC \/ n = PC \/ MidIT(w),
                              Ins(IF op3 = 1 THEN "TBH" ELSE "TBB", "RR", [Rm |-> m, Rn |-> n])))
        [] load /\ op3 \in {4, 5} ->
             From7(w, Checked(Ld(w) # 15 \/ m # 15, t \in SPorPC \/ n = PC,
                              Ins(IF op3 = 4 THEN "LDREXB" ELSE "LDREXH", "RR",
                                  [Rd |-> t, Rn |-> n])))
        [] ~load /\ op3 \in {4, 5} ->
             From7(w, Checked(Ld(w) # 15, {m, t} \cap SPorPC # {} \/ n = PC \/ m \in {n, t},
                              Ins(IF op3 = 4 THEN "STREXB" ELSE "STREXH", "RRR",
                                  [Rd |-> m, Rm |-> t, Rn |-> n])))
        [] OTHER -> Refuse("UNKNOWN_INSTRUCTION")

DualExclusiveTable(w) ==
  LET op1 == Bits(w.H, 8, 7)
      op2 == Bits(w.H, 5, 4)
  IN  CASE op2 >= 2 \/ op1 >= 2 -> From7(w, LoadStoreDual(w))
        [] op1 = 0 /\ op2 < 2 -> From7(w, Exclusive(w))
        [] op1 = 1 /\ op2 < 2 -> ExclusiveByteOrTable(w)
=============================================================================
