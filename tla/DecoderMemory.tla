---------------------------- MODULE DecoderMemory ----------------------------
(***************************************************************************)
(* decode_instruction, 32-bit encodings with op1 = 11 and op2 = 00xxxxx:   *)
(* loads, stores and preloads of one byte, halfword or word.               *)
(***************************************************************************)
EXTENDS Thumb

LOCAL Imm8(w) == Bits(w.L, 7, 0)

Imm12(w) == w.L % 4096

\* The forms of an address, by L[11:6]: offset, pre- or post-indexed with an
\* immediate of eight bits, unprivileged, or a register.
LOCAL P(w) == IsSet(w.L, 10)

LOCAL W(w) == IsSet(w.L, 8)

LOCAL ByImm8(w) == IsSet(w.L, 11)

IndexedForm(w) == ByImm8(w) /\ (W(w) \/ Bits(w.L, 10, 8) = 4)

Unprivileged(w) == Bits(w.L, 11, 8) = 14

RegisterForm(w) == Bits(w.L, 11, 6) = 0

ByRegister(w) == [Rm |-> Lm(w), amount |-> Bits(w.L, 5, 4)]

Indexed(w) == [imm |-> Imm8(w), index |-> P(w), add |-> IsSet(w.L, 9), wback |-> W(w)]

Positive == [index |-> TRUE, add |-> TRUE]

\* The test of an index that is neither used nor written back, and of a base
\* written back over the transferred register.
CheckedIndex(w, i) ==
  IF ~P(w) /\ ~W(w) THEN Refuse("UNDEFINED")
  ELSE IF Hn(w) = Lt(w) /\ W(w) THEN Refuse("UNPREDICTABLE") ELSE i

StoreName == [byte |-> <<"STRB", "STRBT">>, half |-> <<"STRH", "STRHT">>, word |-> <<"STR", "STRT">>]

\* STR, STRH, STRB and their unprivileged forms, with an immediate.
StoreImmediate(w, size) ==
  LET t == Lt(w)
      n == Hn(w)
      long == IsSet(w.H, 7)
      name == StoreName[size][IF ~long /\ Bits(w.L, 10, 8) = 6 THEN 2 ELSE 1]
      tn == [Rd |-> t, Rn |-> n]
      i == CASE n = PC -> Refuse("UNDEFINED")
             [] n # PC /\ (t = PC \/ (t = SP /\ size # "word")) -> Refuse("UNPREDICTABLE")
             [] OTHER -> Ins(name, "RRI", tn ++ (IF long THEN [imm |-> Imm12(w)] ++ Positive
                                                         ELSE Indexed(w)))
  IN  IF long THEN i ELSE CheckedIndex(w, i)

\* The same with a register, shifted left.
StoreRegister(w, size) ==
  LET t == Lt(w)
  IN  CASE Hn(w) = PC -> Refuse("UNDEFINED")
        [] Hn(w) # PC /\ (t = PC \/ (t = SP /\ size # "word") \/ Lm(w) \in SPorPC) ->
             Refuse("UNPREDICTABLE")
        [] OTHER -> Ins(StoreName[size][1], "RRR",
                        [Rd |-> t, Rn |-> Hn(w)] ++ ByRegister(w) ++ Positive)

StoreSingle(w) ==
  LET op == Bits(w.H, 6, 5)
      size == <<"byte", "half", "word">>[op + 1]
  IN  CASE op = 3 -> Refuse("UNKNOWN_INSTRUCTION")
        [] op < 3 /\ (IsSet(w.H, 7) \/ ByImm8(w)) -> From7(w, StoreImmediate(w, size))
        [] OTHER -> From7(w, StoreRegister(w, size))

\* LDRB, LDRSB, LDRH, LDRSH, LDR: literal, with an immediate, with a register;
\* t is unpredictable where it may not be loaded.
Literal(w, name, badT) ==
  Checked(FALSE, badT, Ins(name, "RI", [Rd |-> Lt(w), imm |-> Imm12(w), add |-> IsSet(w.H, 7)]))

ByImmediate(w, name, badT) ==
  LET tn == [Rd |-> Lt(w), Rn |-> Hn(w)]
  IN  IF IsSet(w.H, 7)
      THEN Checked(FALSE, badT, Ins(name, "RRI", tn ++ [imm |-> Imm12(w)] ++ Positive))
      ELSE CheckedIndex(w, Checked(FALSE, badT, Ins(name, "RRI", tn ++ Indexed(w))))

\* LDRT and the like add their offset, but are not marked as indexed.
Unindexed(w, name) ==
  Checked(FALSE, Lt(w) \in SPorPC,
          Ins(name, "RRI", [Rd |-> Lt(w), Rn |-> Hn(w), add |-> TRUE, imm |-> Imm8(w)]))

\* Bytes and halfwords; H[8] tells whether the value is signed.
LoadPart(w, names) ==
  LET signed == IF IsSet(w.H, 8) THEN 2 ELSE 1
      badT == Lt(w) = SP
      name == names[signed]
  IN  CASE Hn(w) = PC -> Literal(w, name, badT)
        [] Hn(w) # PC /\ (IsSet(w.H, 7) \/ IndexedForm(w)) -> ByImmediate(w, name, badT)
        [] Hn(w) # PC /\ ~IsSet(w.H, 7) /\ Unprivileged(w) -> Unindexed(w, names[signed + 2])
        [] Hn(w) # PC /\ ~IsSet(w.H, 7) /\ RegisterForm(w) ->
             Checked(FALSE, badT \/ Lm(w) \in SPorPC,
                     Ins(name, "RRR", [Rd |-> Lt(w), Rn |-> Hn(w)] ++ ByRegister(w) ++ Positive))
        [] OTHER -> Refuse("UNKNOWN_INSTRUCTION")

\* No load of this form exists, so that the architecture is not asked for.
Known7(w, i) == IF i.code = "UNKNOWN_INSTRUCTION" THEN i ELSE From7(w, i)

\* Indexed forms of PLD, PLI and of the unallocated hints among halfword loads.
BadHint(w) == ByImm8(w) /\ (W(w) \/ Bits(w.L, 10, 8) = 6)

\* PLD, and PLI where H[8] is set: byte loads to PC.
Preload(w) ==
  LET pli == IsSet(w.H, 8)
      name == IF pli THEN "PLI" ELSE "PLD"
      add == [add |-> IsSet(w.H, 7)]
      n == [Rn |-> Hn(w)]
  IN  CASE Hn(w) = PC /\ ~pli -> From7(w, Ins(name, "I", [imm |-> Imm12(w)] ++ add))
        [] (Hn(w) = PC /\ pli) \/ (Hn(w) # PC /\ IsSet(w.H, 7)) ->
             From7(w, Ins(name, "RI", [imm |-> Imm12(w)] ++ n ++ add))
        [] Hn(w) # PC /\ ~IsSet(w.H, 7) /\ Bits(w.L, 11, 8) = 12 ->
             From7(w, Ins(name, "RI", [imm |-> Imm8(w)] ++ n))
        [] Hn(w) # PC /\ ~IsSet(w.H, 7) /\ RegisterForm(w) ->
             From7(w, Checked(FALSE, Lm(w) \in SPorPC, Ins(name, "RR", ByRegister(w) ++ n)))
        [] Hn(w) # PC /\ ~IsSet(w.H, 7) /\ BadHint(w) -> Refuse("UNPREDICTABLE")
        [] OTHER -> Refuse("UNKNOWN_INSTRUCTION")

\* Halfword loads to PC do nothing, or are unpredictable.
HalfwordHint(w) ==
  LET signed == IsSet(w.H, 8)
      nop == IF Hn(w) = PC THEN signed
             ELSE \/ IsSet(w.H, 7)
                  \/ RegisterForm(w)
                  \/ Bits(w.L, 11, 8) = (IF signed THEN 14 ELSE 12)
  IN  CASE nop -> From7(w, Ins("NOP", "NONE", <<>>))
        [] ~nop /\ (Hn(w) = PC \/ BadHint(w)) -> Refuse("UNPREDICTABLE")
        [] OTHER -> Refuse("UNKNOWN_INSTRUCTION")

LoadByte(w) == IF Lt(w) = 15 THEN Preload(w)
               ELSE Known7(w, LoadPart(w, <<"LDRB", "LDRSB", "LDRBT", "LDRSBT">>))

LoadHalfword(w) == IF Lt(w) = 15 THEN HalfwordHint(w)
                   ELSE Known7(w, LoadPart(w, <<"LDRH", "LDRSH", "LDRHT", "LDRSHT">>))

\* LDR may load PC, at the end of an IT block.
LoadWord(w) ==
  LET branch == Lt(w) = PC /\ MidIT(w)
      long == IsSet(w.H, 7)
  IN  CASE IsSet(w.H, 8) -> Refuse("UNKNOWN_INSTRUCTION")
        [] ~IsSet(w.H, 8) /\ Hn(w) = PC -> From7(w, Literal(w, "LDR", branch))
        [] ~IsSet(w.H, 8) /\ Hn(w) # PC /\ (long \/ IndexedForm(w)) ->
             From7(w, ByImmediate(w, "LDR", Lt(w) = SP \/ branch))
        [] ~IsSet(w.H, 8) /\ Hn(w) # PC /\ ~long /\ Unprivileged(w) ->
             From7(w, Unindexed(w, "LDRT"))
        [] ~IsSet(w.H, 8) /\ Hn(w) # PC /\ ~long /\ RegisterForm(w) ->
             From7(w, Checked(FALSE, branch \/ Lm(w) \in SPorPC,
                              Ins("LDR", "RRR", [Rd |-> Lt(w), Rn |-> Hn(w)] ++ ByRegister(w))))
        [] OTHER -> Refuse("UNKNOWN_INSTRUCTION")

LoadStoreSingle(w) ==
  CASE Bits(w.H, 10, 8) = 0 /\ ~IsSet(w.H, 4) -> StoreSingle(w)
    [] Bits(w.H, 6, 4) = 1 -> LoadByte(w)
    [] Bits(w.H, 6, 4) = 3 -> LoadHalfword(w)
    [] Bits(w.H, 6, 4) = 5 -> LoadWord(w)
    [] Bits(w.H, 6, 4) = 7 -> Refuse("UNDEFINED")
    [] OTHER -> Refuse("UNKNOWN_INSTRUCTION")
=============================================================================
