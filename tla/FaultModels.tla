----------------------------- MODULE FaultModels -----------------------------
(***************************************************************************)
(* The built-in fault models: what each iteration of one writes.           *)
(***************************************************************************)
EXTENDS EmulatorState

InstructionModel == {"skip", "byte_set", "byte_clear", "bit_flip"}

InstructionIterations(model, size) ==
  CASE model = "skip" -> 0..0
    [] model \in {"byte_set", "byte_clear"} -> 0 .. size - 1
    [] model = "bit_flip" -> 0 .. 8 * size - 1

\* A byte with one of its bits inverted.
Flipped(byte, i) == IF IsSet(byte, i) THEN byte - 2^i ELSE byte + 2^i

\* The bytes written over those of an instruction, at positions from 0.
ManipulatedInstruction(model, iteration, original) ==
  LET at(k, value) == [original EXCEPT ![k] = value]
      nop2 == <<0, 191>>
      nop4 == <<175, 243, 0, 128>>
      size == Cardinality(DOMAIN original)
  IN  CASE model = "skip" ->
             [k \in DOMAIN original |-> IF size = 4 THEN nop4[k + 1] ELSE nop2[k + 1]]
        [] model = "byte_set" -> at(iteration, 255)
        [] model = "byte_clear" -> at(iteration, 0)
        [] model = "bit_flip" ->
             at(iteration \div 8, Flipped(original[iteration \div 8], iteration % 8))

RegisterModel == {"clear", "fill", "byte_set", "byte_clear", "bit_set", "bit_clear", "bit_flip"}

\* For a register of so many bits, of which a byte is a fourth.
RegisterIterations(model, bits) ==
  CASE model \in {"clear", "fill"} -> 0..0
    [] model \in {"byte_set", "byte_clear"} -> 0..3
    [] model \in {"bit_set", "bit_clear", "bit_flip"} -> 0 .. bits - 1

\* Registers as the sets of the bits that are 1.
ManipulatedBits(model, iteration, original, bits) ==
  LET byte == {b \in 0 .. bits - 1 : b \div (bits \div 4) = iteration}
  IN  CASE model = "clear" -> {}
        [] model = "fill" -> 0 .. bits - 1
        [] model = "byte_set" -> original \union byte
        [] model = "byte_clear" -> original \ byte
        [] model = "bit_set" -> original \union {iteration}
        [] model = "bit_clear" -> original \ {iteration}
        [] model = "bit_flip" -> IF iteration \in original THEN original \ {iteration}
                                 ELSE original \union {iteration}

\* register_tester
Faultable(r) == r # SP /\ r # PC
=============================================================================
