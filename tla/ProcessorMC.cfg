CONSTANTS
  ByteWidth = 2
  RamOffset = 64
  RamSize = 32
  MaxInstructions = 7
  Scenarios <- All
SPECIFICATION Spec
INVARIANTS DecodedAlike Executable PsrMirrored BlockAsEncoded ComparisonsDecide StackInverse
CHECK_DEADLOCK FALSE
