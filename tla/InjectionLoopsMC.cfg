CONSTANTS
  Levels = 3
  Snap = {0, 1, 2}
  Code = {a1, a2}
  None = None
  Original = Original
  RamOffset = 4
  RamSize = 1
  Value = {v0, v1}
  Garbage = Garbage
  AccessSize = {1}
  c1 = c1
  c2 = c2
  CPU <- MCCPU
  SP <- MCSP
  StackSlack = 2
  WordSize = 16
SYMMETRY Symmetry
SPECIFICATION LoopsSpec
INVARIANTS InjectedIntoSavedState FlashHoldsFaultsInForce HooksOfChain
PROPERTIES ObeysSnapshotContract
