CONSTANTS
  Snap = {s1, s2}
  RamOffset = 4
  RamSize = 3
  Value = {v0, v1}
  Garbage = Garbage
  AccessSize = {1, 2}
  Middle = Middle
  Wrapped = Wrapped
  CPU <- MCCPU
  SP <- MCSP
  StackSlack = 2
  WordSize = 16
SYMMETRY Symmetry
SPECIFICATION Spec
INVARIANTS TypeOK CoverInv
PROPERTIES RestoreIsExact ImplementsPerfect
