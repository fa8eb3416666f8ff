CONSTANTS
  MaxSize = 6
SPECIFICATION Spec
INVARIANTS InRange SubsetsProper Ordered AllEmitted
PROPERTIES Termination
