CONSTANTS
  Main = Main
  Worker = Worker
  Thread = {Main, Worker}
  a = a
  b = b
  c = c
  Address = {a, b, c}
  MaxLength = 3
  Faultable = 1
  Rounds = 1
SYMMETRY Symmetry
SPECIFICATION Spec
INVARIANTS IgnoredTimeNotInjected
