CONSTANTS
  Main = Main
  Worker = Worker
  Thread = {Main, Worker}
  a = a
  b = b
  c = c
  Address = {a, b, c}
  MaxLength = 4
  Faultable = 2
  Rounds = 2
SPECIFICATION ListsSpec
INVARIANTS InjectedInPlace ClaimedOnce TimeoutPerFault AllIndicesInResults NoCrash
PROPERTIES Termination
