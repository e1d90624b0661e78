SPECIFICATION Spec
CONSTANTS
  Thread = {main, t1, t2, t3, t4}
  Main = main
  Past = none
  NoThread = none
  MaxThreads = 3
  Incarnations = 4
  MaxInUse = 3
  Detaching = FALSE
INVARIANT LiveThreadsKeepSlot
CHECK_DEADLOCK FALSE
SYMMETRY Interchangeable
