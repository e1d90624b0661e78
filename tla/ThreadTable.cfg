SPECIFICATION Spec
CONSTANTS
  Thread = {main, past, t1, t2, t3}
  Past = past
  Main = main
  NoThread = none
  MaxThreads = 4
  Incarnations = 4
  MaxInUse = 3
  Detaching = TRUE
CONSTRAINT Undisturbed
INVARIANT TypeOK
INVARIANT SlotsOnOneList
INVARIANT LiveThreadsKeepSlot
INVARIANT JoinableWaits
INVARIANT DetachedReclaimed
INVARIANT IdsNotConfused
CHECK_DEADLOCK FALSE
SYMMETRY Interchangeable
