SPECIFICATION Spec
CONSTANTS
  Thread = {t1, t2, t3}
  NoThread = none
  Kind = {a, b}
  MaxSize = 1
  Public = TRUE
  Signals = {"cancel", "goal"}
  MaxOps = 2
  MaxCreates = 1
  MaxInterrupts = 2
INVARIANT TypeOK
INVARIANT ScannerOwnsQueue
INVARIANT NoMissedWakeup
INVARIANT WaitersKeepQueue
INVARIANT DeliveredToAddressee
CHECK_DEADLOCK FALSE
SYMMETRY Interchangeable
