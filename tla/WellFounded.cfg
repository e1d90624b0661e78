SPECIFICATION Spec
CONSTANTS
  Atom <- Atoms
  Programs <- AllPrograms
  MaxDL = 8
INVARIANT TypeOK
INVARIANT Sound
INVARIANT Exact
INVARIANT Simplified
INVARIANT IndexesAgree
PROPERTY Terminates
CHECK_DEADLOCK FALSE
