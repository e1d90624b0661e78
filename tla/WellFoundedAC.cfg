SPECIFICATION Spec
CONSTANTS
  Atom <- Atoms
  Programs <- TwoAnswers
  MaxDL = 8
INVARIANT Sound
CHECK_DEADLOCK FALSE
