SPECIFICATION Spec
CONSTANTS
  sq = sq
  sp = sp
  sr = sr
  query = query
  MaxAnswer = 2
  Subgoal = {sq, sp, sr}
  Query = query
  Calls <- MCCalls
  Derive <- MCDerive
  Programs <- SmallPrograms
INVARIANT TypeOK
INVARIANT CompletedIsModel
INVARIANT QueryGetsSolutionsOnce
INVARIANT ConsumersReachable
INVARIANT LevelsCoverCalls
PROPERTY Terminates
