SPECIFICATION Spec
CONSTANTS
  sq = sq
  sp = sp
  sr = sr
  query = query
  MaxAnswer = 4
  Subgoal = {sq, sp, sr}
  Query = query
  Calls <- MCCalls
  Derive <- MCDerive
  Programs <- UnchainingProgram
INVARIANT CompletionServesConsumers
