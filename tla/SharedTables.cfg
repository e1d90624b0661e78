SPECIFICATION Spec
CONSTANTS
  Thread = {t1, t2, t3}
  t1 = t1
  t2 = t2
  t3 = t3
  ga = ga
  gb = gb
  gc = gc
  gd = gd
  gm = gm
  gp = gp
  Table <- SixTables
  Calls <- SixCalls
  Goals <- ThreeGoals
  Nil = Nil
  MaxQueries = 1
INVARIANT TypeOK
INVARIANT OneProducer
INVARIANT SearchTerminates
INVARIANT CompletedWithCallees
INVARIANT NoSleepingRing
INVARIANT NoLostWakeup
PROPERTY QueriesAnswered
CHECK_DEADLOCK FALSE
