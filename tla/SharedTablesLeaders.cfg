SPECIFICATION Spec
CONSTANTS
  Thread = {t1, t2, t3}
  t1 = t1
  t2 = t2
  t3 = t3
  ga = ga
  gb = gb
  gc = gc
  gd = gd
  gm = gm
  gp = gp
  Table <- FourTables
  Calls <- TwoCycles
  Goals <- AnyGoal
  Nil = Nil
  MaxQueries = 2
INVARIANT OneProducer
CHECK_DEADLOCK FALSE
SYMMETRY Interchangeable
