SPECIFICATION Spec
CONSTANT Thread = {t1, t2, t3, t4}
INVARIANT TypeOK
INVARIANT CountersExact
INVARIANT WriterExclusion
INVARIANT SleepersHaveReason
PROPERTY WritersServed
