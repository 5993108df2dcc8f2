SPECIFICATION FairSpec
CONSTANTS
  Task = {t1, t2, t3}
  EbsTask = {t2}
  Capacity = 2
  MaxLeaks = 1
INVARIANTS RefsAreHolders EofIsFinal WakeupPending SemaphoreBounded
PROPERTY SamplesReachReader
CHECK_DEADLOCK FALSE
