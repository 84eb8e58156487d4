SPECIFICATION FairSpec
CONSTANTS
  Tasks = {t1, t2, t3}
  TableSize = 2
  ByThread = {t3}
  Solo = TRUE
INVARIANTS
  HandlesMatchTheirThreads
  HandleKeepsItsPromise
PROPERTIES
  CallersFinish
CHECK_DEADLOCK FALSE
