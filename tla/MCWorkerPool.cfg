SPECIFICATION FairSpec
CONSTANTS
  Workers = {w1, w2}
  Clients = {c1, c2}
  Destroyers = {c1}
  Jobs = {j1, j2, j3}
  Cap = 2
  NoJob = NoJob
  Exclusive = TRUE
INVARIANTS
  TypeOK
  ShutdownDrains
PROPERTIES
  JoinIsCompletionPoint
  TeardownIsOrdered
  ImplementsJobQueue
  PoolMakesProgress
CHECK_DEADLOCK FALSE
