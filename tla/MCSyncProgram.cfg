SPECIFICATION FairSpec
CONSTANTS
  Threads = {t1, t2, t3, t4}
  Rounds = 2
INVARIANTS
  LockIsSound
  BarrierIsSound
  InitialisedBeforeUse
PROPERTIES
  ProgramEnds
CHECK_DEADLOCK FALSE
