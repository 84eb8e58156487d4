SPECIFICATION Spec
CONSTANTS
  Threads = {t1, t2}
  Rounds = 1
INVARIANTS
  InitialiserRunsOnce
CHECK_DEADLOCK FALSE
