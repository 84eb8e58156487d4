SPECIFICATION AsyncFairSpec
CONSTANTS
  Tasks = {t1, t2, t3}
  Cap = 2
  Delays = {1}
  MaxClock = 2
  MaxSends = 3
INVARIANTS
  TasksRunOnce
  FirstInFirstOut
PROPERTIES
  TimersAreNotEarly
  RunFinishesTheWork
CHECK_DEADLOCK FALSE
