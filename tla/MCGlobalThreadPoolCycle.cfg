SPECIFICATION Spec
CONSTANTS
  NumWorkers = 2
  MaxTasks = 1
  Callers = {c1, c2}
  NumTasks = 4
  None = None
INVARIANTS
  NoLockCycle
CHECK_DEADLOCK FALSE
