SPECIFICATION Spec
CONSTANTS
  Threads = {main, worker}
  Main = main
  MaxDepth = 2
INVARIANTS
  BlocksAreContained
  RetryIsInvisible
  MainFaultsAreReported
CHECK_DEADLOCK FALSE
