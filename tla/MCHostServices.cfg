SPECIFICATION Spec
CONSTANTS
  SlabUnits = 5
  LargeUnits = 4
  Sizes = {1, 3, 6}
  MaxSlabs = 3
  MaxAllocs = 4
  MaxNesting = 2
  Callers = {c1, c2}
  FnNames = {f, g}
  Slots = 2
  MaxCode = 4
  Layouts = {"x", "y"}
  Versions = {1, 2}
  DataSizes = {1, 3}
  MaxSaves = 2
  Parents = {p1, p2}
  Pids = {1, 2}
  Handles = {1, 2, 3}
  TrackMax = 2
  MaxChildren = 3
  Spawners = {s1, s2}
  Statuses = {0}
  Codes = {2, 15}
  Waiters = {w1, w2}
  Bystanders = {b1}
  PipeRoom = 3
  ReadSize = 2
  MaxSignals = 5
  Procs = {a1, a2}
  MaxOpen = 3
  Names = {"a", "b", "c"}
  MaxDirs = 4
  QueueRoom = 4
  MaxInodes = 4
  MaxChanges = 4
  SystemRoom = 3
  MaxRecords = 6
  Loops = {1}
  Fds = {3, 4, 5}
  LoopFds = 2
  EventCap = 3
INVARIANTS
  GuardHeapIsSound
  HotReloadIsSound
  ProcessesAreNotConfused
  TheNewestSignalIsAnswered
  LocksExclude
  WatchesMissNothing
  LoopBuildsAgree
CHECK_DEADLOCK FALSE
