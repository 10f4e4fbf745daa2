SPECIFICATION RacingSpec
CONSTANTS
  Conns = {c1}
  Loops = {0}
  Threads = {t1}
  Lens = {2}
  highWaterMark_ = 2
  UserCalls = {}
  MaxCalls = 1
  MaxThreads = 0
INVARIANTS RemovedOnce
CHECK_DEADLOCK FALSE
