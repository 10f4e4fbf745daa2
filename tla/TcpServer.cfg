SPECIFICATION FairSpec
CONSTANTS
  Conns = {c1}
  Loops = {0, 1}
  Threads = {t1}
  Lens = {2}
  highWaterMark_ = 2
  UserCalls = {"send", "shutdown", "forceClose", "forceCloseWithDelay", "startRead", "stopRead"}
  MaxCalls = 2
  MaxThreads = 1
INVARIANTS NoAssertFails WritingIffBuffered ShutdownAfterFlush UpThenDown NoDanglingFunctor
PROPERTIES ClosedIsFreed ShutdownCompletes
CHECK_DEADLOCK FALSE
