SPECIFICATION FairPoolSpec
CONSTANTS
  Workers = {w1, w2}
  Producers = {p1, p2}
  maxQueueSize_ = 2
  MaxTasks = 5
INVARIANTS NoTaskSleptOver NoPlaceSleptOver NoSleepAfterStop
PROPERTIES StopReturns
CHECK_DEADLOCK FALSE
