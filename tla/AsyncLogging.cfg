SPECIFICATION FileSpec
CONSTANTS
  Capacity = 3
  Lens = {1, 4}
  MaxToWrite = 2
  MaxLines = 3
  rollSize_ = 2
  checkEveryN_ = 2
  fileFlushInterval_ = 0
  kRollPerSeconds_ = 2
  NoticeLength = 2
  MaxTicks = 2
INVARIANTS SparesSuffice LinesAccountedFor FullBufferNotified LogsOnDisk
PROPERTIES LinesGetWritten StopReturns
CHECK_DEADLOCK FALSE
