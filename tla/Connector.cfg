SPECIFICATION FairSpec
CONSTANTS
  Fds = {3, 4}
  kInitRetryDelayMs = 1
  kMaxRetryDelayMs = 3
  MaxPending = 2
  MaxAttempts = 2
INVARIANTS NoAssertFails AttemptOwnsSocket OneAttempt
PROPERTY StopTakesEffect
