SPECIFICATION FairSpec
CONSTANTS
  Addrs = {a1, a2}
  MaxTimers = 3
  MaxTime = 3
  Whens = {0, 2, 3}
  Intervals = {0, 1}
  MaxQueued = 1
INVARIANTS SetsAgree OneOwner TimerfdArmed CancelIsFinal
PROPERTIES DueTimersFire
CHECK_DEADLOCK FALSE
