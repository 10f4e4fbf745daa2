SPECIFICATION ThreadSpec
CONSTANTS
  Callers = {c1, c2}
  Owner = c1
  Functors = {f1, f2, f3}
  EventfdMax = 2
INVARIANTS NoLostWakeup NoLostQuit
PROPERTIES ImplementsFunctorQueue QueuedFunctorsRun JoinReturns
CHECK_DEADLOCK FALSE
