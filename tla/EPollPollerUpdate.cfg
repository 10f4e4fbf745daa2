SPECIFICATION Spec
CONSTANTS
  Fds = {3, 4}
  kInitEventListSize = 1
INVARIANT NewChannelIsUnknown
CHECK_DEADLOCK FALSE
