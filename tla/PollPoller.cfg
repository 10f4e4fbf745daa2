SPECIFICATION Spec
CONSTANTS
  Fds = {3, 4, 5}
  kInitEventListSize = 2
INVARIANTS IndexLeadsToEntry EntryMatchesChannel ActiveChannelsExist
CHECK_DEADLOCK FALSE
