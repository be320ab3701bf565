CONSTANTS
  p = p
  q = q
  None = None
  Queries = {p, q}
  MaxAsks = 2
  MaxSearches = 2
  MaxChunks = 1
SPECIFICATION FairSpec
INVARIANTS
  TypeOK
  ChattingIsInFlight
  AnsweringIsCurrent
  HistoryIsConversation
  EndIsNotified
PROPERTIES
  StoppedIsKept
  ChattingEnds
CHECK_DEADLOCK FALSE
