CONSTANTS
  d1 = d1
  d2 = d2
  last = last
  halt = halt
  e1 = e1
  r1 = r1
  early = early
  late = late
  Null = Null
  Deliveries = {d1, d2}
  PayloadType <- MCPayloadType
  ParsingDate <- MCParsingDate
  Dates = {early, late}
  TrackErrors = {}
  Restarts = {}
  External = {"Rebalance", "WorkFailure", "Unreadable"}
  MaxEvents = 1
  WorkersPerNode = 1
  MaxNodes = 1
  Reindex = FALSE
SPECIFICATION Spec
INVARIANTS
  SuccessMeansIndexed
  AnsweredAtMostOnce
CHECK_DEADLOCK FALSE
