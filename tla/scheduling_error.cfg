CONSTANTS
  d1 = d1
  d2 = d2
  last = last
  halt = halt
  e1 = e1
  r1 = r1
  early = early
  late = late
  Null = Null
  Deliveries = {d1, last}
  PayloadType <- MCPayloadType
  ParsingDate <- MCParsingDate
  Dates = {early, late}
  TrackErrors = {e1}
  Restarts = {}
  External = {}
  MaxEvents = 0
  WorkersPerNode = 2
  MaxNodes = 0
  Reindex = FALSE
SPECIFICATION Spec
PROPERTIES
  ErrorNeverFinishes
CHECK_DEADLOCK FALSE
