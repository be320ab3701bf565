CONSTANTS
  d1 = d1
  d2 = d2
  last = last
  halt = halt
  e1 = e1
  r1 = r1
  early = early
  late = late
  Null = Null
  Deliveries = {}
  PayloadType <- MCPayloadType
  ParsingDate <- MCParsingDate
  Dates = {early, late}
  TrackErrors = {}
  Restarts = {}
  External = {"WakeUp", "Cancel"}
  MaxEvents = 2
  WorkersPerNode = 2
  MaxNodes = 0
  Reindex = FALSE
SPECIFICATION FairSpec
PROPERTIES
  EndingStops
CHECK_DEADLOCK FALSE
