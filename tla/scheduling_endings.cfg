CONSTANTS
  d1 = d1
  d2 = d2
  last = last
  halt = halt
  e1 = e1
  r1 = r1
  early = early
  late = late
  Null = Null
  Deliveries = {halt}
  PayloadType <- MCPayloadType
  ParsingDate <- MCParsingDate
  Dates = {early, late}
  TrackErrors = {}
  Restarts = {}
  External = {"Cancel", "Close", "Halt", "WakeUp", "Expire",
              "PersistFailure", "QueueFailure"}
  MaxEvents = 2
  WorkersPerNode = 1
  MaxNodes = 0
  Reindex = TRUE
SPECIFICATION FairSpec
INVARIANTS
  TypeOK
  HaltedIsAwaited
  GracefulEndingIsAwaited
PROPERTIES
  TransitionsEnd
CHECK_DEADLOCK FALSE
