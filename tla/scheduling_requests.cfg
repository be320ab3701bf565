CONSTANTS
  d1 = d1
  d2 = d2
  last = last
  halt = halt
  e1 = e1
  r1 = r1
  early = early
  late = late
  Null = Null
  Deliveries = {d1}
  PayloadType <- MCPayloadType
  ParsingDate <- MCParsingDate
  Dates = {early, late}
  TrackErrors = {e1}
  Restarts = {r1}
  External = {"PersistFailure"}
  MaxEvents = 1
  WorkersPerNode = 1
  MaxNodes = 0
  Reindex = FALSE
SPECIFICATION Spec
INVARIANTS
  SettingUpIsAwaited
  DateHasSource
CHECK_DEADLOCK FALSE
