CONSTANTS
  a = a
  b = b
  h = h
  g = g
  None = None
  Requests = {a, b}
  Names = {a, b}
  Hosts = {h, g}
  Cases <- MCCases
SPECIFICATION FairSpec
INVARIANTS
  TypeOK
  ErrorIsCompensated
  LiveHasResources
  AnswerExists
  DeletedWasRequested
  GivenToOne
  StrandedWithoutRealm
PROPERTIES
  SagaEnds
CHECK_DEADLOCK FALSE
