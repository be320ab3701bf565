CONSTANTS
  Pipelines <- MCPipelines
  MaxStarts = 2
  MaxCallbacks = 2
  None = None
SPECIFICATION FairSpec
INVARIANTS
  TypeOK
  OneOutcome
  AnsweredOnce
  ForeignIsLate
  AwaitedIsRegistered
  AcceptedIsKept
PROPERTIES
  TakenUpIsAnswered
  ImplementsContract
CHECK_DEADLOCK FALSE
