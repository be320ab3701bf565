CONSTANTS
  first = first
  retry = retry
  Processors = {first}
  Previous = Previous
  BatchSize = 2
  MaxChunks <- MCMaxChunks
  Concurrent = FALSE
  Faults = {"Module"}
SPECIFICATION Spec
INVARIANTS
  FailureKeepsPrevious
CHECK_DEADLOCK FALSE
