CONSTANTS
  first = first
  retry = retry
  Processors = {first, retry}
  Previous = Previous
  BatchSize = 2
  MaxChunks <- MCMaxChunks
  Concurrent = FALSE
  Faults = {"Module", "Malformed", "Garbage", "IO", "Search", "AskTimeout", "Crash"}
SPECIFICATION FairSpec
INVARIANTS
  TypeOK
  DoneMeansIndexed
  OneWriteAtATime
  BufferedIsTimed
PROPERTIES
  ImplementsReplacement
  EveryStreamIsAnswered
CHECK_DEADLOCK FALSE
