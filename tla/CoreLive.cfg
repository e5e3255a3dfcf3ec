CONSTANTS
  MaxSessions = 2
  Units = 1
  PipeCapacity = 1
  BufferSize = 3
  IoSize = 2
  IntMax = 3
  Env <- NoHazard
SPECIFICATION FairSpec
CHECK_DEADLOCK TRUE
PROPERTIES CancelTerminates ReadReturnsToCaller StreamsApart
