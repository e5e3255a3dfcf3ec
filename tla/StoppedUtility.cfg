CONSTANTS
  MaxSessions = 1
  Units = 1
  PipeCapacity = 1
  BufferSize = 3
  IoSize = 2
  IntMax = 3
  Env <- OnlyStop
SPECIFICATION FairSpec
CHECK_DEADLOCK TRUE
PROPERTY CancelTerminates
