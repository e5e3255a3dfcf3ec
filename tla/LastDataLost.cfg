CONSTANTS
  MaxSessions = 1
  Units = 2
  PipeCapacity = 1
  BufferSize = 3
  IoSize = 2
  IntMax = 3
  Env <- NoHazard
SPECIFICATION Spec
CHECK_DEADLOCK TRUE
INVARIANT EndMeansDrained
