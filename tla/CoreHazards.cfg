CONSTANTS
  MaxSessions = 2
  Units = 1
  PipeCapacity = 1
  BufferSize = 2
  IoSize = 2
  IntMax = 2
  Env <- EveryHazard
SPECIFICATION Spec
CHECK_DEADLOCK FALSE
INVARIANTS TeardownArmed MutexMatchesCall
