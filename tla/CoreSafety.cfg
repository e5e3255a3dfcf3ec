CONSTANTS
  MaxSessions = 2
  Units = 2
  PipeCapacity = 2
  BufferSize = 3
  IoSize = 2
  IntMax = 3
  Env <- CoreHazards
SPECIFICATION Spec
CHECK_DEADLOCK FALSE
INVARIANTS TypeOK WorkerOwnsHandle CleanBetweenBackups EndMeansExitZero FdAccounted OwnFifo NoOrphanBackup BufferNotOverrun
PROPERTIES CancelSticky
