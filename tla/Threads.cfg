CONSTANTS
  Threads = {t1, t2, t3, t4}
  NoOne = NoOne
  MaxJobs = 3
  Overlaps = {"write_end"}
SPECIFICATION Spec
CHECK_DEADLOCK TRUE
SYMMETRY Symmetric
INVARIANTS MutexHeld ReadyMeansFree UseUndisturbed WorkerHasPath
