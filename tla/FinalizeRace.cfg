CONSTANTS
  Threads = {t1, t2}
  NoOne = NoOne
  MaxJobs = 1
  Overlaps = {"finalize"}
SPECIFICATION Spec
CHECK_DEADLOCK TRUE
INVARIANT WorkerHasPath
