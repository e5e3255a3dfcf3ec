CONSTANTS
  Number <- SmallNumber
  IntMax = 100
  LongMax = 1000
  Files <- SmallFiles
  Places = {cubrid, tmp}
  Infos <- SmallInfos
  MaxLevel = 2
  ArgvSize = 16
SYMMETRY Symmetric
SPECIFICATION Spec
CHECK_DEADLOCK TRUE
INVARIANTS TypeOK OptionsDeclared VerdictRight DownIsClean ArgvFits CommandIsWanted
