CONSTANTS
  MaxLevel = 1
  BlockNos = {1, 2, 3}
  BlockLen <- SmallLen
  MaxTransfer = 3
  UIntMax = 7
  MaxOpens = 2
  MaxPieces = 2
  Reinit = FALSE
SPECIFICATION Spec
CHECK_DEADLOCK TRUE
INVARIANTS TypeOK ServiceHasFile FdAccounted CleanRestore
PROPERTY KeepsPromise
