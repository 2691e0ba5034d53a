SPECIFICATION RuntimeSpec
CONSTANTS
  tyA = tyA
  tyB = tyB
  tyR = tyR
  Types = {tyA, tyB, tyR}
  Reserved = {tyR}
  Threads = {t1}
  TypeSize <- Sizes3and2
  TypeId <- Ids
  Sizes = {4, 5}
  PageSize = 4
  PoolAddr = 8
  PageCount = 3
  CallocMayFail = FALSE
  ReallocZeroed = TRUE
  MaxGrabs = 4
  SlotCount = 2
  Values = {0, 1}
  Zero = 0
  MaxStores = 2
INVARIANTS InPool TagIsStart DrainedOnlyWhenFull LinesApart RuntimeInv
PROPERTIES ImplementsByteMemory
