SPECIFICATION Spec
CONSTANTS
  tyA = tyA
  tyB = tyB
  tyR = tyR
  Types = {tyA, tyB, tyR}
  Reserved = {tyR}
  Threads = {t1}
  TypeSize <- Sizes2and1
  Sizes = {1}
  PageSize = 4
  PoolAddr = 8
  PageCount = 3
  CallocMayFail = FALSE
  ReallocZeroed = TRUE
  MaxGrabs = 4
INVARIANTS NewChunkOnlyWhenFull
