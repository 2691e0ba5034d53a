SPECIFICATION Spec
CONSTANTS
  tyA = tyA
  tyB = tyB
  tyR = tyR
  Types = {tyA, tyB, tyR}
  Reserved = {tyR}
  Threads = {t1, t2}
  TypeSize <- Sizes3and4
  Sizes = {2, 9}
  PageSize = 8
  PoolAddr = 16
  PageCount = 3
  CallocMayFail = FALSE
  ReallocZeroed = FALSE
  MaxGrabs = 4
SYMMETRY ThreadSymmetry
CHECK_DEADLOCK FALSE
INVARIANTS Disjoint TagIsStart
