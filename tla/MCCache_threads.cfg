SPECIFICATION Spec
CONSTANTS
  Threads = {t1, t2}
  SlotCount = 3
  Objs = {o1, o2, o3}
  NoTag = NoTag
  Values = {0}
  Zero = 0
  FLAG_IO = 16
  NDEBUG = FALSE
  RdmaMayFail = FALSE
  MaxHold = 1
  MaxPinned = 0
SYMMETRY ThreadObjSymmetry
CONSTRAINT LoadsNotRecorded
CHECK_DEADLOCK FALSE
INVARIANTS SlotInOnePlace CompletionsMatchWaiters
