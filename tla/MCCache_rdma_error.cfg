SPECIFICATION FairSpec
CONSTANTS
  Threads = {t1}
  SlotCount = 2
  Objs = {o1, o2, o3}
  NoTag = NoTag
  Values = {0}
  Zero = 0
  FLAG_IO = 4
  NDEBUG = FALSE
  RdmaMayFail = TRUE
  MaxHold = 1
  MaxPinned = 3
CHECK_DEADLOCK FALSE
INVARIANTS TableExact
PROPERTIES RequestReturns
