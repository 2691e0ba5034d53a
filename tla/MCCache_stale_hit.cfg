SPECIFICATION Spec
CONSTANTS
  Threads = {t1, t2}
  SlotCount = 2
  Objs = {o1, o2}
  NoTag = NoTag
  Values = {0}
  Zero = 0
  FLAG_IO = 4
  NDEBUG = FALSE
  RdmaMayFail = FALSE
  MaxHold = 1
  MaxPinned = 3
SYMMETRY ThreadObjSymmetry
CHECK_DEADLOCK FALSE
INVARIANTS HitIsOurs
