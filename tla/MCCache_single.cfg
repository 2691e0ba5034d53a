SPECIFICATION Spec
CONSTANTS
  Threads = {t1}
  SlotCount = 2
  Objs = {o1, o2, o3}
  NoTag = NoTag
  Values = {0, 1}
  Zero = 0
  FLAG_IO = 4
  NDEBUG = FALSE
  RdmaMayFail = FALSE
  MaxHold = 2
  MaxPinned = 3
SYMMETRY ObjSymmetry
INVARIANTS NoFault TokenSeesLatest EvictionLosesNothing TableExact RefCountExact IInv
PROPERTIES ImplementsFlatMemory
