SPECIFICATION Spec
CONSTANTS
  Clients = {c1}
  None = None
  CallsMayFail = FALSE
  CmMayFail = FALSE
  CrashesHappen = FALSE
CHECK_DEADLOCK FALSE
INVARIANTS ReadyHasInfo
