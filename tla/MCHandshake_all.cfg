SPECIFICATION FairSpec
CONSTANTS
  Clients = {c1, c2, c3}
  None = None
  CallsMayFail = TRUE
  CmMayFail = TRUE
  CrashesHappen = TRUE
CHECK_DEADLOCK FALSE
INVARIANTS ServedIsReady ReadyIsAccepted HandshakeInv
PROPERTIES ClientDecides ServerStops
