SPECIFICATION FairSpec
CONSTANTS
  Clients = {c1, c2}
  None = None
  CallsMayFail = FALSE
  CmMayFail = FALSE
  CrashesHappen = FALSE
CHECK_DEADLOCK FALSE
PROPERTIES HandshakeCompletes
