SPECIFICATION Spec
CONSTANTS
  MAX_POLL = 16
  CallsMayFail = TRUE
  MaxSends = 3
  MaxOther = 2
CHECK_DEADLOCK FALSE
INVARIANTS EventPerCompletion OneReceiveOut LoopInv
PROPERTIES ReceiveReposted DisconnectEnds
