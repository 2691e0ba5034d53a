SPECIFICATION Spec
CONSTANTS
  CallsMayFail = TRUE
  ReallocZeroed = FALSE
  MaxTypes = 6
  MaxTries = 2
  AddrTexts <- MCAddrTexts
  PortTexts <- MCPortTexts
CHECK_DEADLOCK FALSE
INVARIANTS ParsesMeaning RetryKeepsHost CleanupFaultsOnlyIn RegisteredFreeSafe FailedCreateReleases FreeLosesDomainAndChunks LifeInv
