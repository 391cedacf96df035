CONSTANTS
  Rotators = {refresh, ticker}
  MaxIssued = 4
  MaxExpiries = 1
  MaxCrashes = 1
  DiskFaults = TRUE
SPECIFICATION FairSpec
INVARIANTS SpentTokenIsRedeemed SpentTokenIsNotReused NewestTokenIsKept
  IdentityIsWhole
PROPERTIES RejectedIsReplaced
CHECK_DEADLOCK FALSE
