CONSTANTS
  Versions = {0, 1, 2}
  Offered <- MCOffered
  KeepReleases = 3
  RelMaxRuns = 2
  RelMaxRenewals = 1
  RelMaxDamages = 0
  RelInterrupts = 0
SPECIFICATION RelSpec
INVARIANT FailureRestores
CHECK_DEADLOCK FALSE
