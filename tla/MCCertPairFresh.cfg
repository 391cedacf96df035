CONSTANTS
  MaxPairs = 1
  MaxCrashes = 1
  DiskFaults = FALSE
SPECIFICATION Spec
INVARIANTS InterruptedInstallRecovers
