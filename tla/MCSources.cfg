CONSTANTS
  Lines <- MCLines
  CaptureMax = 2
  SendMax = 1
  MaxFiles = 2
  MaxTruncates = 1
  AuthFaults = TRUE
  AuthMaxCrashes = 1
  Version = 2
  EventSchemaVersion = 2
  MinEventSchema = 1
  MaxEventSchema = 2
  Descriptors <- MCDescriptors
  MaxUpgrades = 1
  MaxRuns = 2
  Packages = {1, 2}
  MaxChanges = 3
  InvMaxCrashes = 1
  MaxPid = 2
  MaxBatch = 1
  EmitInitialState = FALSE
  MaxProcs = 2
  MaxExecs = 1
  MaxPairs = 3
  MaxCrashes = 3
  DiskFaults = TRUE
SPECIFICATION SourcesSpec
INVARIANTS
  NoLineSkipped
  VerifiedIsCompatible
  ExitTellsIncompatibility
  NeverRolledBack
PROPERTIES
  EveryLineSettles
  IncompatibleIsStopped
  InventoryArrives
  EveryProcessIsReported
  SuccessIsComplete
CHECK_DEADLOCK FALSE
