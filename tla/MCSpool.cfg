CONSTANTS
  Entries <- MCEntries
  Prio <- MCPrio
  Size <- MCSize
  MaxBytes = 3
  MaxItems = 2
  Limit = 2
  MaxGrowth = 1
  MaxCrashes = 1
  DiskFaults = FALSE
SPECIFICATION FairSpec
INVARIANTS HeldEntryStaysOnDisk PendingMatchesFiles BytesMatchFiles
  EveryEntryAccountedFor WithinBudget
PROPERTIES EveryEntryLeaves EvictionSparesThePrior
