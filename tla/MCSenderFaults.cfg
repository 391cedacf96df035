CONSTANTS
  Batches <- MCBatches
  Prio <- MCPrio
  Retries = 1
  Answers <- AllAnswers
  CanCancel = TRUE
  SpoolFaults = TRUE
  MaxCrashes = 1
SPECIFICATION FairSpec
INVARIANTS DeliveredMeansStored ReportedQueuedIsKept
PROPERTIES BacklogDrains
CHECK_DEADLOCK FALSE
