CONSTANTS
  Batches <- MCBatches
  Prio <- MCPrio
  Retries = 1
  Answers <- KnownAnswers
  CanCancel = TRUE
  SpoolFaults = FALSE
  MaxCrashes = 1
SPECIFICATION Spec
INVARIANTS RetainedUntilConfirmed
CHECK_DEADLOCK FALSE
