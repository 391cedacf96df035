CONSTANTS
  Batches <- MCBatches
  Prio <- MCPrio
  Retries = 1
  Answers <- AllAnswers
  CanCancel = FALSE
  SpoolFaults = FALSE
  MaxCrashes = 1
SPECIFICATION Spec
INVARIANTS RefusedIsNotRetried
CHECK_DEADLOCK FALSE
