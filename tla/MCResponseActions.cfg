CONSTANTS
  Actions = {a1, a2}
  StageMax = 1
  HandledMax = 1
  MaxRecords = 1
  CycleMax = 1
  MaxCrashes = 1
SPECIFICATION FairSpec
INVARIANTS AtMostOnce ExecutionIsReported ReportedResultIsTrue
PROPERTIES EveryActionSettles
