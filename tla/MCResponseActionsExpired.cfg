CONSTANTS
  Actions = {a1}
  StageMax = 1
  HandledMax = 2
  MaxRecords = 1
  CycleMax = 1
  MaxCrashes = 0
SPECIFICATION Spec
INVARIANTS ExpiredIsNotExecuted
