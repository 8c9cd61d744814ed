SPECIFICATION Spec
CHECK_DEADLOCK FALSE
CONSTANTS
  MaxOrder = 3
  JacobianWait = 2
  MatrixWait = 1
  MaxFailCount = 1
  NaN = NaN
  EndTime = 4
  MaxTroubles = 0
  StepSizes <- Steps
  MaxTrials = 1
  Outcomes <- NoTrouble
  MaxChanges = 1
INVARIANTS
  HistoryOfTheSolution
