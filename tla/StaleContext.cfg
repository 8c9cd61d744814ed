SPECIFICATION Spec
CHECK_DEADLOCK FALSE
CONSTANTS
  MaxOrder = 2
  JacobianWait = 2
  MatrixWait = 1
  MaxFailCount = 1
  NaN = NaN
  EndTime = 16
  MaxTroubles = 2
  StepSizes <- Steps
  MaxTrials = 1
  Outcomes <- NoTrouble
  MaxChanges = 0
INVARIANTS
  ContextOfTheSolution
