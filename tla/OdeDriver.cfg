SPECIFICATION FairSpec
CHECK_DEADLOCK FALSE
CONSTANTS
  MaxOrder = 3
  JacobianWait = 2
  MatrixWait = 1
  MaxFailCount = 1
  NaN = NaN
  EndTime = 9
  MaxTroubles = 2
  StepSizes <- Steps
  MaxTrials = 2
  Outcomes <- AllTroubles
  MaxChanges = 1
INVARIANTS
  TypeOK
  NoLargeOrderChange
  HistoryUnlessDisturbed
  MatricesOfThisHistory
  NoFivefoldIncrease
  ReturnsTheSolution
PROPERTIES
  Ends
