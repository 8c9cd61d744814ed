SPECIFICATION Spec
CONSTANTS
  Threads <- OneThread
  Master = 1
  NForests = 2
  OutputTime <- MCOutputTime
  StartTime <- PairStart
  EndTime <- EarlyEnd
  Creators <- MCCreators
  Schedule <- LateEvent
  Transfers <- NoTransfers
  SuspendToRAM = TRUE
  NoTree = NoTree
  None = NoError
INVARIANTS
  EveryOutputInTurn
