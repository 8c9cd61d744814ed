SPECIFICATION Spec
CONSTANTS
  Threads <- OneThread
  Master = 1
  NForests = 2
  OutputTime <- MCOutputTime
  StartTime <- LateStart
  EndTime <- LateEnd
  Creators <- MCCreators
  Schedule <- EventsBetween
  Transfers <- NoTransfers
  SuspendToRAM = TRUE
  NoTree = NoTree
  None = NoError
INVARIANTS
  NoUniverseDeadlock
