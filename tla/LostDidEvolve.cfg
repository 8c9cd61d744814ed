SPECIFICATION Spec
CONSTANTS
  Threads <- TwoThreads
  Master = 1
  NForests = 3
  OutputTime <- MCOutputTime
  StartTime <- StaggeredStart
  EndTime <- StaggeredEnd
  Creators <- MCCreators
  Schedule <- OneEvent
  Transfers <- NoTransfers
  SuspendToRAM = TRUE
  NoTree = NoTree
  None = NoError
INVARIANTS
  NoUniverseDeadlock
