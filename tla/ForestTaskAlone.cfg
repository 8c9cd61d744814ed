SPECIFICATION FairSpec
CONSTANTS
  Threads <- OneThread
  Master = 1
  NForests = 3
  OutputTime <- MCOutputTime
  StartTime <- TrioStart
  EndTime <- TrioEnd
  Creators <- MCCreators
  Schedule <- ThreeEvents
  Transfers <- BackTransfer
  SuspendToRAM = TRUE
  NoTree = NoTree
  None = NoError
INVARIANTS
  NoUniverseDeadlock
PROPERTIES
  Completion
