SPECIFICATION FairSpec
CONSTANTS
  Threads <- TwoThreads
  Master = 1
  NForests = 3
  OutputTime <- MCOutputTime
  StartTime <- LostStart
  EndTime <- LostEnd
  Creators <- MCCreators
  Schedule <- NoEvents
  Transfers <- LostPartner
  SuspendToRAM = TRUE
  NoTree = NoTree
  None = NoError
PROPERTIES
  DeadlockReported
