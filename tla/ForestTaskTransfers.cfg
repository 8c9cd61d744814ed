SPECIFICATION FairSpec
CONSTANTS
  Threads <- TwoThreads
  Master = 1
  NForests = 3
  OutputTime <- MCOutputTime
  StartTime <- TrioStart
  EndTime <- TrioEnd
  Creators <- MCCreators
  Schedule <- NoEvents
  Transfers <- Chain
  SuspendToRAM = FALSE
  NoTree = NoTree
  None = NoError
INVARIANTS
  FilesAreSuspendedTrees
  AllDoneIsComplete
PROPERTIES
  Termination
