SPECIFICATION Spec
CONSTANTS
  Threads <- OneThread
  Master = 1
  NForests = 2
  OutputTime <- MCOutputTime
  StartTime <- PairStart
  EndTime <- PairEnd
  Creators <- MCCreators
  Schedule <- LateEvent
  Transfers <- BackTransfer
  SuspendToRAM = TRUE
  NoTree = NoTree
  None = NoError
PROPERTIES
  UniversalEventSynchronised
