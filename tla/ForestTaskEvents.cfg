SPECIFICATION Spec
CONSTANTS
  Threads <- TwoThreads
  Master = 1
  NForests = 3
  OutputTime <- MCOutputTime
  StartTime <- StaggeredStart
  EndTime <- StaggeredEnd
  Creators <- MCCreators
  Schedule <- ThreeEvents
  Transfers <- NoTransfers
  SuspendToRAM = TRUE
  NoTree = NoTree
  None = NoError
INVARIANTS
  TypeOK
  OneOwner
  NoTreeLost
  BarriersAligned
  MasterAlone
  EveryOutputInTurn
  NoImpossibleError
PROPERTIES
  KeepsLedger
  OutputAtItsTime
  UniversalEventSynchronised
