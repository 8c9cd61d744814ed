SPECIFICATION Spec
CONSTANTS
  Threads <- ThreeThreads
  Process <- TwoAndOne
  NFiles = 2
  OFD = TRUE
  MaxHeld = 1
  Nobody = nobody
INVARIANTS
  HoldersAgree
