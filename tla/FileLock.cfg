SPECIFICATION Spec
CONSTANTS
  Threads <- ThreeThreads
  Process <- TwoAndOne
  NFiles = 2
  OFD = FALSE
  MaxHeld = 2
  Nobody = nobody
INVARIANTS
  TypeOK
  HoldersAgree
  HeldIsLocked
PROPERTIES
  ActsAsFileLocks
