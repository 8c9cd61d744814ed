SPECIFICATION LockSpec
CONSTANTS
  N = 3
  Nobody = nobody
INVARIANTS
  LockTypeOK
  HoldsItsSlots
  WaitsInOrder
PROPERTY ActsAsReadersWriter
