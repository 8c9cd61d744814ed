SPECIFICATION Spec
CONSTANTS
  N = 3
  Nobody = nobody
  NPopulations = 2
  NLuminosities = 2
  Lookups <- TwoTables
  Calls = 1
INVARIANTS
  TypeOK
  InterpolatesInEntries
  ComputedOnce
  WaitsInOrder
PROPERTIES
  ActsAsReadersWriter
  StillWhileRead
  CallsEnd
