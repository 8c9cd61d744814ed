SPECIFICATION Spec
CONSTANTS
  N = 2
  Nobody = nobody
  NPopulations = 1
  NLuminosities = 2
  Lookups <- OneTable
  Calls = 1
PROPERTY CallsEnd
CHECK_DEADLOCK FALSE
