SPECIFICATION Spec
CONSTANTS
  N = 2
  Nobody = nobody
  NPopulations = 1
  NLuminosities = 2
  Lookups <- SameTable
  Calls = 1
INVARIANT OwnInterval
