SPECIFICATION Spec
CONSTANTS
  N = 2
  Functions <- Labels
  Outside <- Before
  Binding <- Bindings
  DependenciesOf <- Components
  Calls = 1
INVARIANTS
  TypeOK
  ListIsWhatWasHooked
  DependenciesKept
  NeverStops
  NoDanglingHook
  CallsAllThatIsHooked
