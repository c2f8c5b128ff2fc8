SPECIFICATION Spec
CONSTANTS
  MaxTerminals = 2
  MaxAfter = 3
  MaxCrashes = 3
CHECK_DEADLOCK FALSE
INVARIANTS
  FlagMeansReady
  NoReturn
PROPERTIES
  Completes
