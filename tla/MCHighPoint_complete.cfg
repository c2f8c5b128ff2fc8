SPECIFICATION Spec
CONSTANTS
  Hosts <- OneServer
  Patient = TRUE
  MaxCrashes = 1
  MaxFaults = 0
INVARIANT
  CompleteMeansArray
