SPECIFICATION Spec
CONSTANTS
  p1 = p1
  p2 = p2
  Instances = {p1, p2}
  Machines <- TwoCards
  MaxSessions = 1
  MaxCrashes = 0
  MaxFaults = 0
INVARIANT
  DriversBeforeMount
