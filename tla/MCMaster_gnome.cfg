SPECIFICATION Spec
CONSTANTS
  p1 = p1
  p2 = p2
  Instances = {p1, p2}
  Machines <- ServerGnome
  MaxSessions = 1
  MaxCrashes = 0
  MaxFaults = 0
INVARIANT
  StopsForGood
