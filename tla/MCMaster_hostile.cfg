SPECIFICATION Spec
CONSTANTS
  p1 = p1
  p2 = p2
  Instances = {p1, p2}
  Machines <- HostileMachines
  MaxSessions = 2
  MaxCrashes = 1
  MaxFaults = 1
SYMMETRY Swap
INVARIANTS
  NoRepeatedArgs
