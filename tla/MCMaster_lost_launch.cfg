SPECIFICATION Spec
CONSTANTS
  p1 = p1
  p2 = p2
  Instances = {p1, p2}
  Machines <- ServerCard
  MaxSessions = 1
  MaxCrashes = 1
  MaxFaults = 0
INVARIANT
  Resumes
