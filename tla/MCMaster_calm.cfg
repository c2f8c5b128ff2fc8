SPECIFICATION FairSpec
CONSTANTS
  p1 = p1
  p2 = p2
  Instances = {p1, p2}
  Machines <- CalmMachines
  MaxSessions = 1
  MaxCrashes = 2
  MaxFaults = 0
INVARIANTS
  OrderKnown
  Provisioned
PROPERTIES
  ImplementsProvisioning
  EventuallyStopped
