SPECIFICATION Spec
CONSTANTS
  printer = printer
  raid = raid
  Services = {printer, raid}
  Static = {}
  Immortal = {raid}
  Xid <- MCXid
  MaxTries = 2
  MaxStale = 0
  MaxSockets = 2
  MaxOps = 2
  MaxBoots = 2
CHECK_DEADLOCK FALSE
INVARIANTS
  InSync
PROPERTIES
  RegistrationArrives
