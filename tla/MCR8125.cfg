SPECIFICATION Spec
CONSTANTS
  MayFail = {"open", "reset", "link", "esd"}
  MaxAdmin = 2
  MaxFlaps = 2
CHECK_DEADLOCK FALSE
INVARIANTS
  NoUseAfterFree
  QuietRings
  DownIsQuiet
PROPERTIES
  LockReleased
  CarrierFollowsLink
