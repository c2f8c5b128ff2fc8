SPECIFICATION FairSpec
CONSTANTS
  Hosts <- AllHosts
  Patient = TRUE
  MaxCrashes = 2
  MaxFaults = 1
INVARIANTS
  ConsentToDestroy
  HandsBack
  BuiltAsAsked
  NothingLost
PROPERTY
  EventuallyEnded
