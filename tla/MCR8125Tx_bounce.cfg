SPECIFICATION Spec
CONSTANTS
  None = None
  NumDesc = 3
  MaxFrags = 1
  PtrMod = 6
  CloMod = 6
  Skbs = {s1, s2}
  NoCloseModes = {TRUE, FALSE}
  LsoPatch = FALSE
  Bounce = TRUE
  Drop = FALSE
CHECK_DEADLOCK FALSE
INVARIANTS
  ChipReadsLive
