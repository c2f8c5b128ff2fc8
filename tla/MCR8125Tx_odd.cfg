SPECIFICATION Spec
CONSTANTS
  None = None
  NumDesc = 3
  MaxFrags = 1
  PtrMod = 8
  CloMod = 8
  Skbs = {s1, s2}
  NoCloseModes = {FALSE}
  LsoPatch = FALSE
  Bounce = FALSE
  Drop = FALSE
CHECK_DEADLOCK FALSE
INVARIANTS
  ChipReadsLive
