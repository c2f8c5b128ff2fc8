SPECIFICATION Spec
CONSTANTS
  None = None
  NumDesc = 3
  MaxFrags = 1
  PtrMod = 6
  CloMod = 6
  Skbs = {s1, s2}
  NoCloseModes = {FALSE}
  LsoPatch = TRUE
  Bounce = FALSE
  Drop = FALSE
CHECK_DEADLOCK FALSE
PROPERTIES
  NeverOverwrites
