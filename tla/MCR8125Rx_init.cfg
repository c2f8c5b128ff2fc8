SPECIFICATION Spec
CONSTANTS
  NumDesc = 2
  PtrMod = 4
  Budget = 1
  NumBuffers = 3
  Modes = {"copy", "reuse"}
  Trouble = {"copy"}
  FailInit = TRUE
  Rdu = TRUE
  Bounce = FALSE
  None = None
CHECK_DEADLOCK FALSE
INVARIANTS
  ChipWritesLive
