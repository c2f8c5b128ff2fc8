SPECIFICATION Spec
CONSTANTS
  d1 = d1
  d2 = d2
  d3 = d3
  Drives = {d1, d2, d3}
  Kinds = {"ssd", "other"}
  Firmware = {"uefi"}
  Careful = TRUE
  MaxReboots = 0
  MaxKills = 0
  None = None
CHECK_DEADLOCK FALSE
SYMMETRY Symmetric
INVARIANT
  ConsentedOnly
