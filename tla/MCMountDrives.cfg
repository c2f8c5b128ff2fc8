SPECIFICATION Spec
CONSTANTS
  d1 = d1
  d2 = d2
  d3 = d3
  Drives = {d1, d2, d3}
  Kinds = {"ssd", "hdd", "avago", "hptsd", "nvme"}
  Firmware = {"uefi"}
  Careful = TRUE
  MaxReboots = 1
  MaxKills = 1
  None = None
CHECK_DEADLOCK FALSE
SYMMETRY Symmetric
INVARIANTS
  ConsentedOnly
  FstabResolves
  DistinctDefaults
  FlagMeansDone
