SPECIFICATION MountSpec
CONSTANTS
  plain = plain
  other = other
  bad = bad
  worse = worse
  nested = nested
  Paths = {plain, other, bad, worse, nested}
  Illegal = {bad, worse}
  Orphans = {worse, nested}
  MaxDepth = 4
CHECK_DEADLOCK FALSE
INVARIANTS
  ReturnsLegalDirectory
  ReusedOnlyIfConfirmed
