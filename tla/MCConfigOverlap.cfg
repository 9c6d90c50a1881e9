SPECIFICATION Spec
CONSTANTS
  Calls = {c1, c2}
  MaxInode = 5
  Overlap = TRUE
  MayFail = FALSE
  MaxEdits = 0
  MaxCrashes = 0
INVARIANT LiveIsWhole
CHECK_DEADLOCK FALSE
