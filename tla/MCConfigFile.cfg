SPECIFICATION Spec
CONSTANTS
  Calls = {c1, c2}
  MaxInode = 3
  Overlap = FALSE
  MayFail = TRUE
  MaxEdits = 2
  MaxCrashes = 2
INVARIANTS BackupPreSpectty
PROPERTIES WritesAtomic
CHECK_DEADLOCK FALSE
