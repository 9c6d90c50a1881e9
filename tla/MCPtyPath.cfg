SPECIFICATION FairSpec
CONSTANTS
  MaxBytes = 3
  MaxChunk = 2
  MaxKeys = 2
  InCap = 1
INVARIANTS NothingLost
PROPERTIES OutputShown TearDownFinishes
CHECK_DEADLOCK FALSE
