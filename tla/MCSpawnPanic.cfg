SPECIFICATION PanicSpec
CONSTANTS
  MaxSessions = 2
  Scopes = {global}
  Closers = {c1}
  MaxCrashes = 0
  MayFail = FALSE
INVARIANT FailedSpawnLeavesNothing
CHECK_DEADLOCK FALSE
