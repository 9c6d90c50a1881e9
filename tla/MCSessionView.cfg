SPECIFICATION FairSpec
CONSTANTS
  MaxSpawns = 2
  MaxChanges = 1
  MaxEvents = 2
  Closers = {c1, c2}
INVARIANTS OneSessionShown AgentsReachable
PROPERTY StatusReachesBadge
CHECK_DEADLOCK FALSE
