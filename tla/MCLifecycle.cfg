SPECIFICATION Spec
CONSTANTS
  MaxSessions = 2
  Scopes = {g, p}
  Closers = {c1, c2}
  MaxCrashes = 1
  MayFail = TRUE
INVARIANTS AgentHasOwner RegistriesAgree EntriesHaveReason NoStaleVerdict
CHECK_DEADLOCK FALSE
SYMMETRY ClosersAlike
