SPECIFICATION FairSpec
CONSTANTS
  IdleTimeout = 2
  Sidecars = {s1, s2}
  MaxFires = 2
  SidecarMayFail = TRUE
  SignalCap = 1
INVARIANTS TypeOK HookVerdictStands DialogNeedsPermission ExitReachesTerminal ConsumedAtMostOnce CaughtUpTellsTruth
PROPERTIES FollowsLifecycle PromptSettles SessionEnds
CHECK_DEADLOCK FALSE
