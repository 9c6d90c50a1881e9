SPECIFICATION PanelSpec
CONSTANTS
  Trees = {clean, t1, t2}
  Clean = clean
  Runners = {r1, r2}
  MaxEdits = 2
  MaxTriggers = 2
  GitMayFail = TRUE
  MaxRefreshes = 1
INVARIANTS EmitsInOrder
PROPERTIES EditsAreExplained QuietWhenUnchanged LoopsEnd PanelCatchesUp
CHECK_DEADLOCK FALSE
