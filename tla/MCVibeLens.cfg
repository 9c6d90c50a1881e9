SPECIFICATION VibeFairSpec
CONSTANTS
  Callers = {c1, c2}
  Parts <- MCParts
  Diffs <- MCDiffs
  MaxExplains = 2
  MaxLines = 2
INVARIANTS NoServerLeft ExplanationFitsDiff
PROPERTIES OkMeansShown HangsOnlyInIO
CHECK_DEADLOCK FALSE
