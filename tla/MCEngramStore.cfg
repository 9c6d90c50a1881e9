SPECIFICATION StoreFairSpec
CONSTANTS
  Callers = {app, mcp}
  Patient = {app}
  Sessions = {s1}
  Keys <- MCKeys
  Contents = {a, b}
  NoContent = NoContent
  Daemons <- MCDaemons
  MayFallSilent = TRUE
  MaxCalls = 3
  MaxSecond = 1
PROPERTIES ImplementsPort CallsEnd
CHECK_DEADLOCK FALSE
