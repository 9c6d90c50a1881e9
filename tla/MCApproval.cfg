SPECIFICATION FairSpec
CONSTANTS
  ActionIds = {a1, a2}
  Decisions = {"Approved", "Adjusted"}
  MaxRequests = 2
  MaxPolls = 4
  MaxFailures = 3
  EngramMayFail = TRUE
INVARIANTS AnswersAreClicks
PROPERTIES NeverReResolved DecisionDelivered TimedOutWasOffered
CHECK_DEADLOCK FALSE
