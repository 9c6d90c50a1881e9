SPECIFICATION FairSpec
CONSTANTS
  Contracts = {"a", "b"}
  Messages <- MCMessages
  MaxMessages = 3
  MaxStarts = 2
  MaxMounts = 2
  EngramMayFail = TRUE
PROPERTIES RepliesTellTruth BackOnlyOverFetch PaneCatchesUp
CHECK_DEADLOCK FALSE
