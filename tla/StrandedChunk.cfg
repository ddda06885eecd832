SPECIFICATION FairSpec
CONSTANTS
  MaxPush = 2
  MaxCalls = 4
PROPERTY BacklogReachesListener
CHECK_DEADLOCK FALSE
