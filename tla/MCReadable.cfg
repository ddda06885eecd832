SPECIFICATION FairSpec
CONSTANTS
  MaxPush = 3
  MaxCalls = 5
INVARIANTS
  TypeOK
  NothingLost
  EndThenClose
PROPERTIES
  ReaderGetsEnd
  DestroyedCloses
CHECK_DEADLOCK FALSE
