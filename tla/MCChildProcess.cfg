SPECIFICATION FairSpec
CONSTANTS
  Streams = {"stdout"}
  MaxChunks = 2
  MaxCalls = 2
INVARIANTS
  TypeOK
  OutputInOrder
  LifecycleInOrder
PROPERTY Reaped
CHECK_DEADLOCK FALSE
