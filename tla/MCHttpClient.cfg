SPECIFICATION FairSpec
CONSTANTS
  MaxCalls = 2
  HeadOf <- MCHeadOf
  SizeOf <- MCSizeOf
  Exchanges <- MCExchanges
INVARIANTS
  TypeOK
  BodyIsPayload
  UpgradeKeepsBytes
  RequestInOrder
  
  NativeReleased
PROPERTY Settles
CHECK_DEADLOCK FALSE
