SPECIFICATION FairSpec
CONSTANTS
  MaxWrites = 2
  MaxCloses = 1
  HeadOf <- MCHeadOf
  SizeOf <- MCSizeOf
  Requests <- MCRequests
INVARIANTS
  TypeOK
  RequestIsPayload
  ErrorHasCause
PROPERTIES
  NoneHeldUnserved
  RequestSettles
  AnsweredCloses
CHECK_DEADLOCK FALSE
