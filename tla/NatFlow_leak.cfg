SPECIFICATION FairSpec
CONSTANTS
  Up = 1
  Down = 2
  SockCap = 1
  PumpMax = 1
  OutDepth = 1
  InDepth = 1
  MayAbort = TRUE
PROPERTY SlotFreed
