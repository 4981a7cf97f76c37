SPECIFICATION GuestNetSpec
CONSTANTS
  Up = 3
  Down = 3
  SockCap = 2
  PumpMax = 1
  OutDepth = 1
  InDepth = 1
  MayAbort = TRUE
  Names = {1, 2, 3}
  Ips = {4, 5, 6}
  Ports = {80, 443}
  Routable = {4, 5}
  Allowlists <- MCAllowlists
  Answers <- MCAnswers
  Literal <- MCLiteral
  AnyHost = 0
  AnyPort = 0
  MaxPending = 1
  MaxGuests = 2
  GuestChunks = 2
  HostChunks = 2
  ChanDepth = 1
  SockRoom = 1
INVARIANTS StreamsWhole CacheVouched RelayedWhole
PROPERTIES ResponseArrives  ThreadsEnd
CHECK_DEADLOCK FALSE
