SPECIFICATION ProxyFairSpec
CONSTANTS
  Conns = {1, 2, 3}
  Ips = {"a", "b"}
  IpOf <- TwoFromOne
  MaxConns = 2
  MaxPerIp = 1
  Watched = 1
  Sizes = {1}
  Frames = {"data", "text"}
  MaxFrames = 2
  MaxReply = 2
  MaxBytes = 1
  Idle = 2
  Period = 1
INVARIANTS
  BooksBalance
  
  ResponseDelivered
PROPERTIES
  AdmissionPolicy
  SlotReturned
