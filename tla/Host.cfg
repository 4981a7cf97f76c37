SPECIFICATION HostSpec
CONSTANTS
  MaxSlots = 3
  StartCount = 2
  TableCap = 1
  RingCap = 1
  MaxFrames = 2
  MaxBoots = 3
  MaxClicks = 2
  MaxKeys = 2
  MaxSaves = 1
  MaxLoads = 1
  MaxPosted = 2
  MaxEpoch = 3
  MaxTaken = 1
  Versions = {1, 2, 9, 10, 11, 12, 14, 15, 16}
  Damage = {"cut", "record", "magic", "size"}
  Sessions = {1, 2}
  List <- MCList
  AutoMaxTries = 2
  MaxHeader = 8
  MaxCalls = 4
  u1 = u1  u2 = u2  base = base  dirty1 = dirty1  dirty2 = dirty2
  alpha = alpha  t1 = t1  t2 = t2  t3 = t3  t4 = t4
  Uploaders = {u1, u2}
  Pages = {base, dirty1, dirty2}
  Ids = {alpha}
  Tmps = {t1, t2, t3, t4}
  Inodes = {1, 2, 3, 4, 5, 6, 7, 8, 9, 10}
  Hole = Hole  NoFile = NoFile  CutShort = CutShort
  IdOf <- MCIdOf
  TmpOf <- MCTmpOf
  Modes <- MCModes
INVARIANTS FramesInOrder GuestServed TunnelAligned RotationCovers StoredWhole Restorable
PROPERTIES HubDelivers  PagesImmutable
CHECK_DEADLOCK FALSE
