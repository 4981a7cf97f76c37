SPECIFICATION PageSpec
CONSTANTS
  MaxClicks = 2
  MaxKeys = 0
  MaxSaves = 2
  MaxLoads = 0
  MaxPosted = 2
INVARIANT SavedIsLive
CHECK_DEADLOCK FALSE
