SPECIFICATION TlbSpec
CONSTANTS
  Dirs = {1}
  Idxs = {1}
  Roots = {1, 2}
  Tables = {1}
  Frames = {1, 2}
  PdeValues <- MCPdeValues
  PteValues <- MCPteValues
  Large <- MCLarge
  A20Mask <- MCA20Mask
  Slots = {"way0"}
  SlotOf <- MCSlotOf
  Kinds = {"fetch", "write"}
  Events = {"restore"}
  NoWalk = NoWalk
  NoFault = NoFault
  Empty = Empty
INVARIANTS
  Coherent
