SPECIFICATION CpuSpec
CONSTANTS
  Dirs = {1}
  Idxs = {1}
  Roots = {1, 2}
  Tables = {1}
  Frames = {1, 2}
  PdeValues <- MCPdeValues
  PteValues <- MCPteValues
  Large <- MCLarge
  A20Mask <- MCA20Mask
  Slots = {"way0"}
  SlotOf <- MCSlotOf
  Kinds = {"fetch", "read", "write"}
  Events = {}
  NoWalk = NoWalk
  NoFault = NoFault
  Empty = Empty
  PlainForms <- MCPlain
  RegisterForms <- MCRegister
  MemoryForms <- MCMemory
  StackForms <- MCStack
  IndexSize = 8
  PageCells = 3
  MaxCount = 3
  Width = 5
  ParityBits = 4
  NibbleBits = 2
  CountRange = 16
  MantBits = 4
  DoubleBits = 3
  DoubleMax = 7
  MaxExp = 7
  Gap = 9
  Rams <- MCRams
  Images <- MCImages
  CmdLens = {0, 60, 5000}
  DiskLens = {1, 100000, 5000000}
  Screens <- MCScreens
  Elfs <- MCElfs
  MaxCalls = 3
INVARIANTS Coherent  ElementOnce
  ArithmeticExact FloatExact 
CHECK_DEADLOCK FALSE
