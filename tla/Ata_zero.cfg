SPECIFICATION DevicesSpec
CONSTANTS
  RingLen = 48
  MinFrame = 4
  Lengths = {3, 9, 41}
  Numbers = 5
  TxCap = 2
  Descs = {1, 2}
  AddrBits = 2
  WordBits = 3
  MaxClocks = 9
  SectorSize = 2
  CountMod = 3
  Counts = {0, 1}
  Lbas = {0, 1}
  Bytes = {0, 1}
  Image <- MCImage
  Base = 2
  MaxOut = 3
  MaxCodes = 1
  Initials = {0, 2}
  Timers = {0}
  WordMod = 4
  CounterMod = 8
  Values = {0, 3}
  SerialNumbers = 4
  MaxRx = 2
  MaxTx = 2
  MaxQueue = 2
INVARIANT ReadsBack
