SPECIFICATION FairSpec
CONSTANTS
  PollPeriod = 3
  PitDivider = 2
  Guests <- MCGuests
INVARIANTS
  LatchedWithinBackstop
  CascadeHidesNothing
  InServiceMatchesHandlers
PROPERTIES
  NoSpuriousDeviceIrq
  HaltWakes
