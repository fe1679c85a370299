CONSTANTS
  A = A
  B = B
  Symbols = {A}
  Coins = {A, B}
  GainerSlots = 1
  SqueezeSlots = 1
  GainerHold = 1
  SqueezeHold = 1
  MaxNewPerRound = 1
  Period = 2
  Window = 0
  Confirm = 1
  Cooldown = 2
  MinHold = 1
  Horizon = 2
  MaxFaults = 2
SPECIFICATION FairSpec
PROPERTIES
  OverdueIsSold
  TrackIsDropped
CHECK_DEADLOCK FALSE
