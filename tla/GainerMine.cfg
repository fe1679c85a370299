CONSTANTS
  A = A
  B = B
  Symbols = {A, B}
  Coins = {A, B}
  GainerSlots = 1
  SqueezeSlots = 1
  GainerHold = 1
  SqueezeHold = 2
  MaxNewPerRound = 2
  Period = 2
  Window = 0
  Confirm = 1
  Cooldown = 2
  MinHold = 1
  Horizon = 2
  MaxFaults = 2
SPECIFICATION Spec
INVARIANTS
  TypeOK
  StandsAside
  RoundOnce
PROPERTIES
  OpenSettles
  CooldownHolds
CHECK_DEADLOCK FALSE
SYMMETRY Symmetry
