CONSTANTS
  A = A
  B = B
  Symbols = {A, B}
  Stake = 100
  Move = 25
  Caps = {0, 60}
  TracksPnl = TRUE
  Floor = 55
  LossLimit = 5
  TradeCap = 1
  Leverage = 1
  Target = 25
  StopReached = TRUE
  BudgetPct = 6
  SinglePct = 4
  StopPct = 8
  HardCap = 2
  MinNotional = 30
  Cooldown = 2
  Expiry = 1
  DayLength = 2
  Horizon = 2
  MaxFaults = 1
SPECIFICATION Spec
PROPERTY NoPhantomHalt
SYMMETRY Symmetry
CHECK_DEADLOCK FALSE
