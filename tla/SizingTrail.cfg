CONSTANTS
  Equities = {400}
  Eligible = {1, 4}
  Prices = {40, 130}
  Halves = {2, 5}
  Least = {1, 3}
  Atrs = {10}
  MinNotional = 100
  BudgetPct = 6
  SinglePct = 2
  StopPct = 1
  HardCap = 4
  Leverages = {1, 2, 7}
  PositionPct = 100
  TrailMult = 2
  MaxCycles = 2
SPECIFICATION Spec
INVARIANT TrailIsNoWorse
CHECK_DEADLOCK FALSE
