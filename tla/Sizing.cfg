CONSTANTS
  Equities = {40, 55, 400}
  Eligible = {1, 4}
  Prices = {40, 130}
  Halves = {2, 5}
  Least = {1, 3}
  Atrs = {0}
  MinNotional = 100
  BudgetPct = 6
  SinglePct = 2
  StopPct = 1
  HardCap = 4
  Leverages = {1, 2, 7}
  PositionPct = 100
  TrailMult = 0
  MaxCycles = 2
SPECIFICATION Spec
INVARIANTS
  AllocationIsLargest
  CycleFitsBudget
PROPERTY
  LeverageHolds
CHECK_DEADLOCK FALSE
