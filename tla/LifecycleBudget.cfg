SPECIFICATION Spec
CONSTANTS
  Interval = 6
  Burst = 3
  Budget = 1
  RestartSec = 0
  Fallible = TRUE
  Horizon = 11
INVARIANTS
  TypeOK
  RestartsFitBudget
PROPERTIES
  ReserveOutlastsRestarts
CHECK_DEADLOCK FALSE
