SPECIFICATION Spec
CONSTANTS
  Interval = 5
  Burst = 4
  Budget = 2
  RestartSec = 1
  Fallible = FALSE
  Horizon = 8
PROPERTIES
  StopStaysDown
CHECK_DEADLOCK FALSE
