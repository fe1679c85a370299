CONSTANTS
  Lot = 3
  MaxQty = 3
  CloseAfter = 0
  KillAction = "flatten"
  CloseStep = 2
  MaxFaults = 0
SPECIFICATION Spec
PROPERTY
  CloseMeansClosed
CHECK_DEADLOCK FALSE
