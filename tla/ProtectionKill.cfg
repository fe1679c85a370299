CONSTANTS
  Lot = 1
  MaxQty = 1
  CloseAfter = 0
  KillAction = "flatten"
  CloseStep = 1
  MaxFaults = 1
SPECIFICATION Spec
PROPERTY
  KillNeverStrips
CHECK_DEADLOCK FALSE
