CONSTANTS
  Lot = 2
  MaxQty = 2
  CloseAfter = 0
  KillAction = "flatten"
  CloseStep = 1
  MaxFaults = 0
SPECIFICATION Spec
INVARIANT
  AsksBeforeLettingGo
CHECK_DEADLOCK FALSE
