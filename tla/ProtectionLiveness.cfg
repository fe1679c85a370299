CONSTANTS
  Lot = 1
  MaxQty = 2
  CloseAfter = 2
  KillAction = "flatten"
  CloseStep = 1
  MaxFaults = 2
SPECIFICATION FairSpec
PROPERTIES
  NakedIsResolved
  SlotIsFreed
CHECK_DEADLOCK FALSE
