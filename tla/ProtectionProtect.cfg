CONSTANTS
  Lot = 3
  MaxQty = 4
  CloseAfter = 2
  KillAction = "protect"
  CloseStep = 1
  MaxFaults = 3
SPECIFICATION Spec
INVARIANTS
  TypeOK
  ReconcileNeverStrips
  StopCoversPosition
PROPERTIES
  NeverStripsUnlessRaced
  RecoverySettles
CHECK_DEADLOCK FALSE
