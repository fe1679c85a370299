\* Two entries of up to two lots, a queue of two events, one fault.
SPECIFICATION FairSpec
CONSTANTS
  Lot = 2
  MaxTrades = 2
  MaxQueue = 2
  MaxFaults = 1
INVARIANT
  FillCountedOnce
PROPERTIES
  FinishedIsReleased
  HeldIsTracked
CHECK_DEADLOCK FALSE
