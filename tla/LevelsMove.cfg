CONSTANTS
  Low = 8
  High = 16
  Entry = 10
  Risk = 2
  Goal = 4
  Cost = 1
  MinMove = 2
  Rules = {"breakeven", "runner", "horizon", "failed_breakout", "ladder", "patience"}
  Exits = {"cut", "bank", "harvest"}
  Skips = {"cut", "harvest", "failed"}
  Splits = TRUE
  Atr = 1
  RunnerAt = 3
  RunnerTrail = 2
  HarvestTrail = 1
  Bars = 1
  Step = 2
  StopLag = 2
  TargetFrom = 2
  TargetLead = 1
  StopMult = 2
  TargetMult = 3
  ChoppyMult = 2
  Fallback = 2
  Gap = 1
  AdoptedBreakeven = 2
  MaxFaults = 1
SPECIFICATION Spec
INVARIANTS
  TypeOK
  BreakEvenHolds
  BookedStopIsLive
PROPERTY
  FloorOnlyRises
CHECK_DEADLOCK FALSE
