CONSTANTS
  Pct = 15
  MinTransfer = 1
  StartAt = 0
  Trigger10 = 25
  PauseAfter = 2
  Drawdown = 20
  MaxExposure = 25
  GainerLoss = 50
  DailyLoss = 60
  Floor = 1
  Notional = 1
  Wins = {6}
  Losses = {2}
  Deposit = 4
  MaxTrades = 3
  MaxDeposits = 2
  MaxDays = 2
  MaxFaults = 1
SPECIFICATION Spec
CHECK_DEADLOCK FALSE
INVARIANT MovedOnce
