\* The control surfaces: three inputs, two lives, two faults.
SPECIFICATION Spec
CONSTANTS
  Coins = {c1}
  Strategies = {s1, s2}
  Routed = {s1}
  Values = {v1, v2, v3}
  Editable = {v1, v2, v3}
  Allowed = {v1, v3}
  Short = {v1, v2}
  Declared = {v1}
  Default = v0
  Overlaid = FALSE
  Verbs = {"close", "halt", "resume", "strategy", "set", "restart", "stop",
           "scan", "short"}
  All = all
  Nil = nil
  MaxInputs = 3
  MaxLives = 2
  MaxFaults = 2
INVARIANTS
  TypeOK
  HaltHolds
  NothingLost
PROPERTIES
  QuestionsRunOnce
CHECK_DEADLOCK FALSE
