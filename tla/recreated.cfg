CONSTANTS
  u = u  v = v  w = w
  Forwards <- TwoStructures
  Length = 1
  Observations <- TargetOnly
  MaxEpoch = 2
  MaxRestarts = 1
  MaxEvents = 3
SPECIFICATION Spec
PROPERTY CreatedPlanIsReady
CHECK_DEADLOCK FALSE
