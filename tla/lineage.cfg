CONSTANTS
  u = u  v = v  w = w
  Forwards <- WithSuccessor
  Length = 2
  Observations <- Superseding
  MaxEpoch = 2
  MaxRestarts = 1
  MaxEvents = 3
SPECIFICATION Spec
SYMMETRY Structures
INVARIANTS LineageInvariant OutcomeIsSealed LineageIsMutual RollbackCloses OneOpenPlanPerKey
CHECK_DEADLOCK FALSE
