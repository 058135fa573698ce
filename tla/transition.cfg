CONSTANTS
  Transitions <- MCTransitions
  Limits <- MCLimits
SPECIFICATION FairSpec
INVARIANTS NeverDark NeverOverlaps CompletedHasConverged RollbackRestores PruningKeepsOrder GeneratedConforms
PROPERTY WorkSettles
CHECK_DEADLOCK FALSE
