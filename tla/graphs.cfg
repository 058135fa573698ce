CONSTANTS
  Graphs <- MCGraphs
  Limits <- MCLimits
SPECIFICATION Spec
INVARIANTS SortInvariant RefusalsAreExact OrderIsCanonical DependenceIsAChain
CHECK_DEADLOCK FALSE
