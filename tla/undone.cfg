CONSTANTS
  Transitions <- Faultless
  Limits <- MCLimits
SPECIFICATION Spec
INVARIANT RollbackUndoesWhatWasDone
CHECK_DEADLOCK FALSE
