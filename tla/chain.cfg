SPECIFICATION Spec
CONSTANTS
  s1 = s1  s2 = s2  s3 = s3  b1 = b1  b2 = b2  p1 = p1  p2 = p2
  NoBoot = NoBoot
  Steps = {s1, s2}
  DependsOn <- Chain
  Mandatory = {s1, s2}
  Idempotent = {s1}
  Outcomes <- MCOutcomes
  RetryBound = 1
  IsRollback = FALSE
  SourceGeneration = 1
  TargetGeneration = 2
  Observations <- MCObservations
  Boots = {b1, b2}
  Publishers = {p1}
  PublisherOf <- OnePublisher
  MaxEpoch = 2
  MaxGeneration = 3
  MaxConvergence = 4
INVARIANTS CommittableIsCurrent SuspendedPlanHoldsNoWork
PROPERTIES CommitIsFenced DoubtOnlyReconciled CompletionIsKept FencingAdvancesWatermark ImplementsOrderedCommit
CHECK_DEADLOCK FALSE
