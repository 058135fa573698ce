SPECIFICATION Spec
CONSTANTS
  s1 = s1  s2 = s2  s3 = s3  b1 = b1  b2 = b2  p1 = p1  p2 = p2
  NoBoot = NoBoot
  Steps = {s1, s2, s3}
  DependsOn <- Join
  Mandatory = {s1}
  Idempotent = {s1}
  Outcomes <- MCOutcomes
  RetryBound = 1
  IsRollback = TRUE
  SourceGeneration = 2
  TargetGeneration = 1
  Observations <- MCObservations
  Boots = {b1, b2}
  Publishers = {p1, p2}
  PublisherOf <- TwoPublishers
  MaxEpoch = 1
  MaxGeneration = 2
  MaxConvergence = 3
INVARIANTS InductiveInvariant PlanCanMove PrerequisitesSatisfied NoForgottenStep InFlightHeldByLiveWorker CompletedPlanIsComplete
PROPERTY TerminalIsFinal
CHECK_DEADLOCK FALSE
