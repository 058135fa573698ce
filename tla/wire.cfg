\* What a client and the coordinator understand of each other.
SPECIFICATION Spec
CONSTANTS
  Worlds <- SomeWorlds
  MaxSteps = 64
  MaxDependencies = 64
  MaxParallel = 16
  MaxBatch = 256
  MaxEntries = 64
  MaxFrame = 262144
INVARIANTS NothingIsMisread OnlyKnownGaps
