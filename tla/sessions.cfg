CONSTANTS
  Connections = {c1, c2}
  Requests <- Everything
  PublisherOf <- PublisherOfBoot
  Remembered = 1
  MaxRequests = 4
  None = None
SPECIFICATION FairSpec
INVARIANTS AtMostOnce SessionInvariant
PROPERTIES FencedDoNothing SessionLossFences
CHECK_DEADLOCK FALSE
