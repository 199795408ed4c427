SPECIFICATION LimiterFairSpec
CONSTANTS
  Clients = {c1, c2, c3}
  MaxMutate = 1
  MaxStatus = 1
  MaxQueue = 2
INVARIANTS Accounting Limits
PROPERTIES WaitersAreServed
