SPECIFICATION FairSpec
CONSTANTS
  b1 = b1
  b2 = b2
  None = None
  Bodies <- MCBodies
  CollectedAt <- MCCollectedAt
  MaxSequence = 3
  MaxAge = 1
  MaxFuture = 1
  MaxTime = 5
  MaxJumps = 1
INVARIANTS
  LedgerInvariant
PROPERTIES
  LedgerOnlyAdvances
  PendingIsResolved
