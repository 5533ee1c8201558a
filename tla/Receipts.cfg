SPECIFICATION MCSpec
CONSTANTS
  k1 = k1  k2 = k2  k3 = k3  k4 = k4  k5 = k5
  w1 = w1  w2 = w2
  Keys <- MCKeys
  ActionID <- MCActionID
  Target <- MCTarget
  Physical <- MCPhysical
  Operation <- MCOperation
  Created <- MCCreated
  Expires <- MCExpires
  Workers <- MCWorkers
  Cooldown = 1
  Retention = 1
  MaxRecords = 3
  PruneBatch = 1
  MaxTime = 4
  MaxJumps = 1
  None = None
SYMMETRY Symmetry
INVARIANTS OneRequestPerContainer StoreAlwaysOpens AtMostOneDispatch ReturnedIsDurable
PROPERTIES ImplementsReceipt
CHECK_DEADLOCK FALSE
