SPECIFICATION MCSpec
CONSTANTS
  a1 = a1
  a2 = a2
  a3 = a3
  h1 = h1
  h2 = h2
  Actions <- MCActions
  Target <- MCTarget
  Handlers <- MCHandlers
  MaxLive = 2
  MaxRecords = 2
  MaxTalks = 2
  MaxWorkers = 2
  MaxBrokers = 1
  None = None
  Continuity = 1
  Skew = 1
  Control = 2
  ReadyAge = 1
  Delivery = 2
  Effect = 3
  Reserve = 2
  Lease = 6
  MaxBoot = 9
  MaxStep = 3
  MaxSleep = 3
  MaxAhead = 3
  Absent = Absent
SYMMETRY Symmetry
INVARIANTS
  ClaimsAreAccounted
  ReservationsAgree
  EffectIsTimely
  NothingIsRefusedEarly
CHECK_DEADLOCK FALSE
