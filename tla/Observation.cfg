SPECIFICATION MCSpec
CONSTANTS
  MaxFilesystems = 2
  MaxPartitions = 3
  MaxProcesses = 1
  MaxContainers = 2
  MaxScan = 2
  MaxPids = 3
  MaxFaulty = 2
  ProviderErrors = {"permission", "other"}
  Records = {1, 2, 3}
  MaxRestarts = 2
  MaxFailures = 1
  MaxReads = 2
  Metrics = {1, 2}
  LastMetrics = {2}
  Values = {1, 3}
  Resolution = 3
  RollupAfter = 0
  RetentionAge = 2
  BatchSize = 2
  SeriesResolution = 3
  SeriesDuration = 3
  Reasons = {"DATABASE_CORRUPT"}
  LastTime = 3
  MaxSeq = 3
  MaxBad = 1
  Containers = {c1, c2, c3}
  Fanout = 2
  Policies = {"p1", "p2"}
  Bound = "p1"
  FrameMaxAge = 0
  MaxAge = 0
  Window = 0
  MaxTime = 2
  MaxStarts = 3
  Off = Off
INVARIANTS
  CollectionIsSound
  HistoryIsTrue
  ConsentIsKept
  InventoryIsWhole
PROPERTIES
  PublishedIsFresh
  ConsentGates
  ImplementsSlot
CHECK_DEADLOCK FALSE
