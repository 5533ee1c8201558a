SPECIFICATION MCSpec
CONSTANTS
  Calls = {a, b}
  Profiles = {p, q}
  Systems = {"linux", "darwin", "windows"}
  MaxRuns = 3
  MaxFaults = 1
  None = None
  Minute = 1
  Lookback = 1
  Retention = 1
  Skew = 0
  MaxRows = 2
  MaxRecent = 1
  BatchSize = 1
  Forms = {TRUE, FALSE}
  Failures <- SomeFailures
  Summaries = {r1}
  MaxTime = 3
  MaxEvents = 3
  Horizon = 4
  Second = 2
  Levels <- MCLevels
SYMMETRY Symmetry
INVARIANTS
  OperationsExclude
  RegistrationIsOwned
  InterruptedIsRecoverable
  StoredStateLoads
  CountsAreTrue
  PageIsTrue
  CoverageIsExact
CHECK_DEADLOCK FALSE
