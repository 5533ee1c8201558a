SPECIFICATION LogSpec
CHECK_DEADLOCK FALSE
CONSTANTS
  Minute = 2
  Lookback = 2
  Retention = 4
  Skew = 0
  MaxRows = 2
  BatchSize = 1
  Forms = {TRUE}
  Failures = {}
  MaxTime = 4
  MaxEvents = 2
INVARIANTS
  ResetSkipsNothing
