CONSTANTS
  Procs = {1, 2}
  Ports = {1, 2}
  MaxStarts = 2
  MaxRequests = 1
  MaxFaults = 1
  MaxFiles = 3
  MaxFileBytes = 2
  MaxAge = 1
  Sizes = {1, 2}
  MaxRecords = 5
  MaxClock = 2
  MaxDeaths = 1
SPECIFICATION Spec
INVARIANTS ServingIsBacked KeptIsGapless
PROPERTY RequestEndsInstance
CHECK_DEADLOCK FALSE
