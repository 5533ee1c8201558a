CONSTANTS
  Procs = {1, 2}
  Ports = {1}
  MaxStarts = 2
  MaxRequests = 1
  MaxFaults = 1
SPECIFICATION RuntimeSpec
INVARIANT StopMeansCleanClose
CHECK_DEADLOCK FALSE
