CONSTANTS
  Calls = {a}
  Profiles = {p}
  Systems = {"linux"}
  MaxRuns = 2
  MaxFaults = 1
  None = None
SPECIFICATION Spec
INVARIANT EnableMeansLogin
CHECK_DEADLOCK FALSE
