SPECIFICATION MCSpec
CONSTANTS
  MaxInvocation = 1
  MaxAttempts = 2
  MaxConfig = 2
  None = None
  a = a
  b = b
  Callers <- MCCallers
  MaxCount = 2
  Calls = {1, 2}
  Profiles = {"numeric", "rich", "docker"}
  Grants = {g1}
  Nothing = Nothing
  Off = Off
INVARIANTS LoopIsBounded InstalledIsWhole PhaseIsHonest
PROPERTIES AdmissionMatchesConfig ActivationEnds CancelEnds
CHECK_DEADLOCK FALSE
