SPECIFICATION MCSpec
CONSTANTS
  MaxInvocation = 2
  MaxAttempts = 2
  MaxConfig = 1
  None = None
  MaxInstances = 2
  MaxCalls = 2
  MaxAccidents = 2
  MaxSockets = 2
  Nobody = Nobody
  Off = Off
  Window = 0
  MaxFuture = 0
  MaxRestarts = 1
  MaxEvents = 2
  MaxTime = 2
  NoRecord = NoRecord
INVARIANTS
  ReportIsTrue
  AdmissionIsAuthorised
  DockerStartIsSafe
  SurvivesPowerLoss
PROPERTIES
  ReturnsAreTrue
CHECK_DEADLOCK FALSE
