\* The agent and the hosted plane: nine workloads, one database, one clock.
SPECIFICATION Spec
CONSTANTS
  None = None
  Tokens <- MCTokens
  Owner <- MCOwner
  Levels = {"local-only", "approved-full"}
  Secrets <- MCSecrets
  RateLimit = 2
  RateWindow = 2
  HintWindow = 1
  PageSize = 2
  MaxClock = 3
  MaxFailures = 1
  MaxOperator = 1
  Lanes <- MCLanes
  AcceptedLanes = {"remote"}
  Activation = 3
  MaxAge = 1
  ExpiresAfter = 2
  EconomicInterval = 2
  AgentToken = "agent"
  AgentDeployment = "d1"
  MaxJobs = 2
  MaxThrows = 1
  MaxCrashes = 1
INVARIANTS IngestHonest WalkComplete HintOnce ReadyIsHonest AlertsStand MirrorHonest
PROPERTY RecordsStand
CHECK_DEADLOCK FALSE
