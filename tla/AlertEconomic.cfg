CONSTANTS
  None = None p1 = p1 p2 = p2 oncall = oncall dash = dash
  complete1 = complete1 complete2 = complete2 blocked1 = blocked1 blocked2 = blocked2
  unavailable = unavailable
  Agent = {p1}
  Economic = TRUE
  Observation <- Economics
  Target = {dash}
  MinSeverity <- Warns
  MaxAttempts = 2
  BatchSize = 1
  MaxTicks = 3
  MaxAborts = 0
  MaxCrashes = 1
SPECIFICATION FairSpec
INVARIANTS BreachOpen RecoveryCloses
PROPERTIES WorsePages OutboxDrains
CHECK_DEADLOCK FALSE
