CONSTANTS
  None = None p1 = p1 p2 = p2 oncall = oncall dash = dash
  complete1 = complete1 complete2 = complete2 blocked1 = blocked1 blocked2 = blocked2
  unavailable = unavailable
  Agent = {p1}
  Economic = FALSE
  Observation <- Replayed
  Target = {dash}
  MinSeverity <- Warns
  MaxAttempts = 1
  BatchSize = 1
  MaxTicks = 2
  MaxAborts = 0
  MaxCrashes = 1
SPECIFICATION Spec
INVARIANTS BreachOpen
CHECK_DEADLOCK FALSE
