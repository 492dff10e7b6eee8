CONSTANTS
  None = None p1 = p1 p2 = p2 oncall = oncall dash = dash
  complete1 = complete1 complete2 = complete2 blocked1 = blocked1 blocked2 = blocked2
  unavailable = unavailable
  Agent = {p1, p2}
  Economic = FALSE
  Observation <- Replayed
  Target = {oncall, dash}
  MinSeverity <- Warns
  MaxAttempts = 2
  BatchSize = 2
  MaxTicks = 2
  MaxAborts = 1
  MaxCrashes = 0
SPECIFICATION Spec
INVARIANTS SentMeansTold PagedOnce
PROPERTIES AckMutes
CHECK_DEADLOCK FALSE
