CONSTANTS
  d1 = d1 d2 = d2 d3 = d3 evaluate = evaluate hint = hint
  Deployment = {d1, d2, d3}
  Kind = {evaluate, hint}
  Job <- Jobs
  MaxConcurrency = 2
  QueueLimit = 2
  MaxAttempts = 2
  Stubborn <- Hung
SPECIFICATION FairSpec
INVARIANTS LanesExact CleanClose
PROPERTIES SlotsReleased QueuedStarts ShutdownReturns
