CONSTANTS
  None = None w1 = w1 w2 = w2 g1 = g1 g2 = g2 a = a b = b
  Worker = {w1, w2}
  Group = {g1, g2}
  Hash = {a, b}
  StartBlock = 1
  MaxHead = 2
  LogHeights = {}
  Width = 2
  RetryBudget = 1
  Required = 2
  ArchiveGroups = {}
  ArchiveDeclared = FALSE
  FetchFailures = {}
  HintHeights = {}
  MaxHints = 1
  FreshnessTtl = 0
  MaxClock = 0
  Top = 4
  MaxCrashes = 0
SPECIFICATION Spec
SYMMETRY Symmetric
INVARIANTS OneAcceptedPerHeight CompleteIsIngested RangesExact
PROPERTIES LedgerRefined
