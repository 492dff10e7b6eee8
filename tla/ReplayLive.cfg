\* One worker whose pass may die at any await, with hints, failures, splits and a clock.
CONSTANTS
  None = None w1 = w1 w2 = w2 g1 = g1 g2 = g2 a = a b = b
  Worker = {w1}
  Group = {g1, g2}
  Hash = {a}
  StartBlock = 1
  MaxHead = 3
  LogHeights = {}
  Width = 2
  RetryBudget = 2
  Required = 2
  ArchiveGroups = {}
  ArchiveDeclared = FALSE
  FetchFailures = {"SILENT_TRUNCATION"}
  HintHeights = {3}
  MaxHints = 1
  FreshnessTtl = 0
  MaxClock = 1
  MaxCrashes = 1
  Top = 1
SPECIFICATION LiveSpec
INVARIANTS OKSound NoHoleUnhinted
PROPERTIES PassEnds CatchesUpUndisturbed
