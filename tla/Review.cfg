SPECIFICATION FairSpec
CONSTANTS
  f1 = f1
  f2 = f2
  p1 = p1
  r1 = r1
  t1 = t1
  t2 = t2
  AnyPath = AnyPath
  Ids <- MCIds
  Paths = {p1}
  Rules = {r1}
  PathOf <- MCPathOf
  RuleOf <- MCRuleOf
  GlobOf <- MCGlobOf
  MaxAge = 0
  Threads = {t1, t2}
  Targets <- PostedTargets
  Batches <- MCBatches
  BatchCap = 1
  Scannable = {f1}
  MaxActions = 2
  MaxCrashes = 1
INVARIANTS
  QueuedWasAsked
PROPERTIES
  DismissalStands
  QueuedIsAnswered
