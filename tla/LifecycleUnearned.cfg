SPECIFICATION Spec
CONSTANTS
  f1 = f1
  f2 = f2
  p1 = p1
  p2 = p2
  r1 = r1
  AnyPath = AnyPath
  Ids <- MCIds
  Paths <- MCPaths
  Rules <- MCRules
  PathOf <- MCPathOf
  RuleOf <- MCRuleOf
  GlobOf <- PlainGlobOf
  MaxAge = 0
  Scannable <- MCIds
  AddedRecords <- NoRecords
  ScanRuns <- EmptyDiffRuns
  PruneRuns <- BothPrunes
  SuppressRuns <- NoPatterns
PROPERTY
  VerifiedIsEarned
