SPECIFICATION FairSpec
CONSTANTS
  f1 = f1
  f2 = f2
  p1 = p1
  p2 = p2
  r1 = r1
  AnyPath = AnyPath
  Ids <- MCIds
  Paths <- MCPaths
  Rules <- MCRules
  PathOf <- MCPathOf
  RuleOf <- MCRuleOf
  GlobOf <- MCGlobOf
  MaxAge = 0
  Scannable <- MCIds
  AddedRecords <- NewOrFixed
  ScanRuns <- EveryKindOfRun
  PruneRuns <- BothPrunes
  SuppressRuns <- EachPath
INVARIANTS
  TypeOK
  MergeKeepsDecisions
  FullScanAgrees
  DiffScanStaysInScope
  ReportNamesChanges
PROPERTIES
  OnlyLegalMoves
  RegressionSurfaces
  FixedIsSettled
