SPECIFICATION Spec
CONSTANTS
  NRows = 2
  PageStatuses = {"open", "queued"}
  ShownStatuses = {"open"}
  Stamps = {0}
  MaxPending = 2
  MaxChanges = 2
  Symbols <- MCSymbols
  CallersOf <- MCCallersOf
  EntryPoints <- MCEntryPoints
  Places <- MCPlaces
  MAX_QUERIES = 3
  Radius = 8
  ReadAhead = 12
  WordLength <- MCWordLength
  Cut <- MCCut
  Candidates <- MCCandidates
  Handlers <- MCHandlers
  MaxHandlers = 3
  Releases <- MCVersions
  Variables = {"x"}
  UsedRules = {"sql_dynamic", "path_tainted", "shell_true_literal", "assert_security"}
  MaxVisits = 5
  MaxFunctions = 2
  RuleTable <- MCRuleTable
  Alphabet <- MCAlphabet
  Markup = FALSE
  Tripled = TRUE
  LineKinds <- MCLineKinds
  InsertedAnywhere = FALSE
  Floors = {"info", "critical"}
  FailOn = "high"
  MaxLength = 3
  MaxEdits = 2
  Languages = {"php", "ruby", "go"}
  Names = {"a", "b"}
  Escapes = {"xss"}
  MaxAssigns = 3
  Shells = {1, 2}
  MaxCommands = 4
INVARIANTS
  DedupeIgnoresOrder
  SelectionVisible
  AnswersAreTheGraphs
  HandlersAreJudgedAlone
  PrefilterIsNeutral
  RatedByOwnFunction
  DangerIsFlagged
  FlaggedIsDanger
  AdvisoriesAreMonotone
  NothingSentUnasked
PROPERTIES
  PageCatchesUp
  MotionKeepsIdentity
  RatchetPassesWhatItFroze
CHECK_DEADLOCK FALSE
