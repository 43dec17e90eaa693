SPECIFICATION Spec
CONSTANTS
  RuleTable <- MCRuleTable
  Alphabet <- MCAlphabet
  Markup = FALSE
  Tripled = FALSE
  LineKinds <- MCLineKinds
  InsertedAnywhere = TRUE
  Floors = {"info"}
  FailOn = "high"
  MaxLength = 2
  MaxEdits = 1
INVARIANT DismissalSurvivesMotion
CHECK_DEADLOCK FALSE
