SPECIFICATION Spec
CONSTANTS
  scan = scan
  dismiss = dismiss
  fix = fix
  board = board
  Original = Original
  NoOne = NoOne
  Client = {scan, dismiss}
  Layouts <- TwoCommands
  MaxFailures = 0
  MayStall = FALSE
INVARIANT AckedSurvives
CHECK_DEADLOCK FALSE
