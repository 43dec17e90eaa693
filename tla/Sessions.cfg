SPECIFICATION Spec
CONSTANTS
  scan = scan
  dismiss = dismiss
  fix = fix
  board = board
  Original = Original
  NoOne = NoOne
  Client = {scan, dismiss, fix}
  Layouts <- BothLayouts
  MaxFailures = 1
  MayStall = TRUE
SYMMETRY Interchangeable
INVARIANTS
  FileWhole
  AckedWasWritten
  SoloSessionsKeep
PROPERTY KeepsWhatItLoaded
\* One session per client: the run ends.
CHECK_DEADLOCK FALSE
