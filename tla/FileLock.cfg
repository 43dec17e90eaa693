SPECIFICATION FairSpec
CONSTANTS
  NoOne = NoOne
  cli = cli
  board = board
  agent = agent
  Proc = {cli, board, agent}
  MaxFailures = 2
  MayStall = TRUE
INVARIANTS
  LockInv
  ExclusionUntilOld
PROPERTIES
  OwnFileOnly
  ImplementsMutex
  AttemptsEnd
  AbandonedFileGoes
