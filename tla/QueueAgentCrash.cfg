SPECIFICATION FairSpec
CONSTANTS
  fix1 = fix1
  fix2 = fix2
  note = note
  AgentRequests <- Fixes
  Requests <- Fixes
  Agents = {agent}
  OneAgent = agent
  CrowdRequests = {}
  Crowds = {FALSE}
  PullLimits = {0}
  MaxReleases = 0
  MaxCrashes = 1
PROPERTY CrashLosesNothing
CHECK_DEADLOCK FALSE
