SPECIFICATION FairSpec
CONSTANTS
  fix1 = fix1
  fix2 = fix2
  note = note
  AgentRequests <- Fixes
  Requests <- FixesAndNote
  Agents = {agent, other}
  OneAgent = agent
  CrowdRequests <- Fixes
  Crowds = {TRUE, FALSE}
  PullLimits = {0, 1}
  MaxReleases = 1
  MaxCrashes = 1
INVARIANTS
  OncePerRequest
  HeldIsClaimed
  IncreasingSeqs
PROPERTIES
  ImplementsPromise
  PendingIsServed
  ClaimedIsSettled
\* Each request is pushed once: the run ends.
CHECK_DEADLOCK FALSE
