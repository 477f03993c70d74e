SPECIFICATION FairSpec
CONSTANTS
  Agents = {1, 2, 3}
  LeaderWorker = TRUE
  Mortal = {3}
INVARIANT LeaderNotUnhealthy
PROPERTY LeaderIsStable
PROPERTY DeadIsDetected
