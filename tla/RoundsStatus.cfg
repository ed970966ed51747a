\* Reconnects by status, with a Gluetun that may stay in transition, a role that
\* may forbid the route, and two faults.
SPECIFICATION HLoopSpec
CONSTANTS
  a = a  b = b  c = c
  None = None
  Servers <- TwoServers
  Mode = "status"
  MinInterval = 0
  Cooldown = 0
  MaxAge = 0
  MinImprovement = 2
  LoadTrigger = 0
  Candidates = 2
  RefreshOnReject = TRUE
  Guarded = FALSE
  Rankings <- PairRanking
  BootSelection <- NoServers
  Lists <- PairList
  Published <- TwoServers
  Dead <- NoServers
  Roles <- StatusOrNot
  FaultKinds = {"timeout", "down", "drop", "outside", "slow"}
  MaxFaults = 2
  Track = {"torn"}
INVARIANTS OneInterruption
PROPERTIES RoundEnds
