\* A round that is not verified, and the next one.
SPECIFICATION HSpec
CONSTANTS
  a = a  b = b  c = c
  None = None
  Servers <- TwoServers
  Mode = "settings"
  MinInterval = 1
  Cooldown = 1
  MaxAge = 1
  MinImprovement = 2
  LoadTrigger = 0
  Candidates = 2
  RefreshOnReject = FALSE
  Guarded = FALSE
  Rankings <- PairRanking
  BootSelection <- NoServers
  Lists <- PairList
  Published <- NoServers
  Dead <- NoServers
  Roles <- NoRoles
  FaultKinds = {}
  MaxFaults = 1
  Track = {"sinceTorn"}
PROPERTIES FloorBoundsTearDowns
