\* Three servers, two of which are tried, and lists of Gluetun that lack the best ones.
SPECIFICATION Spec
CONSTANTS
  a = a  b = b  c = c
  None = None
  Servers <- ThreeServers
  Mode = "settings"
  MinInterval = 0
  Cooldown = 0
  MaxAge = 0
  MinImprovement = 2
  LoadTrigger = 0
  Candidates = 2
  RefreshOnReject = TRUE
  Guarded = FALSE
  Rankings <- OneRanking
  BootSelection <- NoServers
  Lists <- AllLists
  Published <- NoServers
  Dead <- NoServers
  Roles <- NoRoles
  FaultKinds = {"timeout", "down", "drop", "outside", "provider"}
  MaxFaults = 1
INVARIANTS LandsOnBestKnown
PROPERTIES BannerIsTrue
