\* Three servers and nobody at the dashboard; three faults.
SPECIFICATION UnattendedSpec
CONSTANTS
  a = a  b = b  c = c
  None = None
  Servers <- ThreeServers
  Mode = "settings"
  MinInterval = 1
  Cooldown = 1
  MaxAge = 1
  MinImprovement = 2
  LoadTrigger = 0
  Candidates = 3
  RefreshOnReject = FALSE
  Guarded = FALSE
  Rankings <- OneRanking
  BootSelection <- NoServers
  Lists <- FullList
  Published <- NoServers
  Dead <- NoServers
  Roles <- NoRoles
  FaultKinds = {"timeout", "down", "gluetunRestart", "engineRestart"}
  MaxFaults = 3
PROPERTIES Converges
