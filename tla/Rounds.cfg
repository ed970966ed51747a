\* Two servers, two rankings, every command and one fault of any kind.
SPECIFICATION HSpec
CONSTANTS
  a = a  b = b  c = c
  None = None
  Servers <- TwoServers
  Mode = "settings"
  MinInterval = 1
  Cooldown = 2
  MaxAge = 2
  MinImprovement = 2
  LoadTrigger = 50
  Candidates = 2
  RefreshOnReject = TRUE
  Guarded = TRUE
  Rankings <- TwoRankings
  BootSelection <- NoServers
  Lists <- PairLists
  Published <- NoServers
  Dead <- NoServers
  Roles <- SomeRoles
  FaultKinds = {"timeout", "down", "updater", "drop", "outside", "gluetunRestart", "engineRestart"}
  MaxFaults = 1
  Track = {"operatorDown", "torn", "landed"}
INVARIANTS TypeOK RoundPastFloor StaysOnBest OneInterruption
PROPERTIES StopStands
