SPECIFICATION HostingSpec
CHECK_DEADLOCK FALSE
CONSTANTS
  c1 = c1
  c2 = c2
  Clients = {c1, c2}
  None = None
  User = User
  Fields = {"bitrate", "latency"}
  Reloaded = {"latency"}
  Profile <- MCProfile
  Outcomes = {"configured", "disabled", "failed"}
  OnDisconnect = FALSE
  MaxRequests = 1
  MaxEdits = 0
  MaxTries = 1
  MaxRestarts = 0
  Parts = {"settings"}
  Backends = {"labwc", "krfb", "gamescope", "other"}
  Desktops = {"kwin", "niri", "gamescope", "none"}
  MaxNames = 2
  MaxLaunches = 2
  MaxSessions = 2
  Urls = 1
  Replies = {"ok", "refused", "error", "silent"}
  MaxFailures = 2
  MaxPorts = 2
  Lifetime = 2
  Kinds = {"good", "static", "locked", "broken"}
  MaxTroubles = 3
  Absent = "absent"
  NotSaving = "nothing"
  InRange = {"v1", "v2"}
  OutOfRange = {"bad"}
  Default = "default"
  MaxSaves = 2
INVARIANT ProfileStaysApplied
