SPECIFICATION ServicesSpec
CHECK_DEADLOCK FALSE
CONSTANTS
  Parts = {"update"}
  game = game
  launcher = launcher
  desktop = desktop
  control = control
  https = https
  web = web
  NoApp = NoApp
  Apps <- ThreeApps
  Prep <- PrepOf
  Desktop <- DesktopOnly
  WaitAll <- Games
  AutoDetach <- Launchers
  Override <- Games
  Headless = TRUE
  Threads <- AllThreads
  Calls <- NormalCalls
  None = None
  Launches = {l1, l2, l3}
  blocksize = 3
  Sizes <- FrameSizes
  Percentages = {1, 20, 255}
  Minimums = {0, 2, 40}
  MaxFrames = 14
  MaxSamples = 2
  MaxPackets = 2
  SeqModulus = 8
  Sessions = {s1, s2}
  DisplayDevice = DisplayDevice
  Real = {hdmi, speakers}
  Virtual = {v2, v6}
  ConfigSinks = {None, hdmi}
  MaxRetries = 1
  MaxPlugs = 1
  Values = {"absent", "off", "on"}
  Ours = "on"
  NoValue = "none"
  MaxCrashes = 1
  MaxPicks = 2
  MaxStreams = 2
  Workers = {w1, w2}
  Web = Web
  MaxStarts = 2
  MaxApplies = 2
PROPERTY UpdateTakesEffect
