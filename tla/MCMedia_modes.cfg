SPECIFICATION MediaSpec
CHECK_DEADLOCK FALSE
CONSTANTS
  s1 = s1
  s2 = s2
  e1 = e1
  e2 = e2
  None = None
  Thread = Thread
  Sessions = {s1, s2}
  MaxDisplays = 3
  encoders <- MCEncoders
  Cards <- MCCards
  Configs <- MCConfigs
  Settings <- MCSettings
  Clients <- MCClients
  Decimals <- MCDecimals
  Displays <- MCDisplays
  Outputs <- MCOutputs
  MaxShortcut = 3
  Parts = {"probe"}
  MaxScale = 3
  Timeout = 2
  Reporting = FALSE
  MaxQueue = 3
  MaxBlocks = 2
  MaxLate = 2
  DpbSize = 3
  UIntRange = 16
  MaxFrames = 7
  MaxReinits = 1
PROPERTY AnnouncedIsEncodable
