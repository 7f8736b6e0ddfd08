SPECIFICATION AccessSpec
CONSTANTS
  d1 = d1
  d2 = d2
  i1 = i1
  i2 = i2
  Devices <- TwoDevices
  Ids <- TwoIds
  None = None
  MaxQueued = 1
  MaxAttempts = 2
  MaxUuids = 2
  Parts = {"pairing", "web", "text", "pointers", "touchpads", "games",
           "capture", "cast", "rtsp"}
  Addresses = {home}
  Account = Account
  Tokens = {bot}
  Admins = {}
  Torn = Torn
  LOGIN_FAIL_LIMIT = 2
  LOGIN_FAIL_WINDOW = 1
  CSRF_TOKEN_LIFETIME = 1
  MaxTime = 2
  MaxPasswords = 2
  MaxClients = 1
  MaxCsrf = 1
  MaxCrashes = 1
  MaxPieces = 6
  Pointers = {p1, p2, p3}
  Pen = Pen
  TouchSlots = 2
  MaxFailures = 1
  Gamepads = {c1, c2}
  PadSlots = {1, 2}
  Targets = {t1, t2, t3}
  Fingers = {f1, f2}
  Motor = {0, 1}
  MaxArrivals = 2
  MaxTasks = 2
  Backends = {"vram", "ram", "wgc"}
  Images = {img1, img2}
  Encoders = {enc}
  MaxFrames = 2
  MaxTextures = 3
  Buffers = {b1, b2}
  MaxStreams = 2
  MaxDraws = 2
  MaxChanges = 1
  BufSize = 9
  Needle = 2
  Overhead = 3
  MaxHeader = 6
  MaxPayload = 7
SYMMETRY Symmetric
INVARIANT PairedByItsPin
INVARIANT ClientListIsKept
INVARIANT HostStateSurvives
INVARIANT GuessesAreBounded
INVARIANT SavedConfigReadsBack
INVARIANT WindowsInputFollows
INVARIANT CapturedIsShown
INVARIANT CastIsFollowed
INVARIANT RequestsAreWhole
CHECK_DEADLOCK FALSE
