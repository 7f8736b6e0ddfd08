SPECIFICATION FairSpec
CONSTANTS
  s1 = s1
  s2 = s2
  video = video
  audio = audio
  None = None
  Sessions <- OneSession
  Workers <- VideoOnly
  UIntRange = 8
  HttpOps <- NoOps
  AppMayExit = TRUE
  MayShutDown = FALSE
PROPERTY StoppedSessionsEnd
CHECK_DEADLOCK FALSE
