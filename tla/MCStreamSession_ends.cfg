SPECIFICATION FairSpec
CONSTANTS
  s1 = s1
  s2 = s2
  video = video
  audio = audio
  None = None
  Sessions <- OneSession
  Workers <- Both
  UIntRange = 8
  HttpOps <- NoOps
  AppMayExit = FALSE
  MayShutDown = FALSE
INVARIANT WorkersSeeTheirSession
PROPERTY JoinsReturn
CHECK_DEADLOCK FALSE
