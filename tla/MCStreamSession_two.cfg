SPECIFICATION Spec
CONSTANTS
  s1 = s1
  s2 = s2
  video = video
  audio = audio
  None = None
  Sessions <- TwoSessions
  Workers <- VideoOnly
  UIntRange = 8
  HttpOps <- AllOps
  AppMayExit = TRUE
  MayShutDown = TRUE
SYMMETRY Symmetric
CONSTRAINT OneAtATime
INVARIANTS ControlSeesLiveSessions ContextServesItsSessions
PROPERTY StopIsNotOverwritten
CHECK_DEADLOCK FALSE
