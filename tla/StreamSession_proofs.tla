----------------------- MODULE StreamSession_proofs -----------------------
(***************************************************************************)
(* Proofs about StreamSession: IInv is inductive, hence types are kept,    *)
(* the control thread sees only live sessions, and no stop is lost. The    *)
(* lemmas follow the groups of actions of Next; in each, one step per      *)
(* action shows TypeOK' and Links'. Facts about Boolean values are steps   *)
(* of their own, for Zenon.                                                *)
(***************************************************************************)
EXTENDS StreamSession, TLAPS

USE SessionsAssumption, RangeAssumption, OptionsAssumption
USE DEF Goto, At, Threads, Servers, ThreadStates, Modes, WorkerStates,
        ControlStates, sessionVars, clearVars, controlVars, contextVars,
        hostVars, Holding, Joining, Joined, Starting, NotPushed, Looping,
        Unseen

(* What Destroy changes keeps its type.                                    *)
DestroyedTypes ==
  /\ alive \subseteq Sessions /\ refs \subseteq alive
  /\ state \in [Sessions -> {"STOPPED", "RUNNING", "STOPPING"}]
  /\ worker \in [Sessions -> [Workers -> WorkerStates]]
  /\ deadline \in [Sessions -> {"epoch", "armed", "expired"}]
  /\ peer \in [Sessions -> {"none", "up", "gone"}]
  /\ shutdown \in [Sessions -> BOOLEAN]
  /\ controlEnd \in [Sessions -> BOOLEAN]
  /\ bcast \in {"down", "up", "ending"} /\ bshutdown \in BOOLEAN
  /\ pc \in [Threads -> ThreadStates]

(* ~session_t resets the fields of a session within their types.           *)
LEMMA DestroyTypes ==
  ASSUME TypeOK, NEW t \in Threads, NEW s \in Sessions,
         NEW next \in ThreadStates, Destroy(t, s, next)
  PROVE  DestroyedTypes'
<1>1. worker' \in [Sessions -> [Workers -> WorkerStates]]
  BY DEF Destroy, TypeOK
<1>2. bshutdown' \in BOOLEAN
  BY Zenon DEF Destroy, TypeOK
<1>3. /\ shutdown' \in [Sessions -> BOOLEAN]
      /\ controlEnd' \in [Sessions -> BOOLEAN]
  BY Zenon DEF Destroy, TypeOK
<1>4. pc' \in [Threads -> ThreadStates] /\ bcast' \in {"down", "up", "ending"}
  BY DEF Destroy, TypeOK
<1>5. alive' \subseteq Sessions /\ refs' \subseteq alive'
  BY DEF Destroy, TypeOK
<1>6. state' \in [Sessions -> {"STOPPED", "RUNNING", "STOPPING"}]
  BY DEF Destroy, TypeOK
<1>7. deadline' \in [Sessions -> {"epoch", "armed", "expired"}]
  BY DEF Destroy, TypeOK
<1>8. peer' \in [Sessions -> {"none", "up", "gone"}]
  BY DEF Destroy, TypeOK
<1> QED BY <1>1, <1>2, <1>3, <1>4, <1>5, <1>6, <1>7, <1>8 DEF DestroyedTypes

(* cmd_announce and session::start on the RTSP thread keep IInv.           *)
(* PushSession adds a session nobody has released; ReleaseAnnounce         *)
(* destroys only one the control thread will not see.                      *)
LEMMA StartSessionPreserves ==
  ASSUME IInv, StartSession PROVE IInv'
<1> USE DEF IInv, TypeOK, Links, LockHeld, TodoInSlots, JoinedHasSlot,
            JoinedReleased, StartingAlive, StartingFresh, StartingStopped,
            ErasedUnseen, DeadFresh, ContextEnds, ListsLive
<1>1. CASE RefBroadcast
  <2>1. TypeOK' BY <1>1 DEF RefBroadcast
  <2>2. Links' BY <1>1 DEF RefBroadcast
  <2> QED BY <2>1, <2>2
<1>2. CASE RefBroadcastFails
  <2>1. TypeOK' BY <1>2 DEF RefBroadcastFails
  <2>2. Links' BY <1>2 DEF RefBroadcastFails
  <2> QED BY <2>1, <2>2
<1>3. CASE PushSession
  <2>1. TypeOK' BY <1>3 DEF PushSession, SessionsLocked
  <2>2. Links' BY <1>3 DEF PushSession, SessionsLocked
  <2> QED BY <2>1, <2>2
<1>4. CASE SpawnWorkers
  <2>1. TypeOK' BY <1>4 DEF SpawnWorkers
  <2>2. Links' BY <1>4 DEF SpawnWorkers
  <2> QED BY <2>1, <2>2
<1>5. CASE SetRunning
  <2>1. TypeOK' BY <1>5 DEF SetRunning
  <2>2. Links' BY <1>5 DEF SetRunning
  <2> QED BY <2>1, <2>2
<1>6. CASE CountSession
  <2>1. TypeOK' BY <1>6 DEF CountSession
  <2>2. Links' BY <1>6 DEF CountSession
  <2> QED BY <2>1, <2>2
<1>7. CASE WillStart
  <2>1. TypeOK' BY <1>7 DEF WillStart
  <2>2. Links' BY <1>7 DEF WillStart
  <2> QED BY <2>1, <2>2
<1>8. CASE RemoveSlot
  <2>1. TypeOK' BY <1>8 DEF RemoveSlot
  <2>2. Links' BY <1>8 DEF RemoveSlot
  <2> QED BY <2>1, <2>2
<1>9. CASE ReleaseAnnounce
  <2>1. CASE starting \in slots
    BY <1>9, <2>1 DEF ReleaseAnnounce
  <2>2. CASE starting \notin slots
    <3>1. Destroy("rtsp", starting, "idle") /\ starting \in Sessions
      BY <1>9, <2>2 DEF ReleaseAnnounce
    <3>2. TypeOK'
      <4>1. TypeOK /\ "rtsp" \in Threads /\ "idle" \in ThreadStates OBVIOUS
      <4>2. DestroyedTypes' BY <3>1, <4>1, DestroyTypes, Zenon
      <4>3. slots' \subseteq alive'
        BY <1>9, <2>2, <3>1 DEF ReleaseAnnounce, Destroy
      <4> QED BY <1>9, <2>2, <4>2, <4>3 DEF ReleaseAnnounce, DestroyedTypes
    <3>3. Links'
      BY <1>9, <2>2, <3>1 DEF ReleaseAnnounce, Destroy
    <3> QED BY <3>2, <3>3
  <2> QED BY <2>1, <2>2
<1> QED BY <1>1, <1>2, <1>3, <1>4, <1>5, <1>6, <1>7, <1>8, <1>9 DEF StartSession

(* rtsp_server_t::clear and session::join on any thread keep IInv.         *)
(* EraseSlot destroys a session whose controlEnd has been raised.          *)
LEMMA ClearPreserves ==
  ASSUME IInv, NEW t \in Threads, Clear(t) PROVE IInv'
<1> USE DEF IInv, TypeOK, Links, LockHeld, TodoInSlots, JoinedHasSlot,
            JoinedReleased, StartingAlive, StartingFresh, StartingStopped,
            ErasedUnseen, DeadFresh, ContextEnds, ListsLive
<1>1. CASE ClearDone(t)
  <2>1. TypeOK' BY <1>1 DEF ClearDone, AfterClear
  <2>2. Links' BY <1>1 DEF ClearDone, AfterClear
  <2> QED BY <2>1, <2>2
<1>2. ASSUME NEW s \in Sessions, Visit(t, s) PROVE IInv'
  <2>0. todo' \in [Threads -> SUBSET Sessions]
    BY <1>2 DEF Visit
  <2>1. TypeOK'
    <3>1. CASE Everything(t) \/ state[s] = "STOPPING"
      <4>1. /\ Stop(s) /\ cur' = [cur EXCEPT ![t] = s]
            /\ pc' = [pc EXCEPT ![t] = "join"]
        BY <1>2, <3>1 DEF Visit
      <4>2. shutdown' \in [Sessions -> BOOLEAN]
        BY <4>1, Zenon DEF Stop
      <4>3. state' \in [Sessions -> {"STOPPED", "RUNNING", "STOPPING"}]
        BY <4>1 DEF Stop
      <4> QED BY <1>2, <2>0, <4>1, <4>2, <4>3 DEF Visit
    <3>2. CASE ~(Everything(t) \/ state[s] = "STOPPING")
      BY <1>2, <2>0, <3>2 DEF Visit
    <3> QED BY <3>1, <3>2
  <2>2. Links' BY <1>2 DEF Visit, Stop
  <2> QED BY <2>1, <2>2
<1>3. CASE Join(t)
  <2>1. TypeOK' BY <1>3 DEF Join
  <2>2. Links' BY <1>3 DEF Join
  <2> QED BY <2>1, <2>2
<1>4. CASE JoinThrows(t)
  <2>1. TypeOK' BY <1>4 DEF JoinThrows
  <2>2. Links' BY <1>4 DEF JoinThrows
  <2> QED BY <2>1, <2>2
<1>5. CASE UncountSession(t)
  <2>1. TypeOK' BY <1>5 DEF UncountSession
  <2>2. Links' BY <1>5 DEF UncountSession
  <2> QED BY <2>1, <2>2
<1>6. CASE WillStop(t)
  <2>0. platform' \in BOOLEAN BY <1>6, Zenon DEF WillStop
  <2>1. TypeOK' BY <1>6, <2>0 DEF WillStop
  <2>2. Links' BY <1>6 DEF WillStop
  <2> QED BY <2>1, <2>2
<1>7. CASE EraseSlot(t)
  <2>1. CASE cur[t] = starting
    <3>1. TypeOK' BY <1>7, <2>1 DEF EraseSlot
    <3>2. Links' BY <1>7, <2>1 DEF EraseSlot
    <3> QED BY <3>1, <3>2
  <2>2. CASE cur[t] # starting
    <3>1. Destroy(t, cur[t], "visit") /\ cur[t] \in slots /\ slotsLock = t
      BY <1>7, <2>2 DEF EraseSlot
    <3>2. TypeOK'
      <4>1. TypeOK /\ cur[t] \in Sessions /\ "visit" \in ThreadStates BY <3>1
      <4>2. DestroyedTypes' BY <3>1, <4>1, DestroyTypes, Zenon
      <4>3. slots' \subseteq alive' BY <1>7, <2>2, <3>1 DEF EraseSlot, Destroy
      <4> QED BY <1>7, <2>2, <4>2, <4>3 DEF EraseSlot, DestroyedTypes
    <3>3. Links'
      <4>1. LockHeld' /\ TodoInSlots' /\ JoinedHasSlot' /\ JoinedReleased'
        BY <1>7, <2>2, <3>1 DEF EraseSlot, Destroy
      <4>2. /\ StartingAlive' /\ StartingFresh'
            /\ StartingStopped' /\ ErasedUnseen'
        BY <1>7, <2>2, <3>1 DEF EraseSlot, Destroy
      <4>3. DeadFresh' /\ ContextEnds' /\ ListsLive'
        BY <1>7, <2>2, <3>1 DEF EraseSlot, Destroy
      <4> QED BY <4>1, <4>2, <4>3
    <3> QED BY <3>2, <3>3
  <2> QED BY <2>1, <2>2
<1>8. CASE EndBroadcast(t)
  <2>1. TypeOK' BY <1>8, ZenonT(60) DEF EndBroadcast
  <2>2. Links' BY <1>8 DEF EndBroadcast
  <2> QED BY <2>1, <2>2
<1> QED BY <1>1, <1>2, <1>3, <1>4, <1>5, <1>6, <1>7, <1>8 DEF Clear

(* Requests to either server keep IInv.                                    *)
LEMMA HttpStepPreserves ==
  ASSUME IInv, HttpStep PROVE IInv'
<1> USE DEF IInv, TypeOK, Links, LockHeld, TodoInSlots, JoinedHasSlot,
            JoinedReleased, StartingAlive, StartingFresh, StartingStopped,
            ErasedUnseen, DeadFresh, ContextEnds, ListsLive
<1>1. ASSUME NEW t \in Servers, NEW op \in {"launch", "resume"} \cup HttpOps,
             HttpRequest(t, op)
      PROVE  IInv'
  <2>1. TypeOK' BY <1>1 DEF HttpRequest, BeginClear
  <2>2. Links' BY <1>1 DEF HttpRequest, BeginClear
  <2> QED BY <2>1, <2>2
<1>2. ASSUME NEW ok \in BOOLEAN, HttpRaise(ok) PROVE IInv'
  <2>1. TypeOK' BY <1>2 DEF HttpRaise, EndRequest
  <2>2. Links' BY <1>2 DEF HttpRaise, EndRequest
  <2> QED BY <2>1, <2>2
<1>3. ASSUME NEW t \in Servers, HttpRecount(t) PROVE IInv'
  <2>1. TypeOK' BY <1>3 DEF HttpRecount, BeginClear
  <2>2. Links' BY <1>3 DEF HttpRecount, BeginClear
  <2> QED BY <2>1, <2>2
<1>4. ASSUME NEW t \in Servers, HttpTerminateApp(t) PROVE IInv'
  <2>1. TypeOK' BY <1>4 DEF HttpTerminateApp, EndRequest
  <2>2. Links' BY <1>4 DEF HttpTerminateApp, EndRequest
  <2> QED BY <2>1, <2>2
<1> QED BY <1>1, <1>2, <1>3, <1>4 DEF HttpStep

(* The control thread keeps IInv: it raises controlEnd of a session in the *)
(* same step that takes it off the list it looks at.                       *)
LEMMA ControlLoopPreserves ==
  ASSUME IInv, ControlLoop PROVE IInv'
<1> USE DEF IInv, TypeOK, Links, LockHeld, TodoInSlots, JoinedHasSlot,
            JoinedReleased, StartingAlive, StartingFresh, StartingStopped,
            ErasedUnseen, DeadFresh, ContextEnds, ListsLive
<1>1. CASE ControlTop
  <2>1. TypeOK' BY <1>1 DEF ControlTop
  <2>2. Links' BY <1>1 DEF ControlTop
  <2> QED BY <2>1, <2>2
<1>2. CASE ControlStop
  <2>0. /\ shutdown' \in [Sessions -> BOOLEAN]
        /\ controlEnd' \in [Sessions -> BOOLEAN]
        /\ awaiting' \in BOOLEAN
    BY <1>2, ZenonT(60) DEF ControlStop, Stop, Reap
  <2>1. TypeOK'
    <3>1. CASE state'[ccur] = "STOPPING"
      BY <1>2, <2>0, <3>1 DEF ControlStop, Stop, Reap
    <3>2. CASE state'[ccur] # "STOPPING"
      BY <1>2, <2>0, <3>2 DEF ControlStop, Stop, Reap
    <3> QED BY <3>1, <3>2
  <2>2. Links'
    <3>1. CASE state'[ccur] = "STOPPING"
      <4>0. ccur \in ctl /\ ccur \in Sessions /\ ccur \in alive
        BY <1>2 DEF ControlStop
      <4>1. LockHeld' /\ TodoInSlots' /\ JoinedHasSlot'
        BY <1>2, <3>1, <4>0 DEF ControlStop, Stop, Reap
      <4>5. JoinedReleased'
        BY <1>2, <3>1, <4>0, SMTT(30) DEF ControlStop, Stop, Reap
      <4>2. StartingAlive' /\ StartingStopped' /\ ErasedUnseen'
        BY <1>2, <3>1, <4>0 DEF ControlStop, Stop, Reap
      <4>4. StartingFresh'
        BY <1>2, <3>1, <4>0 DEF ControlStop, Stop, Reap
      <4>3. DeadFresh' /\ ContextEnds' /\ ListsLive'
        BY <1>2, <3>1, <4>0 DEF ControlStop, Stop, Reap
      <4> QED BY <4>1, <4>2, <4>3, <4>4, <4>5
    <3>2. CASE state'[ccur] # "STOPPING"
      BY <1>2, <3>2 DEF ControlStop, Stop, Reap
    <3> QED BY <3>1, <3>2
  <2> QED BY <2>1, <2>2
<1>3. CASE ControlScanned
  <2>1. TypeOK' BY <1>3, ZenonT(60) DEF ControlScanned
  <2>2. Links' BY <1>3 DEF ControlScanned
  <2> QED BY <2>1, <2>2
<1>4. CASE ControlLeave
  <2>1. TypeOK' BY <1>4 DEF ControlLeave
  <2>2. Links' BY <1>4 DEF ControlLeave
  <2> QED BY <2>1, <2>2
<1>5. CASE ControlEnds
  <2>1. TypeOK' BY <1>5 DEF ControlEnds
  <2>2. Links' BY <1>5 DEF ControlEnds
  <2> QED BY <2>1, <2>2
<1>6. ASSUME NEW s \in Sessions, ControlVisit(s) PROVE IInv'
  <2>0. controlEnd' \in [Sessions -> BOOLEAN] /\ awaiting' \in BOOLEAN
    BY <1>6, ZenonT(60) DEF ControlVisit, Reap
  <2>1. TypeOK'
    <3>1. CASE state[s] = "STOPPING"
      BY <1>6, <2>0, <3>1 DEF ControlVisit, Reap
    <3>2. CASE state[s] # "STOPPING"
      BY <1>6, <2>0, <3>2 DEF ControlVisit, Reap
    <3> QED BY <3>1, <3>2
  <2>2. Links'
    <3>1. CASE state[s] = "STOPPING"
      <4>1. LockHeld' /\ TodoInSlots' /\ JoinedHasSlot' /\ JoinedReleased'
        BY <1>6, <3>1 DEF ControlVisit, Reap
      <4>2. /\ StartingAlive' /\ StartingFresh'
            /\ StartingStopped' /\ ErasedUnseen'
        BY <1>6, <3>1 DEF ControlVisit, Reap
      <4>3. DeadFresh' /\ ContextEnds' /\ ListsLive'
        BY <1>6, <3>1 DEF ControlVisit, Reap
      <4> QED BY <4>1, <4>2, <4>3
    <3>2. CASE state[s] # "STOPPING"
      BY <1>6, <3>2 DEF ControlVisit, Reap
    <3> QED BY <3>1, <3>2
  <2> QED BY <2>1, <2>2
<1>7. ASSUME NEW s \in Sessions, ControlTimeout(s) PROVE IInv'
  <2>1. TypeOK' BY <1>7 DEF ControlTimeout
  <2>2. Links' BY <1>7 DEF ControlTimeout
  <2> QED BY <2>1, <2>2
<1>8. ASSUME NEW s \in Sessions, ControlTerminate(s) PROVE IInv'
  <2>1. TypeOK' BY <1>8 DEF ControlTerminate
  <2>2. Links' BY <1>8 DEF ControlTerminate
  <2> QED BY <2>1, <2>2
<1> QED BY <1>1, <1>2, <1>3, <1>4, <1>5, <1>6, <1>7, <1>8 DEF ControlLoop

(* Clients, clocks, the app and the shutdown of the host keep IInv.        *)
LEMMA EnvironmentPreserves ==
  ASSUME IInv, Environment PROVE IInv'
<1> USE DEF IInv, TypeOK, Links, LockHeld, TodoInSlots, JoinedHasSlot,
            JoinedReleased, StartingAlive, StartingFresh, StartingStopped,
            ErasedUnseen, DeadFresh, ContextEnds, ListsLive
<1>1. CASE InvitationLapses
  <2>0. invited' \in BOOLEAN BY <1>1, Zenon DEF InvitationLapses
  <2>1. TypeOK' BY <1>1, <2>0 DEF InvitationLapses
  <2>2. Links' BY <1>1 DEF InvitationLapses
  <2> QED BY <2>1, <2>2
<1>2. CASE AppExits
  <2>0. app' \in BOOLEAN BY <1>2, Zenon DEF AppExits
  <2>1. TypeOK' BY <1>2, <2>0 DEF AppExits
  <2>2. Links' BY <1>2 DEF AppExits
  <2> QED BY <2>1, <2>2
<1>3. CASE ShutDown
  <2>1. TypeOK' BY <1>3 DEF ShutDown
  <2>2. Links' BY <1>3 DEF ShutDown
  <2> QED BY <2>1, <2>2
<1>4. ASSUME NEW s \in Sessions, TimeoutExpires(s) PROVE IInv'
  <2>1. TypeOK' BY <1>4 DEF TimeoutExpires
  <2>2. Links' BY <1>4 DEF TimeoutExpires
  <2> QED BY <2>1, <2>2
<1>5. ASSUME NEW s \in Sessions, ControlConnect(s) PROVE IInv'
  <2>1. TypeOK' BY <1>5 DEF ControlConnect
  <2>2. Links' BY <1>5 DEF ControlConnect
  <2> QED BY <2>1, <2>2
<1>6. ASSUME NEW s \in Sessions, ControlDisconnect(s) PROVE IInv'
  <2>1. TypeOK' BY <1>6 DEF ControlDisconnect, Stop
  <2>2. Links' BY <1>6 DEF ControlDisconnect, Stop
  <2> QED BY <2>1, <2>2
<1>7. ASSUME NEW s \in Sessions, NEW valid \in BOOLEAN,
             ControlReceive(s, valid)
      PROVE  IInv'
  <2>0. shutdown' \in [Sessions -> BOOLEAN]
    BY <1>7, ZenonT(60) DEF ControlReceive, Stop
  <2>1. TypeOK'
    <3>1. CASE valid BY <1>7, <2>0, <3>1 DEF ControlReceive
    <3>2. CASE ~valid BY <1>7, <2>0, <3>2 DEF ControlReceive, Stop
    <3> QED BY <3>1, <3>2
  <2>2. Links' BY <1>7 DEF ControlReceive, Stop
  <2> QED BY <2>1, <2>2
<1> QED BY <1>1, <1>2, <1>3, <1>4, <1>5, <1>6, <1>7 DEF Environment, ClientEvent

(* The rest of Next: the steps outside the five groups above.             *)
Others ==
  \/ \E s \in Sessions : Announce(s)
  \/ RtspTick \/ RtspClear
  \/ \E t \in Threads : FinalClear(t)
  \/ \E s \in Sessions, w \in Workers : RunWorker(s, w)

(* The remaining steps keep IInv.                                          *)
LEMMA OthersPreserve ==
  ASSUME IInv, Others PROVE IInv'
<1> USE DEF IInv, TypeOK, Links, LockHeld, TodoInSlots, JoinedHasSlot,
            JoinedReleased, StartingAlive, StartingFresh, StartingStopped,
            ErasedUnseen, DeadFresh, ContextEnds, ListsLive
<1>1. ASSUME NEW s \in Sessions, Announce(s) PROVE IInv'
  <2>1. TypeOK' BY <1>1 DEF Announce
  <2>2. Links' BY <1>1 DEF Announce
  <2> QED BY <2>1, <2>2
<1>2. CASE RtspTick
  <2>1. TypeOK' BY <1>2 DEF RtspTick
  <2>2. Links' BY <1>2 DEF RtspTick
  <2> QED BY <2>1, <2>2
<1>3. CASE RtspClear
  <2>1. TypeOK' BY <1>3 DEF RtspClear, BeginClear
  <2>2. Links' BY <1>3 DEF RtspClear, BeginClear
  <2> QED BY <2>1, <2>2
<1>4. ASSUME NEW t \in Threads, FinalClear(t) PROVE IInv'
  <2>1. TypeOK' BY <1>4 DEF FinalClear, BeginClear
  <2>2. Links' BY <1>4 DEF FinalClear, BeginClear
  <2> QED BY <2>1, <2>2
<1>5. ASSUME NEW s \in Sessions, NEW w \in Workers, PingArrives(s, w)
      PROVE  IInv'
  <2>1. TypeOK' BY <1>5 DEF PingArrives, StepWorker
  <2>2. Links' BY <1>5 DEF PingArrives, StepWorker
  <2> QED BY <2>1, <2>2
<1>6. ASSUME NEW s \in Sessions, NEW w \in Workers, PingTimesOut(s, w)
      PROVE  IInv'
  <2>1. TypeOK' BY <1>6 DEF PingTimesOut, StepWorker
  <2>2. Links' BY <1>6 DEF PingTimesOut, StepWorker
  <2> QED BY <2>1, <2>2
<1>7. ASSUME NEW s \in Sessions, NEW w \in Workers, CaptureEnds(s, w)
      PROVE  IInv'
  <2>1. TypeOK' BY <1>7 DEF CaptureEnds, StepWorker
  <2>2. Links' BY <1>7 DEF CaptureEnds, StepWorker
  <2> QED BY <2>1, <2>2
<1>8. ASSUME NEW s \in Sessions, NEW w \in Workers, WorkerExits(s, w)
      PROVE  IInv'
  <2>1. TypeOK' BY <1>8 DEF WorkerExits, Stop, StepWorker
  <2>2. Links' BY <1>8 DEF WorkerExits, Stop, StepWorker
  <2> QED BY <2>1, <2>2
<1> QED BY <1>1, <1>2, <1>3, <1>4, <1>5, <1>6, <1>7, <1>8 DEF Others, RunWorker

(* IInv holds before the first session.                                    *)
LEMMA InitIInv == Init => IInv
<1> SUFFICES ASSUME Init PROVE IInv OBVIOUS
<1>0. /\ invited \in BOOLEAN /\ bshutdown \in BOOLEAN /\ awaiting \in BOOLEAN
      /\ platform \in BOOLEAN /\ app \in BOOLEAN /\ hostDown \in BOOLEAN
      /\ shutdown \in [Sessions -> BOOLEAN] /\ controlEnd \in [Sessions -> BOOLEAN]
  BY Zenon DEF Init
<1>1. TypeOK BY <1>0 DEF Init, TypeOK
<1>2. Links
  BY DEF Init, Links, LockHeld, TodoInSlots, JoinedHasSlot, JoinedReleased,
         StartingAlive, StartingFresh, StartingStopped, ErasedUnseen,
         DeadFresh, ContextEnds, ListsLive
<1> QED BY <1>1, <1>2 DEF IInv

(* IInv depends on nothing but the variables.                              *)
LEMMA StutterIInv == IInv /\ UNCHANGED vars => IInv'
BY DEF vars, IInv, TypeOK, Links, LockHeld, TodoInSlots, JoinedHasSlot, JoinedReleased,
          StartingAlive, StartingFresh, StartingStopped, ErasedUnseen, DeadFresh,
          ContextEnds, ListsLive

(* Every step keeps IInv.                                                  *)
LEMMA NextIInv == IInv /\ [Next]_vars => IInv'
<1> SUFFICES ASSUME IInv, [Next]_vars PROVE IInv' OBVIOUS
<1>1. CASE StartSession BY <1>1, StartSessionPreserves
<1>2. CASE \E t \in Threads : Clear(t) BY <1>2, ClearPreserves
<1>3. CASE HttpStep BY <1>3, HttpStepPreserves
<1>4. CASE ControlLoop BY <1>4, ControlLoopPreserves
<1>5. CASE Environment BY <1>5, EnvironmentPreserves
<1>6. CASE Others BY <1>6, OthersPreserve
<1>7. CASE UNCHANGED vars BY <1>7, StutterIInv
<1> QED BY <1>1, <1>2, <1>3, <1>4, <1>5, <1>6, <1>7, Zenon
        DEF Next, Others, RunWorker

(* IInv holds in every reachable state, for any number of sessions and     *)
(* workers: the argument that ControlSeesLiveSessions rests on.            *)
THEOREM Invariant == Spec => []IInv
<1>1. Init => IInv BY InitIInv
<1>2. IInv /\ [Next]_vars => IInv' BY NextIInv
<1> QED BY <1>1, <1>2, PTL DEF Spec

(* Type correctness.                                                       *)
THEOREM TypeCorrect == Spec => []TypeOK
<1>1. IInv => TypeOK BY DEF IInv
<1> QED BY <1>1, Invariant, PTL

(* controlBroadcastThread never uses a pointer to a destroyed session: the *)
(* order of session::join, the erasing of the slot and ~session_t is safe. *)
THEOREM ControlSafe == Spec => []ControlSeesLiveSessions
<1>1. IInv => ControlSeesLiveSessions
  BY DEF IInv, TypeOK, Links, ListsLive, ControlSeesLiveSessions
<1> QED BY <1>1, Invariant, PTL

(* No stop is lost: session::start stores RUNNING before any stop can have *)
(* taken effect, and nothing else takes a session out of STOPPING.         *)
THEOREM StopKept == Spec => StopIsNotOverwritten
<1> DEFINE Kept == \A s \in alive : state[s] = "STOPPING" /\ s \in alive' =>
                     state'[s] = "STOPPING"
<1>1. ASSUME IInv, [Next]_vars PROVE Kept
  <2> USE <1>1 DEF IInv, TypeOK
  <2>0. CASE UNCHANGED state BY <2>0
  <2>1. CASE StartSession
    <3>1. CASE SetRunning
      BY <3>1 DEF SetRunning, Links, StartingStopped, StartingAlive
    <3>2. CASE ReleaseAnnounce
      BY <3>2 DEF ReleaseAnnounce, Destroy
    <3>3. CASE UNCHANGED state BY <3>3
    <3> QED
      BY <2>1, <3>1, <3>2, <3>3
         DEF StartSession, RefBroadcast, RefBroadcastFails, PushSession,
             SpawnWorkers, CountSession, WillStart, RemoveSlot
  <2>2. ASSUME NEW t \in Threads, Clear(t) PROVE Kept
    <3>1. ASSUME NEW s \in Sessions, Visit(t, s) PROVE Kept
      BY <3>1 DEF Visit, Stop
    <3>2. CASE EraseSlot(t)
      BY <3>2 DEF EraseSlot, Destroy
    <3>3. CASE UNCHANGED state BY <3>3
    <3> QED
      BY <2>2, <3>1, <3>2, <3>3
         DEF Clear, ClearDone, Join, JoinThrows, UncountSession, WillStop,
             EndBroadcast
  <2>3. CASE ControlLoop
    <3>1. CASE ControlStop BY <3>1 DEF ControlStop, Stop, Links, ListsLive
    <3>2. CASE UNCHANGED state BY <3>2
    <3> QED
      BY <2>3, <3>1, <3>2
         DEF ControlLoop, ControlTop, ControlScanned, ControlLeave, ControlEnds,
             ControlVisit, ControlTimeout, ControlTerminate
  <2>4. CASE Environment
    BY <2>4 DEF Environment, InvitationLapses, AppExits, ShutDown,
                TimeoutExpires, ClientEvent, ControlConnect, ControlReceive,
                ControlDisconnect, Stop
  <2>5. CASE Others
    <3>1. ASSUME NEW s \in Sessions, NEW w \in Workers, WorkerExits(s, w)
          PROVE Kept
      BY <3>1 DEF WorkerExits, Stop
    <3>2. CASE UNCHANGED state BY <3>2
    <3> QED
      BY <2>5, <3>1, <3>2
         DEF Others, Announce, RtspTick, RtspClear, FinalClear, BeginClear,
             RunWorker, PingArrives, PingTimesOut, CaptureEnds
  <2>6. CASE HttpStep
    BY <2>6, <2>0 DEF HttpStep, HttpRequest, HttpRaise, HttpRecount,
                      HttpTerminateApp, BeginClear
  <2>7. CASE UNCHANGED vars BY <2>0, <2>7 DEF vars
  <2> QED
    BY <2>1, <2>2, <2>3, <2>4, <2>5, <2>6, <2>7, Zenon
       DEF Next, Others, RunWorker
<1> QED BY <1>1, Invariant, PTL DEF Spec, StopIsNotOverwritten

-----------------------------------------------------------------------------
(* What leaves the context alone.                                          *)
ContextKept ==
  /\ UNCHANGED contextVars
  /\ \A t \in Threads : pc'[t] = "drain" => pc[t] = "drain"

(* A step takes the context up, drops a reference, has taken the context   *)
(* down, or leaves it alone.                                               *)
LEMMA ContextSteps ==
  ASSUME IInv, [Next]_vars
  PROVE  \/ RefBroadcast
         \/ ReleaseAnnounce /\ starting \notin slots
         \/ \E t \in Threads :
              \/ EraseSlot(t) /\ cur[t] # starting
              \/ EndBroadcast(t)
         \/ ContextKept
<1> USE DEF IInv, TypeOK, ContextKept
<1>1. CASE StartSession
  <2>1. CASE ReleaseAnnounce /\ starting \in slots
    BY <2>1 DEF ReleaseAnnounce
  <2> QED BY <1>1, <2>1
          DEF StartSession, RefBroadcastFails, PushSession, SpawnWorkers,
              SetRunning, CountSession, WillStart, RemoveSlot
<1>2. ASSUME NEW t \in Threads, Clear(t)
      PROVE  \/ EraseSlot(t) /\ cur[t] # starting
             \/ EndBroadcast(t)
             \/ ContextKept
  <2>1. CASE EraseSlot(t) /\ cur[t] = starting
    BY <2>1 DEF EraseSlot
  <2>2. CASE ClearDone(t)
    BY <2>2 DEF ClearDone, AfterClear
  <2>3. ASSUME NEW s \in Sessions, Visit(t, s) PROVE ContextKept
    BY <2>3 DEF Visit
  <2> QED BY <1>2, <2>1, <2>2, <2>3
          DEF Clear, Join, JoinThrows, UncountSession, WillStop
<1>3. CASE ControlLoop
  BY <1>3 DEF ControlLoop, ControlTop, ControlStop, ControlScanned,
              ControlLeave, ControlEnds, ControlVisit, ControlTimeout,
              ControlTerminate
<1>4. CASE Environment
  BY <1>4 DEF Environment, InvitationLapses, AppExits, ShutDown,
              TimeoutExpires, ClientEvent, ControlConnect, ControlReceive,
              ControlDisconnect
<1>5. CASE Others
  BY <1>5 DEF Others, Announce, RtspTick, RtspClear, FinalClear, BeginClear,
              RunWorker, PingArrives, PingTimesOut, CaptureEnds, WorkerExits,
              StepWorker
<1>6. CASE HttpStep
  BY <1>6 DEF HttpStep, HttpRequest, HttpRaise, HttpRecount,
              HttpTerminateApp, BeginClear, EndRequest
<1>7. CASE UNCHANGED vars BY <1>7 DEF vars
<1> QED BY <1>1, <1>2, <1>3, <1>4, <1>5, <1>6, <1>7, Zenon
        DEF Next, Others, RunWorker

(* The last reference ends the context; its drainer is alone.              *)
LEMMA DestroyContext ==
  ASSUME TypeOK, ContextIInv, NEW t \in Threads, NEW s \in Sessions,
         NEW next \in ThreadStates \ {"drain"}, Destroy(t, s, next)
  PROVE  ContextIInv'
<1>1. CASE refs = {s}
  BY <1>1 DEF Destroy, ContextIInv, TypeOK
<1>2. CASE refs # {s}
  BY <1>2 DEF Destroy, ContextIInv, TypeOK
<1> QED BY <1>1, <1>2

LEMMA NextContext ==
  ASSUME IInv, ContextIInv, [Next]_vars PROVE ContextIInv'
<1>0. TypeOK BY DEF IInv
<1>1. CASE RefBroadcast
  BY <1>0, <1>1 DEF RefBroadcast, ContextIInv, TypeOK
<1>2. CASE ReleaseAnnounce /\ starting \notin slots
  <2>1. Destroy("rtsp", starting, "idle") /\ starting \in Sessions
    BY <1>0, <1>2
    DEF ReleaseAnnounce, IInv, Links, StartingAlive, TypeOK
  <2> QED BY <1>0, <2>1, DestroyContext
<1>3. ASSUME NEW t \in Threads, EraseSlot(t), cur[t] # starting
      PROVE  ContextIInv'
  <2>1. Destroy(t, cur[t], "visit") /\ cur[t] \in Sessions
    BY <1>0, <1>3 DEF EraseSlot, IInv, Links, JoinedHasSlot, TypeOK
  <2> QED BY <1>0, <2>1, DestroyContext
<1>4. ASSUME NEW t \in Threads, EndBroadcast(t) PROVE ContextIInv'
  BY <1>0, <1>4 DEF EndBroadcast, ContextIInv, TypeOK
<1>5. CASE ContextKept
  BY <1>0, <1>5 DEF ContextKept, ContextIInv
<1> QED BY <1>1, <1>2, <1>3, <1>4, <1>5, ContextSteps

(* A session's reference keeps the broadcast context up and serving.       *)
THEOREM ContextServes == Spec => []ContextServesItsSessions
<1>1. Init => ContextIInv
  BY DEF Init, ContextIInv
<1>2. IInv /\ ContextIInv /\ [Next]_vars => ContextIInv'
  BY NextContext
<1>3. ContextIInv => ContextServesItsSessions
  BY DEF ContextIInv, ContextServesItsSessions
<1> QED BY <1>1, <1>2, <1>3, Invariant, PTL DEF Spec

-----------------------------------------------------------------------------
(* A session that is destroyed has no worker that runs.                    *)
LEMMA DestroyWorkers ==
  ASSUME IInv, WorkersIInv, NEW t \in Threads, NEW s \in Sessions,
         NEW next \in {"idle", "visit"}, Destroy(t, s, next),
         Unborn(s) \/ Done(s),
         \/ /\ t = "rtsp" /\ s = starting /\ s \notin slots
            /\ starting' = None /\ UNCHANGED <<cur, slots>>
         \/ /\ pc[t] \in Joined /\ s = cur[t] /\ s # starting
            /\ cur' = [cur EXCEPT ![t] = None] /\ UNCHANGED starting
            /\ slots' = slots \ {s}
  PROVE  WorkersIInv'
<1> USE DEF IInv, TypeOK, WorkersIInv
<1>1. /\ \A w \in Workers : worker'[s][w] = "none"
      /\ \A r \in Sessions \ {s} : worker'[r] = worker[r]
      /\ refs' = refs \ {s} /\ alive' = alive \ {s}
  BY DEF Destroy, Unborn, Done
<1>2. /\ \A u \in Threads \ {t} : pc'[u] = pc[u]
      /\ pc'[t] \in {next, "drain"}
  BY DEF Destroy
<1>3. \A u \in Threads \ {t} : pc[u] \in Joined => cur[u] # s
  BY DEF Links, LockHeld, JoinedHasSlot
<1>4. \A r \in Sessions, w \in Workers :
        worker'[r][w] \in {"ping", "capture", "stop"} => r \in refs'
  BY <1>1
<1>5. \A r \in Sessions \ alive' : Unborn(r)'
  BY <1>1 DEF Unborn
<1>6. \A u \in Threads : pc'[u] \in Joined => Done(cur[u])' /\ cur'[u] = cur[u]
  BY <1>1, <1>2, <1>3 DEF Done, Links, JoinedHasSlot
<1>7. /\ pc'["rtsp"] \in NotPushed \cup {"spawn"} =>
           Unborn(starting)' /\ starting' \in slots'
      /\ pc'["rtsp"] \in {"push", "spawn"} => starting' \in refs'
  <2>1. pc'["rtsp"] \in Starting => /\ pc'["rtsp"] = pc["rtsp"]
                                    /\ t # "rtsp"
    <3>1. CASE t = "rtsp"
      <4>1. pc'["rtsp"] \in {next, "drain"}
        BY <1>2, <3>1
      <4>2. next \notin Starting /\ "drain" \notin Starting
        OBVIOUS
      <4> QED BY <4>1, <4>2, Zenon
    <3>2. CASE t # "rtsp"
      BY <1>2, <3>2
    <3> QED BY <3>1, <3>2
  <2>2. CASE pc'["rtsp"] \in Starting
    <3>1. /\ starting \in Sessions /\ starting # s
          /\ UNCHANGED starting /\ slots' = slots \ {s}
      BY <2>1, <2>2 DEF Links, StartingAlive
    <3> QED BY <1>1, <2>1, <2>2, <3>1 DEF Unborn
  <2>3. CASE pc'["rtsp"] \notin Starting
    BY <2>3
  <2> QED BY <2>2, <2>3
<1>8. starting' \in Sessions \ slots' => Unborn(starting)' \/ Done(starting)'
  BY <1>1 DEF Unborn, Done
<1> QED BY <1>4, <1>5, <1>6, <1>7, <1>8 DEF Done

LEMMA StartWorkers ==
  ASSUME IInv, WorkersIInv, StartSession PROVE WorkersIInv'
<1> USE DEF IInv, TypeOK, WorkersIInv, Unborn, Done
<1>1. CASE RefBroadcast BY <1>1 DEF RefBroadcast
<1>2. CASE RefBroadcastFails BY <1>2 DEF RefBroadcastFails
<1>3. CASE PushSession BY <1>3 DEF PushSession
<1>4. CASE SpawnWorkers BY <1>4 DEF SpawnWorkers, Links, StartingAlive
<1>5. CASE SetRunning \/ CountSession \/ WillStart
  BY <1>5 DEF SetRunning, CountSession, WillStart
<1>6. CASE RemoveSlot BY <1>6 DEF RemoveSlot
<1>7. CASE ReleaseAnnounce
  <2>1. CASE starting \in slots
    BY <1>7, <2>1 DEF ReleaseAnnounce
  <2>2. CASE starting \notin slots
    <3>1. /\ Destroy("rtsp", starting, "idle") /\ starting \in Sessions
          /\ starting' = None /\ UNCHANGED <<slots, cur>>
      BY <1>7, <2>2 DEF ReleaseAnnounce, Links, StartingAlive
    <3>2. Unborn(starting) \/ Done(starting)
      BY <2>2, <3>1
    <3> HIDE DEF IInv, WorkersIInv, Unborn, Done
    <3> QED BY <2>2, <3>1, <3>2, DestroyWorkers
  <2> QED BY <2>1, <2>2
<1> QED BY <1>1, <1>2, <1>3, <1>4, <1>5, <1>6, <1>7 DEF StartSession

LEMMA ClearWorkers ==
  ASSUME IInv, WorkersIInv, NEW t \in Threads, Clear(t) PROVE WorkersIInv'
<1> USE DEF IInv, TypeOK, WorkersIInv, Unborn, Done
<1>1. CASE ClearDone(t) BY <1>1 DEF ClearDone, AfterClear
<1>2. ASSUME NEW s \in Sessions, Visit(t, s) PROVE WorkersIInv'
  BY <1>2 DEF Visit
<1>3. CASE Join(t) BY <1>3 DEF Join
<1>4. CASE JoinThrows(t) BY <1>4 DEF JoinThrows
<1>5. CASE UncountSession(t) \/ WillStop(t)
  BY <1>5 DEF UncountSession, WillStop
<1>6. CASE EraseSlot(t)
  <2>1. /\ cur[t] \in Sessions /\ Done(cur[t])
        /\ slots' = slots \ {cur[t]} /\ cur' = [cur EXCEPT ![t] = None]
        /\ UNCHANGED starting /\ pc[t] \in Joined
    BY <1>6 DEF EraseSlot, Links, JoinedHasSlot
  <2>2. CASE cur[t] = starting
    BY <1>6, <2>1, <2>2 DEF EraseSlot, Links, LockHeld
  <2>3. CASE cur[t] # starting
    <3>1. Destroy(t, cur[t], "visit")
      BY <1>6, <2>3 DEF EraseSlot
    <3> HIDE DEF IInv, WorkersIInv, Unborn, Done
    <3> QED BY <2>1, <2>3, <3>1, DestroyWorkers
  <2> QED BY <2>2, <2>3
<1>7. CASE EndBroadcast(t) BY <1>7 DEF EndBroadcast
<1> QED BY <1>1, <1>2, <1>3, <1>4, <1>5, <1>6, <1>7 DEF Clear

LEMMA NextWorkers ==
  ASSUME IInv, WorkersIInv, [Next]_vars PROVE WorkersIInv'
<1> USE DEF IInv, TypeOK
<1>1. CASE StartSession BY <1>1, StartWorkers
<1>2. ASSUME NEW t \in Threads, Clear(t) PROVE WorkersIInv'
  BY <1>2, ClearWorkers
<1>3. CASE UNCHANGED <<worker, refs, alive, slots, starting, pc, cur>>
  BY <1>3 DEF WorkersIInv, Unborn, Done
<1>4. CASE ControlLoop
  BY <1>3, <1>4
  DEF ControlLoop, ControlTop, ControlStop, ControlScanned, ControlLeave,
      ControlEnds, ControlVisit, ControlTimeout, ControlTerminate
<1>5. CASE Environment
  BY <1>3, <1>5
  DEF Environment, InvitationLapses, AppExits, ShutDown, TimeoutExpires,
      ClientEvent, ControlConnect, ControlReceive, ControlDisconnect
<1>6. CASE Others
  <2>1. ASSUME NEW s \in Sessions, Announce(s) PROVE WorkersIInv'
    BY <2>1 DEF Announce, WorkersIInv, Unborn, Done
  <2>2. ASSUME NEW s \in Sessions, NEW w \in Workers, RunWorker(s, w)
        PROVE  WorkersIInv'
    <3>1. /\ worker[s][w] \in {"ping", "capture", "stop"}
          /\ \E to \in WorkerStates \ {"none"} :
               worker' = [worker EXCEPT ![s][w] = to]
          /\ UNCHANGED <<refs, alive, slots, starting, pc, cur>>
      BY <2>2 DEF RunWorker, PingArrives, PingTimesOut, CaptureEnds,
                  WorkerExits, StepWorker
    <3>2. /\ \A r \in Sessions \ {s} : worker'[r] = worker[r]
          /\ \A v \in Workers \ {w} : worker'[s][v] = worker[s][v]
          /\ worker[s][w] # "none" /\ worker[s][w] # "exited"
      BY <3>1
    <3>3. ~Unborn(s) /\ ~Done(s)
      BY <3>2 DEF Unborn, Done
    <3>4. \A r \in Sessions \ {s} : /\ Unborn(r)' <=> Unborn(r)
                                    /\ Done(r)' <=> Done(r)
      BY <3>2 DEF Unborn, Done
    <3>5. \A r \in Sessions, v \in Workers :
            worker'[r][v] \in {"ping", "capture", "stop"} => r \in refs
      BY <3>1, <3>2 DEF WorkersIInv
    <3> QED BY <3>1, <3>3, <3>4, <3>5 DEF WorkersIInv, Done, Unborn
  <2>3. CASE RtspTick \/ RtspClear \/ \E t \in Threads : FinalClear(t)
    BY <2>3 DEF RtspTick, RtspClear, FinalClear, BeginClear, WorkersIInv,
                Unborn, Done
  <2> QED BY <1>6, <2>1, <2>2, <2>3 DEF Others
<1>7. CASE HttpStep
  BY <1>7 DEF HttpStep, HttpRequest, HttpRaise, HttpRecount,
              HttpTerminateApp, BeginClear, EndRequest, WorkersIInv, Unborn,
              Done
<1>8. CASE UNCHANGED vars BY <1>3, <1>8 DEF vars
<1> QED BY <1>1, <1>2, <1>4, <1>5, <1>6, <1>7, <1>8, Zenon
        DEF Next, Others, RunWorker

(* videoThread and audioThread outlive neither their session nor the       *)
(* broadcast context: session::join waits for both of them first.          *)
THEOREM WorkersSafe == Spec => []WorkersSeeTheirSession
<1>1. Init => WorkersIInv /\ ContextIInv
  BY DEF Init, WorkersIInv, Unborn, ContextIInv
<1>2. IInv /\ ContextIInv /\ [Next]_vars => ContextIInv'
  BY NextContext
<1>3. IInv /\ WorkersIInv /\ [Next]_vars => WorkersIInv'
  BY NextWorkers
<1>4. WorkersIInv /\ ContextIInv => WorkersSeeTheirSession
  BY DEF WorkersIInv, ContextIInv, WorkersSeeTheirSession
<1> QED BY <1>1, <1>2, <1>3, <1>4, Invariant, PTL DEF Spec
=============================================================================
