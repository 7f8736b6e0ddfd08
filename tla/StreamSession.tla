--------------------------- MODULE StreamSession ---------------------------
(***************************************************************************)
(* The life of a streaming session on the host: src/stream.cpp (session    *)
(* start, stop, join, the worker threads, the shared broadcast context and *)
(* its control thread) together with the session slots of the RTSP server  *)
(* in src/rtsp.cpp, which other threads clean up as well.                  *)
(*                                                                         *)
(* Threads: the RTSP handler ("rtsp"), the server that paired clients talk *)
(* to ("http"), the server of the web interface ("web"), the thread that   *)
(* stops the host ("main"), the control broadcast thread, and the worker   *)
(* threads of every session. Each of the two servers has one thread.       *)
(***************************************************************************)
EXTENDS Integers, FiniteSets

CONSTANTS
  Sessions,    \* session_t objects; one is reused after it is destroyed
  Workers,     \* the worker threads of a session (audioThread, videoThread)
  None,        \* no session, no thread
  UIntRange,   \* number of values of the counter running_sessions
  HttpOps,     \* requests beside /launch and /resume: "cancel", "cert"
  AppMayExit,  \* whether the launched application may exit by itself
  MayShutDown  \* whether the host may be told to shut down

Threads == {"rtsp", "http", "web", "main"}
Servers == {"http", "web"}

ASSUME SessionsAssumption ==
  None \notin Sessions /\ None \notin Threads /\ Workers # {}
ASSUME RangeAssumption == UIntRange \in Nat /\ UIntRange > 1
ASSUME OptionsAssumption ==
  /\ HttpOps \subseteq {"cancel", "cert"}
  /\ AppMayExit \in BOOLEAN
  /\ MayShutDown \in BOOLEAN

VARIABLES
  alive,       \* session_t objects that exist
  slots,       \* rtsp_server_t::_session_slots
  state,       \* session_t::state
  worker,      \* what each worker thread of each session is doing
  deadline,    \* session_t::pingTimeout compared with the clock
  peer,        \* session_t::control.peer
  shutdown,    \* session_t::shutdown_event has been raised
  controlEnd,  \* session_t::controlEnd has been raised
  slotsLock,   \* the thread that holds the lock of _session_slots
  pc,          \* where each of the four Threads is
  cur,         \* the session such a thread is joining
  mode,        \* why such a thread runs rtsp_server_t::clear
  todo,        \* the slots its loop has yet to visit
  starting,    \* the session cmd_announce holds on to, on the rtsp thread
  invited,     \* a launch session is pending: the RTSP server listens to it
  bcast,       \* the shared broadcast context
  bshutdown,   \* mail::broadcast_shutdown has been raised
  refs,        \* sessions whose broadcast_ref counts in the context
  ctl,         \* control_server_t::_sessions
  cpc,         \* where the control thread is
  ctodo,       \* the sessions its loop has yet to visit
  ccur,        \* the session it is looking at
  awaiting,    \* has_session_awaiting_peer
  running,     \* running_sessions
  platform,    \* between streaming_will_start and streaming_will_stop
  app,         \* proc::proc.running() > 0
  hostDown     \* mail::shutdown has been raised

sessionVars == <<state, worker, deadline, peer, shutdown, controlEnd>>
clearVars == <<slotsLock, cur, mode, todo>>
controlVars == <<ctl, cpc, ctodo, ccur, awaiting>>
contextVars == <<bcast, bshutdown, refs>>
hostVars == <<platform, app, hostDown>>

vars == <<alive, slots, pc, starting, invited, running,
          sessionVars, clearVars, controlVars, contextVars, hostVars>>

Init ==
  /\ alive = {} /\ slots = {} /\ refs = {} /\ ctl = {} /\ ctodo = {}
  /\ state = [s \in Sessions |-> "STOPPED"]
  /\ worker = [s \in Sessions |-> [w \in Workers |-> "none"]]
  /\ deadline = [s \in Sessions |-> "epoch"]
  /\ peer = [s \in Sessions |-> "none"]
  /\ shutdown = [s \in Sessions |-> FALSE]
  /\ controlEnd = [s \in Sessions |-> FALSE]
  /\ pc = [t \in Threads |-> "idle"]
  /\ cur = [t \in Threads |-> None]
  /\ mode = [t \in Threads |-> "stopped"]
  /\ todo = [t \in Threads |-> {}]
  /\ slotsLock = None /\ starting = None /\ ccur = None
  /\ bcast = "down" /\ cpc = "none"
  /\ bshutdown = FALSE /\ awaiting = FALSE /\ invited = FALSE
  /\ running = 0
  /\ platform = FALSE /\ app = FALSE /\ hostDown = FALSE

Goto(t, where) == pc' = [pc EXCEPT ![t] = where]
At(t, where) == pc[t] = where

-----------------------------------------------------------------------------
(* session::stop: only a running session starts to stop, exactly once.     *)

StopAny(s) ==   \* mutant: also stops a session that is not running yet
  /\ state' = [state EXCEPT ![s] = "STOPPING"]
  /\ shutdown' = [shutdown EXCEPT ![s] = TRUE]

Stop(s) ==
  /\ state' = [state EXCEPT ![s] = IF @ = "RUNNING" THEN "STOPPING" ELSE @]
  /\ shutdown' = [shutdown EXCEPT ![s] = @ \/ state[s] = "RUNNING"]

(* The last shared_ptr to a session goes: ~session_t, which drops          *)
(* broadcast_ref, and with the last reference runs end_broadcast. The      *)
(* fields take the values the next session_t of that name begins with; a   *)
(* thread that still runs goes on running.                                 *)
Destroy(t, s, next) ==
  /\ alive' = alive \ {s}
  /\ state' = [state EXCEPT ![s] = "STOPPED"]
  /\ worker' = [worker EXCEPT ![s] =
       [w \in Workers |-> IF @[w] = "exited" THEN "none" ELSE @[w]]]
  /\ deadline' = [deadline EXCEPT ![s] = "epoch"]
  /\ peer' = [peer EXCEPT ![s] = "none"]
  /\ shutdown' = [shutdown EXCEPT ![s] = FALSE]
  /\ controlEnd' = [controlEnd EXCEPT ![s] = FALSE]
  /\ refs' = refs \ {s}
  /\ IF refs = {s}
       THEN bcast' = "ending" /\ bshutdown' = TRUE /\ Goto(t, "drain")
       ELSE UNCHANGED <<bcast, bshutdown>> /\ Goto(t, next)

-----------------------------------------------------------------------------
(* cmd_announce and session::start, on the rtsp thread.                    *)

Announce(s) ==
  /\ At("rtsp", "idle") /\ ~hostDown /\ invited
  /\ slotsLock = None /\ s \notin alive
  /\ alive' = alive \cup {s}
  /\ slots' = slots \cup {s}
  /\ starting' = s
  /\ Goto("rtsp", "ref")
  /\ UNCHANGED <<invited, running, sessionVars, clearVars, controlVars,
                 contextVars, hostVars>>

(* broadcast.ref(): waits while another thread runs end_broadcast under    *)
(* the lock, and creates the context and its threads when there is none.   *)
RefBroadcast ==
  /\ At("rtsp", "ref") /\ bcast # "ending"
  /\ refs' = refs \cup {starting}
  /\ bcast' = "up"
  /\ cpc' = IF bcast = "down" THEN "top" ELSE cpc
  /\ ctl' = IF bcast = "down" THEN {} ELSE ctl
  /\ Goto("rtsp", "push")
  /\ UNCHANGED <<alive, slots, starting, invited, running, bshutdown, ctodo,
                 ccur, awaiting, sessionVars, clearVars, hostVars>>

(* start_broadcast cannot bind a port: session::start returns -1.          *)
RefBroadcastFails ==
  /\ At("rtsp", "ref") /\ bcast = "down"
  /\ Goto("rtsp", "remove")
  /\ UNCHANGED <<alive, slots, starting, invited, running, sessionVars,
                 clearVars, controlVars, contextVars, hostVars>>

(* The control thread holds the lock of _sessions while it looks through   *)
(* the list.                                                               *)
SessionsLocked == cpc \in {"scan", "stop", "terminate"}

PushSession ==
  /\ At("rtsp", "push") /\ ~SessionsLocked
  /\ ctl' = ctl \cup {starting}
  /\ Goto("rtsp", "spawn")
  /\ UNCHANGED <<alive, slots, starting, invited, running, cpc, ctodo, ccur,
                 awaiting, sessionVars, clearVars, contextVars, hostVars>>

(* pingTimeout is set only now, then both workers start.                   *)
SpawnWorkers ==
  /\ At("rtsp", "spawn")
  /\ deadline' = [deadline EXCEPT ![starting] = "armed"]
  /\ worker' = [worker EXCEPT ![starting] = [w \in Workers |-> "ping"]]
  /\ Goto("rtsp", "run")
  /\ UNCHANGED <<alive, slots, starting, invited, running, state, peer,
                 shutdown, controlEnd, clearVars, controlVars, contextVars,
                 hostVars>>

SetRunning ==
  /\ At("rtsp", "run")
  /\ state' = [state EXCEPT ![starting] = "RUNNING"]
  /\ Goto("rtsp", "count")
  /\ UNCHANGED <<alive, slots, starting, invited, running, worker, deadline,
                 peer, shutdown, controlEnd, clearVars, controlVars,
                 contextVars, hostVars>>

CountSession ==
  /\ At("rtsp", "count")
  /\ running' = (running + 1) % UIntRange
  /\ Goto("rtsp", IF running' = 1 THEN "will_start" ELSE "release")
  /\ UNCHANGED <<alive, slots, starting, invited, sessionVars, clearVars,
                 controlVars, contextVars, hostVars>>

WillStart ==
  /\ At("rtsp", "will_start")
  /\ platform' = TRUE
  /\ Goto("rtsp", "release")
  /\ UNCHANGED <<alive, slots, starting, invited, running, app, hostDown,
                 sessionVars, clearVars, controlVars, contextVars>>

(* rtsp_server_t::remove after a failed start.                             *)
RemoveSlot ==
  /\ At("rtsp", "remove") /\ slotsLock = None
  /\ slots' = slots \ {starting}
  /\ Goto("rtsp", "release")
  /\ UNCHANGED <<alive, starting, invited, running, sessionVars, clearVars,
                 controlVars, contextVars, hostVars>>

(* cmd_announce returns and drops its shared_ptr, which is the last one    *)
(* when the slot has been erased meanwhile.                                *)
ReleaseAnnounce ==
  /\ At("rtsp", "release")
  /\ starting' = None
  /\ IF starting \in slots
       THEN /\ Goto("rtsp", "idle")
            /\ UNCHANGED <<alive, sessionVars, contextVars>>
       ELSE Destroy("rtsp", starting, "idle")
  /\ UNCHANGED <<slots, invited, running, clearVars, controlVars, hostVars>>

StartSession ==
  \/ RefBroadcast \/ RefBroadcastFails \/ PushSession
  \/ SpawnWorkers \/ SetRunning \/ CountSession \/ WillStart
  \/ RemoveSlot \/ ReleaseAnnounce

-----------------------------------------------------------------------------
(* rtsp_server_t::clear and clear_by_cert, by any of the four threads.     *)

(* Take the lock and choose the slots to visit: all, or those of the       *)
(* client's certificate.                                                   *)
BeginClear(t, why) ==
  /\ slotsLock = None
  /\ slotsLock' = t
  /\ mode' = [mode EXCEPT ![t] = why]
  /\ \E chosen \in SUBSET slots :
       /\ why = "cert" \/ chosen = slots
       /\ todo' = [todo EXCEPT ![t] = chosen]
  /\ Goto(t, "visit")
  /\ UNCHANGED <<alive, slots, starting, invited, running, sessionVars, cur,
                 controlVars, contextVars, hostVars>>

(* rtsp_server_t::iterate returns after an event, or after 500ms when      *)
(* there are sessions. Whether the broadcast shuts down is tested before   *)
(* the lock is taken.                                                      *)
RtspTick ==
  /\ At("rtsp", "idle") /\ ~hostDown /\ slots # {}
  /\ mode' = [mode EXCEPT !["rtsp"] = IF bshutdown THEN "all" ELSE "stopped"]
  /\ Goto("rtsp", "clear")
  /\ UNCHANGED <<alive, slots, starting, invited, running, sessionVars,
                 slotsLock, cur, todo, controlVars, contextVars, hostVars>>

RtspClear ==
  At("rtsp", "clear") /\ BeginClear("rtsp", mode["rtsp"])

(* The server loop sees the shutdown and clears everything one last time;  *)
(* rtsp_server_t::stop does the same on the main thread.                   *)
FinalClear(t) ==
  t \in {"rtsp", "main"} /\ At(t, "idle") /\ hostDown /\ BeginClear(t, "final")

(* /launch needs that no app runs and /resume that one does; both clean up *)
(* stopped sessions through session_count. /cancel terminates them all;    *)
(* the web interface disables a client and ends the sessions with its      *)
(* certificate.                                                            *)
HttpRequest(t, op) ==
  /\ At(t, "idle") /\ ~hostDown
  /\ t = IF op = "cert" THEN "web" ELSE "http"
  /\ op = "launch" => ~app
  /\ op = "resume" => app
  /\ BeginClear(t, op)

Everything(t) == mode[t] \in {"all", "final", "cancel", "cert"}

Visit(t, s) ==
  /\ At(t, "visit") /\ s \in todo[t]
  /\ todo' = [todo EXCEPT ![t] = @ \ {s}]
  /\ IF Everything(t) \/ state[s] = "STOPPING"
       THEN /\ Stop(s)
            /\ cur' = [cur EXCEPT ![t] = s]
            /\ Goto(t, "join")
       ELSE UNCHANGED <<state, shutdown, cur, pc>>
  /\ UNCHANGED <<alive, slots, starting, invited, running, worker, deadline,
                 peer, controlEnd, slotsLock, mode, controlVars, contextVars,
                 hostVars>>

(* Where a thread goes on when its clear has returned. /cancel and the     *)
(* disabling of a client go on to terminate the app.                       *)
AfterClear ==
  [stopped |-> "idle", all |-> "idle", final |-> "done",
   launch |-> "raise", resume |-> "raise", cert |-> "recount",
   leave |-> "idle", cancel |-> "terminate_app", count |-> "terminate_app"]

ClearDone(t) ==
  /\ At(t, "visit") /\ todo[t] = {}
  /\ slotsLock' = None
  /\ Goto(t, AfterClear[mode[t]])
  /\ mode' = IF t \in Servers /\ mode[t] # "leave"
               THEN mode ELSE [mode EXCEPT ![t] = "stopped"]
  /\ UNCHANGED <<alive, slots, starting, invited, running, sessionVars, cur,
                 todo, controlVars, contextVars, hostVars>>

EndRequest(t) == Goto(t, "idle") /\ mode' = [mode EXCEPT ![t] = "stopped"]

(* The request is refused (no encoder, no encryption, the app does not     *)
(* start), or launch_session_raise lets the client in to the handshake.    *)
HttpRaise(ok) ==
  /\ At("http", "raise")
  /\ invited' = (invited \/ ok)
  /\ app' = (app \/ (ok /\ mode["http"] = "launch"))
  /\ IF mode["http"] = "launch"
       THEN Goto("http", "recount") /\ UNCHANGED mode
       ELSE EndRequest("http")
  /\ UNCHANGED <<alive, slots, starting, running, platform, hostDown,
                 sessionVars, slotsLock, cur, todo, controlVars, contextVars>>

(* session_count cleans up once more: in the guard that /launch leaves     *)
(* through, and after a client has been disabled.                          *)
HttpRecount(t) ==
  /\ At(t, "recount")
  /\ BeginClear(t, IF t = "web" THEN "count" ELSE "leave")

(* proc::proc.terminate(): unconditional for /cancel; after a client has   *)
(* been disabled only when no session is left.                             *)
HttpTerminateApp(t) ==
  /\ At(t, "terminate_app")
  /\ mode[t] = "count" => slotsLock = None
  /\ app' = (app /\ mode[t] = "count" /\ slots # {})
  /\ EndRequest(t)
  /\ UNCHANGED <<alive, slots, starting, invited, running, platform, hostDown,
                 sessionVars, slotsLock, cur, todo, controlVars, contextVars>>

-----------------------------------------------------------------------------
(* session::join, under the lock of the slots.                             *)

JoinForgetsControl(t) ==   \* mutant: controlEnd.view() left out
  /\ At(t, "join")
  /\ \A w \in Workers : worker[cur[t]][w] = "exited"
  /\ Goto(t, "uncount")
  /\ UNCHANGED <<alive, slots, starting, invited, running, sessionVars,
                 clearVars, controlVars, contextVars, hostVars>>

JoinForgetsWorker(t) ==   \* mutant: joins one worker and forgets the other
  /\ At(t, "join")
  /\ \E w \in Workers : worker[cur[t]][w] = "exited"
  /\ controlEnd[cur[t]]
  /\ Goto(t, "uncount")
  /\ UNCHANGED <<alive, slots, starting, invited, running, sessionVars,
                 clearVars, controlVars, contextVars, hostVars>>

(* It waits for the workers, then for the control thread to let go of the  *)
(* session.                                                                *)
Join(t) ==
  /\ At(t, "join")
  /\ \A w \in Workers : worker[cur[t]][w] = "exited"
  /\ controlEnd[cur[t]]
  /\ Goto(t, "uncount")
  /\ UNCHANGED <<alive, slots, starting, invited, running, sessionVars,
                 clearVars, controlVars, contextVars, hostVars>>

(* Joining a std::thread that was never started throws: clear unwinds, the *)
(* slot stays. The HTTPS server drops the request; on the main thread the  *)
(* exception ends the program.                                             *)
JoinThrows(t) ==
  /\ At(t, "join") /\ \E w \in Workers : worker[cur[t]][w] = "none"
  /\ slotsLock' = None
  /\ todo' = [todo EXCEPT ![t] = {}]
  /\ cur' = [cur EXCEPT ![t] = None]
  /\ mode' = [mode EXCEPT ![t] = "stopped"]
  /\ Goto(t, IF t \in Servers THEN "idle" ELSE "done")
  /\ UNCHANGED <<alive, slots, starting, invited, running, sessionVars,
                 controlVars, contextVars, hostVars>>

UncountSession(t) ==
  /\ At(t, "uncount")
  /\ running' = (running + UIntRange - 1) % UIntRange
  /\ Goto(t, IF running' = 0 THEN "will_stop" ELSE "erase")
  /\ UNCHANGED <<alive, slots, starting, invited, sessionVars, clearVars,
                 controlVars, contextVars, hostVars>>

WillStop(t) ==
  /\ At(t, "will_stop")
  /\ platform' = FALSE
  /\ Goto(t, "erase")
  /\ UNCHANGED <<alive, slots, starting, invited, running, app, hostDown,
                 sessionVars, clearVars, controlVars, contextVars>>

EraseSlot(t) ==
  /\ At(t, "erase")
  /\ slots' = slots \ {cur[t]}
  /\ cur' = [cur EXCEPT ![t] = None]
  /\ IF cur[t] = starting
       THEN Goto(t, "visit") /\ UNCHANGED <<alive, sessionVars, contextVars>>
       ELSE Destroy(t, cur[t], "visit")
  /\ UNCHANGED <<starting, invited, running, slotsLock, mode, todo,
                 controlVars, hostVars>>

EndBroadcastKeepsEvent(t) ==   \* mutant: broadcast_shutdown is not reset
  /\ At(t, "drain") /\ cpc = "ended"
  /\ bcast' = "down" /\ cpc' = "none" /\ ctl' = {}
  /\ Goto(t, IF slotsLock = t THEN "visit" ELSE "idle")
  /\ UNCHANGED <<alive, slots, starting, invited, running, bshutdown, refs,
                 ctodo, ccur, awaiting, sessionVars, clearVars, hostVars>>

(* end_broadcast: joins the threads of the context, resets the event.      *)
EndBroadcast(t) ==
  /\ At(t, "drain") /\ cpc = "ended"
  /\ bcast' = "down" /\ bshutdown' = FALSE
  /\ cpc' = "none" /\ ctl' = {}
  /\ Goto(t, IF slotsLock = t THEN "visit" ELSE "idle")
  /\ UNCHANGED <<alive, slots, starting, invited, running, refs, ctodo, ccur,
                 awaiting, sessionVars, clearVars, hostVars>>

Clear(t) ==
  \/ ClearDone(t) \/ \E s \in Sessions : Visit(t, s)
  \/ Join(t) \/ JoinThrows(t) \/ UncountSession(t) \/ WillStop(t)
  \/ EraseSlot(t) \/ EndBroadcast(t)

-----------------------------------------------------------------------------
(* controlBroadcastThread.                                                 *)

ShuttingDown == hostDown \/ bshutdown

(* The head of the loop; iterate() has returned, after an event or 5ms.    *)
ControlTop ==
  /\ cpc \in {"top", "serve"}
  /\ IF ShuttingDown
       THEN cpc' = "leave" /\ UNCHANGED ctodo
       ELSE cpc' = "scan" /\ ctodo' = ctl
  /\ UNCHANGED <<alive, slots, pc, starting, invited, running, ctl, ccur,
                 awaiting, sessionVars, clearVars, contextVars, hostVars>>

ReapSilently(s, stopping) ==   \* mutant: controlEnd only raised with a peer
  /\ ctodo' = ctodo \ {s}
  /\ IF stopping
       THEN /\ ctl' = ctl \ {s}
            /\ controlEnd' = [controlEnd EXCEPT ![s] = (peer[s] # "none")]
            /\ UNCHANGED awaiting
       ELSE /\ awaiting' = (awaiting \/ peer[s] = "none")
            /\ UNCHANGED <<ctl, controlEnd>>

(* A session that is stopping is dropped from the lists, its peer is       *)
(* disconnected and whoever joins it is released; one without a peer is    *)
(* remembered.                                                             *)
Reap(s, stopping) ==
  /\ ctodo' = ctodo \ {s}
  /\ IF stopping
       THEN /\ ctl' = ctl \ {s}
            /\ controlEnd' = [controlEnd EXCEPT ![s] = TRUE]
            /\ UNCHANGED awaiting
       ELSE /\ awaiting' = (awaiting \/ peer[s] = "none")
            /\ UNCHANGED <<ctl, controlEnd>>

ControlVisit(s) ==
  /\ cpc = "scan" /\ s \in ctodo /\ ~ShuttingDown
  /\ deadline[s] = "armed"
  /\ Reap(s, state[s] = "STOPPING")
  /\ UNCHANGED <<alive, slots, pc, starting, invited, running, state, worker,
                 deadline, peer, shutdown, cpc, ccur, clearVars, contextVars,
                 hostVars>>

(* The deadline is tested here and acted on in ControlStop: session::stop  *)
(* is a call on a session another thread may still be starting.            *)
ControlTimeout(s) ==
  /\ cpc = "scan" /\ s \in ctodo /\ ~ShuttingDown
  /\ deadline[s] # "armed"
  /\ ccur' = s
  /\ cpc' = "stop"
  /\ UNCHANGED <<alive, slots, pc, starting, invited, running, ctl, ctodo,
                 awaiting, sessionVars, clearVars, contextVars, hostVars>>

ControlStop ==
  /\ cpc = "stop"
  /\ Stop(ccur)
  /\ Reap(ccur, state'[ccur] = "STOPPING")
  /\ cpc' = "scan"
  /\ ccur' = None
  /\ UNCHANGED <<alive, slots, pc, starting, invited, running, worker,
                 deadline, peer, clearVars, contextVars, hostVars>>

(* The scan is over, or cut short by a shutdown; the lock is released. The *)
(* loop is left when the app has ended and no session awaits its peer.     *)
ControlScanned ==
  /\ cpc = "scan" /\ (ctodo = {} \/ ShuttingDown)
  /\ ctodo' = {}
  /\ cpc' = IF ~app /\ ~awaiting THEN "leave" ELSE "serve"
  /\ awaiting' = FALSE
  /\ UNCHANGED <<alive, slots, pc, starting, invited, running, ctl, ccur,
                 sessionVars, clearVars, contextVars, hostVars>>

(* control_server_t::iterate, one ENet event: a client connects and is     *)
(* matched to a session that has no peer, ...                              *)
ControlConnect(s) ==
  /\ cpc = "serve" /\ s \in ctl /\ peer[s] = "none"
  /\ peer' = [peer EXCEPT ![s] = "up"]
  /\ deadline' = [deadline EXCEPT ![s] = "armed"]
  /\ UNCHANGED <<alive, slots, pc, starting, invited, running, state, worker,
                 shutdown, controlEnd, clearVars, controlVars, contextVars,
                 hostVars>>

(* ... sends a message, which stops the session if it cannot be decrypted, *)
ControlReceive(s, valid) ==
  /\ cpc = "serve" /\ s \in ctl /\ peer[s] = "up"
  /\ deadline' = [deadline EXCEPT ![s] = "armed"]
  /\ IF valid THEN UNCHANGED <<state, shutdown>> ELSE Stop(s)
  /\ UNCHANGED <<alive, slots, pc, starting, invited, running, worker, peer,
                 controlEnd, clearVars, controlVars, contextVars, hostVars>>

(* ... or disconnects.                                                     *)
ControlDisconnect(s) ==
  /\ cpc = "serve" /\ s \in ctl /\ peer[s] = "up"
  /\ peer' = [peer EXCEPT ![s] = "gone"]
  /\ deadline' = [deadline EXCEPT ![s] = "armed"]
  /\ Stop(s)
  /\ UNCHANGED <<alive, slots, pc, starting, invited, running, worker,
                 controlEnd, clearVars, controlVars, contextVars, hostVars>>

(* After the loop, under the lock: shut the remaining sessions down, one   *)
(* after the other.                                                        *)
ControlLeave ==
  /\ cpc = "leave"
  /\ cpc' = "terminate"
  /\ ctodo' = ctl
  /\ UNCHANGED <<alive, slots, pc, starting, invited, running, ctl, ccur,
                 awaiting, sessionVars, clearVars, contextVars, hostVars>>

ControlTerminate(s) ==
  /\ cpc = "terminate" /\ s \in ctodo
  /\ ctodo' = ctodo \ {s}
  /\ shutdown' = [shutdown EXCEPT ![s] = TRUE]
  /\ controlEnd' = [controlEnd EXCEPT ![s] = TRUE]
  /\ UNCHANGED <<alive, slots, pc, starting, invited, running, state, worker,
                 deadline, peer, ctl, cpc, ccur, awaiting, clearVars,
                 contextVars, hostVars>>

ControlEnds ==
  /\ cpc = "terminate" /\ ctodo = {}
  /\ cpc' = "ended"
  /\ UNCHANGED <<alive, slots, pc, starting, invited, running, ctl, ctodo,
                 ccur, awaiting, sessionVars, clearVars, contextVars,
                 hostVars>>

ControlLoop ==
  \/ ControlTop \/ ControlStop \/ ControlScanned \/ ControlLeave \/ ControlEnds
  \/ \E s \in Sessions :
       ControlVisit(s) \/ ControlTimeout(s) \/ ControlTerminate(s)

ClientEvent(s) ==
  \/ ControlConnect(s) \/ ControlDisconnect(s)
  \/ \E valid \in BOOLEAN : ControlReceive(s, valid)

-----------------------------------------------------------------------------
(* videoThread and audioThread of a session, told apart only by name.      *)

StepWorker(s, w, from, to) ==
  /\ worker[s][w] = from
  /\ worker' = [worker EXCEPT ![s][w] = to]
  /\ UNCHANGED <<alive, slots, pc, starting, invited, running, deadline, peer,
                 controlEnd, clearVars, controlVars, contextVars, hostVars>>

PingArrives(s, w) ==
  StepWorker(s, w, "ping", "capture") /\ UNCHANGED <<state, shutdown>>

(* recv_ping gives up after ping_timeout; it does not watch the shutdown.  *)
PingTimesOut(s, w) ==
  StepWorker(s, w, "ping", "stop") /\ UNCHANGED <<state, shutdown>>

(* Capture ends when the session's shutdown event is up, or by an error.   *)
CaptureEnds(s, w) ==
  /\ StepWorker(s, w, "capture", "stop")
  /\ UNCHANGED <<state, shutdown>>

(* The guard of the thread function stops the session on every way out.    *)
WorkerExits(s, w) ==
  StepWorker(s, w, "stop", "exited") /\ Stop(s)

RunWorker(s, w) ==
  \/ PingArrives(s, w) \/ PingTimesOut(s, w)
  \/ CaptureEnds(s, w) \/ WorkerExits(s, w)

-----------------------------------------------------------------------------
(* The environment: clocks, clients, the app and the host.                 *)

TimeoutExpires(s) ==
  /\ s \in ctl /\ deadline[s] = "armed"
  /\ deadline' = [deadline EXCEPT ![s] = "expired"]
  /\ UNCHANGED <<alive, slots, pc, starting, invited, running, state, worker,
                 peer, shutdown, controlEnd, clearVars, controlVars,
                 contextVars, hostVars>>

(* The client has connected its control stream, or the pending launch      *)
(* session has timed out.                                                  *)
InvitationLapses ==
  /\ invited
  /\ invited' = FALSE
  /\ UNCHANGED <<alive, slots, pc, starting, running, sessionVars, clearVars,
                 controlVars, contextVars, hostVars>>

AppExits ==
  /\ AppMayExit /\ app
  /\ app' = FALSE
  /\ UNCHANGED <<alive, slots, pc, starting, invited, running, platform,
                 hostDown, sessionVars, clearVars, controlVars, contextVars>>

ShutDown ==
  /\ MayShutDown /\ ~hostDown
  /\ hostDown' = TRUE
  /\ UNCHANGED <<alive, slots, pc, starting, invited, running, platform, app,
                 sessionVars, clearVars, controlVars, contextVars>>

Environment ==
  InvitationLapses \/ AppExits \/ ShutDown
  \/ \E s \in Sessions : TimeoutExpires(s) \/ ClientEvent(s)

-----------------------------------------------------------------------------
HttpStep ==
  \/ \E t \in Servers, op \in {"launch", "resume"} \cup HttpOps :
       HttpRequest(t, op)
  \/ \E ok \in BOOLEAN : HttpRaise(ok)
  \/ \E t \in Servers : HttpRecount(t) \/ HttpTerminateApp(t)

Next ==
  \/ \E s \in Sessions : Announce(s)
  \/ StartSession \/ RtspTick \/ RtspClear
  \/ \E t \in Threads : FinalClear(t) \/ Clear(t)
  \/ HttpStep
  \/ ControlLoop
  \/ \E s \in Sessions, w \in Workers : RunWorker(s, w)
  \/ Environment

Spec == Init /\ [][Next]_vars

(***************************************************************************)
(* Fairness. Each thread of the host keeps running, and none waits for     *)
(* ever for a lock that the others release again and again: fairness is    *)
(* strong for the threads that take locks. recv_ping gives up after        *)
(* ping_timeout, capture ends once its session's shutdown event is up, and *)
(* the RTSP loop wakes up every 500ms while there are sessions. Clients,   *)
(* requests and the app owe nothing.                                       *)
(***************************************************************************)
RtspThread ==
  StartSession \/ RtspTick \/ RtspClear \/ FinalClear("rtsp") \/ Clear("rtsp")

HttpThread(t) ==
  \/ t = "http" /\ \E ok \in BOOLEAN : HttpRaise(ok)
  \/ HttpRecount(t) \/ HttpTerminateApp(t) \/ Clear(t)

MainThread == FinalClear("main") \/ Clear("main")

WorkerThread(s, w) ==
  PingTimesOut(s, w) \/ (shutdown[s] /\ CaptureEnds(s, w)) \/ WorkerExits(s, w)

FairSpec ==
  /\ Spec
  /\ SF_vars(RtspThread) /\ SF_vars(MainThread)
  /\ \A t \in Servers : SF_vars(HttpThread(t))
  /\ WF_vars(ControlLoop)
  /\ \A s \in Sessions, w \in Workers : WF_vars(WorkerThread(s, w))

-----------------------------------------------------------------------------
(* Properties.                                                             *)

WorkerStates == {"none", "ping", "capture", "stop", "exited"}
ControlStates ==
  {"none", "top", "scan", "stop", "serve", "leave", "terminate", "ended"}
ThreadStates ==
  {"idle", "ref", "push", "spawn", "run", "count", "will_start",
   "remove", "release", "clear", "visit", "join",
   "uncount", "will_stop", "erase", "drain", "raise", "recount",
   "terminate_app", "done"}
Modes == {"stopped", "all", "final", "launch", "resume", "cancel", "cert",
          "count", "leave"}

(* Every variable holds a value of its kind, in particular the sessions    *)
(* the slots name exist.                                                   *)
TypeOK ==
  /\ alive \subseteq Sessions /\ slots \subseteq alive
  /\ refs \subseteq alive
  /\ ctl \subseteq Sessions /\ ctodo \subseteq ctl
  /\ state \in [Sessions -> {"STOPPED", "RUNNING", "STOPPING"}]
  /\ worker \in [Sessions -> [Workers -> WorkerStates]]
  /\ deadline \in [Sessions -> {"epoch", "armed", "expired"}]
  /\ peer \in [Sessions -> {"none", "up", "gone"}]
  /\ shutdown \in [Sessions -> BOOLEAN]
  /\ controlEnd \in [Sessions -> BOOLEAN]
  /\ slotsLock \in Threads \cup {None}
  /\ pc \in [Threads -> ThreadStates]
  /\ cur \in [Threads -> Sessions \cup {None}]
  /\ mode \in [Threads -> Modes]
  /\ todo \in [Threads -> SUBSET Sessions]
  /\ starting \in Sessions \cup {None}
  /\ bcast \in {"down", "up", "ending"}
  /\ cpc \in ControlStates
  /\ ccur \in Sessions \cup {None}
  /\ running \in 0 .. UIntRange - 1
  /\ invited \in BOOLEAN /\ bshutdown \in BOOLEAN /\ awaiting \in BOOLEAN
  /\ platform \in BOOLEAN /\ app \in BOOLEAN /\ hostDown \in BOOLEAN

(* The control thread keeps raw pointers to sessions in _sessions and in   *)
(* _peer_to_session. As long as it uses them, none points to a session     *)
(* that has been destroyed.                                                *)
ControlSeesLiveSessions ==
  /\ cpc \in {"top", "scan", "stop", "serve", "leave"} => ctl \subseteq alive
  /\ cpc = "terminate" => ctodo \subseteq alive
  /\ cpc = "stop" => ccur \in ctl

-----------------------------------------------------------------------------
(* The inductive invariant behind ControlSeesLiveSessions, by parts.       *)

Holding == {"visit", "join", "uncount", "will_stop", "erase"}
Joining == Holding \ {"visit"}
Joined == {"uncount", "will_stop", "erase"}
Starting == {"ref", "push", "spawn", "run", "count", "will_start", "remove",
             "release"}
NotPushed == {"ref", "push", "remove"}
Looping == cpc \in {"top", "scan", "stop", "serve", "leave"}

(* The control thread will not look at session s again.                    *)
Unseen(s) ==
  (Looping => s \notin ctl) /\ (cpc = "terminate" => s \notin ctodo)

LockHeld == \A t \in Threads : pc[t] \in Holding => slotsLock = t
TodoInSlots == \A t \in Threads : slotsLock = t => todo[t] \subseteq slots
JoinedHasSlot ==
  \A t \in Threads : pc[t] \in Joining => cur[t] \in slots \ todo[t]
JoinedReleased == \A t \in Threads : pc[t] \in Joined => controlEnd[cur[t]]
StartingAlive ==
  IF pc["rtsp"] \in Starting THEN starting \in alive ELSE starting = None
StartingFresh ==
  pc["rtsp"] \in NotPushed =>
    starting \in slots /\ Unseen(starting) /\ ~controlEnd[starting]
ErasedUnseen == starting \in Sessions \ slots => Unseen(starting)
StartingStopped ==
  pc["rtsp"] \in {"ref", "push", "spawn", "run"} => state[starting] = "STOPPED"
DeadFresh ==
  \A s \in Sessions \ alive : state[s] = "STOPPED" /\ ~controlEnd[s]
ContextEnds ==
  /\ bcast = "down" => cpc = "none"
  /\ cpc \in {"none", "ended"} => ctodo = {}
ListsLive ==
  /\ Looping => \A s \in ctl : s \in alive /\ ~controlEnd[s]
  /\ cpc = "terminate" => \A s \in ctodo : s \in alive /\ ~controlEnd[s]
  /\ cpc = "stop" => ccur \in ctl

(* No thread destroys a session that the control thread may still look at: *)
(* whoever joins holds the lock of the slots and has seen controlEnd, and  *)
(* the RTSP thread lets go of a session without a slot only when it was    *)
(* never pushed or has been joined.                                        *)
Links ==
  /\ LockHeld /\ TodoInSlots /\ JoinedHasSlot /\ JoinedReleased
  /\ StartingAlive /\ StartingFresh /\ StartingStopped /\ ErasedUnseen
  /\ DeadFresh /\ ContextEnds /\ ListsLive

IInv == TypeOK /\ Links
-----------------------------------------------------------------------------
(* The worker threads are given a raw pointer to their session: it exists  *)
(* until both have returned, and so does the broadcast context they use.   *)
WorkersSeeTheirSession ==
  \A s \in Sessions, w \in Workers :
    worker[s][w] \in {"ping", "capture", "stop"} =>
      s \in refs /\ bcast = "up"

(* While some session holds a reference to the broadcast context, nobody   *)
(* tears it down, and its threads are not told to stop by the shutdown     *)
(* event of an earlier context.                                            *)
ContextServesItsSessions ==
  (refs # {} => bcast = "up") /\ (bcast = "up" => ~bshutdown)

(* The inductive invariant behind the two, on top of IInv: the context     *)
(* that nobody refers to is down, or taken down by one thread.             *)
ContextIInv ==
  /\ bcast # "up" => refs = {}
  /\ bshutdown => bcast = "ending"
  /\ \A t, u \in Threads :
       At(t, "drain") => bcast = "ending" /\ (At(u, "drain") => t = u)

Done(s) == \A w \in Workers : worker[s][w] = "exited"
Unborn(s) == \A w \in Workers : worker[s][w] = "none"

(* Workers run in a session with a reference, from its start until it is   *)
(* joined; one that loses its slot while it is starting has been joined,   *)
(* or never got as far as its workers.                                     *)
WorkersIInv ==
  /\ \A s \in Sessions, w \in Workers :
       worker[s][w] \in {"ping", "capture", "stop"} => s \in refs
  /\ \A s \in Sessions \ alive : Unborn(s)
  /\ \A t \in Threads : pc[t] \in Joined => Done(cur[t])
  /\ pc["rtsp"] \in NotPushed \cup {"spawn"} =>
       Unborn(starting) /\ starting \in slots
  /\ pc["rtsp"] \in {"push", "spawn"} => starting \in refs
  /\ starting \in Sessions \ slots => Unborn(starting) \/ Done(starting)

(* session::start stores RUNNING without looking at what the state was: no *)
(* stop is ever overwritten by it.                                         *)
StopIsNotOverwritten ==
  [][\A s \in alive : state[s] = "STOPPING" /\ s \in alive' =>
       state'[s] = "STOPPING"]_vars

(* A session that stops is in the end destroyed: session::join returns.    *)
(* (The code aborts the host when join takes longer than ten seconds.)     *)
StoppedSessionsEnd ==
  \A s \in Sessions : (state[s] = "STOPPING" /\ s \in alive) ~> s \notin alive

(* A request that cleans sessions up is answered, however many sessions it *)
(* has to join.                                                            *)
RequestsAreAnswered == \A t \in Servers : pc[t] # "idle" ~> pc[t] = "idle"

(* Every join returns, to the RTSP thread and to the requests (stream.cpp: *)
(* "Waiting for control to end").                                          *)
JoinsReturn == StoppedSessionsEnd /\ RequestsAreAnswered

(* A session that clear(true) joins has been told to stop by the call of   *)
(* session::stop before it.                                                *)
JoinedSessionsStop ==
  \A t \in Threads : At(t, "join") => state[cur[t]] # "RUNNING"
=============================================================================
