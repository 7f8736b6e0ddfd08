--------------------------- MODULE LaunchSession ---------------------------
(***************************************************************************)
(* The pending launch session of the RTSP server (src/rtsp.cpp,            *)
(* rtsp_server_t::launch_event and raised_timer): /launch or /resume       *)
(* raises it on the HTTPS server's thread, the handler of the timer drops  *)
(* it on the RTSP thread, and the control broadcast thread clears it when  *)
(* the client has connected its control stream.                            *)
(***************************************************************************)
EXTENDS Integers, FiniteSets

CONSTANTS Launches,  \* launch_session_t objects, each with an id of its own
          None

VARIABLES
  unused,    \* launch sessions no request has made yet
  pending,   \* what launch_event holds
  armed,     \* the launch raised_timer waits for
  due,       \* launches whose wait is over and whose handler is yet to run
  sockets,   \* launches that an accepted RTSP connection holds on to
  awaiting,  \* launches whose streaming session awaits its control peer
  raiser,    \* the HTTPS thread in session_raise: where, and with what
  clearer    \* the control thread in session_clear: where, and for what

timerVars == <<armed, due>>
clientVars == <<sockets, awaiting>>
vars == <<unused, pending, timerVars, clientVars, raiser, clearer>>

Idle == [at |-> "idle", launch |-> None]

Init ==
  /\ unused = Launches
  /\ pending = None /\ armed = None /\ due = {}
  /\ sockets = {} /\ awaiting = {}
  /\ raiser = Idle /\ clearer = Idle

-----------------------------------------------------------------------------
(* session_raise.                                                          *)

CheckNothing(l) ==   \* mutant: raises without looking
  /\ raiser.at = "idle" /\ l \in unused
  /\ unused' = unused \ {l}
  /\ raiser' = [at |-> "raise", launch |-> l]
  /\ UNCHANGED <<pending, timerVars, clientVars, clearer>>

(* view(0s): a launch session that is pending is not overwritten, the new  *)
(* one is dropped.                                                         *)
CheckPending(l) ==
  /\ raiser.at = "idle" /\ l \in unused
  /\ unused' = unused \ {l}
  /\ raiser' = IF pending = None THEN [at |-> "raise", launch |-> l] ELSE Idle
  /\ UNCHANGED <<pending, timerVars, clientVars, clearer>>

RaiseLaunch ==
  /\ raiser.at = "raise"
  /\ pending' = raiser.launch
  /\ raiser' = [at |-> "arm", launch |-> raiser.launch]
  /\ UNCHANGED <<unused, timerVars, clientVars, clearer>>

(* expires_after aborts a wait that is not over, but not a handler that is *)
(* due already.                                                            *)
ArmTimer ==
  /\ raiser.at = "arm"
  /\ armed' = raiser.launch
  /\ raiser' = Idle
  /\ UNCHANGED <<unused, pending, due, clientVars, clearer>>

-----------------------------------------------------------------------------
(* The RTSP thread. ping_timeout passes; the completion handler is queued, *)
(* and runs when io_context gets to it.                                    *)
TimerExpires ==
  /\ armed # None
  /\ due' = due \cup {armed}
  /\ armed' = None
  /\ UNCHANGED <<unused, pending, clientVars, raiser, clearer>>

(* pop(0s): whatever is pending now.                                       *)
RunTimerHandler(l) ==
  /\ l \in due
  /\ due' = due \ {l}
  /\ pending' = None
  /\ UNCHANGED <<unused, armed, clientVars, raiser, clearer>>

(* handle_accept: the connection is closed unless a launch is pending.     *)
Accept ==
  /\ pending # None
  /\ sockets' = sockets \cup {pending}
  /\ UNCHANGED <<unused, pending, timerVars, awaiting, raiser, clearer>>

(* ANNOUNCE arrives on a connection: a streaming session begins; or it     *)
(* carries some other request or fails. It is shut down after either.      *)
Announce(l) ==
  /\ l \in sockets
  /\ sockets' = sockets \ {l}
  /\ awaiting' \in {awaiting, awaiting \cup {l}}
  /\ UNCHANGED <<unused, pending, timerVars, raiser, clearer>>

-----------------------------------------------------------------------------
(* session_clear, called by get_session on the control thread with the     *)
(* lock of _sessions held.                                                 *)

(* The client of a streaming session connects its control stream; view(0s) *)
(* and the comparison of the ids.                                          *)
Connect(l) ==
  /\ clearer.at = "idle" /\ l \in awaiting
  /\ awaiting' = awaiting \ {l}
  /\ clearer' = IF pending = l THEN [at |-> "cancel", launch |-> l] ELSE Idle
  /\ UNCHANGED <<unused, pending, timerVars, sockets, raiser>>

CancelTimer ==
  /\ clearer.at = "cancel"
  /\ armed' = None
  /\ clearer' = [at |-> "pop", launch |-> clearer.launch]
  /\ UNCHANGED <<unused, pending, due, clientVars, raiser>>

ViewLaunch ==   \* mutant: views the event instead of popping it
  /\ clearer.at = "pop" /\ pending # None
  /\ clearer' = Idle
  /\ UNCHANGED <<unused, pending, timerVars, clientVars, raiser>>

(* pop() without a timeout: waits until something is pending.              *)
PopLaunch ==
  /\ clearer.at = "pop" /\ pending # None
  /\ pending' = None
  /\ clearer' = Idle
  /\ UNCHANGED <<unused, timerVars, clientVars, raiser>>

-----------------------------------------------------------------------------
Next ==
  \/ \E l \in Launches :
       CheckPending(l) \/ RunTimerHandler(l) \/ Announce(l) \/ Connect(l)
  \/ RaiseLaunch \/ ArmTimer \/ TimerExpires
  \/ Accept \/ CancelTimer \/ PopLaunch

Spec == Init /\ [][Next]_vars

(* The threads go on and the clock runs; clients and requests owe nothing. *)
Fairness ==
  /\ WF_vars(RaiseLaunch \/ ArmTimer)
  /\ WF_vars(TimerExpires)
  /\ \A l \in Launches : WF_vars(RunTimerHandler(l))
  /\ WF_vars(CancelTimer \/ PopLaunch)

-----------------------------------------------------------------------------
CallsFrom(places) == [at : places, launch : Launches \ unused] \cup {Idle}

(* Every launch session in use was made by a request, under an id of its   *)
(* own.                                                                    *)
TypeOK ==
  /\ unused \subseteq Launches
  /\ {pending, armed} \subseteq (Launches \ unused) \cup {None}
  /\ due \cup sockets \cup awaiting \subseteq Launches \ unused
  /\ raiser \in CallsFrom({"raise", "arm"})
  /\ clearer \in CallsFrom({"cancel", "pop"})

(* A launch session that is pending will not stay for ever: a timer waits  *)
(* or is due, or the thread that is to arm it or has just cancelled it is  *)
(* on its way.                                                             *)
PendingIsTimed ==
  pending # None =>
    armed # None \/ due # {} \/ raiser.at = "arm" \/ clearer.at = "pop"

(* "If a launch event is still pending, don't overwrite it": the test and  *)
(* the raise are two steps, and still no launch replaces another.          *)
NeverReplaced == [][pending # None => pending' \in {pending, None}]_vars

(* Whatever the client does, a pending launch is at some time taken away,  *)
(* so that the host can be asked for the next one.                         *)
LaunchesLapse == \A l \in Launches : pending = l ~> pending # l

(* A launch is taken away by its client, its timer or session_clear, never *)
(* by another launch, and it is taken away.                                *)
LaunchesAreTaken == NeverReplaced /\ LaunchesLapse

(* What makes NeverReplaced hold: only one thread raises, and between its  *)
(* test and its raise nothing becomes pending.                             *)
RaisesIntoNothing == raiser.at = "raise" => pending = None

IInv == TypeOK /\ PendingIsTimed /\ RaisesIntoNothing
=============================================================================
