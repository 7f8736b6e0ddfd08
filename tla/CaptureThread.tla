--------------------------- MODULE CaptureThread ---------------------------
(***************************************************************************)
(* The capture thread that sessions share when the encoder can encode for  *)
(* several at a time (src/video.cpp: captureThread, capture_async and      *)
(* encode_run, start_capture_async and end_capture_async), and what it     *)
(* takes to replace the display while they stream.                         *)
(*                                                                         *)
(* A display is a generation; it lives while somebody holds it, which an   *)
(* image of it does as well.                                               *)
(***************************************************************************)
EXTENDS Integers, FiniteSets

CONSTANTS Sessions, None,
          MaxDisplays  \* bound: displays that are ever created

ASSUME NoneAssumption == None \notin Sessions
ASSUME DisplaysAssumption == MaxDisplays \in Nat \ {0}

VARIABLES
  pc,         \* where each session's video thread is
  shutdown,   \* shutdown_event of each session
  refs, ref_lock,  \* who holds capture_thread_async; who is ending it
  queued, running, \* capture_ctx_queue
  ctxs,       \* capture_ctxs
  listening,  \* sessions whose images event has not been stopped
  image,      \* the display of the image in each images event, or 0
  holds,      \* the display each session has locked, or 0
  encoded,    \* sessions with frame_nr > 1
  thread,     \* where the capture thread is
  display,    \* what disp of the capture thread holds, or 0
  display_wp, reinit_event,
  displays    \* how many there have been

sessionVars == <<pc, shutdown, holds, encoded>>
refVars == <<refs, ref_lock>>
queueVars == <<queued, running, ctxs>>
imageVars == <<listening, image>>
displayVars == <<display, display_wp, reinit_event, displays>>
vars == <<sessionVars, refVars, queueVars, imageVars, thread, displayVars>>

Init ==
  /\ pc = [c \in Sessions |-> "new"]
  /\ shutdown = [c \in Sessions |-> FALSE]
  /\ refs = {} /\ ref_lock = None
  /\ queued = {} /\ running = FALSE /\ ctxs = {}
  /\ listening = Sessions
  /\ image = [c \in Sessions |-> 0] /\ holds = [c \in Sessions |-> 0]
  /\ encoded = {}
  /\ thread = "none"
  /\ display = 0 /\ display_wp = 0 /\ reinit_event = FALSE /\ displays = 0

\* Others than the capture thread that keep the display d.
Holders(d) == {c \in Sessions : holds[c] = d \/ image[c] = d}
Alive(d) == d # 0 /\ (display = d \/ Holders(d) # {})

-----------------------------------------------------------------------------
(* capture_async.                                                          *)

(* The first reference starts the thread, with an object that is new.      *)
Ref(c) ==
  /\ pc[c] = "new" /\ ref_lock = None
  /\ pc' = [pc EXCEPT ![c] = "raise"]
  /\ refs' = refs \cup {c}
  /\ IF refs = {}
       THEN /\ thread' = "initial" /\ running' = TRUE
            /\ queued' = {} /\ ctxs' = {}
            /\ display_wp' = 0 /\ reinit_event' = FALSE
       ELSE UNCHANGED <<thread, queueVars, display_wp, reinit_event>>
  /\ UNCHANGED <<shutdown, holds, encoded, ref_lock, imageVars, display,
                 displays>>

RaiseContext(c) ==
  /\ pc[c] = "raise"
  /\ queued' = IF running THEN queued \cup {c} ELSE queued
  /\ pc' = [pc EXCEPT ![c] = IF running THEN "loop" ELSE "leave"]
  /\ UNCHANGED <<shutdown, holds, encoded, refVars, running, ctxs, imageVars,
                 thread, displayVars>>

\* The condition of the loop, and the wait while there is a reinit_event.
Look(c) ==
  /\ pc[c] = "loop"
  /\ \/ /\ shutdown[c] \/ c \notin listening
        /\ pc' = [pc EXCEPT ![c] = "leave"]
     \/ /\ ~shutdown[c] /\ c \in listening /\ ~reinit_event
        /\ pc' = [pc EXCEPT ![c] = "lock"]
  /\ UNCHANGED <<shutdown, holds, encoded, refVars, queueVars, imageVars,
                 thread, displayVars>>

LockDisplay(c) ==
  /\ pc[c] = "lock"
  /\ IF Alive(display_wp)
       THEN /\ holds' = [holds EXCEPT ![c] = display_wp]
            /\ pc' = [pc EXCEPT ![c] = "encode"]
       ELSE /\ pc' = [pc EXCEPT ![c] = "loop"]
            /\ UNCHANGED holds
  /\ UNCHANGED <<shutdown, encoded, refVars, queueVars, imageVars, thread,
                 displayVars>>

\* No device, no session or no first image for the encoder.
EncoderFails(c) ==
  /\ pc[c] = "encode"
  /\ pc' \in {[pc EXCEPT ![c] = "leave"], [pc EXCEPT ![c] = "loop"]}
  /\ holds' = [holds EXCEPT ![c] = 0]
  /\ UNCHANGED <<shutdown, encoded, refVars, queueVars, imageVars, thread,
                 displayVars>>

EncodeOn(c) ==   \* mutant: does not look at reinit_event
  /\ pc[c] = "encode"
  /\ IF shutdown[c] \/ c \notin listening
       THEN /\ holds' = [holds EXCEPT ![c] = 0]
            /\ pc' = [pc EXCEPT ![c] = "loop"]
            /\ UNCHANGED <<image, encoded>>
       ELSE /\ image' = [image EXCEPT ![c] = 0]
            /\ encoded' = encoded \cup {c}
            /\ UNCHANGED <<pc, holds>>
  /\ UNCHANGED <<shutdown, refVars, queueVars, listening, thread,
                 displayVars>>

(* One turn of encode_run: it ends, or a frame is encoded, of the image    *)
(* that is there or, when none comes in time, of the one before.           *)
Encode(c) ==
  /\ pc[c] = "encode"
  /\ IF shutdown[c] \/ c \notin listening \/ (reinit_event /\ c \in encoded)
       THEN /\ holds' = [holds EXCEPT ![c] = 0]
            /\ pc' = [pc EXCEPT ![c] = "loop"]
            /\ UNCHANGED <<image, encoded>>
       ELSE /\ image' = [image EXCEPT ![c] = 0]
            /\ encoded' = encoded \cup {c}
            /\ UNCHANGED <<pc, holds>>
  /\ UNCHANGED <<shutdown, refVars, queueVars, listening, thread,
                 displayVars>>

(* ref goes first, then the guard of images. The last one to go stops the  *)
(* queue, and joins the thread with the lock of the counter held.          *)
Leave(c) ==
  /\ pc[c] = "leave" /\ ref_lock = None
  /\ refs' = refs \ {c}
  /\ IF refs = {c}
       THEN /\ ref_lock' = c /\ running' = FALSE
            /\ pc' = [pc EXCEPT ![c] = "join"]
            /\ UNCHANGED <<shutdown, imageVars>>
       ELSE /\ pc' = [pc EXCEPT ![c] = "gone"]
            /\ listening' = listening \ {c}
            /\ image' = [image EXCEPT ![c] = 0]
            /\ shutdown' = [shutdown EXCEPT ![c] = TRUE]
            /\ UNCHANGED <<ref_lock, running>>
  /\ UNCHANGED <<holds, encoded, queued, ctxs, thread, displayVars>>

JoinThread(c) ==
  /\ pc[c] = "join" /\ thread = "none"
  /\ ref_lock' = None
  /\ pc' = [pc EXCEPT ![c] = "gone"]
  /\ listening' = listening \ {c}
  /\ image' = [image EXCEPT ![c] = 0]
  /\ shutdown' = [shutdown EXCEPT ![c] = TRUE]
  /\ UNCHANGED <<holds, encoded, refs, queueVars, thread, displayVars>>

\* The client leaves, times out, or is told to.
Shutdown(c) ==
  /\ pc[c] \in {"raise", "loop", "lock", "encode"} /\ ~shutdown[c]
  /\ shutdown' = [shutdown EXCEPT ![c] = TRUE]
  /\ UNCHANGED <<pc, holds, encoded, refVars, queueVars, imageVars, thread,
                 displayVars>>

-----------------------------------------------------------------------------
(* captureThread.                                                          *)

(* pop waits for a context, or for the queue to be stopped.                *)
PopInitial ==
  /\ thread = "initial"
  /\ \/ /\ ~running
        /\ thread' = "ending" /\ UNCHANGED <<queued, ctxs>>
     \/ \E c \in queued :
          /\ running
          /\ ctxs' = {c} /\ queued' = queued \ {c}
          /\ thread' = "first"
  /\ UNCHANGED <<sessionVars, refVars, running, imageVars, displayVars>>

FirstDisplay ==
  /\ thread = "first"
  /\ \/ /\ displays < MaxDisplays
        /\ displays' = displays + 1
        /\ display' = displays' /\ display_wp' = displays'
        /\ thread' = "capture"
     \/ thread' = "ending" /\ UNCHANGED <<display, display_wp, displays>>
  /\ UNCHANGED <<sessionVars, refVars, queueVars, imageVars, reinit_event>>

(* push_captured_image_callback, with a frame or after a timeout without   *)
(* one: contexts that are over are dropped before new ones are taken in.   *)
PushImage(captured) ==
  /\ thread = "capture"
  /\ image' = [c \in Sessions |->
       IF captured /\ c \in ctxs \cap listening THEN display ELSE image[c]]
  /\ IF running
       THEN /\ ctxs' = (ctxs \cap listening) \cup queued
            /\ queued' = {}
            /\ UNCHANGED thread
       ELSE /\ thread' = "ending" /\ ctxs' = ctxs \cap listening
            /\ UNCHANGED queued
  /\ UNCHANGED <<sessionVars, refVars, running, listening, displayVars>>

\* The display has changed, or another is asked for (switch_display).
Reinit ==
  /\ thread = "capture"
  /\ reinit_event' = TRUE /\ thread' = "waiting"
  /\ UNCHANGED <<sessionVars, refVars, queueVars, imageVars, display,
                 display_wp, displays>>

CaptureFails ==
  /\ thread = "capture" /\ thread' = "ending"
  /\ UNCHANGED <<sessionVars, refVars, queueVars, imageVars, displayVars>>

WaitWithoutDraining ==   \* mutant: images keep the display
  /\ thread = "waiting"
  /\ IF Holders(display_wp) = {}
       THEN thread' = "replace" /\ UNCHANGED ctxs
       ELSE ctxs' = ctxs \cap listening /\ UNCHANGED thread
  /\ UNCHANGED <<sessionVars, refVars, queued, running, imageVars,
                 displayVars>>

(* use_count is looked at with no lock held. Meanwhile images that were    *)
(* not taken are freed.                                                    *)
WaitForHolders ==
  /\ thread = "waiting"
  /\ IF Holders(display_wp) = {}
       THEN thread' = "replace" /\ UNCHANGED <<ctxs, image>>
       ELSE /\ ctxs' = ctxs \cap listening
            /\ image' = [c \in Sessions |-> IF c \in ctxs' THEN 0
                                                           ELSE image[c]]
            /\ UNCHANGED thread
  /\ UNCHANGED <<sessionVars, refVars, queued, running, listening,
                 displayVars>>

\* disp.reset(), unless the queue has been stopped.
ReleaseDisplay ==
  /\ thread = "replace"
  /\ IF running
       THEN display' = 0 /\ thread' = "create" /\ UNCHANGED reinit_event
       ELSE thread' = "ending" /\ reinit_event' = FALSE /\ UNCHANGED display
  /\ UNCHANGED <<sessionVars, refVars, queueVars, imageVars, display_wp,
                 displays>>

CreateDisplay ==
  /\ thread = "create"
  /\ displays < MaxDisplays /\ displays' = displays + 1
  /\ display' = displays' /\ display_wp' = displays'
  /\ reinit_event' = FALSE
  /\ thread' = "capture"
  /\ UNCHANGED <<sessionVars, refVars, queueVars, imageVars>>

\* None can be had, and the queue has been stopped by then.
NoDisplay ==
  /\ thread = "create" /\ ~running
  /\ thread' = "ending"
  /\ UNCHANGED <<sessionVars, refVars, queueVars, imageVars, displayVars>>

(* disp goes, then the guard stops the queue and every session's images.   *)
EndCapture ==
  /\ thread = "ending"
  /\ running' = FALSE /\ thread' = "none"
  /\ display' = 0
  /\ listening' = listening \ (ctxs \cup queued)
  /\ UNCHANGED <<sessionVars, refVars, queued, ctxs, image, display_wp,
                 reinit_event, displays>>

-----------------------------------------------------------------------------
VideoThread(c) ==
  \/ Ref(c) \/ RaiseContext(c) \/ Look(c) \/ LockDisplay(c) \/ Encode(c)
  \/ Leave(c) \/ JoinThread(c)
Capture ==
  \/ PopInitial \/ FirstDisplay
  \/ \E captured \in BOOLEAN : PushImage(captured)
  \/ WaitForHolders \/ ReleaseDisplay \/ CreateDisplay \/ NoDisplay
  \/ EndCapture

CaptureNext ==
  \/ \E c \in Sessions : VideoThread(c) \/ EncoderFails(c) \/ Shutdown(c)
  \/ Capture \/ Reinit \/ CaptureFails

(* Threads go on; the lock of the counter is given to all in turn. That    *)
(* the display changes, or a client leaves, is owed by nobody.             *)
Fairness ==
  /\ \A c \in Sessions : SF_vars(VideoThread(c))
  /\ WF_vars(Capture)

CaptureSpec == Init /\ [][CaptureNext]_vars /\ Fairness

-----------------------------------------------------------------------------
(* The types of the variables.                                             *)
TypeOK ==
  /\ pc \in [Sessions -> {"new", "raise", "loop", "lock", "encode", "leave",
                          "join", "gone"}]
  /\ shutdown \in [Sessions -> BOOLEAN]
  /\ refs \subseteq Sessions
  /\ ref_lock \in Sessions \cup {None}
  /\ queued \subseteq Sessions
  /\ running \in BOOLEAN
  /\ ctxs \subseteq Sessions
  /\ listening \subseteq Sessions
  /\ image \in [Sessions -> Nat]
  /\ holds \in [Sessions -> Nat]
  /\ encoded \subseteq Sessions
  /\ thread \in {"none", "initial", "first", "capture", "waiting", "replace",
                 "create", "ending"}
  /\ display \in Nat
  /\ display_wp \in Nat
  /\ reinit_event \in BOOLEAN
  /\ displays \in Nat

Waits(c) == pc[c] \in {"loop", "lock", "encode"}

(* A session that waits for images is known to the capture thread, which   *)
(* will send it some or stop it: also when it has come while the thread    *)
(* was ending or waiting for another display (video.cpp:1488-1498).        *)
WaitingIsKnown ==
  \A c \in Sessions :
    Waits(c) /\ c \in listening => thread # "none" /\ c \in ctxs \cup queued

(* The thread is there as long as somebody refers to it, and is joined     *)
(* before the next one is started (shared_t).                              *)
OneThread ==
  /\ \A c \in Sessions : Waits(c) => c \in refs
  /\ ref_lock # None => refs = {} /\ ~running
  /\ refs = {} /\ ref_lock = None => thread = "none"

IInv == TypeOK /\ WaitingIsKnown /\ OneThread

(* The wait for a display to be let go ends (video.cpp:1678), though its   *)
(* holders wait for reinit_event to fall; or no session is left.           *)
ReinitEnds ==
  (thread = "waiting") ~> (thread \notin {"waiting", "replace", "create"}
                             \/ displays = MaxDisplays)

(* A session that is told to shut down lets go of the thread and returns,  *)
(* whatever the thread is waiting for (stream.cpp joins videoThread).      *)
SessionsReturn ==
  \A c \in Sessions : shutdown[c] ~> pc[c] = "gone"
=============================================================================
