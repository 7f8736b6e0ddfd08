---------------------------- MODULE CaptureSync -----------------------------
(***************************************************************************)
(* The thread that captures and encodes for all sessions when the encoder  *)
(* cannot encode in parallel (src/video.cpp: encode_run_sync,              *)
(* captureThreadSync and the second half of capture), and the video        *)
(* threads that wait for it.                                               *)
(***************************************************************************)
EXTENDS FiniteSets

CONSTANTS Sessions, Thread  \* the capture thread, as a holder of the ref

VARIABLES
  at,          \* where each session's video thread is
  ending,      \* shutdown_event of each session
  joined,      \* join_event of each session
  accepted,    \* sessions whose context has got into the queue
  ref,         \* who holds capture_thread_sync
  waiting, is_running,  \* encode_session_ctx_queue: contexts; running()
  synced,      \* synced_session_ctxs
  sync_thread  \* where the thread is

threadVars == <<synced, sync_thread>>
ctxVars == <<waiting, is_running>>
syncVars == <<at, ending, joined, accepted, ref, ctxVars, threadVars>>

-----------------------------------------------------------------------------
(* capture.                                                                *)

\* The first reference starts the thread, which is detached, and the queue.
Ref(c) ==
  /\ at[c] = "new"
  /\ at' = [at EXCEPT ![c] = "raise"]
  /\ ref' = ref \cup {c}
  /\ IF ref = {}
       THEN /\ sync_thread' = "starting"
            /\ waiting' = {} /\ is_running' = TRUE /\ synced' = {}
       ELSE UNCHANGED <<sync_thread, ctxVars, synced>>
  /\ UNCHANGED <<ending, joined, accepted>>

\* A queue that has been stopped takes nothing.
Raise(c) ==
  /\ at[c] = "raise"
  /\ at' = [at EXCEPT ![c] = "view"]
  /\ IF is_running
       THEN waiting' = waiting \cup {c} /\ accepted' = accepted \cup {c}
       ELSE UNCHANGED <<waiting, accepted>>
  /\ UNCHANGED <<ending, joined, ref, is_running, threadVars>>

\* Wait for join signal.
Return(c) ==
  /\ at[c] = "view" /\ joined[c]
  /\ at' = [at EXCEPT ![c] = "done"]
  /\ ref' = ref \ {c}
  /\ UNCHANGED <<ending, joined, accepted, ctxVars, threadVars>>

\* The session is stopped.
Stop(c) ==
  /\ at[c] # "done" /\ ~ending[c]
  /\ ending' = [ending EXCEPT ![c] = TRUE]
  /\ UNCHANGED <<at, joined, accepted, ref, ctxVars, threadVars>>

-----------------------------------------------------------------------------
(* captureThreadSync and encode_run_sync.                                  *)

ThreadRef ==
  /\ sync_thread = "starting"
  /\ sync_thread' = "empty"
  /\ ref' = ref \cup {Thread}
  /\ UNCHANGED <<at, ending, joined, accepted, ctxVars, synced>>

\* The first context is waited for.
PopFirst ==
  /\ sync_thread = "empty"
  /\ IF synced # {} THEN UNCHANGED <<waiting, synced>>
     ELSE \E c \in waiting : synced' = {c} /\ waiting' = waiting \ {c}
  /\ sync_thread' = "display"
  /\ UNCHANGED <<at, ending, joined, accepted, ref, is_running>>

\* reset_display is tried again until there is a display; it is the only
\* thing that ends the loop.
ResetDisplay ==
  /\ sync_thread = "display"
  /\ sync_thread' = "capture"
  /\ UNCHANGED <<at, ending, joined, accepted, ref, ctxVars, synced>>

\* An image or an encoder that cannot be made ends the thread, and with it
\* every session.
Fail ==
  /\ sync_thread = "capture"
  /\ sync_thread' = "guard"
  /\ UNCHANGED <<at, ending, joined, accepted, ref, ctxVars, synced>>

\* push_captured_image_callback: contexts that have come are taken, sessions
\* that end are let go; the capture ends with the last of them.
PushImage ==
  LET all == synced \cup waiting
      left == {c \in all : ~ending[c]}
  IN /\ waiting' = {}
     /\ joined' = [c \in Sessions |-> joined[c] \/ c \in all \ left]
     /\ synced' = left
     /\ sync_thread' = IF left = {} THEN "guard" ELSE sync_thread

Capture ==
  /\ sync_thread = "capture"
  /\ PushImage
  /\ UNCHANGED <<at, ending, accepted, ref, is_running>>

\* The image of a session cannot be converted or encoded.
EncodeFails(c) ==
  /\ sync_thread = "capture" /\ c \in synced
  /\ ending' = [ending EXCEPT ![c] = TRUE]
  /\ UNCHANGED <<at, joined, accepted, ref, ctxVars, threadVars>>

\* The display changes: encode_run_sync begins again with the sessions.
Reinit ==
  /\ sync_thread = "capture"
  /\ sync_thread' = "empty"
  /\ UNCHANGED <<at, ending, joined, accepted, ref, ctxVars, synced>>

\* The guard at the end: ctx.stop(), then every context is let go.
StopQueue ==
  /\ sync_thread = "guard"
  /\ is_running' = FALSE
  /\ sync_thread' = "joining"
  /\ UNCHANGED <<at, ending, joined, accepted, ref, waiting, synced>>

JoinSynced ==   \* mutant: contexts that still wait in the queue are left
  synced

ToJoin ==
  synced \cup waiting

JoinAll ==
  /\ sync_thread = "joining"
  /\ joined' = [c \in Sessions |-> joined[c] \/ c \in ToJoin]
  /\ ending' = [c \in Sessions |-> ending[c] \/ c \in ToJoin]
  /\ synced' = {}
  /\ sync_thread' = "none"
  /\ ref' = ref \ {Thread}
  /\ UNCHANGED <<at, accepted, ctxVars>>

-----------------------------------------------------------------------------
Init ==
  /\ at = [c \in Sessions |-> "new"]
  /\ ending = [c \in Sessions |-> FALSE]
  /\ joined = [c \in Sessions |-> FALSE]
  /\ accepted = {} /\ ref = {}
  /\ waiting = {} /\ is_running = FALSE
  /\ synced = {} /\ sync_thread = "none"

ThreadStep ==
  ThreadRef \/ PopFirst \/ ResetDisplay \/ Capture \/ StopQueue \/ JoinAll

Next ==
  \/ \E c \in Sessions :
       Ref(c) \/ Raise(c) \/ Return(c) \/ Stop(c) \/ EncodeFails(c)
  \/ ThreadStep \/ Fail \/ Reinit

(* Threads run, images keep coming (a capture calls back at least every    *)
(* so often, with or without a new frame), and a display comes in the end. *)
Fairness ==
  /\ WF_syncVars(ThreadRef \/ PopFirst \/ StopQueue \/ JoinAll)
  /\ SF_syncVars(ResetDisplay) /\ SF_syncVars(Capture)
  /\ \A c \in Sessions : WF_syncVars(Raise(c) \/ Return(c))

-----------------------------------------------------------------------------
(* A session that ends, or whose capture fails, returns from capture if    *)
(* its context has got into the queue: the thread takes it, or its guard   *)
(* finds it there (video.cpp:2709, 2807). A context that comes after       *)
(* ctx.stop() while another session still holds the reference is dropped,  *)
(* and join_event is then waited for without end: that is the limit of     *)
(* this property.                                                          *)
AcceptedReturn ==
  \A c \in Sessions : c \in accepted /\ ending[c] ~> at[c] = "done"
=============================================================================
