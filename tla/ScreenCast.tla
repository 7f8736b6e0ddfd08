----------------------------- MODULE ScreenCast -----------------------------
(***************************************************************************)
(* Capture on Wayland: a PipeWire stream that the compositor fills, and    *)
(* the capture thread that takes frames from it                            *)
(* (src/platform/linux/pipewire.cpp), for a display of the desktop portal  *)
(* (portalgrab.cpp).  The callbacks of the stream run on PipeWire's loop,  *)
(* whose lock fill_img takes as well: each is one step.  The handshake     *)
(* with the portal succeeds or fails.                                      *)
(*                                                                         *)
(* A frame is its number.  A buffer that comes is "good", or it carries no *)
(* picture: "empty", or "corrupt" by its flags.                            *)
(***************************************************************************)
EXTENDS Naturals, Sequences

CONSTANTS
  Buffers, None,
  MaxStreams, MaxDraws, MaxChanges \* bounds

VARIABLES
  pc,        \* capture thread: "off", "top", "wait", "woken", "fill", "push"
             \* or "leave"
  img,       \* what fill_img has put into the image
  delivered, \* history: the last frame handed on
  over,      \* the next frame that comes is due: no next_frame_due, or past
  stream,    \* pw_stream_state; "none" without a stream
  negotiate, \* portal_t::negotiate_maxframerate
  dead,      \* shared_state_t::stream_dead
  previous,  \* shared_state_t::previous_state
  closed,    \* the portal has closed the session
  kind,      \* the buffers of the format: None, "dma" or "mem"
  buffers,   \* where each is, "free", "filled" or "held", and what it shows
  queue,     \* those that are filled, in their order
  current, dmabuf,   \* current_buffer, current_frame_dmabuf
  front, back,       \* what front_buffer and back_buffer show
  ready,     \* frame_ready
  published, \* frame_metadata: the frame published last, and its quality
  early,     \* whether that one came before it was due
  streams, drawn, changes, \* counts, for the bounds
  streamed,  \* history: this stream has had frames
  excused,   \* history: what the screen shows has not been handed on, for a
             \* reason that LastFrameIsShown names
  forgotten, \* history: buffers that were dropped without being given back
  abrupt,    \* history: a stream has ended in a way that does not tell
             \* whether it had had frames
  unjust     \* history: negotiation was given up after a stream that had

captureVars == <<pc, img, delivered>>
stateVars == <<negotiate, dead, previous, closed>>
frameVars == <<current, dmabuf, front, back, ready, published, early>>
countVars == <<streams, drawn, changes>>
historyVars == <<streamed, excused, forgotten, abrupt, unjust>>
vars == <<captureVars, over, stream, stateVars, kind, buffers, queue,
          frameVars, countVars, historyVars>>

Nothing == [shows |-> 0, quality |-> "empty"]
Unused == [b \in Buffers |-> [at |-> "free", has |-> Nothing]]

Init ==
  /\ pc = "off" /\ img = 0 /\ delivered = 0 /\ over = TRUE
  /\ stream = "none" /\ negotiate = TRUE /\ dead = FALSE
  /\ previous = "unconnected" /\ closed = FALSE
  /\ kind = None /\ buffers = Unused /\ queue = <<>>
  /\ current = None /\ dmabuf = FALSE /\ front = 0 /\ back = 0
  /\ ready = FALSE /\ published = Nothing /\ early = FALSE
  /\ streams = 0 /\ drawn = 0 /\ changes = 0
  /\ streamed = FALSE /\ excused = FALSE /\ forgotten = {}
  /\ abrupt = FALSE /\ unjust = FALSE

-----------------------------------------------------------------------------
(* pipewire_display_t::init, pipewire_t::init, ensure_stream.  A display   *)
(* has a state of its own, except for negotiate_maxframerate.              *)
Open ==
  /\ pc = "off" /\ streams < MaxStreams /\ streams' = streams + 1
  /\ pc' = "top" /\ img' = 0 /\ delivered' = 0 /\ over' = TRUE
  /\ stream' = "connecting" /\ dead' = FALSE
  /\ previous' = "unconnected" /\ closed' = FALSE
  /\ kind' = None /\ buffers' = Unused /\ queue' = <<>>
  /\ current' = None /\ dmabuf' = FALSE /\ front' = 0 /\ back' = 0
  /\ ready' = FALSE /\ published' = Nothing /\ early' = FALSE
  /\ streamed' = FALSE /\ excused' = TRUE /\ forgotten' = {}
  /\ UNCHANGED <<negotiate, drawn, changes, abrupt, unjust>>

(* ~pipewire_t: cleanup_stream.                                            *)
Cleanup ==
  /\ pc = "leave" /\ pc' = "off"
  /\ ready' = FALSE /\ current' = None /\ stream' = "none"
  /\ kind' = None /\ buffers' = Unused /\ queue' = <<>>
  /\ UNCHANGED <<img, delivered, over, stateVars, dmabuf, front, back,
                 published, early, countVars, historyVars>>

HasStreamedNow == stream = "streaming"   \* mutant: asks the state it is in

\* The stream has had frames, as far as was noted when it ended.
HasStreamed == previous = "streaming"

(* capture, at the top: a dead stream ends it, in an error when the portal *)
(* has closed the session, or else for another one (check_stream_dead).    *)
NoticeDead ==
  /\ pc = "top" /\ dead
  /\ dead' = FALSE /\ pc' = "leave"
  /\ IF ~closed /\ ~HasStreamed /\ negotiate
     THEN negotiate' = FALSE /\ unjust' = (unjust \/ streamed)
     ELSE UNCHANGED <<negotiate, unjust>>
  /\ UNCHANGED <<img, delivered, over, stream, previous, closed, kind,
                 buffers, queue, frameVars, countVars, streamed, excused,
                 forgotten, abrupt>>

Snapshot ==
  /\ pc = "top" /\ ~dead /\ pc' = "wait"
  /\ UNCHANGED <<img, delivered, over, stream, stateVars, kind, buffers,
                 queue, frameVars, countVars, historyVars>>

(* wait_for_frame.                                                         *)
Wake ==
  /\ pc = "wait" /\ (ready \/ dead)
  /\ ready' = FALSE /\ pc' = "woken"
  /\ UNCHANGED <<img, delivered, over, stream, stateVars, kind, buffers,
                 queue, current, dmabuf, front, back, published, early,
                 countVars, historyVars>>

(* The deadline of snapshot: an image without a new frame is handed on.    *)
Timeout ==
  /\ pc = "wait" /\ pc' = "top"
  /\ UNCHANGED <<img, delivered, over, stream, stateVars, kind, buffers,
                 queue, frameVars, countVars, historyVars>>

(* frame_is_due, which looks at the frame published last.                  *)
CheckDue ==
  /\ pc = "woken"
  /\ IF early THEN pc' = "wait" /\ excused' = TRUE
     ELSE pc' = "fill" /\ UNCHANGED excused
  /\ UNCHANGED <<img, delivered, over, stream, stateVars, kind, buffers,
                 queue, frameVars, countVars, streamed, forgotten, abrupt,
                 unjust>>

\* What fill_img finds: 0 for no picture.
Picture ==
  IF dead THEN 0
  ELSE IF ~dmabuf THEN front
  ELSE IF current = None \/ published.quality = "empty" THEN 0
  ELSE published.shows

(* fill_img, and the check that there is a picture that is not flagged     *)
(* (is_buffer_redundant); next_frame_due moves on beyond this frame.       *)
Fill ==
  /\ pc = "fill"
  /\ IF Picture = 0 \/ published.quality = "corrupt"
     THEN pc' = "wait" /\ UNCHANGED <<img, early, over>>
     ELSE /\ pc' = "push" /\ img' = Picture
          /\ over' \in BOOLEAN /\ early' = TRUE
  /\ UNCHANGED <<delivered, stream, stateVars, kind, buffers, queue, current,
                 dmabuf, front, back, ready, published, countVars,
                 historyVars>>

Push ==
  /\ pc = "push" /\ pc' = "top" /\ delivered' = img
  /\ UNCHANGED <<img, over, stream, stateVars, kind, buffers, queue,
                 frameVars, countVars, historyVars>>

(* pull_free_image_cb or push_captured_image_cb: nobody wants frames.      *)
Interrupted ==
  /\ pc \in {"wait", "fill", "push"} /\ pc' = "leave"
  /\ UNCHANGED <<img, delivered, over, stream, stateVars, kind, buffers,
                 queue, frameVars, countVars, historyVars>>

-----------------------------------------------------------------------------
\* The interval of the client's frame rate has passed.
Pass ==
  /\ pc # "off" /\ ~over /\ over' = TRUE
  /\ UNCHANGED <<captureVars, stream, stateVars, kind, buffers, queue,
                 frameVars, countVars, historyVars>>

(* The compositor draws: into a buffer that is free, if there is one.      *)
Draw(b, quality) ==
  /\ stream = "streaming" /\ drawn < MaxDraws /\ buffers[b].at = "free"
  /\ drawn' = drawn + 1
  /\ buffers' = [buffers EXCEPT ![b] =
                   [at |-> "filled",
                    has |-> [shows |-> drawn + 1, quality |-> quality]]]
  /\ queue' = Append(queue, b)
  /\ UNCHANGED <<captureVars, over, stream, stateVars, kind, frameVars,
                 streams, changes, historyVars>>

GivenBackButCurrent(kept) ==   \* mutant: the one before is dropped
  [b \in Buffers |->
     IF b = kept THEN [buffers[b] EXCEPT !.at = "held"]
     ELSE IF buffers[b].at = "filled" THEN [buffers[b] EXCEPT !.at = "free"]
     ELSE buffers[b]]

\* pw_stream_queue_buffer of all that are given back, once `kept' is taken.
GivenBack(kept) ==
  [b \in Buffers |->
     IF b = kept THEN [buffers[b] EXCEPT !.at = "held"]
     ELSE IF b = current \/ buffers[b].at = "filled"
       THEN [buffers[b] EXCEPT !.at = "free"]
     ELSE buffers[b]]

Oldest == Head(queue)   \* mutant: the buffer that has waited longest

\* on_process, which drains the queue.
Newest == queue[Len(queue)]

(* on_process: the newest buffer; of memory, what is in it is copied.  An  *)
(* empty one leaves what the other buffer had.                             *)
OnProcess ==
  LET b == Newest
      has == buffers[b].has
  IN /\ queue # <<>> /\ queue' = <<>>
     /\ published' = has /\ ready' = TRUE /\ early' = ~over
     /\ dmabuf' = (kind = "dma")
     /\ excused' = (has.quality # "good")
     /\ IF kind = "dma"
        THEN /\ current' = b /\ buffers' = GivenBack(b)
             /\ UNCHANGED <<front, back>>
        ELSE /\ current' = None /\ buffers' = GivenBack(None)
             /\ back' = front
             /\ front' = IF has.quality = "empty" THEN back ELSE has.shows
     /\ UNCHANGED <<captureVars, over, stream, stateVars, kind, countVars,
                    streamed, forgotten, abrupt, unjust>>

KeepCurrent == UNCHANGED current   \* mutant: goes on with the old buffer

\* on_param_changed, at its beginning.
DropCurrent == current' = None

(* on_param_changed: a format, with which PipeWire makes new buffers.      *)
FormatChanged(k) ==
  /\ stream \in {"connecting", "paused", "streaming"}
  /\ changes < MaxChanges /\ changes' = changes + 1
  /\ kind' = k /\ DropCurrent
  /\ stream' = IF stream = "connecting" THEN "paused" ELSE stream
  /\ buffers' = Unused /\ queue' = <<>> /\ forgotten' = {}
  /\ excused' = TRUE
  /\ UNCHANGED <<captureVars, over, stateVars, dmabuf, front, back, ready,
                 published, early, streams, drawn, streamed, abrupt, unjust>>

(* on_param_changed: another parameter.                                    *)
ParamChanged ==
  /\ stream \in {"paused", "streaming"}
  /\ changes < MaxChanges /\ changes' = changes + 1
  /\ current' = None
  /\ forgotten' = forgotten \cup ({current} \ {None})
  /\ excused' = TRUE
  /\ UNCHANGED <<captureVars, over, stream, stateVars, kind, buffers, queue,
                 dmabuf, front, back, ready, published, early, streams,
                 drawn, streamed, abrupt, unjust>>

Streams ==
  /\ stream = "paused" /\ kind # None /\ stream' = "streaming"
  /\ streamed' = TRUE
  /\ UNCHANGED <<captureVars, over, stateVars, kind, buffers, queue,
                 frameVars, countVars, excused, forgotten, abrupt, unjust>>

(* on_stream_state_changed: PW_STREAM_STATE_PAUSED.                        *)
Pause ==
  /\ stream = "streaming" /\ stream' = "paused"
  /\ ready' = FALSE /\ current' = None /\ dead' = TRUE
  /\ previous' = "streaming"
  /\ forgotten' = forgotten \cup ({current} \ {None})
  /\ UNCHANGED <<captureVars, over, negotiate, closed, kind, buffers,
                 queue, dmabuf, front, back, published, early, countVars,
                 streamed, excused, abrupt, unjust>>

(* PW_STREAM_STATE_ERROR, as when the compositor has no such format.  The  *)
(* buffers are gone.                                                       *)
Fail ==
  /\ stream \in {"connecting", "paused", "streaming"} /\ stream' = "error"
  /\ dead' = TRUE /\ previous' = stream
  /\ buffers' = Unused /\ queue' = <<>> /\ kind' = None
  /\ abrupt' = (abrupt \/ (streamed /\ stream # "streaming"))
  /\ UNCHANGED <<captureVars, over, negotiate, closed, frameVars,
                 countVars, streamed, excused, forgotten, unjust>>

(* PW_STREAM_STATE_UNCONNECTED: PipeWire, or the portal's session, ends.   *)
Disconnect(ended) ==
  /\ stream \notin {"none", "unconnected"} /\ stream' = "unconnected"
  /\ dead' = TRUE /\ closed' = ended
  /\ buffers' = Unused /\ queue' = <<>> /\ kind' = None
  /\ abrupt' = (abrupt \/ stream = "streaming")
  /\ UNCHANGED <<captureVars, over, negotiate, previous, frameVars,
                 countVars, streamed, excused, forgotten, unjust>>

Next ==
  \/ Open \/ Cleanup \/ NoticeDead \/ Snapshot \/ Wake \/ Timeout
  \/ CheckDue \/ Fill \/ Push \/ Interrupted
  \/ Pass \/ OnProcess \/ ParamChanged \/ Streams \/ Pause \/ Fail
  \/ \E b \in Buffers, q \in {"good", "empty", "corrupt"} : Draw(b, q)
  \/ \E k \in {"dma", "mem"} : FormatChanged(k)
  \/ \E ended \in BOOLEAN : Disconnect(ended)

Spec == Init /\ [][Next]_vars

-----------------------------------------------------------------------------
(* A buffer that fill_img takes the picture from is ours: neither given    *)
(* back nor gone with its format or its stream.                            *)
FilledFromOurs ==
  pc = "fill" /\ ~dead /\ dmabuf /\ current # None =>
    buffers[current].at = "held"

(* on_process keeps one buffer at most, so that the compositor does not    *)
(* run out of them: up to those that on_param_changed and a pause drop.    *)
BuffersComeBack ==
  stream = "streaming" =>
    \A b \in Buffers : buffers[b].at = "held" => b = current \/ b \in forgotten

(* When nothing new comes, what the screen shows has been handed on,       *)
(* however callbacks and the checks of snapshot cross: up to a frame that  *)
(* came too early, had no picture, or was dropped by on_param_changed, and *)
(* until the first one of a stream.                                        *)
LastFrameIsShown ==
  /\ pc \in {"top", "wait"} /\ stream = "streaming"
  /\ queue = <<>> /\ ~ready /\ ~dead
  => delivered = drawn \/ excused

(* The maximal frame rate is given up after a stream that had no frames    *)
(* (check_stream_dead): up to one whose end did not tell.                  *)
NegotiationIsKept == unjust => abrupt

CastIsFollowed ==
  FilledFromOurs /\ BuffersComeBack /\ LastFrameIsShown /\ NegotiationIsKept

-----------------------------------------------------------------------------
(* What holds between the steps.                                           *)
TypeOK ==
  /\ drawn \in Nat /\ queue \in Seq(Buffers)
  /\ buffers \in [Buffers ->
                     [at : {"free", "filled", "held"},
                      has : [shows : Nat,
                             quality : {"good", "empty", "corrupt"}]]]
  /\ current \in Buffers \cup {None}

\* Nobody takes frames from a stream that is dead or is being left.
Over == pc \in {"off", "leave"} \/ dead

CurrentIsHeld == current # None => Over \/ buffers[current].at = "held"
HeldAreKnown ==
  \A b \in Buffers : buffers[b].at = "held" => b = current \/ b \in forgotten
NewestIsDrawn ==
  queue # <<>> => buffers[Newest].has.shows = drawn /\ drawn > 0

\* The last frame is what there is to take, and it is taken or will be.
LastIsTaken ==
  ~Over /\ ~excused /\ queue = <<>> =>
    /\ published = [shows |-> drawn, quality |-> "good"] /\ drawn > 0
    /\ IF dmabuf THEN current # None ELSE front = drawn
    /\ \/ ready \/ pc \in {"woken", "fill"}
       \/ pc = "push" /\ img = drawn
       \/ pc \in {"top", "wait"} /\ delivered = drawn

\* What previous_state tells of a stream, and when it does not.
EndsAreNoted ==
  /\ stream = "none" <=> pc = "off"
  /\ stream = "none" => queue = <<>> /\ current = None
  /\ stream = "connecting" => ~dead
  /\ stream = "paused" /\ dead => previous = "streaming"
  /\ pc # "off" /\ streamed /\ (dead \/ stream # "streaming") =>
       previous = "streaming" \/ abrupt

IInv ==
  /\ TypeOK /\ CurrentIsHeld /\ HeldAreKnown /\ NewestIsDrawn /\ LastIsTaken
  /\ EndsAreNoted /\ NegotiationIsKept
=============================================================================
