---------------------------- MODULE NvencFrames -----------------------------
(***************************************************************************)
(* What a client that loses frames asks for, and what the encoder makes of *)
(* it: the invalidation of reference frames in src/nvenc/nvenc_base.cpp    *)
(* (encode_frame, invalidate_ref_frames), asked for by the control thread  *)
(* (src/stream.cpp) and taken by the encoding loop (src/video.cpp).        *)
(*                                                                         *)
(* External: the hardware refers to the newest frame of its buffer that is *)
(* valid, and the client shows frames in their order, except that after a  *)
(* loss it waits for one that is marked as the answer to its request.      *)
(***************************************************************************)
EXTENDS Integers, FiniteSets, FiniteSetsExt

CONSTANTS
  DpbSize,     \* ref_frames_in_dpb; 5 in the code
  UIntRange,   \* number of values of an unsigned frame index
  MaxFrames,   \* bound: frames that are encoded
  MaxReinits   \* bound: how often the encoder is made anew

NoRange == <<0, 0>>

VARIABLES
  rfi,         \* encoder_params.rfi: the hardware can invalidate frames
  frame_nr,    \* how many frames there were
  last_encoded_frame_index, \* of this encoder
  dpb,         \* external: frames it can refer to
  last_rfi_range,
  rfi_needs_confirmation,
  reference,   \* what each frame refers to, 0 for an IDR frame
  marked,      \* frames with after_ref_frame_invalidation
  invalidate_ref_frames_events, idr_events,  \* what was asked, if anything
  seen,        \* external: the frames that have arrived at the client or
               \* are lost
  gap,         \* external: the first of those it has lost just now, or 0
  waiting,     \* external: it waits for an IDR frame or a marked one
  shown,       \* external: frames that it has decoded
  overtaken,   \* history: a request took the place of one not yet taken
  reinits

encoderVars == <<rfi, frame_nr, last_encoded_frame_index, dpb, last_rfi_range,
                 rfi_needs_confirmation, reference, marked, reinits>>
clientVars == <<seen, gap, waiting, shown, overtaken>>
eventVars == <<invalidate_ref_frames_events, idr_events>>
vars == <<encoderVars, clientVars, eventVars>>

Init ==
  /\ rfi \in BOOLEAN
  /\ frame_nr = 0 /\ last_encoded_frame_index = 0
  /\ dpb = {} /\ last_rfi_range = NoRange
  /\ rfi_needs_confirmation = FALSE
  /\ reference = [f \in 1 .. MaxFrames |-> 0] /\ marked = {}
  /\ invalidate_ref_frames_events = NoRange /\ idr_events = FALSE
  /\ seen = 0 /\ gap = 0 /\ waiting = FALSE /\ shown = {}
  /\ overtaken = FALSE /\ reinits = 0

-----------------------------------------------------------------------------
(* invalidate_ref_frames: what becomes of the last range, whether the next *)
(* frame is to be marked, which frames are invalid, and whether an IDR     *)
(* frame has to answer instead.                                            *)

Answer(range, mark, invalid, idr) ==
  [range |-> range, mark |-> mark, invalid |-> invalid, idr |-> idr]

TooLarge(first, last) == (last + UIntRange - first + 1) % UIntRange >= DpbSize

LastAsked(last) == last   \* mutant: only the frames that were lost

(* The request is expanded to the last frame: it may refer to a lost one.  *)
LastInvalid(last) == last_encoded_frame_index

invalidate_ref_frames(first, last) ==
  LET upto == LastInvalid(last)
  IN IF ~rfi THEN Answer(last_rfi_range, rfi_needs_confirmation, {}, TRUE)
     ELSE IF first >= last_rfi_range[1] /\ last <= last_rfi_range[2]
       THEN Answer(last_rfi_range, rfi_needs_confirmation, {}, FALSE)
     ELSE IF TooLarge(first, upto)
       THEN Answer(<<first, upto>>, TRUE, {}, TRUE)
     ELSE Answer(<<first, upto>>, TRUE, first .. upto, FALSE)

Newest(frames) ==
  {f \in frames : Cardinality({g \in frames : g > f}) < DpbSize}

(* One turn of encode_run: the requests are taken, then a frame encoded.   *)
encode_frame ==
  /\ frame_nr < MaxFrames
  /\ LET f == frame_nr + 1
         asked == invalidate_ref_frames_events
         answer == IF asked = NoRange
                     THEN Answer(last_rfi_range, rfi_needs_confirmation, {},
                                 FALSE)
                     ELSE invalidate_ref_frames(asked[1], asked[2])
         valid == dpb \ answer.invalid
         idr == answer.idr \/ idr_events \/ valid = {}
     IN /\ frame_nr' = f
        /\ last_encoded_frame_index' = f
        /\ last_rfi_range' = answer.range
        /\ rfi_needs_confirmation' = FALSE
        /\ marked' = IF answer.mark THEN marked \cup {f} ELSE marked
        /\ reference' = [reference EXCEPT ![f] = IF idr THEN 0 ELSE Max(valid)]
        /\ dpb' = IF idr THEN {f} ELSE Newest(valid \cup {f})
  /\ invalidate_ref_frames_events' = NoRange /\ idr_events' = FALSE
  /\ UNCHANGED <<rfi, reinits, clientVars>>

\* The display changes: a new encoder begins, the requests stay.
Reinit ==
  /\ reinits < MaxReinits /\ reinits' = reinits + 1
  /\ last_encoded_frame_index' = 0 /\ last_rfi_range' = NoRange
  /\ dpb' = {} /\ rfi_needs_confirmation' = FALSE
  /\ UNCHANGED <<rfi, frame_nr, reference, marked, eventVars, clientVars>>

-----------------------------------------------------------------------------
(* The client, and the control thread that raises what it asks for.        *)

Lost ==
  /\ seen < frame_nr /\ seen' = seen + 1
  /\ gap' = IF gap = 0 THEN seen' ELSE gap
  /\ UNCHANGED <<waiting, shown, overtaken, encoderVars, eventVars>>

Show(f, wait) ==
  /\ waiting' = (wait /\ reference[f] # 0 /\ f \notin marked)
  /\ shown' = IF waiting' THEN shown ELSE shown \cup {f}

Arrives ==
  /\ seen < frame_nr /\ seen' = seen + 1 /\ gap = 0
  /\ Show(seen', waiting)
  /\ UNCHANGED <<gap, overtaken, encoderVars, eventVars>>

(* The first frame after a loss: what was lost is asked for by its range,  *)
(* or with an IDR frame. An event holds one value: the latest.             *)
ArrivesAfterLoss(byRange) ==
  /\ seen < frame_nr /\ seen' = seen + 1 /\ gap # 0
  /\ gap' = 0
  /\ IF byRange
       THEN /\ invalidate_ref_frames_events' = <<gap, seen>>
            /\ overtaken' = (overtaken \/ invalidate_ref_frames_events # NoRange)
            /\ UNCHANGED idr_events
       ELSE /\ idr_events' = TRUE
            /\ UNCHANGED <<invalidate_ref_frames_events, overtaken>>
  /\ Show(seen', TRUE)
  /\ UNCHANGED encoderVars

Next ==
  \/ encode_frame \/ Reinit \/ Lost \/ Arrives
  \/ \E byRange \in BOOLEAN : ArrivesAfterLoss(byRange)

-----------------------------------------------------------------------------
(* A frame that the client shows refers to one it has shown: what answers  *)
(* a loss refers to nothing that was lost, nor to a frame that refers to   *)
(* it in turn (invalidate_ref_frames: "expanding to last encoded frame"),  *)
(* as long as no request replaces another that was not yet taken.          *)
ShownAreDecodable ==
  overtaken \/ \A f \in shown : reference[f] \in shown \cup {0}
-----------------------------------------------------------------------------
(* Why that is so: the inductive invariant.  Frames that the client waits  *)
(* for answer a loss: they are IDR frames or marked ones.                  *)

TypeOK ==
  /\ rfi \in BOOLEAN
  /\ frame_nr \in 0 .. MaxFrames
  /\ last_encoded_frame_index \in {0, frame_nr}
  /\ dpb \subseteq 1 .. last_encoded_frame_index
  /\ last_rfi_range \in Nat \X Nat
  /\ rfi_needs_confirmation = FALSE
  /\ reference \in [1 .. MaxFrames -> Nat]
  /\ \A f \in 1 .. frame_nr : reference[f] < f
  /\ marked \subseteq 1 .. frame_nr
  /\ idr_events \in BOOLEAN
  /\ seen \in 0 .. frame_nr
  /\ gap \in 0 .. seen
  /\ waiting \in BOOLEAN
  /\ shown \subseteq 1 .. seen
  /\ overtaken \in BOOLEAN

Pending == invalidate_ref_frames_events # NoRange
Asked == Pending \/ idr_events
First == invalidate_ref_frames_events[1]
Last == invalidate_ref_frames_events[2]
Settled ==   \* the request is within the last one that was answered
  First >= last_rfi_range[1] /\ Last <= last_rfi_range[2]
Answers(f) == reference[f] = 0 \/ f \in marked
ShownBelow(n) == \A g \in dpb : g < n => g \in shown

(* A request is for frames that were lost, and the encoder keeps none of   *)
(* the last range; the frame after that range is marked.                   *)
RequestsAreOld ==
  /\ invalidate_ref_frames_events \in Nat \X Nat
  /\ Pending => 1 <= First /\ First <= Last /\ Last <= seen
LastRangeIsGone ==
  LET p == last_rfi_range[1] q == last_rfi_range[2] IN
    /\ p = 0 => q = 0
    /\ 1 <= p /\ p <= q => /\ q + 1 \in marked
                           /\ \A g \in dpb : g < p \/ g > q

(* Before the frames that were asked for, or are about to be, the encoder  *)
(* refers to none that the client does not have.                           *)
ShownBeforeRequest == Pending => idr_events \/ ShownBelow(First)
ShownBeforeGap ==
  gap # 0 => \/ idr_events \/ ShownBelow(gap)
             \/ Pending /\ (Settled => gap <= last_rfi_range[2] + 1)

(* While nothing is missing, or all was answered, the client has what the  *)
(* encoder can refer to, and so the frames under way refer to.             *)
ShownWhenDone ==
  gap = 0 /\ (~waiting \/ ~Asked) => ShownBelow(seen + 1)
UnderWayDecode ==
  gap = 0 /\ ~waiting =>
    \A f \in seen + 1 .. frame_nr :
      \/ reference[f] \in shown \cup {0} \/ reference[f] > seen
SettledIsOver ==
  Pending /\ ~idr_events /\ Settled /\ gap = 0 /\ seen > last_rfi_range[2]
    => ~waiting

(* A client that waits and has asked gets its answer, and what is encoded  *)
(* after that refers to nothing between.                                   *)
AnswerComes ==
  waiting /\ gap = 0 /\ ~Asked =>
    \E m \in seen + 1 .. frame_nr :
      Answers(m) /\ \A g \in dpb : g > seen => g >= m
MarkedDecode ==
  \A f \in marked : f > seen => reference[f] \in shown \cup {0}
AnswersBegin ==
  \A m \in seen + 1 .. frame_nr : Answers(m) =>
    /\ \A f \in m + 1 .. frame_nr :
         reference[f] \in shown \cup {0} \/ reference[f] >= m
    /\ \A g \in dpb : g >= m \/ g \in shown

FramesInv ==
  /\ ShownBeforeRequest /\ ShownBeforeGap /\ ShownWhenDone
  /\ UnderWayDecode /\ SettledIsOver /\ AnswerComes
  /\ MarkedDecode /\ AnswersBegin

IInv ==
  /\ TypeOK /\ RequestsAreOld /\ LastRangeIsGone
  /\ ShownAreDecodable /\ (overtaken \/ FramesInv)
=============================================================================
