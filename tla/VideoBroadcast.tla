--------------------------- MODULE VideoBroadcast ---------------------------
(***************************************************************************)
(* One session's frames on their way from the encoder to the network       *)
(* (encode_run in src/video.cpp, the queue mail::video_packets, and        *)
(* videoBroadcastThread in src/stream.cpp).  A frame that is no IDR frame  *)
(* needs the one before it.  When a frame has waited too long or is sent   *)
(* in part only, the broadcast thread asks the encoder for an IDR frame    *)
(* and sends nothing until it comes.                                       *)
(***************************************************************************)
EXTENDS Integers, Sequences

CONSTANTS
  MaxQueue,   \* the capacity of the queue
  MaxBlocks,  \* FEC blocks of a frame, at most 4
  MaxLate     \* how often frames are late, or a send runs into its deadline

VARIABLES
  idr_events,      \* the event of that name of the session's mail
  packets,         \* mail::video_packets
  drop_until_idr,
  sending,         \* the frame that is being sent
  intact,          \* since the last IDR frame no frame was lost
  unnoticed,       \* a frame was lost that drop_until_idr does not cover
  late             \* how often time was lost

vars ==
  <<idr_events, packets, drop_until_idr, sending, intact, unnoticed, late>>

Frame == [idr : BOOLEAN, stale : BOOLEAN]
Nothing == [idr |-> FALSE, left |-> 0]

\* encode_run starts with an IDR frame.
Init ==
  /\ idr_events = FALSE
  /\ packets = <<[idr |-> TRUE, stale |-> FALSE]>>
  /\ drop_until_idr = FALSE /\ sending = Nothing
  /\ intact = TRUE /\ unnoticed = FALSE
  /\ late = 0

-----------------------------------------------------------------------------
(* encode_run takes the request, encodes a frame and raises it; a queue    *)
(* that is full is cleared before.                                         *)
Encode ==
  LET frame == [idr |-> idr_events, stale |-> FALSE]
      full == Len(packets) >= MaxQueue
  IN /\ packets' = IF full THEN <<frame>> ELSE Append(packets, frame)
     /\ unnoticed' = (unnoticed \/ full)
     /\ intact' = (intact /\ ~full)
     /\ idr_events' = FALSE
     /\ UNCHANGED <<drop_until_idr, sending, late>>

(* The client asks for an IDR frame on the control stream.                 *)
ClientAsks ==
  /\ idr_events' = TRUE
  /\ UNCHANGED <<packets, drop_until_idr, sending, intact, unnoticed, late>>

\* The budget of the first frames of the queue runs out before they are
\* taken.
TimePasses ==
  /\ late < MaxLate /\ late' = late + 1
  /\ \E n \in 1 .. Len(packets) :
       packets' = [i \in 1 .. Len(packets) |->
                     IF i <= n THEN [packets[i] EXCEPT !.stale = TRUE]
                     ELSE packets[i]]
  /\ UNCHANGED <<idr_events, drop_until_idr, sending, intact, unnoticed>>

-----------------------------------------------------------------------------
(* The broadcast thread takes the next frame.                              *)

Take ==
  /\ sending = Nothing /\ packets # <<>>
  /\ packets' = Tail(packets)

DropStale ==
  /\ Take /\ Head(packets).stale
  /\ drop_until_idr' = TRUE /\ idr_events' = TRUE
  /\ intact' = FALSE
  /\ UNCHANGED <<sending, unnoticed, late>>

Skip ==
  /\ Take /\ ~Head(packets).stale
  /\ drop_until_idr /\ ~Head(packets).idr
  /\ intact' = FALSE
  /\ UNCHANGED <<idr_events, drop_until_idr, sending, unnoticed, late>>

BeginFrame ==
  /\ Take /\ ~Head(packets).stale
  /\ drop_until_idr => Head(packets).idr
  /\ drop_until_idr' = FALSE
  /\ \E n \in 1 .. MaxBlocks :
       sending' = [idr |-> Head(packets).idr, left |-> n]
  /\ intact' = (intact \/ Head(packets).idr)
  /\ unnoticed' = (unnoticed /\ ~Head(packets).idr)
  /\ UNCHANGED <<idr_events, late>>

(* One FEC block of the frame is sent.                                     *)
SendBlock ==
  /\ sending # Nothing
  /\ sending' = IF sending.left = 1 THEN Nothing
                ELSE [sending EXCEPT !.left = @ - 1]
  /\ UNCHANGED <<idr_events, packets, drop_until_idr, intact, unnoticed, late>>

GiveUpQuietly ==   \* mutant: the frame is abandoned and nothing else
  /\ sending # Nothing /\ late < MaxLate /\ late' = late + 1
  /\ sending' = Nothing
  /\ intact' = FALSE
  /\ UNCHANGED <<idr_events, packets, drop_until_idr, unnoticed>>

(* The deadline of the frame passes: its other blocks are not sent.        *)
DeadlineExpires ==
  /\ sending # Nothing /\ late < MaxLate /\ late' = late + 1
  /\ sending' = Nothing
  /\ drop_until_idr' = TRUE /\ idr_events' = TRUE
  /\ intact' = FALSE
  /\ UNCHANGED <<packets, unnoticed>>

(* An exception ends the frame: it is logged.                              *)
SendThrows ==
  /\ sending # Nothing /\ late < MaxLate /\ late' = late + 1
  /\ sending' = Nothing
  /\ intact' = FALSE /\ unnoticed' = TRUE
  /\ UNCHANGED <<idr_events, packets, drop_until_idr>>

TakeFrame == DropStale \/ Skip \/ BeginFrame

Next ==
  \/ Encode \/ ClientAsks \/ TimePasses
  \/ TakeFrame \/ SendBlock
  \/ DeadlineExpires \/ SendThrows

\* The encoder and the broadcast thread keep running.
Fairness ==
  /\ WF_vars(Encode) /\ WF_vars(TakeFrame) /\ WF_vars(SendBlock)

-----------------------------------------------------------------------------
(* A frame that needs the one before it is not sent after a frame that was *)
(* stale or sent in part: drop_until_idr holds it back.  Frames that a     *)
(* full queue or an exception has taken are not covered by it.             *)
SentDecodes ==
  sending = Nothing /\ sending' # Nothing /\ ~sending'.idr
    => intact \/ unnoticed
NoDependentAfterLoss == [][SentDecodes]_vars
=============================================================================
