---------------------------- MODULE AudioStream -----------------------------
(***************************************************************************)
(* One session's sound on its way to the network: the capture loop of      *)
(* audio::capture numbers what it records, encodeThread encodes it         *)
(* (src/audio.cpp), and audioBroadcastThread (src/stream.cpp) turns the    *)
(* numbers into RTP sequence numbers and adds parity to every four         *)
(* packets.  A queue that is full loses its oldest sample, or all its      *)
(* packets.  A packet is known by its number.                              *)
(***************************************************************************)
EXTENDS Integers, Sequences

CONSTANTS
  MaxFrames,    \* frames that are recorded
  MaxSamples,   \* the capacity of samples: sample_queue_depth
  MaxPackets,   \* the capacity of mail::audio_packets
  SeqModulus    \* 2^16, a multiple of the shards of a block

RTPA_DATA_SHARDS == 4

VARIABLES
  capture_frame_index,
  samples, encoding, packets,
  next_frame_index, sequenceNumber, fec_block_valid,
  shards,   \* the frames in the data shards of the session
  base,     \* baseSequenceNumber of the session's FEC packet
  sent,     \* the last packet: its frame and sequence number
  parity    \* the last parity packets: their base and the shards they cover

queueVars == <<capture_frame_index, samples, encoding, packets>>
sendVars == <<next_frame_index, sequenceNumber, fec_block_valid, shards, base,
              sent, parity>>
vars == <<queueVars, sendVars>>

NoFrame == -1
NoParity == [base |-> NoFrame, over |-> [i \in 0 .. 3 |-> NoFrame]]

Init ==
  /\ capture_frame_index = 0
  /\ samples = <<>> /\ encoding = NoFrame /\ packets = <<>>
  /\ next_frame_index = 0 /\ sequenceNumber = 0 /\ fec_block_valid = FALSE
  /\ shards = [i \in 0 .. RTPA_DATA_SHARDS - 1 |-> NoFrame]
  /\ base = 0
  /\ sent = [frame |-> NoFrame, seq |-> NoFrame] /\ parity = NoParity

-----------------------------------------------------------------------------
(* The microphone has a sample: a full queue loses its oldest one.         *)
Capture ==
  /\ capture_frame_index < MaxFrames
  /\ samples' = Append(IF Len(samples) >= MaxSamples THEN Tail(samples)
                       ELSE samples, capture_frame_index)
  /\ capture_frame_index' = capture_frame_index + 1
  /\ UNCHANGED <<encoding, packets, sendVars>>

(* encodeThread takes a sample,                                            *)
TakeSample ==
  /\ encoding = NoFrame /\ samples # <<>>
  /\ encoding' = Head(samples) /\ samples' = Tail(samples)
  /\ UNCHANGED <<capture_frame_index, packets, sendVars>>

(* and raises the packet under its number: a full queue is cleared.        *)
RaisePacket ==
  /\ encoding # NoFrame
  /\ packets' = IF Len(packets) >= MaxPackets THEN <<encoding>>
                ELSE Append(packets, encoding)
  /\ encoding' = NoFrame
  /\ UNCHANGED <<capture_frame_index, samples, sendVars>>

-----------------------------------------------------------------------------
(* Whether the block is whole so far after a gap.                          *)
StillValid(dropped) == fec_block_valid /\ dropped = 0

(* The sequence number of a frame: frames that were lost leave a gap.      *)
SequenceOf(frame, dropped) == (sequenceNumber + dropped) % SeqModulus

(* audioBroadcastThread sends the next packet, and after the last one of a *)
(* block its parity.                                                       *)
SendPacket ==
  /\ packets # <<>>
  /\ packets' = Tail(packets)
  /\ LET frame == Head(packets)
         dropped == frame - next_frame_index
         seq == SequenceOf(frame, dropped)
         shard == seq % RTPA_DATA_SHARDS
         valid == shard = 0 \/ StillValid(dropped)
     IN IF dropped < 0 THEN UNCHANGED sendVars
        ELSE /\ next_frame_index' = frame + 1
             /\ sequenceNumber' = (seq + 1) % SeqModulus
             /\ shards' = [shards EXCEPT ![shard] = frame]
             /\ sent' = [frame |-> frame, seq |-> seq]
             /\ base' = IF shard = 0 THEN seq ELSE base
             /\ fec_block_valid' = valid
             /\ IF shard = RTPA_DATA_SHARDS - 1 /\ valid
                THEN parity' = [base |-> base, over |-> shards']
                ELSE UNCHANGED parity
  /\ UNCHANGED <<capture_frame_index, samples, encoding>>

Next == Capture \/ TakeSample \/ RaisePacket \/ SendPacket

-----------------------------------------------------------------------------
(* What a client can rebuild with the parity packets is what was sent: the *)
(* shards they cover are the four frames whose sequence numbers start at   *)
(* the base they name, and the sequence number of a frame is its number    *)
(* whatever was lost before it (audioBroadcastThread).                     *)
ParityIsWhole ==
  /\ sent.frame # NoFrame => sent.seq = sent.frame % SeqModulus
  /\ parity # NoParity =>
       /\ parity.base % RTPA_DATA_SHARDS = 0
       /\ parity.over[0] % SeqModulus = parity.base
       /\ \A i \in 1 .. RTPA_DATA_SHARDS - 1 :
            parity.over[i] = parity.over[0] + i

-----------------------------------------------------------------------------
(* What makes ParityIsWhole inductive: the sequence number is that of the  *)
(* next frame, and a block that is whole so far has the frames just before *)
(* it, from the shard that gave the base.                                  *)
TypeOK ==
  /\ capture_frame_index \in Nat /\ next_frame_index \in Nat
  /\ samples \in Seq(Nat) /\ packets \in Seq(Nat)
  /\ encoding \in Nat \cup {NoFrame}
  /\ sequenceNumber \in Nat /\ base \in Nat /\ fec_block_valid \in BOOLEAN
  /\ shards \in [0 .. RTPA_DATA_SHARDS - 1 -> Int]

Numbered == sequenceNumber = next_frame_index % SeqModulus

BlockSoFar ==
  LET filled == sequenceNumber % RTPA_DATA_SHARDS IN
  fec_block_valid /\ filled # 0 =>
    /\ base % RTPA_DATA_SHARDS = 0
    /\ shards[0] % SeqModulus = base
    /\ \A i \in 0 .. filled - 1 : shards[i] = next_frame_index - filled + i

IInv == TypeOK /\ Numbered /\ BlockSoFar /\ ParityIsWhole
=============================================================================
