---------------------------- MODULE Media_proofs ----------------------------
(***************************************************************************)
(* Proofs about a stream's pictures, for every value of the constants:     *)
(* that what is sent and shown can be decoded (VideoBroadcast,             *)
(* NvencFrames), that it is the display that was asked for (DisplayList),  *)
(* and that the best encoder makes it (EncoderProbe).                      *)
(***************************************************************************)
EXTENDS MCMedia, Counting, TLAPS

-----------------------------------------------------------------------------
(* The last frame of a set is in it.                                       *)
LEMMA MaxIn ==
  ASSUME NEW n \in Nat, NEW A \in SUBSET (0..n), A # {}
  PROVE  N!Max(A) \in A
BY GreatestNumber DEF N!Max

-----------------------------------------------------------------------------
(* NvencFrames: what a turn of the encoder does.  Its frame refers to      *)
(* nothing, or to what it can refer to, or to that without the frames that *)
(* were asked for and all later ones.                                      *)
Fresh ==
  /\ dpb' = {frame_nr'} /\ reference'[frame_nr'] = 0
  /\ \/ last_rfi_range' = last_rfi_range /\ marked' = marked
     \/ /\ N!Pending /\ marked' = marked \cup {frame_nr'}
        /\ last_rfi_range' = <<N!First, last_encoded_frame_index>>
Refers ==
  /\ ~idr_asked /\ dpb' \subseteq dpb \cup {frame_nr'}
  /\ reference'[frame_nr'] \in dpb
GoesOn ==
  /\ Refers /\ (N!Pending => N!Settled)
  /\ last_rfi_range' = last_rfi_range /\ marked' = marked
Cuts ==
  /\ Refers /\ N!Pending /\ ~N!Settled
  /\ last_rfi_range' = <<N!First, last_encoded_frame_index>>
  /\ marked' = marked \cup {frame_nr'}
  /\ reference'[frame_nr'] < N!First
  /\ \A g \in dpb' : g < N!First \/ g = frame_nr'

LEMMA EncodeSteps ==
  ASSUME N!TypeOK, N!RequestsAreOld, N!encode_frame
  PROVE  /\ frame_nr < MaxFrames /\ frame_nr' = frame_nr + 1
         /\ last_encoded_frame_index' = frame_nr'
         /\ rfi_needs_confirmation' = FALSE
         /\ invalidate_ref_frames_events' = N!NoRange /\ idr_asked' = FALSE
         /\ UNCHANGED <<rfi, reinits, seen, gap, client_waits, shown,
                        overtaken>>
         /\ reference' \in [1..MaxFrames -> Nat]
         /\ \A g \in 1..frame_nr : reference'[g] = reference[g]
         /\ Fresh \/ GoesOn \/ Cuts
<1> DEFINE f == frame_nr + 1
           asked == invalidate_ref_frames_events
           answer == IF asked = N!NoRange
                       THEN N!Answer(last_rfi_range, rfi_needs_confirmation,
                                     {}, FALSE)
                       ELSE N!invalidate_ref_frames(asked[1], asked[2])
           valid == dpb \ answer.invalid
           idr == answer.idr \/ idr_asked \/ valid = {}
           to == IF idr THEN 0 ELSE N!Max(valid)
<1>1. /\ frame_nr < MaxFrames /\ frame_nr' = f
      /\ last_encoded_frame_index' = f
      /\ rfi_needs_confirmation' = FALSE
      /\ invalidate_ref_frames_events' = N!NoRange /\ idr_asked' = FALSE
      /\ UNCHANGED <<rfi, reinits, seen, gap, client_waits, shown, overtaken>>
  BY DEF N!encode_frame, N!clientVars
<1>2. /\ last_rfi_range' = answer.range
      /\ marked' = IF answer.mark THEN marked \cup {f} ELSE marked
      /\ reference' = [reference EXCEPT ![f] = to]
      /\ dpb' = IF idr THEN {f} ELSE N!Newest(valid \cup {f})
  BY DEF N!encode_frame
<1>3. \/ answer = N!Answer(last_rfi_range, FALSE, {}, FALSE)
         /\ (N!Pending => N!Settled)
      \/ answer = N!Answer(last_rfi_range, FALSE, {}, TRUE)
      \/ /\ N!Pending /\ ~N!Settled
         /\ \/ answer = N!Answer(<<N!First, last_encoded_frame_index>>, TRUE,
                                 {}, TRUE)
            \/ answer = N!Answer(<<N!First, last_encoded_frame_index>>, TRUE,
                                 N!First .. last_encoded_frame_index, FALSE)
  BY DEF N!invalidate_ref_frames, N!LastInvalid, N!Pending, N!Settled,
         N!First, N!Last, N!TypeOK
<1>4. f \in 1..MaxFrames /\ frame_nr \in Nat /\ f \in Nat
  BY <1>1, FramesAssumption DEF N!TypeOK
<1>5. dpb \in SUBSET (1..frame_nr) /\ dpb \in SUBSET (0..frame_nr)
  BY <1>4 DEF N!TypeOK
<1>6. ~idr => to \in valid
  BY <1>4, <1>5, MaxIn
<1>7. to \in Nat
  <2>1. valid \subseteq Nat
    <3>1. \A g \in dpb : g \in 1..frame_nr
      BY <1>5
    <3>2. \A g \in 1..frame_nr : g \in Nat
      BY <1>4
    <3> HIDE DEF answer
    <3> QED BY <3>1, <3>2
  <2>2. CASE idr
    BY <2>2
  <2>3. CASE ~idr
    <3> HIDE DEF to, valid
    <3> QED BY <1>6, <2>1, <2>3
  <2> QED BY <2>2, <2>3
<1>8. /\ reference' \in [1..MaxFrames -> Nat]
      /\ reference'[f] = to
      /\ \A g \in 1..frame_nr : reference'[g] = reference[g]
  <2> HIDE DEF to
  <2>1. reference \in [1..MaxFrames -> Nat]
    BY DEF N!TypeOK
  <2>2. \A g \in 1..frame_nr : g \in 1..MaxFrames /\ g # f
    <3> SUFFICES ASSUME NEW g \in 1..frame_nr
                 PROVE  g \in 1..MaxFrames /\ g # f
      OBVIOUS
    <3> QED BY <1>1, <1>4, FramesAssumption
  <2> QED BY <1>2, <1>4, <1>7, <2>1, <2>2
<1>9. N!Newest(valid \cup {f}) \subseteq valid \cup {f}
  BY DEF N!Newest
<1>10. CASE answer = N!Answer(last_rfi_range, FALSE, {}, FALSE)
            /\ (N!Pending => N!Settled)
  <2>1. answer.range = last_rfi_range /\ ~answer.mark
        /\ answer.invalid = {} /\ ~answer.idr
    BY <1>10 DEF N!Answer
  <2> HIDE DEF answer
  <2> QED BY <1>1, <1>2, <1>6, <1>8, <1>9, <1>10, <2>1 DEF Fresh, GoesOn, Refers
<1>11. CASE answer = N!Answer(last_rfi_range, FALSE, {}, TRUE)
  <2>1. answer.range = last_rfi_range /\ ~answer.mark /\ answer.idr
    BY <1>11 DEF N!Answer
  <2> HIDE DEF answer
  <2> QED BY <1>1, <1>2, <1>8, <2>1 DEF Fresh
<1>12. CASE /\ N!Pending
            /\ answer = N!Answer(<<N!First, last_encoded_frame_index>>, TRUE,
                                 {}, TRUE)
  <2>1. answer.range = <<N!First, last_encoded_frame_index>> /\ answer.mark
        /\ answer.idr
    BY <1>12 DEF N!Answer
  <2> HIDE DEF answer
  <2> QED BY <1>1, <1>2, <1>8, <1>12, <2>1 DEF Fresh
<1>13. CASE /\ N!Pending /\ ~N!Settled
            /\ answer = N!Answer(<<N!First, last_encoded_frame_index>>, TRUE,
                                 N!First .. last_encoded_frame_index, FALSE)
  <2>1. /\ answer.range = <<N!First, last_encoded_frame_index>>
        /\ answer.mark /\ ~answer.idr
        /\ answer.invalid = N!First .. last_encoded_frame_index
    BY <1>13 DEF N!Answer
  <2>2. \A g \in dpb : g \in Nat /\ g <= last_encoded_frame_index
    BY <1>4 DEF N!TypeOK
  <2>3. N!First \in Nat /\ last_encoded_frame_index \in Nat
    BY <1>4 DEF N!RequestsAreOld, N!First, N!TypeOK
  <2>4. \A g \in dpb : g \notin N!First .. last_encoded_frame_index
                       => g < N!First
    BY <2>2, <2>3
  <2> HIDE DEF answer
  <2>5. \A g \in valid : g \in dpb /\ g < N!First
    BY <2>1, <2>4
  <2> QED BY <1>1, <1>2, <1>6, <1>8, <1>9, <1>13, <2>1, <2>5
          DEF Fresh, Cuts, Refers
<1> HIDE DEF answer, to
<1> QED BY <1>1, <1>3, <1>8, <1>10, <1>11, <1>12, <1>13

(* A mark or a frame without a reference from before is one afterwards.    *)
LEMMA EncodeTypes ==
  ASSUME N!IInv, N!encode_frame
  PROVE  N!TypeOK' /\ N!RequestsAreOld' /\ N!LastRangeIsGone'
         /\ N!ShownAreDecodable'
<1> USE DEF N!IInv
<1> DEFINE f == frame_nr'
<1>0. /\ frame_nr < MaxFrames /\ f = frame_nr + 1
      /\ invalidate_ref_frames_events' = N!NoRange /\ idr_asked' = FALSE
      /\ UNCHANGED <<rfi, seen, gap, client_waits, shown, overtaken>>
      /\ reference' \in [1..MaxFrames -> Nat]
      /\ rfi_needs_confirmation' = FALSE
  BY EncodeSteps, Zenon
<1>1. /\ frame_nr \in Nat /\ f = frame_nr + 1 /\ f \in 1..MaxFrames
      /\ f \in Nat /\ frame_nr' \in 0..MaxFrames
  <2>1. frame_nr \in 0..MaxFrames
    BY DEF N!TypeOK
  <2> QED BY <1>0, <2>1, FramesAssumption
<1>2. \A g \in dpb : g \in 1..frame_nr
  BY <1>1 DEF N!TypeOK
<1>3. /\ dpb' \subseteq dpb \cup {f}
      /\ reference'[f] \in dpb \cup {0}
      /\ marked' \subseteq marked \cup {f}
      /\ last_rfi_range' \in {last_rfi_range,
                              <<N!First, last_encoded_frame_index>>}
  BY EncodeSteps DEF Fresh, GoesOn, Cuts, Refers
<1>4. \A g \in dpb \cup {f} : g \in 1..f
  BY <1>1, <1>2
<1>5. \A g \in dpb \cup {0} : g < f
  BY <1>1, <1>2
<1> HIDE DEF f
<1>6. N!TypeOK'
  <2>1. /\ dpb' \subseteq 1..last_encoded_frame_index'
        /\ last_encoded_frame_index' \in {0, frame_nr'}
    BY <1>3, <1>4, EncodeSteps DEF f
  <2>2. last_rfi_range' \in Nat \X Nat
    <3>1. N!First \in Nat /\ last_encoded_frame_index \in Nat
          /\ last_rfi_range \in Nat \X Nat
      BY <1>1 DEF N!TypeOK, N!RequestsAreOld, N!First
    <3> QED BY <1>3, <3>1
  <2>3. \A g \in 1..f : reference'[g] < g
    <3>1. \A g \in 1..frame_nr : reference'[g] < g
      BY EncodeSteps DEF N!TypeOK
    <3>2. reference'[f] < f
      BY <1>3, <1>5
    <3>3. \A g \in 1..f : g \in 1..frame_nr \/ g = f
      BY <1>1
    <3> QED BY <3>1, <3>2, <3>3
  <2>4. marked' \subseteq 1..f
    <3>1. \A g \in 1..frame_nr : g \in 1..f
      BY <1>1
    <3>2. marked \subseteq 1..frame_nr
      BY DEF N!TypeOK
    <3>3. f \in 1..f
      BY <1>1
    <3> QED BY <1>3, <3>1, <3>2, <3>3
  <2>5. seen' \in 0..frame_nr' /\ gap' \in 0..seen' /\ shown' \subseteq 1..seen'
        /\ rfi' \in BOOLEAN /\ client_waits' \in BOOLEAN
        /\ overtaken' \in BOOLEAN /\ idr_asked' \in BOOLEAN
        /\ rfi_needs_confirmation' = FALSE
        /\ reference' \in [1..MaxFrames -> Nat]
    <3>1. seen \in 0..frame_nr /\ gap \in 0..seen /\ shown \subseteq 1..seen
          /\ rfi \in BOOLEAN /\ client_waits \in BOOLEAN
          /\ overtaken \in BOOLEAN
      BY DEF N!TypeOK
    <3>2. seen \in 0..f
      BY <1>1, <3>1
    <3> QED BY <1>0, <3>1, <3>2, Zenon DEF f
  <2> QED BY <1>1, <2>1, <2>2, <2>3, <2>4, <2>5 DEF N!TypeOK, f
<1>7. N!RequestsAreOld'
  BY <1>0 DEF N!RequestsAreOld, N!Pending, N!NoRange, N!First, N!Last
<1>8. N!LastRangeIsGone'
  <2>1. CASE last_rfi_range' = last_rfi_range /\ marked' = marked
    <3>1. \A g \in dpb' : g \in dpb \/ g = f
      BY <1>3
    <3>2. last_rfi_range \in Nat \X Nat /\ marked \subseteq 1..frame_nr
      BY DEF N!TypeOK
    <3>3. last_rfi_range[2] + 1 \in marked => f > last_rfi_range[2]
      BY <1>1, <3>2
    <3> QED BY <2>1, <3>1, <3>3 DEF N!LastRangeIsGone
  <2>2. CASE /\ N!Pending
             /\ last_rfi_range' = <<N!First, last_encoded_frame_index>>
             /\ marked' = marked \cup {f}
             /\ \A g \in dpb' : g < N!First \/ g = f
    <3>1. /\ N!First \in Nat /\ 1 <= N!First /\ last_encoded_frame_index \in Nat
          /\ last_encoded_frame_index \in {0, frame_nr}
      BY <1>1, <2>2 DEF N!TypeOK, N!RequestsAreOld, N!First
    <3>2. /\ last_rfi_range'[1] = N!First
          /\ last_rfi_range'[2] = last_encoded_frame_index
      BY <2>2
    <3>3. 1 <= N!First /\ N!First <= last_encoded_frame_index
            => f = last_encoded_frame_index + 1
      BY <1>1, <3>1
    <3> SUFFICES ASSUME 1 <= last_rfi_range'[1],
                        last_rfi_range'[1] <= last_rfi_range'[2]
                 PROVE  /\ last_rfi_range'[2] + 1 \in marked'
                        /\ \A g \in dpb' : g < last_rfi_range'[1]
                                           \/ g > last_rfi_range'[2]
      BY <3>1, <3>2 DEF N!LastRangeIsGone
    <3>4. f = last_encoded_frame_index + 1 /\ f > last_encoded_frame_index
      BY <3>1, <3>2, <3>3
    <3> QED BY <2>2, <3>2, <3>4
  <2>3. CASE Fresh
    <3>1. f < N!First \/ f = f
      OBVIOUS
    <3> QED BY <2>1, <2>2, <2>3, <3>1 DEF Fresh, f
  <2> QED BY <2>1, <2>2, <2>3, EncodeSteps DEF GoesOn, Cuts, f
<1>9. N!ShownAreDecodable'
  <2>1. shown \subseteq 1..frame_nr
    <3>1. \A g \in 1..seen : g \in 1..frame_nr
      BY <1>1 DEF N!TypeOK
    <3> QED BY <3>1 DEF N!TypeOK
  <2> QED BY <2>1, EncodeSteps DEF N!ShownAreDecodable
<1> QED BY <1>6, <1>7, <1>8, <1>9

(* What the encoder can refer to after a request that is within the last   *)
(* one is older than both, or newer than the frame that was marked.        *)
LEMMA SettledIsCut ==
  ASSUME N!TypeOK, N!RequestsAreOld, N!LastRangeIsGone,
         N!Pending, N!Settled, ~idr_asked, N!ShownBeforeRequest
  PROVE  /\ last_rfi_range[2] \in Nat /\ last_rfi_range[2] + 1 \in marked
         /\ \A g \in dpb : g \in shown \/ g >= last_rfi_range[2] + 1
<1> DEFINE p == last_rfi_range[1]
           q == last_rfi_range[2]
<1>1. /\ p \in Nat /\ q \in Nat /\ N!First \in Nat /\ N!Last \in Nat
      /\ \A g \in dpb : g \in Nat
  BY DEF N!TypeOK, N!RequestsAreOld, N!First, N!Last
<1>2. /\ 1 <= N!First /\ N!First <= N!Last /\ p <= N!First /\ N!Last <= q
      /\ (p = 0 => q = 0)
  BY DEF N!RequestsAreOld, N!Settled, N!LastRangeIsGone
<1>3. /\ \A g \in dpb : g < N!First => g \in shown
      /\ (1 <= p /\ p <= q => /\ q + 1 \in marked
                              /\ \A g \in dpb : g < p \/ g > q)
  BY DEF N!ShownBeforeRequest, N!ShownBelow, N!LastRangeIsGone
<1> HIDE DEF p, q
<1>4. 1 <= p /\ p <= q
  BY <1>1, <1>2
<1>5. ASSUME NEW g \in dpb PROVE g \in shown \/ g >= q + 1
  BY <1>1, <1>2, <1>3, <1>4
<1> QED BY <1>1, <1>3, <1>4, <1>5 DEF q, p

LEMMA EncodeInv ==
  ASSUME N!IInv, N!FramesInv, N!encode_frame
  PROVE  N!FramesInv'
<1> DEFINE f == frame_nr'
           q == last_rfi_range[2]
<1>0. /\ N!TypeOK /\ N!RequestsAreOld /\ N!LastRangeIsGone
      /\ N!ShownBeforeRequest /\ N!ShownBeforeGap /\ N!ShownWhenDone
      /\ N!UnderWayDecode /\ N!SettledIsOver /\ N!AnswerComes
      /\ N!MarkedDecode /\ N!AnswersBegin
  BY DEF N!IInv, N!FramesInv
<1>1. /\ f = frame_nr + 1
      /\ invalidate_ref_frames_events' = N!NoRange /\ idr_asked' = FALSE
      /\ seen' = seen /\ gap' = gap /\ client_waits' = client_waits
      /\ shown' = shown
      /\ \A g \in 1..frame_nr : reference'[g] = reference[g]
  BY <1>0, EncodeSteps, Zenon
<1>2. Fresh \/ GoesOn \/ Cuts
  BY <1>0, EncodeSteps, Zenon
<1>3. /\ frame_nr \in Nat /\ seen \in Nat /\ gap \in Nat /\ gap <= seen
      /\ seen <= frame_nr /\ marked \subseteq 1..frame_nr
      /\ shown \subseteq 1..seen
      /\ \A g \in dpb : g \in Nat /\ g >= 1 /\ g <= frame_nr
      /\ q \in Nat /\ client_waits \in BOOLEAN
  <2>1. frame_nr \in Nat /\ seen \in 0..frame_nr /\ gap \in 0..seen
    BY <1>0, FramesAssumption DEF N!TypeOK
  <2>2. dpb \subseteq 1..frame_nr
    BY <1>0, <2>1 DEF N!TypeOK
  <2> QED BY <1>0, <2>1, <2>2 DEF N!TypeOK
<1>4. f \in Nat /\ f > frame_nr /\ f > seen /\ f \notin marked
  BY <1>1, <1>3
<1>5. ~N!Pending' /\ ~N!Asked'
  BY <1>1 DEF N!Pending, N!Asked
<1>6. /\ N!Pending => 1 <= N!First /\ N!First <= seen /\ N!First \in Nat
      /\ N!First \in Int
  BY <1>0, <1>3 DEF N!RequestsAreOld, N!First, N!Last
<1> HIDE DEF f, q
\* What the next frame refers to, where it may refer to something.
<1>7. ASSUME Cuts
      PROVE  /\ reference'[f] \in shown /\ reference'[f] \in dpb
             /\ \A g \in dpb' : g \in shown \/ g = f
             /\ marked' = marked \cup {f}
  <2>1. /\ \A g \in dpb : g < N!First => g \in shown
        /\ reference'[f] \in dpb /\ reference'[f] < N!First
        /\ \A g \in dpb' : (g < N!First /\ g \in dpb) \/ g = f
        /\ marked' = marked \cup {f}
    BY <1>0, <1>7 DEF Cuts, Refers, N!ShownBeforeRequest, N!ShownBelow, f
  <2> QED BY <2>1
<1>8. ASSUME GoesOn, N!Pending
      PROVE  /\ q + 1 \in marked
             /\ \A g \in dpb : g \in shown \/ g >= q + 1
             /\ ~idr_asked /\ N!Settled
  <2>1. N!Settled /\ ~idr_asked
    BY <1>8 DEF GoesOn, Refers
  <2> QED BY <1>0, <1>8, <2>1, SettledIsCut DEF q
<1>9. ASSUME GoesOn
      PROVE  /\ dpb' \subseteq dpb \cup {f} /\ reference'[f] \in dpb
             /\ marked' = marked /\ ~idr_asked
  BY <1>9 DEF GoesOn, Refers, f
<1>10. ASSUME Fresh
       PROVE  /\ dpb' = {f} /\ reference'[f] = 0
              /\ marked' \subseteq marked \cup {f}
  BY <1>10 DEF Fresh, f
<1>11. N!ShownBeforeRequest'
  BY <1>5 DEF N!ShownBeforeRequest
<1>12. N!ShownBeforeGap'
  <2> SUFFICES ASSUME gap # 0, NEW g \in dpb', g < gap PROVE g \in shown
    BY <1>1 DEF N!ShownBeforeGap, N!ShownBelow
  <2>1. g # f
    BY <1>3, <1>4
  <2>2. CASE Fresh
    BY <1>10, <2>1, <2>2
  <2>3. CASE Cuts
    BY <1>7, <2>1, <2>3
  <2>4. CASE GoesOn
    <3>1. g \in dpb /\ ~idr_asked
      BY <1>9, <2>1, <2>4
    <3>2. CASE N!ShownBelow(gap)
      BY <3>1, <3>2 DEF N!ShownBelow
    <3>3. CASE N!Pending /\ (N!Settled => gap <= q + 1)
      BY <1>3, <1>8, <2>4, <3>1, <3>3
    <3> QED BY <1>0, <3>1, <3>2, <3>3 DEF N!ShownBeforeGap, q
  <2> QED BY <1>2, <2>2, <2>3, <2>4
<1>13. ASSUME gap = 0, NEW g \in dpb', g < seen + 1
       PROVE  g \in shown
  <2>1. g # f
    BY <1>3, <1>4, <1>13
  <2>2. CASE Fresh
    BY <1>10, <1>13, <2>1, <2>2
  <2>3. CASE Cuts
    BY <1>7, <1>13, <2>1, <2>3
  <2>4. CASE GoesOn
    <3>1. g \in dpb /\ ~idr_asked
      BY <1>9, <1>13, <2>1, <2>4
    <3>2. CASE ~client_waits \/ ~N!Pending
      BY <1>0, <1>13, <3>1, <3>2 DEF N!ShownWhenDone, N!ShownBelow, N!Asked
    <3>3. CASE client_waits /\ N!Pending
      <4>1. seen <= q
        BY <1>0, <1>3, <1>8, <1>13, <2>4, <3>3 DEF N!SettledIsOver, q
      <4> QED BY <1>3, <1>8, <1>13, <2>4, <3>1, <3>3, <4>1
    <3> QED BY <3>2, <3>3
  <2> QED BY <1>2, <2>2, <2>3, <2>4
<1>14. N!ShownWhenDone'
  BY <1>1, <1>13 DEF N!ShownWhenDone, N!ShownBelow
<1>15. N!UnderWayDecode'
  <2> SUFFICES ASSUME gap = 0, ~client_waits, NEW g \in seen + 1 .. f
               PROVE  \/ reference'[g] \in shown \cup {0}
                      \/ reference'[g] > seen
    BY <1>1 DEF N!UnderWayDecode, f
  <2>1. CASE g # f
    <3>1. g \in seen + 1 .. frame_nr /\ g \in 1..frame_nr
      BY <1>1, <1>3, <2>1
    <3> QED BY <1>0, <1>1, <3>1 DEF N!UnderWayDecode
  <2>2. CASE g = f
    <3>1. CASE Fresh
      BY <1>10, <2>2, <3>1
    <3>2. CASE Cuts
      BY <1>7, <2>2, <3>2
    <3>3. CASE GoesOn
      <4>1. \A d \in dpb : d < seen + 1 => d \in shown
        BY <1>0 DEF N!ShownWhenDone, N!ShownBelow
      <4> QED BY <1>3, <1>9, <2>2, <3>3, <4>1
    <3> QED BY <1>2, <3>1, <3>2, <3>3
  <2> QED BY <2>1, <2>2
<1>16. N!SettledIsOver'
  BY <1>5 DEF N!SettledIsOver
<1>17. N!AnswerComes'
  <2> SUFFICES ASSUME client_waits, gap = 0
               PROVE  \E m \in seen + 1 .. f :
                        /\ reference'[m] = 0 \/ m \in marked'
                        /\ \A g \in dpb' : g > seen => g >= m
    BY <1>1 DEF N!AnswerComes, N!Answers, f
  <2>0. f \in seen + 1 .. f
    BY <1>3, <1>4
  <2>1. CASE Fresh
    BY <1>4, <1>10, <2>0, <2>1
  <2>2. CASE Cuts
    <3>1. \A g \in shown : ~(g > seen)
      BY <1>3
    <3> QED BY <1>4, <1>7, <2>0, <2>2, <3>1
  <2>3. ASSUME GoesOn, NEW m \in seen + 1 .. frame_nr, N!Answers(m),
               \A g \in dpb : g > seen => g >= m
        PROVE  \E l \in seen + 1 .. f :
                 /\ reference'[l] = 0 \/ l \in marked'
                 /\ \A g \in dpb' : g > seen => g >= l
    <3>1. m \in seen + 1 .. f /\ m \in 1..frame_nr /\ f >= m
      BY <1>1, <1>3
    <3>2. reference'[m] = 0 \/ m \in marked'
      BY <1>1, <1>9, <2>3, <3>1 DEF N!Answers
    <3> QED BY <1>9, <2>3, <3>1, <3>2
  <2>4. CASE GoesOn /\ ~N!Pending
    <3>1. \E m \in seen + 1 .. frame_nr :
            N!Answers(m) /\ \A g \in dpb : g > seen => g >= m
      BY <1>0, <1>9, <2>4 DEF N!AnswerComes, N!Asked
    <3> QED BY <2>3, <2>4, <3>1
  <2>5. CASE GoesOn /\ N!Pending
    <3>1. seen <= q
      BY <1>0, <1>3, <1>8, <2>5 DEF N!SettledIsOver, q
    <3>2. q + 1 \in seen + 1 .. frame_nr
      BY <1>3, <1>8, <2>5, <3>1
    <3>3. \A g \in dpb : g > seen => g >= q + 1
      BY <1>3, <1>8, <2>5
    <3>4. N!Answers(q + 1)
      BY <1>8, <2>5 DEF N!Answers
    <3> QED BY <2>3, <2>5, <3>2, <3>3, <3>4
  <2> QED BY <1>2, <2>1, <2>2, <2>4, <2>5
<1>18. N!MarkedDecode'
  <2> SUFFICES ASSUME NEW g \in marked', g > seen
               PROVE  reference'[g] \in shown \cup {0}
    BY <1>1 DEF N!MarkedDecode
  <2>1. CASE g \in marked
    <3>1. g \in 1..frame_nr
      BY <1>3, <2>1
    <3> QED BY <1>0, <1>1, <2>1, <3>1 DEF N!MarkedDecode
  <2>2. CASE g = f /\ g \notin marked
    <3>1. ~GoesOn
      BY <1>9, <2>2
    <3> QED BY <1>2, <1>7, <1>10, <2>2, <3>1
  <2>3. g \in marked \/ g = f
    BY <1>2, <1>7, <1>9, <1>10
  <2> QED BY <2>1, <2>2, <2>3
<1>19. N!AnswersBegin'
  <2> SUFFICES ASSUME NEW m \in seen + 1 .. f,
                      reference'[m] = 0 \/ m \in marked'
               PROVE  /\ \A g \in m + 1 .. f :
                           \/ reference'[g] \in shown \cup {0}
                           \/ reference'[g] >= m
                      /\ \A g \in dpb' : g >= m \/ g \in shown
    BY <1>1 DEF N!AnswersBegin, N!Answers, f
  <2>1. CASE m = f
    <3>1. \A g \in m + 1 .. f : FALSE
      BY <1>4, <2>1
    <3>2. \A g \in dpb' : g >= m \/ g \in shown
      <4>1. CASE Fresh
        BY <1>4, <1>10, <2>1, <4>1
      <4>2. CASE Cuts
        BY <1>4, <1>7, <2>1, <4>2
      <4>3. CASE GoesOn
        <5>1. reference'[f] \in dpb /\ f \notin marked'
          BY <1>4, <1>9, <4>3
        <5>2. reference'[f] # 0
          BY <1>3, <5>1
        <5> QED BY <2>1, <5>1, <5>2
      <4> QED BY <1>2, <4>1, <4>2, <4>3
    <3> QED BY <3>1, <3>2
  <2>2. CASE m # f
    <3>1. m \in seen + 1 .. frame_nr /\ m \in 1..frame_nr
      BY <1>1, <1>3, <2>2
    <3>2. m \in marked' => m \in marked
      BY <1>2, <1>7, <1>9, <1>10, <2>2
    <3>3. N!Answers(m)
      BY <1>1, <3>1, <3>2 DEF N!Answers
    <3>4. /\ \A g \in m + 1 .. frame_nr :
               reference[g] \in shown \cup {0} \/ reference[g] >= m
          /\ \A g \in dpb : g >= m \/ g \in shown
      BY <1>0, <3>1, <3>3 DEF N!AnswersBegin
    <3>5. ASSUME NEW g \in m + 1 .. f
          PROVE  reference'[g] \in shown \cup {0} \/ reference'[g] >= m
      <4>1. CASE g # f
        <5>1. g \in m + 1 .. frame_nr /\ g \in 1..frame_nr
          BY <1>1, <1>3, <3>1, <4>1
        <5> QED BY <1>1, <3>4, <5>1
      <4>2. CASE g = f
        BY <1>2, <1>7, <1>9, <1>10, <3>4, <4>2
      <4> QED BY <4>1, <4>2
    <3>6. \A g \in dpb' : g \in dpb \/ g = f \/ g \in shown
      BY <1>2, <1>7, <1>9, <1>10
    <3>7. f >= m
      BY <1>1, <1>3, <3>1
    <3> QED BY <3>4, <3>5, <3>6, <3>7
  <2> QED BY <2>1, <2>2
<1> QED BY <1>11, <1>12, <1>14, <1>15, <1>16, <1>17, <1>18, <1>19
        DEF N!FramesInv

(* The other steps.                                                        *)
LEMMA FramesParts ==
  ASSUME N!TypeOK
  PROVE  /\ frame_nr \in Nat /\ seen \in Nat /\ gap \in Nat /\ gap <= seen
         /\ seen <= frame_nr /\ marked \subseteq 1..frame_nr
         /\ shown \subseteq 1..seen
         /\ \A g \in dpb : g \in Nat /\ g >= 1 /\ g <= frame_nr
         /\ last_rfi_range[1] \in Nat /\ last_rfi_range[2] \in Nat
         /\ client_waits \in BOOLEAN /\ idr_asked \in BOOLEAN
         /\ \A f \in 1..frame_nr : reference[f] \in Nat /\ reference[f] < f
<1>1. frame_nr \in 0..MaxFrames /\ seen \in 0..frame_nr /\ gap \in 0..seen
  BY DEF N!TypeOK
<1>2. frame_nr \in Nat /\ frame_nr <= MaxFrames
  BY <1>1, FramesAssumption
<1>3. dpb \subseteq 1..frame_nr
  BY <1>2 DEF N!TypeOK
<1>4. \A f \in 1..frame_nr : f \in 1..MaxFrames
  BY <1>2, FramesAssumption
<1>5. \A f \in 1..frame_nr : reference[f] \in Nat /\ reference[f] < f
  BY <1>4 DEF N!TypeOK
<1> QED BY <1>1, <1>2, <1>3, <1>5 DEF N!TypeOK

LEMMA ReinitInv ==
  ASSUME N!IInv, N!Reinit
  PROVE  N!IInv'
<1>0. /\ N!TypeOK /\ N!RequestsAreOld /\ N!LastRangeIsGone
      /\ N!ShownAreDecodable /\ (overtaken \/ N!FramesInv)
  BY DEF N!IInv
<1>1. /\ last_encoded_frame_index' = 0 /\ last_rfi_range' = <<0, 0>>
      /\ dpb' = {} /\ rfi_needs_confirmation' = FALSE
      /\ UNCHANGED <<rfi, frame_nr, reference, marked,
                     invalidate_ref_frames_events, idr_asked,
                     seen, gap, client_waits, shown, overtaken>>
  BY DEF N!Reinit, N!eventVars, N!clientVars, N!NoRange
<1>2. N!TypeOK'
  BY <1>0, <1>1 DEF N!TypeOK
<1>3. N!RequestsAreOld'
  BY <1>0, <1>1 DEF N!RequestsAreOld, N!Pending, N!First, N!Last
<1>4. N!LastRangeIsGone' /\ N!ShownAreDecodable'
  BY <1>0, <1>1 DEF N!LastRangeIsGone, N!ShownAreDecodable
<1>5. ASSUME N!FramesInv PROVE N!FramesInv'
  <2>1. N!Pending' => ~N!Settled'
    <3>1. N!Pending => 1 <= N!First /\ N!First <= N!Last
                       /\ N!First \in Nat /\ N!Last \in Nat
      BY <1>0 DEF N!RequestsAreOld, N!First, N!Last
    <3>2. N!Pending' = N!Pending /\ N!First' = N!First /\ N!Last' = N!Last
      BY <1>1 DEF N!Pending, N!First, N!Last
    <3>3. N!Settled' => N!Last <= 0
      BY <1>1, <3>2 DEF N!Settled
    <3> QED BY <3>1, <3>2, <3>3
  <2>2. N!ShownBeforeRequest' /\ N!ShownBeforeGap' /\ N!ShownWhenDone'
    BY <1>1 DEF N!ShownBeforeRequest, N!ShownBeforeGap, N!ShownWhenDone,
                N!ShownBelow
  <2>3. N!UnderWayDecode' /\ N!MarkedDecode'
    BY <1>1, <1>5 DEF N!FramesInv, N!UnderWayDecode, N!MarkedDecode
  <2>4. N!SettledIsOver'
    BY <2>1 DEF N!SettledIsOver
  <2>5. N!AnswerComes' /\ N!AnswersBegin'
    BY <1>1, <1>5 DEF N!FramesInv, N!AnswerComes, N!AnswersBegin,
                      N!Answers, N!Asked, N!Pending
  <2> QED BY <2>2, <2>3, <2>4, <2>5 DEF N!FramesInv
<1> QED BY <1>0, <1>1, <1>2, <1>3, <1>4, <1>5 DEF N!IInv

(* A frame arrives or is lost: what does not depend on the invariant.      *)
LEMMA ClientTypes ==
  ASSUME N!TypeOK, N!RequestsAreOld, N!LastRangeIsGone,
         seen < frame_nr, seen' = seen + 1, gap' \in 0..seen',
         client_waits' \in BOOLEAN, overtaken' \in BOOLEAN,
         idr_asked' \in BOOLEAN, shown' \subseteq shown \cup {seen'},
         UNCHANGED <<rfi, frame_nr, last_encoded_frame_index, dpb,
                     last_rfi_range, rfi_needs_confirmation, reference,
                     marked>>,
         \/ UNCHANGED invalidate_ref_frames_events
         \/ gap # 0 /\ invalidate_ref_frames_events' = <<gap, seen>>
  PROVE  N!TypeOK' /\ N!RequestsAreOld' /\ N!LastRangeIsGone'
<1>1. frame_nr \in Nat /\ seen \in Nat /\ gap \in Nat /\ gap <= seen
      /\ shown \subseteq 1..seen
  BY FramesParts
<1>2. seen' \in 0..frame_nr /\ seen' \in 1..seen'
      /\ \A f \in 1..seen : f \in 1..seen'
  BY <1>1
<1>3. N!TypeOK'
  BY <1>1, <1>2 DEF N!TypeOK
<1>4. N!LastRangeIsGone'
  BY DEF N!LastRangeIsGone
<1>5. N!RequestsAreOld'
  <2>1. CASE UNCHANGED invalidate_ref_frames_events
    <3>1. N!Last \in Nat
      BY DEF N!RequestsAreOld, N!Last
    <3> QED BY <1>1, <2>1, <3>1 DEF N!RequestsAreOld, N!Pending, N!First, N!Last
  <2>2. CASE gap # 0 /\ invalidate_ref_frames_events' = <<gap, seen>>
    BY <1>1, <2>2 DEF N!RequestsAreOld, N!Pending, N!First, N!Last
  <2> QED BY <2>1, <2>2
<1> QED BY <1>3, <1>4, <1>5

LEMMA LostInv ==
  ASSUME N!IInv, N!Lost
  PROVE  N!IInv'
<1>0. /\ N!TypeOK /\ N!RequestsAreOld /\ N!LastRangeIsGone
      /\ N!ShownAreDecodable /\ (overtaken \/ N!FramesInv)
  BY DEF N!IInv
<1>1. /\ seen < frame_nr /\ seen' = seen + 1
      /\ gap' = IF gap = 0 THEN seen' ELSE gap
      /\ UNCHANGED <<rfi, frame_nr, last_encoded_frame_index, dpb,
                     last_rfi_range, rfi_needs_confirmation, reference,
                     marked, invalidate_ref_frames_events, idr_asked,
                     client_waits, shown, overtaken>>
  BY DEF N!Lost, N!encoderVars, N!eventVars
<1>2. /\ frame_nr \in Nat /\ seen \in Nat /\ gap \in Nat /\ gap <= seen
      /\ marked \subseteq 1..frame_nr /\ last_rfi_range[2] \in Nat
  BY <1>0, FramesParts
<1>3. gap' \in 0..seen' /\ gap' # 0
  BY <1>1, <1>2
<1>4. N!TypeOK' /\ N!RequestsAreOld' /\ N!LastRangeIsGone'
  <2>1. client_waits \in BOOLEAN /\ overtaken \in BOOLEAN /\ idr_asked \in BOOLEAN
    BY <1>0 DEF N!TypeOK
  <2> QED BY <1>0, <1>1, <1>3, <2>1, ClientTypes
<1>5. N!ShownAreDecodable'
  BY <1>0, <1>1 DEF N!ShownAreDecodable
<1>6. ASSUME N!FramesInv PROVE N!FramesInv'
  <2>0. /\ N!ShownBeforeRequest /\ N!ShownBeforeGap /\ N!ShownWhenDone
        /\ N!SettledIsOver /\ N!MarkedDecode /\ N!AnswersBegin
    BY <1>6 DEF N!FramesInv
  <2>1. N!ShownBeforeRequest'
    BY <1>1, <2>0 DEF N!ShownBeforeRequest, N!ShownBelow, N!Pending, N!First
  <2>2. N!ShownBeforeGap'
    <3>0. /\ N!Pending' = N!Pending /\ N!Settled' = N!Settled
          /\ \A n : N!ShownBelow(n)' = N!ShownBelow(n)
      BY <1>1 DEF N!Pending, N!Settled, N!First, N!Last, N!ShownBelow
    <3>1. CASE gap # 0
      BY <1>1, <2>0, <3>1
         DEF N!ShownBeforeGap, N!Pending, N!Settled, N!First, N!Last,
             N!ShownBelow
    <3>2. CASE gap = 0
      <4> SUFFICES ASSUME ~idr_asked, ~N!ShownBelow(seen + 1)
                   PROVE  N!Pending /\ (N!Settled
                                          => seen + 1 <= last_rfi_range[2] + 1)
        BY <1>1, <3>0, <3>2
           DEF N!ShownBeforeGap, N!Pending, N!Settled, N!First, N!Last,
               N!ShownBelow
      <4>1. client_waits /\ N!Pending
        BY <2>0, <3>2 DEF N!ShownWhenDone, N!Asked
      <4>2. N!Settled => ~(seen > last_rfi_range[2])
        BY <2>0, <3>2, <4>1 DEF N!SettledIsOver
      <4> QED BY <1>2, <4>1, <4>2
    <3> QED BY <3>1, <3>2
  <2>3. /\ N!ShownWhenDone' /\ N!UnderWayDecode' /\ N!SettledIsOver'
        /\ N!AnswerComes'
    BY <1>3 DEF N!ShownWhenDone, N!UnderWayDecode, N!SettledIsOver,
                N!AnswerComes
  <2>4. N!MarkedDecode'
    <3>1. \A f \in marked : f > seen + 1 => f > seen
      BY <1>2
    <3> QED BY <1>1, <2>0, <3>1 DEF N!MarkedDecode
  <2>5. N!AnswersBegin'
    <3>1. \A m \in seen + 2 .. frame_nr : m \in seen + 1 .. frame_nr
      BY <1>2
    <3>2. seen' + 1 = seen + 2
      BY <1>1, <1>2
    <3> QED BY <1>1, <2>0, <3>1, <3>2 DEF N!AnswersBegin, N!Answers
  <2> QED BY <2>1, <2>2, <2>3, <2>4, <2>5 DEF N!FramesInv
<1> QED BY <1>0, <1>1, <1>4, <1>5, <1>6 DEF N!IInv

(* The client shows the next frame: it misses nothing, or the frame is one *)
(* that answers a loss.                                                    *)
LEMMA ShownStep ==
  ASSUME N!TypeOK, N!FramesInv, seen < frame_nr, seen' = seen + 1,
         gap' = 0, ~client_waits', shown' = shown \cup {seen'},
         (gap = 0 /\ ~client_waits) \/ N!Answers(seen + 1),
         UNCHANGED <<frame_nr, dpb, reference, marked>>
  PROVE  /\ reference[seen'] \in shown \cup {0}
         /\ N!ShownBeforeGap' /\ N!ShownWhenDone' /\ N!UnderWayDecode'
         /\ N!SettledIsOver' /\ N!AnswerComes' /\ N!MarkedDecode'
         /\ N!AnswersBegin'
<1> DEFINE x == seen + 1
<1>0. /\ N!ShownWhenDone /\ N!UnderWayDecode /\ N!MarkedDecode
      /\ N!AnswersBegin
  BY DEF N!FramesInv
<1>1. /\ frame_nr \in Nat /\ seen \in Nat
      /\ x \in seen + 1 .. frame_nr /\ x > seen /\ x \in Nat
      /\ x \in 1..frame_nr
      /\ \A f \in 1..frame_nr : reference[f] \in Nat /\ reference[f] < f
      /\ \A g \in dpb : g \in Nat
  BY FramesParts
<1>2. seen' = x /\ shown' = shown \cup {x}
  OBVIOUS
<1>3. ASSUME NEW g \in dpb, ~(g >= x) PROVE g \in shown
  <2>1. g < seen + 1
    BY <1>1, <1>3
  <2>2. CASE gap = 0 /\ ~client_waits
    BY <1>0, <1>3, <2>1, <2>2 DEF N!ShownWhenDone, N!ShownBelow
  <2>3. CASE N!Answers(x)
    BY <1>0, <1>1, <1>3, <2>3 DEF N!AnswersBegin
  <2> QED BY <2>2, <2>3
<1>4. ASSUME NEW f \in x + 1 .. frame_nr
      PROVE  reference[f] \in shown \cup {0} \/ reference[f] >= x
  <2>1. f \in seen + 1 .. frame_nr /\ f \in 1..frame_nr
    BY <1>1, <1>4
  <2>2. CASE gap = 0 /\ ~client_waits
    BY <1>0, <1>1, <2>1, <2>2 DEF N!UnderWayDecode
  <2>3. CASE N!Answers(x)
    BY <1>0, <1>1, <1>4, <2>3 DEF N!AnswersBegin
  <2> QED BY <2>2, <2>3
<1>5. reference[x] \in shown \cup {0}
  <2>1. CASE gap = 0 /\ ~client_waits
    <3>1. ~(reference[x] > seen)
      BY <1>1
    <3> QED BY <1>0, <1>1, <2>1, <3>1 DEF N!UnderWayDecode
  <2>2. CASE N!Answers(x)
    BY <1>0, <1>1, <2>2 DEF N!Answers, N!MarkedDecode
  <2> QED BY <2>1, <2>2
<1> HIDE DEF x
<1>6. N!ShownBeforeGap' /\ N!SettledIsOver' /\ N!AnswerComes'
  BY DEF N!ShownBeforeGap, N!SettledIsOver, N!AnswerComes
<1>7. N!ShownWhenDone'
  <2>1. \A g \in dpb : g < x + 1 => g \in shown \cup {x}
    <3> SUFFICES ASSUME NEW g \in dpb, g < x + 1 PROVE g = x \/ ~(g >= x)
      BY <1>3
    <3> QED BY <1>1
  <2> QED BY <1>2, <2>1 DEF N!ShownWhenDone, N!ShownBelow
<1>8. N!UnderWayDecode'
  <2>1. \A f \in x + 1 .. frame_nr :
          reference[f] \in shown \cup {x} \cup {0} \/ reference[f] > x
    <3> SUFFICES ASSUME NEW f \in x + 1 .. frame_nr, reference[f] >= x
                 PROVE  reference[f] = x \/ reference[f] > x
      BY <1>4
    <3>1. f \in 1..frame_nr
      BY <1>1
    <3> QED BY <1>1, <3>1
  <2> QED BY <1>2, <2>1 DEF N!UnderWayDecode
<1>9. N!MarkedDecode'
  <2>1. \A f \in marked : f > x => f > seen
    <3>1. marked \subseteq 1..frame_nr
      BY FramesParts
    <3> QED BY <1>1, <3>1
  <2> QED BY <1>0, <1>2, <2>1 DEF N!MarkedDecode
<1>10. N!AnswersBegin'
  <2>1. \A m \in x + 1 .. frame_nr : m \in seen + 1 .. frame_nr
    BY <1>1
  <2> QED BY <1>0, <1>2, <2>1 DEF N!AnswersBegin, N!Answers
<1> QED BY <1>2, <1>5, <1>6, <1>7, <1>8, <1>9, <1>10

(* The client waits on: the frame is no answer.                            *)
LEMMA HeldStep ==
  ASSUME N!TypeOK, N!LastRangeIsGone, N!RequestsAreOld',
         N!FramesInv, seen < frame_nr, seen' = seen + 1,
         gap' = 0, client_waits', shown' = shown, ~N!Answers(seen + 1),
         \/ /\ gap = 0 /\ client_waits
            /\ UNCHANGED <<invalidate_ref_frames_events, idr_asked>>
         \/ N!Asked' /\ (idr_asked' \/ N!Last' = seen),
         UNCHANGED <<frame_nr, dpb, reference, marked, last_rfi_range>>
  PROVE  /\ N!ShownBeforeGap' /\ N!ShownWhenDone' /\ N!UnderWayDecode'
         /\ N!SettledIsOver' /\ N!AnswerComes' /\ N!MarkedDecode'
         /\ N!AnswersBegin'
<1> DEFINE x == seen + 1
           p == last_rfi_range[1]
           q == last_rfi_range[2]
<1>0. /\ N!ShownWhenDone /\ N!MarkedDecode /\ N!AnswersBegin
      /\ N!SettledIsOver /\ N!AnswerComes
  BY DEF N!FramesInv
<1>1. /\ frame_nr \in Nat /\ seen \in Nat /\ p \in Nat /\ q \in Nat
      /\ x \in Nat /\ marked \subseteq 1..frame_nr
      /\ \A g \in dpb : g \in Nat
  BY FramesParts
<1>2. seen' = x
  OBVIOUS
<1>3. x \notin marked
  BY DEF N!Answers
<1>4. ASSUME ~N!Asked' PROVE gap = 0 /\ client_waits /\ ~N!Asked
  BY <1>4 DEF N!Asked, N!Pending
<1>5. ASSUME ~N!Asked'
      PROVE  \E m \in x + 1 .. frame_nr :
               N!Answers(m) /\ \A g \in dpb : g > seen => g >= m
  <2>1. PICK m \in seen + 1 .. frame_nr :
          N!Answers(m) /\ \A g \in dpb : g > seen => g >= m
    BY <1>0, <1>4, <1>5 DEF N!AnswerComes
  <2>2. m # x
    BY <2>1
  <2>3. m \in x + 1 .. frame_nr
    BY <1>1, <2>2
  <2> QED BY <2>1, <2>3
<1>6. N!ShownBeforeGap' /\ N!UnderWayDecode'
  BY DEF N!ShownBeforeGap, N!UnderWayDecode
<1>7. N!ShownWhenDone'
  <2> SUFFICES ASSUME ~N!Asked', NEW g \in dpb, g < x + 1 PROVE g \in shown
    BY <1>2 DEF N!ShownWhenDone, N!ShownBelow
  <2>1. PICK m \in x + 1 .. frame_nr : \A h \in dpb : h > seen => h >= m
    BY <1>5
  <2>2. g < seen + 1
    BY <1>1, <2>1
  <2> QED BY <1>0, <1>4, <2>2 DEF N!ShownWhenDone, N!ShownBelow
<1>8. N!SettledIsOver'
  <2> SUFFICES ASSUME N!Pending', ~idr_asked', N!Settled', x > q
               PROVE  FALSE
    BY <1>2 DEF N!SettledIsOver
  <2>1. /\ N!First' \in Nat /\ N!Last' \in Nat
        /\ 1 <= N!First' /\ N!First' <= N!Last'
    BY DEF N!RequestsAreOld, N!First, N!Last
  <2>2. N!First' >= p /\ N!Last' <= q
    BY DEF N!Settled
  <2>3. seen <= q
    <3>1. CASE gap = 0 /\ client_waits
               /\ UNCHANGED <<invalidate_ref_frames_events, idr_asked>>
      <4>1. N!Pending /\ N!Settled /\ ~idr_asked
        BY <3>1 DEF N!Pending, N!Settled, N!First, N!Last
      <4> QED BY <1>0, <1>1, <3>1, <4>1 DEF N!SettledIsOver
    <3>2. CASE N!Last' = seen
      BY <2>2, <3>2
    <3> QED BY <3>1, <3>2
  <2>4. q = seen /\ 1 <= p /\ p <= q
    <3>1. p = 0 => q = 0
      BY DEF N!LastRangeIsGone
    <3> QED BY <1>1, <2>1, <2>2, <2>3, <3>1
  <2>5. q + 1 \in marked
    BY <2>4 DEF N!LastRangeIsGone
  <2> QED BY <1>3, <2>4, <2>5
<1>9. N!AnswerComes'
  <2> SUFFICES ASSUME ~N!Asked'
               PROVE  \E m \in x + 1 .. frame_nr :
                        N!Answers(m) /\ \A g \in dpb : g > x => g >= m
    BY <1>2 DEF N!AnswerComes, N!Answers
  <2>1. \A g \in dpb : g > x => g > seen
    BY <1>1
  <2> HIDE DEF x
  <2> QED BY <1>5, <2>1
<1>10. N!MarkedDecode'
  <2>1. \A f \in marked : f > x => f > seen
    BY <1>1
  <2> QED BY <1>0, <1>2, <2>1 DEF N!MarkedDecode
<1>11. N!AnswersBegin'
  <2>1. \A m \in x + 1 .. frame_nr : m \in seen + 1 .. frame_nr
    BY <1>1
  <2> QED BY <1>0, <1>2, <2>1 DEF N!AnswersBegin, N!Answers
<1> QED BY <1>6, <1>7, <1>8, <1>9, <1>10, <1>11

(* The next frame arrives; or one arrives after a loss, and what was lost  *)
(* is asked for.                                                           *)
LEMMA ArrivesInv ==
  ASSUME N!IInv,
         N!Arrives \/ \E byRange \in BOOLEAN : N!ArrivesAfterLoss(byRange)
  PROVE  N!IInv'
<1> DEFINE x == seen + 1
<1>0. /\ N!TypeOK /\ N!RequestsAreOld /\ N!LastRangeIsGone
      /\ N!ShownAreDecodable /\ (overtaken \/ N!FramesInv)
  BY DEF N!IInv
<1>1. /\ seen < frame_nr /\ seen' = x /\ gap' = 0
      /\ UNCHANGED <<rfi, frame_nr, last_encoded_frame_index, dpb,
                     last_rfi_range, rfi_needs_confirmation, reference,
                     marked>>
      /\ shown' = IF client_waits' THEN shown ELSE shown \cup {x}
      /\ \/ /\ gap = 0 /\ client_waits' = (client_waits /\ ~N!Answers(x))
            /\ UNCHANGED <<invalidate_ref_frames_events, idr_asked, overtaken>>
         \/ /\ gap # 0 /\ client_waits' = ~N!Answers(x)
            /\ invalidate_ref_frames_events' = <<gap, seen>>
            /\ overtaken' = (overtaken \/ N!Pending) /\ idr_asked' = idr_asked
         \/ /\ gap # 0 /\ client_waits' = ~N!Answers(x)
            /\ idr_asked' = TRUE
            /\ UNCHANGED <<invalidate_ref_frames_events, overtaken>>
  BY DEF N!Arrives, N!ArrivesAfterLoss, N!Show, N!Answers, N!encoderVars,
         N!eventVars, N!Pending
<1>2. frame_nr \in Nat /\ seen \in Nat /\ gap \in Nat /\ gap <= seen
      /\ shown \subseteq 1..seen
  BY <1>0, FramesParts
<1>3. /\ client_waits \in BOOLEAN /\ overtaken \in BOOLEAN
      /\ idr_asked \in BOOLEAN /\ client_waits' \in BOOLEAN
      /\ idr_asked' \in BOOLEAN /\ overtaken' \in BOOLEAN
  <2>1. client_waits \in BOOLEAN /\ overtaken \in BOOLEAN
        /\ idr_asked \in BOOLEAN
    BY <1>0 DEF N!TypeOK
  <2> QED BY <1>1, <2>1, Zenon
<1>4. gap' \in 0..seen' /\ shown' \subseteq shown \cup {seen'}
  BY <1>1, <1>2
<1>5. N!TypeOK' /\ N!RequestsAreOld' /\ N!LastRangeIsGone'
  BY <1>0, <1>1, <1>3, <1>4, ClientTypes
<1>6. overtaken => overtaken'
  BY <1>1
<1>7. ASSUME N!FramesInv, ~overtaken'
      PROVE  N!ShownAreDecodable' /\ N!FramesInv'
  <2>1. N!ShownBeforeRequest'
    <3>0. N!ShownBeforeRequest /\ N!ShownBeforeGap /\ shown \subseteq shown'
      BY <1>1, <1>7 DEF N!FramesInv
    <3>1. CASE UNCHANGED invalidate_ref_frames_events
               /\ (idr_asked => idr_asked')
      <4>1. N!Pending' = N!Pending /\ N!First' = N!First
        BY <3>1 DEF N!Pending, N!First
      <4>2. N!Pending => idr_asked' \/ \A g \in dpb : g < N!First => g \in shown
        BY <3>0, <3>1 DEF N!ShownBeforeRequest, N!ShownBelow
      <4> QED BY <1>1, <3>0, <4>1, <4>2 DEF N!ShownBeforeRequest, N!ShownBelow
    <3>2. CASE /\ gap # 0 /\ invalidate_ref_frames_events' = <<gap, seen>>
               /\ overtaken' = (overtaken \/ N!Pending)
               /\ idr_asked' = idr_asked
      <4>1. ~N!Pending /\ N!First' = gap
        BY <1>7, <3>2 DEF N!First
      <4>2. idr_asked' \/ \A g \in dpb : g < gap => g \in shown
        BY <3>0, <3>2, <4>1 DEF N!ShownBeforeGap, N!ShownBelow
      <4> QED BY <1>1, <3>0, <4>1, <4>2 DEF N!ShownBeforeRequest, N!ShownBelow
    <3> QED BY <1>1, <3>1, <3>2
  <2>2. CASE ~client_waits'
    <3>1. (gap = 0 /\ ~client_waits) \/ N!Answers(x)
      BY <1>1, <2>2
    <3>2. shown' = shown \cup {seen'}
      BY <1>1, <2>2
    <3>3. /\ reference[seen'] \in shown \cup {0}
          /\ N!ShownBeforeGap' /\ N!ShownWhenDone' /\ N!UnderWayDecode'
          /\ N!SettledIsOver' /\ N!AnswerComes' /\ N!MarkedDecode'
          /\ N!AnswersBegin'
      BY <1>0, <1>1, <1>7, <2>2, <3>1, <3>2, ShownStep
    <3>4. N!ShownAreDecodable'
      BY <1>0, <1>1, <1>6, <1>7, <3>2, <3>3 DEF N!ShownAreDecodable
    <3> QED BY <2>1, <3>3, <3>4 DEF N!FramesInv
  <2>3. CASE client_waits'
    <3>1. ~N!Answers(x) /\ shown' = shown
      BY <1>1, <1>3, <2>3
    <3>2. \/ /\ gap = 0 /\ client_waits
             /\ UNCHANGED <<invalidate_ref_frames_events, idr_asked>>
          \/ N!Asked' /\ (idr_asked' \/ N!Last' = seen)
      <4>1. ASSUME gap # 0, invalidate_ref_frames_events' = <<gap, seen>>
            PROVE  N!Asked' /\ N!Last' = seen
        BY <4>1 DEF N!Asked, N!Pending, N!NoRange, N!Last
      <4>2. ASSUME idr_asked' PROVE N!Asked'
        BY <4>2 DEF N!Asked
      <4> QED BY <1>1, <1>3, <2>3, <4>1, <4>2
    <3>3. /\ N!ShownBeforeGap' /\ N!ShownWhenDone' /\ N!UnderWayDecode'
          /\ N!SettledIsOver' /\ N!AnswerComes' /\ N!MarkedDecode'
          /\ N!AnswersBegin'
      BY <1>0, <1>1, <1>5, <1>7, <2>3, <3>1, <3>2, HeldStep
    <3>4. N!ShownAreDecodable'
      BY <1>0, <1>1, <1>6, <1>7, <3>1 DEF N!ShownAreDecodable
    <3> QED BY <2>1, <3>3, <3>4 DEF N!FramesInv
  <2> QED BY <2>2, <2>3
<1> QED BY <1>0, <1>5, <1>6, <1>7 DEF N!IInv, N!ShownAreDecodable

(* The invariant of NvencFrames is inductive.                              *)
LEMMA FramesNext ==
  ASSUME N!IInv, [N!Next]_N!vars
  PROVE  N!IInv'
<1>1. ASSUME N!encode_frame PROVE N!IInv'
  <2>1. overtaken' = overtaken
    BY <1>1, EncodeSteps DEF N!IInv
  <2> QED BY <1>1, <2>1, EncodeTypes, EncodeInv DEF N!IInv
<1>2. ASSUME UNCHANGED N!vars PROVE N!IInv'
  <2>1. UNCHANGED nvencVars
    BY <1>2 DEF N!vars, N!encoderVars, N!clientVars, N!eventVars, nvencVars
  <2>2. N!TypeOK' /\ N!RequestsAreOld' /\ N!LastRangeIsGone'
        /\ N!ShownAreDecodable'
    BY <2>1 DEF N!IInv, nvencVars, N!TypeOK, N!RequestsAreOld, N!Pending,
       N!First, N!Last, N!LastRangeIsGone, N!ShownAreDecodable
  <2>3. N!FramesInv => N!FramesInv'
    <3>1. /\ N!Pending' = N!Pending /\ N!Asked' = N!Asked
          /\ N!First' = N!First /\ N!Settled' = N!Settled
      BY <2>1 DEF nvencVars, N!Pending, N!Asked, N!First, N!Last, N!Settled
    <3>2. N!ShownBeforeRequest /\ N!ShownBeforeGap /\ N!ShownWhenDone
          => N!ShownBeforeRequest' /\ N!ShownBeforeGap' /\ N!ShownWhenDone'
      BY <2>1, <3>1 DEF nvencVars, N!ShownBeforeRequest, N!ShownBeforeGap,
                        N!ShownWhenDone, N!ShownBelow
    <3>3. N!UnderWayDecode /\ N!SettledIsOver
          => N!UnderWayDecode' /\ N!SettledIsOver'
      BY <2>1, <3>1 DEF nvencVars, N!UnderWayDecode, N!SettledIsOver
    <3>4. N!AnswerComes /\ N!MarkedDecode /\ N!AnswersBegin
          => N!AnswerComes' /\ N!MarkedDecode' /\ N!AnswersBegin'
      BY <2>1, <3>1 DEF nvencVars, N!AnswerComes, N!MarkedDecode,
                        N!AnswersBegin, N!Answers
    <3> QED BY <3>2, <3>3, <3>4 DEF N!FramesInv
  <2>4. overtaken' = overtaken
    BY <2>1 DEF nvencVars
  <2> QED BY <2>2, <2>3, <2>4 DEF N!IInv
<1> QED BY <1>1, <1>2, ReinitInv, LostInv, ArrivesInv DEF N!Next

LEMMA FramesInit ==
  ASSUME N!Init
  PROVE  N!IInv
<1> USE DEF N!Init, N!NoRange
<1>1. N!TypeOK
  <2>1. reference \in [1..MaxFrames -> Nat] /\ frame_nr \in 0..MaxFrames
    BY FramesAssumption
  <2>2. rfi \in BOOLEAN /\ idr_asked \in BOOLEAN /\ client_waits \in BOOLEAN
        /\ overtaken \in BOOLEAN
    BY Zenon
  <2>3. last_rfi_range \in Nat \X Nat /\ seen \in 0..frame_nr
        /\ gap \in 0..seen
    OBVIOUS
  <2>4. dpb = {} /\ marked = {} /\ shown = {}
        /\ rfi_needs_confirmation = FALSE /\ last_encoded_frame_index = 0
        /\ \A f \in 1..frame_nr : reference[f] < f
    OBVIOUS
  <2> QED BY <2>1, <2>2, <2>3, <2>4, Zenon DEF N!TypeOK
<1>2. N!RequestsAreOld /\ N!LastRangeIsGone /\ N!ShownAreDecodable
  BY DEF N!RequestsAreOld, N!Pending, N!LastRangeIsGone, N!ShownAreDecodable
<1>3. N!ShownBeforeRequest /\ N!ShownBeforeGap /\ N!ShownWhenDone
  BY DEF N!ShownBeforeRequest, N!Pending, N!ShownBeforeGap, N!ShownWhenDone,
         N!ShownBelow
<1>4. N!UnderWayDecode /\ N!SettledIsOver /\ N!AnswerComes /\ N!MarkedDecode
      /\ N!AnswersBegin
  BY DEF N!UnderWayDecode, N!SettledIsOver, N!Pending, N!AnswerComes,
         N!MarkedDecode, N!AnswersBegin
<1> QED BY <1>1, <1>2, <1>3, <1>4 DEF N!IInv, N!FramesInv

-----------------------------------------------------------------------------
(* VideoBroadcast: what has been lost is made up for by drop_until_idr, or *)
(* was not noticed.                                                        *)
Covered == drop_until_idr \/ intact \/ unnoticed

LEMMA CoveredNext ==
  ASSUME Covered, [V!Next]_V!vars
  PROVE  Covered' /\ V!SentDecodes
<1>1. V!Encode => Covered' /\ V!SentDecodes
  <2> SUFFICES ASSUME V!Encode PROVE Covered' /\ V!SentDecodes
    OBVIOUS
  <2> DEFINE full == Len(packets) >= MaxQueue
  <2>1. /\ unnoticed' = (unnoticed \/ full) /\ intact' = (intact /\ ~full)
        /\ drop_until_idr' = drop_until_idr /\ sending' = sending
    BY DEF V!Encode
  <2> HIDE DEF full
  <2> QED BY <2>1, Zenon DEF Covered, V!SentDecodes
<1>2. V!ClientAsks \/ V!TimePasses => Covered' /\ V!SentDecodes
  BY DEF V!ClientAsks, V!TimePasses, Covered, V!SentDecodes
<1>3. V!DropStale \/ V!Skip => Covered' /\ V!SentDecodes
  BY DEF V!DropStale, V!Skip, Covered, V!SentDecodes
<1>4. V!BeginFrame => Covered' /\ V!SentDecodes
  <2> SUFFICES ASSUME V!BeginFrame PROVE Covered' /\ V!SentDecodes
    OBVIOUS
  <2>1. /\ drop_until_idr => Head(packets).idr
        /\ intact' = (intact \/ Head(packets).idr)
        /\ unnoticed' = (unnoticed /\ ~Head(packets).idr)
    BY DEF V!BeginFrame
  <2>2. PICK n \in 1..MaxBlocks :
          sending' = [idr |-> Head(packets).idr, left |-> n]
    BY DEF V!BeginFrame
  <2>3. sending'.idr = Head(packets).idr
    BY <2>2
  <2> QED BY <2>1, <2>3, Zenon DEF Covered, V!SentDecodes
<1>5. V!SendBlock \/ V!DeadlineExpires \/ V!SendThrows
        => Covered' /\ V!SentDecodes
  BY DEF V!SendBlock, V!DeadlineExpires, V!SendThrows, Covered, V!SentDecodes,
         V!Nothing
<1>6. UNCHANGED V!vars => Covered' /\ V!SentDecodes
  BY DEF V!vars, Covered, V!SentDecodes
<1> QED BY <1>1, <1>2, <1>3, <1>4, <1>5, <1>6 DEF V!Next, V!TakeFrame

-----------------------------------------------------------------------------
(* What a client is sent can be decoded: no picture that depends on one    *)
(* that videoBroadcastThread dropped is sent after it, and a picture that  *)
(* it shows refers to none it has not shown, however losses, the requests  *)
(* for them and nvenc_base::encode_frame cross each other, and for every   *)
(* number of frames that the hardware may refer to.                        *)
THEOREM PicturesAreWhole ==
  MediaSpec => PicturesDecode
<1>1. MediaInit => N!IInv /\ Covered
  <2>1. V!Init => Covered
    BY DEF V!Init, Covered
  <2> QED BY <2>1, FramesInit DEF MediaInit
<1>2. [MediaNext \/ SendingNext]_<<part, partVars>>
        => [V!Next]_V!vars /\ [N!Next]_N!vars
  <2>1. MediaNext \/ UNCHANGED <<part, partVars>>
          => UNCHANGED V!vars /\ UNCHANGED N!vars
    BY DEF MediaNext, partVars, sendingVars, sendVars, nvencVars, V!vars,
           N!vars, N!encoderVars, N!clientVars, N!eventVars
  <2>2. UNCHANGED sendVars => UNCHANGED V!vars
    BY DEF sendVars, V!vars
  <2>3. UNCHANGED nvencVars => UNCHANGED N!vars
    BY DEF nvencVars, N!vars, N!encoderVars, N!clientVars, N!eventVars
  <2>4. SendingNext => [V!Next]_V!vars /\ [N!Next]_N!vars
    BY <2>2, <2>3 DEF SendingNext
  <2> QED BY <2>1, <2>4
<1>3. N!IInv /\ Covered /\ [V!Next]_V!vars /\ [N!Next]_N!vars
        => N!IInv' /\ Covered' /\ V!SentDecodes
  BY FramesNext, CoveredNext
<1>4. N!IInv' => N!ShownAreDecodable'
  BY DEF N!IInv
<1>5. N!IInv /\ Covered /\ [MediaNext \/ SendingNext]_<<part, partVars>>
        => /\ N!IInv' /\ Covered'
           /\ [V!SentDecodes /\ N!ShownAreDecodable']_<<sendVars, nvencVars>>
  BY <1>2, <1>3, <1>4
<1> QED BY <1>1, <1>5, PTL DEF MediaSpec, PicturesDecode

-----------------------------------------------------------------------------
(* DisplayList.                                                            *)

(* The place of a name in a list is in its bounds, and one where it is.    *)
LEMMA IndexOfFinds ==
  ASSUME NEW list \in Seq(L!AllNames), list # <<>>, NEW name
  PROVE  /\ L!IndexOf(list, name) \in 0 .. Len(list) - 1
         /\ (\E i \in DOMAIN list : list[i] = name)
              => list[L!IndexOf(list, name) + 1] = name
<1> DEFINE places == {i \in DOMAIN list : list[i] = name}
<1>1. DOMAIN list = 1..Len(list) /\ Len(list) \in Nat /\ Len(list) > 0
  OBVIOUS
<1>2. CASE places = {}
  <2>1. L!IndexOf(list, name) = 0
    BY <1>2 DEF L!IndexOf
  <2> QED BY <1>1, <1>2, <2>1
<1>3. CASE places # {}
  <2> DEFINE least == CHOOSE i \in places : \A j \in places : i <= j
  <2>1. places \in SUBSET Nat
    BY <1>1
  <2>2. \E i \in places : \A j \in places : i <= j
    <3> HIDE DEF places
    <3> QED BY <1>3, <2>1, LeastNumber
  <2>3. least \in places
    <3> HIDE DEF places
    <3> QED BY <2>2
  <2>4. L!IndexOf(list, name) = least - 1
    BY <1>3 DEF L!IndexOf
  <2> HIDE DEF least
  <2>5. least \in 1..Len(list) /\ list[least] = name
    BY <1>1, <2>3
  <2>6. least - 1 \in 0..Len(list) - 1 /\ least - 1 + 1 = least
    BY <1>1, <2>5
  <2> QED BY <2>4, <2>5, <2>6
<1> QED BY <1>2, <1>3

LEMMA NamesAreAList ==
  ASSUME L!IInv, NEW found \in Displays, NEW after \in Displays
  PROVE  /\ L!Names(found, after) \in Seq(L!AllNames)
         /\ L!Names(found, after) # <<>>
<1>1. found \in Seq(L!AllNames) /\ after \in Seq(L!AllNames)
      /\ display_names \in Seq(L!AllNames) /\ <<output_name>> \in Seq(L!AllNames)
  <2>1. output_name \in L!AllNames /\ display_names \in Seq(L!AllNames)
    BY DEF L!IInv
  <2>2. <<output_name>> \in Seq(L!AllNames)
    BY <2>1
  <2>3. found \in Seq(L!AllNames) /\ after \in Seq(L!AllNames)
    BY ListsAssumption, Zenon
  <2> QED BY <2>1, <2>2, <2>3
<1>2. <<output_name>> # <<>>
  OBVIOUS
<1> QED BY <1>1, <1>2 DEF L!Names

DisplayKept ==
  /\ display_names' # <<>> =>
       current_display_index' \in 0 .. Len(display_names') - 1
  /\ (/\ L!Current # ""
      /\ display_names' # display_names
      /\ \E i \in DOMAIN display_names' : display_names'[i] = L!Current)
        => L!Current' = L!Current

LEMMA ListNext ==
  ASSUME L!IInv, [L!Next]_L!listVars
  PROVE  L!IInv' /\ DisplayKept
<1>1. CASE L!Refresh
  <2>1. PICK found \in Displays, after \in Displays :
          L!refresh_displays(found, after)
    BY <1>1 DEF L!Refresh
  <2>2. output_name' = output_name /\ switch_display' = switch_display
    BY <1>1 DEF L!Refresh
  <2>3. /\ display_names' = L!Names(found, after)
        /\ display_names' \in Seq(L!AllNames) /\ display_names' # <<>>
    BY <2>1, NamesAreAList DEF L!refresh_displays
  <2>4. CASE found = <<>> /\ display_names # <<>>
    <3>1. display_names' = display_names
          /\ current_display_index' = current_display_index
      BY <2>1, <2>4 DEF L!refresh_displays, L!Names
    <3> QED BY <2>2, <3>1 DEF L!IInv, DisplayKept
  <2>5. CASE ~(found = <<>> /\ display_names # <<>>)
    <3> DEFINE name == IF L!Current # "" THEN L!Current ELSE output_name
               index == L!IndexOf(display_names', name)
    <3>1. current_display_index' = index
      BY <2>1, <2>5 DEF L!refresh_displays
    <3>2. /\ index \in 0..Len(display_names') - 1
          /\ (\E i \in DOMAIN display_names' : display_names'[i] = name)
               => display_names'[index + 1] = name
      <4> HIDE DEF name
      <4> QED BY <2>3, IndexOfFinds
    <3>3. index \in Int
      <4> HIDE DEF index
      <4>1. Len(display_names') \in Nat
        BY <2>3
      <4>2. \A n \in Nat : \A i \in 0..n - 1 : i \in Int
        OBVIOUS
      <4> QED BY <3>2, <4>1, <4>2, Zenon
    <3> HIDE DEF index
    <3>4. L!Current' = display_names'[index + 1]
      BY <3>1, <3>2 DEF L!Current
    <3>5. L!IInv'
      BY <2>2, <2>3, <3>1, <3>2, <3>3 DEF L!IInv
    <3> QED BY <3>1, <3>2, <3>4, <3>5 DEF DisplayKept
  <2> QED BY <2>4, <2>5
<1>2. CASE L!Switch
  <2>1. /\ switch_display # -1 /\ display_names # <<>> /\ switch_display' = -1
        /\ current_display_index' =
             IF switch_display < Len(display_names)
               THEN switch_display ELSE Len(display_names) - 1
        /\ UNCHANGED <<display_names, output_name>>
    BY <1>2 DEF L!Switch
  <2>2. Len(display_names) \in Nat /\ Len(display_names) > 0
        /\ switch_display \in -1..MaxShortcut
    BY <2>1 DEF L!IInv
  <2>3. current_display_index' \in 0..Len(display_names) - 1
        /\ current_display_index' \in Int
    BY <2>1, <2>2, ListsAssumption
  <2>4. -1 \in -1..MaxShortcut
    BY ListsAssumption
  <2> QED BY <2>1, <2>3, <2>4 DEF L!IInv, DisplayKept
<1>3. CASE L!Shortcut
  <2>1. /\ switch_display' \in -1..MaxShortcut
        /\ UNCHANGED <<display_names, current_display_index, output_name>>
    BY <1>3, ListsAssumption DEF L!Shortcut
  <2> QED BY <2>1 DEF L!IInv, DisplayKept
<1>4. CASE L!Remap \/ UNCHANGED L!listVars
  <2>1. /\ output_name' \in L!AllNames
        /\ UNCHANGED <<display_names, current_display_index, switch_display>>
    BY <1>4 DEF L!Remap, L!listVars, L!IInv, L!AllNames
  <2> QED BY <2>1 DEF L!IInv, DisplayKept
<1> QED BY <1>1, <1>2, <1>3, <1>4 DEF L!Next

(* A reinit goes on with the display that was captured whenever it is      *)
(* still there, and the index never points past the list, whatever list    *)
(* the platform returns and a shortcut asks for (refresh_displays).        *)
THEOREM DisplayStays ==
  MediaSpec => DisplayIsKept
<1>1. MediaInit => L!IInv
  <2>1. <<>> \in Seq(L!AllNames) /\ "" \in L!AllNames
        /\ Outputs \subseteq L!AllNames /\ -1 \in -1..MaxShortcut
        /\ -1 \in Int
    <3>1. <<>> \in Seq(L!AllNames)
      OBVIOUS
    <3>2. "" \in L!AllNames /\ Outputs \subseteq L!AllNames
      BY DEF L!AllNames
    <3>3. -1 \in -1..MaxShortcut /\ -1 \in Int
      BY ListsAssumption
    <3> QED BY <3>1, <3>2, <3>3
  <2>2. MediaInit => /\ display_names = <<>> /\ current_display_index = -1
                     /\ output_name \in L!AllNames /\ switch_display = -1
    BY <2>1 DEF MediaInit, L!Init
  <2> QED BY <2>1, <2>2 DEF L!IInv
<1>2. [MediaNext \/ SendingNext]_<<part, partVars>> => [L!Next]_L!listVars
  <2>1. UNCHANGED listVars => UNCHANGED L!listVars
    BY DEF listVars, L!listVars
  <2>2. MediaNext => [L!Next]_L!listVars
    BY <2>1 DEF MediaNext
  <2>3. SendingNext \/ UNCHANGED <<part, partVars>> => UNCHANGED listVars
    BY DEF SendingNext, partVars, captureVars
  <2> QED BY <2>1, <2>2, <2>3
<1>3. L!IInv /\ [MediaNext \/ SendingNext]_<<part, partVars>>
        => L!IInv' /\ DisplayKept
  BY <1>2, ListNext
<1> QED BY <1>1, <1>3, PTL DEF MediaSpec, DisplayIsKept, L!DisplayIsKept,
                               DisplayKept

-----------------------------------------------------------------------------
(* EncoderProbe.  The first of some encoders is one of them, and none of   *)
(* them is before it in the list.                                          *)
LEMMA FirstOfSome ==
  ASSUME NEW some \in SUBSET P!Names
  PROVE  /\ some = {} => P!FirstOf(some) = None
         /\ some # {} => /\ P!FirstOf(some) \in some
                         /\ \A e \in some : ~P!Before(e, P!FirstOf(some))
<1> DEFINE places == {i \in DOMAIN encoders : encoders[i] \in some}
           first == CHOOSE i \in places : \A j \in places : i <= j
<1>1. CASE some = {}
  BY <1>1 DEF P!FirstOf
<1>2. CASE some # {}
  <2>1. places \in SUBSET Nat /\ places # {}
    BY <1>2, ProbeAssumption DEF P!Names
  <2>2. first \in places /\ \A j \in places : first <= j
    <3>1. \E i \in places : \A j \in places : i <= j
      <4> HIDE DEF places
      <4> QED BY <2>1, LeastNumber
    <3> HIDE DEF places
    <3> QED BY <3>1
  <2>3. P!FirstOf(some) = encoders[first]
    BY <2>1 DEF P!FirstOf
  <2>4. ASSUME NEW e \in some, P!Before(e, encoders[first]) PROVE FALSE
    <3>1. PICK i, j \in DOMAIN encoders :
            i < j /\ encoders[i] = e /\ encoders[j] = encoders[first]
      BY <2>4 DEF P!Before
    <3>2. j = first /\ i \in places
      <4>1. first \in DOMAIN encoders
        BY <2>2
      <4> QED BY <3>1, <4>1, ProbeAssumption
    <3>3. first <= i /\ i \in Nat /\ first \in Nat
      <4> HIDE DEF first, places
      <4> QED BY <2>1, <2>2, <3>2
    <3> HIDE DEF first, places
    <3> QED BY <3>1, <3>2, <3>3
  <2>5. encoders[first] \in some
    BY <2>2
  <2> QED BY <1>2, <2>3, <2>4, <2>5
<1> QED BY <1>1, <1>2

\* What cards may do, of those that the host has.
CardsFit ==
  \A e \in P!Names :
    P!Works(card[e], "h264", "max") => P!Works(card[e], "h264", "auto")

(* Whether an encoder was chosen before changes the order of its checks,   *)
(* and not what they find; nor is there more to the codecs that are asked  *)
(* for than what the checks of them say.                                   *)
LEMMA ChecksFind ==
  ASSUME CardsFit, NEW e \in P!Names
  PROVE  /\ P!Tried(e) <=> P!Usable(e)
         /\ config.hevc >= 2 \/ config.av1 >= 2 =>
              (P!Meets(P!validate_encoder(card[e], config.hevc, config.av1))
                 <=> P!Wanted(e))
<1> DEFINE found == P!validate_encoder(card[e], config.hevc, config.av1)
<1>1. P!Tried(e) <=> P!Usable(e)
  BY DEF P!Tried, P!Usable, P!Viable, CardsFit
<1>2. ASSUME NEW codec \in {"hevc", "av1"}, config[codec] >= 2
      PROVE  /\ "PASSED" \in found[codec] /\ ~P!Lacks(found[codec], config[codec])
                <=> /\ codec \in card[e].listed /\ P!Passes(card[e], codec)
                    /\ config[codec] = 3 => P!Works(card[e], codec, "hdr")
  <2>1. found[codec] = P!Capabilities(card[e], codec, config[codec])
    BY DEF P!validate_encoder
  <2>2. found[codec] =
          IF codec \notin card[e].listed THEN {}
          ELSE IF P!Passes(card[e], codec) THEN P!Found(card[e], codec)
          ELSE P!Untested
    BY <1>2, <2>1 DEF P!Capabilities
  <2>3. /\ "PASSED" \in P!Found(card[e], codec)
        /\ "PASSED" \notin P!Untested
        /\ "DYNAMIC_RANGE" \in P!Found(card[e], codec)
             <=> P!Works(card[e], codec, "hdr")
    BY DEF P!Found, P!ColourFlags, P!Untested, P!Flags
  <2> HIDE DEF found
  <2> QED BY <2>2, <2>3 DEF P!Lacks
<1>3. P!Meets(found) <=> P!Wanted(e)
  <2> HIDE DEF found
  <2> QED BY <1>2 DEF P!Meets, P!Wanted
<1> QED BY <1>1, <1>3

(* A probe chooses an encoder that works if there is one, and of those the *)
(* configured one, or one that has the codecs asked for, whatever was      *)
(* chosen before (probe_encoders).                                         *)
THEOREM ProbeIsBest ==
  P!Init /\ [][P!Next]_P!probeVars => ProbeFindsBest
<1>1. P!Init => CardsFit
  <2> SUFFICES ASSUME P!Init, NEW e \in P!Names
               PROVE  P!Works(card[e], "h264", "max") =>
                        P!Works(card[e], "h264", "auto")
    BY DEF CardsFit
  <2>1. card[e] \in Cards[e]
    BY DEF P!Init
  <2> QED BY <2>1, ProbeAssumption
<1>2. CardsFit /\ [P!Next]_P!probeVars => CardsFit'
  <2> SUFFICES ASSUME CardsFit, [P!Next]_P!probeVars, NEW f \in P!Names
               PROVE  P!Works(card'[f], "h264", "max") =>
                        P!Works(card'[f], "h264", "auto")
    BY DEF CardsFit
  <2>1. CASE card' = card
    BY <2>1 DEF CardsFit
  <2>2. CASE card' # card
    <3>1. PICK e \in P!Names : \E c \in Cards[e] :
            card' = [card EXCEPT ![e] = c]
      BY <2>2 DEF P!Next, P!Change, P!Probe, P!Reenumerate, P!probe_encoders,
         P!probeVars
    <3>2. card'[f] = card[f] \/ card'[f] \in Cards[f]
      BY <3>1
    <3> QED BY <3>2, ProbeAssumption DEF CardsFit
  <2> QED BY <2>1, <2>2
<1>3. ASSUME CardsFit, P!Probe \/ P!Reenumerate
      PROVE  LET usable == {e \in P!Names : P!Usable(e)}
                 wanted == {e \in usable : P!Wanted(e)}
                 best == IF config.encoder \in usable THEN {config.encoder}
                         ELSE IF wanted # {} THEN wanted
                         ELSE usable
             IN IF usable = {} THEN chosen_encoder' = None
                ELSE /\ chosen_encoder' \in best
                     /\ \A e \in best : ~P!Before(e, chosen_encoder')
  <2> DEFINE usable == {e \in P!Names : P!Usable(e)}
             wanted == {e \in usable : P!Wanted(e)}
             asked == config.hevc >= 2 \/ config.av1 >= 2
  <2>1. usable = {e \in P!Names : P!Tried(e)}
    BY <1>3, ChecksFind
  <2>2. chosen_encoder' = P!Chosen(usable)
    BY <1>3, <2>1 DEF P!Probe, P!Reenumerate, P!probe_encoders
  <2>3. asked => P!Meeting(usable) = wanted
    BY <1>3, ChecksFind DEF P!Meeting
  <2>4. ~asked => wanted = usable
    BY DEF P!Wanted
  <2> HIDE DEF wanted
  <2>5. wanted \subseteq usable /\ usable \subseteq P!Names
    BY DEF wanted
  <2> HIDE DEF usable, asked
  <2> DEFINE best == IF config.encoder \in usable THEN {config.encoder}
                     ELSE IF wanted # {} THEN wanted
                     ELSE usable
  <2>6. IF usable = {} THEN chosen_encoder' = None
        ELSE /\ chosen_encoder' \in best
             /\ \A e \in best : ~P!Before(e, chosen_encoder')
    <3>1. CASE config.encoder \in usable
      <4>1. ~P!Before(config.encoder, config.encoder)
        BY ProbeAssumption DEF P!Before
      <4>2. chosen_encoder' = config.encoder
        BY <2>2, <3>1 DEF P!Chosen
      <4> QED BY <3>1, <4>1, <4>2
    <3>2. CASE config.encoder \notin usable
      <4>1. chosen_encoder' =
              IF asked /\ wanted # {} THEN P!FirstOf(wanted)
              ELSE P!FirstOf(usable)
        BY <2>2, <2>3, <3>2 DEF P!Chosen, asked
      <4>2. best = IF wanted # {} THEN wanted ELSE usable
        BY <3>2
      <4>3. chosen_encoder' = P!FirstOf(best)
        BY <2>4, <4>1, <4>2
      <4>4. best \subseteq P!Names /\ (best = {} <=> usable = {})
        BY <2>5, <4>2
      <4> HIDE DEF best
      <4> QED BY <4>3, <4>4, FirstOfSome
    <3> QED BY <3>1, <3>2
  <2> QED BY <2>6 DEF usable, wanted
<1>4. CardsFit /\ [P!Next]_P!probeVars =>
        [P!Probe \/ P!Reenumerate =>
           LET usable == {e \in P!Names : P!Usable(e)}
               wanted == {e \in usable : P!Wanted(e)}
               best == IF config.encoder \in usable THEN {config.encoder}
                       ELSE IF wanted # {} THEN wanted
                       ELSE usable
           IN IF usable = {} THEN chosen_encoder' = None
              ELSE /\ chosen_encoder' \in best
                   /\ \A e \in best : ~P!Before(e, chosen_encoder')]_P!probeVars
  BY <1>3
<1> QED
  BY <1>1, <1>2, <1>4, PTL DEF ProbeFindsBest, P!ProbeFindsBest

-----------------------------------------------------------------------------
(* DisplayMode.                                                            *)

(* A client that does not let the host optimise gets no other resolution,  *)
(* and what is automatic is what the client asks for.                      *)
LEMMA OptionsRead ==
  ASSUME NEW d \in Settings, NEW s \in Clients,
         M!parse_resolution_option(d, s) # M!Failed,
         M!parse_refresh_rate_option(d, s) # M!Failed
  PROVE  /\ ~s.sops => M!parse_resolution_option(d, s) = M!Unset
         /\ d.resolution = "automatic" /\ s.sops =>
              M!parse_resolution_option(d, s) = s.resolution
         /\ d.refresh_rate = "automatic" =>
              M!parse_refresh_rate_option(d, s) = s.fps
<1>1. /\ ~s.sops => M!parse_resolution_option(d, s) = M!Unset
      /\ d.resolution = "automatic" /\ s.sops =>
           M!parse_resolution_option(d, s) = s.resolution
  BY DEF M!parse_resolution_option
<1>2. d.refresh_rate = "automatic" =>
        M!parse_refresh_rate_option(d, s) = s.fps
  BY DEF M!parse_refresh_rate_option
<1> QED BY <1>1, <1>2

(* An entry has what is not mapped left empty, and so an entry that is     *)
(* valid matches just when it speaks of what the client asks for.          *)
LEMMA MatchesApplies ==
  ASSUME dd \in Settings, session \in Clients,
         M!parse_resolution_option(dd, session) # M!Failed,
         M!parse_refresh_rate_option(dd, session) # M!Failed,
         NEW i
  PROVE  M!Matches(M!Entry(i), session,
                   M!parse_resolution_option(dd, session),
                   M!parse_refresh_rate_option(dd, session))
           <=> M!Applies(i)
<1> DEFINE e == M!Entry(i)
           resolution == M!parse_resolution_option(dd, session)
           rate == M!parse_refresh_rate_option(dd, session)
<1>1. /\ dd.resolution # "automatic" => e.requested_resolution = M!Unset
      /\ dd.refresh_rate # "automatic" => e.requested_fps = M!Unset
  BY DEF M!Entry, M!parse_remapping_entry, M!determine_remapping_type
<1>2. /\ ~session.sops => resolution = M!Unset
      /\ dd.resolution = "automatic" /\ session.sops =>
           resolution = session.resolution
      /\ dd.refresh_rate = "automatic" => rate = session.fps
  BY OptionsRead
<1> HIDE DEF resolution, rate, e
<1>3. /\ e.requested_resolution # M!Unset /\ session.sops =>
           resolution = session.resolution
      /\ e.requested_fps # M!Unset => rate = session.fps
  BY <1>1, <1>2
<1>4. M!Matches(e, session, resolution, rate) <=> M!Applies(i)
  BY <1>3, Zenon DEF M!Matches, M!Applies, e
<1> QED BY <1>4 DEF e, resolution, rate

(* What Configure finds is justified: the entry that ends the list is the  *)
(* first that applies, unless it is not valid.                             *)
LEMMA ConfigurationIsJustified ==
  ASSUME dd \in Settings, session \in Clients,
         result = M!parse_configuration(dd, session)
  PROVE  M!ModeIsJustified
<1> DEFINE list == M!mode_remapping(dd)
           resolution == M!parse_resolution_option(dd, session)
           rate == M!parse_refresh_rate_option(dd, session)
           mode == M!remap_display_mode_if_needed(dd, session, resolution, rate)
           ends == {i \in DOMAIN list :
                      \/ M!Invalid(M!Entry(i))
                      \/ M!Matches(M!Entry(i), session, resolution, rate)}
           first == CHOOSE i \in ends : \A j \in ends : i <= j
<1> SUFFICES ASSUME result.tag = "configuration" PROVE M!ModeIsJustified
  BY DEF M!ModeIsJustified
<1>1. /\ resolution # M!Failed /\ rate # M!Failed /\ mode[1] # M!Failed
      /\ result.resolution = mode[1] /\ result.refresh_rate = mode[2]
  <2> HIDE DEF resolution, rate, mode
  <2> QED BY DEF M!parse_configuration, M!Disabled, M!FailedToParse,
               resolution, rate, mode
<1>2. /\ ~session.sops => resolution = M!Unset
      /\ dd.resolution = "automatic" /\ session.sops =>
           resolution = session.resolution
      /\ dd.refresh_rate = "automatic" => rate = session.fps
  BY <1>1, OptionsRead
<1>3. \A i : M!Matches(M!Entry(i), session, resolution, rate)
               <=> M!Applies(i)
  BY <1>1, MatchesApplies
<1>4. mode = IF ends = {} THEN <<resolution, rate>>
             ELSE IF M!Invalid(M!Entry(first)) THEN <<M!Failed, M!Failed>>
             ELSE <<M!Over(M!Entry(first).final_resolution, resolution),
                    M!Over(M!Entry(first).final_refresh_rate, rate)>>
  BY Zenon DEF M!remap_display_mode_if_needed, M!Entry
<1>5. DOMAIN list \subseteq Nat \ {0}
  BY ModesAssumption
<1>6. ends \in SUBSET Nat
  BY <1>5
<1> HIDE DEF mode, resolution, rate, list
<1>7. CASE ends = {}
  <2>1. mode[1] = resolution /\ mode[2] = rate
    BY <1>4, <1>7
  <2>2. \A i \in DOMAIN list : ~M!Invalid(M!Entry(i)) /\ ~M!Applies(i)
    BY <1>3, <1>7
  <2> QED BY <1>1, <1>2, <2>1, <2>2 DEF M!ModeIsJustified, list
<1>8. CASE ends # {}
  <2>1. first \in ends /\ \A j \in ends : first <= j
    <3> HIDE DEF ends
    <3> QED BY <1>6, <1>8, LeastNumber
  <2> HIDE DEF first
  <2>2. first \in DOMAIN list /\ first \in Nat \ {0}
    BY <1>5, <2>1
  <2>3. /\ ~M!Invalid(M!Entry(first))
        /\ mode[1] = M!Over(M!Entry(first).final_resolution, resolution)
        /\ mode[2] = M!Over(M!Entry(first).final_refresh_rate, rate)
    <3> HIDE DEF ends
    <3> QED BY <1>1, <1>4, <1>8
  <2>4. M!Applies(first)
    BY <1>3, <2>1, <2>3
  <2>5. \A j \in DOMAIN list :
          j < first => ~M!Invalid(M!Entry(j)) /\ ~M!Applies(j)
    BY <1>3, <1>5, <2>1, <2>2
  <2>6. ASSUME NEW i \in DOMAIN list, M!First(i)
        PROVE  /\ ~M!Invalid(M!Entry(i))
               /\ M!Applies(i) => i = first
    <3>1. i \in Nat
      BY <1>5
    <3>2. i <= first
      <4> SUFFICES ASSUME first < i PROVE FALSE
        BY <2>2, <3>1
      <4>1. first \in 1 .. i - 1
        BY <2>2, <3>1
      <4> QED BY <2>4, <2>6, <4>1 DEF M!First
    <3> QED BY <2>2, <2>3, <2>5, <2>6, <3>1, <3>2
  <2>7. M!Entry(first).final_resolution # M!Unset => session.sops
    BY <2>4 DEF M!Applies
  <2>8. /\ ~session.sops => mode[1] = M!Unset
        /\ M!Entry(first).final_resolution \in {M!Unset, mode[1]}
        /\ M!Entry(first).final_refresh_rate \in {M!Unset, mode[2]}
    BY <1>2, <2>3, <2>7 DEF M!Over
  <2>9. /\ \A i \in DOMAIN list : M!First(i) => ~M!Invalid(M!Entry(i))
        /\ \A i \in DOMAIN list : M!Applies(i) /\ M!First(i) => i = first
    BY <2>6
  <2> QED BY <1>1, <2>2, <2>4, <2>8, <2>9 DEF M!ModeIsJustified, list
<1> QED BY <1>7, <1>8

(* The display is changed to what the client asks for, or to what the user *)
(* has set for that wish, whatever the lists of remappings hold            *)
(* (parse_configuration).                                                  *)
THEOREM ModeJustified ==
  M!Init /\ [][M!Configure]_M!modeVars => []ModeIsJustified
<1> DEFINE Inv == /\ dd \in Settings /\ session \in Clients
                  /\ \/ result = M!NotYet
                     \/ result = M!parse_configuration(dd, session)
<1>1. M!Init => Inv
  BY DEF M!Init
<1>2. Inv /\ [M!Configure]_M!modeVars => Inv'
  BY DEF M!Configure, M!modeVars
<1>3. Inv => ModeIsJustified
  BY ConfigurationIsJustified DEF ModeIsJustified, M!ModeIsJustified, M!NotYet
<1> QED BY <1>1, <1>2, <1>3, PTL
=============================================================================
