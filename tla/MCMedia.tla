------------------------------ MODULE MCMedia -------------------------------
(***************************************************************************)
(* What stands behind a stream's pictures, in parts that do not look at    *)
(* each other's variables: the display's mode (DisplayMode), the encoder   *)
(* (EncoderProbe), the list of displays (DisplayList), the thread that     *)
(* captures, for encoders that run in parallel (CaptureThread) and for     *)
(* others (CaptureSync), the way of the frames to the network              *)
(* (VideoBroadcast), what lost frames make of the encoder's references     *)
(* (NvencFrames) and the bitrate (AdaptiveBitrate).  A behaviour is about  *)
(* one part.                                                               *)
(***************************************************************************)
EXTENDS CaptureThread, Sequences, TLC

CONSTANTS e1, e2, s1, s2, Thread, encoders, Cards, Configs,
          Settings, Clients, Decimals, Displays, Outputs, MaxShortcut,
          Parts,   \* the parts that the behaviours are about
          MaxScale, Timeout, Reporting, MaxQueue, MaxBlocks, MaxLate,
          DpbSize, UIntRange, MaxFrames, MaxReinits

VARIABLES
  part,
  card, config, chosen_encoder, active_hevc_mode, active_av1_mode, caps,
  dd, session, result,
  display_names, current_display_index, output_name, switch_display,
  at, ending, joined, accepted, ref, waiting, is_running, synced, sync_thread,
  control, net_stats, bitrate, disabled, calm,
  idr_events, packets, drop_until_idr, sending, intact, unnoticed, late,
  rfi, frame_nr, last_encoded_frame_index, dpb, last_rfi_range,
  rfi_needs_confirmation, reference, marked, invalidate_ref_frames_events,
  idr_asked, seen, gap, client_waits, shown, overtaken, reinits

P == INSTANCE EncoderProbe
M == INSTANCE DisplayMode
L == INSTANCE DisplayList
S == INSTANCE CaptureSync
B == INSTANCE AdaptiveBitrate
V == INSTANCE VideoBroadcast
N == INSTANCE NvencFrames WITH idr_events <- idr_asked,
                               waiting <- client_waits

ASSUME FramesAssumption == MaxFrames \in Nat
\* An encoder is in the list once; and one that works with the most
\* reference frames works when it may choose their number.
ASSUME ProbeAssumption ==
  /\ DOMAIN encoders \subseteq Nat
  /\ \A i, j \in DOMAIN encoders : encoders[i] = encoders[j] => i = j
  /\ None \notin P!Names
  /\ \A e \in P!Names : \A c \in Cards[e] :
       P!Works(c, "h264", "max") => P!Works(c, "h264", "auto")
ASSUME ListsAssumption ==
  Displays \subseteq Seq(L!AllNames) /\ MaxShortcut \in Nat
\* Lists of remappings have places, and what a client asks for is a value.
ASSUME ModesAssumption ==
  /\ \A d \in Settings : DOMAIN M!mode_remapping(d) \subseteq Nat \ {0}
  /\ \A s \in Clients : {s.resolution, s.fps} \cap {M!Unset, M!Failed} = {}

-----------------------------------------------------------------------------
(* Two encoders, and what they may be able to do.                          *)

MCEncoders == <<e1, e2>>

Card(listed, works, flags) ==
  [listed |-> listed, works |-> works, flags |-> flags]
Plain == {<<"h264", "auto">>, <<"h264", "max">>, <<"h264", "444">>}
Modern == Plain \cup ({"hevc"} \X {"auto", "max", "hdr"})
All == {"h264", "hevc", "av1"}
MCCards ==
  [e \in {e1, e2} |->
    {Card({"h264"}, {}, {}),
     Card({"h264"}, {<<"h264", "auto">>}, {"H264_ONLY"}),
     Card(All, Plain, {"ALWAYS_REPROBE"}),
     Card({"h264", "hevc"}, {<<"h264", "auto">>, <<"hevc", "auto">>}, {}),
     Card(All, Modern, {}),
     Card(All, Modern \cup {<<"hevc", "444">>}
                 \cup ({"hevc", "av1"} \X {"auto", "max", "hdr", "444 hdr"}),
          {"YUV444_SUPPORT"})}]
MCConfigs == [encoder : {None, e1, e2}, hevc : {0, 2, 3}, av1 : 0 .. 3]

-----------------------------------------------------------------------------
(* Lists of at most two entries, some of them broken.                      *)

Entry(resolution, final, fps, rate) ==
  [requested_resolution |-> resolution, final_resolution |-> final,
   requested_fps |-> fps, final_refresh_rate |-> rate]
Small == "1280x720"
Large == "1920x1080"
Entries ==
  {Entry(r, f, fps, rate) :
     r \in {"", Small}, f \in {"", "bad", Large},
     fps \in {"", "60", "144"}, rate \in {"", "30", "59.94"}}
Lists ==
  {<<>>} \cup {<<e>> : e \in Entries}
    \cup {<<e, f>> : e \in Entries,
                     f \in {Entry("", "", "", "120"), Entry(Small, Large, "59.94", "")}}
MCSettings ==
  [device_prep : {"verify_only"}, hdr : {"automatic"},
   resolution : {"automatic"}, refresh_rate : {"automatic"},
   manual_resolution : {""}, manual_refresh_rate : {"59.94"},
   mixed : Lists, resolution_only : {<<>>}, refresh_rate_only : {<<>>}]
  \cup
  [device_prep : {"disabled", "ensure_active"},
   hdr : {"automatic", "disabled"},
   resolution : {"automatic", "manual", "disabled"},
   refresh_rate : {"automatic", "manual", "disabled"},
   manual_resolution : {"", "bad", Large}, manual_refresh_rate : {"", "59.94"},
   mixed : {<<>>},
   resolution_only : {<<>>, <<Entry(Small, Large, "59.94", "bad")>>},
   refresh_rate_only : {<<>>, <<Entry("bad", Large, "60", "59.94")>>}]
MCClients ==
  [resolution : {Small, "bad"}, fps : {"60", "bad"}, sops : BOOLEAN,
   hdr : {TRUE}]
MCDecimals == {"59.94"}

-----------------------------------------------------------------------------
MCDisplays == {<<>>, <<"a">>, <<"b">>, <<"a", "b">>, <<"b", "a">>,
               <<"c", "b", "a">>}
MCOutputs == {"", "a", "b"}

-----------------------------------------------------------------------------
probeVars == <<card, config, chosen_encoder, active_hevc_mode,
               active_av1_mode, caps>>
modeVars == <<dd, session, result>>
listVars ==
  <<display_names, current_display_index, output_name, switch_display>>
syncVars == <<at, ending, joined, accepted, ref, waiting, is_running, synced,
              sync_thread>>
rateVars == <<control, net_stats, bitrate, disabled, calm>>
sendVars ==
  <<idr_events, packets, drop_until_idr, sending, intact, unnoticed, late>>
nvencVars ==
  <<rfi, frame_nr, last_encoded_frame_index, dpb, last_rfi_range,
    rfi_needs_confirmation, reference, marked, invalidate_ref_frames_events,
    idr_asked, seen, gap, client_waits, shown, overtaken, reinits>>
captureVars == <<vars, probeVars, modeVars, listVars, syncVars>>
sendingVars == <<rateVars, sendVars, nvencVars>>
partVars == <<captureVars, sendingVars>>

\* A part that a behaviour is not about stays in one initial state, and its
\* sessions are over.
MediaInit ==
  /\ part \in Parts
  /\ IF part = "capture" THEN Init
     ELSE /\ pc = [c \in Sessions |-> "gone"]
          /\ shutdown = [c \in Sessions |-> FALSE]
          /\ refs = {} /\ ref_lock = None
          /\ queued = {} /\ running = FALSE /\ ctxs = {}
          /\ listening = {}
          /\ image = [c \in Sessions |-> 0] /\ holds = image
          /\ encoded = {} /\ thread = "none" /\ display = 0
          /\ display_wp = 0 /\ reinit_event = FALSE /\ displays = 0
  /\ IF part = "sync" THEN S!Init
     ELSE /\ at = [c \in Sessions |-> "done"]
          /\ ending = [c \in Sessions |-> FALSE] /\ joined = ending
          /\ accepted = {} /\ ref = {} /\ waiting = {}
          /\ is_running = FALSE /\ synced = {} /\ sync_thread = "none"
  /\ IF part = "probe" THEN P!Init
     ELSE /\ card = [e \in {e1, e2} |-> Card({"h264"}, {}, {})]
          /\ config = [encoder |-> None, hevc |-> 0, av1 |-> 0]
          /\ chosen_encoder = None
          /\ active_hevc_mode = 0 /\ active_av1_mode = 0 /\ caps = <<>>
  /\ IF part = "mode" THEN M!Init
     ELSE dd = <<>> /\ session = <<>> /\ result = M!NotYet
  /\ IF part = "list" THEN L!Init
     ELSE /\ display_names = <<>> /\ current_display_index = -1
          /\ output_name = "" /\ switch_display = -1
  /\ B!Init /\ V!Init /\ N!Init /\ (part # "refs" => rfi)

MediaNext ==
  /\ UNCHANGED <<part, sendingVars>>
  /\ \/ /\ part = "capture" /\ CaptureNext
        /\ UNCHANGED <<probeVars, modeVars, listVars, syncVars>>
     \/ /\ part = "sync" /\ S!Next
        /\ UNCHANGED <<vars, probeVars, modeVars, listVars>>
     \/ /\ part = "probe" /\ P!Next
        /\ UNCHANGED <<vars, modeVars, listVars, syncVars>>
     \/ /\ part = "mode" /\ M!Configure
        /\ UNCHANGED <<vars, probeVars, listVars, syncVars>>
     \/ /\ part = "list" /\ L!Next
        /\ UNCHANGED <<vars, probeVars, modeVars, syncVars>>

SendingNext ==
  /\ UNCHANGED <<part, captureVars>>
  /\ \/ part = "rate" /\ B!Next /\ UNCHANGED <<sendVars, nvencVars>>
     \/ part = "send" /\ V!Next /\ UNCHANGED <<rateVars, nvencVars>>
     \/ part = "refs" /\ N!Next /\ UNCHANGED <<rateVars, sendVars>>

\* The fairness that the parts ask for, where they are not at rest.
SendingFairness ==
  /\ WF_rateVars(part = "rate" /\ B!FrameEncoded(FALSE, FALSE))
  /\ WF_rateVars(part = "rate" /\ B!ReconfigureBitrate)
  /\ WF_sendVars(part = "send" /\ V!Encode)
  /\ WF_sendVars(part = "send" /\ V!TakeFrame)
  /\ WF_sendVars(part = "send" /\ V!SendBlock)

MediaSpec ==
  /\ MediaInit /\ [][MediaNext \/ SendingNext]_<<part, partVars>>
  /\ Fairness /\ S!Fairness /\ SendingFairness

-----------------------------------------------------------------------------
(* The properties of the other parts, stated there.                        *)
ProbeFindsBest == P!ProbeFindsBest
AnnouncedIsEncodable == P!AnnouncedIsEncodable
ModeIsJustified == M!ModeIsJustified
DisplayIsKept == L!DisplayIsKept
AcceptedReturn == S!AcceptedReturn

(* A video thread whose session ends returns, from either capture thread,  *)
(* whatever the display does meanwhile (stream.cpp joins videoThread).     *)
CaptureReturns == ReinitEnds /\ SessionsReturn /\ AcceptedReturn
BitrateReturns == B!BitrateReturns

(* What a client is sent can be decoded: no picture that depends on one    *)
(* that the host dropped (videoBroadcastThread), and none that refers to a *)
(* picture the client has told it lost (nvenc_base::encode_frame).         *)
PicturesDecode ==
  [][V!SentDecodes /\ N!ShownAreDecodable']_<<sendVars, nvencVars>>
=============================================================================
