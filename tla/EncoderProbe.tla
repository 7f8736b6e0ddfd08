--------------------------- MODULE EncoderProbe ----------------------------
(***************************************************************************)
(* The choice of an encoder (src/video.cpp: probe_encoders and             *)
(* validate_encoder), at the start and before a stream while no session is *)
(* counted, and what clients are told of it (src/nvhttp.cpp,               *)
(* get_codec_mode_flags).                                                  *)
(*                                                                         *)
(* What an encoder can do on this host, its card, is a record:             *)
(*   listed   the codecs that is_codec_supported says it has               *)
(*   works    the pairs <<codec, test>> for which validate_config succeeds *)
(*   flags    its flags among H264_ONLY, ALWAYS_REPROBE, YUV444_SUPPORT    *)
(***************************************************************************)
EXTENDS Integers

CONSTANTS
  encoders,   \* the encoders of this build, in their order
  Cards,      \* cards an encoder may have
  Configs,    \* [encoder, hevc, av1]: config::video's encoder and modes
  None

VARIABLES
  card,       \* card[e] of each encoder, which a change of hardware changes
  config,
  chosen_encoder, active_hevc_mode, active_av1_mode,
  caps        \* what each codec of the chosen encoder has been found to do

probeVars == <<card, config, chosen_encoder, active_hevc_mode, active_av1_mode,
               caps>>

Names == {encoders[i] : i \in DOMAIN encoders}
Codecs == {"h264", "hevc", "av1"}
Flags == {"PASSED", "REF_FRAMES_RESTRICT", "YUV444", "DYNAMIC_RANGE",
          "DYNAMIC_RANGE_YUV444"}

-----------------------------------------------------------------------------
(* validate_encoder.                                                       *)

Works(c, codec, test) == <<codec, test>> \in c.works

\* H.264 works; an encoder that should fail is first tried with "auto".
Viable(c, expect_failure) ==
  /\ "h264" \in c.listed
  /\ IF expect_failure
       THEN Works(c, "h264", "auto")
       ELSE Works(c, "h264", "max") \/ Works(c, "h264", "auto")

\* capabilities.set(), and the tests of a codec that has not passed leave
\* the flags as that set them.
Untested == Flags \ {"PASSED", "REF_FRAMES_RESTRICT"}

ColourFlags(c, codec) ==
  LET yuv444 == "YUV444_SUPPORT" \in c.flags IN
    {f \in {"YUV444"} : yuv444 /\ Works(c, codec, "444")}
      \cup {f \in {"DYNAMIC_RANGE"} :
              codec # "h264" /\ Works(c, codec, "hdr")}
      \cup {f \in {"DYNAMIC_RANGE_YUV444"} :
              codec # "h264" /\ yuv444 /\ Works(c, codec, "444 hdr")}

Found(c, codec) ==
  {"PASSED"} \cup ColourFlags(c, codec)
    \cup {f \in {"REF_FRAMES_RESTRICT"} : Works(c, codec, "max")}

\* HEVC and AV1: when H.264 has worked with "max", only that is tried.
Passes(c, codec) ==
  \/ Works(c, codec, "max")
  \/ ~Works(c, "h264", "max") /\ Works(c, codec, "auto")

Capabilities(c, codec, mode) ==
  LET tested == mode >= 2 \/ (mode = 0 /\ "H264_ONLY" \notin c.flags) IN
    IF ~tested \/ codec \notin c.listed THEN {}
    ELSE IF Passes(c, codec) THEN Found(c, codec)
    ELSE Untested

validate_encoder(c, hevc, av1) ==
  [h264 |-> Found(c, "h264"),
   hevc |-> Capabilities(c, "hevc", hevc),
   av1 |-> Capabilities(c, "av1", av1)]

-----------------------------------------------------------------------------
(* probe_encoders.                                                         *)

\* A mode that is asked for: 2 is the codec, 3 the codec with HDR. 4 and 5
\* (HDR in 4:4:4, and both) are found, never asked for: config.cpp reads
\* 0 .. 3.
Lacks(found, mode) ==
  \/ mode = 3 /\ "DYNAMIC_RANGE" \notin found
  \/ mode = 2 /\ "PASSED" \notin found

adjust_hevc(found, hevc) == IF Lacks(found.hevc, hevc) THEN 0 ELSE hevc

(* The lambda for AV1 compares active_hevc_mode where it means             *)
(* active_av1_mode, with 4 and 3, and clears that: after adjust_hevc       *)
(* neither happens, so that of the AV1 modes asked for only 2 is adjusted. *)
adjust_av1(found, av1) ==
  IF av1 = 2 /\ Lacks(found.av1, 2) THEN 0 ELSE av1

\* What mode 0 becomes.
Resolved(found, mode) ==
  IF mode # 0 THEN mode
  ELSE IF "PASSED" \notin found THEN 1
  ELSE 2 + (IF "DYNAMIC_RANGE" \in found THEN 1 ELSE 0)
         + (IF "DYNAMIC_RANGE_YUV444" \in found THEN 2 ELSE 0)

Meets(found) ==
  \A codec \in {"hevc", "av1"} :
    config[codec] >= 2 =>
      "PASSED" \in found[codec] /\ ~Lacks(found[codec], config[codec])

\* The one that comes first in the list.
FirstOf(some) ==
  LET places == {i \in DOMAIN encoders : encoders[i] \in some}
  IN IF places = {} THEN None
     ELSE encoders[CHOOSE i \in places : \A j \in places : i <= j]

Meeting(some) ==
  {e \in some : Meets(validate_encoder(card[e], config.hevc, config.av1))}

MeetsFirst(some) ==   \* mutant: only the first that meets what is asked
  FirstOf(Meeting(some))

(* The encoder that is configured, if it works; else the first that meets  *)
(* what is asked of the codecs; else the first that works. Those that fail *)
(* are removed from the list on the way.                                   *)
Chosen(some) ==
  LET asked == config.hevc >= 2 \/ config.av1 >= 2
  IN IF config.encoder \in some THEN config.encoder
     ELSE IF asked /\ Meeting(some) # {} THEN FirstOf(Meeting(some))
     ELSE FirstOf(some)

\* Another encoder than the previous one is expected to fail.
Tried(e) == Viable(card[e], chosen_encoder \notin {e, None})

Nothing ==
  /\ active_hevc_mode' = config.hevc
  /\ active_av1_mode' = config.av1
  /\ UNCHANGED caps

Announce(e) ==
  LET found == validate_encoder(card[e], config.hevc, config.av1) IN
    /\ caps' = found
    /\ active_hevc_mode' =
         Resolved(found.hevc, adjust_hevc(found, config.hevc))
    /\ active_av1_mode' =
         Resolved(found.av1, adjust_av1(found, config.av1))

probe_encoders ==
  LET e == Chosen({f \in Names : Tried(f)}) IN
    /\ chosen_encoder' = e
    /\ IF e = None THEN Nothing ELSE Announce(e)
    /\ UNCHANGED <<card, config>>

\* The host starts, or a stream is about to.
Probe ==
  /\ chosen_encoder # None =>
       "ALWAYS_REPROBE" \in card[chosen_encoder].flags
  /\ probe_encoders

\* needs_encoder_reenumeration: hardware comes and goes.
Reenumerate ==
  /\ chosen_encoder # None
  /\ probe_encoders

Change ==
  /\ \E e \in Names : \E c \in Cards[e] : card' = [card EXCEPT ![e] = c]
  /\ UNCHANGED <<config, chosen_encoder, active_hevc_mode, active_av1_mode,
                 caps>>

Init ==
  /\ card \in {f \in [Names -> UNION {Cards[e] : e \in Names}] :
                 \A e \in Names : f[e] \in Cards[e]}
  /\ config \in Configs
  /\ chosen_encoder = None
  /\ active_hevc_mode = 0 /\ active_av1_mode = 0
  /\ caps = [codec \in Codecs |-> {}]

Next == Probe \/ Reenumerate \/ Change

-----------------------------------------------------------------------------
\* A codec and what a stream of it may be: 8 bit, HDR, or HDR in 4:4:4.
Formats(codec, mode, found) ==
  {<<codec, "8">> : m \in {mode} \cap {2, 3, 4, 5}}
    \cup {<<codec, "hdr">> : m \in {mode} \cap {3, 5}}
    \cup {<<codec, "444 hdr">> : m \in {m \in {mode} \cap {4, 5} :
                                        {"PASSED", "YUV444"} \subseteq found}}

(* What get_codec_mode_flags tells clients of HEVC and AV1.                *)
get_codec_mode_flags ==
  Formats("hevc", active_hevc_mode, caps.hevc)
    \cup Formats("av1", active_av1_mode, caps.av1)

Encodable ==
  LET c == card[chosen_encoder] IN
    {f \in {"hevc", "av1"} \X {"8", "hdr", "444 hdr"} :
       /\ f[1] \in c.listed /\ Passes(c, f[1])
       /\ f[2] = "hdr" => Works(c, f[1], "hdr")
       /\ f[2] = "444 hdr" =>
            "DYNAMIC_RANGE_YUV444" \in ColourFlags(c, f[1])}

Usable(e) == "h264" \in card[e].listed /\ Works(card[e], "h264", "auto")
Wanted(e) ==
  \A codec \in {"hevc", "av1"} :
    /\ config[codec] >= 2 => codec \in card[e].listed /\ Passes(card[e], codec)
    /\ config[codec] = 3 => Works(card[e], codec, "hdr")
Before(e, f) ==
  \E i, j \in DOMAIN encoders : i < j /\ encoders[i] = e /\ encoders[j] = f

(* A probe chooses an encoder that works if there is one: the configured   *)
(* one before all, one that has the codecs asked for before one that does  *)
(* not, and then in the order of the list; whatever was chosen before,     *)
(* which only changes the order of the checks (video.cpp:3048, 3357).      *)
ProbeFindsBest ==
  [][Probe \/ Reenumerate =>
       LET usable == {e \in Names : Usable(e)}
           wanted == {e \in usable : Wanted(e)}
           best == IF config.encoder \in usable THEN {config.encoder}
                   ELSE IF wanted # {} THEN wanted
                   ELSE usable
       IN IF usable = {} THEN chosen_encoder' = None
          ELSE /\ chosen_encoder' \in best
               /\ \A e \in best : ~Before(e, chosen_encoder')]_probeVars

(* video.cpp:3240, "If we can't satisfy both the encoder and codec         *)
(* requirement, prefer the encoder over codec support": what clients are   *)
(* told of HEVC and AV1 is what the chosen encoder can encode.             *)
AnnouncedIsEncodable ==
  [][(Probe \/ Reenumerate) /\ chosen_encoder' # None =>
       (get_codec_mode_flags \subseteq Encodable)']_probeVars
=============================================================================
