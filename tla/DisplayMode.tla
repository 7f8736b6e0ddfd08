---------------------------- MODULE DisplayMode -----------------------------
(***************************************************************************)
(* What configure_display asks of the display for a session: the           *)
(* configuration that display_device::parse_configuration                  *)
(* (src/display_device.cpp) makes of the user's settings and of what the   *)
(* client asks for.                                                        *)
(*                                                                         *)
(* A text is the value that is read from it (a resolution, a rate), "" or  *)
(* "bad"; a rate in Decimals is one with a decimal point. What a client    *)
(* asks for is "bad" when it is below zero. The device's name is left out, *)
(* as it is only passed on.                                                *)
(***************************************************************************)
EXTENDS Integers, Sequences

CONSTANTS
  Settings,  \* values of config::video.dd
  Clients,   \* what clients ask for: [resolution, fps, sops, hdr]
  Decimals

VARIABLES dd, session, result

modeVars == <<dd, session, result>>

Unset == "unset"
Failed == "failed"
FailedToParse == [tag |-> "failed_to_parse_tag_t"]
Disabled == [tag |-> "configuration_disabled_tag_t"]
NotYet == [tag |-> "none"]

-----------------------------------------------------------------------------
(* The texts. An empty one is no value.                                    *)

Read(text) == IF text = "" THEN Unset ELSE text
parse_resolution_string(text) == IF text = "bad" THEN Failed ELSE Read(text)
parse_refresh_rate_string(text, allow_decimal_point) ==
  IF text = "bad" \/ (text \in Decimals /\ ~allow_decimal_point)
    THEN Failed ELSE Read(text)

Required(value) == IF value = Unset THEN Failed ELSE value

parse_resolution_option(d, s) ==
  CASE d.resolution = "automatic" /\ s.sops ->
         IF s.resolution = "bad" THEN Failed ELSE s.resolution
    [] d.resolution = "manual" /\ s.sops ->
         Required(parse_resolution_string(d.manual_resolution))
    [] OTHER -> Unset

parse_refresh_rate_option(d, s) ==
  CASE d.refresh_rate = "automatic" ->
         IF s.fps = "bad" THEN Failed ELSE s.fps
    [] d.refresh_rate = "manual" ->
         Required(parse_refresh_rate_string(d.manual_refresh_rate, TRUE))
    [] OTHER -> Unset

parse_hdr_option(d, s) == IF d.hdr = "automatic" THEN s.hdr ELSE Unset

-----------------------------------------------------------------------------
(* The remapping: only what is automatic is remapped.                      *)

determine_remapping_type(d) ==
  {f \in {"resolution", "refresh_rate"} : d[f] = "automatic"}

mode_remapping(d) ==
  LET fields == determine_remapping_type(d) IN
    CASE fields = {"resolution"} -> d.resolution_only
      [] fields = {"refresh_rate"} -> d.refresh_rate_only
      [] fields = {} -> <<>>
      [] OTHER -> d.mixed

\* Fields that are not mapped stay empty, and are not looked at.
parse_remapping_entry(entry, fields) ==
  LET resolution(text) ==
        IF "resolution" \in fields THEN parse_resolution_string(text)
                                   ELSE Unset
      rate(text, decimals) ==
        IF "refresh_rate" \in fields
          THEN parse_refresh_rate_string(text, decimals) ELSE Unset
  IN [requested_resolution |-> resolution(entry.requested_resolution),
      final_resolution |-> resolution(entry.final_resolution),
      requested_fps |-> rate(entry.requested_fps, FALSE),
      final_refresh_rate |-> rate(entry.final_refresh_rate, TRUE)]

Invalid(e) ==
  \/ \E f \in DOMAIN e : e[f] = Failed
  \/ e.final_resolution = Unset /\ e.final_refresh_rate = Unset

MatchesAnyone(e, s, resolution, refresh_rate) ==   \* mutant: no sops check
  /\ e.requested_resolution \in {Unset, resolution}
  /\ e.requested_fps \in {Unset, refresh_rate}

Matches(e, s, resolution, refresh_rate) ==
  /\ s.sops \/ (/\ e.requested_resolution = Unset
                /\ e.final_resolution = Unset)
  /\ e.requested_resolution \in {Unset, resolution}
  /\ e.requested_fps \in {Unset, refresh_rate}

Over(final, old) == IF final = Unset THEN old ELSE final

(* The list is read from its head: the first entry that is not valid or    *)
(* matches ends it.                                                        *)
remap_display_mode_if_needed(d, s, resolution, refresh_rate) ==
  LET list == mode_remapping(d)
      entry(i) == parse_remapping_entry(list[i], determine_remapping_type(d))
      ends == {i \in DOMAIN list :
                 \/ Invalid(entry(i))
                 \/ Matches(entry(i), s, resolution, refresh_rate)}
      e == entry(CHOOSE i \in ends : \A j \in ends : i <= j)
  IN IF ends = {} THEN <<resolution, refresh_rate>>
     ELSE IF Invalid(e) THEN <<Failed, Failed>>
     ELSE <<Over(e.final_resolution, resolution),
            Over(e.final_refresh_rate, refresh_rate)>>

parse_configuration(d, s) ==
  LET resolution == parse_resolution_option(d, s)
      refresh_rate == parse_refresh_rate_option(d, s)
      mode == remap_display_mode_if_needed(d, s, resolution, refresh_rate)
  IN IF d.device_prep = "disabled" THEN Disabled
     ELSE IF Failed \in {resolution, refresh_rate, mode[1]} THEN FailedToParse
     ELSE [tag |-> "configuration", device_prep |-> d.device_prep,
           hdr |-> parse_hdr_option(d, s), resolution |-> mode[1],
           refresh_rate |-> mode[2]]

-----------------------------------------------------------------------------
Init == dd \in Settings /\ session \in Clients /\ result = NotYet

Configure ==
  /\ result = NotYet
  /\ result' = parse_configuration(dd, session)
  /\ UNCHANGED <<dd, session>>

-----------------------------------------------------------------------------
(* The entries by their places, and what becomes of the client's wish.     *)
Entry(i) == parse_remapping_entry(mode_remapping(dd)[i],
                                  determine_remapping_type(dd))
Applies(i) ==
  LET e == Entry(i) IN
    /\ e.requested_resolution # Unset =>
         /\ session.sops
         /\ e.requested_resolution = session.resolution
    /\ e.requested_fps # Unset => e.requested_fps = session.fps
    /\ e.final_resolution # Unset => session.sops
First(i) == ~\E j \in 1 .. i - 1 : Applies(j)

(* The display is changed to what the client asks for or to what the user  *)
(* has set for that wish, in the first entry that speaks of it; to nothing *)
(* that a broken entry before it may have meant otherwise; and never to    *)
(* another resolution for a client that does not let the host optimise     *)
(* its settings (display_device.cpp:284, 314, 569).                        *)
ModeIsJustified ==
  result.tag = "configuration" =>
    LET list == mode_remapping(dd) IN
      /\ ~session.sops => result.resolution = Unset
      /\ \A i \in DOMAIN list : First(i) => ~Invalid(Entry(i))
      /\ \A i \in DOMAIN list :
           Applies(i) /\ First(i) =>
             /\ Entry(i).final_resolution \in {Unset, result.resolution}
             /\ Entry(i).final_refresh_rate \in {Unset, result.refresh_rate}
      /\ (~\E i \in DOMAIN list : Applies(i)) =>
           /\ dd.resolution = "automatic" /\ session.sops =>
                result.resolution = session.resolution
           /\ dd.refresh_rate = "automatic" =>
                result.refresh_rate = session.fps
=============================================================================
