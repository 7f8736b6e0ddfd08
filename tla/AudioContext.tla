---------------------------- MODULE AudioContext ----------------------------
(***************************************************************************)
(* The audio context that sessions share (src/audio.cpp), and the sound    *)
(* server behind it (src/platform/linux/audio.cpp).  The first one to hold *)
(* it creates virtual sinks and notes the default sink, the first session  *)
(* to capture may make another sink the default, and the last one to let   *)
(* go puts the old one back and removes the virtual sinks.  The display    *)
(* device holds it while displays, and the sinks in them, are turned off   *)
(* (sunshine_audio_context_t in src/display_device.cpp).                   *)
(***************************************************************************)
EXTENDS Integers, FiniteSets

CONSTANTS
  Sessions, DisplayDevice,   \* who holds the context
  Real, Virtual,             \* sinks of the machine, and ours
  None,                      \* an empty name
  ConfigSinks,               \* what config::audio.sink may be
  MaxRetries,                \* retry_counter
  MaxCrashes, MaxPlugs       \* bounds

VARIABLES
  plugged, loaded, default_sink,   \* the sound server
  config_sink,
  holders,   \* who has a reference: _count is their number
  ctx,       \* the context while someone has
  chose,     \* the sessions that have chosen their sink
  released, retry_counter,         \* of the display device's reference
  before,    \* the default sink when the context was made
  moved,     \* it has changed since without us
  spoiled,   \* the server has refused to restore or to unload, or has not
             \* told its sinks and so not what to restore
  leftover,  \* sinks of a process that crashed may be loaded
  crashes, plugs

serverVars == <<plugged, loaded, default_sink>>
deviceVars == <<released, retry_counter>>
historyVars == <<before, moved, spoiled, leftover>>
boundVars == <<config_sink, crashes, plugs>>
vars == <<serverVars, holders, ctx, chose, deviceVars, historyVars, boundVars>>

Holders == Sessions \cup {DisplayDevice}

\* null: all virtual sinks are there; index: the ones to unload.
Context(control, host, null, index) ==
  [control |-> control, sink_flag |-> FALSE, restore_sink |-> FALSE,
   host |-> host, null |-> null, index |-> index, requested_sink |-> None]
NoContext == Context(FALSE, None, FALSE, {})

\* The default of a server that has these sinks, if d was the default.
Falls(d, sinks) ==
  IF d \in sinks THEN {d} ELSE IF sinks = {} THEN {None} ELSE sinks

Init ==
  /\ plugged \in SUBSET Real /\ loaded = {}
  /\ default_sink \in IF plugged = {} THEN {None} ELSE plugged
  /\ config_sink \in ConfigSinks
  /\ holders = {} /\ ctx = NoContext /\ chose = {}
  /\ released = FALSE /\ retry_counter = 0
  /\ before = None /\ moved = FALSE /\ spoiled = FALSE /\ leftover = FALSE
  /\ crashes = 0 /\ plugs = 0

-----------------------------------------------------------------------------
(* start_audio_control: without a server, or without its list of sinks,    *)
(* there is no sound but the context is there.                             *)

NoServer ==
  /\ ctx' = NoContext
  /\ UNCHANGED <<serverVars, leftover>>

NoSinkInfo ==
  /\ ctx' = Context(TRUE, None, FALSE, {})
  /\ UNCHANGED <<serverVars, leftover>>

\* sink_info finds the sinks that are there already and loads the others.
SinkInfo ==
  \E new \in SUBSET (Virtual \ loaded) :
    /\ loaded' = loaded \cup new
    /\ ctx' = Context(TRUE, default_sink, loaded' = Virtual, loaded')
    /\ default_sink' \in Falls(default_sink, plugged \cup loaded')
    /\ leftover' = FALSE
    /\ UNCHANGED plugged

(* get_audio_ctx_ref.                                                      *)
GetRef(h) ==
  /\ h \notin holders
  /\ holders' = holders \cup {h}
  /\ IF holders = {}
     THEN /\ NoServer \/ NoSinkInfo \/ SinkInfo
          /\ before' = default_sink /\ moved' = FALSE
     ELSE UNCHANGED <<serverVars, ctx, before, moved, leftover>>
  /\ UNCHANGED spoiled

Acquire(s) ==
  /\ GetRef(s)
  /\ UNCHANGED <<chose, deviceVars, boundVars>>

-----------------------------------------------------------------------------
(* capture: which sink a session wants, and the switch of the default.     *)

Wanted(host_audio, virtual) ==
  LET sink == IF config_sink # None THEN config_sink ELSE ctx.host
  IN IF ctx.null /\ (~host_audio \/ sink = None) THEN virtual ELSE sink

\* set_sink; the server may refuse.
SetSink(sink, done) ==
  /\ done => sink \in plugged \cup loaded
  /\ default_sink' = IF done THEN sink ELSE default_sink
  /\ UNCHANGED <<plugged, loaded>>

EverySession(sink) ==   \* mutant: not only the first one decides
  LET need_switch == sink # None /\ sink # ctx.host
  IN IF ctx.sink_flag
     THEN ctx' = [ctx EXCEPT !.restore_sink = need_switch]
          /\ UNCHANGED serverVars
     ELSE IF ~need_switch
     THEN ctx' = [ctx EXCEPT !.sink_flag = TRUE] /\ UNCHANGED serverVars
     ELSE \E done \in BOOLEAN :
            /\ SetSink(sink, done)
            /\ ctx' = [ctx EXCEPT
                 !.sink_flag = TRUE, !.restore_sink = done,
                 !.requested_sink = IF done THEN sink ELSE @]

FirstSession(sink) ==
  IF ctx.sink_flag THEN UNCHANGED <<ctx, serverVars>>
  ELSE IF sink = None \/ sink = ctx.host
  THEN ctx' = [ctx EXCEPT !.sink_flag = TRUE] /\ UNCHANGED serverVars
  ELSE \E done \in BOOLEAN :
         /\ SetSink(sink, done)
         /\ ctx' = [ctx EXCEPT
              !.sink_flag = TRUE, !.restore_sink = done,
              !.requested_sink = IF done THEN sink ELSE @]

ChooseSink(s) ==
  /\ s \in holders \ chose
  /\ ctx.control
  /\ chose' = chose \cup {s}
  /\ \E host_audio \in BOOLEAN, virtual \in Virtual :
       FirstSession(Wanted(host_audio, virtual))
  /\ UNCHANGED <<holders, deviceVars, historyVars, boundVars>>

-----------------------------------------------------------------------------
(* stop_audio_control and ~server_t.                                       *)

OldSink == IF ctx.host # None THEN ctx.host ELSE config_sink

RestoreSink(restored) ==
  IF ctx.restore_sink /\ OldSink \notin {None, ctx.requested_sink}
  THEN restored => OldSink \in plugged \cup loaded
  ELSE ~restored

Destroy ==
  \E restored, unloads \in BOOLEAN :
    /\ RestoreSink(restored)
    /\ loaded' = IF unloads THEN loaded \ ctx.index ELSE loaded
    /\ default_sink' \in Falls(IF restored THEN OldSink ELSE default_sink,
                               plugged \cup loaded')
    /\ spoiled' = \/ spoiled
                  \/ ~unloads /\ ctx.index # {}
                  \/ ~restored /\ ctx.restore_sink
    /\ ctx' = NoContext
    /\ UNCHANGED plugged

LetGo(h) ==
  /\ h \in holders
  /\ holders' = holders \ {h}
  /\ IF holders = {h} THEN Destroy
     ELSE UNCHANGED <<ctx, serverVars, spoiled>>
  /\ UNCHANGED <<before, moved, leftover>>

\* The session is shut down, with a microphone or without.
Release(s) ==
  /\ LetGo(s)
  /\ chose' = chose \ {s}
  /\ UNCHANGED <<deviceVars, boundVars>>

-----------------------------------------------------------------------------
(* The display device captures the context before it turns displays off,   *)
(* and after it has turned them on waits some time for the old sink.       *)

CaptureContext ==
  /\ GetRef(DisplayDevice)
  /\ released' = FALSE /\ retry_counter' = MaxRetries
  /\ UNCHANGED <<chose, boundVars>>

Retry ==
  /\ DisplayDevice \in holders
  /\ ctx.control /\ OldSink \notin plugged \cup loaded /\ retry_counter > 0
  /\ released' = TRUE /\ retry_counter' = retry_counter - 1
  /\ UNCHANGED <<serverVars, holders, ctx, chose, historyVars, boundVars>>

ReleaseContext ==
  /\ ~(ctx.control /\ OldSink \notin plugged \cup loaded /\ retry_counter > 0)
  /\ LetGo(DisplayDevice)
  /\ released' = FALSE /\ retry_counter' = 0
  /\ UNCHANGED <<chose, boundVars>>

-----------------------------------------------------------------------------
(* What happens without us.                                                *)

UserPicks ==
  /\ \E sink \in plugged : default_sink' = sink
  /\ moved' = TRUE
  /\ UNCHANGED <<plugged, loaded, holders, ctx, chose, deviceVars, before,
                 spoiled, leftover, boundVars>>

Plug ==
  /\ plugs < MaxPlugs /\ plugs' = plugs + 1
  /\ \E sink \in Real :
       plugged' = IF sink \in plugged THEN plugged \ {sink}
                  ELSE plugged \cup {sink}
  /\ default_sink' \in Falls(default_sink, plugged' \cup loaded)
  /\ moved' = TRUE
  /\ UNCHANGED <<loaded, holders, ctx, chose, deviceVars, before, spoiled,
                 leftover, config_sink, crashes>>

Crash ==
  /\ crashes < MaxCrashes /\ crashes' = crashes + 1
  /\ holders' = {} /\ ctx' = NoContext /\ chose' = {}
  /\ released' = FALSE /\ retry_counter' = 0
  /\ leftover' = TRUE
  /\ UNCHANGED <<serverVars, before, moved, spoiled, config_sink, plugs>>

Next ==
  \/ \E s \in Sessions : Acquire(s) \/ ChooseSink(s) \/ Release(s)
  \/ CaptureContext \/ Retry \/ ReleaseContext
  \/ UserPicks \/ Plug \/ Crash

-----------------------------------------------------------------------------
(* When nobody holds the context, the default sink is what it was before   *)
(* unless someone else has changed it, and none of our sinks is left; what *)
(* a crash has left is removed with the next context, but for a server     *)
(* that refuses (start_audio_control, stop_audio_control and ~server_t).   *)
SinkComesBack ==
  holders = {} /\ ~spoiled /\ ~leftover =>
    /\ loaded = {}
    /\ default_sink = before \/ before \in Virtual \cup {None} \/ moved

(* The inductive invariant behind it: the context knows the sinks that are *)
(* to be unloaded, and as long as the default is not what it was when the  *)
(* context was made, it knows that and will restore it.                    *)
Sinks == Real \cup Virtual \cup ConfigSinks \cup {None}
Contexts ==
  [control : BOOLEAN, sink_flag : BOOLEAN, restore_sink : BOOLEAN,
   host : Sinks, null : BOOLEAN, index : SUBSET Virtual,
   requested_sink : Sinks]

TypeOK ==
  /\ plugged \subseteq Real /\ loaded \subseteq Virtual
  /\ default_sink \in plugged \cup loaded \cup {None}
  /\ config_sink \in ConfigSinks
  /\ ctx \in Contexts

SinksAreKnown ==
  ~spoiled /\ ~leftover =>
    loaded \subseteq IF holders = {} THEN {} ELSE ctx.index

\* The default sink when the context was made is still there.
Restorable == ~moved /\ before \notin Virtual \cup {None}

DefaultIsKnown ==
  /\ Restorable => before \in plugged
  /\ holders # {} =>
       /\ ~ctx.sink_flag => ~ctx.restore_sink
       /\ ctx.host \in {before, None}
       /\ ctx.host = None /\ before # None => ~ctx.null
       /\ ctx.host = None /\ before # None /\ ctx.restore_sink =>
            ctx.requested_sink = config_sink
       /\ Restorable => default_sink = before \/ ctx.restore_sink
  /\ holders = {} /\ ~spoiled /\ ~leftover /\ Restorable =>
       default_sink = before

IInv == TypeOK /\ SinksAreKnown /\ DefaultIsKnown
=============================================================================
