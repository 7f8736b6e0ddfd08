----------------------------- MODULE MCServices -----------------------------
(***************************************************************************)
(* What the host does beside the pictures, in parts that do not look at    *)
(* each other's variables: the launched application (AppProcess), the      *)
(* pending launch (LaunchSession), the blocks of a frame (VideoFec), the   *)
(* sound (AudioStream, AudioContext), the driver's settings (NvPrefs) and  *)
(* the update (Updates).  A behaviour is about one part.                   *)
(***************************************************************************)
EXTENDS AppProcess, FiniteSets, TLC

CONSTANTS
  Parts,   \* the parts that the behaviours are about
  game, launcher, desktop, control, https, web,
  None, Launches, blocksize, Sizes, Percentages, Minimums,
  MaxFrames, MaxSamples, MaxPackets, SeqModulus,
  Sessions, DisplayDevice, Real, Virtual, ConfigSinks, MaxRetries, MaxPlugs,
  Values, Ours, NoValue, MaxCrashes, MaxPicks, MaxStreams,
  Workers, Web, MaxStarts, MaxApplies

VARIABLES
  part,
  unused, pending, armed, due, sockets, awaiting, raiser, clearer,
  frame, blocks,
  capture_frame_index, samples, encoding, packets, next_frame_index,
  sequenceNumber, fec_block_valid, shards, base, sent, parity,
  plugged, loaded, default_sink, config_sink, holders, ctx, chose, released,
  retry_counter, before, moved, spoiled, leftover, crashes, plugs,
  driver, user, file, nv_process, nv_pc, op, session, found, undo_data,
  undo_file, nv_spoiled, nv_crashes, picks, streams,
  phase, worker_running, apply_when_idle, staged, staging_payload, streaming,
  up_pc, when_idle, binary, exe, assets, running, cancelled, installed,
  overtaken, starts, applies

L == INSTANCE LaunchSession
F == INSTANCE VideoFec
\* A shard has a header, fec_percentage is 1 to 255 (config.h), and a client's
\* minimum is any count.
ASSUME FecAssumption ==
  /\ blocksize \in Nat /\ blocksize >= 3 /\ Sizes \subseteq Nat \ {0}
  /\ Percentages \subseteq 1 .. 255 /\ Minimums \subseteq Nat
A == INSTANCE AudioStream
\* The sequence numbers of a whole number of blocks are all that there are.
ASSUME SoundAssumption ==
  /\ MaxSamples \in Nat \ {0} /\ SeqModulus \in Nat \ {0}
  /\ SeqModulus % A!RTPA_DATA_SHARDS = 0
C == INSTANCE AudioContext
N == INSTANCE NvPrefs WITH process <- nv_process, pc <- nv_pc,
                           spoiled <- nv_spoiled, crashes <- nv_crashes
U == INSTANCE Updates WITH pc <- up_pc

-----------------------------------------------------------------------------
(* A game with two prep commands, a launcher, and the desktop.             *)

ThreeApps == {game, launcher, desktop}
PrepOf ==
  [a \in Apps |-> CASE a = game -> <<TRUE, FALSE>>
                     [] a = launcher -> <<TRUE>>
                     [] OTHER -> <<FALSE, TRUE>>]
DesktopOnly == {desktop}
Games == {game}
Launchers == {launcher}
AllThreads == {control, https, web}
NormalCalls ==
  [t \in Threads |-> CASE t = https -> {"poll", "launch", "cancel"}
                        [] t = control -> {"poll"}
                        [] OTHER -> {"close", "refresh"}]
FrameSizes == 1 .. 3100

-----------------------------------------------------------------------------
launchVars ==
  <<unused, pending, armed, due, sockets, awaiting, raiser, clearer>>
fecVars == <<frame, blocks>>
soundVars ==
  <<capture_frame_index, samples, encoding, packets, next_frame_index,
    sequenceNumber, fec_block_valid, shards, base, sent, parity>>
sinkVars ==
  <<plugged, loaded, default_sink, config_sink, holders, ctx, chose,
    released, retry_counter, before, moved, spoiled, leftover, crashes, plugs>>
nvVars ==
  <<driver, user, file, nv_process, nv_pc, op, session, found, undo_data,
    undo_file, nv_spoiled, nv_crashes, picks, streams>>
updateVars ==
  <<phase, worker_running, apply_when_idle, staged, staging_payload,
    streaming, up_pc, when_idle, binary, exe, assets, running, cancelled,
    installed, overtaken, starts, applies>>
hostVars == <<vars, launchVars>>
mediaVars == <<fecVars, soundVars, sinkVars>>
machineVars == <<nvVars, updateVars>>

\* A part that a behaviour is not about stays in one initial state.
ServicesInit ==
  /\ part \in Parts
  /\ Init
  /\ IF part = "launch" THEN L!Init
     ELSE /\ unused = {} /\ pending = None /\ armed = None /\ due = {}
          /\ sockets = {} /\ awaiting = {}
          /\ raiser = L!Idle /\ clearer = L!Idle
  /\ IF part = "fec" THEN F!Init
     ELSE frame = [size |-> 1, fec |-> 20, minimum |-> 2] /\ blocks = <<>>
  /\ A!Init
  /\ IF part = "sink" THEN C!Init
     ELSE /\ plugged = {} /\ loaded = {}
          /\ default_sink = None /\ config_sink = None
          /\ holders = {} /\ ctx = C!NoContext /\ chose = {}
          /\ released = FALSE /\ retry_counter = 0
          /\ before = None
          /\ moved = FALSE /\ spoiled = FALSE /\ leftover = FALSE
          /\ crashes = 0 /\ plugs = 0
  /\ IF part = "driver" THEN N!Init
     ELSE /\ driver = Ours /\ user = Ours /\ file = N!NoFile
          /\ nv_process = "none" /\ nv_pc = "rest" /\ op = "none"
          /\ session = NoValue /\ found = NoValue
          /\ undo_data = NoValue /\ undo_file = "none"
          /\ nv_spoiled = FALSE
          /\ nv_crashes = 0 /\ picks = 0 /\ streams = 0
  /\ U!Init /\ (part # "update" => streaming)

\* Bound: when calls of AppProcess have crossed, those under way go on
\* without starting an app, and others come when all is well again.
AfterCrossing ==
  crossed =>
    /\ ~AtRest /\ appId' \in {appId, NoApp}
    /\ \A t \in Threads : At(t, "idle") => At(t, "idle")'

HostNext ==
  /\ UNCHANGED <<part, mediaVars, machineVars>>
  /\ \/ part = "apps" /\ Next /\ AfterCrossing /\ UNCHANGED launchVars
     \/ part = "launch" /\ L!Next /\ UNCHANGED vars

MediaNext ==
  /\ UNCHANGED <<part, hostVars, machineVars>>
  /\ \/ part = "fec" /\ F!Send /\ UNCHANGED <<soundVars, sinkVars>>
     \/ part = "sound" /\ A!Next /\ UNCHANGED <<fecVars, sinkVars>>
     \/ part = "sink" /\ C!Next /\ UNCHANGED <<fecVars, soundVars>>

MachineNext ==
  /\ UNCHANGED <<part, hostVars, mediaVars>>
  /\ \/ part = "driver" /\ N!Next /\ UNCHANGED updateVars
     \/ part = "update" /\ U!Next /\ UNCHANGED nvVars

\* The fairness of AppProcess and LaunchSession, where they are not at rest.
ServicesSpec ==
  /\ ServicesInit
  /\ [][HostNext \/ MediaNext \/ MachineNext]_<<part, hostVars, mediaVars,
                                               machineVars>>
  /\ \A t \in Threads : WF_vars(Step(t))
  /\ SF_vars(part = "apps" /\ \E t \in Threads : Begin(t, "poll", NoApp))
  /\ L!Fairness

-----------------------------------------------------------------------------
(* A client can rebuild what the parity of a frame covers, and what that   *)
(* of its sound covers (fec::encode, audioBroadcastThread).                *)
ParityIsSound == F!FecIsSound /\ A!ParityIsWhole

(* The properties of the other parts, stated there.                        *)
LaunchesAreTaken == L!LaunchesAreTaken
SinkComesBack == C!SinkComesBack
UserValueSurvives == N!UserValueSurvives
InstallsAreSound == U!InstallsAreSound
UpdateTakesEffect == U!UpdateTakesEffect
=============================================================================
