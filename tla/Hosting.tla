------------------------------ MODULE Hosting ------------------------------
(***************************************************************************)
(* What hosting a client changes outside its session, and who puts it      *)
(* back: the settings that the client's profile overrides                  *)
(* (src/client_profiles.cpp) and the mode of the display                   *)
(* (src/display_device.cpp). /launch, /resume and /cancel (src/nvhttp.cpp) *)
(* change and restore them on the HTTPS thread, join (src/stream.cpp) on   *)
(* whichever thread clears the slots (src/rtsp.cpp), the app's end on any, *)
(* and the file of settings is reloaded on one more (src/config.cpp).      *)
(***************************************************************************)
EXTENDS Integers, FiniteSets

CONSTANTS
  Clients,
  None,
  User,          \* the mode of the display that the user has set
  Fields,        \* settings that a profile may override
  Reloaded,      \* those that the hot reload reads again
  Profile,       \* Profile[c]: the fields that the profile of c overrides
  Outcomes,      \* what parse_configuration may answer
  OnDisconnect,  \* config_revert_on_disconnect
  MaxRequests, MaxEdits, MaxTries, MaxRestarts  \* bounds of a behaviour

ASSUME ClientsAssumption == None \notin Clients /\ User \notin Clients
ASSUME ProfilesAssumption ==
  Profile \in [Clients -> SUBSET Fields] /\ Reloaded \subseteq Fields
ASSUME OutcomesAssumption ==
  Outcomes \subseteq {"configured", "disabled", "failed"}
ASSUME BoundsAssumption ==
  OnDisconnect \in BOOLEAN /\ MaxEdits \in Nat /\ MaxRequests \in Nat

VARIABLES
  at, client,    \* where the HTTPS thread is in a request, and whose it is
  alone,         \* revert_display_configuration of the request
  app,           \* the app: none, running, or ended with nobody having looked
  pending,       \* the client whose launch session is raised
  slots,         \* the session of each client, as _session_slots knows it
  lock,          \* the thread that holds the lock of the slots
  joining,       \* the client whose session is past the reset of join
  counted,       \* running_sessions
  settings,      \* whose value each field of the global config has
  overridden, saved,  \* undo.active; what reset will restore
  file, loaded,  \* the file of settings; what the user has set as loaded
  screen,        \* whose mode the display is in
  job,           \* what the scheduler of the display is asked for
  tried,         \* tried_out_devices are those available
  lost,          \* history: what no thread will put back
  requests, tries, restarts

httpsVars == <<at, client, alone, requests>>
sessionVars == <<app, pending, slots, lock, joining, counted>>
profileVars == <<settings, overridden, saved>>
fileVars == <<file, loaded>>
displayVars == <<screen, job, tried, tries>>
vars == <<httpsVars, sessionVars, profileVars, fileVars, displayVars, lost,
          restarts>>

Nothing == [kind |-> "none", client |-> None]
Revert == [kind |-> "revert", client |-> None]
Apply(c) == [kind |-> "apply", client |-> c]

Init ==
  /\ at = "idle" /\ client = None /\ alone = FALSE /\ requests = 0
  /\ app = "none" /\ pending = None
  /\ slots = [c \in Clients |-> "none"]
  /\ lock = None /\ joining = None /\ counted = 0
  /\ settings = [f \in Fields |-> 0] /\ overridden = FALSE
  /\ saved = settings
  /\ file = 0 /\ loaded = settings
  /\ screen = User /\ job = Nothing /\ tried = FALSE /\ tries = 0
  /\ lost = {} /\ restarts = 0

-----------------------------------------------------------------------------
(* The settings: apply and reset of client_profiles, each under its mutex. *)

apply(c) ==
  IF Profile[c] = {}
    THEN UNCHANGED profileVars
    ELSE /\ settings' =
              [f \in Fields |-> IF f \in Profile[c] THEN c ELSE settings[f]]
         /\ saved' = settings
         /\ overridden' = TRUE

reset ==
  /\ settings' = IF overridden THEN saved ELSE settings
  /\ overridden' = FALSE
  /\ UNCHANGED saved

-----------------------------------------------------------------------------
(* The display. schedule replaces what the scheduler was asked for before; *)
(* its first try, which the caller may make itself, is RunJob as well.     *)

Schedule(j) ==
  /\ job' = j /\ tried' = FALSE
  /\ lost' = IF j = Revert THEN lost \ {"screen"} ELSE lost
  /\ UNCHANGED <<screen, tries>>

configure_display(c, outcome) ==
  CASE outcome = "configured" -> Schedule(Apply(c))
    [] outcome = "disabled" -> Schedule(Revert)
    [] outcome = "failed" -> UNCHANGED <<displayVars, lost>>

-----------------------------------------------------------------------------
(* /launch.                                                                *)

SlotsEmpty == \A c \in Clients : slots[c] = "none"

(* running and apply. The settings are lost when another profile is        *)
(* applied already: what is saved then is not the user's.                  *)
LaunchBegins(c) ==
  /\ at = "idle" /\ requests < MaxRequests
  /\ app # "running"
  /\ at' = "applied" /\ client' = c /\ alone' = FALSE
  /\ requests' = requests + 1
  /\ app' = "none"
  /\ apply(c)
  /\ IF app = "ended"
       THEN job' = Revert /\ tried' = FALSE ELSE UNCHANGED <<job, tried>>
  /\ lost' = (IF app = "ended" THEN lost \ {"screen"} ELSE lost) \cup
             (IF overridden /\ Profile[c] # {} THEN {"settings"} ELSE {})
  /\ UNCHANGED <<pending, slots, lock, joining, counted, fileVars, screen,
                 tries, restarts>>

(* session_count takes the lock of the slots, which clear holds while it   *)
(* joins.                                                                  *)
LaunchCounts(outcome) ==
  /\ at = "applied" /\ lock = None
  /\ at' = "configured"
  /\ alone' = SlotsEmpty
  /\ IF SlotsEmpty
       THEN configure_display(client, outcome)
       ELSE UNCHANGED <<displayVars, lost>>
  /\ UNCHANGED <<client, requests, sessionVars, profileVars, fileVars,
                 restarts>>

(* probe_encoders, the encryption that is asked for, or execute fails.     *)
LaunchFails ==
  /\ at = "configured"
  /\ at' = "ending"
  /\ UNCHANGED <<client, alone, requests, sessionVars, profileVars, fileVars,
                 displayVars, lost, restarts>>

(* execute starts the app, and launch_session_raise raises the session.    *)
LaunchExecutes ==
  /\ at = "configured"
  /\ at' = "executed" /\ app' = "running"
  /\ UNCHANGED <<client, alone, requests, pending, slots, lock, joining,
                 counted, profileVars, fileVars, displayVars, lost, restarts>>

LaunchRaises ==
  /\ at = "executed"
  /\ at' = "ending" /\ alone' = FALSE
  /\ pending' = IF pending = None THEN client ELSE pending
  /\ UNCHANGED <<client, requests, app, slots, lock, joining, counted,
                 profileVars, fileVars, displayVars, lost, restarts>>

LaunchResetsFailed ==   \* mutant: profile_guard is disabled by a success
  /\ at = "ending" /\ lock = None
  /\ at' = "idle" /\ client' = None
  /\ IF SlotsEmpty /\ alone THEN reset ELSE UNCHANGED profileVars
  /\ IF alone THEN Schedule(Revert) ELSE UNCHANGED <<displayVars, lost>>
  /\ UNCHANGED <<alone, requests, sessionVars, fileVars, restarts>>

(* The guards run in the reverse order of their declarations: profile_guard*)
(* first, whether the launch has failed or not, then g.                    *)
LaunchEnds ==
  /\ at = "ending" /\ lock = None
  /\ at' = "idle" /\ client' = None
  /\ IF SlotsEmpty THEN reset ELSE UNCHANGED profileVars
  /\ IF alone THEN Schedule(Revert) ELSE UNCHANGED <<displayVars, lost>>
  /\ UNCHANGED <<alone, requests, sessionVars, fileVars, restarts>>

-----------------------------------------------------------------------------
(* /resume. It restores nothing when it fails, as an app was running.      *)

ResumeBegins(c) ==
  /\ at = "idle" /\ requests < MaxRequests
  /\ app = "running"
  /\ at' = "resuming" /\ client' = c /\ requests' = requests + 1
  /\ UNCHANGED <<alone, sessionVars, profileVars, fileVars, displayVars, lost,
                 restarts>>

(* Meanwhile the app may have ended and have been cleaned up after; then   *)
(* nobody is left to revert what is applied now.                           *)
ResumeCounts(outcome) ==
  /\ at = "resuming" /\ lock = None
  /\ at' = "resumed"
  /\ IF SlotsEmpty
       THEN IF app = "none" /\ outcome = "configured"
              THEN /\ job' = Apply(client) /\ tried' = FALSE
                   /\ lost' = lost \cup {"screen"}
                   /\ UNCHANGED <<screen, tries>>
              ELSE configure_display(client, outcome)
       ELSE UNCHANGED <<displayVars, lost>>
  /\ UNCHANGED <<client, alone, requests, sessionVars, profileVars, fileVars,
                 restarts>>

ResumeEnds(raises) ==
  /\ at = "resumed"
  /\ at' = "idle" /\ client' = None
  /\ pending' = IF raises /\ pending = None THEN client ELSE pending
  /\ UNCHANGED <<alone, requests, app, slots, lock, joining, counted,
                 profileVars, fileVars, displayVars, lost, restarts>>

-----------------------------------------------------------------------------
(* /cancel: clear, then terminate and revert.                              *)

CancelBegins ==
  /\ at = "idle" /\ lock = None /\ requests < MaxRequests
  /\ at' = "cancelling" /\ lock' = "https"
  /\ requests' = requests + 1
  /\ UNCHANGED <<client, alone, app, pending, slots, joining, counted,
                 profileVars, fileVars, displayVars, lost, restarts>>

CancelEnds ==
  /\ at = "cancelling" /\ lock # "https"
  /\ at' = "idle" /\ app' = "none"
  /\ Schedule(Revert)
  /\ UNCHANGED <<client, alone, requests, pending, slots, lock, joining,
                 counted, profileVars, fileVars, restarts>>

-----------------------------------------------------------------------------
(* Sessions. insert waits for the lock too; session::start counts.         *)

Announce(c) ==
  /\ pending = c /\ c \in Clients /\ slots[c] = "none" /\ lock = None
  /\ pending' = None
  /\ slots' = [slots EXCEPT ![c] = "running"]
  /\ counted' = counted + 1
  /\ UNCHANGED <<httpsVars, app, lock, joining, profileVars, fileVars,
                 displayVars, lost, restarts>>

\* The client does not connect in time, or its session does not start.
Lapses ==
  /\ pending # None
  /\ pending' = None
  /\ UNCHANGED <<httpsVars, app, slots, lock, joining, counted, profileVars,
                 fileVars, displayVars, lost, restarts>>

\* The client leaves or falls silent, or the app has ended.
Stops(c) ==
  /\ slots[c] = "running"
  /\ slots' = [slots EXCEPT ![c] = "stopping"]
  /\ UNCHANGED <<httpsVars, app, pending, lock, joining, counted, profileVars,
                 fileVars, displayVars, lost, restarts>>

\* clear(false), every half second on the RTSP thread.
ClearBegins ==
  /\ lock = None /\ \E c \in Clients : slots[c] = "stopping"
  /\ lock' = "rtsp"
  /\ UNCHANGED <<httpsVars, app, pending, slots, joining, counted,
                 profileVars, fileVars, displayVars, lost, restarts>>

\* What clear still joins: every session for /cancel.
ToJoin ==
  {c \in Clients :
     slots[c] = "stopping" \/ (lock = "https" /\ slots[c] = "running")}

(* stop, and join as far as the reset of the profile.                      *)
JoinResets(c) ==
  /\ lock # None /\ joining = None /\ c \in ToJoin
  /\ joining' = c
  /\ reset
  /\ UNCHANGED <<httpsVars, app, pending, slots, lock, counted, fileVars,
                 displayVars, lost, restarts>>

(* The last session reverts the display when it is to be reverted on       *)
(* disconnect or no app is left. The slot is erased.                       *)
JoinCounts ==
  /\ joining # None
  /\ counted' = counted - 1
  /\ app' = IF counted = 1 /\ app = "ended" THEN "none" ELSE app
  /\ IF counted = 1 /\ (OnDisconnect \/ app # "running")
       THEN Schedule(Revert) ELSE UNCHANGED <<displayVars, lost>>
  /\ slots' = [slots EXCEPT ![joining] = "none"]
  /\ joining' = None
  /\ UNCHANGED <<httpsVars, pending, lock, profileVars, fileVars, restarts>>

ClearEnds ==
  /\ lock # None /\ joining = None /\ ToJoin = {}
  /\ lock' = None
  /\ UNCHANGED <<httpsVars, app, pending, slots, joining, counted,
                 profileVars, fileVars, displayVars, lost, restarts>>

-----------------------------------------------------------------------------
(* The app ends, and some thread looks; or the web interface closes it.    *)

AppEnds ==
  /\ app = "running" /\ app' = "ended"
  /\ UNCHANGED <<httpsVars, pending, slots, lock, joining, counted,
                 profileVars, fileVars, displayVars, lost, restarts>>

AppIsTerminated ==
  /\ app # "none" /\ app' = "none"
  /\ Schedule(Revert)
  /\ UNCHANGED <<httpsVars, pending, slots, lock, joining, counted,
                 profileVars, fileVars, restarts>>

(* The user edits the file, and reload_solarflare_keys reads it. What it   *)
(* reads is lost if reset restores what was there before.                  *)
Edit ==
  /\ file < MaxEdits /\ file' = file + 1
  /\ UNCHANGED <<httpsVars, sessionVars, profileVars, loaded, displayVars,
                 lost, restarts>>

Read(old) == [f \in Fields |-> IF f \in Reloaded THEN file ELSE old[f]]

reload_solarflare_keys ==
  /\ loaded # Read(loaded)
  /\ settings' = Read(settings) /\ loaded' = Read(loaded)
  /\ lost' = IF overridden THEN lost \cup {"settings"} ELSE lost
  /\ UNCHANGED <<httpsVars, sessionVars, overridden, saved, file, displayVars,
                 restarts>>

-----------------------------------------------------------------------------
(* The scheduler of the display tries: settings_iface does it, cannot for  *)
(* the moment, or fails.                                                   *)

JobDone ==
  /\ job # Nothing /\ ~tried
  /\ screen' = IF job = Revert THEN User ELSE job.client
  /\ job' = Nothing
  /\ UNCHANGED <<httpsVars, sessionVars, profileVars, fileVars, tried, tries,
                 lost, restarts>>

JobRetried ==
  /\ job # Nothing /\ ~tried /\ tries < MaxTries
  /\ tries' = tries + 1
  /\ UNCHANGED <<httpsVars, sessionVars, profileVars, fileVars, screen, job,
                 tried, lost, restarts>>

GiveUp ==   \* mutant: a revert that fails is not tried again
  /\ job # Nothing /\ ~tried /\ tries < MaxTries
  /\ tries' = tries + 1
  /\ job' = Nothing
  /\ UNCHANGED <<httpsVars, sessionVars, profileVars, fileVars, screen, tried,
                 lost, restarts>>

(* An apply that fails is given up; a revert waits for other devices.      *)
JobFails ==
  /\ job # Nothing /\ ~tried /\ tries < MaxTries
  /\ tries' = tries + 1
  /\ job' = IF job = Revert THEN job ELSE Nothing
  /\ tried' = (job = Revert)
  /\ UNCHANGED <<httpsVars, sessionVars, profileVars, fileVars, screen, lost,
                 restarts>>

DevicesChange ==
  /\ tried /\ tried' = FALSE
  /\ UNCHANGED <<httpsVars, sessionVars, profileVars, fileVars, screen, job,
                 tries, lost, restarts>>

-----------------------------------------------------------------------------
(* The host stops or crashes, and is started again. The deinit_t of the    *)
(* display tries once; init asks for what is left to be reverted.          *)
Restart ==
  /\ restarts < MaxRestarts /\ restarts' = restarts + 1
  /\ at' = "idle" /\ client' = None /\ alone' = FALSE
  /\ app' = "none" /\ pending' = None
  /\ slots' = [c \in Clients |-> "none"]
  /\ lock' = None /\ joining' = None /\ counted' = 0
  /\ settings' = [f \in Fields |-> file] /\ loaded' = settings'
  /\ overridden' = FALSE /\ saved' = settings'
  /\ screen' \in {screen, User} /\ job' = Revert /\ tried' = FALSE
  /\ lost' = {}
  /\ UNCHANGED <<requests, file, tries>>

-----------------------------------------------------------------------------
Launch ==
  \/ \E o \in Outcomes : LaunchCounts(o)
  \/ LaunchFails \/ LaunchExecutes \/ LaunchRaises \/ LaunchEnds
Resume ==
  \/ \E o \in Outcomes : ResumeCounts(o)
  \/ \E raises \in BOOLEAN : ResumeEnds(raises)
Clear ==
  \/ \E c \in Clients : JoinResets(c)
  \/ JoinCounts \/ ClearEnds
RunJob == JobDone \/ JobRetried \/ JobFails

Next ==
  \/ \E c \in Clients : LaunchBegins(c) \/ ResumeBegins(c)
  \/ CancelBegins \/ CancelEnds
  \/ Launch \/ Resume
  \/ \E c \in Clients : Announce(c) \/ Stops(c)
  \/ Lapses \/ ClearBegins \/ Clear
  \/ AppEnds \/ AppIsTerminated \/ Edit \/ reload_solarflare_keys
  \/ RunJob \/ DevicesChange \/ Restart

(* Threads go on, and the lock is served in turn; sessions stop once no    *)
(* app is left; the API of the display is back some time, and the devices  *)
(* change after a revert has failed. No client, user or app owes anything. *)
Fairness ==
  /\ SF_vars(Launch) /\ SF_vars(Resume) /\ WF_vars(CancelEnds)
  /\ WF_vars(Lapses) /\ SF_vars(ClearBegins) /\ WF_vars(Clear)
  /\ \A c \in Clients : WF_vars(Stops(c) /\ app = "none")
  /\ WF_vars(RunJob) /\ WF_vars(DevicesChange)

Spec == Init /\ [][Next]_vars /\ Fairness

-----------------------------------------------------------------------------
(* The types of the variables.                                             *)
Threads == {"https", "rtsp"}
Holders == Clients \cup {None}
Values == Clients \cup 0 .. MaxEdits
Jobs == {Nothing, Revert} \cup {Apply(c) : c \in Clients}

TypeOK ==
  /\ at \in {"idle", "applied", "configured", "executed", "ending",
             "resuming", "resumed", "cancelling"}
  /\ client \in Holders
  /\ alone \in BOOLEAN
  /\ app \in {"none", "running", "ended"}
  /\ pending \in Holders
  /\ slots \in [Clients -> {"none", "running", "stopping"}]
  /\ lock \in Threads \cup {None}
  /\ joining \in Holders
  /\ counted \in Int
  /\ settings \in [Fields -> Values]
  /\ overridden \in BOOLEAN
  /\ saved \in [Fields -> Values]
  /\ file \in 0 .. MaxEdits
  /\ loaded \in [Fields -> Values]
  /\ screen \in Clients \cup {User}
  /\ job \in Jobs
  /\ tried \in BOOLEAN
  /\ lost \subseteq {"settings", "screen"}

InLaunch == at \in {"applied", "configured", "executed", "ending"}

(* While a profile is applied someone is left who will reset it: the       *)
(* /launch that applied it, or a session whose join has not come to reset. *)
SomeoneResets ==
  overridden => InLaunch \/ \E c \in Clients : slots[c] # "none" /\ c # joining
\* What reset restores is the user's, and without a profile so is the config.
UserIsSaved ==
  "settings" \notin lost =>
    IF overridden THEN saved = loaded ELSE settings = loaded
LockHeld ==
  joining # None => joining \in Clients /\ lock # None
\* A request that goes on has a client.
ClientKnown ==
  InLaunch \/ at \in {"resuming", "resumed"} => client \in Clients

(* The inductive invariant.                                                *)
IInv == TypeOK /\ SomeoneResets /\ UserIsSaved /\ LockHeld /\ ClientKnown

AtRest == at = "idle" /\ pending = None /\ SlotsEmpty

(* When no request is under way and no session is left, the settings are   *)
(* the user's again (client_profiles.cpp:113, "Restore any global config   *)
(* values that apply() overwrote."), on every path of /launch and join;    *)
(* except that a second profile or the hot reload has come on top of one.  *)
ProfilesEnd ==
  AtRest => ~overridden /\ ("settings" \notin lost => settings = loaded)

(* Once the app is gone for good, the display comes back to the user's     *)
(* mode, through failing and restarts (try_indefinitely_with_delay).       *)
DisplayComesBack ==
  [](app = "none" =>
       <>(\/ app # "none"
          \/ "screen" \in lost
          \/ AtRest /\ screen = User /\ job = Nothing))

(* nvhttp.cpp:1004: "The profile stays applied until the session ends":    *)
(* the session of the client that launched has its profile while it runs.  *)
ProfileStaysApplied ==
  \A c \in Clients :
    slots[c] = "running" => \A f \in Profile[c] : settings[f] = c
=============================================================================
