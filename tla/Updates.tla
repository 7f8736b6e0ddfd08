------------------------------- MODULE Updates -------------------------------
(***************************************************************************)
(* The host updates itself (src/update.cpp): a worker downloads, verifies  *)
(* and stages the latest release, another one waits for the last stream to *)
(* end, installs it and restarts the host.  Requests of the web interface  *)
(* start, apply and cancel.  worker_running and apply_when_idle are        *)
(* atomics, the status is behind a lock; a step below is one access.       *)
(***************************************************************************)
EXTENDS Integers

CONSTANTS
  Workers,      \* slots for the detached threads
  Web,          \* the thread of the web interface
  MaxStarts, MaxApplies   \* bounds

VARIABLES
  phase, worker_running, apply_when_idle,
  staged,       \* the tree in the work directory: none, partial, whole
  staging_payload,  \* whether it has been set
  streaming,    \* rtsp_stream::session_count() > 0
  pc,           \* what each thread does next
  when_idle,    \* the argument of apply
  binary, exe,  \* version at sunshine and sunshine.prev; where the running
                \* process's file is
  assets,       \* version there, or Partial
  running,      \* the version of the host that runs
  cancelled,    \* a cancel was accepted since the last apply, while waiting
  installed,    \* an install has succeeded, and the host has not restarted
  overtaken,    \* a start came between two steps of an apply
  starts, applies

statusVars == <<phase, worker_running, apply_when_idle>>
stagingVars == <<staged, staging_payload>>
threadVars == <<pc, when_idle>>
fileVars == <<binary, exe, assets>>
historyVars == <<cancelled, installed, overtaken>>
boundVars == <<starts, applies>>
vars == <<statusVars, stagingVars, streaming, threadVars, fileVars, running,
          historyVars, boundVars>>

Actors == Workers \cup {Web}
Old == 0
New == 1
NoFile == -1
Partial == -2

\* sunshine, sunshine.prev, and so on: a binary installs over itself.
Paths == 0 .. 2

Init ==
  /\ phase = "idle" /\ worker_running = FALSE /\ apply_when_idle = FALSE
  /\ staged = "none" /\ staging_payload = FALSE
  /\ streaming \in BOOLEAN
  /\ pc = [t \in Actors |-> "off"] /\ when_idle = [t \in Actors |-> FALSE]
  /\ binary = [p \in Paths |-> IF p = 0 THEN Old ELSE NoFile] /\ exe = 0
  /\ assets = [p \in {0, 1} |-> IF p = 0 THEN Old ELSE NoFile]
  /\ running = Old
  /\ cancelled = FALSE /\ installed = FALSE /\ overtaken = FALSE
  /\ starts = 0 /\ applies = 0

-----------------------------------------------------------------------------
Goto(t, step) == pc' = [pc EXCEPT ![t] = step]

\* A detached thread takes over from t, which goes on with step.
Spawn(t, step, first) ==
  \E w \in Workers \ {t} :
    pc[w] = "off" /\ pc' = [pc EXCEPT ![t] = step, ![w] = first]

Status(p) == phase' = p /\ UNCHANGED <<worker_running, apply_when_idle>>

Files == UNCHANGED <<fileVars, running>>
Quiet == UNCHANGED <<streaming, when_idle, boundVars, historyVars>> /\ Files

Fail(t) == Status("error") /\ Goto(t, "release")

Release(t) ==
  /\ pc[t] = "release"
  /\ worker_running' = FALSE /\ UNCHANGED <<phase, apply_when_idle>>
  /\ Goto(t, "off")
  /\ UNCHANGED stagingVars /\ Quiet

-----------------------------------------------------------------------------
(* start, and the steps of download_worker.                                *)

StartUpdate ==
  /\ pc[Web] = "off"
  /\ starts < MaxStarts /\ starts' = starts + 1
  /\ ~worker_running /\ worker_running' = TRUE
  /\ Goto(Web, "reset")
  /\ overtaken' = \/ overtaken
                  \/ \E t \in Workers : pc[t] \in {"apply", "apply claim"}
  /\ UNCHANGED <<phase, apply_when_idle, stagingVars, streaming, when_idle,
                 cancelled, installed, applies>>
  /\ Files

ResetStatus ==
  /\ pc[Web] = "reset"
  /\ Status("checking") /\ Spawn(Web, "off", "check")
  /\ UNCHANGED stagingVars /\ Quiet

\* The work directory is emptied before the release is looked up.
CheckRelease(t) ==
  /\ pc[t] = "check"
  /\ staged' = "none" /\ UNCHANGED staging_payload
  /\ Fail(t) \/ (Status("checking") /\ Goto(t, "download"))
  /\ Quiet

Download(t) ==
  /\ pc[t] = "download"
  /\ Fail(t) \/ (Status("downloading") /\ Goto(t, "verify"))
  /\ UNCHANGED stagingVars /\ Quiet

Verify(t) ==
  /\ pc[t] = "verify"
  /\ Fail(t) \/ (Status("verifying") /\ Goto(t, "extract"))
  /\ UNCHANGED stagingVars /\ Quiet

Extract(t) ==
  /\ pc[t] = "extract"
  /\ \/ staged' = "whole" /\ Goto(t, "stage") /\ UNCHANGED statusVars
     \/ staged' \in {"none", "partial"} /\ Fail(t)
  /\ UNCHANGED staging_payload /\ Quiet

Stage(t) ==
  /\ pc[t] = "stage"
  /\ staging_payload' = TRUE /\ UNCHANGED staged
  /\ Goto(t, "ready")
  /\ UNCHANGED statusVars /\ Quiet

Ready(t) ==
  /\ pc[t] = "ready"
  /\ Status("ready") /\ Goto(t, "staged")
  /\ UNCHANGED stagingVars /\ Quiet

\* The worker applies what it has staged, as soon as no one streams.
Staged(t) ==
  /\ pc[t] = "staged"
  /\ worker_running' = FALSE /\ UNCHANGED <<phase, apply_when_idle>>
  /\ Goto(t, "apply") /\ when_idle' = [when_idle EXCEPT ![t] = TRUE]
  /\ UNCHANGED <<stagingVars, streaming, historyVars, boundVars>> /\ Files

-----------------------------------------------------------------------------
(* apply.                                                                  *)

ApplyUpdate ==
  /\ pc[Web] = "off"
  /\ applies < MaxApplies /\ applies' = applies + 1
  /\ Goto(Web, "apply")
  /\ \E b \in BOOLEAN : when_idle' = [when_idle EXCEPT ![Web] = b]
  /\ UNCHANGED <<statusVars, stagingVars, streaming, historyVars, starts>>
  /\ Files

CheckStaged(t) ==
  /\ pc[t] = "apply"
  /\ Goto(t, IF phase \in {"ready", "waiting_idle"} THEN "apply claim"
             ELSE "off")
  /\ UNCHANGED <<statusVars, stagingVars>> /\ Quiet

ClaimWithoutLooking(t) ==   \* mutant: worker_running is set, not exchanged
  /\ pc[t] = "apply claim"
  /\ worker_running' = TRUE /\ Goto(t, "apply count")
  /\ UNCHANGED <<phase, apply_when_idle, stagingVars, streaming, when_idle,
                 cancelled, installed, overtaken, boundVars>>
  /\ Files

ClaimWorker(t) ==
  /\ pc[t] = "apply claim"
  /\ worker_running' = TRUE
  /\ Goto(t, IF worker_running THEN "off" ELSE "apply count")
  /\ UNCHANGED <<phase, apply_when_idle, stagingVars>> /\ Quiet

CountSessions(t) ==
  /\ pc[t] = "apply count"
  /\ IF ~streaming THEN Spawn(t, "off", "apply now")
     ELSE Goto(t, IF when_idle[t] THEN "apply flag" ELSE "release")
  /\ cancelled' = (cancelled /\ streaming /\ ~when_idle[t])
  /\ UNCHANGED <<statusVars, stagingVars, streaming, when_idle, installed,
                 overtaken, boundVars>>
  /\ Files

WaitForIdle(t) ==
  /\ pc[t] = "apply flag"
  /\ apply_when_idle' = TRUE /\ UNCHANGED <<phase, worker_running>>
  /\ Spawn(t, "off", "waiting")
  /\ UNCHANGED stagingVars /\ Quiet

-----------------------------------------------------------------------------
(* wait_idle_then_apply and apply_now.                                     *)

BeginWaiting(t) ==
  /\ pc[t] = "waiting"
  /\ Status("waiting_idle") /\ Goto(t, "wait")
  /\ UNCHANGED stagingVars /\ Quiet

Wait(t) ==
  /\ pc[t] = "wait"
  /\ \/ ~apply_when_idle /\ Goto(t, "not any more")
     \/ apply_when_idle /\ ~streaming /\ Goto(t, "claim")
  /\ UNCHANGED <<statusVars, stagingVars>> /\ Quiet

\* complete_idle_cancel_unlocked.
BackToReady ==
  phase' = "ready" /\ worker_running' = FALSE /\ UNCHANGED apply_when_idle

CompleteIdleCancel(t) ==
  /\ pc[t] = "not any more"
  /\ BackToReady /\ Goto(t, "off")
  /\ UNCHANGED stagingVars /\ Quiet

ClaimFromIdle(t) ==
  /\ pc[t] = "claim"
  /\ IF apply_when_idle
     THEN /\ apply_when_idle' = FALSE /\ phase' = "applying"
          /\ Goto(t, "payload") /\ UNCHANGED worker_running
     ELSE BackToReady /\ Goto(t, "off")
  /\ UNCHANGED stagingVars /\ Quiet

FindPayload(t) ==
  /\ pc[t] \in {"apply now", "payload"}
  /\ IF staging_payload /\ staged # "none"
     THEN Status("applying") /\ Goto(t, "install")
     ELSE Fail(t)
  /\ UNCHANGED stagingVars /\ Quiet

-----------------------------------------------------------------------------
(* install_payload (and the helper, which takes the same steps): the old   *)
(* binary and the old assets are kept under another name.  A failure ends  *)
(* it wherever it is.                                                      *)

Installing ==
  {"install", "binary moved", "binary done", "assets", "assets moved"}

Installs(t, from, to) == pc[t] = from /\ Goto(t, to)
Untouched == UNCHANGED <<statusVars, stagingVars, running>>
Others == UNCHANGED <<streaming, when_idle, boundVars, historyVars>>

Fails(t) ==
  /\ pc[t] \in Installing
  /\ Fail(t)
  /\ UNCHANGED <<stagingVars, running, binary, exe>> /\ Others
  /\ \/ assets' = assets
     \/ /\ pc[t] \in {"assets", "assets moved"}
        /\ assets' = [assets EXCEPT ![0] = Partial]
     \/ /\ pc[t] = "assets moved"
        /\ assets' = [assets EXCEPT ![0] = assets[1], ![1] = NoFile]

\* The binary cannot be put in its place: the old one is moved back.
RollBack(t) ==
  /\ pc[t] = "binary moved"
  /\ binary' = [binary EXCEPT ![exe - 1] = binary[exe], ![exe] = NoFile]
  /\ exe' = exe - 1
  /\ Fail(t)
  /\ UNCHANGED <<stagingVars, running, assets>> /\ Others

KeepBinary(t) ==
  /\ Installs(t, "install", "binary moved")
  /\ exe + 1 \in Paths /\ exe' = exe + 1
  /\ binary' = [binary EXCEPT ![exe + 1] = binary[exe], ![exe] = NoFile]
  /\ Untouched /\ Others /\ UNCHANGED assets

PutBinary(t) ==
  /\ Installs(t, "binary moved", "binary done")
  /\ binary' = [binary EXCEPT ![exe - 1] = New]
  /\ Untouched /\ Others /\ UNCHANGED <<exe, assets>>

KeepAssets(t) ==
  /\ Installs(t, "binary done",
              IF assets[0] = NoFile THEN "assets" ELSE "assets moved")
  /\ assets' = IF assets[0] = NoFile THEN assets
               ELSE [assets EXCEPT ![1] = assets[0], ![0] = NoFile]
  /\ Untouched /\ Others /\ UNCHANGED <<binary, exe>>

PutAssets(t) ==
  /\ pc[t] \in {"assets", "assets moved"} /\ Goto(t, "installed")
  /\ assets' = [assets EXCEPT ![0] = New]
  /\ Status("restarting") /\ installed' = TRUE
  /\ UNCHANGED <<stagingVars, running, binary, exe, streaming, when_idle,
                 boundVars, cancelled, overtaken>>

ReleaseInstalled(t) ==
  /\ pc[t] = "installed"
  /\ worker_running' = FALSE /\ UNCHANGED <<phase, apply_when_idle>>
  /\ Goto(t, "restart")
  /\ UNCHANGED stagingVars /\ Quiet

\* The process executes /proc/self/exe again (restart_on_exit): all its
\* threads are gone.
Restart(t) ==
  /\ pc[t] = "restart"
  /\ running' = binary[exe]
  /\ phase' = "idle" /\ worker_running' = FALSE /\ apply_when_idle' = FALSE
  /\ staging_payload' = FALSE /\ UNCHANGED staged
  /\ pc' = [u \in Actors |-> "off"]
  /\ when_idle' = [u \in Actors |-> FALSE]
  /\ cancelled' = FALSE /\ installed' = FALSE /\ overtaken' = FALSE
  /\ UNCHANGED <<streaming, fileVars, boundVars>>

-----------------------------------------------------------------------------
(* cancel.                                                                 *)
CancelUpdate ==
  /\ pc[Web] = "off"
  /\ phase \in {"ready", "waiting_idle"}
  /\ IF phase = "waiting_idle" /\ ~worker_running
     THEN phase' = "ready" ELSE UNCHANGED phase
  /\ apply_when_idle' = FALSE /\ UNCHANGED worker_running
  /\ cancelled' = (cancelled \/ phase = "waiting_idle")
  /\ UNCHANGED <<stagingVars, streaming, threadVars, installed, overtaken,
                 boundVars>>
  /\ Files

Stream ==
  /\ streaming' = ~streaming
  /\ UNCHANGED <<statusVars, stagingVars, threadVars, historyVars, boundVars>>
  /\ Files

Stages(t) ==
  \/ CheckRelease(t) \/ Download(t) \/ Verify(t) \/ Extract(t)
  \/ Stage(t) \/ Ready(t) \/ Staged(t) \/ Release(t)

Applies(t) ==
  \/ CheckStaged(t) \/ ClaimWorker(t) \/ CountSessions(t) \/ WaitForIdle(t)
  \/ BeginWaiting(t) \/ Wait(t) \/ CompleteIdleCancel(t) \/ ClaimFromIdle(t)
  \/ FindPayload(t)

InstallsStep(t) ==
  \/ KeepBinary(t) \/ PutBinary(t) \/ KeepAssets(t) \/ PutAssets(t)
  \/ Fails(t) \/ RollBack(t) \/ ReleaseInstalled(t) \/ Restart(t)

Next ==
  \/ StartUpdate \/ ResetStatus \/ ApplyUpdate \/ CancelUpdate \/ Stream
  \/ \E t \in Actors : Stages(t) \/ Applies(t) \/ InstallsStep(t)

-----------------------------------------------------------------------------
Staging == {"check", "download", "verify", "extract", "stage"}

(* While a release is installed no thread changes the tree it is taken     *)
(* from, no other one installs, the tree is whole, and nobody has been     *)
(* told that the waiting apply is cancelled (worker_running,               *)
(* apply_now(true), cancel).  A start that comes between two steps of an   *)
(* apply may leave it a tree that is not whole.                            *)
InstallsAreSound ==
  \A t \in Actors : pc[t] \in Installing =>
    /\ \A u \in Actors \ {t} : pc[u] \notin Installing \cup Staging
    /\ staged = "whole" \/ overtaken
    /\ ~cancelled

(* The inductive invariant behind it.  worker_running belongs to the one   *)
(* thread that works; the phase tells the web interface of a tree that is  *)
(* whole, and of a wait while a thread waits; a start that could take the  *)
(* tree from a thread that has found it whole has overtaken it; a cancel   *)
(* that is accepted finds the thread before it claims the install.         *)
Waits == {"wait", "not any more", "claim"}
Applying ==
  {"apply count", "apply flag", "apply now", "waiting", "payload"} \cup Waits
Working ==
  {"reset", "ready", "staged", "release", "installed"} \cup Staging
    \cup Applying \cup Installing

OneWorks ==
  \A t \in Actors : pc[t] \in Working =>
    worker_running /\ \A u \in Actors : pc[u] \in Working => u = t

TreeIsWhole ==
  /\ phase \in {"ready", "waiting_idle"} => staged = "whole" \/ overtaken
  /\ \A t \in Actors :
       /\ pc[t] \in {"stage", "ready", "staged"} => staged = "whole"
       /\ pc[t] \in {"apply claim"} \cup Applying \cup Installing =>
            staged = "whole" \/ overtaken

StartsOvertake ==
  /\ \A u \in Actors :
       /\ pc[u] \in Staging => phase \notin {"ready", "waiting_idle"}
       /\ pc[u] = "reset" => u = Web
  /\ \A t, u \in Actors :
       /\ pc[t] = "apply claim" /\ pc[u] \in {"reset"} \cup Staging => overtaken
       /\ pc[t] = "apply" /\ pc[u] = "reset" => overtaken

CancelIsKept ==
  /\ phase = "waiting_idle" => \E t \in Actors : pc[t] \in Waits
  /\ \A t \in Actors :
       /\ pc[t] \in {"apply flag", "apply now", "waiting", "payload"}
                     \cup Installing => ~cancelled
       /\ pc[t] \in {"wait", "claim"} /\ cancelled => ~apply_when_idle

IInv ==
  /\ pc = [t \in Actors |-> pc[t]]
  /\ OneWorks /\ TreeIsWhole /\ StartsOvertake /\ CancelIsKept

(* After an install the host restarts with the version that was installed  *)
(* (restart_on_exit).                                                      *)
UpdateTakesEffect == [][installed /\ ~installed' => running' = New]_vars
=============================================================================
