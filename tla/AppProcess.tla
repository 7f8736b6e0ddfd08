----------------------------- MODULE AppProcess -----------------------------
(***************************************************************************)
(* The launched application (src/process.cpp): proc_t runs the prep        *)
(* commands of an app, starts it, watches it and undoes the commands when  *)
(* it is gone. There is one proc_t, without a lock, and most threads of    *)
(* the host call it: the two GameStream servers, the control thread, the   *)
(* RTSP thread and the web interface.  Their calls overlap as they like;   *)
(* crossed notes when two are inside terminate or execute at once, or the  *)
(* object is replaced under an app, which nothing in the code survives.    *)
(***************************************************************************)
EXTENDS Integers, Sequences

CONSTANTS
  Apps,        \* apps of the list, each with an id above zero
  Prep,        \* their prep commands: has each something to do?
  Desktop,     \* apps without a command of their own
  WaitAll,     \* apps that run as long as any process of their group
  AutoDetach,  \* apps that go on when their process has exited with 0
  Override,    \* apps with an encoder preset of their own
  Headless,    \* whether apps run in a compositor of their own
  Threads,     \* threads that call proc_t
  Calls,       \* what each of them calls it for
  NoApp        \* an _app_id of 0 or below, or no app

ASSUME AppsAssumption ==
  /\ NoApp \notin Apps
  /\ Desktop \cup WaitAll \cup AutoDetach \cup Override \subseteq Apps
  /\ Prep \in [Apps -> Seq(BOOLEAN)]
ASSUME CallsAssumption ==
  /\ Headless \in BOOLEAN
  /\ Calls \in
       [Threads -> SUBSET {"poll", "launch", "cancel", "close", "refresh"}]

VARIABLES
  appId, app,   \* _app_id and _app
  it,           \* _app_prep_it - _app_prep_begin
  placebo,      \* the app counts as running without a process
  process,      \* _process: none, running, or how it has exited
  group,        \* whether a process of _process_group runs
  quick,        \* whether the process was started a short while ago
  compositor,   \* g_headless_compositor
  preset,       \* whose encoder preset is in force, NoApp the user's
  saved,        \* g_saved_nv_preset: the preset execute found
  overridden,   \* g_nv_preset_overridden
  pc,           \* where each thread is
  call,         \* what it has called proc_t for, and the app it launches
  then,         \* what comes after terminate
  open,         \* history: prep commands passed and not undone since
  crossed       \* history: calls have crossed, and not all is well since

prepVars == <<it, open>>
processVars == <<placebo, process, group, quick, compositor>>
presetVars == <<preset, saved, overridden>>
callVars == <<pc, call, then>>
objectVars == <<appId, app, prepVars, processVars, presetVars>>
vars == <<objectVars, callVars, crossed>>

NoCall == [for |-> "none", app |-> NoApp]

Init ==
  /\ appId = NoApp /\ app = NoApp
  /\ it = 0 /\ open = {} /\ crossed = FALSE
  /\ placebo = FALSE /\ process = "none" /\ group = FALSE /\ quick = FALSE
  /\ compositor = FALSE
  /\ preset = NoApp /\ saved = NoApp /\ overridden = FALSE
  /\ pc = [t \in Threads |-> "idle"]
  /\ call = [t \in Threads |-> NoCall]
  /\ then = [t \in Threads |-> "return"]

-----------------------------------------------------------------------------
At(t, where) == pc[t] = where
Goto(t, where) == pc' = [pc EXCEPT ![t] = where]

(* A thread is inside terminate or execute.                                *)
Busy(t) == pc[t] \in {"kill", "reap", "undo", "undone", "start", "prep"}
AtRest == \A t \in Threads : ~Busy(t)

(* What an app has brought about: prep commands to undo, processes, its    *)
(* encoder preset.                                                         *)
NothingLeft ==
  /\ open = {} /\ preset = NoApp
  /\ ~placebo /\ process = "none" /\ ~group /\ ~compositor

AllIsWell == AtRest /\ appId = NoApp /\ it = 0 /\ ~overridden /\ NothingLeft

\* A step of t goes into terminate or execute, or changes the object, while
\* another thread is inside.
Crosses(t) ==
  \E u \in Threads \ {t} : Busy(u) /\ (Busy(t)' \/ objectVars' # objectVars)

(* From a step of t, proc_t::terminate is called, and something follows.   *)
Terminate(t, next) ==
  /\ Goto(t, "kill")
  /\ then' = [then EXCEPT ![t] = next]

Return(t) ==
  /\ Goto(t, "idle")
  /\ UNCHANGED then

(* The callers: a poll is a call of running alone; /launch calls execute   *)
(* when nothing runs, /cancel terminate when something does; the web       *)
(* interface calls terminate without asking.                               *)
Begin(t, why, a) ==
  /\ At(t, "idle") /\ why \in Calls[t] \ {"refresh"}
  /\ a # NoApp <=> why = "launch"
  /\ call' = [call EXCEPT ![t] = [for |-> why, app |-> a]]
  /\ IF why = "close" THEN Terminate(t, "return")
     ELSE Goto(t, "running") /\ UNCHANGED then
  /\ UNCHANGED objectVars
  /\ crossed' = (crossed \/ Crosses(t))

-----------------------------------------------------------------------------
(* proc_t::running.                                                        *)

AppRuns ==
  placebo \/ (app \in WaitAll /\ group) \/ process = "running"

ExitedGracefully == app \in AutoDetach /\ process = "exit0"

(* It answers with _app_id or 0: /cancel goes on when an app runs, /launch  *)
(* when none does, to execute, which terminates first.                     *)
Answer(t, id) ==
  IF call[t].for = "cancel" /\ id # NoApp THEN Terminate(t, "return")
  ELSE IF call[t].for = "launch" /\ id = NoApp THEN Terminate(t, "start")
  ELSE Return(t)

SeeRunning(t) ==
  /\ At(t, "running") /\ AppRuns
  /\ Answer(t, appId)
  /\ UNCHANGED <<objectVars, call>>

SeeDetached(t) ==
  /\ At(t, "running") /\ ~AppRuns /\ ExitedGracefully
  /\ placebo' = TRUE
  /\ Answer(t, appId)
  /\ UNCHANGED <<appId, app, prepVars, process, group, quick, compositor,
                 presetVars, call>>

SeeExitOnly(t) ==   \* mutant: does not clean up
  /\ At(t, "running") /\ ~AppRuns /\ ~ExitedGracefully /\ process # "none"
  /\ Return(t)
  /\ UNCHANGED <<objectVars, call>>

SeeExit(t) ==
  /\ At(t, "running") /\ ~AppRuns /\ ~ExitedGracefully /\ process # "none"
  /\ Terminate(t, "answer")
  /\ UNCHANGED <<objectVars, call>>

SeeNothing(t) ==
  /\ At(t, "running") /\ ~AppRuns /\ ~ExitedGracefully /\ process = "none"
  /\ Answer(t, NoApp)
  /\ UNCHANGED <<objectVars, call>>

Running(t) ==
  SeeRunning(t) \/ SeeDetached(t) \/ SeeExit(t) \/ SeeNothing(t)

-----------------------------------------------------------------------------
(* proc_t::terminate.                                                      *)

(* terminate_process_group begins: it waits up to exit_timeout for the     *)
(* group to go, and _process stays as it is meanwhile.                     *)
BeginKill(t) ==
  /\ At(t, "kill")
  /\ placebo' = FALSE
  /\ Goto(t, "reap")
  /\ UNCHANGED <<appId, app, prepVars, process, group, quick, compositor,
                 presetVars, call, then>>

(* The group is killed and forgotten, and the compositor stopped.          *)
Reap(t) ==
  /\ At(t, "reap")
  /\ process' = "none" /\ group' = FALSE /\ compositor' = FALSE
  /\ Goto(t, "undo")
  /\ UNCHANGED <<appId, app, prepVars, placebo, quick, presetVars, call, then>>

(* The command before _app_prep_it is undone, when it has an undo command; *)
(* other threads go on while it runs. (With the iterator before the first  *)
(* command the behaviour is undefined, and this thread stops there.)       *)
UndoCommand(t) ==
  /\ At(t, "undo") /\ it > 0
  /\ open' = open \ {<<app, it>>}
  /\ Goto(t, "undone")
  /\ UNCHANGED <<appId, app, it, processVars, presetVars, call, then>>

StepBack(t) ==
  /\ At(t, "undone")
  /\ it' = it - 1
  /\ Goto(t, "undo")
  /\ UNCHANGED <<appId, app, open, processVars, presetVars, call, then>>

(* What follows: /launch goes on to execute after running has cleaned up,  *)
(* and execute to its start after it has.                                  *)
AfterTerminate(t) ==
  IF then[t] = "start" THEN Goto(t, "start") /\ UNCHANGED then
  ELSE IF then[t] = "answer" THEN Answer(t, NoApp)
  ELSE Return(t)

FinishKeepsPreset(t) ==   \* mutant: the encoder preset is not restored
  /\ At(t, "undo") /\ it = 0
  /\ appId' = NoApp
  /\ AfterTerminate(t)
  /\ UNCHANGED <<app, prepVars, processVars, presetVars, call>>

(* Everything is undone: the encoder preset is restored if it was changed. *)
Finish(t) ==
  /\ At(t, "undo") /\ it = 0
  /\ preset' = IF overridden THEN saved ELSE preset
  /\ overridden' = FALSE
  /\ appId' = NoApp
  /\ AfterTerminate(t)
  /\ UNCHANGED <<app, prepVars, processVars, saved, call>>

TerminateStep(t) ==
  BeginKill(t) \/ Reap(t) \/ UndoCommand(t) \/ StepBack(t) \/ Finish(t)

-----------------------------------------------------------------------------
(* proc_t::execute, after its call of terminate.                           *)

(* The app is not in the list: 404.                                        *)
NotFound(t) ==
  /\ At(t, "start")
  /\ Return(t)
  /\ UNCHANGED <<objectVars, call>>

StartApp(t) ==
  /\ At(t, "start")
  /\ LET a == call[t].app
         overrides == a \in Override
     IN /\ appId' = a /\ app' = a
        /\ preset' = IF overrides THEN a ELSE preset
        /\ saved' = IF overrides THEN preset ELSE saved
        /\ overridden' = (overrides \/ overridden)
  /\ it' = 0
  /\ Goto(t, "prep")
  /\ UNCHANGED <<open, processVars, call, then>>

\* The loop over the prep commands is at one of them, or through. (Elsewhere,
\* where calls have crossed, the behaviour is undefined.)
AtCommand(t) == At(t, "prep") /\ app \in Apps /\ it \in 0 .. Len(Prep[app]) - 1
Prepared(t) == At(t, "prep") /\ app \in Apps /\ it = Len(Prep[app])

(* A prep command is run and waited for, or skipped when it has nothing to *)
(* do (or may not be run yet, for the desktop); it will be undone.         *)
PrepCommand(t) ==
  /\ AtCommand(t)
  /\ it' = it + 1
  /\ open' = open \cup {<<app, it + 1>>}
  /\ UNCHANGED <<appId, app, processVars, presetVars, callVars>>

(* It cannot be run, or fails: the fail guard terminates what was started. *)
PrepFails(t) ==
  /\ AtCommand(t) /\ Prep[app][it + 1]
  /\ Terminate(t, "return")
  /\ UNCHANGED <<objectVars, call>>

(* The prep commands are done; the desktop has no command.                 *)
ShowDesktop(t) ==
  /\ Prepared(t) /\ app \in Desktop
  /\ placebo' = TRUE
  /\ Return(t)
  /\ UNCHANGED <<appId, app, prepVars, process, group, quick, compositor,
                 presetVars, call>>

(* The compositor, if apps have one, does not start.                       *)
CompositorFails(t) ==
  /\ Prepared(t) /\ app \notin Desktop /\ Headless
  /\ Terminate(t, "return")
  /\ UNCHANGED <<objectVars, call>>

(* The compositor starts, and then the app, or it does not and the         *)
(* compositor is stopped again.                                            *)
SpawnApp(t) ==
  /\ Prepared(t) /\ app \notin Desktop
  /\ process' = "running" /\ group' = TRUE /\ quick' = TRUE
  /\ compositor' = Headless
  /\ Return(t)
  /\ UNCHANGED <<appId, app, prepVars, placebo, presetVars, call>>

SpawnFails(t) ==
  /\ Prepared(t) /\ app \notin Desktop
  /\ process' = "none" /\ compositor' = FALSE
  /\ Terminate(t, "return")
  /\ UNCHANGED <<appId, app, prepVars, placebo, group, quick, presetVars,
                 call>>

Execute(t) ==
  \/ NotFound(t) \/ StartApp(t) \/ PrepCommand(t) \/ PrepFails(t)
  \/ ShowDesktop(t) \/ CompositorFails(t) \/ SpawnApp(t) \/ SpawnFails(t)

-----------------------------------------------------------------------------
(* proc::refresh, called by the web interface when an app is saved or      *)
(* deleted: a new proc_t takes the place of the old one.                   *)
Refresh(t) ==
  /\ At(t, "idle") /\ "refresh" \in Calls[t]
  /\ appId' = NoApp /\ app' = NoApp /\ it' = 0
  /\ placebo' = FALSE /\ process' = "none" /\ group' = FALSE
  /\ crossed' = (crossed \/ ~AtRest \/ appId # NoApp)
  /\ UNCHANGED <<open, quick, compositor, presetVars, callVars>>

(* The app: its first process exits, the others of its group, time passes. *)
ProcessExits ==
  /\ process = "running"
  /\ process' \in {"exit0", "failed"}
  /\ UNCHANGED <<appId, app, prepVars, placebo, group, quick, compositor,
                 presetVars, callVars, crossed>>

GroupExits ==
  /\ group /\ process # "running"
  /\ group' = FALSE
  /\ UNCHANGED <<appId, app, prepVars, placebo, process, quick, compositor,
                 presetVars, callVars, crossed>>

TimePasses ==
  /\ quick /\ process = "running"
  /\ quick' = FALSE
  /\ UNCHANGED <<appId, app, prepVars, placebo, process, group, compositor,
                 presetVars, callVars, crossed>>

-----------------------------------------------------------------------------
Step(t) ==
  /\ Running(t) \/ TerminateStep(t) \/ Execute(t)
  /\ crossed' = (~AllIsWell' /\ (crossed \/ Crosses(t)))

Next ==
  \/ \E t \in Threads :
       \/ \E why \in Calls[t], a \in Apps \cup {NoApp} : Begin(t, why, a)
       \/ Step(t) \/ Refresh(t)
  \/ ProcessExits \/ GroupExits \/ TimePasses

Spec == Init /\ [][Next]_vars

(* The threads go on, and some thread keeps polling, as the control thread *)
(* does while a client streams. Commands end; the app and the other calls  *)
(* owe nothing.                                                            *)
FairSpec ==
  /\ Spec
  /\ \A t \in Threads : WF_vars(Step(t))
  /\ SF_vars(\E t \in Threads : Begin(t, "poll", NoApp))

-----------------------------------------------------------------------------
Places == {"idle", "running", "kill", "reap", "undo", "undone", "start",
           "prep"}

CallRecords ==
  [for : {"none", "poll", "launch", "cancel", "close"},
   app : Apps \cup {NoApp}]

TypeOK ==
  /\ appId \in Apps \cup {NoApp} /\ app \in Apps \cup {NoApp}
  /\ preset \in Apps \cup {NoApp} /\ saved \in Apps \cup {NoApp}
  /\ it \in Int /\ open \subseteq Apps \X Nat
  /\ placebo \in BOOLEAN /\ group \in BOOLEAN /\ quick \in BOOLEAN
  /\ compositor \in BOOLEAN /\ overridden \in BOOLEAN /\ crossed \in BOOLEAN
  /\ process \in {"none", "running", "exit0", "failed"}
  /\ pc \in [Threads -> Places]
  /\ call \in [Threads -> CallRecords]
  /\ then \in [Threads -> {"return", "answer", "start"}]

(* An app that runs no more has left nothing behind: whenever no call is   *)
(* under way and _app_id names no app, every prep command of earlier apps  *)
(* has been undone, their processes are gone, and the user's encoder       *)
(* preset is back, unless calls have crossed.                              *)
AppsLeaveNothing ==
  appId = NoApp /\ AtRest => NothingLeft \/ crossed

(* Another app is started only when nothing is left of the one before.     *)
OneAppAtATime == [][app' # app => NothingLeft \/ crossed']_vars

(* Prep commands are undone one at a time, last one first.                 *)
UndoneInReverse ==
  [][\A c \in open \ open' : \A d \in open : d[2] <= c[2] \/ crossed]_vars

(* When the process of an app has failed and its group is gone, its prep   *)
(* commands are undone: running() cleans up after it, however many threads *)
(* poll, unless two of them clean up at once.                              *)
ExitIsCleanedUp == (process = "failed" /\ ~group) ~> (NothingLeft \/ crossed)

-----------------------------------------------------------------------------
(* The inductive invariant behind them: who goes on to launch knows which  *)
(* app; and as long as no calls have crossed, one thread at most is inside *)
(* terminate or execute, while any number look whether the app runs.       *)

Terminating == {"kill", "reap", "undo", "undone"}

LaunchKnown ==
  \A t \in Threads :
    /\ call[t].for = "launch" => call[t].app \in Apps
    /\ pc[t] \in Terminating /\ then[t] = "start" => call[t].for = "launch"
    /\ At(t, "start") => call[t].for = "launch"

OneCall == \A t, u \in Threads : Busy(t) /\ Busy(u) => t = u

PreparesAnApp ==
  (\E t \in Threads : At(t, "prep")) => appId \in Apps /\ app \in Apps

(* The prep commands to undo are those of _app up to _app_prep_it.         *)
Tracked ==
  /\ it >= 0
  /\ IF \E t \in Threads : At(t, "undone")
       THEN it > 0 /\ open = {app} \X (1 .. it - 1)
       ELSE open = {app} \X (1 .. it)

(* From the moment its processes have been reaped nothing of an app runs.  *)
Stopped == ~placebo /\ process = "none" /\ ~group /\ ~compositor

Reaped ==
  \A t \in Threads :
    /\ At(t, "reap") => ~placebo
    /\ pc[t] \in {"undo", "undone", "start", "prep"} => Stopped
    /\ At(t, "start") => it = 0 /\ preset = NoApp

PresetKept == IF overridden THEN saved = NoApp ELSE preset = NoApp

RestsEmpty == appId = NoApp /\ AtRest => NothingLeft

Uncrossed ==
  OneCall /\ PreparesAnApp /\ Tracked /\ Reaped /\ PresetKept /\ RestsEmpty

IInv == TypeOK /\ LaunchKnown /\ (crossed \/ Uncrossed)

=============================================================================
