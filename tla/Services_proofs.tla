--------------------------- MODULE Services_proofs ---------------------------
(***************************************************************************)
(* Proofs about what the host does beside the pictures, for every value of *)
(* the constants: the launched application (AppProcess), the pending       *)
(* launch (LaunchSession), the driver's settings (NvPrefs), the update     *)
(* (Updates), the sink (AudioContext), the sound (AudioStream) and the     *)
(* blocks of a frame (VideoFec).                                           *)
(***************************************************************************)
EXTENDS MCServices, Counting, TLAPS

USE DEF At, Goto, Terminate, Return, Busy, AtRest,
        prepVars, processVars, presetVars, objectVars, callVars

(* proc_t::proc_t: there is no app and no thread has called anything.      *)
LEMMA InitIInv == Init => IInv
<1> SUFFICES ASSUME Init PROVE IInv
  OBVIOUS
<1>1. TypeOK
  <2> NoCall \in CallRecords
    BY DEF NoCall, CallRecords
  <2>1. it \in Int
    BY DEF Init
  <2> QED BY <2>1 DEF Init, TypeOK, Places
<1>2. LaunchKnown
  BY DEF Init, LaunchKnown, NoCall, Terminating
<1>3. OneCall /\ PreparesAnApp /\ Reaped /\ PresetKept /\ RestsEmpty
  BY DEF Init, OneCall, PreparesAnApp, Reaped, PresetKept, RestsEmpty,
         NothingLeft
<1>4. Tracked
  BY DEF Init, Tracked
<1> QED BY <1>1, <1>2, <1>3, <1>4 DEF IInv, Uncrossed

(* Whatever crosses, who goes on to launch knows which app.                *)
LEMMA StepTypeOK ==
  ASSUME TypeOK, LaunchKnown, NEW t \in Threads, Step(t)
  PROVE  TypeOK' /\ LaunchKnown'
<1> USE DEF TypeOK, Places, CallRecords, LaunchKnown, Terminating
<1>0. crossed' \in BOOLEAN
  BY DEF Step
<1>1. CASE SeeRunning(t)
  BY <1>0, <1>1 DEF SeeRunning, Answer
<1>2. CASE SeeDetached(t)
  BY <1>0, <1>2 DEF SeeDetached, Answer
<1>3. CASE SeeExit(t)
  BY <1>0, <1>3 DEF SeeExit
<1>4. CASE SeeNothing(t)
  BY <1>0, <1>4 DEF SeeNothing, Answer
<1>5. CASE BeginKill(t)
  BY <1>0, <1>5 DEF BeginKill
<1>6. CASE Reap(t)
  BY <1>0, <1>6 DEF Reap
<1>7. CASE UndoCommand(t)
  BY <1>0, <1>7 DEF UndoCommand
<1>8. CASE StepBack(t)
  BY <1>0, <1>8 DEF StepBack
<1>9. CASE Finish(t)
  BY <1>0, <1>9 DEF Finish, AfterTerminate, Answer
<1>10. CASE NotFound(t)
  BY <1>0, <1>10 DEF NotFound
<1>11. CASE StartApp(t)
  BY <1>0, <1>11 DEF StartApp
<1>12. CASE PrepCommand(t)
  BY <1>0, <1>12 DEF PrepCommand, AtCommand
<1>13. CASE PrepFails(t)
  BY <1>0, <1>13 DEF PrepFails, AtCommand
<1>14. CASE ShowDesktop(t)
  BY <1>0, <1>14 DEF ShowDesktop, Prepared
<1>15. CASE CompositorFails(t)
  BY <1>0, <1>15 DEF CompositorFails, Prepared
<1>16. CASE SpawnApp(t)
  BY <1>0, <1>16, CallsAssumption DEF SpawnApp, Prepared
<1>17. CASE SpawnFails(t)
  BY <1>0, <1>17 DEF SpawnFails, Prepared
<1> QED BY <1>1, <1>2, <1>3, <1>4, <1>5, <1>6, <1>7, <1>8, <1>9, <1>10,
           <1>11, <1>12, <1>13, <1>14, <1>15, <1>16, <1>17
       DEF Step, Running, TerminateStep, Execute

(* As long as nothing has crossed and nothing crosses, no step of running, *)
(* terminate or execute breaks the rest of the invariant: while t is in    *)
(* terminate or execute, or changes the object, no other thread is inside. *)
LEMMA StepUncrossed ==
  ASSUME TypeOK, LaunchKnown, Uncrossed, NEW t \in Threads, Step(t),
         ~Crosses(t)
  PROVE  Uncrossed'
<1> USE DEF TypeOK, Uncrossed
<1>0. \A u \in Threads \ {t} :
        Busy(u) => ~Busy(t)' /\ UNCHANGED objectVars
  BY DEF Crosses
<1>1. CASE SeeRunning(t)
  <2> USE <1>1, <1>0 DEF SeeRunning, Answer
  <2>1. OneCall' /\ PreparesAnApp'
    BY DEF OneCall, PreparesAnApp, LaunchKnown, Terminating
  <2>2. Tracked'
    BY DEF Tracked, OneCall, Reaped
  <2>3. Reaped' /\ PresetKept'
    BY DEF Reaped, PresetKept, Stopped, OneCall, LaunchKnown
  <2>4. RestsEmpty'
    BY DEF RestsEmpty, NothingLeft, Reaped, Stopped, Tracked, PresetKept
  <2> QED BY <2>1, <2>2, <2>3, <2>4
<1>2. CASE SeeDetached(t)
  <2> USE <1>2, <1>0 DEF SeeDetached, Answer
  <2>0. \A u \in Threads \ {t} : ~Busy(u)
    BY DEF AppRuns
  <2> USE <2>0
  <2>1. OneCall' /\ PreparesAnApp'
    BY DEF OneCall, PreparesAnApp, LaunchKnown, Terminating
  <2>2. Tracked'
    BY DEF Tracked, OneCall, Reaped
  <2>3. Reaped' /\ PresetKept'
    BY DEF Reaped, PresetKept, Stopped, OneCall, LaunchKnown
  <2>4. RestsEmpty'
    BY DEF RestsEmpty, NothingLeft, ExitedGracefully
  <2> QED BY <2>1, <2>2, <2>3, <2>4
<1>3. CASE SeeExit(t)
  <2> USE <1>3, <1>0 DEF SeeExit
  <2>1. OneCall' /\ PreparesAnApp'
    BY DEF OneCall, PreparesAnApp, LaunchKnown, Terminating
  <2>2. Tracked'
    BY DEF Tracked, OneCall, Reaped
  <2>3. Reaped' /\ PresetKept'
    BY DEF Reaped, PresetKept, Stopped, OneCall, LaunchKnown
  <2>4. RestsEmpty'
    BY DEF RestsEmpty, NothingLeft, Reaped, Stopped, Tracked, PresetKept
  <2> QED BY <2>1, <2>2, <2>3, <2>4
<1>4. CASE SeeNothing(t)
  <2> USE <1>4, <1>0 DEF SeeNothing, Answer
  <2>1. OneCall' /\ PreparesAnApp'
    BY DEF OneCall, PreparesAnApp, LaunchKnown, Terminating
  <2>2. Tracked'
    BY DEF Tracked, OneCall, Reaped
  <2>3. Reaped' /\ PresetKept'
    BY DEF Reaped, PresetKept, Stopped, OneCall, LaunchKnown
  <2>4. RestsEmpty'
    BY DEF RestsEmpty, NothingLeft, Reaped, Stopped, Tracked, PresetKept
  <2> QED BY <2>1, <2>2, <2>3, <2>4
<1>5. CASE BeginKill(t)
  <2> USE <1>5, <1>0 DEF BeginKill
  <2>1. OneCall' /\ PreparesAnApp'
    BY DEF OneCall, PreparesAnApp, LaunchKnown, Terminating
  <2>2. Tracked'
    BY DEF Tracked, OneCall, Reaped
  <2>3. Reaped' /\ PresetKept'
    BY DEF Reaped, PresetKept, Stopped, OneCall, LaunchKnown
  <2>4. RestsEmpty'
    BY DEF RestsEmpty, NothingLeft, Reaped, Stopped, Tracked, PresetKept
  <2> QED BY <2>1, <2>2, <2>3, <2>4
<1>6. CASE Reap(t)
  <2> USE <1>6, <1>0 DEF Reap
  <2>1. OneCall' /\ PreparesAnApp'
    BY DEF OneCall, PreparesAnApp, LaunchKnown, Terminating
  <2>2. Tracked'
    BY DEF Tracked, OneCall, Reaped
  <2>3. Reaped' /\ PresetKept'
    BY DEF Reaped, PresetKept, Stopped, OneCall, LaunchKnown
  <2>4. RestsEmpty'
    BY DEF RestsEmpty, NothingLeft, Reaped, Stopped, Tracked, PresetKept
  <2> QED BY <2>1, <2>2, <2>3, <2>4
<1>7. CASE UndoCommand(t)
  <2> USE <1>7, <1>0 DEF UndoCommand
  <2>1. OneCall' /\ PreparesAnApp'
    BY DEF OneCall, PreparesAnApp, LaunchKnown, Terminating
  <2>2. Tracked'
    BY DEF Tracked, OneCall, Reaped
  <2>3. Reaped' /\ PresetKept'
    BY DEF Reaped, PresetKept, Stopped, OneCall, LaunchKnown
  <2>4. RestsEmpty'
    BY DEF RestsEmpty, NothingLeft, Reaped, Stopped, Tracked, PresetKept
  <2> QED BY <2>1, <2>2, <2>3, <2>4
<1>8. CASE StepBack(t)
  <2> USE <1>8, <1>0 DEF StepBack
  <2>1. OneCall' /\ PreparesAnApp'
    BY DEF OneCall, PreparesAnApp, LaunchKnown, Terminating
  <2>2. Tracked'
    BY DEF Tracked, OneCall, Reaped
  <2>3. Reaped' /\ PresetKept'
    BY DEF Reaped, PresetKept, Stopped, OneCall, LaunchKnown
  <2>4. RestsEmpty'
    BY DEF RestsEmpty, NothingLeft, Reaped, Stopped, Tracked, PresetKept
  <2> QED BY <2>1, <2>2, <2>3, <2>4
<1>9. CASE Finish(t)
  <2> USE <1>9, <1>0 DEF Finish, AfterTerminate, Answer
  <2>1. OneCall' /\ PreparesAnApp'
    BY DEF OneCall, PreparesAnApp, LaunchKnown, Terminating
  <2>2. Tracked'
    BY DEF Tracked, OneCall, Reaped
  <2>3. Reaped' /\ PresetKept'
    BY DEF Reaped, PresetKept, Stopped, OneCall, LaunchKnown
  <2>4. RestsEmpty'
    BY DEF RestsEmpty, NothingLeft, Reaped, Stopped, Tracked, PresetKept
  <2> QED BY <2>1, <2>2, <2>3, <2>4
<1>10. CASE NotFound(t)
  <2> USE <1>10, <1>0 DEF NotFound
  <2>1. OneCall' /\ PreparesAnApp'
    BY DEF OneCall, PreparesAnApp, LaunchKnown, Terminating
  <2>2. Tracked'
    BY DEF Tracked, OneCall, Reaped
  <2>3. Reaped' /\ PresetKept'
    BY DEF Reaped, PresetKept, Stopped, OneCall, LaunchKnown
  <2>4. RestsEmpty'
    BY DEF RestsEmpty, NothingLeft, Reaped, Stopped, Tracked, PresetKept
  <2> QED BY <2>1, <2>2, <2>3, <2>4
<1>11. CASE StartApp(t)
  <2> USE <1>11, <1>0 DEF StartApp
  <2>1. OneCall' /\ PreparesAnApp'
    BY DEF OneCall, PreparesAnApp, LaunchKnown, Terminating
  <2>2. Tracked'
    BY DEF Tracked, OneCall, Reaped
  <2>3. Reaped' /\ PresetKept'
    BY DEF Reaped, PresetKept, Stopped, OneCall, LaunchKnown
  <2>4. RestsEmpty'
    BY DEF RestsEmpty, NothingLeft, Reaped, Stopped, Tracked, PresetKept
  <2> QED BY <2>1, <2>2, <2>3, <2>4
<1>12. CASE PrepCommand(t)
  <2> USE <1>12, <1>0 DEF PrepCommand, AtCommand
  <2>1. OneCall' /\ PreparesAnApp'
    BY DEF OneCall, PreparesAnApp, LaunchKnown, Terminating
  <2>2. Tracked'
    BY DEF Tracked, OneCall, Reaped
  <2>3. Reaped' /\ PresetKept'
    BY DEF Reaped, PresetKept, Stopped, OneCall, LaunchKnown
  <2>4. RestsEmpty'
    BY DEF RestsEmpty, NothingLeft, Reaped, Stopped, Tracked, PresetKept
  <2> QED BY <2>1, <2>2, <2>3, <2>4
<1>13. CASE PrepFails(t)
  <2> USE <1>13, <1>0 DEF PrepFails, AtCommand
  <2>1. OneCall' /\ PreparesAnApp'
    BY DEF OneCall, PreparesAnApp, LaunchKnown, Terminating
  <2>2. Tracked'
    BY DEF Tracked, OneCall, Reaped
  <2>3. Reaped' /\ PresetKept'
    BY DEF Reaped, PresetKept, Stopped, OneCall, LaunchKnown
  <2>4. RestsEmpty'
    BY DEF RestsEmpty, NothingLeft, Reaped, Stopped, Tracked, PresetKept
  <2> QED BY <2>1, <2>2, <2>3, <2>4
<1>14. CASE ShowDesktop(t)
  <2> USE <1>14, <1>0 DEF ShowDesktop, Prepared
  <2>1. OneCall' /\ PreparesAnApp'
    BY DEF OneCall, PreparesAnApp, LaunchKnown, Terminating
  <2>2. Tracked'
    BY DEF Tracked, OneCall, Reaped
  <2>3. Reaped' /\ PresetKept'
    BY DEF Reaped, PresetKept, Stopped, OneCall, LaunchKnown
  <2>4. RestsEmpty'
    BY AppsAssumption DEF RestsEmpty, PreparesAnApp
  <2> QED BY <2>1, <2>2, <2>3, <2>4
<1>15. CASE CompositorFails(t)
  <2> USE <1>15, <1>0 DEF CompositorFails, Prepared
  <2>1. OneCall' /\ PreparesAnApp'
    BY DEF OneCall, PreparesAnApp, LaunchKnown, Terminating
  <2>2. Tracked'
    BY DEF Tracked, OneCall, Reaped
  <2>3. Reaped' /\ PresetKept'
    BY DEF Reaped, PresetKept, Stopped, OneCall, LaunchKnown
  <2>4. RestsEmpty'
    BY DEF RestsEmpty, NothingLeft, Reaped, Stopped, Tracked, PresetKept
  <2> QED BY <2>1, <2>2, <2>3, <2>4
<1>16. CASE SpawnApp(t)
  <2> USE <1>16, <1>0 DEF SpawnApp, Prepared
  <2>1. OneCall' /\ PreparesAnApp'
    BY DEF OneCall, PreparesAnApp, LaunchKnown, Terminating
  <2>2. Tracked'
    BY DEF Tracked, OneCall, Reaped
  <2>3. Reaped' /\ PresetKept'
    BY DEF Reaped, PresetKept, Stopped, OneCall, LaunchKnown
  <2>4. RestsEmpty'
    BY AppsAssumption DEF RestsEmpty, PreparesAnApp
  <2> QED BY <2>1, <2>2, <2>3, <2>4
<1>17. CASE SpawnFails(t)
  <2> USE <1>17, <1>0 DEF SpawnFails, Prepared
  <2>1. OneCall' /\ PreparesAnApp'
    BY DEF OneCall, PreparesAnApp, LaunchKnown, Terminating
  <2>2. Tracked'
    BY DEF Tracked, OneCall, Reaped
  <2>3. Reaped' /\ PresetKept'
    BY DEF Reaped, PresetKept, Stopped, OneCall, LaunchKnown
  <2>4. RestsEmpty'
    BY DEF RestsEmpty, NothingLeft, Reaped, Stopped, Tracked, PresetKept
  <2> QED BY <2>1, <2>2, <2>3, <2>4
<1> QED BY <1>1, <1>2, <1>3, <1>4, <1>5, <1>6, <1>7, <1>8, <1>9, <1>10,
           <1>11, <1>12, <1>13, <1>14, <1>15, <1>16, <1>17
       DEF Step, Running, TerminateStep, Execute

(* When all is well after a crossing, the invariant is back.               *)
LEMMA WellAgain ==
  ASSUME AllIsWell
  PROVE  Uncrossed
<1> USE DEF AllIsWell, NothingLeft
<1>1. {app} \X (1 .. it) = {}
  OBVIOUS
<1>2. OneCall /\ PreparesAnApp /\ Reaped /\ PresetKept /\ RestsEmpty
  BY DEF OneCall, PreparesAnApp, Reaped, PresetKept, RestsEmpty
<1>3. Tracked
  BY <1>1 DEF Tracked
<1> QED BY <1>2, <1>3 DEF Uncrossed

(* No step of running, terminate or execute breaks the invariant.          *)
LEMMA StepIInv ==
  ASSUME IInv, NEW t \in Threads, Step(t)
  PROVE  IInv'
<1>1. TypeOK' /\ LaunchKnown'
  BY StepTypeOK DEF IInv
<1>2. CASE AllIsWell'
  <2>1. Uncrossed'
    BY <1>2, WellAgain, PTL
  <2> QED BY <1>1, <2>1 DEF IInv
<1>3. CASE ~AllIsWell' /\ (crossed \/ Crosses(t))
  BY <1>1, <1>3 DEF IInv, Step
<1>4. CASE ~crossed /\ ~Crosses(t)
  BY <1>1, <1>4, StepUncrossed DEF IInv
<1> QED BY <1>2, <1>3, <1>4

(* Nor does a new call, the replacement of proc_t by the web interface, or *)
(* the app itself.                                                         *)
LEMMA NextIInv ==
  ASSUME IInv, [Next]_vars
  PROVE  IInv'
<1> USE DEF IInv, TypeOK, Places, Uncrossed
<1>1. ASSUME NEW t \in Threads, NEW why \in Calls[t],
             NEW a \in Apps \cup {NoApp}, Begin(t, why, a)
      PROVE  IInv'
  <2> USE <1>1 DEF Begin
  <2>1. [for |-> why, app |-> a] \in CallRecords
    BY CallsAssumption DEF CallRecords
  <2>2. TypeOK'
    BY <2>1
  <2>3. LaunchKnown'
    BY DEF LaunchKnown, Terminating
  <2>4. ASSUME ~crossed' PROVE Uncrossed'
    <3> USE <2>4
    <3>0. ~crossed /\ \A u \in Threads \ {t} : Busy(u) => ~Busy(t)'
      BY DEF Crosses
    <3>1. OneCall' /\ PreparesAnApp'
      BY <3>0 DEF OneCall, PreparesAnApp
    <3>2. Tracked'
      BY <3>0 DEF Tracked
    <3>3. Reaped' /\ PresetKept'
      BY <3>0 DEF Reaped, PresetKept, Stopped
    <3>4. RestsEmpty'
      BY <3>0 DEF RestsEmpty, NothingLeft
    <3> QED BY <3>1, <3>2, <3>3, <3>4
  <2> QED BY <2>2, <2>3, <2>4
<1>2. ASSUME NEW t \in Threads, Step(t) PROVE IInv'
  BY <1>2, StepIInv
<1>3. ASSUME NEW t \in Threads, Refresh(t) PROVE IInv'
  <2> USE <1>3 DEF Refresh
  <2>1. TypeOK'
    <3>1. crossed' \in BOOLEAN /\ it' \in Int
      OBVIOUS
    <3> QED BY <3>1
  <2>2. LaunchKnown'
    BY DEF LaunchKnown, Terminating
  <2>3. ASSUME ~crossed' PROVE Uncrossed'
    <3>1. ~crossed /\ AtRest /\ appId = NoApp
      BY <2>3
    <3>2. NothingLeft
      BY <3>1 DEF RestsEmpty
    <3>3. OneCall' /\ PreparesAnApp' /\ Reaped' /\ PresetKept'
      BY <3>1 DEF OneCall, PreparesAnApp, Reaped, PresetKept
    <3>4. open' = {} /\ it' = 0 /\ {app'} \X (1 .. it') = {}
      BY <3>2 DEF NothingLeft
    <3>5. Tracked'
      BY <3>1, <3>4 DEF Tracked
    <3>6. RestsEmpty'
      BY <3>2 DEF RestsEmpty, NothingLeft
    <3> QED BY <3>3, <3>5, <3>6
  <2> QED BY <2>1, <2>2, <2>3
<1>4. CASE ProcessExits \/ GroupExits \/ TimePasses
  <2> USE <1>4 DEF ProcessExits, GroupExits, TimePasses
  <2>1. TypeOK' /\ UNCHANGED crossed
    OBVIOUS
  <2>2. LaunchKnown'
    BY DEF LaunchKnown, Terminating
  <2>3. ASSUME ~crossed PROVE Uncrossed'
    <3> USE <2>3
    <3>1. OneCall' /\ PreparesAnApp'
      BY DEF OneCall, PreparesAnApp
    <3>2. Tracked'
      BY DEF Tracked
    <3>3. Reaped'
      BY DEF Reaped, Stopped
    <3>4. PresetKept' /\ RestsEmpty'
      BY DEF PresetKept, RestsEmpty, NothingLeft
    <3> QED BY <3>1, <3>2, <3>3, <3>4
  <2> QED BY <2>1, <2>2, <2>3
<1>5. CASE UNCHANGED vars
  BY <1>5 DEF vars, LaunchKnown, OneCall, PreparesAnApp, Tracked, Reaped,
     PresetKept, RestsEmpty, NothingLeft, Stopped
<1> QED BY <1>1, <1>2, <1>3, <1>4, <1>5 DEF Next

(* However many threads look whether the app runs, launch, cancel or close *)
(* it, as long as no two are inside terminate or execute at once, nor the  *)
(* object is replaced under an app: the prep commands to undo are those up *)
(* to _app_prep_it, and nothing is left of an app when none is named.      *)
THEOREM AppInvariant == Spec => []IInv
<1>1. Init => IInv
  BY InitIInv
<1>2. IInv /\ [Next]_vars => IInv'
  BY NextIInv
<1> QED BY <1>1, <1>2, PTL DEF Spec

(* After terminate, and so after running has seen an app exit and after a  *)
(* launch that fails, every prep command has been undone, the processes of *)
(* the app are gone and the user's encoder preset is back, unless calls    *)
(* have crossed.                                                           *)
THEOREM AppsClean == Spec => []AppsLeaveNothing
<1>1. IInv => AppsLeaveNothing
  BY DEF IInv, Uncrossed, RestsEmpty, AppsLeaveNothing
<1>2. Spec => []IInv
  BY AppInvariant
<1> QED BY <1>1, <1>2, PTL

(* execute runs for another app only when nothing is left of the last one, *)
(* unless calls have crossed.                                              *)
THEOREM AppsOneAtATime == Spec => OneAppAtATime
<1>1. ASSUME IInv, [Next]_vars
      PROVE  [app' # app => NothingLeft \/ crossed']_vars
  <2> SUFFICES ASSUME app' # app, ~crossed' PROVE NothingLeft
    OBVIOUS
  <2>1. PICK t \in Threads : (StartApp(t) /\ Step(t)) \/ Refresh(t)
    BY <1>1 DEF Next, Step, Begin, Running, TerminateStep, Execute,
       SeeRunning, SeeDetached, SeeExit, SeeNothing, BeginKill, Reap,
       UndoCommand, StepBack, Finish, NotFound, PrepCommand, PrepFails,
       ShowDesktop, CompositorFails, SpawnApp, SpawnFails, ProcessExits,
       GroupExits, TimePasses, vars
  <2>2. CASE StartApp(t) /\ Step(t)
    <3>1. ~AllIsWell'
      BY <1>1, <2>2 DEF StartApp, AllIsWell, IInv, TypeOK
    <3>2. ~crossed
      BY <2>2, <3>1 DEF Step
    <3>3. it = 0 /\ preset = NoApp /\ Stopped
      BY <1>1, <2>2, <3>2 DEF IInv, Uncrossed, Reaped, StartApp
    <3>4. open = {}
      BY <1>1, <2>2, <3>2, <3>3 DEF IInv, Uncrossed, Tracked, StartApp, OneCall
    <3> QED BY <3>3, <3>4 DEF NothingLeft, Stopped
  <2>3. CASE Refresh(t)
    BY <1>1, <2>3 DEF IInv, Uncrossed, Refresh, RestsEmpty
  <2> QED BY <2>1, <2>2, <2>3
<1>2. Spec => []IInv
  BY AppInvariant
<1> QED BY <1>1, <1>2, PTL DEF Spec, OneAppAtATime

(* terminate undoes the prep commands from the last to the first, unless   *)
(* calls have crossed.                                                     *)
THEOREM AppsUndoneInReverse == Spec => UndoneInReverse
<1>1. ASSUME IInv, [Next]_vars
      PROVE  [\A c \in open \ open' :
                \A d \in open : d[2] <= c[2] \/ crossed]_vars
  <2> SUFFICES ASSUME NEW c \in open \ open', NEW d \in open, ~crossed
               PROVE  d[2] <= c[2]
    OBVIOUS
  <2>1. PICK t \in Threads : UndoCommand(t)
    BY <1>1 DEF Next, Step, Begin, Running, TerminateStep, Execute, Refresh,
       SeeRunning, SeeDetached, SeeExit, SeeNothing, BeginKill, Reap,
       StartApp, StepBack, Finish, NotFound, PrepCommand, PrepFails,
       ShowDesktop, CompositorFails, SpawnApp, SpawnFails, ProcessExits,
       GroupExits, TimePasses, vars
  <2>2. c = <<app, it>>
    BY <2>1 DEF UndoCommand
  <2>3. open = {app} \X (1 .. it)
    BY <1>1, <2>1 DEF IInv, Uncrossed, Tracked, OneCall, UndoCommand
  <2> QED BY <1>1, <2>2, <2>3 DEF IInv, TypeOK
<1>2. Spec => []IInv
  BY AppInvariant
<1> QED BY <1>1, <1>2, PTL DEF Spec, UndoneInReverse

-----------------------------------------------------------------------------
(* The pending launch: it always has something that will end it, and is    *)
(* never replaced.                                                         *)

USE DEF L!CallsFrom, L!Idle, L!timerVars, L!clientVars

(* No step of a thread, the timer or a client breaks the invariant.        *)
LEMMA LaunchNext ==
  ASSUME None \notin Launches, L!IInv, [L!Next]_L!vars
  PROVE  L!IInv'
<1> USE DEF L!IInv, L!TypeOK, L!PendingIsTimed, L!RaisesIntoNothing
<1>1. ASSUME NEW l \in Launches, L!CheckPending(l) PROVE L!IInv'
  BY <1>1 DEF L!CheckPending
<1>2. ASSUME NEW l \in Launches, L!RunTimerHandler(l) PROVE L!IInv'
  BY <1>2 DEF L!RunTimerHandler
<1>3. ASSUME NEW l \in Launches, L!Announce(l) PROVE L!IInv'
  BY <1>3 DEF L!Announce
<1>4. ASSUME NEW l \in Launches, L!Connect(l) PROVE L!IInv'
  BY <1>4 DEF L!Connect
<1>5. CASE L!RaiseLaunch
  BY <1>5 DEF L!RaiseLaunch
<1>6. CASE L!ArmTimer
  BY <1>6 DEF L!ArmTimer
<1>7. CASE L!TimerExpires
  BY <1>7 DEF L!TimerExpires
<1>8. CASE L!Accept
  BY <1>8 DEF L!Accept
<1>9. CASE L!CancelTimer
  BY <1>9 DEF L!CancelTimer
<1>10. CASE L!PopLaunch
  BY <1>10 DEF L!PopLaunch
<1>11. CASE UNCHANGED L!vars
  BY <1>11 DEF L!vars
<1> QED BY <1>1, <1>2, <1>3, <1>4, <1>5, <1>6, <1>7, <1>8, <1>9, <1>10,
           <1>11 DEF L!Next

(* TypeOK, PendingIsTimed and RaisesIntoNothing hold in every state that   *)
(* session_raise, session_clear and the timer can reach.                   *)
THEOREM LaunchInvariant ==
  ASSUME None \notin Launches
  PROVE  L!Spec => []L!IInv
<1>1. L!Init => L!IInv
  BY DEF L!Init, L!IInv, L!TypeOK, L!PendingIsTimed, L!RaisesIntoNothing
<1>2. L!IInv /\ [L!Next]_L!vars => L!IInv'
  BY LaunchNext
<1> QED BY <1>1, <1>2, PTL DEF L!Spec

(* A launch that launch_event holds has a timer armed or due, or a thread  *)
(* that is about to arm the timer or to pop the launch.                    *)
THEOREM LaunchTimed ==
  ASSUME None \notin Launches
  PROVE  L!Spec => []L!PendingIsTimed
<1>1. L!IInv => L!PendingIsTimed
  BY DEF L!IInv
<1>2. L!Spec => []L!IInv
  BY LaunchInvariant
<1> QED BY <1>1, <1>2, PTL

(* session_raise never overwrites a launch that is pending.                *)
THEOREM LaunchKept ==
  ASSUME None \notin Launches
  PROVE  L!Spec => L!NeverReplaced
<1>1. ASSUME L!IInv, [L!Next]_L!vars
      PROVE  [pending # None => pending' \in {pending, None}]_L!vars
  <2> USE DEF L!IInv, L!TypeOK, L!RaisesIntoNothing
  <2>1. CASE L!RaiseLaunch
    BY <1>1, <2>1 DEF L!RaiseLaunch
  <2>2. ASSUME NEW l \in Launches, L!RunTimerHandler(l)
        PROVE  pending' \in {pending, None}
    BY <2>2 DEF L!RunTimerHandler
  <2>3. CASE L!PopLaunch
    BY <2>3 DEF L!PopLaunch
  <2>4. ASSUME NEW l \in Launches,
               L!CheckPending(l) \/ L!Announce(l) \/ L!Connect(l)
        PROVE  pending' = pending
    BY <2>4 DEF L!CheckPending, L!Announce, L!Connect
  <2>5. CASE L!ArmTimer \/ L!TimerExpires \/ L!Accept \/ L!CancelTimer
    BY <2>5 DEF L!ArmTimer, L!TimerExpires, L!Accept, L!CancelTimer
  <2> QED BY <1>1, <2>1, <2>2, <2>3, <2>4, <2>5 DEF L!Next
<1>2. L!Spec => []L!IInv
  BY LaunchInvariant
<1> QED BY <1>1, <1>2, PTL DEF L!Spec, L!NeverReplaced

-----------------------------------------------------------------------------
(* The driver's settings: what the user has chosen is never lost.          *)

USE DEF N!memoryVars, N!processVars, N!boundVars, N!Goto, N!Kept

(* Each call, its failure, the end of the process after it and what the    *)
(* user does keep the invariant. The undo file is written before the       *)
(* driver's settings are saved, and deleted after they are put back.       *)
LEMMA DriverNext ==
  ASSUME N!Empty \notin Values, N!IInv, [N!Next]_N!vars
  PROVE  N!IInv'
<1> USE DEF N!IInv, N!UserValueSurvives, N!StepsKnowTheUser, N!UndoIsKnown
<1>1. ASSUME NEW kind, N!Start(kind) PROVE N!IInv'
  BY <1>1 DEF N!Start
<1>2. CASE N!StreamingWillStart
  BY <1>2 DEF N!StreamingWillStart
<1>3. CASE N!Exit
  BY <1>3 DEF N!Exit
<1>4. CASE N!Load
  BY <1>4 DEF N!Load
<1>5. CASE N!Unload
  BY <1>5 DEF N!Unload
<1>6. CASE N!Gone
  BY <1>6 DEF N!Gone, N!End
<1>7. CASE N!Crash
  BY <1>7 DEF N!Crash, N!End
<1>8. CASE N!OpenExistingFile
  BY <1>8 DEF N!OpenExistingFile, N!AfterRestore
<1>9. CASE N!RestoreToUndo
  BY <1>9 DEF N!RestoreToUndo, N!Restored
<1>10. CASE N!SaveRestored
  BY <1>10 DEF N!SaveRestored
<1>11. CASE N!DeleteRestored
  BY <1>11 DEF N!DeleteRestored, N!AfterRestore
<1>12. CASE N!ApplicationProfile
  BY <1>12 DEF N!ApplicationProfile
<1>13. CASE N!CheckAndModify
  BY <1>13 DEF N!CheckAndModify
<1>14. CASE N!CreateUndoFile
  BY <1>14 DEF N!CreateUndoFile, N!Merge
<1>15. CASE N!ClearUndoFile
  BY <1>15 DEF N!ClearUndoFile
<1>16. CASE N!WriteUndoFile
  BY <1>16 DEF N!WriteUndoFile
<1>17. CASE N!DropUndoFile
  BY <1>17 DEF N!DropUndoFile
<1>18. CASE N!SaveModified
  BY <1>18 DEF N!SaveModified
<1>19. CASE N!Revert
  BY <1>19 DEF N!Revert
<1>20. CASE N!RestoreOwn
  BY <1>20 DEF N!RestoreOwn, N!Restored
<1>21. CASE N!SaveOwn
  BY <1>21 DEF N!SaveOwn
<1>22. CASE N!DeleteOwn
  BY <1>22 DEF N!DeleteOwn
<1>23. CASE N!UserPicks
  BY <1>23 DEF N!UserPicks
<1>24. CASE UNCHANGED N!vars
  BY <1>24 DEF N!vars
<1> QED BY <1>1, <1>2, <1>3, <1>4, <1>5, <1>6, <1>7, <1>8, <1>9, <1>10,
           <1>11, <1>12, <1>13, <1>14, <1>15, <1>16, <1>17, <1>18, <1>19,
           <1>20, <1>21, <1>22, <1>23, <1>24
       DEF N!Next, N!Restoring, N!Modifying

(* A crash at any point leaves the user's value in the driver or in the    *)
(* undo file (modify_global_profile, restore_global_profile_to_undo).      *)
THEOREM UserValueKept ==
  ASSUME N!Empty \notin Values
  PROVE  N!Init /\ [][N!Next]_N!vars => []UserValueSurvives
<1>1. N!Init => N!IInv
  BY DEF N!Init, N!IInv, N!UserValueSurvives, N!StepsKnowTheUser,
         N!UndoIsKnown
<1>2. N!IInv /\ [N!Next]_N!vars => N!IInv'
  BY DriverNext
<1>3. N!IInv => UserValueSurvives
  BY DEF N!IInv, UserValueSurvives
<1> QED BY <1>1, <1>2, <1>3, PTL

-----------------------------------------------------------------------------
(* The update: what is installed is whole, by one thread, and not          *)
(* cancelled.                                                              *)

USE DEF U!statusVars, U!stagingVars, U!threadVars, U!fileVars,
        U!historyVars, U!boundVars, U!Actors, U!Goto, U!Spawn, U!Status,
        U!Files, U!Quiet, U!Fail, U!BackToReady, U!Installs, U!Untouched,
        U!Others

(* What a step of a program is.                                            *)
LEMMA Steps ==
  /\ U!Staging \subseteq U!Working /\ U!Applying \subseteq U!Working
  /\ U!Installing \subseteq U!Working /\ U!Waits \subseteq U!Applying
  /\ {"reset", "stage", "ready", "staged", "apply flag", "apply now",
       "waiting", "payload", "wait", "claim"} \subseteq U!Working
  /\ U!Working \cap {"off", "apply", "apply claim"} = {}
BY DEF U!Working, U!Staging, U!Applying, U!Installing, U!Waits

\* What the invariant says of the thread that works.
InOrder(t) ==
  /\ up_pc[t] \in U!Working => worker_running
  /\ phase \in {"ready", "waiting_idle"} => staged = "whole" \/ overtaken
  /\ phase = "waiting_idle" => up_pc[t] \in U!Waits
  /\ up_pc[t] \in {"stage", "ready", "staged"} => staged = "whole"
  /\ up_pc[t] \in U!Applying \cup U!Installing =>
       staged = "whole" \/ overtaken
  /\ up_pc[t] \in U!Staging => phase \notin {"ready", "waiting_idle"}
  /\ up_pc[t] \in {"apply flag", "apply now", "waiting", "payload"}
                     \cup U!Installing => ~cancelled
  /\ up_pc[t] \in {"wait", "claim"} /\ cancelled => ~apply_when_idle
  /\ up_pc[t] # "apply claim"

LEMMA WorkerInOrder ==
  ASSUME U!IInv, NEW t \in U!Actors, up_pc[t] \in U!Working
  PROVE  InOrder(t)
<1> USE DEF U!IInv, InOrder
<1>1. up_pc[t] \in U!Working => worker_running
  BY DEF U!OneWorks
<1>2. phase = "waiting_idle" => up_pc[t] \in U!Waits
  BY Steps DEF U!CancelIsKept, U!OneWorks
<1>3. /\ phase \in {"ready", "waiting_idle"} => staged = "whole" \/ overtaken
      /\ up_pc[t] \in {"stage", "ready", "staged"} => staged = "whole"
      /\ up_pc[t] \in U!Applying \cup U!Installing =>
           staged = "whole" \/ overtaken
  BY DEF U!TreeIsWhole
<1>4. up_pc[t] \in U!Staging => phase \notin {"ready", "waiting_idle"}
  BY DEF U!StartsOvertake
<1>5. /\ up_pc[t] \in {"apply flag", "apply now", "waiting", "payload"}
                         \cup U!Installing => ~cancelled
      /\ up_pc[t] \in {"wait", "claim"} /\ cancelled => ~apply_when_idle
  BY DEF U!CancelIsKept
<1> QED BY <1>1, <1>2, <1>3, <1>4, <1>5, Steps

(* A step of the thread t that works, after which w, which may be t, goes  *)
(* on with the work.                                                       *)
LEMMA WorkerStep ==
  ASSUME U!IInv, up_pc' = [u \in U!Actors |-> up_pc'[u]], NEW t \in U!Actors, NEW w \in U!Actors,
         up_pc[t] \in U!Working,
         t # w => up_pc[w] = "off" /\ up_pc'[t] = "off",
         \A u \in U!Actors \ {t, w} : up_pc'[u] = up_pc[u],
         staged' = staged \/ up_pc[t] \in U!Staging,
         up_pc'[w] \in U!Staging => up_pc[t] \in {"reset"} \cup U!Staging,
         up_pc'[w] # "reset",
         overtaken' = overtaken, InOrder(w)'
  PROVE  U!IInv'
<1> USE DEF U!IInv, InOrder
<1>1. \A u \in U!Actors \ {t} : up_pc[u] \notin U!Working
  BY DEF U!OneWorks
<1>2. /\ \A u \in U!Actors \ {w} : up_pc'[u] \notin U!Working
      /\ \A u \in U!Actors \ {w} : up_pc'[u] \in {up_pc[u], "off"}
  BY <1>1, Steps
<1>3. U!OneWorks'
  BY <1>2 DEF U!OneWorks
<1>4. U!TreeIsWhole'
  BY <1>2, Steps DEF U!TreeIsWhole, U!StartsOvertake
<1>5. U!StartsOvertake'
  <2>1. \A u \in U!Actors : up_pc'[u] # "reset"
    BY <1>2, Steps
  <2>2. \A u \in U!Actors : up_pc'[u] \in U!Staging =>
          u = w /\ phase' \notin {"ready", "waiting_idle"}
    BY <1>2, Steps
  <2>3. \A u \in U!Actors : up_pc'[u] = "apply claim" =>
          u # w /\ up_pc[u] = "apply claim"
    BY <1>2
  <2> QED BY <2>1, <2>2, <2>3 DEF U!StartsOvertake
<1>6. U!CancelIsKept'
  BY <1>2, Steps DEF U!CancelIsKept
<1> QED BY <1>3, <1>4, <1>5, <1>6

(* Each access of a thread to the flags and the status keeps the           *)
(* invariant: worker_running is claimed before the first of the steps that *)
(* need it, and released with the last.                                    *)
LEMMA UpdateNext ==
  ASSUME U!IInv, [U!Next]_U!vars
  PROVE  U!IInv'
<1> USE DEF U!IInv
<1>1. ASSUME NEW t \in U!Actors, U!CheckRelease(t) PROVE U!IInv'
  <2>1. /\ up_pc[t] \in U!Working
        /\ up_pc' = [u \in U!Actors |-> up_pc'[u]]
    BY <1>1 DEF U!CheckRelease, U!Working, U!Staging, U!Applying, U!Installing,
               U!Waits
  <2>2. InOrder(t)
    BY <2>1, WorkerInOrder
  <2>3. InOrder(t)'
    BY <1>1, <2>2 DEF U!CheckRelease, InOrder, U!Working, U!Staging,
       U!Applying, U!Installing, U!Waits
  <2> QED
    BY <1>1, <2>1, <2>3, WorkerStep DEF U!CheckRelease, U!Staging
<1>2. ASSUME NEW t \in U!Actors, U!Download(t) PROVE U!IInv'
  <2>1. /\ up_pc[t] \in U!Working
        /\ up_pc' = [u \in U!Actors |-> up_pc'[u]]
    BY <1>2 DEF U!Download, U!Working, U!Staging, U!Applying, U!Installing,
               U!Waits
  <2>2. InOrder(t)
    BY <2>1, WorkerInOrder
  <2>3. InOrder(t)'
    BY <1>2, <2>2 DEF U!Download, InOrder, U!Working, U!Staging,
       U!Applying, U!Installing, U!Waits
  <2> QED
    BY <1>2, <2>1, <2>3, WorkerStep DEF U!Download, U!Staging
<1>3. ASSUME NEW t \in U!Actors, U!Verify(t) PROVE U!IInv'
  <2>1. /\ up_pc[t] \in U!Working
        /\ up_pc' = [u \in U!Actors |-> up_pc'[u]]
    BY <1>3 DEF U!Verify, U!Working, U!Staging, U!Applying, U!Installing,
               U!Waits
  <2>2. InOrder(t)
    BY <2>1, WorkerInOrder
  <2>3. InOrder(t)'
    BY <1>3, <2>2 DEF U!Verify, InOrder, U!Working, U!Staging,
       U!Applying, U!Installing, U!Waits
  <2> QED
    BY <1>3, <2>1, <2>3, WorkerStep DEF U!Verify, U!Staging
<1>4. ASSUME NEW t \in U!Actors, U!Extract(t) PROVE U!IInv'
  <2>1. /\ up_pc[t] \in U!Working
        /\ up_pc' = [u \in U!Actors |-> up_pc'[u]]
    BY <1>4 DEF U!Extract, U!Working, U!Staging, U!Applying, U!Installing,
               U!Waits
  <2>2. InOrder(t)
    BY <2>1, WorkerInOrder
  <2>3. InOrder(t)'
    BY <1>4, <2>2 DEF U!Extract, InOrder, U!Working, U!Staging,
       U!Applying, U!Installing, U!Waits
  <2> QED
    BY <1>4, <2>1, <2>3, WorkerStep DEF U!Extract, U!Staging
<1>5. ASSUME NEW t \in U!Actors, U!Stage(t) PROVE U!IInv'
  <2>1. /\ up_pc[t] \in U!Working
        /\ up_pc' = [u \in U!Actors |-> up_pc'[u]]
    BY <1>5 DEF U!Stage, U!Working, U!Staging, U!Applying, U!Installing,
               U!Waits
  <2>2. InOrder(t)
    BY <2>1, WorkerInOrder
  <2>3. InOrder(t)'
    BY <1>5, <2>2 DEF U!Stage, InOrder, U!Working, U!Staging,
       U!Applying, U!Installing, U!Waits
  <2> QED
    BY <1>5, <2>1, <2>3, WorkerStep DEF U!Stage, U!Staging
<1>6. ASSUME NEW t \in U!Actors, U!Ready(t) PROVE U!IInv'
  <2>1. /\ up_pc[t] \in U!Working
        /\ up_pc' = [u \in U!Actors |-> up_pc'[u]]
    BY <1>6 DEF U!Ready, U!Working, U!Staging, U!Applying, U!Installing,
               U!Waits
  <2>2. InOrder(t)
    BY <2>1, WorkerInOrder
  <2>3. InOrder(t)'
    BY <1>6, <2>2 DEF U!Ready, InOrder, U!Working, U!Staging,
       U!Applying, U!Installing, U!Waits
  <2> QED
    BY <1>6, <2>1, <2>3, WorkerStep DEF U!Ready, U!Staging
<1>7. ASSUME NEW t \in U!Actors, U!Staged(t) PROVE U!IInv'
  <2>1. /\ up_pc[t] \in U!Working
        /\ up_pc' = [u \in U!Actors |-> up_pc'[u]]
    BY <1>7 DEF U!Staged, U!Working, U!Staging, U!Applying, U!Installing,
               U!Waits
  <2>2. InOrder(t)
    BY <2>1, WorkerInOrder
  <2>3. InOrder(t)'
    BY <1>7, <2>2 DEF U!Staged, InOrder, U!Working, U!Staging,
       U!Applying, U!Installing, U!Waits
  <2> QED
    BY <1>7, <2>1, <2>3, WorkerStep DEF U!Staged, U!Staging
<1>8. ASSUME NEW t \in U!Actors, U!Release(t) PROVE U!IInv'
  <2>1. /\ up_pc[t] \in U!Working
        /\ up_pc' = [u \in U!Actors |-> up_pc'[u]]
    BY <1>8 DEF U!Release, U!Working, U!Staging, U!Applying, U!Installing,
               U!Waits
  <2>2. InOrder(t)
    BY <2>1, WorkerInOrder
  <2>3. InOrder(t)'
    BY <1>8, <2>2 DEF U!Release, InOrder, U!Working, U!Staging,
       U!Applying, U!Installing, U!Waits
  <2> QED
    BY <1>8, <2>1, <2>3, WorkerStep DEF U!Release, U!Staging
<1>9. ASSUME NEW t \in U!Actors, U!BeginWaiting(t) PROVE U!IInv'
  <2>1. /\ up_pc[t] \in U!Working
        /\ up_pc' = [u \in U!Actors |-> up_pc'[u]]
    BY <1>9 DEF U!BeginWaiting, U!Working, U!Staging, U!Applying, U!Installing,
               U!Waits
  <2>2. InOrder(t)
    BY <2>1, WorkerInOrder
  <2>3. InOrder(t)'
    BY <1>9, <2>2 DEF U!BeginWaiting, InOrder, U!Working, U!Staging,
       U!Applying, U!Installing, U!Waits
  <2> QED
    BY <1>9, <2>1, <2>3, WorkerStep DEF U!BeginWaiting, U!Staging
<1>10. ASSUME NEW t \in U!Actors, U!Wait(t) PROVE U!IInv'
  <2>1. /\ up_pc[t] \in U!Working
        /\ up_pc' = [u \in U!Actors |-> up_pc'[u]]
    BY <1>10 DEF U!Wait, U!Working, U!Staging, U!Applying, U!Installing,
               U!Waits
  <2>2. InOrder(t)
    BY <2>1, WorkerInOrder
  <2>3. InOrder(t)'
    BY <1>10, <2>2 DEF U!Wait, InOrder, U!Working, U!Staging,
       U!Applying, U!Installing, U!Waits
  <2> QED
    BY <1>10, <2>1, <2>3, WorkerStep DEF U!Wait, U!Staging
<1>11. ASSUME NEW t \in U!Actors, U!CompleteIdleCancel(t) PROVE U!IInv'
  <2>1. /\ up_pc[t] \in U!Working
        /\ up_pc' = [u \in U!Actors |-> up_pc'[u]]
    BY <1>11 DEF U!CompleteIdleCancel, U!Working, U!Staging, U!Applying, U!Installing,
               U!Waits
  <2>2. InOrder(t)
    BY <2>1, WorkerInOrder
  <2>3. InOrder(t)'
    BY <1>11, <2>2 DEF U!CompleteIdleCancel, InOrder, U!Working, U!Staging,
       U!Applying, U!Installing, U!Waits
  <2> QED
    BY <1>11, <2>1, <2>3, WorkerStep DEF U!CompleteIdleCancel, U!Staging
<1>12. ASSUME NEW t \in U!Actors, U!ClaimFromIdle(t) PROVE U!IInv'
  <2>1. /\ up_pc[t] \in U!Working
        /\ up_pc' = [u \in U!Actors |-> up_pc'[u]]
    BY <1>12 DEF U!ClaimFromIdle, U!Working, U!Staging, U!Applying, U!Installing,
               U!Waits
  <2>2. InOrder(t)
    BY <2>1, WorkerInOrder
  <2>3. InOrder(t)'
    BY <1>12, <2>2 DEF U!ClaimFromIdle, InOrder, U!Working, U!Staging,
       U!Applying, U!Installing, U!Waits
  <2> QED
    BY <1>12, <2>1, <2>3, WorkerStep DEF U!ClaimFromIdle, U!Staging
<1>13. ASSUME NEW t \in U!Actors, U!FindPayload(t) PROVE U!IInv'
  <2>1. /\ up_pc[t] \in U!Working
        /\ up_pc' = [u \in U!Actors |-> up_pc'[u]]
    BY <1>13 DEF U!FindPayload, U!Working, U!Staging, U!Applying, U!Installing,
               U!Waits
  <2>2. InOrder(t)
    BY <2>1, WorkerInOrder
  <2>3. InOrder(t)'
    BY <1>13, <2>2 DEF U!FindPayload, InOrder, U!Working, U!Staging,
       U!Applying, U!Installing, U!Waits
  <2> QED
    BY <1>13, <2>1, <2>3, WorkerStep DEF U!FindPayload, U!Staging
<1>14. ASSUME NEW t \in U!Actors, U!KeepBinary(t) PROVE U!IInv'
  <2>1. /\ up_pc[t] \in U!Working
        /\ up_pc' = [u \in U!Actors |-> up_pc'[u]]
    BY <1>14 DEF U!KeepBinary, U!Working, U!Staging, U!Applying, U!Installing,
               U!Waits
  <2>2. InOrder(t)
    BY <2>1, WorkerInOrder
  <2>3. InOrder(t)'
    BY <1>14, <2>2 DEF U!KeepBinary, InOrder, U!Working, U!Staging,
       U!Applying, U!Installing, U!Waits
  <2> QED
    BY <1>14, <2>1, <2>3, WorkerStep DEF U!KeepBinary, U!Staging
<1>15. ASSUME NEW t \in U!Actors, U!PutBinary(t) PROVE U!IInv'
  <2>1. /\ up_pc[t] \in U!Working
        /\ up_pc' = [u \in U!Actors |-> up_pc'[u]]
    BY <1>15 DEF U!PutBinary, U!Working, U!Staging, U!Applying, U!Installing,
               U!Waits
  <2>2. InOrder(t)
    BY <2>1, WorkerInOrder
  <2>3. InOrder(t)'
    BY <1>15, <2>2 DEF U!PutBinary, InOrder, U!Working, U!Staging,
       U!Applying, U!Installing, U!Waits
  <2> QED
    BY <1>15, <2>1, <2>3, WorkerStep DEF U!PutBinary, U!Staging
<1>16. ASSUME NEW t \in U!Actors, U!KeepAssets(t) PROVE U!IInv'
  <2>1. /\ up_pc[t] \in U!Working
        /\ up_pc' = [u \in U!Actors |-> up_pc'[u]]
    BY <1>16 DEF U!KeepAssets, U!Working, U!Staging, U!Applying, U!Installing,
               U!Waits
  <2>2. InOrder(t)
    BY <2>1, WorkerInOrder
  <2>3. InOrder(t)'
    BY <1>16, <2>2 DEF U!KeepAssets, InOrder, U!Working, U!Staging,
       U!Applying, U!Installing, U!Waits
  <2> QED
    BY <1>16, <2>1, <2>3, WorkerStep DEF U!KeepAssets, U!Staging
<1>17. ASSUME NEW t \in U!Actors, U!PutAssets(t) PROVE U!IInv'
  <2>1. /\ up_pc[t] \in U!Working
        /\ up_pc' = [u \in U!Actors |-> up_pc'[u]]
    BY <1>17 DEF U!PutAssets, U!Working, U!Staging, U!Applying, U!Installing,
               U!Waits
  <2>2. InOrder(t)
    BY <2>1, WorkerInOrder
  <2>3. InOrder(t)'
    BY <1>17, <2>2 DEF U!PutAssets, InOrder, U!Working, U!Staging,
       U!Applying, U!Installing, U!Waits
  <2> QED
    BY <1>17, <2>1, <2>3, WorkerStep DEF U!PutAssets, U!Staging
<1>18. ASSUME NEW t \in U!Actors, U!Fails(t) PROVE U!IInv'
  <2>1. /\ up_pc[t] \in U!Working
        /\ up_pc' = [u \in U!Actors |-> up_pc'[u]]
    BY <1>18 DEF U!Fails, U!Working, U!Staging, U!Applying, U!Installing,
               U!Waits
  <2>2. InOrder(t)
    BY <2>1, WorkerInOrder
  <2>3. InOrder(t)'
    BY <1>18, <2>2 DEF U!Fails, InOrder, U!Working, U!Staging,
       U!Applying, U!Installing, U!Waits
  <2> QED
    BY <1>18, <2>1, <2>3, WorkerStep DEF U!Fails, U!Staging
<1>19. ASSUME NEW t \in U!Actors, U!RollBack(t) PROVE U!IInv'
  <2>1. /\ up_pc[t] \in U!Working
        /\ up_pc' = [u \in U!Actors |-> up_pc'[u]]
    BY <1>19 DEF U!RollBack, U!Working, U!Staging, U!Applying, U!Installing,
               U!Waits
  <2>2. InOrder(t)
    BY <2>1, WorkerInOrder
  <2>3. InOrder(t)'
    BY <1>19, <2>2 DEF U!RollBack, InOrder, U!Working, U!Staging,
       U!Applying, U!Installing, U!Waits
  <2> QED
    BY <1>19, <2>1, <2>3, WorkerStep DEF U!RollBack, U!Staging
<1>20. ASSUME NEW t \in U!Actors, U!ReleaseInstalled(t) PROVE U!IInv'
  <2>1. /\ up_pc[t] \in U!Working
        /\ up_pc' = [u \in U!Actors |-> up_pc'[u]]
    BY <1>20 DEF U!ReleaseInstalled, U!Working, U!Staging, U!Applying, U!Installing,
               U!Waits
  <2>2. InOrder(t)
    BY <2>1, WorkerInOrder
  <2>3. InOrder(t)'
    BY <1>20, <2>2 DEF U!ReleaseInstalled, InOrder, U!Working, U!Staging,
       U!Applying, U!Installing, U!Waits
  <2> QED
    BY <1>20, <2>1, <2>3, WorkerStep DEF U!ReleaseInstalled, U!Staging
<1>21. CASE U!ResetStatus
  <2>0. InOrder(Web)
    BY <1>21, Steps, WorkerInOrder DEF U!ResetStatus
  <2>1. PICK w \in Workers \ {Web} :
          /\ up_pc[w] = "off"
          /\ up_pc' = [up_pc EXCEPT ![Web] = "off", ![w] = "check"]
    BY <1>21 DEF U!ResetStatus
  <2>2. up_pc' = [u \in U!Actors |-> up_pc'[u]]
    BY <2>1
  <2>3. InOrder(w)'
    BY <1>21, <2>0, <2>1 DEF U!ResetStatus, InOrder, U!Working, U!Staging,
       U!Applying, U!Installing, U!Waits
  <2>4. /\ Web \in U!Actors /\ w \in U!Actors /\ Web # w
        /\ up_pc[Web] = "reset" /\ up_pc'[Web] = "off"
        /\ up_pc'[w] = "check"
        /\ \A u \in U!Actors \ {Web, w} : up_pc'[u] = up_pc[u]
        /\ staged' = staged /\ overtaken' = overtaken
    BY <1>21, <2>1 DEF U!ResetStatus
  <2> QED BY <2>1, <2>2, <2>3, <2>4, Steps, WorkerStep
<1>22. ASSUME NEW t \in U!Actors, U!CountSessions(t) PROVE U!IInv'
  <2>0. up_pc[t] \in U!Working /\ InOrder(t)
    BY <1>22, WorkerInOrder DEF U!CountSessions, U!Working, U!Applying
  <2>1. CASE streaming
    <3>1. up_pc' = [u \in U!Actors |-> up_pc'[u]]
      BY <1>22, <2>1 DEF U!CountSessions
    <3>2. InOrder(t)'
      BY <1>22, <2>0, <2>1 DEF U!CountSessions, InOrder, U!Working,
         U!Staging, U!Applying, U!Installing, U!Waits
    <3> QED
      BY <1>22, <2>0, <2>1, <3>1, <3>2, WorkerStep
      DEF U!CountSessions, U!Staging
  <2>2. CASE ~streaming
    <3>1. PICK w \in Workers \ {t} :
            /\ up_pc[w] = "off"
            /\ up_pc' = [up_pc EXCEPT ![t] = "off", ![w] = "apply now"]
      BY <1>22, <2>2 DEF U!CountSessions
    <3>2. up_pc' = [u \in U!Actors |-> up_pc'[u]]
      BY <3>1
    <3>3. InOrder(w)'
      BY <1>22, <2>0, <2>2, <3>1 DEF U!CountSessions, InOrder, U!Working,
         U!Staging, U!Applying, U!Installing, U!Waits
    <3> QED
      BY <1>22, <2>0, <3>1, <3>2, <3>3, WorkerStep
      DEF U!CountSessions, U!Staging
  <2> QED BY <2>1, <2>2
<1>23. ASSUME NEW t \in U!Actors, U!WaitForIdle(t) PROVE U!IInv'
  <2>0. up_pc[t] \in U!Working /\ InOrder(t)
    BY <1>23, WorkerInOrder DEF U!WaitForIdle, U!Working, U!Applying
  <2>1. PICK w \in Workers \ {t} :
          /\ up_pc[w] = "off"
          /\ up_pc' = [up_pc EXCEPT ![t] = "off", ![w] = "waiting"]
    BY <1>23 DEF U!WaitForIdle
  <2>2. up_pc' = [u \in U!Actors |-> up_pc'[u]]
    BY <2>1
  <2>3. InOrder(w)'
    BY <1>23, <2>0, <2>1 DEF U!WaitForIdle, InOrder, U!Working, U!Staging,
       U!Applying, U!Installing, U!Waits
  <2> QED
    BY <1>23, <2>0, <2>1, <2>2, <2>3, WorkerStep
    DEF U!WaitForIdle, U!Staging
<1>24. ASSUME NEW t \in U!Actors, U!ClaimWorker(t) PROVE U!IInv'
  <2>1. up_pc' = [u \in U!Actors |-> up_pc'[u]]
    BY <1>24 DEF U!ClaimWorker
  <2>2. U!OneWorks'
    BY <1>24, Steps DEF U!ClaimWorker, U!OneWorks
  <2>3. U!TreeIsWhole'
    BY <1>24, Steps DEF U!ClaimWorker, U!TreeIsWhole
  <2>4. U!StartsOvertake'
    BY <1>24 DEF U!ClaimWorker, U!StartsOvertake, U!Staging
  <2>5. U!CancelIsKept'
    BY <1>24 DEF U!ClaimWorker, U!CancelIsKept, U!Waits, U!Installing
  <2> QED BY <2>1, <2>2, <2>3, <2>4, <2>5
<1>25. ASSUME NEW t \in U!Actors, U!CheckStaged(t) PROVE U!IInv'
  <2>1. up_pc' = [u \in U!Actors |-> up_pc'[u]]
    BY <1>25 DEF U!CheckStaged
  <2>2. U!OneWorks'
    BY <1>25, Steps DEF U!CheckStaged, U!OneWorks
  <2>3. U!TreeIsWhole'
    BY <1>25, Steps DEF U!CheckStaged, U!TreeIsWhole
  <2>4. U!StartsOvertake'
    BY <1>25 DEF U!CheckStaged, U!StartsOvertake, U!Staging
  <2>5. U!CancelIsKept'
    BY <1>25 DEF U!CheckStaged, U!CancelIsKept, U!Waits, U!Installing
  <2> QED BY <2>1, <2>2, <2>3, <2>4, <2>5
<1>26. CASE U!StartUpdate
  <2>1. up_pc' = [u \in U!Actors |-> up_pc'[u]]
    BY <1>26 DEF U!StartUpdate
  <2>2. U!OneWorks'
    BY <1>26, Steps DEF U!StartUpdate, U!OneWorks
  <2>3. U!TreeIsWhole'
    BY <1>26 DEF U!StartUpdate, U!TreeIsWhole, U!Applying, U!Installing,
                U!Waits
  <2>4. U!StartsOvertake'
    BY <1>26 DEF U!StartUpdate, U!StartsOvertake, U!Staging
  <2>5. U!CancelIsKept'
    BY <1>26 DEF U!StartUpdate, U!CancelIsKept, U!Waits, U!Installing
  <2> QED BY <2>1, <2>2, <2>3, <2>4, <2>5
<1>27. CASE U!ApplyUpdate
  <2>1. up_pc' = [u \in U!Actors |-> up_pc'[u]]
    BY <1>27 DEF U!ApplyUpdate
  <2>2. U!OneWorks'
    BY <1>27, Steps DEF U!ApplyUpdate, U!OneWorks
  <2>3. U!TreeIsWhole'
    BY <1>27 DEF U!ApplyUpdate, U!TreeIsWhole, U!Applying, U!Installing,
                U!Waits
  <2>4. U!StartsOvertake'
    BY <1>27 DEF U!ApplyUpdate, U!StartsOvertake, U!Staging
  <2>5. U!CancelIsKept'
    BY <1>27 DEF U!ApplyUpdate, U!CancelIsKept, U!Waits, U!Installing
  <2> QED BY <2>1, <2>2, <2>3, <2>4, <2>5
<1>28. CASE U!CancelUpdate
  <2>1. U!OneWorks' /\ U!TreeIsWhole' /\ U!StartsOvertake'
    BY <1>28 DEF U!CancelUpdate, U!OneWorks, U!TreeIsWhole,
                U!StartsOvertake
  <2>2. U!CancelIsKept'
    <3>1. phase = "waiting_idle" =>
            \E w \in U!Actors : /\ up_pc[w] \in U!Waits /\ worker_running
                               /\ \A t \in U!Actors \ {w} :
                                    up_pc[t] \notin U!Working
      BY Steps DEF U!OneWorks, U!CancelIsKept
    <3>2. \A t \in U!Actors :
            up_pc[t] \in {"apply flag", "apply now", "waiting", "payload"}
                          \cup U!Installing =>
              ~cancelled /\ phase # "waiting_idle"
      BY <3>1 DEF U!CancelIsKept, U!Waits, U!Working, U!Applying,
                  U!Installing
    <3> QED BY <1>28, <3>1, <3>2 DEF U!CancelUpdate, U!CancelIsKept
  <2> QED BY <1>28, <2>1, <2>2 DEF U!CancelUpdate
<1>29. CASE U!Stream \/ UNCHANGED U!vars
  <2>1. UNCHANGED <<up_pc, phase, worker_running, apply_when_idle, staged,
                    cancelled, overtaken>>
    BY <1>29 DEF U!Stream, U!vars
  <2>2. U!OneWorks' /\ U!TreeIsWhole' /\ U!StartsOvertake'
    BY <2>1 DEF U!OneWorks, U!TreeIsWhole, U!StartsOvertake
  <2>3. U!CancelIsKept'
    BY <2>1 DEF U!CancelIsKept
  <2> QED BY <2>1, <2>2, <2>3
<1>30. ASSUME NEW t \in U!Actors, U!Restart(t) PROVE U!IInv'
  <2>1. \A u \in U!Actors : up_pc'[u] = "off"
    BY <1>30 DEF U!Restart
  <2> QED
    BY <1>30, <2>1, Steps
    DEF U!Restart, U!OneWorks, U!TreeIsWhole, U!StartsOvertake,
        U!CancelIsKept, U!Staging, U!Applying, U!Installing, U!Waits
<1> QED BY <1>1, <1>2, <1>3, <1>4, <1>5, <1>6, <1>7, <1>8, <1>9, <1>10,
           <1>11, <1>12, <1>13, <1>14, <1>15, <1>16, <1>17, <1>18, <1>19,
           <1>20, <1>21, <1>22, <1>23, <1>24, <1>25, <1>26, <1>27, <1>28,
           <1>29, <1>30
       DEF U!Next, U!Stages, U!Applies, U!InstallsStep

(* While a release is installed, its tree is whole and nobody changes it,  *)
(* no other thread installs, and no cancel has been accepted (apply,       *)
(* wait_idle_then_apply, apply_now, cancel).                               *)
THEOREM InstallsSound ==
  U!Init /\ [][U!Next]_U!vars => []InstallsAreSound
<1>1. U!Init => U!IInv
  <2> SUFFICES ASSUME U!Init PROVE U!IInv
    OBVIOUS
  <2>1. \A t \in U!Actors : up_pc[t] = "off"
    BY DEF U!Init
  <2> QED
    BY <2>1, Steps
    DEF U!Init, U!IInv, U!OneWorks, U!TreeIsWhole, U!StartsOvertake,
        U!CancelIsKept, U!Staging, U!Applying, U!Installing, U!Waits
<1>2. U!IInv /\ [U!Next]_U!vars => U!IInv'
  BY UpdateNext
<1>3. U!IInv => InstallsAreSound
  BY Steps DEF U!IInv, InstallsAreSound, U!InstallsAreSound, U!OneWorks,
               U!TreeIsWhole, U!CancelIsKept
<1> QED BY <1>1, <1>2, <1>3, PTL

-----------------------------------------------------------------------------
(* The audio context: the last one to let go leaves the sinks as they were *)
(* when the first one came.                                                *)

USE DEF C!serverVars, C!deviceVars, C!historyVars, C!boundVars

(* start_audio_control: the context that is made knows the sinks that are  *)
(* loaded, and the default one if it was told.                             *)
LEMMA AudioStarts ==
  ASSUME C!IInv, NEW h, C!GetRef(h), UNCHANGED C!boundVars
  PROVE  C!IInv'
<1> USE DEF C!IInv, C!TypeOK, C!GetRef
<1>1. CASE holders # {}
  BY <1>1 DEF C!SinksAreKnown, C!DefaultIsKnown, C!Restorable
<1>2. ASSUME holders = {}, C!NoServer \/ C!NoSinkInfo PROVE C!IInv'
  <2> USE <1>2 DEF C!NoServer, C!NoSinkInfo, C!NoContext
  <2>0. \A b \in BOOLEAN : C!Context(b, None, FALSE, {}) \in C!Contexts
    BY DEF C!Context, C!Contexts, C!Sinks
  <2>1. C!TypeOK'
    BY <2>0 DEF C!Context
  <2>2. C!SinksAreKnown'
    BY DEF C!SinksAreKnown, C!Context
  <2>3. C!DefaultIsKnown'
    BY DEF C!DefaultIsKnown, C!Restorable, C!Context
  <2> QED BY <2>1, <2>2, <2>3
<1>3. ASSUME holders = {}, C!SinkInfo PROVE C!IInv'
  <2>1. PICK new \in SUBSET (Virtual \ loaded) :
          /\ loaded' = loaded \cup new
          /\ ctx' = C!Context(TRUE, default_sink, loaded' = Virtual, loaded')
          /\ default_sink' \in C!Falls(default_sink, plugged \cup loaded')
          /\ leftover' = FALSE /\ plugged' = plugged
    BY <1>3 DEF C!SinkInfo
  <2>2. /\ default_sink' \in plugged' \cup loaded' \cup {None}
        /\ default_sink \in plugged \cup loaded =>
             default_sink' = default_sink
    BY <2>1 DEF C!Falls
  <2>3. ctx' \in C!Contexts /\ ctx'.host = default_sink
        /\ ctx'.index = loaded' /\ ctx'.restore_sink = FALSE
    BY <2>1, <1>3 DEF C!Context, C!Contexts, C!Sinks
  <2>4. C!TypeOK'
    BY <1>3, <2>1, <2>2, <2>3
  <2>5. C!SinksAreKnown'
    BY <1>3, <2>3 DEF C!SinksAreKnown
  <2>6. C!DefaultIsKnown'
    BY <1>3, <2>1, <2>2, <2>3 DEF C!DefaultIsKnown, C!Restorable
  <2> QED BY <2>4, <2>5, <2>6
<1> QED BY <1>1, <1>2, <1>3

(* stop_audio_control and ~server_t: the old default is restored and what  *)
(* was loaded is unloaded, unless the server refuses.                      *)
LEMMA AudioStops ==
  ASSUME C!IInv, NEW h, C!LetGo(h), UNCHANGED C!boundVars
  PROVE  C!IInv'
<1> USE DEF C!IInv, C!TypeOK, C!LetGo
<1>1. CASE holders # {h}
  BY <1>1 DEF C!SinksAreKnown, C!DefaultIsKnown, C!Restorable
<1>2. CASE holders = {h}
  <2>1. PICK restored \in BOOLEAN, unloads \in BOOLEAN :
          /\ C!RestoreSink(restored)
          /\ loaded' = IF unloads THEN loaded \ ctx.index ELSE loaded
          /\ default_sink' \in C!Falls(IF restored THEN C!OldSink
                                       ELSE default_sink,
                                       plugged \cup loaded')
          /\ spoiled' = \/ spoiled
                        \/ ~unloads /\ ctx.index # {}
                        \/ ~restored /\ ctx.restore_sink
          /\ ctx' = C!NoContext
          /\ plugged' = plugged
    BY <1>2 DEF C!Destroy
  <2>2. default_sink' \in plugged' \cup loaded' \cup {None}
    BY <2>1 DEF C!Falls
  <2>3. C!TypeOK'
    BY <2>1, <2>2 DEF C!NoContext, C!Context, C!Contexts, C!Sinks
  <2>4. C!SinksAreKnown'
    BY <1>2, <2>1 DEF C!SinksAreKnown
  <2>5. ASSUME C!Restorable, ~spoiled' PROVE default_sink' = before
    <3>1. before \in plugged /\ before # None
      BY <2>5 DEF C!DefaultIsKnown, C!Restorable
    <3>2. (IF restored THEN C!OldSink ELSE default_sink) = before
      <4>1. CASE restored
        BY <1>2, <2>1, <3>1, <4>1
        DEF C!RestoreSink, C!OldSink, C!DefaultIsKnown
      <4>2. CASE ~restored
        BY <1>2, <2>1, <2>5, <4>2 DEF C!DefaultIsKnown
      <4> QED BY <4>1, <4>2
    <3> QED BY <2>1, <3>1, <3>2 DEF C!Falls
  <2>6. C!DefaultIsKnown'
    BY <1>2, <2>1, <2>5 DEF C!DefaultIsKnown, C!Restorable
  <2> QED BY <2>3, <2>4, <2>6
<1> QED BY <1>1, <1>2

(* capture: only the first session changes the default, and notes that it  *)
(* is to be restored.                                                      *)
LEMMA AudioChooses ==
  ASSUME C!IInv, NEW s \in Sessions, C!ChooseSink(s)
  PROVE  C!IInv'
<1> USE DEF C!IInv, C!TypeOK, C!ChooseSink
<1>1. PICK host_audio \in BOOLEAN, virtual \in Virtual :
        C!FirstSession(C!Wanted(host_audio, virtual))
  OBVIOUS
<1> DEFINE sink == C!Wanted(host_audio, virtual)
<1>2. sink \in C!Sinks /\ (~ctx.null /\ ctx.host = None => sink = config_sink)
  BY Zenon DEF C!Wanted, C!Sinks, C!Contexts
<1>3. C!FirstSession(sink)
  BY <1>1
<1> HIDE DEF sink
<1>4. CASE UNCHANGED C!serverVars /\ ctx' = [ctx EXCEPT !.sink_flag = TRUE]
  <2>1. ctx' \in C!Contexts /\ \A f \in {"host", "null", "index",
          "restore_sink", "requested_sink"} : ctx'[f] = ctx[f]
    BY <1>4 DEF C!Contexts
  <2> QED
    BY <1>4, <2>1 DEF C!SinksAreKnown, C!DefaultIsKnown, C!Restorable
<1>5. CASE UNCHANGED C!serverVars /\ ctx' = ctx
  BY <1>5 DEF C!SinksAreKnown, C!DefaultIsKnown, C!Restorable
<1>6. ASSUME NEW done \in BOOLEAN, C!SetSink(sink, done), ~ctx.sink_flag,
             sink # ctx.host, sink # None,
             ctx' = [ctx EXCEPT
                       !.sink_flag = TRUE, !.restore_sink = done,
                       !.requested_sink = IF done THEN sink ELSE @]
      PROVE  C!IInv'
  <2>1. /\ ctx' \in C!Contexts /\ ctx'.host = ctx.host
        /\ ctx'.null = ctx.null /\ ctx'.index = ctx.index
        /\ ctx'.sink_flag = TRUE /\ ctx'.restore_sink = done
        /\ done => ctx'.requested_sink = sink
    BY <1>2, <1>6 DEF C!Contexts
  <2>2. /\ plugged' = plugged /\ loaded' = loaded
        /\ default_sink' \in plugged \cup loaded \cup {None}
        /\ ~done => default_sink' = default_sink
    BY <1>6 DEF C!SetSink
  <2>3. C!TypeOK'
    BY <2>1, <2>2
  <2>4. C!SinksAreKnown'
    BY <2>1, <2>2 DEF C!SinksAreKnown
  <2>5. C!DefaultIsKnown'
    BY <1>2, <1>6, <2>1, <2>2 DEF C!DefaultIsKnown, C!Restorable
  <2> QED BY <2>3, <2>4, <2>5
<1> QED BY <1>3, <1>4, <1>5, <1>6 DEF C!FirstSession

LEMMA AudioNext ==
  ASSUME C!IInv, [C!Next]_C!vars
  PROVE  C!IInv'
<1>1. ASSUME NEW s \in Sessions, C!Acquire(s) PROVE C!IInv'
  BY <1>1, AudioStarts DEF C!Acquire
<1>2. ASSUME NEW s \in Sessions, C!Release(s) PROVE C!IInv'
  BY <1>2, AudioStops DEF C!Release
<1>3. CASE C!CaptureContext
  BY <1>3, AudioStarts DEF C!CaptureContext
<1>4. CASE C!ReleaseContext
  BY <1>4, AudioStops DEF C!ReleaseContext
<1> USE DEF C!IInv, C!TypeOK, C!SinksAreKnown, C!DefaultIsKnown, C!Restorable
<1>5. CASE C!Retry \/ UNCHANGED C!vars
  BY <1>5 DEF C!Retry, C!vars
<1>6. CASE C!UserPicks
  BY <1>6 DEF C!UserPicks
<1>7. CASE C!Plug
  BY <1>7 DEF C!Plug, C!Falls
<1>8. CASE C!Crash
  BY <1>8 DEF C!Crash, C!NoContext, C!Context, C!Contexts, C!Sinks
<1> QED BY <1>1, <1>2, <1>3, <1>4, <1>5, <1>6, <1>7, <1>8, AudioChooses
        DEF C!Next

(* Once nobody holds the context the default sink is back and our sinks    *)
(* are gone, unless the user or the machine has changed them, the server   *)
(* has refused, or the host has crashed (start_audio_control, capture,     *)
(* stop_audio_control).                                                    *)
THEOREM SinkRestored ==
  C!Init /\ [][C!Next]_C!vars => []SinkComesBack
<1>1. C!Init => C!IInv
  BY DEF C!Init, C!IInv, C!TypeOK, C!SinksAreKnown, C!DefaultIsKnown,
         C!Restorable, C!NoContext, C!Context, C!Contexts, C!Sinks
<1>2. C!IInv /\ [C!Next]_C!vars => C!IInv'
  BY AudioNext
<1>3. C!IInv => SinkComesBack
  BY DEF C!IInv, SinkComesBack, C!SinkComesBack, C!SinksAreKnown,
         C!DefaultIsKnown, C!Restorable
<1> QED BY <1>1, <1>2, <1>3, PTL

-----------------------------------------------------------------------------
(* AudioStream.                                                            *)

(* A number is what its quotient and its remainder say, and no other pair  *)
(* says it.                                                                *)
LEMMA Remainder ==
  ASSUME NEW m \in Nat \ {0}, NEW q \in Int, NEW r \in 0 .. m - 1
  PROVE  (m * q + r) % m = r
OBVIOUS

(* Sequence numbers start again after a whole number of blocks: what is    *)
(* counted on from a sequence number is what is counted on from the frame, *)
(* and both have the same shard.                                           *)
LEMMA CountsOn ==
  ASSUME NEW n \in Nat, NEW d \in Nat
  PROVE  /\ ((n % SeqModulus) + d) % SeqModulus = (n + d) % SeqModulus
         /\ (n % SeqModulus) % 4 = n % 4
<1> DEFINE q == n \div SeqModulus
           r == n % SeqModulus
           e == (r + d) \div SeqModulus
           s == (r + d) % SeqModulus
<1>1. /\ SeqModulus \in Nat \ {0} /\ SeqModulus % 4 = 0
      /\ q \in Int /\ r \in 0 .. SeqModulus - 1 /\ n = SeqModulus * q + r
      /\ e \in Int /\ s \in 0 .. SeqModulus - 1
      /\ r + d = SeqModulus * e + s
  BY SoundAssumption DEF A!RTPA_DATA_SHARDS
<1> HIDE DEF q, r, e, s
<1>2. n + d = SeqModulus * (q + e) + s
  BY <1>1
<1>3. (n + d) % SeqModulus = s
  <2>1. \A m \in Nat \ {0}, k \in Int :
          \A x \in 0 .. m - 1 : ((m * k) + x) % m = x
    BY Remainder
  <2> DEFINE k == q + e
  <2>2. k \in Int /\ n + d = SeqModulus * k + s
    BY <1>1, <1>2
  <2> HIDE DEF k
  <2> QED BY <1>1, <2>1, <2>2, Zenon
<1>4. n % 4 = r % 4
  <2> DEFINE b == SeqModulus \div 4
  <2>1. b \in Int /\ SeqModulus = 4 * b
    BY <1>1
  <2> HIDE DEF b
  <2>2. n = 4 * (b * q) + r
    BY <1>1, <2>1
  <2> DEFINE c == b * q
  <2>3. c \in Int /\ n = 4 * c + r
    BY <1>1, <2>1, <2>2
  <2> HIDE DEF c
  <2> QED BY <1>1, <2>3
<1> QED BY <1>3, <1>4 DEF r, s

(* encodeThread's queues lose frames, and what is left of them is frames.  *)
LEMMA QueuesKept ==
  ASSUME A!IInv, A!Capture \/ A!TakeSample \/ A!RaisePacket
  PROVE  A!IInv'
<1>1. UNCHANGED <<next_frame_index, sequenceNumber, fec_block_valid, shards,
                  base, sent, parity>>
  BY DEF A!Capture, A!TakeSample, A!RaisePacket, A!sendVars
<1>2. /\ capture_frame_index' \in Nat
      /\ samples' \in Seq(Nat) /\ packets' \in Seq(Nat)
      /\ encoding' \in Nat \cup {A!NoFrame}
  <2>1. CASE A!Capture
    <3>1. (IF Len(samples) >= MaxSamples THEN Tail(samples) ELSE samples)
            \in Seq(Nat)
      <4>1. Len(samples) >= MaxSamples => samples # <<>>
        BY SoundAssumption DEF A!IInv, A!TypeOK
      <4> QED BY <4>1 DEF A!IInv, A!TypeOK
    <3> QED BY <2>1, <3>1 DEF A!Capture, A!IInv, A!TypeOK
  <2>2. CASE A!TakeSample
    BY <2>2 DEF A!TakeSample, A!IInv, A!TypeOK
  <2>3. CASE A!RaisePacket
    <3>1. encoding \in Nat
      BY <2>3 DEF A!RaisePacket, A!IInv, A!TypeOK
    <3> QED BY <2>3, <3>1 DEF A!RaisePacket, A!IInv, A!TypeOK
  <2> QED BY <2>1, <2>2, <2>3
<1>3. A!TypeOK' /\ A!Numbered' /\ A!BlockSoFar'
  BY <1>1, <1>2 DEF A!IInv, A!TypeOK, A!Numbered, A!BlockSoFar
<1>4. A!ParityIsWhole'
  BY <1>1 DEF A!IInv, A!ParityIsWhole
<1> QED BY <1>3, <1>4 DEF A!IInv

(* audioBroadcastThread goes on from the frame that it sends: a block in   *)
(* which a frame is missing has no parity.                                 *)
LEMMA SendPacketInv ==
  ASSUME A!IInv, A!SendPacket
  PROVE  A!IInv'
<1> USE DEF A!RTPA_DATA_SHARDS
<1> DEFINE one == Head(packets)
           dropped == one - next_frame_index
           seq == A!SequenceOf(one, dropped)
           shard == seq % 4
           valid == shard = 0 \/ A!StillValid(dropped)
<1>1. /\ packets # <<>> /\ packets' = Tail(packets)
      /\ UNCHANGED <<capture_frame_index, samples, encoding>>
      /\ dropped < 0 => UNCHANGED A!sendVars
      /\ ~(dropped < 0) =>
           /\ next_frame_index' = one + 1
           /\ sequenceNumber' = (seq + 1) % SeqModulus
           /\ shards' = [shards EXCEPT ![shard] = one]
           /\ sent' = [frame |-> one, seq |-> seq]
           /\ base' = IF shard = 0 THEN seq ELSE base
           /\ fec_block_valid' = valid
           /\ IF shard = 4 - 1 /\ valid
              THEN parity' = [base |-> base, over |-> shards']
              ELSE UNCHANGED parity
  BY Zenon DEF A!SendPacket
<1>2. one \in Nat /\ packets' \in Seq(Nat)
  BY <1>1 DEF A!IInv, A!TypeOK
<1> HIDE DEF one
<1>3. CASE dropped < 0
  <2>1. UNCHANGED <<next_frame_index, sequenceNumber, fec_block_valid,
                    shards, base, sent, parity>>
    BY <1>1, <1>3 DEF A!sendVars
  <2>2. A!TypeOK' /\ A!Numbered' /\ A!BlockSoFar'
    BY <1>1, <1>2, <2>1 DEF A!IInv, A!TypeOK, A!Numbered, A!BlockSoFar
  <2>3. A!ParityIsWhole'
    BY <2>1 DEF A!IInv, A!ParityIsWhole
  <2> QED BY <2>2, <2>3 DEF A!IInv
<1>4. CASE ~(dropped < 0)
  <2>1. /\ next_frame_index \in Nat /\ dropped \in Nat
        /\ next_frame_index + dropped = one
        /\ SeqModulus \in Nat \ {0}
    BY <1>2, <1>4, SoundAssumption DEF A!IInv, A!TypeOK
  <2>2. seq = one % SeqModulus
    <3>1. seq = ((next_frame_index % SeqModulus) + dropped) % SeqModulus
      BY DEF A!SequenceOf, A!IInv, A!Numbered
    <3> HIDE DEF seq, dropped
    <3> QED BY <2>1, <3>1, CountsOn
  <2> HIDE DEF seq, dropped
  <2>3. shard = one % 4
    BY <1>2, <2>2, CountsOn
  <2>4. sequenceNumber' = (one + 1) % SeqModulus
    BY <1>1, <1>2, <1>4, <2>2, CountsOn
  <2>5. sequenceNumber' % 4 = (one + 1) % 4
    <3>1. one + 1 \in Nat
      BY <1>2
    <3> QED BY <2>4, <3>1, CountsOn
  <2>6. /\ seq \in Nat /\ shard \in 0 .. 3 /\ valid \in BOOLEAN
        /\ sequenceNumber' \in Nat
    <3>1. seq \in Nat /\ sequenceNumber' \in Nat
      BY <1>2, <2>1, <2>2, <2>4
    <3>2. shard \in 0 .. 3
      BY <1>2, <2>3
    <3>3. valid \in BOOLEAN
      BY DEF A!StillValid, A!IInv, A!TypeOK
    <3> QED BY <3>1, <3>2, <3>3
  <2>7. shards \in [0 .. 3 -> Int] /\ shards' = [shards EXCEPT ![shard] = one]
    BY <1>1, <1>4 DEF A!IInv, A!TypeOK
  <2>8. A!TypeOK' /\ A!Numbered'
    <3>1. shards' \in [0 .. 3 -> Int]
      BY <1>2, <2>6, <2>7
    <3>2. base' \in Nat
      BY <1>1, <1>4, <2>6 DEF A!IInv, A!TypeOK
    <3>3. next_frame_index' = one + 1 /\ fec_block_valid' \in BOOLEAN
      BY <1>1, <1>4, <2>6
    <3>4. UNCHANGED <<capture_frame_index, samples, encoding>>
      BY <1>1
    <3>5. A!TypeOK'
      BY <1>2, <2>6, <3>1, <3>2, <3>3, <3>4 DEF A!IInv, A!TypeOK
    <3>6. A!Numbered'
      BY <2>4, <3>3 DEF A!Numbered
    <3> QED BY <3>5, <3>6
  \* A shard of a block that goes on: no one is missing before one.
  <2>9. ASSUME shard # 0, valid
        PROVE  /\ dropped = 0 /\ next_frame_index = one
               /\ sequenceNumber % 4 = shard
               /\ base % 4 = 0 /\ shards[0] % SeqModulus = base
               /\ \A i \in 0 .. shard - 1 : shards[i] = one - shard + i
    <3>1. dropped = 0 /\ fec_block_valid
      BY <2>9 DEF A!StillValid
    <3>2. next_frame_index = one
      BY <2>1, <3>1
    <3>3. sequenceNumber % 4 = shard
      BY <1>2, <2>3, <3>2, CountsOn DEF A!IInv, A!Numbered
    <3> QED BY <2>9, <3>1, <3>2, <3>3 DEF A!IInv, A!BlockSoFar
  <2> HIDE DEF valid
  <2>10. A!BlockSoFar'
    <3>1. SUFFICES ASSUME valid, (one + 1) % 4 # 0
                   PROVE  /\ base' % 4 = 0
                          /\ shards'[0] % SeqModulus = base'
                          /\ \A i \in 0 .. ((one + 1) % 4) - 1 :
                               shards'[i] = (one + 1) - ((one + 1) % 4) + i
      BY <1>1, <1>4, <2>5 DEF A!BlockSoFar
    <3>2. shard \in 0 .. 2 /\ (one + 1) % 4 = shard + 1
      BY <1>2, <2>3, <3>1
    <3> HIDE DEF shard
    <3>3. shards' \in [0 .. 3 -> Int] /\ shards'[shard] = one
          /\ \A i \in 0 .. 3 \ {shard} : shards'[i] = shards[i]
      BY <1>2, <2>6, <2>7
    <3>4. CASE shard = 0
      <4>1. base' = seq /\ seq % 4 = 0
        BY <1>1, <1>4, <3>4 DEF shard
      <4> QED BY <1>2, <2>2, <3>2, <3>3, <3>4, <4>1
    <3>5. CASE shard # 0
      <4>1. base' = base
        BY <1>1, <1>4, <3>5
      <4>2. /\ base % 4 = 0 /\ shards[0] % SeqModulus = base
            /\ \A i \in 0 .. shard - 1 : shards[i] = one - shard + i
        BY <2>9, <3>1, <3>5
      <4>3. 0 # shard /\ shards'[0] = shards[0]
        BY <3>2, <3>3, <3>5
      <4>4. ASSUME NEW i \in 0 .. shard
            PROVE  shards'[i] = one - shard + i
        <5>1. CASE i = shard
          BY <1>2, <3>2, <3>3, <5>1
        <5>2. CASE i # shard
          <6>1. i \in 0 .. shard - 1 /\ i \in 0 .. 3 \ {shard}
            BY <3>2, <5>2
          <6> QED BY <3>3, <4>2, <6>1
        <5> QED BY <5>1, <5>2
      <4>5. \A i \in 0 .. shard : one - shard + i = (one + 1) - (shard + 1) + i
        BY <1>2, <3>2
      <4> QED BY <3>2, <4>1, <4>2, <4>3, <4>4, <4>5
    <3> QED BY <3>4, <3>5
  <2>11. A!ParityIsWhole'
    <3>1. sent'.frame # A!NoFrame => sent'.seq = sent'.frame % SeqModulus
      BY <1>1, <1>4, <2>2
    <3>2. CASE shard = 3 /\ valid
      <4>1. parity' = [base |-> base, over |-> shards']
        BY <1>1, <1>4, <3>2
      <4>2. /\ base % 4 = 0 /\ shards[0] % SeqModulus = base
            /\ \A i \in 0 .. 2 : shards[i] = one - 3 + i
        BY <2>9, <3>2
      <4>3. shards'[3] = one /\ \A i \in 0 .. 2 : shards'[i] = shards[i]
        BY <2>7, <3>2
      <4>4. parity'.base % 4 = 0 /\ parity'.over[0] % SeqModulus = parity'.base
        BY <4>1, <4>2, <4>3
      <4>5. shards'[0] = one - 3 /\ shards'[1] = one - 2
            /\ shards'[2] = one - 1 /\ shards'[3] = one
        BY <1>2, <4>2, <4>3
      <4>6. \A i \in 1 .. 3 : shards'[i] = shards'[0] + i
        BY <1>2, <4>5
      <4>7. \A i \in 1 .. 3 : parity'.over[i] = parity'.over[0] + i
        BY <4>1, <4>6
      <4> QED BY <3>1, <4>4, <4>7 DEF A!ParityIsWhole
    <3>3. CASE ~(shard = 3 /\ valid)
      BY <1>1, <1>4, <3>1, <3>3 DEF A!IInv, A!ParityIsWhole
    <3> QED BY <3>2, <3>3
  <2> QED BY <2>8, <2>10, <2>11 DEF A!IInv
<1> QED BY <1>3, <1>4

LEMMA SoundInit == A!Init => A!IInv
<1> SUFFICES ASSUME A!Init PROVE A!IInv
  OBVIOUS
<1>1. A!TypeOK
  BY DEF A!Init, A!TypeOK, A!NoFrame, A!RTPA_DATA_SHARDS
<1>2. A!Numbered /\ A!BlockSoFar
  BY SoundAssumption
  DEF A!Init, A!Numbered, A!BlockSoFar, A!RTPA_DATA_SHARDS
<1>3. A!ParityIsWhole
  BY DEF A!Init, A!ParityIsWhole
<1> QED BY <1>1, <1>2, <1>3 DEF A!IInv

LEMMA SoundNext ==
  ASSUME A!IInv, [A!Next]_A!vars PROVE A!IInv'
<1>1. CASE UNCHANGED A!vars
  <2>1. UNCHANGED <<capture_frame_index, samples, encoding, packets>>
        /\ UNCHANGED <<next_frame_index, sequenceNumber, fec_block_valid>>
        /\ UNCHANGED <<shards, base, sent, parity>>
    BY <1>1 DEF A!vars, A!queueVars, A!sendVars
  <2> QED
    BY <2>1
    DEF A!IInv, A!TypeOK, A!Numbered, A!BlockSoFar, A!ParityIsWhole
<1> QED BY <1>1, QueuesKept, SendPacketInv DEF A!Next

(* Whatever the queues lose, the parity packets name the first of the four *)
(* frames that they cover, and a frame's sequence number is its own        *)
(* (audioBroadcastThread).                                                 *)
THEOREM SoundParity == A!Init /\ [][A!Next]_A!vars => []A!ParityIsWhole
<1>1. A!IInv /\ [A!Next]_A!vars => A!IInv'
  BY SoundNext
<1>2. A!IInv => A!ParityIsWhole
  BY DEF A!IInv
<1> QED BY <1>1, <1>2, SoundInit, PTL
-----------------------------------------------------------------------------
(* VideoFec.                                                               *)

(* A quotient that is rounded up is the least that covers.                 *)
LEMMA Covers ==
  ASSUME NEW a \in Nat, NEW b \in Nat \ {0}, NEW c, c = F!RoundedUp(a, b)
  PROVE  /\ c \in Nat /\ c * b >= a /\ c * b <= a + b - 1
         /\ a > 0 => c > 0
         /\ \A m \in Nat : a <= m * b => c <= m
<1> DEFINE r == (a + b - 1) % b
<1>1. c \in Int /\ r \in 0 .. b - 1 /\ a + b - 1 = b * c + r
  BY DEF F!RoundedUp
<1> HIDE DEF r
<1>2. c * b >= a /\ c * b <= a + b - 1
  BY <1>1
<1>3. c >= 0
  <2> SUFFICES ASSUME c <= -1 PROVE FALSE
    BY <1>1
  <2>1. c * b <= (-1) * b /\ (-1) * b = -b /\ c * b \in Int
    BY <1>1
  <2> QED BY <1>2, <2>1
<1>4. a > 0 => c > 0
  <2> SUFFICES ASSUME a > 0, c = 0 PROVE FALSE
    BY <1>1, <1>3
  <2> QED BY <1>2
<1>5. ASSUME NEW m \in Nat, a <= m * b PROVE c <= m
  <2> SUFFICES ASSUME c >= m + 1 PROVE FALSE
    BY <1>1
  <2>1. c * b >= (m + 1) * b
    BY <1>1
  <2>2. (m + 1) * b = m * b + b
    OBVIOUS
  <2>3. m * b \in Nat /\ c * b \in Int
    BY <1>1
  <2> QED BY <1>2, <1>5, <2>1, <2>2, <2>3
<1> QED BY <1>1, <1>2, <1>3, <1>4, <1>5

(* Of a block that is not larger than D = 255 / (1 + F) shards, data and   *)
(* parity are 255 at most, and the client finds the parity shards, unless  *)
(* its minimum strains what can be told.                                   *)
Fits(b) ==
  /\ b.size > 0
  /\ \/ F!Strained(b)
     \/ /\ b.percentage # 0 => b.data + b.parity <= F!DATA_SHARDS_MAX
        /\ b.percentage \in 0 .. 255
        /\ b.parity = F!RoundedUp(b.data * b.percentage, 100)

LEMMA EncodedFits ==
  ASSUME NEW size \in Nat \ {0}, NEW fec \in 1 .. 255, NEW minimum \in Nat,
         size <= F!max_data_shards_per_fec_block(fec) * blocksize
  PROVE  Fits(F!encode(size, fec, minimum))
<1> DEFINE m == F!max_data_shards_per_fec_block(fec)
           data == F!RoundedUp(size, blocksize)
           added == (data * fec + 99) \div 100
           b == F!encode(size, fec, minimum)
<1>1. blocksize \in Nat \ {0}
  BY FecAssumption
<1>2. m \in Nat /\ m * (100 + fec) <= 25500
  <2> DEFINE r == 25500 % (100 + fec)
  <2>1. /\ m \in Int /\ r \in 0 .. 99 + fec
        /\ 25500 = (100 + fec) * m + r
    BY DEF F!max_data_shards_per_fec_block, F!DATA_SHARDS_MAX
  <2> HIDE DEF m, r
  <2>2. m >= 0
    <3> SUFFICES ASSUME m <= -1 PROVE FALSE
      BY <2>1
    <3>1. (100 + fec) * m <= (100 + fec) * (-1)
      BY <2>1
    <3> QED BY <2>1, <3>1
  <2> QED BY <2>1, <2>2
<1>3. data \in Nat /\ data >= 1 /\ data <= m
  <2> HIDE DEF m, data
  <2>1. data \in Nat /\ data > 0 /\ \A k \in Nat : size <= k * blocksize => data <= k
    BY <1>1, Covers DEF data
  <2>2. size <= m * blocksize
    BY DEF m
  <2> QED BY <1>2, <2>1, <2>2
<1> HIDE DEF m, data
<1> DEFINE p == data * fec
<1>4. p \in Nat /\ p >= data /\ p <= 25500 - 100 * data
  <2>1. data * (100 + fec) <= m * (100 + fec)
    BY <1>2, <1>3
  <2>2. data * (100 + fec) = 100 * data + p
    BY <1>3
  <2>3. p \in Nat /\ p >= data
    BY <1>3
  <2> QED BY <1>2, <1>3, <2>1, <2>2, <2>3
<1>5. added = (p + 99) \div 100
  OBVIOUS
<1> HIDE DEF p
<1>6. added \in Nat /\ added >= 1 /\ added + data <= 255
      /\ 100 * added <= p + 99 /\ 100 * added >= p
  BY <1>3, <1>4, <1>5
<1>7. F!RoundedUp(p, 100) = added
  BY <1>4, <1>5 DEF F!RoundedUp
<1>8. b = [size |-> size, data |-> data,
           raised |-> F!Adjusts(data, added, minimum, fec),
           parity |-> IF F!Adjusts(data, added, minimum, fec) THEN minimum
                      ELSE added,
           percentage |-> IF F!Adjusts(data, added, minimum, fec)
                          THEN (100 * minimum) \div data ELSE fec]
  BY DEF F!encode, data
<1> HIDE DEF added, b
<1>9. CASE ~F!Adjusts(data, added, minimum, fec)
  <2>1. b.size = size /\ b.data = data /\ b.parity = added /\ b.percentage = fec
    BY <1>8, <1>9
  <2>2. b.data * b.percentage = p
    BY <2>1 DEF p
  <2> QED BY <1>3, <1>6, <1>7, <2>1, <2>2 DEF Fits, b, F!DATA_SHARDS_MAX
<1>10. CASE F!Adjusts(data, added, minimum, fec)
  <2> DEFINE pct == (100 * minimum) \div data
             r == (100 * minimum) % data
  <2>1. minimum >= 2 /\ added < minimum
    BY <1>6, <1>10 DEF F!Adjusts
  <2>2. /\ b.size = size /\ b.data = data /\ b.parity = minimum
        /\ b.percentage = pct /\ b.raised = TRUE
    BY <1>8, <1>10
  <2>3. pct \in Int /\ r \in 0 .. data - 1 /\ 100 * minimum = data * pct + r
    BY <1>3
  <2> HIDE DEF pct, r
  <2>4. pct >= 0
    <3> SUFFICES ASSUME pct <= -1 PROVE FALSE
      BY <2>3
    <3>1. data * pct <= data * (-1)
      BY <1>3, <2>3
    <3> QED BY <1>3, <2>1, <2>3, <3>1
  <2>5. \/ F!Strained(b)
        \/ data <= 100 /\ pct <= 255 /\ data + minimum <= 255
    <3>1. CASE minimum = 2
      <4>1. data <= 100
        BY <1>3, <1>4, <1>6, <2>1, <3>1
      <4>2. pct <= data * pct
        BY <1>3, <2>3, <2>4
      <4> QED BY <1>3, <2>3, <3>1, <4>1, <4>2
    <3>2. CASE minimum > 2
      <4>1. CASE data > 100 \/ pct > 255 \/ data + minimum > 255
        BY <2>2, <3>2, <4>1, Zenon DEF F!Strained, F!DATA_SHARDS_MAX
      <4> QED BY <1>3, <2>3, <4>1
    <3> QED BY <2>1, <3>1, <3>2
  <2>6. CASE F!Strained(b)
    BY <2>2, <2>6 DEF Fits, b
  <2>7. CASE data <= 100 /\ pct <= 255 /\ data + minimum <= 255
    <3> DEFINE x == data * pct
    <3>1. x \in Int /\ x <= 100 * minimum /\ x >= 100 * minimum - 99
      BY <1>3, <2>3, <2>7
    <3>2. F!RoundedUp(x, 100) = minimum
      <4> HIDE DEF x
      <4> QED BY <3>1 DEF F!RoundedUp
    <3> QED BY <2>2, <2>3, <2>4, <2>7, <3>2 DEF Fits, b, F!DATA_SHARDS_MAX
  <2> QED BY <2>5, <2>6, <2>7
<1> QED BY <1>9, <1>10

\* Without parity.
LEMMA PlainFits ==
  ASSUME NEW size \in Nat \ {0}, NEW minimum \in Nat
  PROVE  Fits(F!encode(size, 0, minimum))
<1> DEFINE data == F!RoundedUp(size, blocksize)
           b == F!encode(size, 0, minimum)
<1>1. data \in Nat
  BY FecAssumption, Covers
<1> HIDE DEF data
<1>2. data * 0 = 0
  BY <1>1
<1>3. b = [size |-> size, data |-> data, raised |-> FALSE, parity |-> 0,
           percentage |-> 0]
  <2>1. F!Adjusts(data, 0, minimum, 0) = FALSE
    BY DEF F!Adjusts
  <2>2. (data * 0 + 99) \div 100 = 0
    BY <1>2
  <2> QED BY <2>1, <2>2 DEF F!encode, data
<1> HIDE DEF b
<1>4. b.size = size /\ b.data = data /\ b.parity = 0 /\ b.percentage = 0
  BY <1>3
<1>5. F!RoundedUp(0, 100) = 0
  BY DEF F!RoundedUp
<1> QED BY <1>2, <1>4, <1>5 DEF Fits, b

(* The blocks but the last are of one size, and with no more than MAX      *)
(* bytes each for n of them none is empty, nor is the last one larger.     *)
LEMMA SplitFits ==
  ASSUME NEW size \in Nat \ {0}, NEW n \in 1 .. 4, NEW most \in Nat,
         most >= 3, NEW room, room = most * blocksize,
         (n - 1) * room < size, size <= n * room \/ n = 4,
         NEW aligned,
         aligned = F!RoundedUp(size \div n, blocksize) * blocksize
  PROVE  /\ aligned \in Nat /\ (n > 1 => aligned > 0)
         /\ size - (n - 1) * aligned > 0
         /\ size <= n * room =>
              (aligned <= room /\ size - (n - 1) * aligned <= room)
<1> DEFINE q == size \div n
           c == F!RoundedUp(q, blocksize)
<1>1. blocksize \in Nat /\ blocksize >= 3 /\ blocksize \in Nat \ {0}
  BY FecAssumption
<1>2. q \in Nat /\ n * q <= size /\ size <= n * q + n - 1
  <2>1. n = 1 \/ n = 2 \/ n = 3 \/ n = 4
    OBVIOUS
  <2> QED BY <2>1
<1> HIDE DEF q
<1>3. /\ c \in Nat /\ c * blocksize >= q /\ c * blocksize <= q + blocksize - 1
      /\ q > 0 => c > 0
      /\ \A m \in Nat : q <= m * blocksize => c <= m
  BY <1>1, <1>2, Covers
<1>4. aligned = c * blocksize
  BY DEF q
<1> HIDE DEF c
<1>5. aligned \in Nat /\ aligned >= q /\ aligned <= q + blocksize - 1
  BY <1>1, <1>3, <1>4
<1>6. room \in Nat /\ room >= 3 * blocksize /\ room >= 9
  <2>1. most * blocksize >= 3 * blocksize
    BY <1>1
  <2> QED BY <1>1, <2>1
<1>7. n > 1 => aligned > 0
  <2> SUFFICES ASSUME n > 1 PROVE aligned > 0
    OBVIOUS
  <2>1. n = 2 \/ n = 3 \/ n = 4
    OBVIOUS
  <2>2. size > 9
    BY <1>6, <2>1
  <2>3. q > 0
    BY <1>2, <2>1, <2>2
  <2> QED BY <1>2, <1>5, <2>3
<1>8. ASSUME size <= n * room
      PROVE  /\ aligned <= room /\ size - (n - 1) * aligned <= room
             /\ size - (n - 1) * aligned > 0
  <2>1. n = 1 \/ n = 2 \/ n = 3 \/ n = 4
    OBVIOUS
  <2>2. q <= room
    BY <1>2, <1>6, <1>8, <2>1
  <2>3. c <= most
    BY <1>3, <2>2
  <2>4. aligned = room \/ aligned <= room - blocksize
    <3>1. CASE c = most
      BY <1>4, <3>1
    <3>2. CASE c <= most - 1
      <4>1. c * blocksize <= (most - 1) * blocksize
        BY <1>1, <1>3, <3>2
      <4>2. (most - 1) * blocksize = room - blocksize
        BY <1>1
      <4> QED BY <1>4, <4>1, <4>2
    <3> QED BY <1>3, <2>3, <3>1, <3>2
  <2>5. aligned <= room
    BY <1>1, <1>5, <1>6, <2>4
  <2>6. size - (n - 1) * aligned > 0
    BY <1>5, <1>6, <2>1, <2>5
  <2>7. size - (n - 1) * aligned <= room
    BY <1>1, <1>2, <1>5, <1>6, <1>8, <2>1, <2>4
  <2> QED BY <2>5, <2>6, <2>7
<1>9. ASSUME size > n * room, n = 4
      PROVE  size - (n - 1) * aligned > 0
  <2>1. q >= room
    BY <1>2, <1>6, <1>9
  <2>2. 3 * aligned <= 3 * q + 3 * blocksize - 3
    BY <1>1, <1>2, <1>5
  <2>3. 3 * aligned < size
    BY <1>1, <1>2, <1>5, <1>6, <1>9, <2>1, <2>2
  <2> QED BY <1>5, <1>9, <2>3
<1>10. n * room \in Nat
  BY <1>6
<1> QED BY <1>5, <1>7, <1>8, <1>9, <1>10

\* The sizes of the first blocks together.
Total(s, i) ==
  LET all[k \in 0 .. i] == IF k = 0 THEN 0 ELSE all[k - 1] + s[k].size
  IN all

LEMMA TotalStep ==
  ASSUME NEW s, NEW i \in Nat
  PROVE  /\ Total(s, i)[0] = 0
         /\ \A k \in 1 .. i :
              Total(s, i)[k] = Total(s, i)[k - 1] + s[k].size
<1> DEFINE Term(g, k) == IF k = 0 THEN 0 ELSE g[k - 1] + s[k].size
           Reads(g, m) == g = [k \in 0 .. m |-> Term(g, k)]
           Good == {m \in 0 .. i : \E g : Reads(g, m)}
<1>1. 0 \in Good
  <2> DEFINE g == [k \in 0 .. 0 |-> 0]
  <2>1. g = [k \in 0 .. 0 |-> Term(g, k)]
    OBVIOUS
  <2> HIDE DEF g
  <2> QED BY <2>1
<1>2. ASSUME NEW m \in 0 .. i, m < i, m \in Good
      PROVE  m + 1 \in Good
  <2>1. PICK g : g = [k \in 0 .. m |-> Term(g, k)]
    BY <1>2
  <2> DEFINE h == [k \in 0 .. m + 1 |-> IF k <= m THEN g[k] ELSE Term(g, k)]
  <2>2. \A k \in 0 .. m + 1 : h[k] = Term(h, k)
    <3> SUFFICES ASSUME NEW k \in 0 .. m + 1 PROVE h[k] = Term(h, k)
      OBVIOUS
    <3>1. k # 0 => h[k - 1] = g[k - 1]
      BY <1>2
    <3>2. Term(h, k) = Term(g, k)
      BY <3>1
    <3>3. ASSUME k <= m PROVE g[k] = Term(g, k)
      <4>1. k \in 0 .. m
        BY <1>2, <3>3
      <4> HIDE DEF Term
      <4> QED BY <2>1, <4>1
    <3> QED BY <3>2, <3>3
  <2>3. h = [k \in 0 .. m + 1 |-> Term(h, k)]
    <3> HIDE DEF Term
    <3> QED BY <2>2
  <2> HIDE DEF h, Term
  <2> QED BY <1>2, <2>3
<1>3. PICK g : Reads(g, i)
  <2> HIDE DEF Good
  <2>1. 0 .. i \subseteq Good
    BY <1>1, <1>2, CountUp
  <2> QED BY <2>1 DEF Good
<1>4. Reads(Total(s, i), i)
  <2> HIDE DEF Term
  <2>1. Total(s, i) = CHOOSE h : Reads(h, i)
    BY Zenon DEF Total, Term
  <2> HIDE DEF Reads
  <2> QED BY <1>3, <2>1
<1> DEFINE u == Total(s, i)
<1>5. \A k \in 0 .. i : u[k] = Term(u, k)
  <2> HIDE DEF Term, u
  <2>1. u = [k \in 0 .. i |-> Term(u, k)]
    BY <1>4 DEF u
  <2> QED BY <2>1
<1> HIDE DEF u
<1>6. u[0] = 0
  BY <1>5
<1>7. ASSUME NEW k \in 1 .. i PROVE u[k] = u[k - 1] + s[k].size
  <2>1. k \in 0 .. i /\ k # 0
    OBVIOUS
  <2> QED BY <1>5, <2>1
<1> QED BY <1>6, <1>7 DEF u

LEMMA SentFits ==
  ASSUME NEW size \in Sizes, NEW rate \in Percentages,
         NEW minimum \in Minimums, NEW f,
         f.size = size, f.fec = rate, f.minimum = minimum,
         NEW s, s = F!Sent(f)
  PROVE  \E n \in 1 .. 4, aligned \in Nat :
           /\ DOMAIN s = 1 .. n /\ Len(s) = n
           /\ \A i \in 1 .. n :
                /\ Fits(s[i])
                /\ s[i].size = IF i < n THEN aligned
                               ELSE size - (n - 1) * aligned
<1> DEFINE most == F!max_data_shards_per_fec_block(rate)
           room == most * blocksize
           needed == F!RoundedUp(size, room)
           skip == needed > F!MAX_FEC_BLOCKS
           n == IF skip THEN F!MAX_FEC_BLOCKS ELSE needed
           fec == IF skip THEN 0 ELSE rate
           aligned == F!RoundedUp(size \div n, blocksize) * blocksize
           sizes == F!SplitIn(size, n)
<1>1. /\ size \in Nat \ {0} /\ rate \in 1 .. 255 /\ minimum \in Nat
      /\ blocksize \in Nat \ {0} /\ blocksize >= 3
  BY FecAssumption
<1>2. most \in Nat /\ most >= 3
  BY <1>1 DEF F!max_data_shards_per_fec_block, F!DATA_SHARDS_MAX
<1>3. s = [i \in DOMAIN sizes |-> F!encode(sizes[i], fec, minimum)]
  <2>1. s = LET most_ == F!max_data_shards_per_fec_block(rate) * blocksize
                needed_ == F!RoundedUp(size, most_)
                skip_ == needed_ > F!MAX_FEC_BLOCKS
                sizes_ == F!SplitIn(size, IF skip_ THEN F!MAX_FEC_BLOCKS
                                          ELSE needed_)
            IN [i \in DOMAIN sizes_ |->
                  F!encode(sizes_[i], IF skip_ THEN 0 ELSE rate, minimum)]
    BY Zenon DEF F!Sent
  <2> QED BY <2>1, Zenon
<1> HIDE DEF most
<1>4. room \in Nat \ {0}
  BY <1>1, <1>2
<1> HIDE DEF room
<1>5. /\ needed \in Nat /\ needed > 0
      /\ needed * room >= size /\ needed * room <= size + room - 1
      /\ \A m \in Nat : size <= m * room => needed <= m
  <2>1. size \in Nat /\ size > 0 /\ room \in Nat \ {0}
    BY <1>1, <1>4
  <2> HIDE DEF needed
  <2>3. /\ needed \in Nat /\ needed * room >= size
        /\ needed * room <= size + room - 1
        /\ size > 0 => needed > 0
        /\ \A m \in Nat : size <= m * room => needed <= m
    BY <2>1, Covers DEF needed
  <2> QED BY <2>1, <2>3
<1> HIDE DEF needed
<1>6. /\ n \in 1 .. 4 /\ (n - 1) * room < size
      /\ ~skip => size <= n * room
      /\ size <= n * room \/ n = 4
  <2>1. CASE skip
    <3>1. n = 4 /\ ~(size <= 4 * room)
      BY <1>5, <2>1 DEF F!MAX_FEC_BLOCKS
    <3>2. 3 * room < size
      BY <1>1, <1>4, <3>1
    <3> QED BY <2>1, <3>1, <3>2
  <2>2. CASE ~skip
    <3>1. n = needed /\ n \in 1 .. 4
      BY <1>5, <2>2 DEF F!MAX_FEC_BLOCKS
    <3>2. (n - 1) * room = n * room - room
      BY <1>4, <3>1
    <3>3. n * room \in Nat
      BY <1>4, <3>1
    <3> HIDE DEF n
    <3> QED BY <1>1, <1>4, <1>5, <2>2, <3>1, <3>2, <3>3
  <2> QED BY <2>1, <2>2
<1>7. fec = IF skip THEN 0 ELSE rate
  OBVIOUS
<1> HIDE DEF skip, n, fec
<1>8. sizes = [i \in 1 .. n |-> IF i < n THEN aligned
                                ELSE size - (n - 1) * aligned]
  BY DEF F!SplitIn
<1>9. /\ aligned \in Nat /\ (n > 1 => aligned > 0)
      /\ size - (n - 1) * aligned > 0
      /\ size <= n * room =>
           aligned <= room /\ size - (n - 1) * aligned <= room
  BY <1>1, <1>2, <1>6, SplitFits DEF room
<1> HIDE DEF aligned, sizes
<1>10. s = [i \in 1 .. n |-> F!encode(sizes[i], fec, minimum)]
  BY <1>3, <1>8
<1>11. ASSUME NEW i \in 1 .. n
       PROVE  /\ sizes[i] = IF i < n THEN aligned
                            ELSE size - (n - 1) * aligned
              /\ sizes[i] \in Nat \ {0} /\ (~skip => sizes[i] <= room)
  <2>1. sizes[i] = IF i < n THEN aligned ELSE size - (n - 1) * aligned
    BY <1>8
  <2>2. (n - 1) * aligned \in Nat
    <3>1. n - 1 \in Nat /\ aligned \in Nat
      BY <1>6, <1>9
    <3> QED BY <3>1
  <2> QED BY <1>1, <1>6, <1>9, <2>1, <2>2
<1>12. ASSUME NEW i \in 1 .. n
       PROVE  /\ Fits(s[i])
              /\ s[i].size = IF i < n THEN aligned
                             ELSE size - (n - 1) * aligned
  <2>1. s[i] = F!encode(sizes[i], fec, minimum)
    BY <1>10
  <2>2. F!encode(sizes[i], fec, minimum).size = sizes[i]
    BY DEF F!encode
  <2>3. Fits(F!encode(sizes[i], fec, minimum))
    <3>1. CASE skip
      <4>1. fec = 0 /\ sizes[i] \in Nat \ {0} /\ minimum \in Nat
        BY <1>1, <1>7, <1>11, <3>1
      <4> QED BY ONLY <4>1, PlainFits
    <3>2. CASE ~skip
      <4>1. /\ fec \in 1 .. 255 /\ sizes[i] \in Nat \ {0}
            /\ minimum \in Nat /\ sizes[i] <= room
        BY <1>1, <1>7, <1>11, <3>2
      <4>2. room = F!max_data_shards_per_fec_block(fec) * blocksize
        BY <1>7, <3>2 DEF room, most
      <4> QED BY ONLY <4>1, <4>2, EncodedFits
    <3> QED BY <3>1, <3>2
  <2> QED BY <1>11, <2>1, <2>2, <2>3
<1>13. DOMAIN s = 1 .. n /\ Len(s) = n
  BY <1>6, <1>10
<1>14. n \in 1 .. 4 /\ aligned \in Nat
  BY <1>6, <1>9
<1> QED BY <1>12, <1>13, <1>14, Zenon

(* The blocks of a frame have all its bytes, fit the field of the code,    *)
(* and announce the parity that they have.                                 *)
LEMMA SendSound ==
  ASSUME frame \in [size : Sizes, fec : Percentages, minimum : Minimums],
         F!Send
  PROVE  F!FecIsSound'
<1>1. frame' = frame /\ blocks' = F!Sent(frame)
  BY DEF F!Send
<1>2. PICK n \in 1 .. 4, aligned \in Nat :
        /\ DOMAIN blocks' = 1 .. n /\ Len(blocks') = n
        /\ \A i \in 1 .. n :
             /\ Fits(blocks'[i])
             /\ blocks'[i].size = IF i < n THEN aligned
                                  ELSE frame.size - (n - 1) * aligned
  <2>1. /\ frame.size \in Sizes /\ frame.fec \in Percentages
        /\ frame.minimum \in Minimums
    OBVIOUS
  <2> QED BY <1>1, <2>1, SentFits
<1>3. frame.size \in Nat
  BY FecAssumption
<1>4. Total(blocks', n)[n] = frame.size
  <2> DEFINE t == Total(blocks', n)
  <2>1. /\ t[0] = 0
        /\ \A k \in 1 .. n : t[k] = t[k - 1] + blocks'[k].size
    BY TotalStep
  <2> HIDE DEF t
  <2>2. /\ t[0] = 0
        /\ \A k \in 1 .. n : t[k] = t[k - 1] +
             (IF k < n THEN aligned ELSE frame.size - (n - 1) * aligned)
    BY <1>2, <2>1
  <2>3. n = 1 \/ n = 2 \/ n = 3 \/ n = 4
    OBVIOUS
  <2>4. t[n] = frame.size
    BY ONLY <1>3, <2>2, <2>3, aligned \in Nat
  <2> QED BY <2>4 DEF t
<1>5. ASSUME NEW i \in DOMAIN blocks'
      PROVE  LET b == blocks'[i]
                 all[k \in 0 .. i] ==
                   IF k = 0 THEN 0 ELSE all[k - 1] + blocks'[k].size
             IN /\ b.size > 0
                /\ i = Len(blocks') => all[i] = frame'.size
                /\ \/ F!Strained(b)
                   \/ /\ b.percentage # 0 =>
                           b.data + b.parity <= F!DATA_SHARDS_MAX
                      /\ b.percentage \in 0 .. 255
                      /\ b.parity = F!RoundedUp(b.data * b.percentage, 100)
  <2>1. i \in 1 .. n /\ Fits(blocks'[i])
    BY <1>2
  <2>2. i = Len(blocks') => Total(blocks', i)[i] = frame'.size
    BY <1>1, <1>2, <1>4
  <2> QED BY <2>1, <2>2, Zenon DEF Fits, Total
<1> QED BY <1>5, Zenon DEF F!FecIsSound

FecParts ==
  /\ F!FecIsSound
  /\ part = "fec" =>
       frame \in [size : Sizes, fec : Percentages, minimum : Minimums]

(* Every byte of a frame is in a block; and, unless the client asks for a  *)
(* minimum of three or more that strains what can be told, a block with    *)
(* parity fits the 255 elements of the code's field, and from what it is   *)
(* told the client finds as many parity shards as there are (fec::encode). *)
(* What the parity of the sound covers is what was sent                    *)
(* (audioBroadcastThread).                                                 *)
THEOREM ParitySound == ServicesSpec => []ParityIsSound
<1>1. ServicesInit => A!IInv /\ FecParts
  <2> SUFFICES ASSUME ServicesInit PROVE A!IInv /\ FecParts
    OBVIOUS
  <2>1. blocks = <<>> /\ (part = "fec" => F!Init) /\ A!Init
    BY DEF ServicesInit, F!Init
  <2>2. F!FecIsSound
    BY <2>1 DEF F!FecIsSound
  <2> QED BY <2>1, <2>2, SoundInit DEF FecParts, F!Init
<1>2. A!IInv /\ FecParts
      /\ [HostNext \/ MediaNext \/ MachineNext]_<<part, hostVars, mediaVars,
                                                 machineVars>>
      => A!IInv' /\ FecParts'
  <2> SUFFICES ASSUME A!IInv, FecParts,
                      [HostNext \/ MediaNext \/ MachineNext]_
                        <<part, hostVars, mediaVars, machineVars>>
               PROVE  A!IInv' /\ FecParts'
    OBVIOUS
  <2>1. /\ part' = part
        /\ UNCHANGED soundVars \/ A!Next
        /\ UNCHANGED fecVars \/ (part = "fec" /\ F!Send)
    BY DEF HostNext, MediaNext, MachineNext, mediaVars
  <2>2. A!IInv'
    <3>1. UNCHANGED soundVars => UNCHANGED A!vars
      BY DEF soundVars, A!vars, A!queueVars, A!sendVars
    <3> QED BY <2>1, <3>1, SoundNext
  <2>3. CASE UNCHANGED fecVars
    <3>1. frame' = frame /\ blocks' = blocks
      BY <2>3 DEF fecVars
    <3>2. F!FecIsSound <=> F!FecIsSound'
      BY <3>1 DEF F!FecIsSound
    <3> QED BY <2>1, <2>2, <3>1, <3>2, Zenon DEF FecParts
  <2>4. CASE part = "fec" /\ F!Send
    <3>1. F!FecIsSound' /\ frame' = frame
      BY <2>4, SendSound DEF FecParts, F!Send
    <3> QED BY <2>1, <2>2, <3>1 DEF FecParts
  <2> QED BY <2>1, <2>3, <2>4
<1>3. A!IInv /\ FecParts => ParityIsSound
  BY DEF A!IInv, FecParts, ParityIsSound
<1> QED BY <1>1, <1>2, <1>3, PTL DEF ServicesSpec
=============================================================================
