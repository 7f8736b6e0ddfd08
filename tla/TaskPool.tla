------------------------------ MODULE TaskPool ------------------------------
(***************************************************************************)
(* The task pool (src/task_pool.h and src/thread_pool.h): a queue of tasks *)
(* to run at once, a vector of timers sorted by deadline, and workers that *)
(* take tasks from both or sleep on a condition variable until the next    *)
(* deadline. Every thread of the host pushes tasks and cancels timers.     *)
(***************************************************************************)
EXTENDS Naturals, Sequences

CONSTANTS
  Tasks,    \* task objects, each pushed at most once
  Delays,   \* what pushDelayed is called with
  Workers,  \* the threads that ThreadPool::start makes
  MaxTime,  \* bound of the clock
  None,
  Forever   \* the wake-up time of a worker that waits without a timeout

ASSUME TimeAssumption == MaxTime \in Nat /\ Delays \subseteq Nat
ASSUME NoneAssumption == None \notin Tasks /\ Forever \notin Nat

VARIABLES
  now,       \* steady_clock
  tasks,     \* _tasks
  timers,    \* _timer_tasks, the next one at the back
  begun,     \* tasks that have begun to run
  dropped,   \* timers that cancel has erased
  going,     \* _continue
  started,   \* start has been called
  pc,        \* where each worker is in _main
  running,   \* the task it runs
  wake,      \* when it wakes from _cv.wait_until
  notified   \* workers woken by notify_one or notify_all

queueVars == <<tasks, timers, begun, dropped>>
workerVars == <<pc, running, wake, notified>>
vars == <<now, queueVars, going, started, workerVars>>

Init ==
  /\ now = 0
  /\ tasks = <<>> /\ timers = <<>> /\ begun = {} /\ dropped = {}
  /\ going = FALSE /\ started = FALSE
  /\ pc = [w \in Workers |-> "unstarted"]
  /\ running = [w \in Workers |-> None]
  /\ wake = [w \in Workers |-> Forever]
  /\ notified = {}

-----------------------------------------------------------------------------
(* The queues, under _task_mutex.                                          *)

InTasks(t) == \E i \in DOMAIN tasks : tasks[i] = t
InTimers(t) == \E i \in DOMAIN timers : timers[i].task = t
over == begun \cup dropped
Fresh(t) == t \notin over /\ ~InTasks(t) /\ ~InTimers(t)

(* s with e at place p, and without its element at place p.                *)
Inserted(s, p, e) ==
  [i \in 1 .. Len(s) + 1 |->
     IF i < p THEN s[i] ELSE IF i = p THEN e ELSE s[i - 1]]
Without(s, p) ==
  [i \in 1 .. Len(s) - 1 |-> IF i < p THEN s[i] ELSE s[i + 1]]

(* Before the first timer with an earlier deadline, at the back if none.   *)
IsPlace(p, at) ==
  /\ \A i \in 1 .. p - 1 : timers[i].at >= at
  /\ p <= Len(timers) => timers[p].at < at

TimerDue == timers # <<>> /\ timers[Len(timers)].at <= now
Ready == tasks # <<>> \/ TimerDue

-----------------------------------------------------------------------------
(* What the threads of the host call. _lock is held from the change of the *)
(* queue to the notification, and by a worker from its check of the queues *)
(* to its wait.                                                            *)

Sleeping == {w \in Workers : pc[w] = "wait"}

(* push, with notify_one.                                                  *)
Push(t) ==
  /\ Fresh(t)
  /\ tasks' = Append(tasks, t)
  /\ notified' \in IF Sleeping = {} THEN {notified}
                   ELSE {notified \cup {w} : w \in Sleeping}
  /\ UNCHANGED <<now, timers, begun, dropped, going, started, pc, running,
                 wake>>

(* pushDelayed, with notify_all: waits are brought up to date.             *)
PushDelayed(t, d) ==
  /\ Fresh(t) /\ now + d <= MaxTime
  /\ \E p \in 1 .. Len(timers) + 1 :
       /\ IsPlace(p, now + d)
       /\ timers' = Inserted(timers, p, [at |-> now + d, task |-> t])
  /\ notified' = notified \cup Sleeping
  /\ UNCHANGED <<now, tasks, begun, dropped, going, started, pc, running,
                 wake>>

(* cancel finds the timer, unless it has been taken to run.                *)
Cancel(t) ==
  /\ \E i \in DOMAIN timers :
       /\ timers[i].task = t
       /\ timers' = Without(timers, i)
  /\ dropped' = dropped \cup {t}
  /\ UNCHANGED <<now, tasks, begun, going, started, workerVars>>

Start ==
  /\ ~started
  /\ started' = TRUE /\ going' = TRUE
  /\ pc' = [w \in Workers |-> "top"]
  /\ UNCHANGED <<now, queueVars, running, wake, notified>>

Stop ==
  /\ started /\ going
  /\ going' = FALSE
  /\ notified' = notified \cup Sleeping
  /\ UNCHANGED <<now, queueVars, started, pc, running, wake>>

-----------------------------------------------------------------------------
(* ThreadPool::_main.                                                      *)

Goto(w, where) == pc' = [pc EXCEPT ![w] = where]

CheckContinue(w) ==
  /\ pc[w] = "top"
  /\ Goto(w, IF going THEN "pop" ELSE "drain")
  /\ UNCHANGED <<now, queueVars, going, started, running, wake, notified>>

(* pop: a task to run at once comes before any timer. Where a worker goes  *)
(* on from depends on the loop it is in.                                   *)
Run(w, t) ==
  /\ running' = [running EXCEPT ![w] = t]
  /\ Goto(w, IF pc[w] = "pop" THEN "run" ELSE "run_drain")
  /\ begun' = begun \cup {t}
  /\ UNCHANGED <<now, dropped, going, started, wake, notified>>

PopTask(w) ==
  /\ pc[w] \in {"pop", "drain"} /\ tasks # <<>>
  /\ Run(w, Head(tasks))
  /\ tasks' = Tail(tasks)
  /\ UNCHANGED timers

PopTimerEarly(w) ==   \* mutant: the deadline is not compared with the clock
  /\ pc[w] \in {"pop", "drain"} /\ tasks = <<>> /\ timers # <<>>
  /\ Run(w, timers[Len(timers)].task)
  /\ timers' = Without(timers, Len(timers))
  /\ UNCHANGED tasks

PopTimer(w) ==
  /\ pc[w] \in {"pop", "drain"} /\ tasks = <<>> /\ TimerDue
  /\ Run(w, timers[Len(timers)].task)
  /\ timers' = Without(timers, Len(timers))
  /\ UNCHANGED tasks

PopNothing(w) ==
  /\ pc[w] \in {"pop", "drain"} /\ ~Ready
  /\ Goto(w, IF pc[w] = "pop" THEN "lock" ELSE "exited")
  /\ UNCHANGED <<now, queueVars, going, started, running, wake, notified>>

TaskEnds(w) ==
  /\ pc[w] \in {"run", "run_drain"}
  /\ running' = [running EXCEPT ![w] = None]
  /\ Goto(w, IF pc[w] = "run" THEN "top" ELSE "drain")
  /\ UNCHANGED <<now, queueVars, going, started, wake, notified>>

SleepUnchecked(w) ==   \* mutant: does not look again once it has the lock
  /\ pc[w] = "lock"
  /\ wake' = [wake EXCEPT ![w] =
                IF timers = <<>> THEN Forever ELSE timers[Len(timers)].at]
  /\ notified' = notified \ {w}
  /\ Goto(w, "wait")
  /\ UNCHANGED <<now, queueVars, going, started, running>>

SleepStopped(w) ==   \* mutant: does not look at _continue before it waits
  /\ pc[w] = "lock"
  /\ IF Ready THEN Goto(w, "top") /\ UNCHANGED <<wake, notified>>
     ELSE /\ wake' = [wake EXCEPT ![w] = IF timers = <<>> THEN Forever
                                         ELSE timers[Len(timers)].at]
          /\ notified' = notified \ {w}
          /\ Goto(w, "wait")
  /\ UNCHANGED <<now, queueVars, going, started, running>>

(* With the lock: look again, then wait for the next deadline, or without  *)
(* a timeout when there is none.                                           *)
Sleep(w) ==
  /\ pc[w] = "lock"
  /\ IF Ready THEN Goto(w, "top") /\ UNCHANGED <<wake, notified>>
     ELSE IF ~going THEN Goto(w, "drain") /\ UNCHANGED <<wake, notified>>
     ELSE /\ wake' = [wake EXCEPT ![w] = IF timers = <<>> THEN Forever
                                         ELSE timers[Len(timers)].at]
          /\ notified' = notified \ {w}
          /\ Goto(w, "wait")
  /\ UNCHANGED <<now, queueVars, going, started, running>>

(* A wait may also end for no reason.                                      *)
Wake(w) ==
  /\ pc[w] = "wait"
  /\ notified' = notified \ {w}
  /\ Goto(w, "top")
  /\ UNCHANGED <<now, queueVars, going, started, running, wake>>

MustWake(w) == w \in notified \/ (wake[w] # Forever /\ wake[w] <= now)

Work(w) ==
  \/ CheckContinue(w) \/ PopTask(w) \/ PopTimer(w) \/ PopNothing(w)
  \/ TaskEnds(w) \/ Sleep(w)

-----------------------------------------------------------------------------
Tick ==
  /\ now < MaxTime
  /\ now' = now + 1
  /\ UNCHANGED <<queueVars, going, started, workerVars>>

Next ==
  \/ \E t \in Tasks :
       Push(t) \/ Cancel(t) \/ \E d \in Delays : PushDelayed(t, d)
  \/ Start \/ Stop \/ Tick
  \/ \E w \in Workers : Work(w) \/ Wake(w)

Spec == Init /\ [][Next]_vars

(* The pool is started, its workers go on, tasks end and the clock runs. A *)
(* worker is sure to leave its wait only when it is notified or its time   *)
(* has come. Callers owe nothing.                                          *)
FairSpec ==
  /\ Spec
  /\ WF_vars(Start) /\ WF_vars(Tick)
  /\ \A w \in Workers : WF_vars(Work(w)) /\ WF_vars(MustWake(w) /\ Wake(w))

-----------------------------------------------------------------------------
Places == {"unstarted", "top", "pop", "run", "lock", "wait", "drain",
           "run_drain", "exited"}

TypeOK ==
  /\ now \in Nat
  /\ tasks \in Seq(Tasks) /\ timers \in Seq([at : Nat, task : Tasks])
  /\ begun \subseteq Tasks /\ dropped \subseteq Tasks
  /\ going \in BOOLEAN /\ started \in BOOLEAN
  /\ pc \in [Workers -> Places]
  /\ running \in [Workers -> Tasks \cup {None}]
  /\ wake \in [Workers -> Nat \cup {Forever}]
  /\ notified \subseteq Workers

(* The last timer is the next one.                                         *)
Sorted ==
  \A i, j \in DOMAIN timers : i < j => timers[i].at >= timers[j].at

(* A task is in one place: not twice in the queues, and not there when it  *)
(* has begun or has been cancelled.                                        *)
OnePlace ==
  /\ \A i, j \in DOMAIN tasks : tasks[i] = tasks[j] => i = j
  /\ \A i, j \in DOMAIN timers : timers[i].task = timers[j].task => i = j
  /\ \A i \in DOMAIN tasks : tasks[i] \notin over
  /\ \A i \in DOMAIN timers : timers[i].task \notin over
  /\ \A i \in DOMAIN tasks, j \in DOMAIN timers : tasks[i] # timers[j].task

IInv == TypeOK /\ Sorted /\ OnePlace

(* The queues are those of TaskSchedule: a task begins at most once, not    *)
(* before its time, in order, and not after it has been cancelled, however *)
(* the sorted vector is kept and whichever worker takes it.                *)
Promise == INSTANCE TaskSchedule WITH
  urgent <- tasks, delayed <- {timers[i] : i \in DOMAIN timers}
KeepsPromise == Promise!Spec

Stopped == started /\ ~going

(* A pushed task runs in the end, unless it is cancelled or the pool is    *)
(* stopped: no wake-up is lost between a worker's look at the queues and   *)
(* its wait.                                                               *)
TasksRun ==
  \A t \in Tasks : (InTasks(t) \/ InTimers(t)) ~> (t \in over \/ Stopped)

(* Once the pool is stopped all its workers leave, so that join returns.   *)
StopEnds == Stopped ~> \A w \in Workers : pc[w] = "exited"

(* No worker waits for a notification that has been given before it began  *)
(* to wait, neither push's nor stop's (thread_pool.h).                     *)
NoWakeupIsLost == TasksRun /\ StopEnds
=============================================================================
