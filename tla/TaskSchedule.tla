---------------------------- MODULE TaskSchedule ----------------------------
(***************************************************************************)
(* What the task pool promises to the rest of the host: a task that is     *)
(* asked for begins at most once, not before its time, in the order of the *)
(* calls or, for delayed tasks, of their deadlines; and a task that has    *)
(* been cancelled never begins.                                            *)
(***************************************************************************)
EXTENDS Naturals, Sequences

CONSTANTS Tasks, Delays

VARIABLES
  now,      \* the clock
  urgent,   \* tasks to begin as soon as possible, in order
  delayed,  \* [at, task]: tasks to begin when their time has come
  begun,    \* tasks that have begun
  dropped   \* tasks that have been cancelled

vars == <<now, urgent, delayed, begun, dropped>>

Init ==
  /\ now = 0
  /\ urgent = <<>>
  /\ delayed = {}
  /\ begun = {} /\ dropped = {}

Fresh(t) ==
  /\ t \notin begun \cup dropped
  /\ \A i \in DOMAIN urgent : urgent[i] # t
  /\ \A d \in delayed : d.task # t

Ask(t) ==
  /\ Fresh(t)
  /\ urgent' = Append(urgent, t)
  /\ UNCHANGED <<now, delayed, begun, dropped>>

AskLater(t, wait) ==
  /\ Fresh(t)
  /\ delayed' = delayed \cup {[at |-> now + wait, task |-> t]}
  /\ UNCHANGED <<now, urgent, begun, dropped>>

BeginUrgent ==
  /\ urgent # <<>>
  /\ urgent' = Tail(urgent)
  /\ begun' = begun \cup {Head(urgent)}
  /\ UNCHANGED <<now, delayed, dropped>>

(* Its time has come, and no other task should begin before it.            *)
BeginDelayed(d) ==
  /\ urgent = <<>>
  /\ d.at <= now /\ \A e \in delayed : d.at <= e.at
  /\ delayed' = delayed \ {d}
  /\ begun' = begun \cup {d.task}
  /\ UNCHANGED <<now, urgent, dropped>>

Cancel(d) ==
  /\ delayed' = delayed \ {d}
  /\ dropped' = dropped \cup {d.task}
  /\ UNCHANGED <<now, urgent, begun>>

Tick ==
  /\ now' = now + 1
  /\ UNCHANGED <<urgent, delayed, begun, dropped>>

Next ==
  \/ BeginUrgent \/ Tick
  \/ \E t \in Tasks : Ask(t) \/ \E wait \in Delays : AskLater(t, wait)
  \/ \E d \in delayed : BeginDelayed(d) \/ Cancel(d)

Spec == Init /\ [][Next]_vars
=============================================================================
