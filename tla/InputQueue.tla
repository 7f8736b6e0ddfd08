----------------------------- MODULE InputQueue -----------------------------
(***************************************************************************)
(* How the messages of the clients' keyboards, mice and controllers get to *)
(* the operating system (the queue of src/input.cpp): the control thread   *)
(* appends to the queue of the client, the only worker of the task pool    *)
(* drains it. A drain joins a message with later ones where that loses     *)
(* nothing, and goes to the back of the timers after a burst, so that      *)
(* delayed work gets its turn. The pool is what TaskSchedule promises:     *)
(* tasks to run at once in order, then the timers that are due, in order.  *)
(***************************************************************************)
EXTENDS Integers, Sequences

CONSTANTS
  Inputs,       \* input_t: one per session
  Clients,      \* functions from Inputs: the messages each client may send
  MaxQueue,     \* bound of a queue
  MaxReady,     \* bound of the tasks of the pool when a session ends
  MaxPerDrain,  \* MAX_MESSAGES_PER_DRAIN
  MaxShort,     \* the largest value of a short
  None

VARIABLES
  family,     \* the messages the client of each input may send
  attached,   \* its session is alive
  queue,      \* input_queue
  pending,    \* input_drain_pending
  owing,      \* the input whose drain the control thread is about to push
  ready,      \* tasks of the pool to run at once
  due,        \* its timers whose time has come
  chore,      \* another timer of the host: "none", "waiting" or "due"
  running,    \* the task the worker runs
  processed,  \* messages this drain has taken
  entry       \* the message it is handing to the operating system

controlVars == <<family, attached, owing>>
poolVars == <<ready, due, chore, running>>
drainVars == <<processed, entry>>
vars == <<controlVars, queue, pending, poolVars, drainVars>>

Drain(c) == [what |-> "drain", input |-> c]
ReleaseAll == [what |-> "release", input |-> None]
Chore == [what |-> "chore", input |-> None]
PoolTasks == {Drain(c) : c \in Inputs} \cup {ReleaseAll, Chore}

Init ==
  /\ family \in Clients
  /\ attached = [c \in Inputs |-> family[c] # {}]
  /\ queue = [c \in Inputs |-> <<>>]
  /\ pending = [c \in Inputs |-> FALSE]
  /\ owing = None
  /\ ready = <<>> /\ due = <<>> /\ chore = "none"
  /\ running = None /\ processed = 0 /\ entry = None

-----------------------------------------------------------------------------
(* Joining a later message with the one that is about to be sent. A        *)
(* message is what its packet says of                                      *)
(*   magic    its kind                                                     *)
(*   unit     the controller (or the key)                                  *)
(*   pointer  the finger, or the sensor of a controller                    *)
(*   mask     activeGamepadMask                                            *)
(*   state    what is not to be lost: buttons, the kind of a touch event,  *)
(*            the tool of a pen, the size of the surface                   *)
(*   value    what is: deltas, or positions of which the latest counts     *)

Short == -MaxShort - 1 .. MaxShort
Moves == {"move", "hover"}

batch_sum(d, s) ==
  IF d.value + s.value \in Short THEN "batched" ELSE "terminate"

batch_abs(d, s) == IF d.state = s.state THEN "batched" ELSE "terminate"

batch_pad(d, s) ==
  IF d.mask = s.mask /\ d.unit # s.unit THEN "not_batchable"
  ELSE IF d.mask = s.mask /\ d.state = s.state THEN "batched"
  ELSE "terminate"

batch_touch(d, s) ==
  IF {d.state, s.state} \subseteq Moves /\ d.pointer # s.pointer
    THEN "not_batchable"
  ELSE IF d.state \in Moves /\ d.state = s.state THEN "batched"
  ELSE "terminate"

(* The state of a pen is its event, buttons and tool.                      *)
batch_pen(d, s) ==
  IF d.state[1] \in Moves /\ d.state = s.state THEN "batched"
  ELSE "terminate"

batch_padtouch(d, s) ==
  IF \/ d.state \in Moves /\ d.unit # s.unit
     \/ {d.state, s.state} \subseteq Moves /\ d.pointer # s.pointer
    THEN "not_batchable"
  ELSE IF d.state \in Moves /\ d.state = s.state THEN "batched"
  ELSE "terminate"

batch_motion(d, s) ==
  IF <<d.unit, d.pointer>> = <<s.unit, s.pointer>> THEN "batched"
  ELSE "not_batchable"

Sums == {"rel", "scroll", "hscroll"}
Batchable ==
  Sums \cup {"abs", "pad", "touch", "pen", "padtouch", "motion"}

\* mutant: messages of another controller or finger do not stop a batch
batch_BlindToMagic(d, s) ==
  IF d.magic \notin Batchable THEN "terminate"
  ELSE IF d.magic # s.magic THEN "not_batchable"
  ELSE IF d.magic \in Sums THEN batch_sum(d, s) ELSE "batched"

(* batch: d is the message to be sent, s a later one.                      *)
batch(d, s) ==
  IF d.magic # s.magic \/ d.magic \notin Batchable THEN "terminate"
  ELSE CASE d.magic \in Sums -> batch_sum(d, s)
         [] d.magic = "abs" -> batch_abs(d, s)
         [] d.magic = "pad" -> batch_pad(d, s)
         [] d.magic = "touch" -> batch_touch(d, s)
         [] d.magic = "pen" -> batch_pen(d, s)
         [] d.magic = "padtouch" -> batch_padtouch(d, s)
         [] d.magic = "motion" -> batch_motion(d, s)

Joined(d, s) ==
  IF d.magic \in Sums THEN [d EXCEPT !.value = @ + s.value] ELSE s

(* The first message of q joined with what it can be joined with, and what *)
(* is left of q: the loop of the drain.                                    *)
Batched(q) ==
  LET look[n \in 1 .. Len(q)] ==
        IF n = 1 THEN [sent |-> q[1], left |-> <<>>, open |-> TRUE]
        ELSE LET b == look[n - 1]
                 verdict == batch(b.sent, q[n])
             IN IF b.open /\ verdict = "batched"
                  THEN [b EXCEPT !.sent = Joined(@, q[n])]
                  ELSE [b EXCEPT !.left = Append(@, q[n]),
                                 !.open = @ /\ verdict # "terminate"]
  IN look[Len(q)]

-----------------------------------------------------------------------------
(* The control thread and the threads that end sessions.                   *)

\* mutant: the flag is not raised
passthrough_NoFlag(c, m) ==
  /\ attached[c] /\ owing = None /\ Len(queue[c]) < MaxQueue
  /\ queue' = [queue EXCEPT ![c] = Append(@, m)]
  /\ owing' = IF pending[c] THEN None ELSE c
  /\ UNCHANGED <<family, attached, pending, poolVars, drainVars>>

(* passthrough(input, data), under input_queue_lock ...                    *)
passthrough(c, m) ==
  /\ attached[c] /\ owing = None /\ Len(queue[c]) < MaxQueue
  /\ queue' = [queue EXCEPT ![c] = Append(@, m)]
  /\ pending' = [pending EXCEPT ![c] = TRUE]
  /\ owing' = IF pending[c] THEN None ELSE c
  /\ UNCHANGED <<family, attached, poolVars, drainVars>>

(* ... and after it.                                                       *)
PushDrain ==
  /\ owing # None
  /\ ready' = Append(ready, Drain(owing))
  /\ owing' = None
  /\ UNCHANGED <<family, attached, queue, pending, due, chore, running,
                 drainVars>>

(* session::join, once the control thread has let go of the session: reset *)
(* has everything released by a task of the pool.                          *)
reset(c) ==
  /\ attached[c] /\ owing # c /\ Len(ready) < MaxReady
  /\ attached' = [attached EXCEPT ![c] = FALSE]
  /\ ready' = Append(ready, ReleaseAll)
  /\ UNCHANGED <<family, owing, queue, pending, due, chore, running,
                 drainVars>>

(* Another session, with an input of its own; a timer moves the mouse.     *)
alloc(c) ==
  /\ ~attached[c] /\ ~pending[c] /\ family[c] # {}
  /\ attached' = [attached EXCEPT ![c] = TRUE]
  /\ chore' = IF chore = "none" THEN "waiting" ELSE chore
  /\ UNCHANGED <<family, owing, queue, pending, ready, due, running,
                 drainVars>>

-----------------------------------------------------------------------------
(* Other timers: the release of HOME, a key repeat, the feedback of pads.  *)

AskChore ==
  /\ chore = "none" /\ \E c \in Inputs : attached[c]
  /\ chore' = "waiting"
  /\ UNCHANGED <<controlVars, queue, pending, ready, due, running,
                 drainVars>>

ChoreIsDue ==
  /\ chore = "waiting"
  /\ chore' = "due"
  /\ due' = Append(due, Chore)
  /\ UNCHANGED <<controlVars, queue, pending, ready, running, drainVars>>

-----------------------------------------------------------------------------
(* The worker of the pool.                                                 *)

BeginReady ==
  /\ running = None /\ ready # <<>>
  /\ running' = Head(ready)
  /\ ready' = Tail(ready)
  /\ UNCHANGED <<controlVars, queue, pending, due, chore, drainVars>>

BeginDue ==
  /\ running = None /\ ready = <<>> /\ due # <<>>
  /\ running' = Head(due)
  /\ due' = Tail(due)
  /\ chore' = IF Head(due) = Chore THEN "none" ELSE chore
  /\ UNCHANGED <<controlVars, queue, pending, ready, drainVars>>

(* The chore that has begun, or the function that reset has pushed.        *)
RunOther ==
  /\ running \in {ReleaseAll, Chore}
  /\ running' = None
  /\ UNCHANGED <<controlVars, queue, pending, ready, due, chore, drainVars>>

DrainTake(c) ==
  /\ running = Drain(c) /\ entry = None
  /\ processed < MaxPerDrain /\ queue[c] # <<>>
  /\ entry' = Batched(queue[c]).sent
  /\ queue' = [queue EXCEPT ![c] = Batched(queue[c]).left]
  /\ UNCHANGED <<controlVars, pending, poolVars, processed>>

(* The switch over the kinds of message; see InputDevices for what the     *)
(* handlers do besides.                                                    *)
DrainHandle(c) ==
  /\ running = Drain(c) /\ entry # None
  /\ entry' = None
  /\ processed' = processed + 1
  /\ UNCHANGED <<controlVars, queue, pending, poolVars>>

DrainEnds(c) ==
  /\ running = Drain(c) /\ entry = None
  /\ processed < MaxPerDrain /\ queue[c] = <<>>
  /\ pending' = [pending EXCEPT ![c] = FALSE]
  /\ running' = None /\ processed' = 0
  /\ UNCHANGED <<controlVars, queue, ready, due, chore, entry>>

\* mutant: the drain goes on before the timers that are due already
DrainYields_InFront(c) ==
  /\ running = Drain(c) /\ entry = None /\ processed = MaxPerDrain
  /\ due' = <<Drain(c)>> \o due
  /\ running' = None /\ processed' = 0
  /\ UNCHANGED <<controlVars, queue, pending, ready, chore, entry>>

(* "Yield the sole shared worker after a bounded burst": a timer of 0 ms   *)
(* is due behind those that are due already.                               *)
DrainYields(c) ==
  /\ running = Drain(c) /\ entry = None /\ processed = MaxPerDrain
  /\ due' = Append(due, Drain(c))
  /\ running' = None /\ processed' = 0
  /\ UNCHANGED <<controlVars, queue, pending, ready, chore, entry>>

DrainSteps(c) ==
  DrainTake(c) \/ DrainHandle(c) \/ DrainEnds(c) \/ DrainYields(c)

Worker ==
  \/ BeginReady \/ BeginDue \/ RunOther
  \/ \E c \in Inputs : DrainSteps(c)

InputQueueNext ==
  \/ \E c \in Inputs :
       \/ \E m \in family[c] : passthrough(c, m)
       \/ reset(c) \/ alloc(c)
  \/ PushDrain \/ AskChore \/ ChoreIsDue
  \/ Worker

(* The worker runs whenever it has something to do, time goes on, and the  *)
(* control thread finishes what it has begun; nobody has to send, to end a *)
(* session or to begin one.                                                *)
Fairness == WF_vars(Worker) /\ WF_vars(ChoreIsDue) /\ WF_vars(PushDrain)

Spec == Init /\ [][InputQueueNext]_vars /\ Fairness

-----------------------------------------------------------------------------
TypeOK ==
  /\ family \in Clients
  /\ attached \in [Inputs -> BOOLEAN] /\ pending \in [Inputs -> BOOLEAN]
  /\ owing \in Inputs \cup {None}
  /\ ready \in Seq(PoolTasks) /\ due \in Seq(PoolTasks)
  /\ chore \in {"none", "waiting", "due"}
  /\ running \in PoolTasks \cup {None}
  /\ processed \in 0 .. MaxPerDrain

In(s, t) == \E i \in DOMAIN s : s[i] = t
Once(s, t) == \A i, j \in DOMAIN s : s[i] = t /\ s[j] = t => i = j

\* Where the drain of c is.
Scheduled(c) ==
  { p \in {"owed", "ready", "due", "running"} :
      \/ p = "owed" /\ owing = c
      \/ p = "ready" /\ In(ready, Drain(c))
      \/ p = "due" /\ In(due, Drain(c))
      \/ p = "running" /\ running = Drain(c) }

(* input_drain_pending says "whether a single-flight queue drain is        *)
(* scheduled or running" (input.cpp): there is one while it is up and      *)
(* never a second one, and no message waits without it, whatever the       *)
(* control thread does while the worker finds the queue empty.             *)
SingleFlight ==
  \A c \in Inputs :
    /\ Once(ready, Drain(c)) /\ Once(due, Drain(c))
    /\ \A p, q \in Scheduled(c) : p = q
    /\ pending[c] <=> Scheduled(c) # {}
    /\ queue[c] # <<>> => pending[c]

\* The inductive invariant behind it.
IInv ==
  /\ TypeOK /\ SingleFlight
  /\ queue = [c \in Inputs |-> queue[c]]
  /\ entry # None => processed < MaxPerDrain

Handling(c) == running = Drain(c) /\ entry # None

(* A message that has been queued is handed to the operating system, were  *)
(* it the last its client sends, unless the drains of another client keep  *)
(* ending and being pushed anew in front of its own.                       *)
InputsAreTaken ==
  \A c \in Inputs :
    queue[c] # <<>> ~> Handling(c) \/ \E d \in Inputs \ {c} : ~pending[d]
=============================================================================
