---------------------------- MODULE Input_proofs -----------------------------
(***************************************************************************)
(* Proofs about the input, for every value of the constants: the pool      *)
(* keeps its timers sorted and no task twice, and so implements            *)
(* TaskSchedule (TaskPool, for any tasks, delays and workers); the flag    *)
(* input_drain_pending keeps the drain of a client single and leaves no    *)
(* message without one (InputQueue, for any number of clients, messages    *)
(* and tasks); timers and tasks that run late leave slots, keys, buttons   *)
(* and HOME to those who have them then (InputDevices, for any number of   *)
(* sessions, controllers, slots and ids).                                  *)
(***************************************************************************)
EXTENDS MCInput, Counting, TLAPS

USE DEF Q!controlVars, Q!poolVars, Q!drainVars

(* What the queues of the pool hold after a push.                          *)
LEMMA PushedTasks ==
  ASSUME NEW s \in Seq(Q!PoolTasks), NEW t \in Q!PoolTasks
  PROVE  /\ Append(s, t) \in Seq(Q!PoolTasks)
         /\ \A x : Q!In(Append(s, t), x) <=> Q!In(s, x) \/ x = t
         /\ \A x : x # t => (Q!Once(Append(s, t), x) <=> Q!Once(s, x))
         /\ ~Q!In(s, t) => Q!Once(Append(s, t), t)
<1>1. Append(s, t) \in Seq(Q!PoolTasks)
  OBVIOUS
<1>2. ASSUME NEW x PROVE Q!In(Append(s, t), x) <=> Q!In(s, x) \/ x = t
  <2>1. /\ DOMAIN Append(s, t) = 1 .. Len(s) + 1 /\ Len(s) \in Nat
        /\ DOMAIN s = 1 .. Len(s)
        /\ Append(s, t)[Len(s) + 1] = t
        /\ \A i \in 1 .. Len(s) : Append(s, t)[i] = s[i]
    OBVIOUS
  <2>2. Len(s) + 1 \in DOMAIN Append(s, t)
    BY <2>1
  <2>3. \A i \in DOMAIN Append(s, t) : i \in 1 .. Len(s) \/ i = Len(s) + 1
    BY <2>1
  <2>4. \A i \in 1 .. Len(s) : i \in DOMAIN Append(s, t)
    BY <2>1
  <2> QED BY <2>1, <2>2, <2>3, <2>4 DEF Q!In
<1>3. ASSUME NEW x, x # t PROVE Q!Once(Append(s, t), x) <=> Q!Once(s, x)
  BY <1>3 DEF Q!Once
<1>4. ASSUME ~Q!In(s, t) PROVE Q!Once(Append(s, t), t)
  BY <1>4 DEF Q!In, Q!Once
<1> QED BY <1>1, <1>2, <1>3, <1>4

(* And after a task has begun.                                             *)
LEMMA BegunTasks ==
  ASSUME NEW s \in Seq(Q!PoolTasks), s # <<>>
  PROVE  /\ Tail(s) \in Seq(Q!PoolTasks) /\ Head(s) \in Q!PoolTasks
         /\ Q!In(s, Head(s))
         /\ \A x : x # Head(s) => (Q!In(Tail(s), x) <=> Q!In(s, x))
         /\ \A x : Q!Once(s, x) => Q!Once(Tail(s), x)
         /\ Q!Once(s, Head(s)) => ~Q!In(Tail(s), Head(s))
<1>1. /\ Tail(s) \in Seq(Q!PoolTasks) /\ Head(s) \in Q!PoolTasks
      /\ Head(s) = s[1] /\ Len(s) \in Nat /\ Len(s) >= 1
      /\ DOMAIN s = 1 .. Len(s) /\ DOMAIN Tail(s) = 1 .. Len(s) - 1
      /\ \A i \in 1 .. Len(s) - 1 : Tail(s)[i] = s[i + 1]
  OBVIOUS
<1>2. Q!In(s, Head(s))
  BY <1>1 DEF Q!In
<1>3. ASSUME NEW x, x # Head(s) PROVE Q!In(Tail(s), x) <=> Q!In(s, x)
  <2>1. ASSUME NEW i \in DOMAIN s, s[i] = x
        PROVE  i - 1 \in DOMAIN Tail(s) /\ Tail(s)[i - 1] = x
    BY <1>1, <1>3, <2>1
  <2>2. ASSUME NEW i \in DOMAIN Tail(s), Tail(s)[i] = x
        PROVE  i + 1 \in DOMAIN s /\ s[i + 1] = x
    BY <1>1, <2>2
  <2> QED BY <2>1, <2>2 DEF Q!In
<1>4. ASSUME NEW x, Q!Once(s, x) PROVE Q!Once(Tail(s), x)
  <2> SUFFICES ASSUME NEW i \in DOMAIN Tail(s), NEW j \in DOMAIN Tail(s),
                      Tail(s)[i] = x, Tail(s)[j] = x
               PROVE  i = j
    BY DEF Q!Once
  <2>1. /\ i + 1 \in DOMAIN s /\ s[i + 1] = x
        /\ j + 1 \in DOMAIN s /\ s[j + 1] = x
    BY <1>1
  <2>2. i + 1 = j + 1
    BY <1>4, <2>1 DEF Q!Once
  <2> QED BY <1>1, <2>2
<1>5. ASSUME Q!Once(s, Head(s)), NEW i \in DOMAIN Tail(s),
             Tail(s)[i] = Head(s)
      PROVE  FALSE
  <2>1. i + 1 \in DOMAIN s /\ s[i + 1] = Head(s) /\ 1 \in DOMAIN s
    BY <1>1, <1>5
  <2>2. i + 1 = 1
    BY <1>1, <1>5, <2>1 DEF Q!Once
  <2> QED BY <1>1, <2>2
<1> QED BY <1>1, <1>2, <1>3, <1>4, <1>5 DEF Q!In

(* The tasks of the pool are told apart.                                   *)
LEMMA TasksDiffer ==
  ASSUME None \notin Inputs
  PROVE  /\ \A c, d \in Inputs : Q!Drain(c) = Q!Drain(d) => c = d
         /\ \A c \in Inputs : /\ Q!Drain(c) \in Q!PoolTasks
                              /\ Q!Drain(c) # Q!ReleaseAll
                              /\ Q!Drain(c) # Q!Chore
         /\ Q!ReleaseAll \in Q!PoolTasks /\ Q!Chore \in Q!PoolTasks
BY DEF Q!Drain, Q!ReleaseAll, Q!Chore, Q!PoolTasks

(* Single flight of one client, without its set of places.                 *)
Single(c) ==
  LET owed == owing = c
      isReady == Q!In(ready, Q!Drain(c))
      isDue == Q!In(due, Q!Drain(c))
      runs == drain_running = Q!Drain(c)
  IN /\ Q!Once(ready, Q!Drain(c)) /\ Q!Once(due, Q!Drain(c))
     /\ owed => ~isReady /\ ~isDue /\ ~runs
     /\ isReady => ~isDue /\ ~runs
     /\ isDue => ~runs
     /\ pending[c] <=> owed \/ isReady \/ isDue \/ runs
     /\ queue[c] # <<>> => pending[c]

Singles == \A c \in Inputs : Single(c)

LEMMA SingleFlies == Q!SingleFlight <=> Singles
<1> SUFFICES ASSUME NEW c \in Inputs
             PROVE  (/\ Q!Once(ready, Q!Drain(c)) /\ Q!Once(due, Q!Drain(c))
                     /\ \A p, q \in Q!Scheduled(c) : p = q
                     /\ pending[c] <=> Q!Scheduled(c) # {}
                     /\ queue[c] # <<>> => pending[c])
                    <=> Single(c)
  BY DEF Q!SingleFlight, Singles
<1>1. /\ "owed" \in Q!Scheduled(c) <=> owing = c
      /\ "ready" \in Q!Scheduled(c) <=> Q!In(ready, Q!Drain(c))
      /\ "due" \in Q!Scheduled(c) <=> Q!In(due, Q!Drain(c))
      /\ "running" \in Q!Scheduled(c) <=> drain_running = Q!Drain(c)
      /\ Q!Scheduled(c) \subseteq {"owed", "ready", "due", "running"}
  BY DEF Q!Scheduled
<1>2. (\A p, q \in Q!Scheduled(c) : p = q) <=>
        /\ owing = c => /\ ~Q!In(ready, Q!Drain(c)) /\ ~Q!In(due, Q!Drain(c))
                        /\ drain_running # Q!Drain(c)
        /\ Q!In(ready, Q!Drain(c)) => /\ ~Q!In(due, Q!Drain(c))
                                      /\ drain_running # Q!Drain(c)
        /\ Q!In(due, Q!Drain(c)) => drain_running # Q!Drain(c)
  BY <1>1
<1>3. Q!Scheduled(c) # {} <=> \/ owing = c \/ Q!In(ready, Q!Drain(c))
                              \/ Q!In(due, Q!Drain(c))
                              \/ drain_running = Q!Drain(c)
  BY <1>1
<1> QED BY <1>2, <1>3 DEF Single

LEMMA SingleFliesOn == Q!SingleFlight' <=> Singles'
BY SingleFlies, PTL

(* A step that leaves a client's drain and queue where they are.           *)
Beside(c) ==
  /\ owing' = c <=> owing = c
  /\ Q!In(ready', Q!Drain(c)) <=> Q!In(ready, Q!Drain(c))
  /\ Q!In(due', Q!Drain(c)) <=> Q!In(due, Q!Drain(c))
  /\ Q!Once(ready, Q!Drain(c)) => Q!Once(ready', Q!Drain(c))
  /\ Q!Once(due, Q!Drain(c)) => Q!Once(due', Q!Drain(c))
  /\ drain_running' = Q!Drain(c) <=> drain_running = Q!Drain(c)
  /\ pending'[c] <=> pending[c]
  /\ queue'[c] = queue[c]

LEMMA BesideSingle ==
  ASSUME NEW c \in Inputs, Single(c), Beside(c) PROVE Single(c)'
BY DEF Single, Beside

(* passthrough raises the flag together with the drain it owes, DrainEnds  *)
(* takes it down together with the drain, under the lock of the queue; a   *)
(* drain that yields is a timer before it stops to run.                    *)
LEMMA NextIInv ==
  ASSUME None \notin Inputs, None \notin Q!PoolTasks, MaxPerDrain \in Nat,
         Q!IInv, [Q!InputQueueNext]_Q!vars
  PROVE  Q!IInv'
<1> USE DEF Q!IInv
<1>0. /\ Q!TypeOK
      /\ \A c \in Inputs : Single(c)
      /\ \A c \in Inputs : /\ Q!Drain(c) \in Q!PoolTasks
                           /\ Q!Drain(c) # Q!ReleaseAll /\ Q!Drain(c) # Q!Chore
      /\ \A c, d \in Inputs : Q!Drain(c) = Q!Drain(d) => c = d
      /\ Q!ReleaseAll \in Q!PoolTasks /\ Q!Chore \in Q!PoolTasks
  BY SingleFlies, TasksDiffer DEF Singles
<1> SUFFICES /\ Q!TypeOK'
             /\ \A c \in Inputs : Single(c)'
             /\ queue' = [c \in Inputs |-> queue'[c]]
             /\ entry' # None => processed' < MaxPerDrain
  BY SingleFliesOn DEF Singles
<1>1. ASSUME NEW c \in Inputs, NEW m, Q!passthrough(c, m)
      PROVE  /\ Q!TypeOK'
             /\ \A d \in Inputs : Single(d)'
             /\ queue' = [d \in Inputs |-> queue'[d]]
             /\ entry' # None => processed' < MaxPerDrain
  <2>1. Q!TypeOK'
    BY <1>0, <1>1 DEF Q!passthrough, Q!TypeOK
  <2>2. \A d \in Inputs \ {c} : Beside(d)
    BY <1>0, <1>1 DEF Q!passthrough, Beside, Q!TypeOK
  <2>3. Single(c)'
    BY <1>0, <1>1 DEF Q!passthrough, Single, Q!TypeOK
  <2>4. queue' = [d \in Inputs |-> queue'[d]]
    BY <1>1 DEF Q!passthrough
  <2> QED BY <1>0, <1>1, <2>1, <2>2, <2>3, <2>4, BesideSingle
          DEF Q!passthrough
<1>2. CASE Q!PushDrain
  <2>0. owing \in Inputs /\ Q!Drain(owing) \in Q!PoolTasks
    BY <1>0, <1>2 DEF Q!PushDrain, Q!TypeOK
  <2>1. Q!TypeOK'
    BY <1>0, <1>2, <2>0 DEF Q!PushDrain, Q!TypeOK
  <2>p. /\ \A x : Q!In(ready', x) <=> Q!In(ready, x) \/ x = Q!Drain(owing)
        /\ \A x : x # Q!Drain(owing) =>
                  (Q!Once(ready', x) <=> Q!Once(ready, x))
        /\ ~Q!In(ready, Q!Drain(owing)) => Q!Once(ready', Q!Drain(owing))
    BY <1>0, <1>2, <2>0, PushedTasks DEF Q!PushDrain, Q!TypeOK
  <2>2. \A d \in Inputs \ {owing} : Beside(d)
    BY <1>0, <1>2, <2>0, <2>p DEF Q!PushDrain, Beside
  <2>3. ASSUME NEW c \in Inputs, c = owing PROVE Single(c)'
    BY <1>0, <1>2, <2>3, <2>p DEF Q!PushDrain, Single
  <2>4. queue' = [d \in Inputs |-> queue'[d]]
    BY <1>2 DEF Q!PushDrain
  <2> QED BY <1>0, <1>2, <2>1, <2>2, <2>3, <2>4, BesideSingle DEF Q!PushDrain
<1>3. ASSUME NEW c \in Inputs, Q!reset(c) \/ Q!alloc(c)
      PROVE  /\ Q!TypeOK'
             /\ \A d \in Inputs : Single(d)'
             /\ queue' = [d \in Inputs |-> queue'[d]]
             /\ entry' # None => processed' < MaxPerDrain
  <2>1. attached' \in [Inputs -> BOOLEAN]
    BY <1>0, <1>3, Zenon DEF Q!reset, Q!alloc, Q!TypeOK
  <2>3. /\ \A x : x # Q!ReleaseAll => /\ Q!In(ready', x) <=> Q!In(ready, x)
                                      /\ Q!Once(ready', x) <=> Q!Once(ready, x)
        /\ UNCHANGED <<owing, queue, pending, due, drain_running, processed,
                       entry>>
        /\ ready' \in Seq(Q!PoolTasks)
    <3>1. CASE Q!reset(c)
      BY <1>0, <3>1, PushedTasks DEF Q!reset, Q!TypeOK
    <3>2. CASE Q!alloc(c)
      BY <1>0, <3>2 DEF Q!alloc, Q!TypeOK
    <3> QED BY <1>3, <3>1, <3>2
  <2>2. Q!TypeOK'
    BY <1>0, <1>3, <2>1, <2>3 DEF Q!reset, Q!alloc, Q!TypeOK
  <2>4. ASSUME NEW d \in Inputs PROVE Beside(d)
    <3>1. Q!Drain(d) # Q!ReleaseAll
      BY <1>0
    <3> QED BY <3>1, <2>3 DEF Beside
  <2> QED BY <1>0, <2>2, <2>3, <2>4, BesideSingle
<1>4. CASE Q!AskChore \/ Q!ChoreIsDue
  <2>2. /\ \A x : x # Q!Chore => /\ Q!In(due', x) <=> Q!In(due, x)
                                 /\ Q!Once(due', x) <=> Q!Once(due, x)
        /\ UNCHANGED <<owing, queue, pending, ready, drain_running, processed,
                       entry>>
        /\ due' \in Seq(Q!PoolTasks)
    <3>1. CASE Q!ChoreIsDue
      BY <1>0, <3>1, PushedTasks DEF Q!ChoreIsDue, Q!TypeOK
    <3>2. CASE Q!AskChore
      BY <1>0, <3>2 DEF Q!AskChore, Q!TypeOK
    <3> QED BY <1>4, <3>1, <3>2
  <2>1. Q!TypeOK'
    BY <1>0, <1>4, <2>2 DEF Q!AskChore, Q!ChoreIsDue, Q!TypeOK
  <2>3. ASSUME NEW d \in Inputs PROVE Beside(d)
    <3>1. Q!Drain(d) # Q!Chore
      BY <1>0
    <3> QED BY <3>1, <2>2 DEF Beside
  <2> QED BY <1>0, <2>1, <2>2, <2>3, BesideSingle
<1>5. CASE Q!BeginReady
  <2>1. Q!TypeOK'
    BY <1>0, <1>5, BegunTasks DEF Q!BeginReady, Q!TypeOK
  <2>2. /\ drain_running = None /\ drain_running' = Head(ready)
        /\ Head(ready) \in Q!PoolTasks
        /\ Q!In(ready, Head(ready))
        /\ \A x : x # Head(ready) => (Q!In(ready', x) <=> Q!In(ready, x))
        /\ \A x : Q!Once(ready, x) => Q!Once(ready', x)
        /\ Q!Once(ready, Head(ready)) => ~Q!In(ready', Head(ready))
        /\ UNCHANGED <<owing, queue, pending, due>>
    BY <1>0, <1>5, BegunTasks DEF Q!BeginReady, Q!TypeOK
  <2>3. ASSUME NEW c \in Inputs PROVE Single(c)'
    <3>1. CASE Q!Drain(c) = Head(ready)
      BY <1>0, <2>2, <3>1 DEF Single
    <3>2. CASE Q!Drain(c) # Head(ready)
      BY <1>0, <2>2, <3>2 DEF Single
    <3> QED BY <3>1, <3>2
  <2> QED BY <1>5, <2>1, <2>2, <2>3 DEF Q!BeginReady
<1>6. CASE Q!BeginDue
  <2>1. Q!TypeOK'
    BY <1>0, <1>6, BegunTasks DEF Q!BeginDue, Q!TypeOK
  <2>2. /\ drain_running = None /\ drain_running' = Head(due)
        /\ Head(due) \in Q!PoolTasks
        /\ Q!In(due, Head(due))
        /\ \A x : x # Head(due) => (Q!In(due', x) <=> Q!In(due, x))
        /\ \A x : Q!Once(due, x) => Q!Once(due', x)
        /\ Q!Once(due, Head(due)) => ~Q!In(due', Head(due))
        /\ UNCHANGED <<owing, queue, pending, ready>>
    BY <1>0, <1>6, BegunTasks DEF Q!BeginDue, Q!TypeOK
  <2>3. ASSUME NEW c \in Inputs PROVE Single(c)'
    <3>1. CASE Q!Drain(c) = Head(due)
      BY <1>0, <2>2, <3>1 DEF Single
    <3>2. CASE Q!Drain(c) # Head(due)
      BY <1>0, <2>2, <3>2 DEF Single
    <3> QED BY <3>1, <3>2
  <2> QED BY <1>6, <2>1, <2>2, <2>3 DEF Q!BeginDue
<1>7. CASE Q!RunOther
  <2>1. Q!TypeOK'
    BY <1>0, <1>7 DEF Q!RunOther, Q!TypeOK
  <2>2. \A d \in Inputs : Beside(d)
    BY <1>0, <1>7 DEF Q!RunOther, Beside
  <2>3. queue' = queue
    BY <1>7 DEF Q!RunOther
  <2> QED BY <1>0, <1>7, <2>1, <2>2, <2>3, BesideSingle DEF Q!RunOther
<1>8. ASSUME NEW c \in Inputs, Q!DrainSteps(c)
      PROVE  /\ Q!TypeOK'
             /\ \A d \in Inputs : Single(d)'
             /\ queue' = [d \in Inputs |-> queue'[d]]
             /\ entry' # None => processed' < MaxPerDrain
  <2>0. /\ drain_running = Q!Drain(c)
        /\ \A d \in Inputs \ {c} : drain_running # Q!Drain(d)
    BY <1>0, <1>8 DEF Q!DrainSteps, Q!DrainTake, Q!DrainHandle, Q!DrainEnds,
                      Q!DrainYields
  <2>1. CASE Q!DrainTake(c) \/ Q!DrainHandle(c)
    <3>1. Q!TypeOK'
      BY <1>0, <2>1 DEF Q!DrainTake, Q!DrainHandle, Q!TypeOK
    <3>2. /\ UNCHANGED <<owing, ready, due, drain_running, pending>>
          /\ queue' = [d \in Inputs |-> queue'[d]]
      BY <2>1 DEF Q!DrainTake, Q!DrainHandle, Q!controlVars, Q!poolVars
    <3>3. \A d \in Inputs \ {c} : queue'[d] = queue[d]
      BY <2>1 DEF Q!DrainTake, Q!DrainHandle
    <3>4. \A d \in Inputs \ {c} : Beside(d)
      BY <3>2, <3>3 DEF Beside
    <3>5. Single(c)'
      BY <1>0, <2>0, <3>2 DEF Single
    <3> QED BY <1>0, <2>1, <3>1, <3>2, <3>4, <3>5, BesideSingle
            DEF Q!DrainTake, Q!DrainHandle
  <2>2. CASE Q!DrainEnds(c)
    <3>0. pending' \in [Inputs -> BOOLEAN]
      BY <1>0, <2>2, Zenon DEF Q!DrainEnds, Q!TypeOK
    <3>1. Q!TypeOK'
      BY <1>0, <2>2, <3>0 DEF Q!DrainEnds, Q!TypeOK
    <3>2. \A d \in Inputs \ {c} : Beside(d)
      BY <1>0, <2>0, <2>2 DEF Q!DrainEnds, Beside, Q!TypeOK
    <3>3. Single(c)'
      BY <1>0, <2>0, <2>2 DEF Q!DrainEnds, Single, Q!TypeOK
    <3>4. queue' = queue
      BY <2>2 DEF Q!DrainEnds
    <3> QED BY <1>0, <2>2, <3>1, <3>2, <3>3, <3>4, BesideSingle DEF Q!DrainEnds
  <2>3. CASE Q!DrainYields(c)
    <3>1. Q!TypeOK'
      BY <1>0, <2>3 DEF Q!DrainYields, Q!TypeOK
    <3>2. /\ \A x : Q!In(due', x) <=> Q!In(due, x) \/ x = Q!Drain(c)
          /\ \A x : x # Q!Drain(c) => (Q!Once(due', x) <=> Q!Once(due, x))
          /\ ~Q!In(due, Q!Drain(c)) => Q!Once(due', Q!Drain(c))
      BY <1>0, <2>3, PushedTasks DEF Q!DrainYields, Q!TypeOK
    <3>3. \A d \in Inputs \ {c} : Beside(d)
      BY <1>0, <2>0, <2>3, <3>2 DEF Q!DrainYields, Beside
    <3>4. Single(c)'
      BY <1>0, <2>0, <2>3, <3>2 DEF Q!DrainYields, Single
    <3>5. queue' = queue
      BY <2>3 DEF Q!DrainYields
    <3> QED BY <1>0, <2>3, <3>1, <3>3, <3>4, <3>5, BesideSingle
            DEF Q!DrainYields
  <2> QED BY <1>8, <2>1, <2>2, <2>3 DEF Q!DrainSteps
<1>9. CASE UNCHANGED Q!vars
  BY <1>0, <1>9 DEF Q!vars, Q!TypeOK, Single
<1> QED BY <1>1, <1>2, <1>3, <1>4, <1>5, <1>6, <1>7, <1>8, <1>9
        DEF Q!InputQueueNext, Q!Worker

LEMMA InitIInv ==
  ASSUME None \notin Inputs, None \notin Q!PoolTasks, MaxPerDrain \in Nat,
         Q!Init
  PROVE  Q!IInv
<1>1. Q!TypeOK
  BY DEF Q!Init, Q!TypeOK
<1>2. \A x : ~Q!In(<<>>, x) /\ Q!Once(<<>>, x)
  BY DEF Q!In, Q!Once
<1>3. \A c \in Inputs : None # Q!Drain(c)
  BY TasksDiffer
<1>4. \A c \in Inputs : Single(c)
  BY <1>2, <1>3 DEF Q!Init, Single
<1> QED BY <1>1, <1>4, SingleFlies DEF Q!Init, Q!IInv, Singles

(* input_drain_pending is up exactly while one drain of that input is owed *)
(* or with the pool, and every queued message has one to come (input.cpp,  *)
(* passthrough and its drain).                                             *)
THEOREM OneDrain ==
  ASSUME None \notin Inputs, None \notin Q!PoolTasks, MaxPerDrain \in Nat
  PROVE  Q!Spec => []SingleFlight
<1>1. Q!Init => Q!IInv
  BY InitIInv
<1>2. Q!IInv /\ [Q!InputQueueNext]_Q!vars => Q!IInv'
  BY NextIInv
<1>3. Q!IInv => SingleFlight
  BY DEF Q!IInv, SingleFlight
<1> QED BY <1>1, <1>2, <1>3, PTL DEF Q!Spec

-----------------------------------------------------------------------------
(* InputDevices: the timers of the pool after a step.  Some are kept, as   *)
(* they were or outdated, and one at an address that none of those has may *)
(* be added.                                                               *)
Home(c, p, t) ==
  t.task \in D!HomeTasks /\ t.input = c /\ t.of = p
Aims(t) ==
  /\ t.task \in D!HomeTasks => t.input \in Inputs /\ t.of \in Pads
  /\ t.task = "left up" => t.input \in Inputs
  /\ t.task = "repeat" => t.of \in Keys
Origin(u, t) ==
  u.id = t.id /\ u.task = t.task /\ u.input = t.input /\ u.of = t.of

LEMMA TimerIsRecord ==
  ASSUME NEW i \in Ids, NEW c \in Inputs \cup {None},
         NEW of \in Pads \cup Keys \cup {None},
         NEW task \in {"left up", "repeat", "press", "release"}
  PROVE  D!Timer(i, task, c, of) \in D!TimerRecords
BY DEF D!Timer, D!TimerRecords, D!HomeTasks

(* What a step does to the timers: of those it keeps, each is one that was *)
(* there, and what it adds is where none of them is.                       *)
Keeps(kept) ==
  /\ \A u \in kept : \E t \in device_timers : Origin(u, t)
  /\ \A u, v \in kept : u.id = v.id => u = v
Adds(kept, added) ==
  /\ \A u \in added : Aims(u) /\ \A v \in kept : u.id # v.id
  /\ \A u, v \in added : u = v
Retimes(kept, added) ==
  /\ kept \subseteq D!TimerRecords /\ added \subseteq D!TimerRecords
  /\ device_timers' = kept \cup added
  /\ Keeps(kept) /\ Adds(kept, added)
(* The HOME timers that it takes from others, by an id that was not noted  *)
(* for them, it takes with a note of whose they were.                      *)
Spares(kept) ==
  \A t \in device_timers :
    t.task \in D!HomeTasks /\ t.valid
      => t \in kept \/ <<t.input, t.of>> \in robbed'
SparesOthers(c, p, kept) ==
  \A t \in device_timers :
    t.task \in D!HomeTasks /\ t.valid /\ ~Home(c, p, t)
      => t \in kept \/ <<t.input, t.of>> \in robbed'

LEMMA TimersAim ==
  ASSUME D!TimersNameTheirs, NEW kept, NEW added, Retimes(kept, added)
  PROVE  D!TimersNameTheirs'
<1>1. \A u \in kept : Aims(u)
  <2> SUFFICES ASSUME NEW u \in kept PROVE Aims(u)
    OBVIOUS
  <2>1. PICK t \in device_timers : Origin(u, t)
    BY DEF Retimes, Keeps
  <2>2. Aims(t)
    BY DEF Aims, D!TimersNameTheirs
  <2>3. u.task = t.task /\ u.input = t.input /\ u.of = t.of
    BY <2>1 DEF Origin
  <2> QED BY <2>2, <2>3, Zenon DEF Aims
<1>2. \A u \in added : Aims(u)
  BY DEF Retimes, Adds
<1>3. \A u \in device_timers' : Aims(u)
  BY <1>1, <1>2 DEF Retimes
<1> QED BY <1>3 DEF D!TimersNameTheirs, Aims

LEMMA TimersInv ==
  ASSUME D!IInv, NEW kept, NEW added, Retimes(kept, added)
  PROVE  /\ device_timers' \subseteq D!TimerRecords
         /\ D!TimersNameTheirs' /\ D!OneIdEach'
<1>1. D!TimersNameTheirs
  BY DEF D!IInv
<1>2. device_timers' \subseteq D!TimerRecords
  BY DEF Retimes
<1>3. D!TimersNameTheirs'
  BY <1>1, TimersAim
<1>4. /\ \A u, v \in kept : u.id = v.id => u = v
      /\ \A u \in added : \A v \in kept : u.id # v.id
      /\ \A u, v \in added : u = v
      /\ device_timers' = kept \cup added
  BY DEF Retimes, Keeps, Adds
<1>5. D!OneIdEach'
  BY <1>4 DEF D!OneIdEach
<1> QED BY <1>2, <1>3, <1>5

(* Timers that stay as they were, or are outdated with their controller's. *)
LEMMA StayKept ==
  ASSUME D!OneIdEach, NEW ts, ts \subseteq device_timers
  PROVE  Keeps(ts)
BY DEF Keeps, Origin, D!OneIdEach

LEMMA OutdatedOrigin ==
  ASSUME device_timers \subseteq D!TimerRecords, NEW ts,
         ts \subseteq device_timers, NEW c, NEW p,
         NEW u \in D!Outdated(ts, c, p)
  PROVE  u \in D!TimerRecords
         /\ \E t \in ts : Origin(u, t) /\ (Home(c, p, t) \/ u = t)
<1>1. PICK t \in ts :
        u = [t EXCEPT !.valid = @ /\ ~(/\ t.task \in D!HomeTasks
                                       /\ t.input = c /\ t.of = p)]
  BY DEF D!Outdated
<1> DEFINE mine == t.task \in D!HomeTasks /\ t.input = c /\ t.of = p
           of == t.valid /\ ~mine
<1>2. t \in D!TimerRecords
  BY <1>1
<1>3. u = [t EXCEPT !.valid = of]
  BY <1>1
<1>4. of \in BOOLEAN
  OBVIOUS
<1>5. ~mine => of = t.valid
  BY <1>2, Zenon DEF D!TimerRecords
<1>6. mine => Home(c, p, t)
  BY DEF Home
<1> HIDE DEF of, mine
<1>7. u \in D!TimerRecords /\ Origin(u, t)
  BY <1>2, <1>3, <1>4 DEF D!TimerRecords, Origin
<1>8. of = t.valid => u = t
  BY <1>2, <1>3 DEF D!TimerRecords
<1> QED BY <1>1, <1>5, <1>6, <1>7, <1>8

LEMMA OutdatedKept ==
  ASSUME device_timers \subseteq D!TimerRecords, D!OneIdEach, NEW ts,
         ts \subseteq device_timers, NEW c, NEW p
  PROVE  /\ D!Outdated(ts, c, p) \subseteq D!TimerRecords
         /\ Keeps(D!Outdated(ts, c, p))
         /\ \A t \in ts : ~Home(c, p, t) => t \in D!Outdated(ts, c, p)
<1>1. ASSUME NEW u \in D!Outdated(ts, c, p)
      PROVE  u \in D!TimerRecords /\ \E t \in device_timers : Origin(u, t)
  BY OutdatedOrigin
<1>2. ASSUME NEW u \in D!Outdated(ts, c, p), NEW v \in D!Outdated(ts, c, p),
             u.id = v.id
      PROVE  u = v
  <2>1. PICK t \in ts :
          u = [t EXCEPT !.valid = @ /\ ~(/\ t.task \in D!HomeTasks
                                         /\ t.input = c /\ t.of = p)]
    BY DEF D!Outdated
  <2>2. PICK s \in ts :
          v = [s EXCEPT !.valid = @ /\ ~(/\ s.task \in D!HomeTasks
                                         /\ s.input = c /\ s.of = p)]
    BY DEF D!Outdated
  <2>3. t.id = u.id /\ s.id = v.id
    BY <2>1, <2>2 DEF D!TimerRecords
  <2>4. t = s
    BY <1>2, <2>3 DEF D!OneIdEach
  <2> QED BY <2>1, <2>2, <2>4, Zenon
<1>3. ASSUME NEW t \in ts, ~Home(c, p, t) PROVE t \in D!Outdated(ts, c, p)
  <2>1. ~(/\ t.task \in D!HomeTasks /\ t.input = c /\ t.of = p)
    BY <1>3 DEF Home
  <2>2. t \in D!TimerRecords /\ t.valid \in BOOLEAN
    BY DEF D!TimerRecords
  <2>3. (t.valid /\ ~(/\ t.task \in D!HomeTasks
                      /\ t.input = c /\ t.of = p)) = t.valid
    BY <2>1, <2>2, Zenon
  <2>4. t = [t EXCEPT !.valid = t.valid]
    BY <2>2 DEF D!TimerRecords
  <2>5. t = [t EXCEPT !.valid = @ /\ ~(/\ t.task \in D!HomeTasks
                                       /\ t.input = c /\ t.of = p)]
    BY <2>3, <2>4, Zenon
  <2> QED BY <2>5, Zenon DEF D!Outdated
<1> QED BY <1>1, <1>2, <1>3 DEF Keeps

LEMMA AddsNone ==
  ASSUME NEW kept
  PROVE  Adds(kept, {})
BY DEF Adds

LEMMA AddsOne ==
  ASSUME NEW i \in Ids, NEW kept, \A u \in kept : u.id # i,
         NEW c \in Inputs \cup {None}, NEW of \in Pads \cup Keys \cup {None},
         NEW task \in {"left up", "repeat", "press", "release"},
         task \in {"press", "release"} => c \in Inputs /\ of \in Pads,
         task = "left up" => c \in Inputs,
         task = "repeat" => of \in Keys
  PROVE  /\ {D!Timer(i, task, c, of)} \subseteq D!TimerRecords
         /\ Adds(kept, {D!Timer(i, task, c, of)})
<1> DEFINE t == D!Timer(i, task, c, of)
<1>1. t \in D!TimerRecords
  BY TimerIsRecord
<1>2. t.id = i /\ t.task = task /\ t.input = c /\ t.of = of
  BY DEF D!Timer
<1> HIDE DEF t
<1>3. Aims(t)
  BY <1>2 DEF Aims, D!HomeTasks
<1> QED BY <1>1, <1>2, <1>3 DEF Adds, t

(* Where a new timer is, and what is said of a HOME timer that is          *)
(* cancelled by an id noted for something else.                            *)
LEMMA UnusedIds ==
  ASSUME NEW ts, NEW i \in D!Unused(ts)
  PROVE  i \in Ids /\ \A t \in ts : t.id # i
BY DEF D!Unused

LEMMA OutdatedIds ==
  ASSUME device_timers \subseteq D!TimerRecords, NEW ts,
         ts \subseteq device_timers, NEW c, NEW p,
         NEW i, \A t \in device_timers : t.id # i
  PROVE  \A u \in D!Outdated(ts, c, p) : u.id # i
<1> SUFFICES ASSUME NEW u \in D!Outdated(ts, c, p) PROVE u.id # i
  OBVIOUS
<1>1. PICK t \in ts : Origin(u, t)
  BY OutdatedOrigin
<1> QED BY <1>1 DEF Origin

LEMMA RobsThose ==
  ASSUME D!TimersNameTheirs, NEW i
  PROVE  /\ D!Robs(i) \subseteq Inputs \X Pads
         /\ \A t \in device_timers :
              t.task \in D!HomeTasks /\ t.valid
                => t \in D!Without(device_timers, i)
                   \/ <<t.input, t.of>> \in D!Robs(i)
<1>1. D!Robs(i) \subseteq Inputs \X Pads
  <2> SUFFICES ASSUME NEW r \in D!Robs(i) PROVE r \in Inputs \X Pads
    OBVIOUS
  <2>1. PICK t \in device_timers :
          t.task \in D!HomeTasks /\ r = <<t.input, t.of>>
    BY DEF D!Robs
  <2> QED BY <2>1 DEF D!TimersNameTheirs
<1>2. ASSUME NEW t \in device_timers, t.task \in D!HomeTasks, t.valid,
             t \notin D!Without(device_timers, i)
      PROVE  <<t.input, t.of>> \in D!Robs(i)
  <2>1. t.id = i
    BY <1>2 DEF D!Without
  <2> QED BY <1>2, <2>1 DEF D!Robs
<1> QED BY <1>1, <1>2

(* The other parts of the invariant, where nothing of theirs is touched.   *)
LEMMA RepeatKept ==
  ASSUME D!OneRepeat, NEW kept, NEW added, Retimes(kept, added),
         repeat' = repeat, \A v \in added : v.task # "repeat"
  PROVE  D!OneRepeat'
<1>1. ASSUME NEW u \in kept, u.task = "repeat" PROVE u.id = repeat
  <2>1. PICK t \in device_timers : Origin(u, t)
    BY DEF Retimes, Keeps
  <2> QED BY <1>1, <2>1 DEF Origin, D!OneRepeat
<1> QED BY <1>1 DEF D!OneRepeat, Retimes

LEMMA SlotsKept ==
  ASSUME D!SlotsAreOwned,
         \A c \in Inputs, p \in Pads : pad'[c][p].id = pad[c][p].id,
         UNCHANGED <<gamepadMask, freeing>>
  PROVE  D!SlotsAreOwned'
BY DEF D!SlotsAreOwned

LEMMA HomeKept ==
  ASSUME D!HomeHasTimer,
         \A c \in Inputs, p \in Pads :
           pad'[c][p].home /\ <<c, p>> \notin robbed' =>
             /\ pad[c][p].home /\ pad'[c][p].timeout = pad[c][p].timeout
             /\ <<c, p>> \notin robbed
             /\ \A t \in device_timers :
                  Home(c, p, t) /\ t.valid => t \in device_timers'
  PROVE  D!HomeHasTimer'
<1>1. ASSUME NEW c \in Inputs, NEW p \in Pads, pad'[c][p].home,
             <<c, p>> \notin robbed'
      PROVE  \E t \in device_timers' :
               /\ t.task \in D!HomeTasks /\ t.valid
               /\ t.input = c /\ t.of = p /\ t.id = pad'[c][p].timeout
  <2>1. /\ pad[c][p].home /\ pad'[c][p].timeout = pad[c][p].timeout
        /\ <<c, p>> \notin robbed
        /\ \A t \in device_timers :
             Home(c, p, t) /\ t.valid => t \in device_timers'
    BY <1>1
  <2>2. PICK t \in device_timers :
          /\ t.task \in D!HomeTasks /\ t.valid
          /\ t.input = c /\ t.of = p /\ t.id = pad[c][p].timeout
    BY <2>1 DEF D!HomeHasTimer
  <2>3. Home(c, p, t)
    BY <2>2 DEF Home
  <2> QED BY <2>1, <2>2, <2>3, Zenon
<1> QED BY <1>1 DEF D!HomeHasTimer

(* A step that does not touch the controllers.                             *)
LEMMA BesidePads ==
  ASSUME D!IInv, NEW kept, NEW added, Retimes(kept, added),
         UNCHANGED <<pad, gamepadMask, freeing>>,
         Spares(kept), robbed \subseteq robbed',
         D!TypeOK', D!OneRepeat', D!HeldStaysDown'
  PROVE  D!IInv'
<1>1. D!TimersNameTheirs' /\ D!OneIdEach'
  BY TimersInv
<1>2. D!HomeNeedsSlot'
  BY DEF D!IInv, D!HomeNeedsSlot
<1>3. D!SlotsAreOwned'
  BY SlotsKept DEF D!IInv, D!LateTasksFit
<1>4. D!HomeHasTimer'
  <2>1. D!HomeHasTimer
    BY DEF D!IInv, D!LateTasksFit, D!LateTimersFit
  <2>2. ASSUME NEW c \in Inputs, NEW p \in Pads, <<c, p>> \notin robbed',
               NEW t \in device_timers, Home(c, p, t), t.valid
        PROVE  t \in device_timers'
    BY <2>2 DEF Home, Spares, Retimes
  <2> QED BY <2>1, <2>2, HomeKept
<1> QED
  BY <1>1, <1>2, <1>3, <1>4 DEF D!IInv, D!LateTasksFit, D!LateTimersFit

(* Most handlers leave the timers alone.                                   *)
LEMMA SameTimers ==
  ASSUME D!IInv, device_timers' = device_timers
  PROVE  /\ Retimes(device_timers, {}) /\ Spares(device_timers)
         /\ repeat' = repeat => D!OneRepeat'
<1>1. device_timers \subseteq D!TimerRecords /\ D!OneIdEach /\ D!OneRepeat
  BY DEF D!IInv, D!TypeOK, D!LateTasksFit, D!LateTimersFit
<1>2. Retimes(device_timers, {})
  BY <1>1, StayKept, AddsNone DEF Retimes
<1>3. repeat' = repeat => D!OneRepeat'
  BY <1>1 DEF D!OneRepeat
<1> QED BY <1>2, <1>3 DEF Spares

LEMMA QuietInv ==
  ASSUME D!IInv,
         UNCHANGED <<device_timers, pad, gamepadMask, robbed, freeing,
                     repeat>>,
         D!TypeOK', D!HeldStaysDown'
  PROVE  D!IInv'
<1>1. /\ Retimes(device_timers, {}) /\ Spares(device_timers)
      /\ D!OneRepeat'
  BY SameTimers
<1> QED BY <1>1, BesidePads

USE DEF D!sessionVars, D!mouseVars, D!keyVars, D!padVars, D!pushed

LEMMA MouseModeInv ==
  ASSUME D!IInv, NEW c \in Inputs, D!passthrough_rel(c) \/ D!passthrough_abs(c)
  PROVE  D!IInv'
<1>1. /\ \E w \in {None, Disabled} : delay' = [delay EXCEPT ![c] = w]
      /\ UNCHANGED <<enabled, session, seen, mouse_press, down, key_press,
                     repeat, pad, gamepadMask, robbed, device_timers, releasing,
                     freeing>>
  BY DEF D!passthrough_rel, D!passthrough_abs
<1>2. D!TypeOK /\ D!HeldStaysDown
  BY DEF D!IInv, D!LateTasksFit, D!LateTimersFit
<1>3. delay' \in [Inputs -> Ids \cup {None, Disabled}]
  BY <1>1, <1>2 DEF D!TypeOK
<1>4. D!TypeOK'
  BY <1>1, <1>2, <1>3 DEF D!TypeOK
<1>5. D!HeldStaysDown'
  BY <1>1, <1>2 DEF D!HeldStaysDown
<1> QED BY <1>1, <1>4, <1>5, QuietInv

LEMMA PassButtonInv ==
  ASSUME D!IInv, NEW c \in Inputs, NEW b \in D!Buttons, NEW r \in BOOLEAN,
         D!PassButton(c, b, r)
  PROVE  D!IInv'
<1> DEFINE on == ~r
<1>1. /\ mouse_press' = [mouse_press EXCEPT ![b] = on]
      /\ down' = [down EXCEPT ![b] = on]
      /\ UNCHANGED <<enabled, session, seen, delay, key_press,
                     repeat, pad, gamepadMask, robbed, device_timers, releasing,
                     freeing>>
  BY DEF D!PassButton
<1>2. D!TypeOK /\ D!HeldStaysDown
  BY DEF D!IInv, D!LateTasksFit, D!LateTimersFit
<1>3. on \in BOOLEAN
  OBVIOUS
<1> HIDE DEF on
<1>4. /\ mouse_press' \in [D!Buttons -> BOOLEAN]
      /\ down' \in [D!Buttons -> BOOLEAN]
  BY <1>1, <1>2, <1>3 DEF D!TypeOK
<1>5. D!TypeOK'
  BY <1>1, <1>2, <1>4 DEF D!TypeOK
<1>6. D!HeldStaysDown'
  <2>1. /\ mouse_press \in [D!Buttons -> BOOLEAN]
        /\ down \in [D!Buttons -> BOOLEAN]
    BY <1>2 DEF D!TypeOK
  <2>2. ASSUME NEW d \in D!Buttons, mouse_press'[d] PROVE down'[d]
    <3>1. CASE d = b
      BY <1>1, <2>1, <2>2, <3>1
    <3>2. CASE d # b
      BY <1>1, <1>2, <2>1, <2>2, <3>2 DEF D!HeldStaysDown
    <3> QED BY <3>1, <3>2
  <2> QED BY <2>2 DEF D!HeldStaysDown
<1> QED BY <1>1, <1>5, <1>6, QuietInv

LEMMA KeyUpInv ==
  ASSUME D!IInv, NEW c \in Inputs, NEW k \in Keys, D!KeyUp(c, k)
  PROVE  D!IInv'
<1>1. /\ key_press' = [key_press EXCEPT ![k] = FALSE]
      /\ UNCHANGED <<enabled, session, seen, mouse_press, down, delay, repeat,
                     pad, gamepadMask, robbed, device_timers, releasing, freeing>>
  BY DEF D!KeyUp
<1>2. D!TypeOK /\ D!HeldStaysDown
  BY DEF D!IInv, D!LateTasksFit, D!LateTimersFit
<1>3. key_press' \in [Keys -> BOOLEAN]
  BY <1>1, <1>2 DEF D!TypeOK
<1>4. D!TypeOK'
  BY <1>1, <1>2, <1>3 DEF D!TypeOK
<1>5. D!HeldStaysDown'
  BY <1>1, <1>2 DEF D!HeldStaysDown
<1> QED BY <1>1, <1>4, <1>5, QuietInv

LEMMA ReleaseAllInv ==
  ASSUME D!IInv, D!ReleaseAll
  PROVE  D!IInv'
<1>1. /\ down' = [b \in D!Buttons |-> down[b] /\ ~mouse_press[b]]
      /\ mouse_press' = [b \in D!Buttons |-> FALSE]
      /\ key_press' = [k \in Keys |-> FALSE]
      /\ releasing' = FALSE
      /\ UNCHANGED <<enabled, session, seen, delay, repeat,
                     pad, gamepadMask, robbed, device_timers, freeing>>
  BY DEF D!ReleaseAll
<1>2. D!TypeOK
  BY DEF D!IInv
<1>3. \A b \in D!Buttons : (down[b] /\ ~mouse_press[b]) \in BOOLEAN
  OBVIOUS
<1>4. down' \in [D!Buttons -> BOOLEAN]
  BY <1>1, <1>3, Zenon
<1>5. /\ mouse_press' \in [D!Buttons -> BOOLEAN]
      /\ key_press' \in [Keys -> BOOLEAN]
  BY <1>1
<1>6. D!TypeOK'
  BY <1>1, <1>2, <1>4, <1>5 DEF D!TypeOK
<1>7. D!HeldStaysDown'
  BY <1>1 DEF D!HeldStaysDown
<1> QED BY <1>1, <1>6, <1>7, QuietInv

LEMMA SessionInv ==
  ASSUME D!IInv, NEW c \in Inputs,
         D!ResetReads(c) \/ D!Drained(c) \/ D!alloc(c)
  PROVE  D!IInv'
<1>1. /\ \E s \in {"keys", "drained", "live"} :
           session' = [session EXCEPT ![c] = s]
      /\ seen' \in {seen, [seen EXCEPT ![c] = repeat]}
      /\ UNCHANGED <<enabled, mouse_press, down, delay, key_press, repeat,
                     pad, gamepadMask, robbed, device_timers, releasing, freeing>>
  BY DEF D!ResetReads, D!Drained, D!alloc
<1>2. D!TypeOK /\ D!HeldStaysDown
  BY DEF D!IInv, D!LateTasksFit, D!LateTimersFit
<1>3. session' \in
        [Inputs -> {"live", "keys", "mouse", "reset", "drained", "gone"}]
  BY <1>1, <1>2 DEF D!TypeOK
<1>4. seen' \in [Inputs -> Ids \cup {None, Disabled}]
  BY <1>1, <1>2 DEF D!TypeOK
<1>5. D!TypeOK'
  BY <1>1, <1>2, <1>3, <1>4 DEF D!TypeOK
<1>6. D!HeldStaysDown'
  BY <1>1, <1>2 DEF D!HeldStaysDown
<1> QED BY <1>1, <1>5, <1>6, QuietInv

LEMMA ReleaseLaterInv ==
  ASSUME D!IInv, NEW c \in Inputs, D!ReleaseLater(c)
  PROVE  D!IInv'
<1>1. /\ mouse_press' = [mouse_press EXCEPT !["left"] = FALSE]
      /\ UNCHANGED <<enabled, session, seen, down, key_press, repeat, pad,
                     gamepadMask, robbed, releasing, freeing>>
  BY DEF D!ReleaseLater
<1>2. PICK i \in D!Unused(device_timers) :
        /\ device_timers' =
             device_timers \cup {D!Timer(i, "left up", c, None)}
        /\ delay' = [delay EXCEPT ![c] = i]
  BY DEF D!ReleaseLater
<1> DEFINE t == D!Timer(i, "left up", c, None)
<1>3. D!TypeOK /\ D!HeldStaysDown /\ D!OneIdEach /\ D!OneRepeat
  BY DEF D!IInv, D!LateTasksFit, D!LateTimersFit
<1>4. i \in Ids /\ \A u \in device_timers : u.id # i
  BY UnusedIds
<1>5. {t} \subseteq D!TimerRecords /\ Adds(device_timers, {t})
  BY <1>4, AddsOne
<1>6. t.task = "left up" /\ t.id = i
  BY DEF D!Timer
<1> HIDE DEF t
<1>7. Retimes(device_timers, {t})
  BY <1>2, <1>3, <1>5, StayKept DEF Retimes, D!TypeOK, t
<1>8. delay' \in [Inputs -> Ids \cup {None, Disabled}]
  BY <1>2, <1>3, <1>4 DEF D!TypeOK
<1>9. mouse_press' \in [D!Buttons -> BOOLEAN]
  BY <1>1, <1>3 DEF D!TypeOK
<1>10. device_timers' \subseteq D!TimerRecords
  BY <1>7 DEF Retimes
<1>11. D!TypeOK'
  BY <1>1, <1>3, <1>8, <1>9, <1>10 DEF D!TypeOK
<1>12. D!HeldStaysDown'
  BY <1>1, <1>3 DEF D!HeldStaysDown, D!TypeOK
<1>13. D!OneRepeat'
  BY <1>1, <1>3, <1>6, <1>7, RepeatKept
<1> QED
  BY <1>1, <1>7, <1>11, <1>12, <1>13, BesidePads DEF Spares

(* What is left of the timers when one has run, or is cancelled.           *)
LEMMA FewerTimers ==
  ASSUME D!IInv, device_timers' \subseteq device_timers
  PROVE  /\ Retimes(device_timers', {})
         /\ repeat' = repeat => D!OneRepeat'
         /\ device_timers' \subseteq D!TimerRecords
<1>1. device_timers \subseteq D!TimerRecords /\ D!OneIdEach /\ D!OneRepeat
  BY DEF D!IInv, D!TypeOK, D!LateTasksFit, D!LateTimersFit
<1>2. device_timers' \subseteq D!TimerRecords
  BY <1>1
<1>3. Keeps(device_timers')
  BY <1>1 DEF Keeps, Origin, D!OneIdEach
<1>4. Retimes(device_timers', {})
  BY <1>2, <1>3, AddsNone DEF Retimes
<1>5. repeat' = repeat => D!OneRepeat'
  BY <1>1 DEF D!OneRepeat
<1> QED BY <1>2, <1>4, <1>5

LEMMA LeftUpInv ==
  ASSUME D!IInv, NEW t \in device_timers, D!LeftUp(t)
  PROVE  D!IInv'
<1>1. /\ t.task = "left up" /\ device_timers' = device_timers \ {t}
      /\ \/ UNCHANGED <<down, delay>>
         \/ /\ ~mouse_press["left"]
            /\ down' = [down EXCEPT !["left"] = FALSE]
            /\ delay' = [delay EXCEPT ![t.input] = None]
      /\ UNCHANGED <<enabled, session, seen, mouse_press, key_press, repeat,
                     pad, gamepadMask, robbed, releasing, freeing>>
  BY DEF D!LeftUp
<1>2. D!TypeOK /\ D!HeldStaysDown
  BY DEF D!IInv, D!LateTasksFit, D!LateTimersFit
<1>3. /\ Retimes(device_timers', {}) /\ D!OneRepeat'
      /\ device_timers' \subseteq D!TimerRecords
  BY <1>1, FewerTimers
<1>4. delay' \in [Inputs -> Ids \cup {None, Disabled}]
  BY <1>1, <1>2 DEF D!TypeOK
<1>5. down' \in [D!Buttons -> BOOLEAN]
  BY <1>1, <1>2 DEF D!TypeOK
<1>6. D!TypeOK'
  BY <1>1, <1>2, <1>3, <1>4, <1>5 DEF D!TypeOK
<1>7. D!HeldStaysDown'
  <2>1. down \in [D!Buttons -> BOOLEAN]
    BY <1>2 DEF D!TypeOK
  <2>2. ASSUME NEW b \in D!Buttons, mouse_press[b] PROVE down'[b]
    BY <1>1, <1>2, <2>1, <2>2 DEF D!HeldStaysDown
  <2> QED BY <1>1, <2>2 DEF D!HeldStaysDown
<1>8. Spares(device_timers')
  BY <1>1 DEF D!HomeTasks, Spares
<1> QED BY <1>1, <1>3, <1>6, <1>7, <1>8, BesidePads

LEMMA CancelInv ==
  ASSUME D!IInv, NEW c \in Inputs,
         D!ResetCancelsRepeat(c) \/ D!ResetCancelsRelease(c)
  PROVE  D!IInv'
<1>1. /\ \E s \in {"mouse", "reset"} : session' = [session EXCEPT ![c] = s]
      /\ \E w \in {delay[c], None} : seen' = [seen EXCEPT ![c] = w]
      /\ releasing' \in {releasing, TRUE}
      /\ device_timers' = D!Without(device_timers, seen[c])
      /\ robbed' = robbed \cup D!Robs(seen[c])
      /\ UNCHANGED <<enabled, mouse_press, down, delay, key_press, repeat,
                     pad, gamepadMask, freeing>>
  BY DEF D!ResetCancelsRepeat, D!ResetCancelsRelease
<1>2. D!TypeOK /\ D!HeldStaysDown /\ D!TimersNameTheirs
  BY DEF D!IInv, D!LateTasksFit, D!LateTimersFit
<1>3. device_timers' \subseteq device_timers
  BY <1>1 DEF D!Without
<1>4. /\ Retimes(device_timers', {}) /\ D!OneRepeat'
      /\ device_timers' \subseteq D!TimerRecords
  BY <1>1, <1>3, FewerTimers
<1>5. session' \in
        [Inputs -> {"live", "keys", "mouse", "reset", "drained", "gone"}]
  BY <1>1, <1>2 DEF D!TypeOK
<1>6. seen' \in [Inputs -> Ids \cup {None, Disabled}]
  BY <1>1, <1>2 DEF D!TypeOK
<1>7. releasing' \in BOOLEAN
  BY <1>1, <1>2 DEF D!TypeOK
<1>8. Spares(device_timers') /\ robbed' \subseteq Inputs \X Pads
  <2>1. /\ D!Robs(seen[c]) \subseteq Inputs \X Pads
        /\ \A t \in device_timers :
             t.task \in D!HomeTasks /\ t.valid
               => t \in D!Without(device_timers, seen[c])
                  \/ <<t.input, t.of>> \in D!Robs(seen[c])
    BY <1>2, RobsThose
  <2> QED BY <1>1, <1>2, <2>1 DEF Spares, D!TypeOK
<1>9. D!TypeOK'
  BY <1>1, <1>2, <1>4, <1>5, <1>6, <1>7, <1>8 DEF D!TypeOK
<1>10. D!HeldStaysDown'
  BY <1>1, <1>2 DEF D!HeldStaysDown
<1> QED BY <1>1, <1>4, <1>8, <1>9, <1>10, BesidePads

(* A key repeats once more, or for the first time: the repeat it goes on   *)
(* from has run, or has been cancelled.                                    *)
LEMMA RepeatsAgain ==
  ASSUME D!IInv, NEW ts, ts \subseteq device_timers,
         NEW i \in D!Unused(ts), NEW k \in Keys,
         device_timers' = ts \cup {D!Timer(i, "repeat", None, k)},
         repeat' = i, \A u \in ts : u.task # "repeat",
         Spares(ts), robbed \subseteq robbed',
         robbed' \subseteq Inputs \X Pads,
         key_press' \in [Keys -> BOOLEAN],
         UNCHANGED <<enabled, session, seen, mouse_press, down, delay, pad,
                     gamepadMask, releasing, freeing>>
  PROVE  D!IInv'
<1> DEFINE t == D!Timer(i, "repeat", None, k)
<1>1. D!TypeOK /\ D!HeldStaysDown /\ D!OneIdEach
  BY DEF D!IInv, D!LateTasksFit, D!LateTimersFit
<1>2. i \in Ids /\ \A u \in ts : u.id # i
  BY UnusedIds
<1>3. {t} \subseteq D!TimerRecords /\ Adds(ts, {t})
  BY <1>2, AddsOne
<1>4. t.task = "repeat" /\ t.id = i
  BY DEF D!Timer
<1> HIDE DEF t
<1>5. Retimes(ts, {t})
  BY <1>1, <1>3, StayKept DEF Retimes, D!TypeOK, t
<1>6. device_timers' \subseteq D!TimerRecords
  BY <1>5 DEF Retimes
<1>7. D!TypeOK'
  BY <1>1, <1>2, <1>6 DEF D!TypeOK
<1>8. D!OneRepeat'
  BY <1>4, <1>5 DEF D!OneRepeat, Retimes
<1>9. D!HeldStaysDown'
  BY <1>1 DEF D!HeldStaysDown
<1> QED BY <1>5, <1>7, <1>8, <1>9, BesidePads

LEMMA KeyDownInv ==
  ASSUME D!IInv, NEW c \in Inputs, NEW k \in Keys, D!KeyDown(c, k)
  PROVE  D!IInv'
<1> DEFINE ts == D!Without(device_timers, repeat)
<1>1. PICK i \in D!Unused(ts) :
        /\ device_timers' = ts \cup {D!Timer(i, "repeat", None, k)}
        /\ repeat' = i
  BY DEF D!KeyDown
<1>2. /\ key_press' = [key_press EXCEPT ![k] = TRUE]
      /\ robbed' = robbed \cup D!Robs(repeat)
      /\ UNCHANGED <<enabled, session, seen, mouse_press, down, delay, pad,
                     gamepadMask, releasing, freeing>>
  BY DEF D!KeyDown
<1>3. D!TypeOK /\ D!OneRepeat /\ D!TimersNameTheirs
  BY DEF D!IInv, D!LateTasksFit, D!LateTimersFit
<1>4. key_press' \in [Keys -> BOOLEAN]
  BY <1>2, <1>3 DEF D!TypeOK
<1>5. ts \subseteq device_timers /\ \A u \in ts : u.task # "repeat"
  BY <1>3 DEF D!Without, D!OneRepeat
<1>6. Spares(ts) /\ robbed' \subseteq Inputs \X Pads
  <2>1. /\ D!Robs(repeat) \subseteq Inputs \X Pads
        /\ \A t \in device_timers :
             t.task \in D!HomeTasks /\ t.valid
               => t \in ts \/ <<t.input, t.of>> \in D!Robs(repeat)
    BY <1>3, RobsThose
  <2> QED BY <1>2, <1>3, <2>1 DEF Spares, D!TypeOK
<1> HIDE DEF ts
<1> QED BY <1>1, <1>2, <1>4, <1>5, <1>6, RepeatsAgain

LEMMA RepeatKeyInv ==
  ASSUME D!IInv, NEW t \in device_timers, D!repeat_key(t)
  PROVE  D!IInv'
<1> DEFINE ts == device_timers \ {t}
<1>1. /\ t.task = "repeat"
      /\ UNCHANGED <<enabled, session, seen, mouse_press, down, delay, pad,
                     key_press, gamepadMask, robbed, releasing, freeing>>
      /\ \/ \E i \in D!Unused(device_timers) :
              /\ device_timers' = ts \cup {D!Timer(i, "repeat", None, t.of)}
              /\ repeat' = i
         \/ device_timers' = ts /\ repeat' = None
  BY DEF D!repeat_key
<1>2. /\ D!TypeOK /\ D!OneRepeat /\ D!OneIdEach /\ D!TimersNameTheirs
      /\ D!HeldStaysDown
  BY DEF D!IInv, D!LateTasksFit, D!LateTimersFit
<1>3. t.of \in Keys
  BY <1>1, <1>2 DEF D!TimersNameTheirs
<1>4. \A u \in ts : u.task # "repeat"
  BY <1>1, <1>2 DEF D!OneRepeat, D!OneIdEach
<1>5. Spares(ts)
  BY <1>1 DEF D!HomeTasks, Spares
<1>6. key_press' \in [Keys -> BOOLEAN] /\ robbed' \subseteq Inputs \X Pads
  BY <1>1, <1>2 DEF D!TypeOK
<1>7. /\ ts \subseteq device_timers
      /\ D!Unused(device_timers) \subseteq D!Unused(ts)
  BY DEF D!Unused
<1> HIDE DEF ts
<1>8. CASE \E i \in D!Unused(device_timers) :
             /\ device_timers' = ts \cup {D!Timer(i, "repeat", None, t.of)}
             /\ repeat' = i
  BY <1>1, <1>3, <1>4, <1>5, <1>6, <1>7, <1>8, RepeatsAgain
<1>9. CASE device_timers' = ts /\ repeat' = None
  <2>1. Retimes(device_timers', {}) /\ device_timers' \subseteq D!TimerRecords
    BY <1>7, <1>9, FewerTimers
  <2>2. D!TypeOK'
    BY <1>1, <1>2, <1>9, <2>1 DEF D!TypeOK
  <2>3. D!OneRepeat'
    BY <1>4, <1>9 DEF D!OneRepeat
  <2>4. D!HeldStaysDown'
    BY <1>1, <1>2 DEF D!HeldStaysDown
  <2>5. Spares(device_timers')
    BY <1>5, <1>9
  <2> QED BY <1>1, <2>1, <2>2, <2>3, <2>4, <2>5, BesidePads
<1> QED BY <1>1, <1>8, <1>9

(* A step of one controller.                                               *)
SetsPad(c, p, r) ==
  /\ pad' \in [Inputs -> [Pads -> D!PadRecords]]
  /\ pad'[c][p] = r
  /\ \A d \in Inputs, q \in Pads :
       ~(d = c /\ q = p) => pad'[d][q] = pad[d][q]

LEMMA PadChange ==
  ASSUME D!TypeOK, NEW c \in Inputs, NEW p \in Pads, NEW r \in D!PadRecords,
         pad' = [pad EXCEPT ![c][p] = r]
  PROVE  SetsPad(c, p, r)
BY DEF D!TypeOK, SetsPad

LEMMA PadInv ==
  ASSUME D!IInv, NEW c \in Inputs, NEW p \in Pads, NEW r \in D!PadRecords,
         pad' = [pad EXCEPT ![c][p] = r],
         NEW kept, NEW added, Retimes(kept, added),
         SparesOthers(c, p, kept), \A v \in added : Home(c, p, v),
         r.id = None => ~r.home,
         robbed' \subseteq Inputs \X Pads, robbed \ {<<c, p>>} \subseteq robbed',
         r.home /\ <<c, p>> \notin robbed' =>
                   \E t \in kept \cup added :
                     Home(c, p, t) /\ t.valid /\ t.id = r.timeout,
         UNCHANGED <<enabled, session, seen, mouse_press, down, delay,
                     key_press, repeat, releasing, freeing>>,
         gamepadMask' \subseteq Slots, D!SlotsAreOwned'
  PROVE  D!IInv'
<1>1. /\ D!TypeOK /\ D!HomeNeedsSlot /\ D!HeldStaysDown /\ D!OneRepeat
      /\ D!HomeHasTimer
  BY DEF D!IInv, D!LateTasksFit, D!LateTimersFit
<1>2. /\ pad' \in [Inputs -> [Pads -> D!PadRecords]]
      /\ pad'[c][p] = r
      /\ \A d \in Inputs, q \in Pads :
           ~(d = c /\ q = p) => pad'[d][q] = pad[d][q]
  <2>1. SetsPad(c, p, r)
    BY <1>1, PadChange
  <2> QED BY <2>1 DEF SetsPad
<1>3. /\ D!TimersNameTheirs' /\ D!OneIdEach'
      /\ device_timers' \subseteq D!TimerRecords
  BY TimersInv
<1>4. D!TypeOK'
  BY <1>1, <1>2, <1>3 DEF D!TypeOK
<1>5. D!HomeNeedsSlot'
  <2> SUFFICES ASSUME NEW d \in Inputs, NEW q \in Pads, pad'[d][q].id = None
               PROVE  ~pad'[d][q].home
    BY DEF D!HomeNeedsSlot
  <2>1. CASE d = c /\ q = p
    BY <1>2, <2>1
  <2>2. CASE ~(d = c /\ q = p)
    <3>1. pad'[d][q] = pad[d][q]
      BY <1>2, <2>2
    <3> QED BY <1>1, <3>1 DEF D!HomeNeedsSlot
  <2> QED BY <2>1, <2>2
<1>6. D!OneRepeat'
  <2>1. \A v \in added : v.task # "repeat"
    BY DEF Home, D!HomeTasks
  <2> QED BY <1>1, <2>1, RepeatKept
<1>7. D!HeldStaysDown'
  BY <1>1 DEF D!HeldStaysDown
<1>8. D!HomeHasTimer'
  <2> SUFFICES ASSUME NEW d \in Inputs, NEW q \in Pads, pad'[d][q].home,
                      <<d, q>> \notin robbed'
               PROVE  \E t \in device_timers' :
                        Home(d, q, t) /\ t.valid /\ t.id = pad'[d][q].timeout
    BY DEF D!HomeHasTimer, Home
  <2>1. CASE d = c /\ q = p
    BY <1>2, <2>1 DEF Retimes
  <2>2. CASE ~(d = c /\ q = p)
    <3>1. pad'[d][q] = pad[d][q]
      BY <1>2, <2>2
    <3>2. PICK t \in device_timers :
            /\ t.task \in D!HomeTasks /\ t.valid
            /\ t.input = d /\ t.of = q /\ t.id = pad[d][q].timeout
      <4>1. <<d, q>> \notin robbed
        BY <2>2
      <4> QED BY <1>1, <3>1, <4>1 DEF D!HomeHasTimer
    <3>3. Home(d, q, t) /\ ~Home(c, p, t)
      BY <2>2, <3>2 DEF Home
    <3>4. t \in device_timers'
      BY <3>2, <3>3 DEF Home, Retimes, SparesOthers
    <3> QED BY <3>1, <3>2, <3>3, <3>4
  <2> QED BY <2>1, <2>2
<1> QED
  BY <1>3, <1>4, <1>5, <1>6, <1>7, <1>8
  DEF D!IInv, D!LateTasksFit, D!LateTimersFit

(* A controller gets a slot, keeps the one it has, or gives it up.         *)
LEMMA SlotGiven ==
  ASSUME D!TypeOK, D!SlotsAreOwned, NEW c \in Inputs, NEW p \in Pads,
         NEW r \in D!PadRecords, pad' = [pad EXCEPT ![c][p] = r],
         r.id \in IF pad[c][p].id = None THEN D!NextSlot ELSE {pad[c][p].id},
         gamepadMask' = gamepadMask \cup {r.id}, freeing' = freeing
  PROVE  gamepadMask' \subseteq Slots /\ D!SlotsAreOwned'
<1>1. /\ pad'[c][p] = r
      /\ \A d \in Inputs, q \in Pads :
           ~(d = c /\ q = p) => pad'[d][q] = pad[d][q]
  <2>1. SetsPad(c, p, r)
    BY PadChange
  <2> QED BY <2>1 DEF SetsPad
<1>2. CASE pad[c][p].id = None
  <2>1. r.id \in Slots \ gamepadMask
    BY <1>2 DEF D!NextSlot
  <2>2. r.id # None
    BY <2>1, DevicesAssumption
  <2>3. freeing \subseteq gamepadMask /\ gamepadMask \subseteq Slots
    BY DEF D!SlotsAreOwned, D!TypeOK
  <2>4. gamepadMask' \subseteq Slots /\ freeing' \subseteq gamepadMask'
    BY <2>1, <2>3
  <2>5. ASSUME NEW d \in Inputs, NEW q \in Pads, pad'[d][q].id # None
        PROVE  /\ pad'[d][q].id \in gamepadMask' \ freeing'
               /\ \A e \in Inputs, g \in Pads :
                    pad'[e][g].id = pad'[d][q].id => e = d /\ g = q
    <3>1. \A e \in Inputs, g \in Pads :
            ~(e = c /\ g = p) /\ pad[e][g].id # None
              => pad[e][g].id \in gamepadMask \ freeing
      BY DEF D!SlotsAreOwned
    <3>2. CASE d = c /\ q = p
      BY <1>1, <2>1, <2>2, <2>3, <3>1, <3>2
    <3>3. CASE ~(d = c /\ q = p)
      <4>1. pad'[d][q] = pad[d][q]
        BY <1>1, <3>3
      <4>2. pad[d][q].id \in gamepadMask \ freeing
        BY <2>5, <3>1, <3>3, <4>1
      <4>3. ASSUME NEW e \in Inputs, NEW g \in Pads,
                   pad'[e][g].id = pad'[d][q].id
            PROVE  e = d /\ g = q
        <5>1. ~(e = c /\ g = p)
          BY <1>1, <2>1, <4>1, <4>2, <4>3
        <5>2. pad'[e][g] = pad[e][g]
          BY <1>1, <5>1
        <5> QED BY <2>5, <4>1, <4>3, <5>2 DEF D!SlotsAreOwned
      <4> QED BY <4>1, <4>2, <4>3
    <3> QED BY <3>2, <3>3
  <2>6. ASSUME NEW s \in gamepadMask' \ freeing'
        PROVE  \E d \in Inputs, q \in Pads : pad'[d][q].id = s
    <3>1. CASE s = r.id
      BY <1>1, <3>1
    <3>2. CASE s # r.id
      <4>1. s \in gamepadMask \ freeing
        BY <3>2
      <4>2. PICK d \in Inputs, q \in Pads : pad[d][q].id = s
        BY <4>1 DEF D!SlotsAreOwned
      <4>3. ~(d = c /\ q = p)
        BY <1>2, <4>1, <4>2, <2>3, DevicesAssumption
      <4> QED BY <1>1, <4>2, <4>3
    <3> QED BY <3>1, <3>2
  <2> QED BY <2>4, <2>5, <2>6 DEF D!SlotsAreOwned
<1>3. CASE pad[c][p].id # None
  <2>1. r.id = pad[c][p].id
    BY <1>3
  <2>2. gamepadMask' = gamepadMask
    BY <1>3, <2>1 DEF D!SlotsAreOwned
  <2>3. \A d \in Inputs, q \in Pads : pad'[d][q].id = pad[d][q].id
    BY <1>1, <2>1
  <2> QED BY <2>2, <2>3, SlotsKept DEF D!TypeOK
<1> QED BY <1>2, <1>3

LEMMA SlotGivenUp ==
  ASSUME D!TypeOK, D!SlotsAreOwned, NEW c \in Inputs, NEW p \in Pads,
         NEW r \in D!PadRecords, pad' = [pad EXCEPT ![c][p] = r],
         pad[c][p].id # None, r.id = None,
         gamepadMask' = gamepadMask \ {pad[c][p].id}, freeing' = freeing
  PROVE  gamepadMask' \subseteq Slots /\ D!SlotsAreOwned'
<1>1. /\ pad'[c][p] = r
      /\ \A d \in Inputs, q \in Pads :
           ~(d = c /\ q = p) => pad'[d][q] = pad[d][q]
  <2>1. SetsPad(c, p, r)
    BY PadChange
  <2> QED BY <2>1 DEF SetsPad
<1>2. freeing' \subseteq gamepadMask' /\ gamepadMask' \subseteq Slots
  BY DEF D!SlotsAreOwned, D!TypeOK
<1>3. ASSUME NEW d \in Inputs, NEW q \in Pads, pad'[d][q].id # None
      PROVE  /\ pad'[d][q].id \in gamepadMask' \ freeing'
             /\ \A e \in Inputs, g \in Pads :
                  pad'[e][g].id = pad'[d][q].id => e = d /\ g = q
  <2>1. ~(d = c /\ q = p)
    BY <1>1, <1>3
  <2>2. pad'[d][q] = pad[d][q]
    BY <1>1, <2>1
  <2>3. /\ pad[d][q].id \in gamepadMask \ freeing
        /\ \A e \in Inputs, g \in Pads :
             pad[e][g].id = pad[d][q].id => e = d /\ g = q
    BY <1>3, <2>2 DEF D!SlotsAreOwned
  <2>4. pad[c][p].id # pad[d][q].id
    BY <2>1, <2>3
  <2>5. ASSUME NEW e \in Inputs, NEW g \in Pads,
               pad'[e][g].id = pad'[d][q].id
        PROVE  e = d /\ g = q
    <3>1. ~(e = c /\ g = p)
      BY <1>1, <1>3, <2>5
    <3> QED BY <1>1, <2>2, <2>3, <2>5, <3>1
  <2> QED BY <2>2, <2>3, <2>4, <2>5
<1>4. ASSUME NEW s \in gamepadMask' \ freeing'
      PROVE  \E d \in Inputs, q \in Pads : pad'[d][q].id = s
  <2>1. s \in gamepadMask \ freeing /\ s # pad[c][p].id
    OBVIOUS
  <2>2. PICK d \in Inputs, q \in Pads : pad[d][q].id = s
    BY <2>1 DEF D!SlotsAreOwned
  <2> QED BY <1>1, <2>1, <2>2
<1> QED BY <1>2, <1>3, <1>4 DEF D!SlotsAreOwned

LEMMA PadRecord ==
  ASSUME D!TypeOK, NEW c \in Inputs, NEW p \in Pads
  PROVE  /\ pad[c][p] \in D!PadRecords
         /\ pad[c][p].id \in Slots \cup {None}
         /\ pad[c][p].back \in BOOLEAN /\ pad[c][p].home \in BOOLEAN
         /\ pad[c][p].forced \in BOOLEAN
         /\ pad[c][p].timeout \in Ids \cup {None}
<1>1. pad[c][p] \in D!PadRecords
  BY DEF D!TypeOK
<1> QED BY <1>1 DEF D!PadRecords

(* The same where no timer is added.                                       *)
LEMMA PadKeeps ==
  ASSUME D!IInv, NEW c \in Inputs, NEW p \in Pads, NEW r \in D!PadRecords,
         pad' = [pad EXCEPT ![c][p] = r], NEW kept, Retimes(kept, {}),
         SparesOthers(c, p, kept),
         r.id = None => ~r.home,
         robbed' \subseteq Inputs \X Pads, robbed \ {<<c, p>>} \subseteq robbed',
         r.home /\ <<c, p>> \notin robbed' =>
                   \E t \in kept :
                     Home(c, p, t) /\ t.valid /\ t.id = r.timeout,
         UNCHANGED <<enabled, session, seen, mouse_press, down, delay,
                     key_press, repeat, releasing, freeing>>,
         gamepadMask' \subseteq Slots, D!SlotsAreOwned'
  PROVE  D!IInv'
<1> DEFINE added == {}
<1>1. Retimes(kept, added) /\ \A v \in added : Home(c, p, v)
  OBVIOUS
<1>2. r.home /\ <<c, p>> \notin robbed' =>
                \E t \in kept \cup added :
                  Home(c, p, t) /\ t.valid /\ t.id = r.timeout
  OBVIOUS
<1> HIDE DEF added
<1> QED BY <1>1, <1>2, PadInv

LEMMA HomeTimer ==
  ASSUME D!HomeHasTimer, NEW c \in Inputs, NEW p \in Pads, pad[c][p].home,
         <<c, p>> \notin robbed
  PROVE  \E t \in device_timers :
           Home(c, p, t) /\ t.valid /\ t.id = pad[c][p].timeout
BY DEF D!HomeHasTimer, Home

LEMMA RobbedPads ==
  ASSUME D!TypeOK, robbed' = robbed
  PROVE  robbed' \subseteq Inputs \X Pads
BY DEF D!TypeOK

LEMMA ArriveInv ==
  ASSUME D!IInv, NEW c \in Inputs, NEW p \in Pads, D!Arrive(c, p)
  PROVE  D!IInv'
<1>1. PICK s \in D!NextSlot :
        /\ gamepadMask' = gamepadMask \cup {s}
        /\ pad' = [pad EXCEPT ![c][p] = [@ EXCEPT !.id = s]]
  BY DEF D!Arrive
<1>2. /\ pad[c][p].id = None
      /\ UNCHANGED <<enabled, session, seen, mouse_press, down, delay,
                     key_press, repeat, robbed, releasing, freeing, device_timers>>
  BY DEF D!Arrive
<1> DEFINE r == [pad[c][p] EXCEPT !.id = s]
<1>3. D!TypeOK /\ D!SlotsAreOwned /\ D!HomeNeedsSlot
  BY DEF D!IInv, D!LateTasksFit, D!LateTimersFit
<1>4. s \in Slots
  BY DEF D!NextSlot
<1>5. pad[c][p] \in D!PadRecords /\ ~pad[c][p].home
  BY <1>2, <1>3, PadRecord DEF D!HomeNeedsSlot
<1>6. /\ r \in D!PadRecords /\ r.id = s /\ r.home = pad[c][p].home
  BY <1>4, <1>5 DEF D!PadRecords
<1>7. pad' = [pad EXCEPT ![c][p] = r]
  BY <1>1, Zenon
<1> HIDE DEF r
<1>8. gamepadMask' \subseteq Slots /\ D!SlotsAreOwned'
  BY <1>1, <1>2, <1>3, <1>6, <1>7, SlotGiven
<1>9. Retimes(device_timers, {}) /\ SparesOthers(c, p, device_timers)
  BY <1>2, SameTimers DEF SparesOthers
<1>10. r.id # None
  BY <1>4, <1>6, DevicesAssumption
<1> QED
  BY <1>2, <1>3, <1>5, <1>6, <1>7, <1>8, <1>9, <1>10, PadKeeps, RobbedPads

(* What is left of a controller's timers when one of its is cancelled and  *)
(* the others are outdated: those of the other controllers.                *)
LEMMA OnlyItsTimers ==
  ASSUME D!IInv, NEW c \in Inputs, NEW p \in Pads, NEW i,
         robbed' = (robbed \cup D!Robs(i)) \ {<<c, p>>}
  PROVE  /\ SparesOthers(c, p, D!Outdated(D!Without(device_timers, i), c, p))
         /\ robbed' \subseteq Inputs \X Pads
         /\ robbed \ {<<c, p>>} \subseteq robbed'
<1> DEFINE ts == D!Without(device_timers, i)
<1>1. /\ D!TimersNameTheirs /\ D!OneIdEach /\ robbed \subseteq Inputs \X Pads
      /\ device_timers \subseteq D!TimerRecords
  BY DEF D!IInv, D!TypeOK
<1>2. /\ D!Robs(i) \subseteq Inputs \X Pads
      /\ \A t \in device_timers :
           t.task \in D!HomeTasks /\ t.valid
             => t \in ts \/ <<t.input, t.of>> \in D!Robs(i)
  BY <1>1, RobsThose
<1>3. ts \subseteq device_timers
  BY DEF D!Without
<1> HIDE DEF ts
<1>4. \A t \in ts : ~Home(c, p, t) => t \in D!Outdated(ts, c, p)
  BY <1>1, <1>3, OutdatedKept
<1>5. ASSUME NEW t \in device_timers, t.task \in D!HomeTasks, t.valid,
             ~Home(c, p, t), t \notin D!Outdated(ts, c, p)
      PROVE  <<t.input, t.of>> \in robbed'
  <2>1. <<t.input, t.of>> \in D!Robs(i)
    BY <1>2, <1>4, <1>5
  <2>2. <<t.input, t.of>> # <<c, p>>
    BY <1>5 DEF Home
  <2> QED BY <2>1, <2>2
<1>6. SparesOthers(c, p, D!Outdated(ts, c, p))
  BY <1>5 DEF SparesOthers
<1> QED BY <1>1, <1>2, <1>6 DEF ts

LEMMA OutdatedRetimes ==
  ASSUME D!IInv, NEW ts, ts \subseteq device_timers, NEW c, NEW p,
         NEW added, Adds(D!Outdated(ts, c, p), added), added \subseteq D!TimerRecords,
         device_timers' = D!Outdated(ts, c, p) \cup added
  PROVE  Retimes(D!Outdated(ts, c, p), added)
<1>1. D!OneIdEach /\ device_timers \subseteq D!TimerRecords
  BY DEF D!IInv, D!TypeOK
<1> QED BY <1>1, OutdatedKept DEF Retimes

LEMMA WithoutOnly ==
  ASSUME NEW ts, NEW i
  PROVE  D!Without(ts, i) \subseteq ts
BY DEF D!Without

LEMMA LeaveInv ==
  ASSUME D!IInv, NEW c \in Inputs, NEW p \in Pads, D!Leave(c, p)
  PROVE  D!IInv'
<1> DEFINE r == [pad[c][p] EXCEPT !.id = None, !.home = FALSE,
                                  !.forced = FALSE, !.timeout = None]
           ts == D!Without(device_timers, pad[c][p].timeout)
<1>1. /\ pad[c][p].id # None
      /\ device_timers' = D!Outdated(ts, c, p)
      /\ gamepadMask' = gamepadMask \ {pad[c][p].id}
      /\ pad' = [pad EXCEPT ![c][p] = r]
      /\ robbed' = (robbed \cup D!Robs(pad[c][p].timeout)) \ {<<c, p>>}
      /\ UNCHANGED <<enabled, session, seen, mouse_press, down, delay,
                     key_press, repeat, releasing, freeing>>
  BY DEF D!Leave
<1>2. D!TypeOK /\ D!SlotsAreOwned
  BY DEF D!IInv, D!LateTasksFit, D!LateTimersFit
<1>3. pad[c][p] \in D!PadRecords
  BY <1>2, PadRecord
<1>4. r \in D!PadRecords /\ r.id = None /\ r.home = FALSE
  BY <1>3 DEF D!PadRecords
<1> HIDE DEF r
<1>5. gamepadMask' \subseteq Slots /\ D!SlotsAreOwned'
  BY <1>1, <1>2, <1>4, SlotGivenUp
<1>6. /\ SparesOthers(c, p, D!Outdated(ts, c, p))
      /\ robbed' \subseteq Inputs \X Pads
      /\ robbed \ {<<c, p>>} \subseteq robbed'
  BY <1>1, OnlyItsTimers
<1>7. ts \subseteq device_timers
  BY WithoutOnly
<1> HIDE DEF ts
<1>8. Retimes(D!Outdated(ts, c, p), {})
  BY <1>1, <1>7, AddsNone, OutdatedRetimes
<1> QED BY <1>1, <1>4, <1>5, <1>6, <1>8, PadKeeps

(* A packet of a controller, with or without the BACK button held.         *)
LEMMA BackStaysInv ==
  ASSUME D!IInv, NEW c \in Inputs, NEW p \in Pads, NEW back \in BOOLEAN,
         NEW s \in IF pad[c][p].id = None THEN D!NextSlot
                   ELSE {pad[c][p].id},
         gamepadMask' = gamepadMask \cup {s}, D!BackStays(c, p, s, back),
         UNCHANGED <<enabled, session, seen, mouse_press, down, delay,
                     key_press, repeat, releasing, freeing>>
  PROVE  D!IInv'
<1> DEFINE f == pad[c][p].forced /\ back
           r == [pad[c][p] EXCEPT !.id = s, !.forced = f]
<1>1. pad' = [pad EXCEPT ![c][p] = r] /\ device_timers' = device_timers
      /\ robbed' = robbed
  BY DEF D!BackStays
<1>2. D!TypeOK /\ D!SlotsAreOwned /\ D!HomeHasTimer
  BY DEF D!IInv, D!LateTasksFit, D!LateTimersFit
<1>3. pad[c][p] \in D!PadRecords
  BY <1>2, PadRecord
<1>4. s \in Slots /\ s # None
  BY <1>2, PadRecord, DevicesAssumption DEF D!NextSlot
<1>5. f \in BOOLEAN
  OBVIOUS
<1> HIDE DEF f
<1>6. /\ r \in D!PadRecords /\ r.id = s /\ r.home = pad[c][p].home
      /\ r.timeout = pad[c][p].timeout
  BY <1>3, <1>4, <1>5 DEF D!PadRecords
<1> HIDE DEF r
<1>7. gamepadMask' \subseteq Slots /\ D!SlotsAreOwned'
  BY <1>1, <1>2, <1>6, SlotGiven
<1>8. Retimes(device_timers, {}) /\ SparesOthers(c, p, device_timers)
  BY <1>1, SameTimers DEF SparesOthers
<1>9. r.home /\ <<c, p>> \notin robbed =>
                \E t \in device_timers :
                  Home(c, p, t) /\ t.valid /\ t.id = r.timeout
  BY <1>2, <1>6, HomeTimer
<1> QED
  BY <1>1, <1>2, <1>4, <1>6, <1>7, <1>8, <1>9, PadKeeps, RobbedPads

LEMMA BackDownInv ==
  ASSUME D!IInv, NEW c \in Inputs, NEW p \in Pads, NEW back \in BOOLEAN,
         NEW s \in IF pad[c][p].id = None THEN D!NextSlot
                   ELSE {pad[c][p].id},
         gamepadMask' = gamepadMask \cup {s}, D!BackDown(c, p, s, back),
         UNCHANGED <<enabled, session, seen, mouse_press, down, delay,
                     key_press, repeat, releasing, freeing>>
  PROVE  D!IInv'
<1>0. robbed' = robbed \ {<<c, p>>}
  BY DEF D!BackDown
<1>1. PICK i \in D!Unused(device_timers) :
        /\ device_timers' = D!Outdated(device_timers, c, p)
                              \cup {D!Timer(i, "press", c, p)}
        /\ pad' = [pad EXCEPT ![c][p] =
                     [@ EXCEPT !.id = s, !.back = TRUE, !.timeout = i]]
  BY DEF D!BackDown
<1> DEFINE r == [pad[c][p] EXCEPT !.id = s, !.back = TRUE, !.timeout = i]
           v == D!Timer(i, "press", c, p)
           ts == D!Outdated(device_timers, c, p)
<1>2. /\ D!TypeOK /\ D!SlotsAreOwned /\ D!OneIdEach
      /\ device_timers \subseteq D!TimerRecords
      /\ robbed \subseteq Inputs \X Pads
  BY DEF D!IInv, D!TypeOK, D!LateTasksFit, D!LateTimersFit
<1>3. pad[c][p] \in D!PadRecords
  BY <1>2, PadRecord
<1>4. s \in Slots /\ s # None
  BY <1>2, PadRecord, DevicesAssumption DEF D!NextSlot
<1>5. i \in Ids /\ \A t \in device_timers : t.id # i
  BY UnusedIds
<1>6. r \in D!PadRecords /\ r.id = s /\ r.timeout = i
  BY <1>3, <1>4, <1>5 DEF D!PadRecords
<1>7. pad' = [pad EXCEPT ![c][p] = r]
  BY <1>1, Zenon
<1> HIDE DEF r
<1>8. gamepadMask' \subseteq Slots /\ D!SlotsAreOwned'
  BY <1>2, <1>6, <1>7, SlotGiven
<1>9. {v} \subseteq D!TimerRecords /\ Adds(ts, {v})
  <2>1. \A u \in ts : u.id # i
    BY <1>2, <1>5, OutdatedIds
  <2> HIDE DEF ts
  <2> QED BY <1>5, <2>1, AddsOne
<1>10. Home(c, p, v) /\ v.valid /\ v.id = i
  BY DEF D!Timer, Home, D!HomeTasks
<1>11. device_timers' = ts \cup {v}
  BY <1>1
<1> HIDE DEF v
<1>12. Retimes(ts, {v})
  BY <1>9, <1>11, OutdatedRetimes
<1>13. SparesOthers(c, p, ts)
  BY <1>2, OutdatedKept DEF SparesOthers
<1> HIDE DEF ts
<1>14. \E t \in ts \cup {v} : Home(c, p, t) /\ t.valid /\ t.id = r.timeout
  BY <1>6, <1>10
<1>15. /\ robbed' \subseteq Inputs \X Pads
       /\ robbed \ {<<c, p>>} \subseteq robbed'
  BY <1>0, <1>2
<1>16. r.id # None
  BY <1>4, <1>6
<1> DEFINE added == {v}
<1>17. /\ Retimes(ts, added) /\ \A u \in added : Home(c, p, u)
       /\ \E t \in ts \cup added :
            Home(c, p, t) /\ t.valid /\ t.id = r.timeout
  BY <1>10, <1>12, <1>14
<1> HIDE DEF added
<1> QED BY <1>6, <1>7, <1>8, <1>13, <1>15, <1>16, <1>17, PadInv

LEMMA BackUpInv ==
  ASSUME D!IInv, NEW c \in Inputs, NEW p \in Pads, NEW back \in BOOLEAN,
         NEW s \in IF pad[c][p].id = None THEN D!NextSlot
                   ELSE {pad[c][p].id},
         gamepadMask' = gamepadMask \cup {s}, D!BackUp(c, p, s, back),
         UNCHANGED <<enabled, session, seen, mouse_press, down, delay,
                     key_press, repeat, releasing, freeing>>
  PROVE  D!IInv'
<1> DEFINE cancels == pad[c][p].timeout # None /\ ~pad[c][p].home
           f == pad[c][p].forced /\ back
           w == IF cancels THEN None ELSE pad[c][p].timeout
           r == [pad[c][p] EXCEPT !.id = s, !.back = FALSE,
                                  !.timeout = w, !.forced = f]
           ts == D!Without(device_timers, pad[c][p].timeout)
<1>1. /\ IF cancels
           THEN /\ device_timers' = D!Outdated(ts, c, p)
                /\ robbed' =
                     (robbed \cup D!Robs(pad[c][p].timeout)) \ {<<c, p>>}
           ELSE UNCHANGED <<device_timers, robbed>>
      /\ pad' = [pad EXCEPT ![c][p] = r]
  BY DEF D!BackUp
<1>2. D!TypeOK /\ D!SlotsAreOwned /\ D!HomeHasTimer
  BY DEF D!IInv, D!LateTasksFit, D!LateTimersFit
<1>3. pad[c][p] \in D!PadRecords /\ w \in Ids \cup {None}
  BY <1>2, PadRecord
<1>4. s \in Slots /\ s # None
  BY <1>2, PadRecord, DevicesAssumption DEF D!NextSlot
<1>5. f \in BOOLEAN
  OBVIOUS
<1>6. /\ w \in {pad[c][p].timeout, None}
      /\ cancels => ~pad[c][p].home
      /\ ~cancels => w = pad[c][p].timeout
  OBVIOUS
<1> HIDE DEF f, w, cancels
<1>7. /\ r \in D!PadRecords /\ r.id = s /\ r.home = pad[c][p].home
      /\ r.timeout = w
  BY <1>3, <1>4, <1>5 DEF D!PadRecords
<1> HIDE DEF r
<1>8. gamepadMask' \subseteq Slots /\ D!SlotsAreOwned'
  BY <1>1, <1>2, <1>7, SlotGiven
<1>9. CASE cancels
  <2>0. /\ device_timers' = D!Outdated(ts, c, p)
        /\ robbed' = (robbed \cup D!Robs(pad[c][p].timeout)) \ {<<c, p>>}
    BY <1>1, <1>9
  <2>1. /\ SparesOthers(c, p, D!Outdated(ts, c, p))
        /\ robbed' \subseteq Inputs \X Pads
        /\ robbed \ {<<c, p>>} \subseteq robbed'
    BY <2>0, OnlyItsTimers
  <2>2. ts \subseteq device_timers
    BY WithoutOnly
  <2> HIDE DEF ts
  <2>3. Retimes(D!Outdated(ts, c, p), {})
    BY <2>0, <2>2, AddsNone, OutdatedRetimes
  <2>4. ~r.home
    BY <1>6, <1>7, <1>9
  <2> QED BY <1>1, <1>4, <1>6, <1>7, <1>8, <2>1, <2>3, <2>4, PadKeeps
<1>10. CASE ~cancels
  <2>1. Retimes(device_timers, {}) /\ SparesOthers(c, p, device_timers)
    BY <1>1, <1>10, SameTimers DEF SparesOthers
  <2>2. r.home /\ <<c, p>> \notin robbed =>
                  \E t \in device_timers :
                    Home(c, p, t) /\ t.valid /\ t.id = r.timeout
    BY <1>2, <1>6, <1>7, <1>10, HomeTimer
  <2> QED
    BY <1>1, <1>2, <1>4, <1>6, <1>7, <1>8, <1>10, <2>1, <2>2, PadKeeps,
       RobbedPads
<1> QED BY <1>9, <1>10

LEMMA PassPadInv ==
  ASSUME D!IInv, NEW c \in Inputs, NEW p \in Pads, NEW back \in BOOLEAN,
         D!passthrough_pad(c, p, back)
  PROVE  D!IInv'
<1>1. UNCHANGED <<enabled, session, seen, mouse_press, down, delay, key_press,
                  repeat, releasing, freeing>>
  BY DEF D!passthrough_pad
<1>2. PICK s \in IF pad[c][p].id = None THEN D!NextSlot
                 ELSE {pad[c][p].id} :
        /\ gamepadMask' = gamepadMask \cup {s}
        /\ \/ D!BackStays(c, p, s, back) \/ D!BackDown(c, p, s, back)
           \/ D!BackUp(c, p, s, back)
  BY DEF D!passthrough_pad
<1>3. CASE D!BackStays(c, p, s, back)
  BY <1>1, <1>2, <1>3, BackStaysInv
<1>4. CASE D!BackDown(c, p, s, back)
  BY <1>1, <1>2, <1>4, BackDownInv
<1>5. CASE D!BackUp(c, p, s, back)
  BY <1>1, <1>2, <1>5, BackUpInv
<1> QED BY <1>2, <1>3, <1>4, <1>5

(* A timer of HOME that has become outdated, or finds no controller.       *)
LEMMA LateHomeInv ==
  ASSUME D!IInv, NEW t \in device_timers, t.task \in D!HomeTasks,
         ~t.valid \/ pad[t.input][t.of].id = None,
         device_timers' = device_timers \ {t},
         UNCHANGED <<enabled, session, seen, mouse_press, down, delay,
                     key_press, repeat, pad, gamepadMask, robbed, releasing, freeing>>
  PROVE  D!IInv'
<1>1. /\ D!TypeOK /\ D!SlotsAreOwned /\ D!HomeNeedsSlot /\ D!HomeHasTimer
      /\ D!HeldStaysDown /\ D!TimersNameTheirs
  BY DEF D!IInv, D!LateTasksFit, D!LateTimersFit
<1>2. /\ Retimes(device_timers', {}) /\ D!OneRepeat'
      /\ device_timers' \subseteq D!TimerRecords
  BY FewerTimers
<1>3. D!TypeOK'
  BY <1>1, <1>2 DEF D!TypeOK
<1>4. D!HomeNeedsSlot' /\ D!HeldStaysDown'
  BY <1>1 DEF D!HomeNeedsSlot, D!HeldStaysDown
<1>5. D!SlotsAreOwned'
  BY <1>1, SlotsKept
<1>6. D!HomeHasTimer'
  <2>1. ASSUME NEW c \in Inputs, NEW p \in Pads, pad[c][p].home,
               NEW u \in device_timers, Home(c, p, u), u.valid
        PROVE  u \in device_timers'
    <3>1. pad[c][p].id # None
      BY <1>1, <2>1 DEF D!HomeNeedsSlot
    <3>2. u # t
      BY <2>1, <3>1 DEF Home
    <3> QED BY <3>2
  <2> QED BY <1>1, <2>1, HomeKept
<1>7. D!TimersNameTheirs' /\ D!OneIdEach'
  BY <1>2, TimersInv
<1> QED
  BY <1>2, <1>3, <1>4, <1>5, <1>6, <1>7
  DEF D!IInv, D!LateTasksFit, D!LateTimersFit

LEMMA HomeTimerOf ==
  ASSUME D!IInv, NEW t \in device_timers, t.task \in D!HomeTasks
  PROVE  t.input \in Inputs /\ t.of \in Pads /\ Home(t.input, t.of, t)
BY DEF D!IInv, D!TimersNameTheirs, Home

LEMMA PressHomeInv ==
  ASSUME D!IInv, NEW t \in device_timers, D!PressHome(t)
  PROVE  D!IInv'
<1> DEFINE c == t.input
           p == t.of
<1>1. /\ t.task \in D!HomeTasks
      /\ UNCHANGED <<enabled, session, seen, mouse_press, down, delay,
                     key_press, repeat, gamepadMask, robbed, releasing,
                     freeing>>
  BY DEF D!PressHome, D!HomeTasks
<1>2. CASE ~t.valid \/ pad[c][p].id = None
  BY <1>1, <1>2, LateHomeInv DEF D!PressHome
<1>3. CASE ~(~t.valid \/ pad[c][p].id = None)
  <2>1. PICK i \in D!Unused(device_timers) :
          /\ device_timers' = (device_timers \ {t})
                                \cup {D!Timer(i, "release", c, p)}
          /\ pad' = [pad EXCEPT ![c][p] =
                       [@ EXCEPT !.forced = TRUE, !.back = FALSE,
                                 !.home = TRUE, !.timeout = i]]
    BY <1>3 DEF D!PressHome
  <2> DEFINE r == [pad[c][p] EXCEPT !.forced = TRUE, !.back = FALSE,
                                    !.home = TRUE, !.timeout = i]
             v == D!Timer(i, "release", c, p)
             ts == device_timers \ {t}
  <2>2. /\ D!TypeOK /\ D!SlotsAreOwned /\ D!OneIdEach
        /\ device_timers \subseteq D!TimerRecords
    BY DEF D!IInv, D!TypeOK, D!LateTasksFit, D!LateTimersFit
  <2>3. c \in Inputs /\ p \in Pads /\ Home(c, p, t)
    BY <1>1, HomeTimerOf
  <2> HIDE DEF c, p
  <2>4. pad[c][p] \in D!PadRecords
    BY <2>2, <2>3, PadRecord
  <2>5. i \in Ids /\ \A u \in device_timers : u.id # i
    BY UnusedIds
  <2>6. r \in D!PadRecords /\ r.id = pad[c][p].id /\ r.timeout = i
    BY <2>4, <2>5 DEF D!PadRecords
  <2>7. pad' = [pad EXCEPT ![c][p] = r]
    BY <2>1, Zenon
  <2> HIDE DEF r
  <2>8. \A d \in Inputs, q \in Pads : pad'[d][q].id = pad[d][q].id
    <3> SUFFICES ASSUME NEW d \in Inputs, NEW q \in Pads
                 PROVE  pad'[d][q].id = pad[d][q].id
      OBVIOUS
    <3>1. SetsPad(c, p, r)
      BY <2>2, <2>3, <2>6, <2>7, PadChange
    <3> QED BY <2>6, <3>1 DEF SetsPad
  <2>9. gamepadMask' \subseteq Slots /\ D!SlotsAreOwned'
    BY <1>1, <2>2, <2>8, SlotsKept DEF D!TypeOK
  <2>10. {v} \subseteq D!TimerRecords /\ Adds(ts, {v})
    BY <2>3, <2>5, AddsOne
  <2>11. Home(c, p, v) /\ v.valid /\ v.id = i
    BY DEF D!Timer, Home, D!HomeTasks
  <2>12. device_timers' = ts \cup {v}
    BY <2>1
  <2> HIDE DEF v
  <2>13. Retimes(ts, {v})
    BY <2>2, <2>10, <2>12, StayKept DEF Retimes
  <2>14. SparesOthers(c, p, ts)
    BY <2>3 DEF SparesOthers
  <2> HIDE DEF ts
  <2>15. \E u \in ts \cup {v} : Home(c, p, u) /\ u.valid /\ u.id = r.timeout
    BY <2>6, <2>11
  <2>16. r.id # None
    BY <1>3, <2>6
  <2>17. /\ robbed' \subseteq Inputs \X Pads
         /\ robbed \ {<<c, p>>} \subseteq robbed'
    BY <1>1, <2>2, RobbedPads
  <2>18. \A u \in {v} : Home(c, p, u)
    BY <2>11
  <2> QED
    BY <1>1, <2>3, <2>6, <2>7, <2>9, <2>13, <2>14, <2>15, <2>16, <2>17, <2>18,
       PadInv
<1> QED BY <1>2, <1>3

LEMMA ReleaseHomeInv ==
  ASSUME D!IInv, NEW t \in device_timers, D!ReleaseHome(t)
  PROVE  D!IInv'
<1> DEFINE c == t.input
           p == t.of
<1>1. /\ t.task \in D!HomeTasks
      /\ device_timers' = device_timers \ {t}
      /\ UNCHANGED <<enabled, session, seen, mouse_press, down, delay,
                     key_press, repeat, gamepadMask, robbed, releasing,
                     freeing>>
  BY DEF D!ReleaseHome, D!HomeTasks
<1>2. CASE ~t.valid \/ pad[c][p].id = None
  BY <1>1, <1>2, LateHomeInv DEF D!ReleaseHome
<1>3. CASE ~(~t.valid \/ pad[c][p].id = None)
  <2> DEFINE r == [pad[c][p] EXCEPT !.home = FALSE, !.timeout = None]
  <2>1. pad' = [pad EXCEPT ![c][p] = r]
    BY <1>3 DEF D!ReleaseHome
  <2>2. D!TypeOK /\ D!SlotsAreOwned
    BY DEF D!IInv, D!LateTasksFit
  <2>3. c \in Inputs /\ p \in Pads /\ Home(c, p, t)
    BY <1>1, HomeTimerOf
  <2> HIDE DEF c, p
  <2>4. pad[c][p] \in D!PadRecords
    BY <2>2, <2>3, PadRecord
  <2>5. /\ r \in D!PadRecords /\ r.id = pad[c][p].id /\ r.home = FALSE
    BY <2>4 DEF D!PadRecords
  <2> HIDE DEF r
  <2>6. \A d \in Inputs, q \in Pads : pad'[d][q].id = pad[d][q].id
    <3> SUFFICES ASSUME NEW d \in Inputs, NEW q \in Pads
                 PROVE  pad'[d][q].id = pad[d][q].id
      OBVIOUS
    <3>1. SetsPad(c, p, r)
      BY <2>1, <2>2, <2>3, <2>5, PadChange
    <3> QED BY <2>5, <3>1 DEF SetsPad
  <2>7. gamepadMask' \subseteq Slots /\ D!SlotsAreOwned'
    BY <1>1, <2>2, <2>6, SlotsKept DEF D!TypeOK
  <2>8. Retimes(device_timers', {})
    BY <1>1, FewerTimers
  <2>9. SparesOthers(c, p, device_timers')
    BY <1>1, <2>3 DEF SparesOthers
  <2>10. /\ r.id = None => ~r.home
         /\ r.home /\ <<c, p>> \notin robbed' =>
              \E u \in device_timers' :
                Home(c, p, u) /\ u.valid /\ u.id = r.timeout
    BY <2>5
  <2> QED
    BY <1>1, <2>1, <2>2, <2>3, <2>5, <2>7, <2>8, <2>9, <2>10, PadKeeps,
       RobbedPads
<1> QED BY <1>2, <1>3

LEMMA FreeSlotInv ==
  ASSUME D!IInv, NEW s \in Slots, D!FreeSlot(s)
  PROVE  D!IInv'
<1>1. /\ s \in freeing /\ gamepadMask' = gamepadMask \ {s}
      /\ freeing' = freeing \ {s}
      /\ UNCHANGED <<enabled, session, seen, mouse_press, down, delay,
                     key_press, repeat, pad, robbed, device_timers, releasing>>
  BY DEF D!FreeSlot
<1>2. /\ D!TypeOK /\ D!SlotsAreOwned /\ D!HomeNeedsSlot /\ D!HomeHasTimer
      /\ D!HeldStaysDown
  BY DEF D!IInv, D!LateTasksFit, D!LateTimersFit
<1>3. /\ Retimes(device_timers, {}) /\ D!OneRepeat'
  BY <1>1, SameTimers
<1>4. /\ D!TimersNameTheirs' /\ D!OneIdEach'
      /\ device_timers' \subseteq D!TimerRecords
  BY <1>3, TimersInv
<1>5. gamepadMask' \subseteq Slots /\ freeing' \subseteq Slots
  BY <1>1, <1>2 DEF D!TypeOK
<1>6. D!TypeOK'
  BY <1>1, <1>2, <1>4, <1>5 DEF D!TypeOK
<1>7. D!HomeNeedsSlot' /\ D!HeldStaysDown'
  BY <1>1, <1>2 DEF D!HomeNeedsSlot, D!HeldStaysDown
<1>8. D!HomeHasTimer'
  BY <1>1, <1>2, HomeKept
<1>9. D!SlotsAreOwned'
  <2>1. gamepadMask' \ freeing' = gamepadMask \ freeing
    BY <1>1
  <2>2. freeing' \subseteq gamepadMask'
    BY <1>1, <1>2 DEF D!SlotsAreOwned
  <2> QED BY <1>1, <1>2, <2>1, <2>2 DEF D!SlotsAreOwned
<1> QED
  BY <1>3, <1>4, <1>6, <1>7, <1>8, <1>9
  DEF D!IInv, D!LateTasksFit, D!LateTimersFit

LEMMA DestroyedInv ==
  ASSUME D!IInv, NEW c \in Inputs, D!Destroyed(c)
  PROVE  D!IInv'
<1>1. /\ session' = [session EXCEPT ![c] = "gone"]
      /\ freeing' = freeing \cup D!Slots_of(c)
      /\ pad' = [pad EXCEPT ![c] = [p \in Pads |-> D!NoPad]]
      /\ delay' = [delay EXCEPT ![c] = None]
      /\ robbed' = {x \in robbed : x[1] # c}
      /\ UNCHANGED <<enabled, seen, mouse_press, down, key_press, repeat,
                     gamepadMask, device_timers, releasing>>
  BY DEF D!Destroyed
<1>2. /\ D!TypeOK /\ D!SlotsAreOwned /\ D!HomeNeedsSlot /\ D!HomeHasTimer
      /\ D!HeldStaysDown
  BY DEF D!IInv, D!LateTasksFit, D!LateTimersFit
<1>3. /\ D!NoPad \in D!PadRecords /\ D!NoPad.id = None
      /\ D!NoPad.timeout = None /\ D!NoPad.home = FALSE
  BY DEF D!NoPad, D!PadRecords
<1>4. pad' \in [Inputs -> [Pads -> D!PadRecords]]
  BY <1>1, <1>2, <1>3 DEF D!TypeOK
<1>5. \A p \in Pads : pad'[c][p] = D!NoPad
  BY <1>1, <1>2 DEF D!TypeOK
<1>6. \A d \in Inputs, p \in Pads : d # c => pad'[d][p] = pad[d][p]
  BY <1>1, <1>2 DEF D!TypeOK
<1>7. \A s : s \in D!Slots_of(c)
               <=> s # None /\ \E p \in Pads : pad[c][p].id = s
  BY DEF D!Slots_of
<1>8. freeing' \subseteq Slots
  <2>1. D!Slots_of(c) \subseteq Slots
    BY <1>2, <1>7, PadRecord
  <2> QED BY <1>1, <1>2, <2>1 DEF D!TypeOK
<1>9. session' \in
        [Inputs -> {"live", "keys", "mouse", "reset", "drained", "gone"}]
  BY <1>1, <1>2 DEF D!TypeOK
<1>10. delay' \in [Inputs -> Ids \cup {None, Disabled}]
  BY <1>1, <1>2 DEF D!TypeOK
<1>11. D!TypeOK'
  BY <1>1, <1>2, <1>4, <1>8, <1>9, <1>10 DEF D!TypeOK
<1>12. Retimes(device_timers, {}) /\ D!OneRepeat'
  BY <1>1, SameTimers
<1>13. D!TimersNameTheirs' /\ D!OneIdEach'
  BY <1>12, TimersInv
<1>14. D!HeldStaysDown'
  BY <1>1, <1>2 DEF D!HeldStaysDown
<1>15. D!HomeNeedsSlot'
  <2> SUFFICES ASSUME NEW d \in Inputs, NEW p \in Pads, pad'[d][p].id = None
               PROVE  ~pad'[d][p].home
    BY DEF D!HomeNeedsSlot
  <2>1. CASE d = c
    BY <1>3, <1>5, <2>1
  <2>2. CASE d # c
    <3>1. pad'[d][p] = pad[d][p]
      BY <1>6, <2>2
    <3> QED BY <1>2, <3>1 DEF D!HomeNeedsSlot
  <2> QED BY <2>1, <2>2
<1>16. D!HomeHasTimer'
  <2> SUFFICES ASSUME NEW d \in Inputs, NEW p \in Pads, pad'[d][p].home,
                      <<d, p>> \notin robbed'
               PROVE  pad'[d][p] = pad[d][p] /\ <<d, p>> \notin robbed
    BY <1>1, <1>2, HomeKept
  <2> QED BY <1>1, <1>3, <1>5, <1>6
<1>17. D!SlotsAreOwned'
  <2>1. freeing' \subseteq gamepadMask'
    <3>1. D!Slots_of(c) \subseteq gamepadMask
      BY <1>2, <1>7 DEF D!SlotsAreOwned
    <3> QED BY <1>1, <1>2, <3>1 DEF D!SlotsAreOwned
  <2>2. ASSUME NEW d \in Inputs, NEW p \in Pads, pad'[d][p].id # None
        PROVE  /\ pad'[d][p].id \in gamepadMask' \ freeing'
               /\ \A e \in Inputs, q \in Pads :
                    pad'[e][q].id = pad'[d][p].id => e = d /\ q = p
    <3>1. d # c /\ pad'[d][p] = pad[d][p]
      BY <1>3, <1>5, <1>6, <2>2
    <3>2. /\ pad[d][p].id \in gamepadMask \ freeing
          /\ \A e \in Inputs, q \in Pads :
               pad[e][q].id = pad[d][p].id => e = d /\ q = p
      BY <1>2, <2>2, <3>1 DEF D!SlotsAreOwned
    <3>3. pad[d][p].id \notin D!Slots_of(c)
      BY <1>7, <3>1, <3>2
    <3>4. ASSUME NEW e \in Inputs, NEW q \in Pads,
                 pad'[e][q].id = pad'[d][p].id
          PROVE  e = d /\ q = p
      <4>1. e # c
        BY <1>3, <1>5, <2>2, <3>4
      <4> QED BY <1>6, <3>1, <3>2, <3>4, <4>1
    <3> QED BY <1>1, <3>1, <3>2, <3>3, <3>4
  <2>3. ASSUME NEW s \in gamepadMask' \ freeing'
        PROVE  \E d \in Inputs, p \in Pads : pad'[d][p].id = s
    <3>1. s \in gamepadMask \ freeing /\ s \notin D!Slots_of(c)
      BY <1>1
    <3>2. PICK d \in Inputs, p \in Pads : pad[d][p].id = s
      BY <1>2, <3>1 DEF D!SlotsAreOwned
    <3>3. s # None
      BY <1>1, <1>2, DevicesAssumption DEF D!TypeOK
    <3>4. d # c
      BY <1>7, <3>1, <3>2, <3>3
    <3> QED BY <1>6, <3>2, <3>4
  <2> QED BY <2>1, <2>2, <2>3 DEF D!SlotsAreOwned
<1> QED
  BY <1>11, <1>12, <1>13, <1>14, <1>15, <1>16, <1>17
  DEF D!IInv, D!LateTasksFit, D!LateTimersFit

LEMMA DevicesStutter ==
  ASSUME D!IInv, UNCHANGED D!vars
  PROVE  D!IInv'
<1>1. UNCHANGED <<enabled, session, seen, mouse_press, down, delay, key_press,
                  repeat, pad, gamepadMask, robbed, device_timers, releasing,
                  freeing>>
  BY DEF D!vars, D!poolVars
<1>2. D!TypeOK /\ D!HeldStaysDown
  BY DEF D!IInv, D!LateTasksFit, D!LateTimersFit
<1>3. D!TypeOK' /\ D!HeldStaysDown'
  BY <1>1, <1>2 DEF D!TypeOK, D!HeldStaysDown
<1> QED BY <1>1, <1>3, QuietInv

LEMMA DevicesStep ==
  ASSUME D!IInv, D!Next
  PROVE  D!IInv'
<1>1. ASSUME NEW c \in Inputs, D!Handlers(c) PROVE D!IInv'
  <2>1. CASE D!passthrough_rel(c) \/ D!passthrough_abs(c)
    BY <2>1, MouseModeInv
  <2>2. CASE D!ReleaseLater(c)
    BY <2>2, ReleaseLaterInv
  <2>3. ASSUME NEW b \in D!Buttons, NEW r \in BOOLEAN, D!PassButton(c, b, r)
        PROVE  D!IInv'
    BY <2>3, PassButtonInv
  <2>4. ASSUME NEW k \in Keys, D!KeyDown(c, k) \/ D!KeyUp(c, k)
        PROVE  D!IInv'
    BY <2>4, KeyDownInv, KeyUpInv
  <2>5. ASSUME NEW p \in Pads,
               \/ D!Arrive(c, p) \/ D!Leave(c, p)
               \/ \E back \in BOOLEAN : D!passthrough_pad(c, p, back)
        PROVE  D!IInv'
    BY <2>5, ArriveInv, LeaveInv, PassPadInv
  <2> QED BY <1>1, <2>1, <2>2, <2>3, <2>4, <2>5 DEF D!Handlers
<1>2. ASSUME NEW c \in Inputs, D!Ends(c) PROVE D!IInv'
  BY <1>2, SessionInv, CancelInv, DestroyedInv DEF D!Ends
<1>3. ASSUME NEW t \in device_timers, D!Runs(t) PROVE D!IInv'
  BY <1>3, LeftUpInv, RepeatKeyInv, PressHomeInv, ReleaseHomeInv DEF D!Runs
<1> QED BY <1>1, <1>2, <1>3, ReleaseAllInv, FreeSlotInv DEF D!Next

LEMMA DevicesInit ==
  ASSUME D!Init
  PROVE  D!IInv
<1>1. /\ device_timers = {} /\ gamepadMask = {} /\ robbed = {}
      /\ freeing = {}
      /\ mouse_press = [b \in D!Buttons |-> FALSE]
      /\ pad = [c \in Inputs |-> [p \in Pads |-> D!NoPad]]
  BY DEF D!Init
<1>2. /\ D!NoPad \in D!PadRecords /\ D!NoPad.id = None /\ D!NoPad.home = FALSE
  BY DEF D!NoPad, D!PadRecords
<1>3. \A c \in Inputs, p \in Pads : pad[c][p] = D!NoPad
  BY <1>1
<1>4. pad \in [Inputs -> [Pads -> D!PadRecords]]
  BY <1>1, <1>2
<1>5. session \in
        [Inputs -> {"live", "keys", "mouse", "reset", "drained", "gone"}]
  BY DEF D!Init
<1>6. D!TypeOK
  BY <1>4, <1>5 DEF D!TypeOK, D!Init
<1>7. D!SlotsAreOwned
  BY <1>1, <1>2, <1>3 DEF D!SlotsAreOwned
<1>8. D!HomeHasTimer /\ D!HomeNeedsSlot
  BY <1>2, <1>3 DEF D!HomeHasTimer, D!HomeNeedsSlot
<1>9. D!HeldStaysDown /\ D!OneRepeat
  BY <1>1 DEF D!HeldStaysDown, D!OneRepeat
<1>10. D!TimersNameTheirs /\ D!OneIdEach
  BY <1>1 DEF D!TimersNameTheirs, D!OneIdEach
<1> QED
  BY <1>6, <1>7, <1>8, <1>9, <1>10
  DEF D!IInv, D!LateTasksFit, D!LateTimersFit

(* Timers and tasks of input.cpp that run late, after a cancel on another  *)
(* thread, a controller that left, or the end of their session, leave      *)
(* slots, keys, buttons and HOME to those who have them then.              *)
THEOREM LateTasksAreHarmless == D!Spec => []LateTasksFit
<1>1. D!Init => D!IInv
  BY DevicesInit
<1>2. D!IInv /\ [D!Next]_D!vars => D!IInv'
  BY DevicesStep, DevicesStutter
<1>3. D!IInv => LateTasksFit
  BY DEF D!IInv, LateTasksFit
<1> QED BY <1>1, <1>2, <1>3, PTL DEF D!Spec

-----------------------------------------------------------------------------
(* TaskPool.                                                               *)

USE DEF Goto, queueVars, workerVars

(* vector::emplace in pushDelayed makes a sequence one longer.             *)
LEMMA InsertedProperties ==
  ASSUME NEW S, NEW s \in Seq(S), NEW p \in 1 .. Len(s) + 1, NEW e \in S
  PROVE  /\ Inserted(s, p, e) \in Seq(S)
         /\ DOMAIN Inserted(s, p, e) = 1 .. Len(s) + 1
<1> DEFINE r == Inserted(s, p, e)
<1>1. r \in [1 .. Len(s) + 1 -> S]
  BY DEF Inserted
<1>2. r \in Seq(S) /\ DOMAIN r = 1 .. Len(s) + 1
  BY <1>1
<1> QED BY <1>2

(* vector::erase in cancel, and pop_back, make one that has lost just the  *)
(* element at p.                                                           *)
LEMMA WithoutProperties ==
  ASSUME NEW S, NEW s \in Seq(S), NEW p \in DOMAIN s
  PROVE  /\ Without(s, p) \in Seq(S)
         /\ DOMAIN Without(s, p) = 1 .. Len(s) - 1
<1> DEFINE r == Without(s, p)
<1>1. Len(s) - 1 \in Nat /\ p \in 1 .. Len(s)
  OBVIOUS
<1>2. r \in [1 .. Len(s) - 1 -> S]
  BY DEF Without
<1>3. r \in Seq(S) /\ DOMAIN r = 1 .. Len(s) - 1
  BY <1>1, <1>2
<1> QED BY <1>3

(* Nothing is queued before anything has been pushed.                      *)
LEMMA PoolInitIInv == Init => IInv
<1> SUFFICES ASSUME Init PROVE IInv
  OBVIOUS
<1>1. tasks = <<>> /\ timers = <<>>
  BY DEF Init
<1>2. tasks \in Seq(Tasks) /\ timers \in Seq([at : Nat, task : Tasks])
  BY <1>1
<1>3. pc \in [Workers -> Places] /\ running \in [Workers -> Tasks \cup {None}]
      /\ wake \in [Workers -> Nat \cup {Forever}]
  BY DEF Init, Places
<1>4. now \in Nat /\ begun \subseteq Tasks /\ dropped \subseteq Tasks /\ notified \subseteq Workers
      /\ going \in BOOLEAN /\ started \in BOOLEAN
  BY DEF Init
<1>5. Sorted /\ OnePlace
  BY <1>1 DEF Init, Sorted, OnePlace
<1> QED BY <1>2, <1>3, <1>4, <1>5 DEF IInv, TypeOK

(* The timers and the tasks, as the functions they are.                    *)
LEMMA Queues ==
  ASSUME IInv
  PROVE  /\ Len(timers) \in Nat /\ DOMAIN timers = 1 .. Len(timers)
         /\ Len(tasks) \in Nat /\ DOMAIN tasks = 1 .. Len(tasks)
         /\ \A i \in DOMAIN timers :
              timers[i].at \in Nat /\ timers[i].task \in Tasks
         /\ \A i \in DOMAIN tasks : tasks[i] \in Tasks
<1>1. tasks \in Seq(Tasks) /\ timers \in Seq([at : Nat, task : Tasks])
  BY DEF IInv, TypeOK
<1>2. Len(timers) \in Nat /\ DOMAIN timers = 1 .. Len(timers)
  BY <1>1
<1>3. Len(tasks) \in Nat /\ DOMAIN tasks = 1 .. Len(tasks)
  BY <1>1
<1>4. \A i \in DOMAIN timers :
        timers[i].at \in Nat /\ timers[i].task \in Tasks
  <2> DEFINE S == [at : Nat, task : Tasks]
  <2>1. timers \in Seq(S)
    BY <1>1
  <2> HIDE DEF S
  <2>2. \A i \in DOMAIN timers : timers[i] \in S
    BY <2>1
  <2> QED BY <2>2 DEF S
<1>5. \A i \in DOMAIN tasks : tasks[i] \in Tasks
  BY <1>1
<1> QED BY <1>2, <1>3, <1>4, <1>5

(* Removing a timer leaves the others sorted and in one place.             *)
LEMMA RemoveTimer ==
  ASSUME IInv, NEW p \in DOMAIN timers, timers' = Without(timers, p),
         tasks' = tasks, over' = over \cup {timers[p].task}
  PROVE  /\ timers' \in Seq([at : Nat, task : Tasks])
         /\ Sorted' /\ OnePlace'
         /\ {timers'[i] : i \in DOMAIN timers'} =
              {timers[i] : i \in DOMAIN timers} \ {timers[p]}
<1> DEFINE n == Len(timers)
<1>1. n \in Nat /\ DOMAIN timers = 1 .. n /\ p \in 1 .. n
  BY Queues
<1>2. /\ \A i \in 1 .. n : timers[i].at \in Nat
      /\ Sorted /\ OnePlace
  BY Queues DEF IInv
<1>3. timers' \in Seq([at : Nat, task : Tasks]) /\ DOMAIN timers' = 1 .. n - 1
  <2> DEFINE S == [at : Nat, task : Tasks]
  <2>1. timers \in Seq(S)
    BY DEF IInv, TypeOK
  <2> HIDE DEF S
  <2>2. /\ Without(timers, p) \in Seq(S)
        /\ DOMAIN Without(timers, p) = 1 .. Len(timers) - 1
    BY <2>1, WithoutProperties
  <2> QED BY <2>2 DEF n, S
<1>4. timers' = [i \in 1 .. n - 1 |->
                   IF i < p THEN timers[i] ELSE timers[i + 1]]
  BY DEF Without, n
<1> HIDE DEF n
<1>5. DOMAIN timers' = 1 .. n - 1
  BY <1>3
(* Where each timer comes from, and where it goes.                         *)
<1>6. ASSUME NEW i \in DOMAIN timers'
      PROVE  /\ i \in Nat
             /\ \E j \in DOMAIN timers :
                  j # p /\ timers'[i] = timers[j] /\ j = IF i < p THEN i ELSE i + 1
  <2>1. i \in 1 .. n - 1
    BY <1>5
  <2>2. CASE i < p
    <3>1. i \in DOMAIN timers /\ i # p
      BY <2>1, <2>2, <1>1
    <3>2. timers'[i] = timers[i]
      BY <2>1, <2>2, <1>4
    <3> QED BY <2>1, <2>2, <3>1, <3>2
  <2>3. CASE ~(i < p)
    <3>1. i + 1 \in DOMAIN timers /\ i + 1 # p
      BY <2>1, <2>3, <1>1
    <3>2. timers'[i] = timers[i + 1]
      BY <2>1, <2>3, <1>4
    <3> QED BY <2>1, <2>3, <3>1, <3>2
  <2> QED BY <2>2, <2>3
<1>7. ASSUME NEW j \in DOMAIN timers, j # p
      PROVE  \E i \in DOMAIN timers' : timers'[i] = timers[j]
  <2>1. CASE j < p
    <3>1. j \in 1 .. n - 1
      BY <2>1, <1>1
    <3>2. timers'[j] = timers[j]
      BY <2>1, <3>1, <1>4
    <3> QED BY <3>1, <3>2, <1>5
  <2>2. CASE j > p
    <3>1. j - 1 \in 1 .. n - 1 /\ ~(j - 1 < p) /\ (j - 1) + 1 = j
      BY <2>2, <1>1
    <3>2. timers'[j - 1] = timers[(j - 1) + 1]
      BY <3>1, <1>4
    <3> QED BY <3>1, <3>2, <1>5
  <2> QED BY <2>1, <2>2, <1>1, <1>7
<1> HIDE <1>4
<1>8. Sorted'
  <2> SUFFICES ASSUME NEW i \in DOMAIN timers', NEW j \in DOMAIN timers', i < j
               PROVE  timers'[i].at >= timers'[j].at
    BY DEF Sorted
  <2>0. i \in Nat /\ j \in Nat /\ p \in Nat
    BY <1>1, <1>6
  <2>1. PICK k \in DOMAIN timers :
          timers'[i] = timers[k] /\ k = IF i < p THEN i ELSE i + 1
    BY <1>6
  <2>2. PICK l \in DOMAIN timers :
          timers'[j] = timers[l] /\ l = IF j < p THEN j ELSE j + 1
    BY <1>6
  <2>3. k < l
    BY <2>0, <2>1, <2>2
  <2>4. timers[k].at >= timers[l].at
    BY <2>3, <1>2 DEF Sorted
  <2> QED BY <2>1, <2>2, <2>4
<1>9. OnePlace'
  <2>1. ASSUME NEW i \in DOMAIN timers', NEW j \in DOMAIN timers',
               timers'[i].task = timers'[j].task
        PROVE  i = j
    <3>0. i \in Nat /\ j \in Nat /\ p \in Nat
      BY <1>1, <1>6
    <3>1. PICK k \in DOMAIN timers :
            timers'[i] = timers[k] /\ k = IF i < p THEN i ELSE i + 1
      BY <1>6
    <3>2. PICK l \in DOMAIN timers :
            timers'[j] = timers[l] /\ l = IF j < p THEN j ELSE j + 1
      BY <1>6
    <3>3. k = l
      BY <3>1, <3>2, <2>1, <1>2 DEF OnePlace
    <3> QED BY <3>0, <3>1, <3>2, <3>3
  <2>2. \A i \in DOMAIN timers' : timers'[i].task \notin over'
    BY <1>2, <1>6 DEF OnePlace
  <2>3. \A i \in DOMAIN tasks, j \in DOMAIN timers' :
          tasks[i] # timers'[j].task
    BY <1>2, <1>6 DEF OnePlace
  <2>4. \A i \in DOMAIN tasks : tasks[i] \notin over'
    BY <1>2 DEF OnePlace
  <2>5. \A i, j \in DOMAIN tasks : tasks[i] = tasks[j] => i = j
    BY <1>2 DEF OnePlace
  <2> QED BY <2>1, <2>2, <2>3, <2>4, <2>5 DEF OnePlace
<1>10. {timers'[i] : i \in DOMAIN timers'} =
         {timers[i] : i \in DOMAIN timers} \ {timers[p]}
  <2>1. \A j \in DOMAIN timers : j # p => timers[j] # timers[p]
    BY <1>2 DEF OnePlace
  <2> QED BY <2>1, <1>6, <1>7
<1> QED BY <1>3, <1>8, <1>9, <1>10

(* So does adding one where its deadline belongs.                          *)
LEMMA AddTimer ==
  ASSUME IInv, NEW t \in Tasks, Fresh(t), NEW at \in Nat,
         NEW p \in 1 .. Len(timers) + 1, IsPlace(p, at),
         timers' = Inserted(timers, p, [at |-> at, task |-> t]),
         tasks' = tasks, over' = over
  PROVE  /\ timers' \in Seq([at : Nat, task : Tasks])
         /\ Sorted' /\ OnePlace'
         /\ {timers'[i] : i \in DOMAIN timers'} =
              {timers[i] : i \in DOMAIN timers} \cup {[at |-> at, task |-> t]}
<1> DEFINE n == Len(timers)
           e == [at |-> at, task |-> t]
<1>0. /\ n \in Nat /\ DOMAIN timers = 1 .. n /\ p \in 1 .. n + 1
      /\ \A i \in 1 .. n : timers[i].at \in Nat
      /\ Sorted /\ OnePlace
      /\ timers \in Seq([at : Nat, task : Tasks])
  BY Queues DEF IInv, TypeOK
<1>1. e \in [at : Nat, task : Tasks] /\ e.at = at /\ e.task = t
  OBVIOUS
<1>2. timers' = Inserted(timers, p, e)
  OBVIOUS
<1>3. /\ \A i \in 1 .. p - 1 : timers[i].at >= at
      /\ p <= n => timers[p].at < at
  BY DEF IsPlace
<1> HIDE DEF n, e
<1>4. /\ timers' \in Seq([at : Nat, task : Tasks])
      /\ DOMAIN timers' = 1 .. n + 1
  <2> DEFINE S == [at : Nat, task : Tasks]
  <2>1. timers \in Seq(S) /\ e \in S /\ p \in 1 .. Len(timers) + 1
    BY <1>0, <1>1 DEF n
  <2> HIDE DEF S
  <2>2. /\ Inserted(timers, p, e) \in Seq(S)
        /\ DOMAIN Inserted(timers, p, e) = 1 .. Len(timers) + 1
    BY <2>1, InsertedProperties
  <2> QED BY <2>2, <1>2 DEF n, S
<1>40. /\ n \in Nat /\ p \in 1 .. n + 1
       /\ DOMAIN timers = 1 .. n /\ DOMAIN timers' = 1 .. n + 1
  BY <1>0, <1>4
<1>5. /\ \A i \in 1 .. p - 1 : i \in DOMAIN timers' /\ timers'[i] = timers[i]
      /\ p \in DOMAIN timers' /\ timers'[p] = e
      /\ \A i \in p .. n :
           i + 1 \in DOMAIN timers' /\ timers'[i + 1] = timers[i]
  <2>1. timers' = [i \in 1 .. n + 1 |->
          IF i < p THEN timers[i] ELSE IF i = p THEN e ELSE timers[i - 1]]
    BY <1>2 DEF Inserted, n
  <2>2. ASSUME NEW i \in 1 .. p - 1
        PROVE  i \in 1 .. n + 1 /\ i < p
    BY <1>40
  <2>3. ASSUME NEW i \in p .. n
        PROVE  /\ i + 1 \in 1 .. n + 1 /\ ~(i + 1 < p) /\ i + 1 # p
               /\ (i + 1) - 1 = i
    BY <1>40
  <2> QED BY <2>1, <2>2, <2>3, <1>40
<1>6. ASSUME NEW i \in DOMAIN timers'
      PROVE  /\ i \in Nat
             /\ \/ i = p
                \/ i \in 1 .. p - 1 /\ i \in DOMAIN timers /\ i < p
                \/ /\ i - 1 \in p .. n /\ i - 1 \in DOMAIN timers
                   /\ i > p /\ (i - 1) + 1 = i
  BY <1>40
<1>61. \A i \in DOMAIN timers' : i # p => \E j \in DOMAIN timers :
        timers'[i] = timers[j] /\ j = IF i < p THEN i ELSE i - 1
  <2> SUFFICES ASSUME NEW i \in DOMAIN timers', i # p
               PROVE  \E j \in DOMAIN timers :
                        /\ timers'[i] = timers[j]
                        /\ j = IF i < p THEN i ELSE i - 1
    OBVIOUS
  <2>1. CASE i \in 1 .. p - 1 /\ i \in DOMAIN timers /\ i < p
    <3>1. timers'[i] = timers[i]
      BY <2>1, <1>5
    <3> QED BY <2>1, <3>1
  <2>2. CASE /\ i - 1 \in p .. n /\ i - 1 \in DOMAIN timers
             /\ i > p /\ (i - 1) + 1 = i
    <3>1. timers'[(i - 1) + 1] = timers[i - 1]
      BY <2>2, <1>5
    <3>2. ~(i < p)
      BY <2>2, <1>6, <1>40
    <3> QED BY <2>2, <3>1, <3>2
  <2> QED BY <2>1, <2>2, <1>6
<1>7. \A i \in p .. n : at >= timers[i].at
  <2> SUFFICES ASSUME NEW i \in p .. n PROVE at >= timers[i].at
    OBVIOUS
  <2>1. p \in 1 .. n /\ i \in 1 .. n /\ p <= i
    BY <1>40
  <2>2. timers[p].at >= timers[i].at
    BY <2>1, <1>0 DEF Sorted
  <2> QED BY <2>1, <2>2, <1>0, <1>3
<1>8. ASSUME NEW i \in DOMAIN timers', NEW j \in DOMAIN timers', i < j
      PROVE  timers'[i].at >= timers'[j].at
  <2>0. i \in Nat /\ j \in Nat /\ p \in Nat
    BY <1>6, <1>40
  <2>1. CASE j = p
    <3>1. i \in 1 .. p - 1 /\ timers'[i] = timers[i]
      BY <2>0, <2>1, <1>5, <1>6, <1>8
    <3> QED BY <2>1, <3>1, <1>1, <1>3, <1>5
  <2>2. CASE i = p
    <3>1. j - 1 \in p .. n /\ (j - 1) + 1 = j
      BY <2>0, <2>2, <1>6, <1>8
    <3>2. timers'[j] = timers[j - 1]
      BY <3>1, <1>5
    <3> QED BY <2>2, <3>1, <3>2, <1>1, <1>5, <1>7
  <2>3. CASE i # p /\ j # p
    <3>1. PICK k \in DOMAIN timers :
            timers'[i] = timers[k] /\ k = IF i < p THEN i ELSE i - 1
      BY <2>3, <1>61
    <3>2. PICK l \in DOMAIN timers :
            timers'[j] = timers[l] /\ l = IF j < p THEN j ELSE j - 1
      BY <2>3, <1>61
    <3>3. k < l
      BY <2>0, <2>3, <3>1, <3>2, <1>8
    <3> QED BY <3>1, <3>2, <3>3, <1>0 DEF Sorted
  <2> QED BY <2>1, <2>2, <2>3
<1>9. OnePlace'
  <2>0. /\ t \notin over
        /\ \A j \in DOMAIN timers : timers[j].task # t
        /\ \A j \in DOMAIN tasks : tasks[j] # t
    BY DEF Fresh, InTasks, InTimers
  <2>1. ASSUME NEW i \in DOMAIN timers', NEW j \in DOMAIN timers',
               timers'[i].task = timers'[j].task
        PROVE  i = j
    <3>1. CASE i = p \/ j = p
      BY <3>1, <2>0, <2>1, <1>1, <1>5, <1>61
    <3>2. CASE i # p /\ j # p
      <4>1. PICK k \in DOMAIN timers :
              timers'[i] = timers[k] /\ k = IF i < p THEN i ELSE i - 1
        BY <3>2, <1>61
      <4>2. PICK l \in DOMAIN timers :
              timers'[j] = timers[l] /\ l = IF j < p THEN j ELSE j - 1
        BY <3>2, <1>61
      <4>3. k = l
        BY <4>1, <4>2, <2>1, <1>0 DEF OnePlace
      <4>4. i \in Nat /\ j \in Nat /\ p \in Nat
        BY <1>6, <1>40
      <4> QED BY <3>2, <4>1, <4>2, <4>3, <4>4
    <3> QED BY <3>1, <3>2
  <2>2. \A i \in DOMAIN timers' : timers'[i].task \notin over
    BY <2>0, <1>0, <1>1, <1>5, <1>61 DEF OnePlace
  <2>3. \A i \in DOMAIN tasks, j \in DOMAIN timers' :
          tasks[i] # timers'[j].task
    BY <2>0, <1>0, <1>1, <1>5, <1>61 DEF OnePlace
  <2>4. \A i \in DOMAIN tasks : tasks[i] \notin over
    BY <1>0 DEF OnePlace
  <2>5. \A i, j \in DOMAIN tasks : tasks[i] = tasks[j] => i = j
    BY <1>0 DEF OnePlace
  <2> QED BY <2>1, <2>2, <2>3, <2>4, <2>5 DEF OnePlace
<1>10. {timers'[i] : i \in DOMAIN timers'} =
         {timers[i] : i \in DOMAIN timers} \cup {e}
  <2>1. \A i \in DOMAIN timers : \E j \in DOMAIN timers' :
          timers'[j] = timers[i]
    <3> SUFFICES ASSUME NEW i \in DOMAIN timers
                 PROVE  \E j \in DOMAIN timers' : timers'[j] = timers[i]
      OBVIOUS
    <3>1. i \in 1 .. p - 1 \/ i \in p .. n
      BY <1>40
    <3> QED BY <3>1, <1>5
  <2>2. \A i \in DOMAIN timers' :
          timers'[i] = e \/ \E j \in DOMAIN timers : timers'[i] = timers[j]
    BY <1>5, <1>61
  <2> QED BY <2>1, <2>2, <1>5
<1>11. Sorted'
  BY <1>8 DEF Sorted
<1> QED BY <1>4, <1>9, <1>10, <1>11 DEF e

(* A task at the back of _tasks.                                           *)
LEMMA AddTask ==
  ASSUME IInv, NEW t \in Tasks, Fresh(t), tasks' = Append(tasks, t),
         timers' = timers, over' = over
  PROVE  tasks' \in Seq(Tasks) /\ Sorted' /\ OnePlace'
<1> DEFINE n == Len(tasks)
<1>0. /\ n \in Nat /\ DOMAIN tasks = 1 .. n
      /\ Sorted /\ OnePlace /\ tasks \in Seq(Tasks)
  BY Queues DEF IInv, TypeOK
<1>1. /\ tasks' \in Seq(Tasks)
      /\ DOMAIN tasks' = DOMAIN tasks \cup {n + 1}
      /\ n + 1 \notin DOMAIN tasks
      /\ \A i \in DOMAIN tasks : tasks'[i] = tasks[i]
      /\ tasks'[n + 1] = t
  BY <1>0
<1>2. /\ t \notin over
      /\ \A j \in DOMAIN timers : timers[j].task # t
      /\ \A j \in DOMAIN tasks : tasks[j] # t
  BY DEF Fresh, InTasks, InTimers
<1> HIDE DEF n
<1>3. OnePlace'
  <2>1. \A i, j \in DOMAIN tasks' : tasks'[i] = tasks'[j] => i = j
    BY <1>0, <1>1, <1>2 DEF OnePlace
  <2>2. \A i \in DOMAIN tasks' : tasks'[i] \notin over
    BY <1>0, <1>1, <1>2 DEF OnePlace
  <2>3. \A i \in DOMAIN tasks', j \in DOMAIN timers :
          tasks'[i] # timers[j].task
    BY <1>0, <1>1, <1>2 DEF OnePlace
  <2>4. /\ \A i \in DOMAIN timers : timers[i].task \notin over
        /\ \A i, j \in DOMAIN timers :
             timers[i].task = timers[j].task => i = j
    BY <1>0 DEF OnePlace
  <2> QED BY <2>1, <2>2, <2>3, <2>4 DEF OnePlace
<1>4. Sorted'
  BY <1>0 DEF Sorted
<1> QED BY <1>1, <1>3, <1>4

(* The task at its front taken.                                            *)
LEMMA TakeTask ==
  ASSUME IInv, tasks # <<>>, tasks' = Tail(tasks),
         timers' = timers, over' = over \cup {Head(tasks)}
  PROVE  tasks' \in Seq(Tasks) /\ Sorted' /\ OnePlace'
<1> DEFINE n == Len(tasks)
<1>0. /\ n \in Nat /\ DOMAIN tasks = 1 .. n /\ n # 0
      /\ Sorted /\ OnePlace /\ tasks \in Seq(Tasks)
  BY Queues DEF IInv, TypeOK
<1>1. /\ tasks' \in Seq(Tasks)
      /\ DOMAIN tasks' = 1 .. n - 1
      /\ \A i \in 1 .. n - 1 : tasks'[i] = tasks[i + 1]
      /\ Head(tasks) = tasks[1]
  BY <1>0
<1> HIDE DEF n
<1>2. /\ 1 \in DOMAIN tasks /\ over' = over \cup {tasks[1]}
      /\ \A i \in DOMAIN tasks' :
           i + 1 \in DOMAIN tasks /\ tasks'[i] = tasks[i + 1] /\ i + 1 # 1
  BY <1>0, <1>1
<1>3. OnePlace'
  <2>1. ASSUME NEW i \in DOMAIN tasks', NEW j \in DOMAIN tasks',
               tasks'[i] = tasks'[j]
        PROVE  i = j
    <3>1. i + 1 = j + 1
      BY <2>1, <1>0, <1>2 DEF OnePlace
    <3> QED BY <3>1, <1>0, <1>1
  <2>2. \A i \in DOMAIN tasks' : tasks'[i] \notin over'
    BY <1>0, <1>2 DEF OnePlace
  <2>3. \A i \in DOMAIN tasks', j \in DOMAIN timers :
          tasks'[i] # timers[j].task
    BY <1>0, <1>2 DEF OnePlace
  <2>4. \A j \in DOMAIN timers : timers[j].task \notin over'
    BY <1>0, <1>2 DEF OnePlace
  <2>5. \A i, j \in DOMAIN timers : timers[i].task = timers[j].task => i = j
    BY <1>0 DEF OnePlace
  <2> QED BY <2>1, <2>2, <2>3, <2>4, <2>5 DEF OnePlace
<1>4. Sorted'
  BY <1>0 DEF Sorted
<1> QED BY <1>1, <1>3, <1>4

(* The types of everything but the queues.                                 *)
OthersTyped == /\ now \in Nat /\ begun \subseteq Tasks /\ dropped \subseteq Tasks
           /\ going \in BOOLEAN /\ started \in BOOLEAN
           /\ pc \in [Workers -> Places]
           /\ running \in [Workers -> Tasks \cup {None}]
           /\ wake \in [Workers -> Nat \cup {Forever}]
           /\ notified \subseteq Workers

(* Steps that leave the queues alone.                                      *)
LEMMA OtherSteps ==
  ASSUME IInv, UNCHANGED <<tasks, timers, begun, dropped>>, OthersTyped'
  PROVE  IInv'
  BY DEF IInv, TypeOK, OthersTyped, Sorted, OnePlace, over

(* No call of push, pushDelayed, cancel, start or stop breaks the          *)
(* invariant.                                                              *)
LEMMA CallsIInv ==
  ASSUME IInv,
         \/ \E t \in Tasks : Push(t) \/ Cancel(t)
         \/ \E t \in Tasks, d \in Delays : PushDelayed(t, d)
         \/ Start \/ Stop \/ Tick
  PROVE  IInv'
<1>0. OthersTyped /\ tasks \in Seq(Tasks) /\ timers \in Seq([at : Nat, task : Tasks])
  BY DEF IInv, TypeOK, OthersTyped
<1>1. ASSUME NEW t \in Tasks, Push(t) PROVE IInv'
  <2>1. tasks' \in Seq(Tasks) /\ Sorted' /\ OnePlace'
    BY <1>1, AddTask DEF Push, over
  <2>2. OthersTyped' /\ timers' = timers
    BY <1>0, <1>1 DEF Push, OthersTyped, Sleeping
  <2> QED BY <2>1, <2>2, <1>0 DEF IInv, TypeOK, OthersTyped
<1>2. ASSUME NEW t \in Tasks, NEW d \in Delays, PushDelayed(t, d)
      PROVE  IInv'
  <2>1. PICK p \in 1 .. Len(timers) + 1 :
          /\ IsPlace(p, now + d)
          /\ timers' = Inserted(timers, p, [at |-> now + d, task |-> t])
    BY <1>2 DEF PushDelayed
  <2>2. now + d \in Nat
    BY <1>0, TimeAssumption DEF OthersTyped
  <2>3. Fresh(t) /\ tasks' = tasks /\ over' = over
    BY <1>2 DEF PushDelayed, over
  <2>4. timers' \in Seq([at : Nat, task : Tasks]) /\ Sorted' /\ OnePlace'
    BY <2>1, <2>2, <2>3, AddTimer
  <2>5. OthersTyped'
    BY <1>0, <1>2 DEF PushDelayed, OthersTyped, Sleeping
  <2> QED BY <2>3, <2>4, <2>5, <1>0 DEF IInv, TypeOK, OthersTyped
<1>3. ASSUME NEW t \in Tasks, Cancel(t) PROVE IInv'
  <2>1. PICK p \in DOMAIN timers :
          timers[p].task = t /\ timers' = Without(timers, p)
    BY <1>3 DEF Cancel
  <2>2. over' = over \cup {timers[p].task} /\ tasks' = tasks
    BY <1>3, <2>1 DEF Cancel, over
  <2>3. timers' \in Seq([at : Nat, task : Tasks]) /\ Sorted' /\ OnePlace'
    BY <2>1, <2>2, RemoveTimer
  <2>4. OthersTyped'
    BY <1>0, <1>3 DEF Cancel, OthersTyped
  <2> QED BY <2>2, <2>3, <2>4, <1>0 DEF IInv, TypeOK, OthersTyped
<1>4. CASE Start
  <2>1. UNCHANGED <<tasks, timers, begun, dropped>> /\ OthersTyped'
    BY <1>0, <1>4 DEF Start, OthersTyped, Places
  <2> QED BY <2>1, OtherSteps
<1>5. CASE Stop
  <2>1. UNCHANGED <<tasks, timers, begun, dropped>> /\ OthersTyped'
    BY <1>0, <1>5 DEF Stop, OthersTyped, Sleeping
  <2> QED BY <2>1, OtherSteps
<1>6. CASE Tick
  <2>1. UNCHANGED <<tasks, timers, begun, dropped>> /\ OthersTyped'
    BY <1>0, <1>6 DEF Tick, OthersTyped
  <2> QED BY <2>1, OtherSteps
<1> QED BY <1>1, <1>2, <1>3, <1>4, <1>5, <1>6

(* No step of ThreadPool::_main does.                                      *)
LEMMA WorkIInv ==
  ASSUME IInv, NEW w \in Workers, Work(w) \/ Wake(w)
  PROVE  IInv'
<1>0. OthersTyped /\ tasks \in Seq(Tasks) /\ timers \in Seq([at : Nat, task : Tasks])
  BY DEF IInv, TypeOK, OthersTyped
<1>1. CASE CheckContinue(w)
  <2>1. UNCHANGED <<tasks, timers, begun, dropped>> /\ OthersTyped'
    BY <1>0, <1>1 DEF CheckContinue, OthersTyped, Places
  <2> QED BY <2>1, OtherSteps
<1>2. CASE PopTask(w)
  <2>1. tasks # <<>> /\ tasks' = Tail(tasks) /\ timers' = timers
        /\ over' = over \cup {Head(tasks)}
    BY <1>2 DEF PopTask, Run, over
  <2>2. tasks' \in Seq(Tasks) /\ Sorted' /\ OnePlace'
    BY <2>1, TakeTask
  <2>3. Head(tasks) \in Tasks
    BY <1>0, <2>1
  <2>4. OthersTyped'
    BY <1>0, <1>2, <2>3 DEF PopTask, Run, OthersTyped, Places
  <2> QED BY <2>1, <2>2, <2>4, <1>0 DEF IInv, TypeOK, OthersTyped
<1>3. CASE PopTimer(w)
  <2>1. Len(timers) \in DOMAIN timers
    BY <1>0, <1>3 DEF PopTimer, TimerDue
  <2>2. timers' = Without(timers, Len(timers)) /\ tasks' = tasks
        /\ over' = over \cup {timers[Len(timers)].task}
    BY <1>3 DEF PopTimer, Run, over
  <2>3. timers' \in Seq([at : Nat, task : Tasks]) /\ Sorted' /\ OnePlace'
    BY <2>1, <2>2, RemoveTimer
  <2>4. timers[Len(timers)].task \in Tasks
    BY <2>1, Queues
  <2>5. OthersTyped'
    BY <1>0, <1>3, <2>4 DEF PopTimer, Run, OthersTyped, Places
  <2> QED BY <2>2, <2>3, <2>5, <1>0 DEF IInv, TypeOK, OthersTyped
<1>4. CASE PopNothing(w)
  <2>1. UNCHANGED <<tasks, timers, begun, dropped>> /\ OthersTyped'
    BY <1>0, <1>4 DEF PopNothing, OthersTyped, Places
  <2> QED BY <2>1, OtherSteps
<1>5. CASE TaskEnds(w)
  <2>1. UNCHANGED <<tasks, timers, begun, dropped>> /\ OthersTyped'
    BY <1>0, <1>5 DEF TaskEnds, OthersTyped, Places
  <2> QED BY <2>1, OtherSteps
<1>6. CASE Sleep(w)
  <2>1. wake' \in [Workers -> Nat \cup {Forever}]
    <3>1. timers # <<>> => timers[Len(timers)].at \in Nat
      <4>1. timers # <<>> => Len(timers) \in DOMAIN timers
        BY <1>0
      <4> QED BY <4>1, Queues
    <3> QED BY <1>0, <1>6, <3>1 DEF Sleep, OthersTyped
  <2>2. UNCHANGED <<tasks, timers, begun, dropped>>
    BY <1>6 DEF Sleep
  <2>3. pc' \in [Workers -> Places] /\ notified' \subseteq Workers
    BY <1>0, <1>6 DEF Sleep, OthersTyped, Places
  <2>4. UNCHANGED <<now, begun, dropped, going, started, running>>
    BY <1>6 DEF Sleep
  <2>5. OthersTyped'
    BY <1>0, <2>1, <2>3, <2>4 DEF OthersTyped
  <2> QED BY <2>2, <2>5, OtherSteps
<1>7. CASE Wake(w)
  <2>1. UNCHANGED <<tasks, timers, begun, dropped>> /\ OthersTyped'
    BY <1>0, <1>7 DEF Wake, OthersTyped, Places
  <2> QED BY <2>1, OtherSteps
<1> QED BY <1>1, <1>2, <1>3, <1>4, <1>5, <1>6, <1>7 DEF Work

(* The timers stay sorted and a task is in one place, for any tasks,       *)
(* delays and number of workers.                                           *)
THEOREM PoolInvariant == Spec => []IInv
<1>1. IInv /\ [Next]_vars => IInv'
  <2> SUFFICES ASSUME IInv, [Next]_vars PROVE IInv'
    OBVIOUS
  <2>1. CASE \/ \E t \in Tasks : Push(t) \/ Cancel(t)
             \/ \E t \in Tasks, d \in Delays : PushDelayed(t, d)
             \/ Start \/ Stop \/ Tick
    BY <2>1, CallsIInv
  <2>2. CASE \E w \in Workers : Work(w) \/ Wake(w)
    BY <2>2, WorkIInv
  <2>3. CASE UNCHANGED vars
    BY <2>3, OtherSteps DEF vars, OthersTyped, IInv, TypeOK
  <2> QED BY <2>1, <2>2, <2>3 DEF Next
<1> QED BY <1>1, PoolInitIInv, PTL DEF Spec

TimerSet == {timers[i] : i \in DOMAIN timers}

(* A timer taken, by cancel or to run, is one of the delayed tasks, and    *)
(* they lose it.                                                           *)
LEMMA TakenTimer ==
  ASSUME IInv, NEW p \in DOMAIN timers, timers' = Without(timers, p),
         tasks' = tasks, over' = over \cup {timers[p].task}
  PROVE  timers[p] \in TimerSet /\ TimerSet' = TimerSet \ {timers[p]}
  BY RemoveTimer DEF TimerSet

(* The last timer is due before, or when, any other is.                    *)
LEMMA LastIsNext ==
  ASSUME IInv, timers # <<>>
  PROVE  /\ Len(timers) \in DOMAIN timers
         /\ \A e \in TimerSet : timers[Len(timers)].at <= e.at
<1>1. /\ Len(timers) \in DOMAIN timers /\ DOMAIN timers = 1 .. Len(timers)
      /\ Len(timers) \in Nat
  <2>1. timers \in Seq([at : Nat, task : Tasks])
    BY DEF IInv, TypeOK
  <2> QED BY <2>1
<1>2. ASSUME NEW i \in DOMAIN timers
      PROVE  timers[Len(timers)].at <= timers[i].at
  <2>1. timers[i].at \in Nat /\ timers[Len(timers)].at \in Nat
    BY <1>1, Queues
  <2>2. CASE i = Len(timers)
    BY <2>1, <2>2
  <2>3. CASE i < Len(timers)
    <3>1. timers[i].at >= timers[Len(timers)].at
      BY <1>1, <2>3 DEF IInv, Sorted
    <3> QED BY <2>1, <3>1
  <2> QED BY <1>1, <2>2, <2>3
<1> QED BY <1>1, <1>2 DEF TimerSet

(* Every step of the pool is one of TaskSchedule, or leaves its state      *)
(* alone.                                                                  *)
LEMMA StepKeepsPromise ==
  ASSUME IInv, [Next]_vars
  PROVE  [Promise!Next]_(Promise!vars)
<1> SUFFICES \/ Promise!Next
             \/ UNCHANGED <<now, tasks, TimerSet, begun, dropped>>
  BY DEF Promise!vars, TimerSet
<1>1. ASSUME NEW t \in Tasks, Fresh(t)
      PROVE  Promise!Fresh(t)
  BY <1>1 DEF Fresh, InTasks, InTimers, Promise!Fresh, over
<1>2. ASSUME NEW t \in Tasks, Push(t) PROVE Promise!Ask(t)
  BY <1>1, <1>2 DEF Push, Promise!Ask
<1>3. ASSUME NEW t \in Tasks, NEW d \in Delays, PushDelayed(t, d)
      PROVE  Promise!AskLater(t, d)
  <2>1. PICK p \in 1 .. Len(timers) + 1 :
          /\ IsPlace(p, now + d)
          /\ timers' = Inserted(timers, p, [at |-> now + d, task |-> t])
    BY <1>3 DEF PushDelayed
  <2>2. now + d \in Nat
    BY TimeAssumption DEF IInv, TypeOK
  <2>3. /\ Fresh(t) /\ over' = over
        /\ UNCHANGED <<now, tasks, begun, dropped>>
    BY <1>3 DEF PushDelayed, over
  <2>4. {timers'[i] : i \in DOMAIN timers'} =
          {timers[i] : i \in DOMAIN timers} \cup {[at |-> now + d, task |-> t]}
    BY <2>1, <2>2, <2>3, AddTimer
  <2> QED BY <1>1, <2>3, <2>4 DEF Promise!AskLater
<1>4. ASSUME NEW t \in Tasks, Cancel(t)
      PROVE  \E d \in TimerSet : Promise!Cancel(d)
  <2>1. PICK p \in DOMAIN timers :
          timers[p].task = t /\ timers' = Without(timers, p)
    BY <1>4 DEF Cancel
  <2>2. /\ dropped' = dropped \cup {timers[p].task}
        /\ over' = over \cup {timers[p].task}
        /\ UNCHANGED <<now, tasks, begun>>
    BY <1>4, <2>1 DEF Cancel, over
  <2>3. timers[p] \in TimerSet /\ TimerSet' = TimerSet \ {timers[p]}
    BY <2>1, <2>2, TakenTimer
  <2> QED BY <2>2, <2>3 DEF Promise!Cancel, TimerSet
<1>5. ASSUME NEW w \in Workers, PopTask(w) PROVE Promise!BeginUrgent
  BY <1>5 DEF PopTask, Run, Promise!BeginUrgent
<1>6. ASSUME NEW w \in Workers, PopTimer(w)
      PROVE  \E d \in TimerSet : Promise!BeginDelayed(d)
  <2> DEFINE d == timers[Len(timers)]
  <2>1. tasks = <<>> /\ timers # <<>> /\ d.at <= now
    BY <1>6 DEF PopTimer, TimerDue
  <2>2. /\ timers' = Without(timers, Len(timers))
        /\ begun' = begun \cup {d.task}
        /\ over' = over \cup {d.task}
        /\ UNCHANGED <<now, tasks, dropped>>
    BY <1>6 DEF PopTimer, Run, over
  <2>3. Len(timers) \in DOMAIN timers /\ \A e \in TimerSet : d.at <= e.at
    BY <2>1, LastIsNext
  <2>4. d \in TimerSet /\ TimerSet' = TimerSet \ {d}
    BY <2>2, <2>3, TakenTimer
  <2> HIDE DEF d
  <2> QED BY <2>1, <2>2, <2>3, <2>4 DEF Promise!BeginDelayed, TimerSet
<1>7. ASSUME Tick PROVE Promise!Tick
  BY <1>7 DEF Tick, Promise!Tick
<1>8. ASSUME NEW w \in Workers,
             \/ CheckContinue(w) \/ PopNothing(w) \/ TaskEnds(w)
             \/ Sleep(w) \/ Wake(w)
      PROVE  UNCHANGED <<now, tasks, TimerSet, begun, dropped>>
  <2>1. UNCHANGED <<now, tasks, timers, begun, dropped>>
    BY <1>8 DEF CheckContinue, PopNothing, TaskEnds, Sleep, Wake
  <2> QED BY <2>1 DEF TimerSet
<1>9. ASSUME Start \/ Stop \/ UNCHANGED vars
      PROVE  UNCHANGED <<now, tasks, TimerSet, begun, dropped>>
  <2>1. UNCHANGED <<now, tasks, timers, begun, dropped>>
    BY <1>9 DEF Start, Stop, vars
  <2> QED BY <2>1 DEF TimerSet
<1> QED
  BY <1>2, <1>3, <1>4, <1>5, <1>6, <1>7, <1>8, <1>9
     DEF Next, Work, Promise!Next, TimerSet

(* The pool keeps what TaskSchedule promises: a task begins at most once,  *)
(* not before its time, in order, and not after it has been cancelled.     *)
THEOREM PoolKeepsPromise == Spec => KeepsPromise
<1>1. Init => Promise!Init
  BY DEF Init, Promise!Init
<1>2. Spec => []IInv
  BY PoolInvariant
<1> QED BY <1>1, <1>2, StepKeepsPromise, PTL
        DEF Spec, KeepsPromise, Promise!Spec
-----------------------------------------------------------------------------
(* InputQueue: what a drain joins.                                         *)

Joinable(d, s) == Source(d) = Source(s) /\ What(d) = What(s)

LEMMA SourceParts ==
  ASSUME NEW d, NEW s
  PROVE  /\ Source(d) = Source(s) <=>
              d.magic = s.magic /\ d.unit = s.unit /\ d.pointer = s.pointer
         /\ What(d) = What(s) <=> d.mask = s.mask /\ d.state = s.state
BY DEF Source, What

(* What a kind of message does not have is the same for all of its kind.   *)
LEMMA SameKind ==
  ASSUME NEW d, NEW s, Packet(d), Packet(s), d.magic = s.magic,
         d.magic \in Q!Batchable
  PROVE  /\ d.magic \notin {"pad", "padtouch", "motion"} => d.unit = s.unit
         /\ d.magic \notin {"touch", "padtouch", "motion"} =>
              d.pointer = s.pointer
         /\ d.magic # "pad" => d.mask = s.mask
         /\ d.magic \in Q!Sums \cup {"motion"} => d.state = s.state
<1> DEFINE magic == d.magic
<1>1. /\ magic \notin {"pad", "padtouch", "motion"} => d.unit = 0
      /\ magic \notin {"touch", "padtouch", "motion"} => d.pointer = 0
      /\ magic # "pad" => d.mask = 0
      /\ magic \in Q!Sums \cup {"motion"} => d.state = 0
  BY Zenon DEF Packet
<1>2. /\ magic \notin {"pad", "padtouch", "motion"} => s.unit = 0
      /\ magic \notin {"touch", "padtouch", "motion"} => s.pointer = 0
      /\ magic # "pad" => s.mask = 0
      /\ magic \in Q!Sums \cup {"motion"} => s.state = 0
  BY Zenon DEF Packet
<1> QED BY <1>1, <1>2

(* A message is joined only with one that says the same of the same        *)
(* source, and only when the sum fits a short.                             *)
LEMMA BatchedAlike ==
  ASSUME NEW d, NEW s, Packet(d), Packet(s), Q!batch(d, s) = "batched"
  PROVE  /\ Joinable(d, s) /\ d.magic = s.magic /\ ~IsEvent(s)
         /\ d.magic \in Q!Sums => d.value + s.value \in Q!Short
<1>1. d.magic = s.magic /\ d.magic \in Q!Batchable
  BY DEF Q!batch
<1>2. ASSUME d.unit = s.unit, d.pointer = s.pointer, d.mask = s.mask,
             d.state = s.state,
             d.magic \in {"touch", "padtouch"} => s.state \in Q!Moves
      PROVE  Joinable(d, s) /\ ~IsEvent(s)
  BY <1>1, <1>2, SourceParts DEF Joinable, IsEvent
<1>3. CASE d.magic \in Q!Sums
  <2>1. Q!batch(d, s) = Q!batch_sum(d, s)
    BY <1>1, <1>3 DEF Q!batch, Q!Sums
  <2>2. d.value + s.value \in Q!Short
    BY <2>1 DEF Q!batch_sum
  <2> QED BY <1>1, <1>2, <1>3, <2>2, SameKind DEF Q!Sums
<1>4. CASE d.magic = "abs"
  <2>1. Q!batch(d, s) = Q!batch_abs(d, s)
    BY <1>1, <1>4 DEF Q!batch, Q!Sums
  <2>2. d.state = s.state
    BY <2>1 DEF Q!batch_abs
  <2> QED BY <1>1, <1>2, <1>4, <2>2, SameKind DEF Q!Sums
<1>5. CASE d.magic = "pad"
  <2>1. Q!batch(d, s) = Q!batch_pad(d, s)
    BY <1>1, <1>5 DEF Q!batch, Q!Sums
  <2>2. d.unit = s.unit /\ d.mask = s.mask /\ d.state = s.state
    BY <2>1 DEF Q!batch_pad
  <2> QED BY <1>1, <1>2, <1>5, <2>2, SameKind DEF Q!Sums
<1>6. CASE d.magic = "touch"
  <2>1. Q!batch(d, s) = Q!batch_touch(d, s)
    BY <1>1, <1>6 DEF Q!batch, Q!Sums
  <2>2. d.state \in Q!Moves /\ d.pointer = s.pointer /\ d.state = s.state
    BY <2>1 DEF Q!batch_touch
  <2> QED BY <1>1, <1>2, <1>6, <2>2, SameKind DEF Q!Sums
<1>7. CASE d.magic = "pen"
  <2>1. Q!batch(d, s) = Q!batch_pen(d, s)
    BY <1>1, <1>7 DEF Q!batch, Q!Sums
  <2>2. d.state = s.state
    BY <2>1 DEF Q!batch_pen
  <2> QED BY <1>1, <1>2, <1>7, <2>2, SameKind DEF Q!Sums
<1>8. CASE d.magic = "padtouch"
  <2>1. Q!batch(d, s) = Q!batch_padtouch(d, s)
    BY <1>1, <1>8 DEF Q!batch, Q!Sums
  <2>2. /\ d.state \in Q!Moves /\ d.state = s.state
        /\ d.unit = s.unit /\ d.pointer = s.pointer
    BY <2>1 DEF Q!batch_padtouch
  <2> QED BY <1>1, <1>2, <1>8, <2>2, SameKind DEF Q!Sums
<1>9. CASE d.magic = "motion"
  <2>1. Q!batch(d, s) = Q!batch_motion(d, s)
    BY <1>1, <1>9 DEF Q!batch, Q!Sums
  <2>2. d.unit = s.unit /\ d.pointer = s.pointer
    BY <2>1 DEF Q!batch_motion
  <2> QED BY <1>1, <1>2, <1>9, <2>2, SameKind DEF Q!Sums
<1> QED BY <1>1, <1>3, <1>4, <1>5, <1>6, <1>7, <1>8, <1>9
    DEF Q!Batchable, Q!Sums

(* A message that leaves the batch open is about another source.           *)
LEMMA OtherSource ==
  ASSUME NEW d, NEW s, Packet(d), Packet(s), Q!batch(d, s) # "batched",
         Q!batch(d, s) # "terminate"
  PROVE  Source(d) # Source(s)
<1>1. d.magic = s.magic /\ d.magic \in Q!Batchable
  BY DEF Q!batch
<1>2. CASE d.magic \in Q!Sums
  BY <1>1, <1>2 DEF Q!batch, Q!Sums, Q!batch_sum
<1>3. CASE d.magic = "abs"
  BY <1>1, <1>3 DEF Q!batch, Q!Sums, Q!batch_abs
<1>4. CASE d.magic = "pad"
  BY <1>1, <1>4, SourceParts DEF Q!batch, Q!Sums, Q!batch_pad
<1>5. CASE d.magic = "touch"
  BY <1>1, <1>5, SourceParts DEF Q!batch, Q!Sums, Q!batch_touch
<1>6. CASE d.magic = "pen"
  BY <1>1, <1>6 DEF Q!batch, Q!Sums, Q!batch_pen
<1>7. CASE d.magic = "padtouch"
  BY <1>1, <1>7, SourceParts DEF Q!batch, Q!Sums, Q!batch_padtouch
<1>8. CASE d.magic = "motion"
  BY <1>1, <1>8, SourceParts DEF Q!batch, Q!Sums, Q!batch_motion
<1> QED BY <1>1, <1>2, <1>3, <1>4, <1>5, <1>6, <1>7, <1>8
    DEF Q!Batchable, Q!Sums

(* The effect of the first messages of s.                                  *)
EffectTo(s) ==
  LET upto[n \in 0 .. Len(s)] ==
        IF n = 0 THEN Untouched ELSE After(upto[n - 1], s[n])
  IN upto

LEMMA EffectStep ==
  ASSUME NEW s, Len(s) \in Nat
  PROVE  /\ Effect(s) = EffectTo(s)[Len(s)]
         /\ EffectTo(s)[0] = Untouched
         /\ \A n \in 1 .. Len(s) :
              EffectTo(s)[n] = After(EffectTo(s)[n - 1], s[n])
<1> DEFINE Term(g, n) == IF n = 0 THEN Untouched ELSE After(g[n - 1], s[n])
           Reads(g, m) == g = [n \in 0 .. m |-> Term(g, n)]
           Good == {m \in 0 .. Len(s) : \E g : Reads(g, m)}
<1>1. 0 \in Good
  <2> DEFINE g == [n \in 0 .. 0 |-> Untouched]
  <2>1. g = [n \in 0 .. 0 |-> Term(g, n)]
    OBVIOUS
  <2> HIDE DEF g
  <2> QED BY <2>1
<1>2. ASSUME NEW m \in 0 .. Len(s), m < Len(s), m \in Good
      PROVE  m + 1 \in Good
  <2>1. PICK g : g = [n \in 0 .. m |-> Term(g, n)]
    BY <1>2
  <2> DEFINE h == [n \in 0 .. m + 1 |-> IF n <= m THEN g[n] ELSE Term(g, n)]
  <2>2. \A n \in 0 .. m + 1 : h[n] = Term(h, n)
    <3> SUFFICES ASSUME NEW n \in 0 .. m + 1 PROVE h[n] = Term(h, n)
      OBVIOUS
    <3>1. n # 0 => h[n - 1] = g[n - 1]
      BY <1>2
    <3>2. Term(h, n) = Term(g, n)
      BY <3>1
    <3>3. ASSUME n <= m PROVE g[n] = Term(g, n)
      <4>1. n \in 0 .. m
        BY <1>2, <3>3
      <4> HIDE DEF Term
      <4> QED BY <2>1, <4>1
    <3> QED BY <3>2, <3>3
  <2>3. h = [n \in 0 .. m + 1 |-> Term(h, n)]
    <3> HIDE DEF Term
    <3> QED BY <2>2
  <2> HIDE DEF h, Term
  <2> QED BY <1>2, <2>3
<1>3. PICK g : Reads(g, Len(s))
  <2> HIDE DEF Good
  <2>1. 0 .. Len(s) \subseteq Good
    BY <1>1, <1>2, CountUp
  <2>2. Len(s) \in Good
    BY <2>1
  <2> QED BY <2>2 DEF Good
<1>4. Reads(EffectTo(s), Len(s))
  <2> HIDE DEF Term
  <2>1. EffectTo(s) = CHOOSE h : Reads(h, Len(s))
    BY Zenon DEF EffectTo, Term
  <2> HIDE DEF Reads
  <2> QED BY <1>3, <2>1
<1>5. Effect(s) = EffectTo(s)[Len(s)]
  BY Zenon DEF Effect, EffectTo
<1> DEFINE u == EffectTo(s)
<1>6. \A n \in 0 .. Len(s) : u[n] = Term(u, n)
  <2> HIDE DEF Term, u
  <2>1. u = [n \in 0 .. Len(s) |-> Term(u, n)]
    BY <1>4 DEF u
  <2> QED BY <2>1
<1> HIDE DEF u
<1>7. u[0] = Untouched
  BY <1>6
<1>8. ASSUME NEW n \in 1 .. Len(s) PROVE u[n] = After(u[n - 1], s[n])
  <2>1. n \in 0 .. Len(s) /\ n # 0
    OBVIOUS
  <2> QED BY <1>6, <2>1
<1> QED BY <1>5, <1>7, <1>8 DEF u

(* One more message.                                                       *)
LEMMA EffectAppend ==
  ASSUME NEW S, NEW s \in Seq(S), NEW m \in S
  PROVE  Effect(Append(s, m)) = After(Effect(s), m)
<1> DEFINE t == Append(s, m)
           Same == {n \in 0 .. Len(s) : EffectTo(t)[n] = EffectTo(s)[n]}
<1>1. /\ Len(s) \in Nat /\ Len(t) = Len(s) + 1 /\ t[Len(s) + 1] = m
      /\ \A n \in 1 .. Len(s) : t[n] = s[n]
  OBVIOUS
<1> HIDE DEF t
<1>2. 0 \in Same
  BY <1>1, EffectStep
<1>3. ASSUME NEW n \in 0 .. Len(s), n < Len(s), n \in Same
      PROVE  n + 1 \in Same
  <2>1. /\ n + 1 \in 1 .. Len(s) /\ n + 1 \in 1 .. Len(t)
        /\ (n + 1) - 1 = n /\ n + 1 \in 0 .. Len(s)
    BY <1>1, <1>3
  <2>2. EffectTo(t)[n] = EffectTo(s)[n]
    BY <1>3
  <2>3. EffectTo(t)[n + 1] = After(EffectTo(t)[n], t[n + 1])
    <3>1. Len(t) \in Nat
      BY <1>1
    <3>2. EffectTo(t)[n + 1] = After(EffectTo(t)[(n + 1) - 1], t[n + 1])
      BY <3>1, <2>1, EffectStep
    <3> QED BY <3>2, <2>1
  <2>4. EffectTo(s)[n + 1] = After(EffectTo(s)[n], s[n + 1])
    BY <1>1, <2>1, EffectStep
  <2> QED BY <1>1, <2>1, <2>2, <2>3, <2>4
<1>4. 0 .. Len(s) \subseteq Same
  <2> HIDE DEF Same
  <2> QED BY <1>1, <1>2, <1>3, CountUp
<1>5. EffectTo(t)[Len(s)] = Effect(s)
  BY <1>1, <1>4, EffectStep
<1>6. Effect(t) = After(EffectTo(t)[Len(s)], m)
  <2>1. Len(t) \in Nat /\ Len(t) \in 1 .. Len(t) /\ Len(t) - 1 = Len(s)
    BY <1>1
  <2>2. Effect(t) = EffectTo(t)[Len(t)]
    BY <2>1, EffectStep
  <2>3. EffectTo(t)[Len(t)] = After(EffectTo(t)[Len(t) - 1], t[Len(t)])
    BY <2>1, EffectStep
  <2>4. t[Len(t)] = m
    BY <1>1
  <2> QED BY <2>1, <2>2, <2>3, <2>4
<1> QED BY <1>5, <1>6 DEF t

(* What the loop of the drain has joined after the first messages of q.    *)
LookTo(q) ==
  LET look[n \in 1 .. Len(q)] ==
        IF n = 1 THEN [sent |-> q[1], left |-> <<>>, open |-> TRUE]
        ELSE LET b == look[n - 1]
                 verdict == Q!batch(b.sent, q[n])
             IN IF b.open /\ verdict = "batched"
                  THEN [b EXCEPT !.sent = Q!Joined(@, q[n])]
                  ELSE [b EXCEPT !.left = Append(@, q[n]),
                                 !.open = @ /\ verdict # "terminate"]
  IN look

LookNext(b, m) ==
  LET verdict == Q!batch(b.sent, m)
  IN IF b.open /\ verdict = "batched"
       THEN [b EXCEPT !.sent = Q!Joined(@, m)]
       ELSE [b EXCEPT !.left = Append(@, m),
                      !.open = @ /\ verdict # "terminate"]

LEMMA LookStep ==
  ASSUME NEW q, Len(q) \in Nat, Len(q) >= 1
  PROVE  /\ Q!Batched(q) = LookTo(q)[Len(q)]
         /\ LookTo(q)[1] = [sent |-> q[1], left |-> <<>>, open |-> TRUE]
         /\ \A n \in 2 .. Len(q) :
              LookTo(q)[n] = LookNext(LookTo(q)[n - 1], q[n])
<1> DEFINE First == [sent |-> q[1], left |-> <<>>, open |-> TRUE]
           Term(g, n) == IF n = 1 THEN First ELSE LookNext(g[n - 1], q[n])
           Reads(g, m) == g = [n \in 1 .. m |-> Term(g, n)]
           Good == {m \in 0 .. Len(q) : \E g : Reads(g, m)}
<1>1. 0 \in Good
  <2> DEFINE g == [n \in 1 .. 0 |-> First]
  <2>1. g = [n \in 1 .. 0 |-> Term(g, n)]
    OBVIOUS
  <2> HIDE DEF g, Term
  <2>2. \E h : Reads(h, 0)
    BY <2>1
  <2> HIDE DEF Reads
  <2> QED BY <2>2
<1>2. ASSUME NEW m \in 0 .. Len(q), m < Len(q), m \in Good
      PROVE  m + 1 \in Good
  <2>1. PICK g : g = [n \in 1 .. m |-> Term(g, n)]
    BY <1>2
  <2> DEFINE h == [n \in 1 .. m + 1 |-> IF n <= m THEN g[n] ELSE Term(g, n)]
  <2>2. \A n \in 1 .. m + 1 : h[n] = Term(h, n)
    <3> SUFFICES ASSUME NEW n \in 1 .. m + 1 PROVE h[n] = Term(h, n)
      OBVIOUS
    <3>1. n # 1 => h[n - 1] = g[n - 1]
      BY <1>2
    <3>2. Term(h, n) = Term(g, n)
      BY <3>1
    <3>3. ASSUME n <= m PROVE g[n] = Term(g, n)
      <4>1. n \in 1 .. m
        BY <1>2, <3>3
      <4> HIDE DEF Term
      <4> QED BY <2>1, <4>1
    <3> QED BY <3>2, <3>3
  <2>3. h = [n \in 1 .. m + 1 |-> Term(h, n)]
    <3> HIDE DEF Term
    <3> QED BY <2>2
  <2> HIDE DEF h, Term
  <2> QED BY <1>2, <2>3
<1>3. PICK g : Reads(g, Len(q))
  <2> HIDE DEF Good
  <2>1. 0 .. Len(q) \subseteq Good
    BY <1>1, <1>2, CountUp
  <2>2. Len(q) \in Good
    BY <2>1
  <2> QED BY <2>2 DEF Good
<1>4. Reads(LookTo(q), Len(q))
  <2> HIDE DEF Term
  <2>1. LookTo(q) = CHOOSE h : Reads(h, Len(q))
    BY Zenon DEF LookTo, Term, LookNext
  <2> HIDE DEF Reads
  <2> QED BY <1>3, <2>1
<1>5. Q!Batched(q) = LookTo(q)[Len(q)]
  BY Zenon DEF Q!Batched, LookTo
<1> DEFINE u == LookTo(q)
<1>6. \A n \in 1 .. Len(q) : u[n] = Term(u, n)
  <2> HIDE DEF Term, u
  <2>1. u = [n \in 1 .. Len(q) |-> Term(u, n)]
    BY <1>4 DEF u
  <2> QED BY <2>1
<1> HIDE DEF u
<1>7. u[1] = First
  <2>1. 1 \in 1 .. Len(q)
    OBVIOUS
  <2>2. u[1] = Term(u, 1)
    BY <1>6, <2>1, Zenon
  <2> HIDE DEF First
  <2> QED BY <2>2
<1>8. ASSUME NEW n \in 2 .. Len(q) PROVE u[n] = LookNext(u[n - 1], q[n])
  <2>1. n \in 1 .. Len(q) /\ n # 1
    OBVIOUS
  <2> HIDE DEF First
  <2> QED BY <1>6, <2>1
<1> QED BY <1>5, <1>7, <1>8 DEF u

(* Functions that are extended at a key.                                   *)
LEMMA WithAt ==
  ASSUME NEW f, NEW x, NEW v
  PROVE  /\ DOMAIN With(f, x, v) = DOMAIN f \cup {x}
         /\ With(f, x, v)[x] = v
         /\ \A y \in DOMAIN f : y # x => With(f, x, v)[y] = f[y]
BY DEF With

LEMMA WithAgain ==
  ASSUME NEW f, NEW x, NEW v, NEW w
  PROVE  With(With(f, x, v), x, w) = With(f, x, w)
BY DEF With

LEMMA WithBoth ==
  ASSUME NEW f, NEW x, NEW y, NEW v, NEW w, x # y
  PROVE  With(With(f, x, v), y, w) = With(With(f, y, w), x, v)
BY DEF With

LEMMA WithSame ==
  ASSUME NEW f, NEW x \in DOMAIN f, f = [y \in DOMAIN f |-> f[y]]
  PROVE  With(f, x, f[x]) = f
BY DEF With

(* The effect e, but that the source x is left at v.                       *)
Put(e, x, v) == [last |-> e.last, log |-> e.log, at |-> With(e.at, x, v)]

IsEffect(e) == \E f, g, h, x, v, y, w :
  e = [last |-> With(f, x, v), log |-> g, at |-> With(h, y, w)]

LEMMA AfterIsEffect ==
  ASSUME NEW e, NEW m
  PROVE  IsEffect(After(e, m))
BY DEF IsEffect, After

LEMMA AfterFirst ==
  ASSUME NEW m, NEW j, Joinable(j, m)
  PROVE  After(Untouched, j) = Put(After(Untouched, m), Source(m), j.value)
<1> DEFINE x == Source(m)
           one(k) == [last |-> With(<<>>, x, What(m)),
                      log |-> Append(<<>>, <<x, What(m)>>),
                      at |-> With(<<>>, x, k.value)]
<1>1. ASSUME NEW k, Source(k) = x, What(k) = What(m)
      PROVE  After(Untouched, k) = one(k)
  <2>1. x \notin DOMAIN <<>>
    OBVIOUS
  <2> HIDE DEF x
  <2> QED BY <1>1, <2>1 DEF After, Untouched
<1>2. After(Untouched, m) = one(m) /\ After(Untouched, j) = one(j)
  BY <1>1 DEF Joinable
<1>3. With(With(<<>>, x, m.value), x, j.value) = With(<<>>, x, j.value)
  BY WithAgain
<1> HIDE DEF x
<1> QED BY <1>2, <1>3 DEF Put, x

(* A message that says what its source has said moves the source, at most. *)
LEMMA AfterAlike ==
  ASSUME NEW e, NEW m, IsEffect(e), ~IsEvent(m),
         Source(m) \in DOMAIN e.last, e.last[Source(m)] = What(m),
         Source(m) \in DOMAIN e.at
  PROVE  After(e, m) =
           Put(e, Source(m), IF m.magic \in Q!Sums
                               THEN e.at[Source(m)] + m.value ELSE m.value)
<1>1. e.last = [y \in DOMAIN e.last |-> e.last[y]]
  BY DEF IsEffect, With
<1>2. With(e.last, Source(m), What(m)) = e.last
  BY <1>1, WithSame
<1> QED BY <1>2 DEF After, Put

(* A message leaves the other sources where they are.                      *)
LEMMA AfterOther ==
  ASSUME NEW e, NEW m, NEW x, NEW v, Source(m) # x
  PROVE  /\ After(Put(e, x, v), m) = Put(After(e, m), x, v)
         /\ x \in DOMAIN e.last =>
              x \in DOMAIN After(e, m).last
                /\ After(e, m).last[x] = e.last[x]
         /\ x \in DOMAIN e.at =>
              x \in DOMAIN After(e, m).at /\ After(e, m).at[x] = e.at[x]
<1> DEFINE y == Source(m)
           told == /\ ~IsEvent(m) /\ y \in DOMAIN e.last
                   /\ e.last[y] = What(m)
           log == IF told THEN e.log ELSE Append(e.log, <<y, What(m)>>)
           to(f) == IF m.magic \in Q!Sums /\ y \in DOMAIN f
                      THEN f[y] + m.value ELSE m.value
           at(f) == With(f, y, to(f))
           last == With(e.last, y, What(m))
<1>1. After(e, m) = [last |-> last, log |-> log, at |-> at(e.at)]
  BY DEF After
<1>2. After(Put(e, x, v), m) =
        [last |-> last, log |-> log, at |-> at(With(e.at, x, v))]
  BY DEF After, Put
<1>3. to(With(e.at, x, v)) = to(e.at)
  <2>1. y \in DOMAIN With(e.at, x, v) <=> y \in DOMAIN e.at
    BY DEF With, y
  <2>2. y \in DOMAIN e.at => With(e.at, x, v)[y] = e.at[y]
    BY DEF With, y
  <2> HIDE DEF y
  <2> QED BY <2>1, <2>2
<1>4. at(With(e.at, x, v)) = With(at(e.at), x, v)
  <2> HIDE DEF to
  <2>1. at(With(e.at, x, v)) = With(With(e.at, x, v), y, to(e.at))
    BY <1>3
  <2>2. With(With(e.at, x, v), y, to(e.at)) = With(With(e.at, y, to(e.at)), x, v)
    BY WithBoth
  <2> QED BY <2>1, <2>2
<1>5. Put(After(e, m), x, v) =
        [last |-> last, log |-> log, at |-> With(at(e.at), x, v)]
  BY <1>1 DEF Put
<1>6. /\ After(e, m).last = last
      /\ After(e, m).at = at(e.at)
  BY <1>1
<1>7. x \in DOMAIN e.last => x \in DOMAIN last /\ last[x] = e.last[x]
  BY DEF With
<1> HIDE DEF to, log
<1>8. x \in DOMAIN e.at => x \in DOMAIN at(e.at) /\ at(e.at)[x] = e.at[x]
  BY DEF With
<1> HIDE DEF last, at
<1> QED BY <1>2, <1>4, <1>5, <1>6, <1>7, <1>8

(* What has been joined is a message from the same source that says the    *)
(* same, and leaves it where the two would have.                           *)
LEMMA JoinedAlike ==
  ASSUME NEW d, NEW s, Packet(d), Packet(s), Q!batch(d, s) = "batched"
  PROVE  /\ Source(Q!Joined(d, s)) = Source(d)
         /\ What(Q!Joined(d, s)) = What(d)
         /\ Q!Joined(d, s).value =
              IF s.magic \in Q!Sums THEN d.value + s.value ELSE s.value
<1>1. Joinable(d, s) /\ d.magic = s.magic
  BY BatchedAlike
<1>2. CASE d.magic \in Q!Sums
  <2> DEFINE j == [d EXCEPT !.value = @ + s.value]
  <2>1. d = M(d.magic, d.unit, d.pointer, d.mask, d.state, d.value)
    BY DEF Packet
  <2>2. /\ j.magic = d.magic /\ j.unit = d.unit /\ j.pointer = d.pointer
        /\ j.mask = d.mask /\ j.state = d.state
        /\ j.value = d.value + s.value
    BY <2>1 DEF M
  <2>3. Q!Joined(d, s) = j
    BY <1>2 DEF Q!Joined
  <2> HIDE DEF j
  <2>4. Source(j) = Source(d) /\ What(j) = What(d)
    BY <2>2, SourceParts
  <2> QED BY <1>1, <1>2, <2>2, <2>3, <2>4
<1>3. CASE d.magic \notin Q!Sums
  <2>1. Q!Joined(d, s) = s
    BY <1>3 DEF Q!Joined
  <2> QED BY <1>1, <1>3, <2>1 DEF Joinable
<1> QED BY <1>2, <1>3

(* What the loop of the drain keeps to while it looks at the messages of a *)
(* queue, which are of U: e is the effect of those it has looked at.       *)
Tracks(U, b, e) ==
  /\ b.sent \in U /\ b.left \in Seq(U)
  /\ b = [sent |-> b.sent, left |-> b.left, open |-> b.open]
  /\ IsEffect(e)
  /\ Effect(<<b.sent>> \o b.left) = e
  /\ b.open =>
       /\ Source(b.sent) \in DOMAIN e.last
       /\ e.last[Source(b.sent)] = What(b.sent)
       /\ Source(b.sent) \in DOMAIN e.at
       /\ e.at[Source(b.sent)] = b.sent.value
       /\ \A j \in U : Joinable(j, b.sent) =>
            Effect(<<j>> \o b.left) = Put(e, Source(b.sent), j.value)

LEMMA EffectOne ==
  ASSUME NEW U, NEW m \in U
  PROVE  /\ <<m>> \o <<>> = <<m>>
         /\ Effect(<<m>>) = After(Untouched, m)
<1>1. <<>> \in Seq(U) /\ Append(<<>>, m) = <<m>> /\ Len(<<>>) = 0
  OBVIOUS
<1>2. Effect(<<>>) = Untouched
  BY <1>1, EffectStep
<1>3. Effect(Append(<<>>, m)) = After(Effect(<<>>), m)
  BY ONLY <1>1, EffectAppend, m \in U
<1>4. <<m>> \o <<>> = <<m>>
  OBVIOUS
<1> QED BY <1>1, <1>2, <1>3, <1>4

LEMMA EffectLeft ==
  ASSUME NEW U, NEW j \in U, NEW left \in Seq(U), NEW m \in U
  PROVE  Effect(<<j>> \o Append(left, m)) = After(Effect(<<j>> \o left), m)
<1>1. /\ <<j>> \o left \in Seq(U)
      /\ <<j>> \o Append(left, m) = Append(<<j>> \o left, m)
  OBVIOUS
<1>2. Effect(Append(<<j>> \o left, m)) = After(Effect(<<j>> \o left), m)
  BY ONLY <1>1, EffectAppend, m \in U
<1> QED BY <1>1, <1>2

LEMMA TracksFirst ==
  ASSUME NEW U, NEW m \in U
  PROVE  Tracks(U, [sent |-> m, left |-> <<>>, open |-> TRUE],
                After(Untouched, m))
<1> DEFINE b == [sent |-> m, left |-> <<>>, open |-> TRUE]
           e == After(Untouched, m)
<1>1. b.sent = m /\ b.left = <<>> /\ <<>> \in Seq(U)
      /\ b = [sent |-> b.sent, left |-> b.left, open |-> b.open]
  OBVIOUS
<1>2. IsEffect(e) /\ Effect(<<m>> \o <<>>) = e
  BY AfterIsEffect, EffectOne
<1>3. /\ Source(m) \in DOMAIN e.last /\ e.last[Source(m)] = What(m)
      /\ Source(m) \in DOMAIN e.at /\ e.at[Source(m)] = m.value
  <2>1. Source(m) \notin DOMAIN <<>>
    OBVIOUS
  <2> QED BY <2>1 DEF After, Untouched, With
<1>4. ASSUME NEW j \in U, Joinable(j, m)
      PROVE  Effect(<<j>> \o <<>>) = Put(e, Source(m), j.value)
  BY <1>4, AfterFirst, EffectOne
<1> HIDE DEF b, e
<1> QED BY <1>1, <1>2, <1>3, <1>4 DEF Tracks, b, e

LEMMA TracksNext ==
  ASSUME NEW U, \A m \in U : Packet(m),
         \A d, s \in U : Q!batch(d, s) = "batched" => Q!Joined(d, s) \in U,
         NEW b, NEW e, Tracks(U, b, e), NEW m \in U
  PROVE  Tracks(U, LookNext(b, m), After(e, m))
<1> DEFINE d == b.sent
           verdict == Q!batch(d, m)
           x == Source(d)
           e2 == After(e, m)
           b2 == LookNext(b, m)
<1>1. /\ d \in U /\ b.left \in Seq(U)
      /\ b = [sent |-> d, left |-> b.left, open |-> b.open]
      /\ IsEffect(e) /\ Effect(<<d>> \o b.left) = e
      /\ Packet(d) /\ Packet(m)
  BY DEF Tracks
<1>2. ASSUME b.open
      PROVE  /\ x \in DOMAIN e.last /\ e.last[x] = What(d)
             /\ x \in DOMAIN e.at /\ e.at[x] = d.value
             /\ \A j \in U : Joinable(j, d) =>
                  Effect(<<j>> \o b.left) = Put(e, x, j.value)
  BY <1>2 DEF Tracks
<1>3. IsEffect(e2)
  BY AfterIsEffect
<1>4. CASE b.open /\ verdict = "batched"
  <2> DEFINE j == Q!Joined(d, m)
  <2>1. /\ j \in U /\ Joinable(d, m) /\ ~IsEvent(m)
        /\ Source(j) = x /\ What(j) = What(d)
        /\ j.value = IF m.magic \in Q!Sums THEN d.value + m.value
                                            ELSE m.value
    BY <1>1, <1>4, BatchedAlike, JoinedAlike
  <2>2. b2.sent = j /\ b2.left = b.left /\ b2.open = TRUE
        /\ b2 = [sent |-> b2.sent, left |-> b2.left, open |-> b2.open]
    <3> HIDE DEF j
    <3>1. b2 = [b EXCEPT !.sent = j]
      BY <1>4 DEF LookNext, j
    <3>2. b.open = TRUE
      BY <1>4
    <3> HIDE DEF b2
    <3> QED BY <1>1, <3>1, <3>2
  <2> HIDE DEF j, b2
  <2>3. e2 = Put(e, x, j.value)
    <3>1. Source(m) = x /\ What(m) = What(d)
      BY <2>1 DEF Joinable
    <3>2. After(e, m) =
            Put(e, Source(m), IF m.magic \in Q!Sums
                                THEN e.at[Source(m)] + m.value ELSE m.value)
      BY <1>1, <1>2, <1>4, <2>1, <3>1, AfterAlike
    <3> QED BY <1>2, <1>4, <2>1, <3>1, <3>2
  <2>4. e2.last = e.last /\ e2.log = e.log /\ e2.at = With(e.at, x, j.value)
    BY <2>3 DEF Put
  <2>5. Effect(<<j>> \o b.left) = e2
    BY <1>2, <1>4, <2>1, <2>3 DEF Joinable
  <2>6. x \in DOMAIN e2.at /\ e2.at[x] = j.value
    BY <2>4 DEF With
  <2>7. ASSUME NEW i \in U, Joinable(i, j)
        PROVE  Effect(<<i>> \o b.left) = Put(e2, x, i.value)
    <3>1. Effect(<<i>> \o b.left) = Put(e, x, i.value)
      BY <1>2, <1>4, <2>1, <2>7 DEF Joinable
    <3>2. With(e2.at, x, i.value) = With(e.at, x, i.value)
      BY <2>4, WithAgain
    <3> QED BY <2>4, <3>1, <3>2 DEF Put
  <2>8. /\ x \in DOMAIN e2.last /\ e2.last[x] = What(j)
        /\ Source(b2.sent) = x /\ b2.sent = j /\ b2.left = b.left
    BY <1>2, <1>4, <2>1, <2>2, <2>4
  <2> HIDE DEF e2, x
  <2>9. Tracks(U, b2, e2)
    BY <1>1, <1>3, <2>1, <2>2, <2>5, <2>6, <2>7, <2>8 DEF Tracks
  <2> QED BY <2>9 DEF b2, e2
<1>5. CASE ~(b.open /\ verdict = "batched")
  <2> DEFINE left == Append(b.left, m)
             open == b.open /\ verdict # "terminate"
  <2>1. b2.sent = d /\ b2.left = left /\ b2.open = open
        /\ b2 = [sent |-> b2.sent, left |-> b2.left, open |-> b2.open]
    <3> HIDE DEF left, open
    <3>1. b2 = [b EXCEPT !.left = left, !.open = open]
      BY <1>5 DEF LookNext, left, open
    <3> HIDE DEF b2
    <3> QED BY <1>1, <3>1
  <2>2. left \in Seq(U)
    BY <1>1
  <2>3. \A j \in U : Effect(<<j>> \o left) = After(Effect(<<j>> \o b.left), m)
    BY <1>1, EffectLeft
  <2>4. Effect(<<d>> \o left) = e2
    BY <1>1, <2>3
  <2> HIDE DEF left, b2
  <2>5. ASSUME open
        PROVE  /\ x \in DOMAIN e2.last /\ e2.last[x] = What(d)
               /\ x \in DOMAIN e2.at /\ e2.at[x] = d.value
               /\ \A j \in U : Joinable(j, d) =>
                    Effect(<<j>> \o left) = Put(e2, x, j.value)
    <3>1. Source(m) # x
      BY <1>1, <1>5, <2>5, OtherSource
    <3>2. /\ x \in DOMAIN e2.last /\ e2.last[x] = What(d)
          /\ x \in DOMAIN e2.at /\ e2.at[x] = d.value
      BY <1>2, <2>5, <3>1, AfterOther
    <3>3. ASSUME NEW j \in U, Joinable(j, d)
          PROVE  Effect(<<j>> \o left) = Put(e2, x, j.value)
      <4>1. Effect(<<j>> \o b.left) = Put(e, x, j.value)
        BY <1>2, <2>5, <3>3
      <4>2. After(Put(e, x, j.value), m) = Put(e2, x, j.value)
        BY <3>1, AfterOther
      <4> QED BY <2>3, <4>1, <4>2
    <3> QED BY <3>2, <3>3
  <2>6. Source(b2.sent) = x
    BY <2>1
  <2> HIDE DEF e2, x, open
  <2>7. Tracks(U, b2, e2)
    BY <1>1, <1>3, <2>1, <2>2, <2>4, <2>5, <2>6 DEF Tracks
  <2> QED BY <2>7 DEF b2, e2
<1> QED BY <1>4, <1>5

(* Batching a queue has the effect of its messages.                        *)
LEMMA BatchedEffect ==
  ASSUME NEW U, \A m \in U : Packet(m),
         \A d, s \in U : Q!batch(d, s) = "batched" => Q!Joined(d, s) \in U,
         NEW q \in Seq(U), q # <<>>
  PROVE  /\ Q!Batched(q).sent \in U /\ Q!Batched(q).left \in Seq(U)
         /\ Effect(<<Q!Batched(q).sent>> \o Q!Batched(q).left) = Effect(q)
<1> DEFINE look == LookTo(q)
           upto == EffectTo(q)
           Good == {k \in 0 .. Len(q) - 1 :
                      Tracks(U, look[k + 1], upto[k + 1])}
<1>1. Len(q) \in Nat /\ Len(q) >= 1 /\ Len(q) - 1 \in Nat
  OBVIOUS
<1>2. /\ Q!Batched(q) = look[Len(q)]
      /\ look[1] = [sent |-> q[1], left |-> <<>>, open |-> TRUE]
      /\ \A n \in 2 .. Len(q) : look[n] = LookNext(look[n - 1], q[n])
  BY <1>1, LookStep
<1>3. /\ Effect(q) = upto[Len(q)]
      /\ upto[0] = Untouched
      /\ \A n \in 1 .. Len(q) : upto[n] = After(upto[n - 1], q[n])
  BY <1>1, EffectStep
<1>4. \A n \in 1 .. Len(q) : q[n] \in U
  OBVIOUS
<1> HIDE DEF look, upto
<1>5. 0 \in Good
  <2>1. 1 \in 1 .. Len(q) /\ 0 \in 0 .. Len(q) - 1 /\ 0 + 1 = 1 /\ 1 - 1 = 0
    BY <1>1
  <2>2. upto[1] = After(upto[1 - 1], q[1]) /\ q[1] \in U
    BY <1>3, <1>4, <2>1
  <2>3. upto[1] = After(Untouched, q[1])
    BY <1>3, <2>1, <2>2
  <2>4. Tracks(U, look[1], upto[1])
    BY <1>2, <2>2, <2>3, TracksFirst
  <2> QED BY <2>1, <2>4
<1>6. ASSUME NEW k \in 0 .. Len(q) - 1, k < Len(q) - 1, k \in Good
      PROVE  k + 1 \in Good
  <2> DEFINE n == k + 2
  <2>1. /\ n \in 1 .. Len(q) /\ n \in 2 .. Len(q) /\ n - 1 = k + 1
        /\ k + 1 \in 0 .. Len(q) - 1 /\ (k + 1) + 1 = n
    BY <1>1, <1>6
  <2> HIDE DEF n
  <2>2. Tracks(U, look[k + 1], upto[k + 1])
    BY <1>6
  <2>3. look[n] = LookNext(look[n - 1], q[n])
    BY <1>2, <2>1
  <2>4. upto[n] = After(upto[n - 1], q[n])
    BY <1>3, <2>1
  <2>5. q[n] \in U
    BY <1>4, <2>1
  <2>6. Tracks(U, LookNext(look[k + 1], q[n]), After(upto[k + 1], q[n]))
    BY <2>2, <2>5, TracksNext
  <2> QED BY <2>1, <2>3, <2>4, <2>6
<1>7. Tracks(U, look[Len(q)], upto[Len(q)])
  <2>1. 0 .. Len(q) - 1 \subseteq Good
    <3> HIDE DEF Good
    <3> QED BY <1>1, <1>5, <1>6, CountUp
  <2>2. Len(q) - 1 \in 0 .. Len(q) - 1 /\ (Len(q) - 1) + 1 = Len(q)
    BY <1>1
  <2>3. Len(q) - 1 \in Good
    BY <2>1, <2>2
  <2> QED BY <2>2, <2>3
<1> QED BY <1>2, <1>3, <1>7 DEF Tracks

(* The messages of the clients and what they can be joined to.             *)
Sent(c) ==
  LET said == family[c]
  IN said \cup {[m EXCEPT !.value = v] :
                   m \in {s \in said : s.magic \in Q!Sums}, v \in Q!Short}

LEMMA SentIsClosed ==
  ASSUME family \in Clients, NEW c \in Inputs
  PROVE  /\ \A m \in Sent(c) : Packet(m)
         /\ \A d, s \in Sent(c) :
              Q!batch(d, s) = "batched" => Q!Joined(d, s) \in Sent(c)
<1> DEFINE said == family[c]
<1>1. \A m \in said : Packet(m)
  BY MessagesAssumption
<1> HIDE DEF said
<1>2. ASSUME NEW m \in said, m.magic \in Q!Sums, NEW v \in Q!Short
      PROVE  LET j == [m EXCEPT !.value = v]
             IN /\ Packet(j) /\ j.magic = m.magic
                /\ \A w : [j EXCEPT !.value = w] = [m EXCEPT !.value = w]
  <2> DEFINE j == [m EXCEPT !.value = v]
  <2>1. Packet(m)
    BY <1>1, <1>2
  <2>2. m = M(m.magic, m.unit, m.pointer, m.mask, m.state, m.value)
    BY <2>1 DEF Packet
  <2>3. /\ j \in [magic : {m.magic}, unit : {m.unit}, pointer : {m.pointer},
                  mask : {m.mask}, state : {m.state}, value : {v}]
        /\ \A w : [j EXCEPT !.value = w] = [m EXCEPT !.value = w]
    BY <2>2 DEF M
  <2>4. /\ m.unit = 0 /\ m.pointer = 0 /\ m.mask = 0 /\ m.state = 0
        /\ m.magic \notin {"pad", "padtouch", "motion", "touch"}
    BY <1>2, <2>1 DEF Packet, Q!Sums, Q!Batchable
  <2> HIDE DEF j
  <2>5. /\ j.magic = m.magic /\ j.unit = m.unit /\ j.pointer = m.pointer
        /\ j.mask = m.mask /\ j.state = m.state /\ j.value = v
        /\ j = M(j.magic, j.unit, j.pointer, j.mask, j.state, j.value)
    BY <2>3 DEF M
  <2>6. Packet(j)
    BY <1>2, <2>4, <2>5 DEF Packet
  <2> QED BY <2>3, <2>5, <2>6 DEF j
<1>3. ASSUME NEW m \in Sent(c) PROVE Packet(m)
  <2>1. CASE m \in said
    BY <1>1, <2>1
  <2>2. CASE m \notin said
    <3>1. PICK s \in said, v \in Q!Short :
            s.magic \in Q!Sums /\ m = [s EXCEPT !.value = v]
      BY <2>2 DEF Sent, said
    <3> QED BY <1>2, <3>1
  <2> QED BY <2>1, <2>2
<1>4. ASSUME NEW d \in Sent(c), NEW s \in Sent(c), Q!batch(d, s) = "batched"
      PROVE  Q!Joined(d, s) \in Sent(c)
  <2>1. CASE d.magic \notin Q!Sums
    BY <1>4, <2>1 DEF Q!Joined
  <2>2. CASE d.magic \in Q!Sums
    <3> DEFINE v == d.value + s.value
    <3>1. v \in Q!Short
      BY <1>3, <1>4, <2>2, BatchedAlike
    <3>2. Q!Joined(d, s) = [d EXCEPT !.value = v]
      BY <2>2 DEF Q!Joined
    <3> HIDE DEF v
    <3>3. CASE d \in said
      BY <2>2, <3>1, <3>2, <3>3 DEF Sent, said
    <3>4. CASE d \notin said
      <4>1. PICK m \in said, u \in Q!Short :
              m.magic \in Q!Sums /\ d = [m EXCEPT !.value = u]
        BY <3>4 DEF Sent, said
      <4>2. [d EXCEPT !.value = v] = [m EXCEPT !.value = v]
        BY <4>1, <1>2
      <4> QED BY <3>1, <3>2, <4>1, <4>2 DEF Sent, said
    <3> QED BY <3>3, <3>4
  <2> QED BY <2>1, <2>2
<1> QED BY <1>3, <1>4

(* What waits in a queue is what its client has sent, or has been joined.  *)
QueuesHold ==
  /\ family \in Clients
  /\ queue = [c \in Inputs |-> queue[c]]
  /\ \A c \in Inputs : queue[c] \in Seq(Sent(c))

LEMMA QueueStep ==
  ASSUME QueuesHold, [Q!InputQueueNext]_inputVars
  PROVE  QueuesHold'
<1>1. family' = family
  BY DEF Q!InputQueueNext, Q!passthrough, Q!reset, Q!alloc, Q!PushDrain,
     Q!AskChore, Q!ChoreIsDue, Q!Worker, Q!BeginReady, Q!BeginDue, Q!RunOther,
     Q!DrainSteps, Q!DrainTake, Q!DrainHandle, Q!DrainEnds, Q!DrainYields,
     Q!controlVars, inputVars
<1>2. ASSUME NEW c \in Inputs PROVE Sent(c)' = Sent(c)
  BY <1>1 DEF Sent, Q!Sums, Q!Short
<1>3. CASE queue' = queue
  BY <1>1, <1>2, <1>3 DEF QueuesHold
<1>4. ASSUME NEW d \in Inputs, NEW s \in Seq(Sent(d)),
             queue' = [queue EXCEPT ![d] = s]
      PROVE  QueuesHold'
  BY <1>1, <1>2, <1>4 DEF QueuesHold
<1>5. ASSUME NEW c \in Inputs, NEW m \in family[c], Q!passthrough(c, m)
      PROVE  QueuesHold'
  <2>1. queue' = [queue EXCEPT ![c] = Append(queue[c], m)]
    BY <1>5 DEF Q!passthrough
  <2>2. m \in Sent(c)
    BY DEF Sent
  <2>3. queue[c] \in Seq(Sent(c))
    BY DEF QueuesHold
  <2>4. Append(queue[c], m) \in Seq(Sent(c))
    BY <2>2, <2>3
  <2> QED BY <1>4, <2>1, <2>4
<1>6. ASSUME NEW c \in Inputs, Q!DrainTake(c) PROVE QueuesHold'
  <2>1. queue' = [queue EXCEPT ![c] = Q!Batched(queue[c]).left]
    BY <1>6 DEF Q!DrainTake
  <2>2. Q!Batched(queue[c]).left \in Seq(Sent(c))
    BY <1>6, SentIsClosed, BatchedEffect DEF QueuesHold, Q!DrainTake
  <2> QED BY <1>4, <2>1, <2>2
<1> QED
  BY <1>3, <1>5, <1>6
  DEF Q!InputQueueNext, Q!reset, Q!alloc, Q!PushDrain,
     Q!AskChore, Q!ChoreIsDue, Q!Worker, Q!BeginReady, Q!BeginDue, Q!RunOther,
     Q!DrainSteps, Q!DrainHandle, Q!DrainEnds, Q!DrainYields, inputVars

LEMMA DrainsDiffer ==
  ASSUME NEW c, NEW d, Q!Drain(c) = Q!Drain(d)
  PROVE  c = d
BY DEF Q!Drain

(* Only the drain that takes a message changes what is being handed over.  *)
LEMMA TakeKeepsChanges ==
  ASSUME QueuesHold, [Q!InputQueueNext]_inputVars, NEW c \in Inputs,
         drain_running = Q!Drain(c), entry = None, entry' # None
  PROVE  /\ Effect(<<entry'>> \o queue'[c]) = Effect(queue[c])
         /\ entry'.magic \in Q!Sums => entry'.value \in Q!Short
<1>1. PICK d \in Inputs : Q!DrainTake(d)
  BY DEF Q!InputQueueNext, Q!passthrough, Q!reset, Q!alloc, Q!PushDrain,
     Q!AskChore, Q!ChoreIsDue, Q!Worker, Q!BeginReady, Q!BeginDue, Q!RunOther,
     Q!DrainSteps, Q!DrainHandle, Q!DrainEnds, Q!DrainYields,
     Q!drainVars, inputVars
<1>2. Q!DrainTake(c)
  <2>1. c = d
    BY <1>1, DrainsDiffer DEF Q!DrainTake
  <2> QED BY <1>1, <2>1
<1> DEFINE q == queue[c]
           b == Q!Batched(q)
<1>3. q \in Seq(Sent(c)) /\ q # <<>>
  BY <1>2 DEF QueuesHold, Q!DrainTake
<1>4. entry' = b.sent /\ queue'[c] = b.left
  BY <1>2 DEF QueuesHold, Q!DrainTake
<1>5. b.sent \in Sent(c) /\ Effect(<<b.sent>> \o b.left) = Effect(q)
  BY <1>3, SentIsClosed, BatchedEffect DEF QueuesHold
<1> HIDE DEF b
<1>6. Packet(b.sent)
  BY <1>5, SentIsClosed DEF QueuesHold
<1>7. b.sent.magic \in Q!Sums => b.sent.value \in Q!Short
  BY <1>6 DEF Packet, Q!Batchable
<1> QED BY <1>4, <1>5, <1>7

(* What a drain hands to the operating system does what the messages it    *)
(* was made from would have done, whatever the clients send.               *)
THEOREM BatchingLossless == SuiteSpec => BatchingKeepsChanges
<1>1. SuiteInit => QueuesHold
  BY DEF SuiteInit, Q!Init, QueuesHold
<1>2. [SuiteNext]_allVars => [Q!InputQueueNext]_inputVars
  BY DEF SuiteNext, allVars
<1>3. QueuesHold /\ [SuiteNext]_allVars => QueuesHold'
  BY <1>2, QueueStep
<1> DEFINE Lossless ==
      \A c \in Inputs :
        drain_running = Q!Drain(c) /\ entry = None /\ entry' # None =>
          LET after == <<entry'>> \o queue'[c]
          IN /\ Effect(after) = Effect(queue[c])
             /\ entry'.magic \in Q!Sums => entry'.value \in Q!Short
<1>4. QueuesHold /\ [SuiteNext]_allVars => [Lossless]_inputVars
  BY <1>2, TakeKeepsChanges
<1>5. BatchingKeepsChanges <=> [][Lossless]_inputVars
  BY PTL DEF BatchingKeepsChanges
<1> HIDE DEF Lossless
<1> QED BY <1>1, <1>3, <1>4, <1>5, PTL DEF SuiteSpec
=============================================================================
