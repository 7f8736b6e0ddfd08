------------------------------ MODULE MCInput -------------------------------
(***************************************************************************)
(* The task pool and the input that goes through it, in three parts: the   *)
(* pool itself (TaskPool), the queue of a client's messages and its drains *)
(* (InputQueue), and what the handlers that a drain calls keep between     *)
(* messages (InputDevices). A behaviour is about one of the parts; the     *)
(* others stay idle, as none looks at the variables of another.            *)
(***************************************************************************)
EXTENDS TaskPool, Integers, Sequences, TLC

CONSTANTS
  t1, t2, t3, w1, w2,
  Inputs, Clients, MaxQueue, MaxReady, MaxPerDrain, MaxShort,
  c1, c2, Disabled, Keys, Pads, Slots, Ids, MaxTimers, MaxEnding,
  Configs

VARIABLES
  part,
  family, attached, queue, pending, owing, ready, due, chore,
  drain_running, processed, entry,
  enabled, session, seen, mouse_press, down, delay, key_press,
  repeat, pad, gamepadMask, device_timers, releasing, freeing, robbed

Q == INSTANCE InputQueue WITH running <- drain_running
D == INSTANCE InputDevices WITH timers <- device_timers

ASSUME DevicesAssumption ==
  /\ None \notin Slots
  /\ None \notin Ids /\ Disabled \notin Ids

poolVars == <<now, tasks, timers, begun, dropped, going, started, pc,
              running, wake, notified>>
inputVars == <<family, attached, queue, pending, owing, ready, due, chore,
               drain_running, processed, entry>>
deviceVars == <<enabled, session, seen, mouse_press, down, delay, key_press,
                repeat, pad, gamepadMask, device_timers, releasing, freeing,
                robbed>>
allVars == <<part, poolVars, inputVars, deviceVars>>

-----------------------------------------------------------------------------
(* Three tasks, any of them to run at once or after a delay, and a clock   *)
(* that runs past the deadlines of tasks pushed late.                      *)

MCTasks == {t1, t2, t3}
MCWorkers == {w1, w2}
MCDelays == {0, 2}

(* One task is like another, so that only the behaviours that use t1 first *)
(* and t3 last are looked at; what a caller does is subject to no fairness.*)
Used(t) == ~Fresh(t)
InTurn == (Used(t2) => Used(t1)) /\ (Used(t3) => Used(t2))

-----------------------------------------------------------------------------
(* Two clients that send keys, or one that sends what can be joined, a     *)
(* kind of device at a time.                                               *)

M(magic, unit, pointer, mask, state, value) ==
  [magic |-> magic, unit |-> unit, pointer |-> pointer, mask |-> mask,
   state |-> state, value |-> value]

Key(state) == M("key", "k", 0, 0, state, 0)
Deltas ==
  {M("rel", 0, 0, 0, 0, -2), M("rel", 0, 0, 0, 0, 1), Key("up")}
Positions ==
  {M("abs", 0, 0, 0, "small", 1), M("abs", 0, 0, 0, "small", 2),
   M("abs", 0, 0, 0, "large", 1)}
PadStates ==
  {M("pad", 1, 0, 3, "up", 1), M("pad", 1, 0, 3, "up", 2),
   M("pad", 1, 0, 3, "down", 1), M("pad", 2, 0, 3, "up", 1),
   M("pad", 1, 0, 1, "up", 1)}
Touches ==
  {M("touch", 0, 1, 0, "move", 1), M("touch", 0, 1, 0, "move", 2),
   M("touch", 0, 2, 0, "move", 1), M("touch", 0, 2, 0, "down", 1)}
Strokes ==
  {M("pen", 0, 0, 0, <<"move", "up">>, 1),
   M("pen", 0, 0, 0, <<"move", "up">>, 2),
   M("pen", 0, 0, 0, <<"move", "down">>, 1)}
PadTouches ==
  {M("padtouch", 1, 1, 0, "move", 1), M("padtouch", 1, 1, 0, "move", 2),
   M("padtouch", 2, 1, 0, "down", 1), M("padtouch", 1, 1, 0, "down", 1)}
Motions ==
  {M("motion", 1, "gyro", 0, 0, 1), M("motion", 1, "gyro", 0, 0, 2),
   M("motion", 2, "gyro", 0, 0, 1)}

Devices ==
  {Deltas, Positions, PadStates, Touches, Strokes, PadTouches, Motions}

Nobody == [c \in {c1, c2} |-> {}]
MCClients ==
  {Nobody} \cup {(c1 :> d @@ c2 :> {}) : d \in Devices}
    \cup {(c1 :> {Key("down")} @@ c2 :> {Key("down")})}
MCInputs == {c1, c2}

Both == {"keyboard", "controller"}
MCConfigs == {{}, {"mouse"}, {"keyboard"}, {"controller"}, Both}
MCIds == 1 .. 3
MCSlots == 1 .. 2

\* A message has what its kind of packet has, and no more.
Packet(m) ==
  /\ m = M(m.magic, m.unit, m.pointer, m.mask, m.state, m.value)
  /\ m.magic \in Q!Batchable =>
       /\ m.magic \notin {"pad", "padtouch", "motion"} => m.unit = 0
       /\ m.magic \notin {"touch", "padtouch", "motion"} => m.pointer = 0
       /\ m.magic # "pad" => m.mask = 0
       /\ m.magic \in Q!Sums \cup {"motion"} => m.state = 0
       /\ m.magic \in Q!Sums => m.value \in Q!Short

ASSUME MessagesAssumption ==
  \A f \in Clients : \A c \in Inputs : \A m \in f[c] : Packet(m)

(* Where clients have both, for what the repeat of a key and a HOME button *)
(* do to each other, the controller is that of a client who stays, one key *)
(* is held at a time. A timer is at the first address that is free.        *)
Apart ==
  enabled = Both =>
    /\ session[c2] = "live"
    /\ pad[c1] = [p \in Pads |-> D!NoPad]
    /\ \A k, l \in Keys : key_press[k] /\ key_press[l] => k = l

InFirstPlace ==
  LET unused == D!Unused(device_timers)
  IN \A t \in device_timers' :
       t.id \in unused => \A j \in unused : t.id <= j

SuiteInit ==
  /\ Init /\ Q!Init /\ D!Init
  /\ part \in {"pool", "queue", "devices"}
  /\ (part = "queue") = (family # Nobody)
  /\ (part = "devices") = (enabled # {})

SuiteNext ==
  \/ /\ part = "pool" /\ Next /\ InTurn'
     /\ UNCHANGED <<part, inputVars, deviceVars>>
  \/ /\ part = "queue" /\ Q!InputQueueNext
     /\ UNCHANGED <<part, poolVars, deviceVars>>
  \/ /\ part = "devices" /\ D!Next /\ Apart' /\ InFirstPlace
     /\ UNCHANGED <<part, poolVars, inputVars>>

(* The fairness of TaskPool, when the behaviour is about it.               *)
PoolFairness ==
  /\ WF_poolVars(part = "pool" /\ Start)
  /\ WF_poolVars(part = "pool" /\ Tick)
  /\ \A w \in Workers :
       /\ WF_poolVars(part = "pool" /\ Work(w))
       /\ WF_poolVars(part = "pool" /\ MustWake(w) /\ Wake(w))

SuiteSpec ==
  /\ SuiteInit /\ [][SuiteNext]_allVars
  /\ PoolFairness /\ Q!Fairness /\ D!Fairness

-----------------------------------------------------------------------------
Source(m) == <<m.magic, m.unit, m.pointer>>
What(m) == <<m.mask, m.state>>
IsEvent(m) ==
  \/ m.magic \notin Q!Batchable
  \/ m.magic \in {"touch", "padtouch"} /\ m.state \notin Q!Moves

(* What messages do, one after another: what has last been said of each    *)
(* source, the changes of that and the events that are never joined, and   *)
(* where they leave the source: the sum of its deltas, or its last value.  *)
With(f, x, v) == [y \in DOMAIN f \cup {x} |-> IF y = x THEN v ELSE f[y]]

Untouched == [last |-> <<>>, log |-> <<>>, at |-> <<>>]

After(e, m) ==
  LET known == Source(m) \in DOMAIN e.last
      told == ~IsEvent(m) /\ known /\ e.last[Source(m)] = What(m)
      adds == m.magic \in Q!Sums /\ Source(m) \in DOMAIN e.at
  IN [last |-> With(e.last, Source(m), What(m)),
      log |-> IF told THEN e.log ELSE Append(e.log, <<Source(m), What(m)>>),
      at |-> With(e.at, Source(m),
                  IF adds THEN e.at[Source(m)] + m.value ELSE m.value)]

Effect(s) ==
  LET upto[n \in 0 .. Len(s)] ==
        IF n = 0 THEN Untouched ELSE After(upto[n - 1], s[n])
  IN upto[Len(s)]

(* Joining messages loses none of the changes the client has made, keeps   *)
(* their order, moves everything to the same place in the end, and never   *)
(* makes a delta that does not fit a short (the batch functions of         *)
(* input.cpp).                                                             *)
BatchingKeepsChanges ==
  [][\A c \in Inputs :
       drain_running = Q!Drain(c) /\ entry = None /\ entry' # None =>
         LET after == <<entry'>> \o queue'[c]
         IN /\ Effect(after) = Effect(queue[c])
            /\ entry'.magic \in Q!Sums => entry'.value \in Q!Short]_inputVars

-----------------------------------------------------------------------------
(* The properties of InputQueue and InputDevices, stated there.            *)
SingleFlight == Q!SingleFlight
InputsAreTaken == Q!InputsAreTaken
LateTasksFit == D!LateTasksFit
RepeatsStop == D!RepeatsStop
=============================================================================
