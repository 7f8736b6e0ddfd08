--------------------------- MODULE WindowsGamepads --------------------------
(***************************************************************************)
(* The virtual gamepads of Windows (src/platform/windows/input.cpp,        *)
(* vigem_t): the slots that keep one gamepad after another, the fingers on *)
(* the touchpad of a DualShock, and what a game tells a gamepad, which     *)
(* comes on a thread of the driver and goes back through the task pool.    *)
(*                                                                         *)
(* All that the client asks for runs in the task pool, too; its one worker *)
(* does one thing after the other.  ViGEmBus is external.  assert() is not *)
(* compiled into the build.                                                *)
(***************************************************************************)
EXTENDS Integers, Sequences, FiniteSets, Functions

CONSTANTS
  Clients,     \* clientRelativeIndex: the client's gamepads
  Slots,       \* globalIndex; 16 in the code
  Targets,     \* external: the addresses that vigem_target_*_alloc returns
  Fingers,     \* the pointer ids that the client uses
  Values,      \* of a motor, or of the colour; 0 at first
  None,
  MaxArrivals, MaxFailures, MaxTasks \* bounds

VARIABLES
  gamepads,    \* gamepad_context_t of each slot
  connected,   \* whether there is a connection to the driver (client)
  gamepadMask, \* input.cpp: the gamepad of the client that has the slot
  tasks,       \* what the worker has yet to pass on to the client
  game,        \* what the game has last set, for each target
  felt,        \* what the client has been told, for each of its gamepads
  arrivals, failures,
  confused,    \* history: slots whose fingers are no longer those they were
  inherited    \* history: slots with what was set for a gamepad before

vars == <<gamepads, connected, gamepadMask, tasks, game, felt, arrivals,
          failures, confused, inherited>>
bounds == <<arrivals, failures>>

Feedback == {"rumble", "rgb_led"}
Still == [what \in Feedback |-> 0]
Kinds == {"x360", "ds4"}
Index == {0, 1}   \* of a finger on the touchpad

Init ==
  /\ gamepads =
       [s \in Slots |->
          [gp |-> None, kind |-> "x360", attached |-> FALSE,
           client |-> None, available |-> {}, pointers |-> <<>>,
           raised |-> Index, last |-> Still, repeat |-> FALSE, lost |-> FALSE]]
  /\ connected = FALSE /\ gamepadMask = [s \in Slots |-> None]
  /\ tasks = <<>> /\ game = [t \in Targets |-> Still]
  /\ felt = [c \in Clients |-> Still]
  /\ arrivals = 0 /\ failures = 0 /\ confused = {} /\ inherited = {}

Attached(g) == g.gp # None /\ g.attached
Owns(c, s) == gamepadMask[s] = c

CanFail(fails) ==
  /\ failures' = failures + (IF fails THEN 1 ELSE 0)
  /\ failures' <= MaxFailures

-----------------------------------------------------------------------------
(* alloc_gamepad, which input.cpp calls with the first free id.  What the  *)
(* gamepad before has left stays: its map of fingers, and what was passed  *)
(* on of it last.  When the driver does not take the gamepad the slot      *)
(* keeps it all the same.                                                  *)
Arrived(g, c, kind, t, added) ==
  [g EXCEPT
     !.gp = t, !.kind = kind, !.attached = added, !.client = c,
     !.available = IF kind = "ds4" THEN Index ELSE @,
     !.raised = IF kind = "ds4" THEN Index ELSE @]

alloc_gamepad(c, s, kind, t, result) ==
  /\ \A i \in Slots : gamepadMask[i] # c
  /\ gamepadMask[s] = None /\ \A i \in Slots : i < s => gamepadMask[i] # None
  /\ \A i \in Slots : gamepads[i].gp # t
  /\ arrivals < MaxArrivals /\ arrivals' = arrivals + 1
  /\ CanFail(result # "ok")
  /\ result = "unconnected" => ~connected
  /\ connected' = (result # "unconnected")
  /\ gamepads' = [gamepads EXCEPT ![s] =
                    IF result = "unconnected" THEN [@ EXCEPT !.client = c]
                    ELSE Arrived(@, c, kind, t, result = "ok")]
  /\ IF result # "ok"
     THEN UNCHANGED <<gamepadMask, felt, confused, inherited>>
     ELSE /\ gamepadMask' = [gamepadMask EXCEPT ![s] = c]
          /\ felt' = [felt EXCEPT ![c] = Still]
          /\ confused' = IF gamepads[s].pointers # <<>> /\ kind = "ds4"
                         THEN confused \cup {s} ELSE confused \ {s}
          /\ inherited' =
               IF \/ gamepads[s].last # Still
                  \/ \E k \in DOMAIN tasks : tasks[k].target = t
               THEN inherited \cup {s} ELSE inherited \ {s}
  /\ game' = [game EXCEPT ![t] = Still]
  /\ UNCHANGED tasks

NoneAttached(s) == \A i \in Slots \ {s} : ~Attached(gamepads[i])

(* free_target, after gamepad_update has released all buttons.  It         *)
(* disconnects when no gamepad is attached.                                *)
free_gamepad(c, s) ==
  /\ Owns(c, s)
  /\ gamepadMask' = [gamepadMask EXCEPT ![s] = None]
  /\ gamepads' = [gamepads EXCEPT ![s] =
                    [@ EXCEPT !.gp = None, !.attached = FALSE,
                              !.repeat = FALSE, !.lost = FALSE]]
  /\ connected' = (connected /\ ~NoneAttached(s))
  /\ UNCHANGED <<tasks, game, felt, bounds, confused, inherited>>

-----------------------------------------------------------------------------
(* ds4_update_ts_and_send: a repeat that waits is replaced; if the report  *)
(* cannot be sent there is none.                                           *)
ds4_update_ts_and_send(g, fails) ==
  IF ~Attached(g) THEN [g EXCEPT !.repeat = FALSE]
  ELSE [g EXCEPT !.repeat = ~fails, !.lost = fails]

(* gamepad_update of a DualShock, gamepad_motion and gamepad_battery: what *)
(* the report has of buttons, sensors and battery is left out.             *)
gamepad_update(c, s, fails) ==
  /\ Owns(c, s) /\ gamepads[s].kind = "ds4" /\ CanFail(fails)
  /\ gamepads' = [gamepads EXCEPT ![s] = ds4_update_ts_and_send(@, fails)]
  /\ UNCHANGED <<connected, gamepadMask, tasks, game, felt, arrivals,
                 confused, inherited>>

Repeat(s, fails) ==
  /\ gamepads[s].repeat /\ CanFail(fails)
  /\ gamepads' = [gamepads EXCEPT ![s] = ds4_update_ts_and_send(@, fails)]
  /\ UNCHANGED <<connected, gamepadMask, tasks, game, felt, arrivals,
                 confused, inherited>>

First(available) == IF 0 \in available THEN 0 ELSE 1

\* A finger comes down: it takes a free index, whatever it had before.
Down(g, f) ==
  LET i == First(g.available)
      now == [x \in DOMAIN g.pointers \cup {f} |->
                IF x = f THEN i ELSE g.pointers[x]]
  IN [g EXCEPT !.pointers = now, !.available = @ \ {i}, !.raised = @ \ {i}]

\* mutant: the index is not given back
KeepsIndex(g, f) ==
  [g EXCEPT !.raised = @ \cup {g.pointers[f]},
            !.pointers = Restrict(@, DOMAIN @ \ {f})]

Up(g, f) ==
  LET i == g.pointers[f]
  IN [g EXCEPT !.raised = @ \cup {i}, !.available = @ \cup {i},
               !.pointers = Restrict(@, DOMAIN @ \ {f})]

AllUp(g) ==
  [g EXCEPT !.raised = Index, !.available = Index, !.pointers = <<>>]

(* gamepad_touch: a finger too many, and one that is not known, are not    *)
(* passed on.                                                              *)
gamepad_touch(c, s, e, f, fails) ==
  LET g == gamepads[s] IN
  /\ Owns(c, s) /\ g.kind = "ds4" /\ CanFail(fails)
  /\ e = "down" => g.available # {}
  /\ e \in {"up", "move"} => f \in DOMAIN g.pointers
  /\ gamepads' = [gamepads EXCEPT ![s] =
                    ds4_update_ts_and_send(
                      CASE e = "down" -> Down(g, f)
                        [] e = "up" -> Up(g, f)
                        [] e = "move" -> g
                        [] e = "cancel_all" -> AllUp(g), fails)]
  /\ confused' = IF e = "down" /\ f \in DOMAIN g.pointers
                 THEN confused \cup {s}
                 ELSE IF e = "cancel_all" THEN confused \ {s} ELSE confused
  /\ UNCHANGED <<connected, gamepadMask, tasks, game, felt, arrivals,
                 inherited>>

-----------------------------------------------------------------------------
Task(t, what, v) == [target |-> t, what |-> what, value |-> v]

(* x360_notify and ds4_notify, on a thread of the driver.                  *)
Notify(s, what, v) ==
  LET t == gamepads[s].gp
      set == [game[t] EXCEPT ![what] = v]
  IN /\ Attached(gamepads[s]) /\ Len(tasks) + 2 <= MaxTasks
     /\ gamepads[s].kind = "x360" => what = "rumble"
     /\ game' = [game EXCEPT ![t] = set]
     /\ tasks' = tasks \o <<Task(t, "rumble", set.rumble)>>
                   \o IF gamepads[s].kind = "x360" THEN <<>>
                      ELSE <<Task(t, "rgb_led", set.rgb_led)>>
     /\ UNCHANGED <<gamepads, connected, gamepadMask, felt, bounds, confused,
                    inherited>>

ForgetsTold(g, task) == g   \* mutant: what has been told is not noted

\* What the client has been told last, last_rumble or last_rgb_led.
Told(g, task) == [g EXCEPT !.last[task.what] = task.value]

(* rumble and set_rgb_led: the first slot with the target; what the client *)
(* has been told last is not told again.  A slot whose gamepad the driver  *)
(* has not taken is searched as well, and has the client's number: the     *)
(* client may have its gamepad in another slot by then.                    *)
rumble ==
  LET task == Head(tasks)
      its == {s \in Slots : gamepads[s].gp = task.target}
      s == CHOOSE i \in its : \A j \in its : i <= j
      new == its # {} /\ gamepads[s].last[task.what] # task.value
  IN /\ tasks # <<>> /\ tasks' = Tail(tasks)
     /\ IF new
        THEN /\ felt' = [felt EXCEPT ![gamepads[s].client][task.what] =
                           task.value]
             /\ gamepads' = [gamepads EXCEPT ![s] = Told(@, task)]
             /\ inherited' =
                  inherited \cup
                    {r \in Slots \ {s} : Owns(gamepads[s].client, r)}
        ELSE UNCHANGED <<felt, gamepads, inherited>>
     /\ UNCHANGED <<connected, gamepadMask, game, bounds, confused>>

Next ==
  \/ \E c \in Clients, s \in Slots :
       \/ \E kind \in Kinds, t \in Targets,
             result \in {"ok", "unconnected", "refused"} :
            alloc_gamepad(c, s, kind, t, result)
       \/ free_gamepad(c, s)
       \/ \E fails \in BOOLEAN :
            \/ gamepad_update(c, s, fails)
            \/ \E e \in {"down", "up", "move", "cancel_all"}, f \in Fingers :
                 gamepad_touch(c, s, e, f, fails)
  \/ \E s \in Slots, fails \in BOOLEAN : Repeat(s, fails)
  \/ \E s \in Slots, what \in Feedback, v \in Values : Notify(s, what, v)
  \/ rumble

Spec == Init /\ [][Next]_vars

-----------------------------------------------------------------------------
(* When nothing is on its way, the client's gamepad does what the game has *)
(* set, whatever the driver refuses: unless its slot has been another      *)
(* gamepad's that was left rumbling, or one before it is told of under an  *)
(* address that is used again (rumble, set_rgb_led,                        *)
(* alloc_gamepad_internal).                                                *)
FeelsTheGame ==
  tasks = <<>> =>
    \A s \in Slots \ inherited :
      gamepadMask[s] # None => felt[gamepadMask[s]] = game[gamepads[s].gp]

(* Each finger on a touchpad has an index of its own, which is down, and   *)
(* the others are free and up; until the client repeats a finger, or a     *)
(* gamepad leaves with one down (gamepad_touch).                           *)
FingersFit(g) ==
  /\ IsInjective(g.pointers)
  /\ g.available = Index \ Range(g.pointers)
  /\ g.raised = g.available
FingersHaveIndexes ==
  \A s \in Slots \ confused :
    gamepadMask[s] # None /\ gamepads[s].kind = "ds4" =>
      FingersFit(gamepads[s])

(* A DualShock that has been sent a report is sent more, and one that is   *)
(* gone is not; the driver is there for those that are attached            *)
(* (ds4_update_ts_and_send, free_target).                                  *)
GamepadsAreServed ==
  /\ \A s \in Slots :
       /\ gamepads[s].repeat => gamepadMask[s] # None
       /\ gamepads[s].repeat => ~gamepads[s].lost
       /\ gamepadMask[s] # None => connected /\ Attached(gamepads[s])
  /\ connected /\ failures = 0 => \E s \in Slots : gamepadMask[s] # None

GamepadsFollowClient ==
  FeelsTheGame /\ FingersHaveIndexes /\ GamepadsAreServed

-----------------------------------------------------------------------------
(* What makes these inductive: Base and Fed.                               *)
Levels == [Feedback -> Values \cup {0}]
Touches == UNION {[some -> Index] : some \in SUBSET Fingers}
Pads ==
  [gp : Targets \cup {None}, kind : Kinds, attached : BOOLEAN,
   client : Clients \cup {None}, available : SUBSET Index,
   pointers : Touches, raised : SUBSET Index, last : Levels,
   repeat : BOOLEAN, lost : BOOLEAN]
Tasks == [target : Targets, what : Feedback, value : Values \cup {0}]

TypeOK ==
  /\ gamepads \in [Slots -> Pads] /\ connected \in BOOLEAN
  /\ gamepadMask \in [Slots -> Clients \cup {None}]
  /\ tasks \in Seq(Tasks)
  /\ game \in [Targets -> Levels] /\ felt \in [Clients -> Levels]
  /\ arrivals \in Nat /\ failures \in Nat
  /\ confused \subseteq Slots /\ inherited \subseteq Slots

\* No two slots are of one client's gamepad, or of one of the driver's.
SlotsDiffer ==
  \A s, r \in Slots :
    /\ gamepadMask[s] # None /\ gamepadMask[s] = gamepadMask[r] => s = r
    /\ gamepads[s].gp # None /\ gamepads[s].gp = gamepads[r].gp => s = r

OwnersAreKnown ==
  /\ \A s \in Slots :
       gamepadMask[s] # None => gamepads[s].client = gamepadMask[s]
  /\ failures = 0 =>
       \A s \in Slots :
         gamepads[s].gp # None \/ gamepads[s].attached =>
           gamepadMask[s] # None

Base ==
  /\ TypeOK /\ SlotsDiffer /\ OwnersAreKnown
  /\ FingersHaveIndexes /\ GamepadsAreServed

\* The last task about one thing is to pass v on; or there is none.
Of(task, t, what) == task.target = t /\ task.what = what
EndsWith(queue, t, what, v) ==
  \E k \in 1 .. Len(queue) :
    /\ queue[k] = Task(t, what, v)
    /\ \A j \in 1 .. Len(queue) : j > k => ~Of(queue[j], t, what)
Without(queue, t, what) ==
  \A j \in 1 .. Len(queue) : ~Of(queue[j], t, what)

\* What the game has set last is on its way, or has been felt.
Comes(t, what, level) ==
  \/ EndsWith(tasks, t, what, game[t][what])
  \/ Without(tasks, t, what) /\ level = game[t][what]

Fed ==
  \A s \in Slots \ inherited :
    gamepadMask[s] # None =>
      /\ gamepads[s].last = felt[gamepadMask[s]]
      /\ \A what \in Feedback :
           Comes(gamepads[s].gp, what, felt[gamepadMask[s]][what])
=============================================================================
