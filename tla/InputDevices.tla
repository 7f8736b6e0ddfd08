---------------------------- MODULE InputDevices ----------------------------
(***************************************************************************)
(* What the handlers of input messages keep and leave to timers            *)
(* (src/input.cpp): the late release of the left mouse button, the repeat  *)
(* of a key that is held, and the HOME button that a controller without    *)
(* one gets by holding BACK; and the slots of the operating system that    *)
(* controllers occupy. Handlers and timers run one after the other on the  *)
(* worker of the task pool (see InputQueue for how messages get there), in *)
(* any order here; reset comes from the thread that ends a session. The id *)
(* of a timer is the address of its task, which is free when it has run or *)
(* been cancelled: who still notes it may cancel another timer by it.      *)
(***************************************************************************)
EXTENDS Naturals, FiniteSets

CONSTANTS
  Inputs,    \* input_t: one per session
  Keys,
  Pads,      \* controller numbers of a client
  Slots,     \* of the operating system, platf::MAX_GAMEPADS
  Ids,       \* task_id_t: where the tasks of timers are allocated
  MaxTimers, \* bound of the timers when a handler asks for another one
  MaxEnding, \* bound of the sessions that end at the same time
  Configs,   \* subsets of {"mouse", "keyboard", "controller"}
  None,      \* nullptr, ENABLE_LEFT_BUTTON_DELAY
  Disabled   \* DISABLE_LEFT_BUTTON_DELAY

VARIABLES
  enabled,      \* config::input
  session,      \* of each input: how far reset is, or "gone"
  seen,         \* the id that reset has read
  mouse_press,  \* the buttons the clients hold
  down,         \* the buttons the operating system sees held
  delay,        \* mouse_left_button_timeout
  key_press,    \* the keys the clients hold
  repeat,       \* key_press_repeat_id
  pad,          \* gamepad_t
  gamepadMask,  \* slots that are taken
  timers,       \* delayed tasks of the pool
  releasing,    \* the function of reset is in the pool
  freeing,      \* slots whose free_gamepad is in the pool
  robbed        \* history: pads whose HOME timer has been cancelled by an
                \* id that was noted for another timer

mouseVars == <<mouse_press, down, delay>>
keyVars == <<key_press, repeat>>
padVars == <<pad, gamepadMask, robbed>>
sessionVars == <<enabled, session, seen>>
poolVars == <<timers, releasing, freeing>>
pushed == <<releasing, freeing>>
vars == <<sessionVars, mouseVars, keyVars, padVars, poolVars>>

Buttons == {"left", "right"}
NoPad == [id |-> None, back |-> FALSE, home |-> FALSE,
          forced |-> FALSE, timeout |-> None]

Init ==
  /\ enabled \in Configs
  /\ session = [c \in Inputs |-> IF enabled = {} THEN "gone" ELSE "live"]
  /\ seen = [c \in Inputs |-> None]
  /\ mouse_press = [b \in Buttons |-> FALSE]
  /\ down = [b \in Buttons |-> FALSE]
  /\ delay = [c \in Inputs |-> None]
  /\ key_press = [k \in Keys |-> FALSE]
  /\ repeat = None
  /\ pad = [c \in Inputs |-> [p \in Pads |-> NoPad]]
  /\ gamepadMask = {} /\ robbed = {}
  /\ timers = {} /\ releasing = FALSE /\ freeing = {}

-----------------------------------------------------------------------------
(* Timers. valid is what a HOME timer finds when it compares the           *)
(* generation it was made with.                                            *)

Timer(i, task, c, of) ==
  [id |-> i, task |-> task, input |-> c, of |-> of, valid |-> TRUE]

(* A new task is where no live one is, the one that runs included.         *)
Unused(ts) == Ids \ {t.id : t \in ts}

Room == Cardinality(timers) < MaxTimers

(* cancel(i): the timer that is at this address now.                       *)
Without(ts, i) == {t \in ts : t.id # i}

HomeTasks == {"press", "release"}
Robs(i) ==
  {<<t.input, t.of>> :
     t \in {u \in timers : u.id = i /\ u.task \in HomeTasks /\ u.valid}}

(* ++home_emulation_generation                                             *)
Outdated(ts, c, p) ==
  { [t EXCEPT !.valid = @ /\ ~(/\ t.task \in HomeTasks
                              /\ t.input = c /\ t.of = p)] : t \in ts }

Working(c, device) == session[c] \notin {"drained", "gone"}
                      /\ device \in enabled

-----------------------------------------------------------------------------
(* The mouse.                                                              *)

passthrough_rel(c) ==
  /\ Working(c, "mouse")
  /\ delay' = [delay EXCEPT ![c] = Disabled]
  /\ UNCHANGED <<sessionVars, mouse_press, down, keyVars, padVars, timers,
                 pushed>>

passthrough_abs(c) ==
  /\ Working(c, "mouse") /\ delay[c] = Disabled
  /\ delay' = [delay EXCEPT ![c] = None]
  /\ UNCHANGED <<sessionVars, mouse_press, down, keyVars, padVars, timers,
                 pushed>>

(* The left button comes up 10 ms later when the mouse is absolute.        *)
ReleaseLater(c) ==
  /\ Working(c, "mouse") /\ mouse_press["left"] /\ delay[c] = None
  /\ Room
  /\ mouse_press' = [mouse_press EXCEPT !["left"] = FALSE]
  /\ \E i \in Unused(timers) :
       /\ timers' = timers \cup {Timer(i, "left up", c, None)}
       /\ delay' = [delay EXCEPT ![c] = i]
  /\ UNCHANGED <<sessionVars, down, keyVars, padVars, pushed>>

(* A press of the right button while the release of the left one waits is  *)
(* passed on as a click, after which nothing has changed.                  *)
PassButton(c, b, release) ==
  /\ Working(c, "mouse") /\ mouse_press[b] = release
  /\ ~(b = "left" /\ release /\ delay[c] = None)
  /\ ~(b = "right" /\ ~release /\ delay[c] \notin {None, Disabled})
  /\ mouse_press' = [mouse_press EXCEPT ![b] = ~release]
  /\ down' = [down EXCEPT ![b] = ~release]
  /\ UNCHANGED <<sessionVars, delay, keyVars, padVars, timers, pushed>>

\* mutant: the button may have been pressed again
LeftUp_Blind(t) ==
  /\ t.task = "left up"
  /\ timers' = timers \ {t}
  /\ down' = [down EXCEPT !["left"] = FALSE]
  /\ delay' = [delay EXCEPT ![t.input] = None]
  /\ UNCHANGED <<sessionVars, mouse_press, keyVars, padVars, pushed>>

LeftUp(t) ==
  /\ t.task = "left up"
  /\ timers' = timers \ {t}
  /\ IF mouse_press["left"] THEN UNCHANGED <<down, delay>>
     ELSE /\ down' = [down EXCEPT !["left"] = FALSE]
          /\ delay' = [delay EXCEPT ![t.input] = None]
  /\ UNCHANGED <<sessionVars, mouse_press, keyVars, padVars, pushed>>

-----------------------------------------------------------------------------
(* The keyboard.                                                           *)

KeyDown(c, k) ==
  /\ Working(c, "keyboard") /\ ~key_press[k] /\ Room
  /\ key_press' = [key_press EXCEPT ![k] = TRUE]
  /\ \E i \in Unused(Without(timers, repeat)) :
       /\ timers' =
            Without(timers, repeat) \cup {Timer(i, "repeat", None, k)}
       /\ repeat' = i
  /\ robbed' = robbed \cup Robs(repeat)
  /\ UNCHANGED <<sessionVars, mouseVars, pad, gamepadMask, pushed>>

KeyUp(c, k) ==
  /\ Working(c, "keyboard") /\ key_press[k]
  /\ key_press' = [key_press EXCEPT ![k] = FALSE]
  /\ UNCHANGED <<sessionVars, mouseVars, repeat, padVars, timers, pushed>>

\* mutant: a repeat does not look whether the key is still held
repeat_key_Blind(t) ==
  /\ t.task = "repeat"
  /\ \E i \in Unused(timers) :
       /\ timers' = (timers \ {t}) \cup {Timer(i, "repeat", None, t.of)}
       /\ repeat' = i
  /\ UNCHANGED <<sessionVars, mouseVars, key_press, padVars, pushed>>

repeat_key(t) ==
  /\ t.task = "repeat"
  /\ IF key_press[t.of]
       THEN \E i \in Unused(timers) :
              /\ timers' =
                   (timers \ {t}) \cup {Timer(i, "repeat", None, t.of)}
              /\ repeat' = i
       ELSE timers' = timers \ {t} /\ repeat' = None
  /\ UNCHANGED <<sessionVars, mouseVars, key_press, padVars, pushed>>

-----------------------------------------------------------------------------
(* The controllers.                                                        *)

(* alloc_id; platf::alloc_gamepad may fail, which leaves all as it was.    *)
NextSlot ==
  {s \in Slots \ gamepadMask : \A r \in Slots \ gamepadMask : s <= r}

Arrive(c, p) ==
  /\ Working(c, "controller") /\ pad[c][p].id = None
  /\ \E s \in NextSlot :
       /\ gamepadMask' = gamepadMask \cup {s}
       /\ pad' = [pad EXCEPT ![c][p] = [@ EXCEPT !.id = s]]
  /\ UNCHANGED <<sessionVars, mouseVars, keyVars, timers, robbed, pushed>>

(* The last packet of a controller. Its buttons stay as they were, HOME    *)
(* excepted.                                                               *)
Leave(c, p) ==
  /\ Working(c, "controller") /\ pad[c][p].id # None
  /\ timers' = Outdated(Without(timers, pad[c][p].timeout), c, p)
  /\ robbed' = (robbed \cup Robs(pad[c][p].timeout)) \ {<<c, p>>}
  /\ gamepadMask' = gamepadMask \ {pad[c][p].id}
  /\ pad' = [pad EXCEPT ![c][p] =
               [@ EXCEPT !.id = None, !.home = FALSE, !.forced = FALSE,
                         !.timeout = None]]
  /\ UNCHANGED <<sessionVars, mouseVars, keyVars, pushed>>

(* A packet of the controller, which gets slot s if it has none. BACK is   *)
(* what the client says of the button, unless it has been turned into HOME *)
(* and not been let go since.                                              *)
BackStays(c, p, s, back) ==
  /\ (back /\ ~pad[c][p].forced) = pad[c][p].back
  /\ pad' = [pad EXCEPT ![c][p] =
               [@ EXCEPT !.id = s, !.forced = pad[c][p].forced /\ back]]
  /\ UNCHANGED <<timers, robbed>>

BackDown(c, p, s, back) ==
  /\ back /\ ~pad[c][p].forced /\ ~pad[c][p].back /\ Room
  /\ \E i \in Unused(timers) :
       /\ timers' = Outdated(timers, c, p) \cup {Timer(i, "press", c, p)}
       /\ pad' = [pad EXCEPT ![c][p] =
                    [@ EXCEPT !.id = s, !.back = TRUE, !.timeout = i]]
  /\ robbed' = robbed \ {<<c, p>>}

\* mutant: the timer is cancelled while HOME is held, too
BackUp_WhileHome(c, p, s, back) ==
  LET cancels == pad[c][p].timeout # None
  IN /\ pad[c][p].back /\ (~back \/ pad[c][p].forced)
     /\ IF cancels
          THEN /\ timers' =
                    Outdated(Without(timers, pad[c][p].timeout), c, p)
               /\ robbed' =
                    (robbed \cup Robs(pad[c][p].timeout)) \ {<<c, p>>}
          ELSE UNCHANGED <<timers, robbed>>
     /\ pad' = [pad EXCEPT ![c][p] =
                  [@ EXCEPT !.id = s, !.back = FALSE,
                            !.timeout =
                              IF cancels THEN None ELSE pad[c][p].timeout,
                            !.forced = pad[c][p].forced /\ back]]

BackUp(c, p, s, back) ==
  LET cancels == pad[c][p].timeout # None /\ ~pad[c][p].home
  IN /\ pad[c][p].back /\ (~back \/ pad[c][p].forced)
     /\ IF cancels
          THEN /\ timers' =
                    Outdated(Without(timers, pad[c][p].timeout), c, p)
               /\ robbed' =
                    (robbed \cup Robs(pad[c][p].timeout)) \ {<<c, p>>}
          ELSE UNCHANGED <<timers, robbed>>
     /\ pad' = [pad EXCEPT ![c][p] =
                  [@ EXCEPT !.id = s, !.back = FALSE,
                            !.timeout =
                              IF cancels THEN None ELSE pad[c][p].timeout,
                            !.forced = pad[c][p].forced /\ back]]

passthrough_pad(c, p, back) ==
  /\ Working(c, "controller")
  /\ \E s \in IF pad[c][p].id = None THEN NextSlot ELSE {pad[c][p].id} :
       /\ gamepadMask' = gamepadMask \cup {s}
       /\ \/ BackStays(c, p, s, back) \/ BackDown(c, p, s, back)
          \/ BackUp(c, p, s, back)
  /\ UNCHANGED <<sessionVars, mouseVars, keyVars, pushed>>

(* BACK has been held for back_button_timeout.                             *)
PressHome(t) ==
  /\ t.task = "press"
  /\ IF ~t.valid \/ pad[t.input][t.of].id = None
       THEN timers' = timers \ {t} /\ UNCHANGED pad
       ELSE \E i \in Unused(timers) :
              /\ timers' = (timers \ {t})
                             \cup {Timer(i, "release", t.input, t.of)}
              /\ pad' = [pad EXCEPT ![t.input][t.of] =
                           [@ EXCEPT !.forced = TRUE, !.back = FALSE,
                                     !.home = TRUE, !.timeout = i]]
  /\ UNCHANGED <<sessionVars, mouseVars, keyVars, gamepadMask, robbed, pushed>>

ReleaseHome(t) ==
  /\ t.task = "release"
  /\ timers' = timers \ {t}
  /\ IF ~t.valid \/ pad[t.input][t.of].id = None THEN UNCHANGED pad
     ELSE pad' = [pad EXCEPT ![t.input][t.of] =
                    [@ EXCEPT !.home = FALSE, !.timeout = None]]
  /\ UNCHANGED <<sessionVars, mouseVars, keyVars, gamepadMask, robbed, pushed>>

-----------------------------------------------------------------------------
(* The end of a session: reset reads an id and cancels it, twice, and has  *)
(* everything released on the worker.                                      *)

Ending == {c \in Inputs : session[c] \notin {"live", "gone"}}

ResetReads(c) ==
  /\ session[c] = "live" /\ Cardinality(Ending) < MaxEnding
  /\ session' = [session EXCEPT ![c] = "keys"]
  /\ seen' = [seen EXCEPT ![c] = repeat]
  /\ UNCHANGED <<enabled, mouseVars, keyVars, padVars, timers, pushed>>

ResetCancelsRepeat(c) ==
  /\ session[c] = "keys"
  /\ session' = [session EXCEPT ![c] = "mouse"]
  /\ timers' = Without(timers, seen[c])
  /\ robbed' = robbed \cup Robs(seen[c])
  /\ seen' = [seen EXCEPT ![c] = delay[c]]
  /\ UNCHANGED <<enabled, mouseVars, keyVars, pad, gamepadMask, pushed>>

ResetCancelsRelease(c) ==
  /\ session[c] = "mouse"
  /\ session' = [session EXCEPT ![c] = "reset"]
  /\ timers' = Without(timers, seen[c])
  /\ robbed' = robbed \cup Robs(seen[c])
  /\ seen' = [seen EXCEPT ![c] = None]
  /\ releasing' = TRUE
  /\ UNCHANGED <<enabled, mouseVars, keyVars, pad, gamepadMask, freeing>>

ReleaseAll ==
  /\ releasing
  /\ down' = [b \in Buttons |-> down[b] /\ ~mouse_press[b]]
  /\ mouse_press' = [b \in Buttons |-> FALSE]
  /\ key_press' = [k \in Keys |-> FALSE]
  /\ releasing' = FALSE
  /\ UNCHANGED <<sessionVars, delay, repeat, padVars, timers, freeing>>

(* The messages that were queued have been handled.                        *)
Drained(c) ==
  /\ session[c] = "reset"
  /\ session' = [session EXCEPT ![c] = "drained"]
  /\ UNCHANGED <<enabled, seen, mouseVars, keyVars, padVars, timers, pushed>>

Slots_of(c) == {pad[c][p].id : p \in Pads} \ {None}

\* mutant: the slots of a session that ends are taken as free at once
Destroyed_FreesNow(c) ==
  /\ session[c] = "drained" /\ \A t \in timers : t.input # c
  /\ session' = [session EXCEPT ![c] = "gone"]
  /\ freeing' = freeing \cup Slots_of(c)
  /\ gamepadMask' = gamepadMask \ Slots_of(c)
  /\ pad' = [pad EXCEPT ![c] = [p \in Pads |-> NoPad]]
  /\ robbed' = {r \in robbed : r[1] # c}
  /\ delay' = [delay EXCEPT ![c] = None]
  /\ UNCHANGED <<enabled, seen, mouse_press, down, keyVars, timers,
                 releasing>>

(* ~input_t, when no timer holds the input any more: ~gamepad_t has the    *)
(* slots freed on the worker.                                              *)
Destroyed(c) ==
  /\ session[c] = "drained" /\ \A t \in timers : t.input # c
  /\ session' = [session EXCEPT ![c] = "gone"]
  /\ freeing' = freeing \cup Slots_of(c)
  /\ pad' = [pad EXCEPT ![c] = [p \in Pads |-> NoPad]]
  /\ robbed' = {r \in robbed : r[1] # c}
  /\ delay' = [delay EXCEPT ![c] = None]
  /\ UNCHANGED <<enabled, seen, mouse_press, down, keyVars, gamepadMask,
                 timers, releasing>>

FreeSlot(s) ==
  /\ s \in freeing
  /\ gamepadMask' = gamepadMask \ {s}
  /\ freeing' = freeing \ {s}
  /\ UNCHANGED <<sessionVars, mouseVars, keyVars, pad, robbed, timers,
                 releasing>>

(* Another session, with an input of its own.                              *)
alloc(c) ==
  /\ session[c] = "gone" /\ enabled # {}
  /\ session' = [session EXCEPT ![c] = "live"]
  /\ UNCHANGED <<enabled, seen, mouseVars, keyVars, padVars, timers, pushed>>

-----------------------------------------------------------------------------
Handlers(c) ==
  \/ passthrough_rel(c) \/ passthrough_abs(c) \/ ReleaseLater(c)
  \/ \E b \in Buttons, r \in BOOLEAN : PassButton(c, b, r)
  \/ \E k \in Keys : KeyDown(c, k) \/ KeyUp(c, k)
  \/ \E p \in Pads :
       \/ Arrive(c, p) \/ Leave(c, p)
       \/ \E back \in BOOLEAN : passthrough_pad(c, p, back)

Runs(t) == LeftUp(t) \/ repeat_key(t) \/ PressHome(t) \/ ReleaseHome(t)

Ends(c) ==
  \/ ResetReads(c) \/ ResetCancelsRepeat(c) \/ ResetCancelsRelease(c)
  \/ Drained(c) \/ Destroyed(c) \/ alloc(c)

Next ==
  \/ \E c \in Inputs : Handlers(c) \/ Ends(c)
  \/ \E t \in timers : Runs(t)
  \/ ReleaseAll \/ \E s \in Slots : FreeSlot(s)

(* The task pool runs every timer that is not cancelled (its order among   *)
(* others is TaskPool's concern); nothing else has to happen.              *)
Fairness ==
  /\ \A k \in Keys :
       WF_vars(\E t \in timers :
                 t.task = "repeat" /\ t.of = k /\ repeat_key(t))
  /\ \A c \in Inputs, p \in Pads :
       WF_vars(\E t \in timers : t.input = c /\ t.of = p
                                 /\ (PressHome(t) \/ ReleaseHome(t)))

Spec == Init /\ [][Next]_vars /\ Fairness

-----------------------------------------------------------------------------
(* A slot of the operating system is taken for one controller, or is on    *)
(* its way to be freed, and no slot is lost: alloc_id, free_gamepad and    *)
(* the task that ~gamepad_t pushes, over controllers that come and go and  *)
(* sessions that end with theirs plugged in.                               *)
SlotsAreOwned ==
  /\ freeing \subseteq gamepadMask
  /\ \A c \in Inputs, p \in Pads :
       pad[c][p].id # None =>
         /\ pad[c][p].id \in gamepadMask \ freeing
         /\ \A d \in Inputs, q \in Pads :
              pad[d][q].id = pad[c][p].id => d = c /\ q = p
  /\ \A s \in gamepadMask \ freeing :
       \E c \in Inputs, p \in Pads : pad[c][p].id = s

(* key_press_repeat_id is all there is of the keyboard's timers: no second *)
(* key repeats beside the one it names, although reset cancels what it has *)
(* read before on another thread.                                          *)
OneRepeat == \A t \in timers : t.task = "repeat" => t.id = repeat

(* The host does not lose a button that a client holds: a release that     *)
(* comes late does nothing when the button has been pressed again.         *)
HeldStaysDown == \A b \in Buttons : mouse_press[b] => down[b]

(* A HOME button that is held has a timer that will release it, or press   *)
(* and release it again: BACK pressed or let go meanwhile, and controllers *)
(* that leave, outdate timers but never the last one. It loses that only   *)
(* to the address of a task that has run, noted by key_press_repeat_id,    *)
(* mouse_left_button_timeout or another pad's back_timeout_id (robbed).    *)
HomeHasTimer ==
  \A c \in Inputs, p \in Pads :
    pad[c][p].home /\ <<c, p>> \notin robbed =>
      \E t \in timers :
        /\ t.task \in HomeTasks /\ t.valid
        /\ t.input = c /\ t.of = p /\ t.id = pad[c][p].timeout

(* Timers that come late, or that reset could not cancel, leave keyboard,  *)
(* mouse and controllers as their clients hold them (repeat_key, the       *)
(* delayed release of the left button, and home_emulation_generation).     *)
LateTimersFit == OneRepeat /\ HeldStaysDown /\ HomeHasTimer

(* Tasks and timers that run after the event, or the session, that they    *)
(* are from leave slots, keys and buttons to those who have them then.     *)
LateTasksFit == SlotsAreOwned /\ LateTimersFit

(* Why that is so: two timers never have one address at the same time, so  *)
(* that a repeat is the one that key_press_repeat_id names, and each is of *)
(* the kind of device that it is for.                                      *)
TimerRecords ==
  [id : Ids, task : {"left up", "repeat"} \cup HomeTasks,
   input : Inputs \cup {None}, of : Pads \cup Keys \cup {None},
   valid : BOOLEAN]
PadRecords ==
  [id : Slots \cup {None}, back : BOOLEAN, home : BOOLEAN,
   forced : BOOLEAN, timeout : Ids \cup {None}]

TypeOK ==
  /\ enabled \in Configs
  /\ session \in
       [Inputs -> {"live", "keys", "mouse", "reset", "drained", "gone"}]
  /\ seen \in [Inputs -> Ids \cup {None, Disabled}]
  /\ mouse_press \in [Buttons -> BOOLEAN] /\ down \in [Buttons -> BOOLEAN]
  /\ delay \in [Inputs -> Ids \cup {None, Disabled}]
  /\ key_press \in [Keys -> BOOLEAN]
  /\ repeat \in Ids \cup {None}
  /\ pad \in [Inputs -> [Pads -> PadRecords]]
  /\ gamepadMask \subseteq Slots
  /\ timers \subseteq TimerRecords
  /\ releasing \in BOOLEAN /\ freeing \subseteq Slots
  /\ robbed \subseteq Inputs \X Pads

TimersNameTheirs ==
  \A t \in timers :
    /\ t.task \in HomeTasks => t.input \in Inputs /\ t.of \in Pads
    /\ t.task = "left up" => t.input \in Inputs
    /\ t.task = "repeat" => t.of \in Keys
OneIdEach == \A t, u \in timers : t.id = u.id => t = u
HomeNeedsSlot ==
  \A c \in Inputs, p \in Pads : pad[c][p].id = None => ~pad[c][p].home
IInv ==
  /\ TypeOK /\ TimersNameTheirs /\ OneIdEach /\ HomeNeedsSlot
  /\ LateTasksFit

(* Keys that are let go, by a client or by the reset at the end of a       *)
(* session, stop repeating ("to avoid stuck repeated keys", stream.cpp).   *)
RepeatsStop ==
  \A k \in Keys :
    (\E t \in timers : t.task = "repeat" /\ t.of = k) /\ ~key_press[k]
      ~> key_press[k] \/ \A t \in timers : ~(t.task = "repeat" /\ t.of = k)
=============================================================================
