--------------------------- MODULE WindowsPointers --------------------------
(***************************************************************************)
(* Touch and pen of one client on Windows (src/platform/windows/input.cpp):*)
(* the slots that its pointers are kept in, what is injected into the      *)
(* system, and the tasks that repeat it.                                   *)
(*                                                                         *)
(* The client's events and the repeats run in the task pool, which has one *)
(* worker; the session that is joined destroys the context on a thread of  *)
(* its own.  An injection has all slots that are in use; positions, and    *)
(* what a pen and a finger have beside them, are left out.                 *)
(***************************************************************************)
EXTENDS Integers, FiniteSetsExt

CONSTANTS
  Pointers,   \* the pointer ids that the client uses
  Pen, None,  \* external: the pen among the system's pointers; no pointer
  Slots,      \* of touchInfo; 10 in the code
  MaxFailures \* bound: injections that fail

VARIABLES
  context,          \* of the client: "alive" or "freed"
  touch,            \* whether there is a touch device
  touchInfo,        \* the slots
  activeTouchSlots,
  touchRepeat,      \* touchRepeatTask: "none", a "timer", or "due" when the
                    \* worker has taken it
  pen, penInfo, penRepeat,
  contacts,         \* what the system has: for each pointer and the pen
  client,           \* what the client's events say of each
  failures,         \* how often the system has failed
  doubt,            \* history: the devices whose last injection failed
  crossed           \* history: a repeat was due as the context was freed

touchVars == <<touch, touchInfo, activeTouchSlots, touchRepeat>>
penVars == <<pen, penInfo, penRepeat>>
worldVars == <<contacts, client, failures, doubt>>
vars == <<context, touchVars, penVars, worldVars, crossed>>

Unused == [id |-> None, flags |-> {}]
Slot == 1 .. Slots

Init ==
  /\ context = "alive" /\ touch = FALSE /\ pen = FALSE
  /\ touchInfo = [i \in Slot |-> Unused] /\ activeTouchSlots = 0
  /\ penInfo = {} /\ touchRepeat = "none" /\ penRepeat = "none"
  /\ contacts = [p \in Pointers \cup {Pen} |-> "away"] /\ client = contacts
  /\ failures = 0 /\ doubt = {} /\ crossed = FALSE

Active(slots) == {i \in Slot : slots[i].flags # {}}

InPlace(slots) == slots   \* mutant: counted, but not moved

(* perform_touch_compaction: each empty slot takes the next one that is    *)
(* in use; what is left behind is empty.                                   *)
perform_touch_compaction(slots) ==
  LET used == Active(slots)
      nth(i) == CHOOSE j \in used : Cardinality({k \in used : k <= j}) = i
  IN [i \in Slot |-> IF i <= Cardinality(used) THEN slots[nth(i)] ELSE Unused]

-----------------------------------------------------------------------------
(* populate_common_pointer_info: the flags of a pointer after an event.    *)
Events ==
  {"hover", "down", "up", "move", "cancel", "cancel_all", "hover_leave",
   "button_only"}

Gone == {"range", "contact"}
populate_common_pointer_info(flags, e) ==
  CASE e = "hover" -> (flags \ {"contact"}) \cup {"range", "update"}
    [] e = "down" -> flags \cup {"range", "contact", "down"}
    [] e = "up" -> (flags \ Gone) \cup {"up"}
    [] e = "move" -> flags \cup {"range", "contact", "update"}
    [] e \in {"cancel", "cancel_all"} ->
         (flags \ Gone)
           \cup {"canceled", IF "contact" \in flags THEN "up" ELSE "update"}
    [] e = "hover_leave" -> (flags \ Gone) \cup {"update"}
    [] e = "button_only" ->
         IF flags = {} THEN flags ELSE flags \cup {"update"}

EDGE_TRIGGERED_POINTER_FLAGS == {"down", "up", "canceled", "update"}

(* What an event means to the client.                                      *)
Meant(before, e) ==
  CASE e = "hover" -> "hover"
    [] e \in {"down", "move"} -> "down"
    [] e = "button_only" -> before
    [] OTHER -> "away"

Seen(flags) ==
  IF "contact" \in flags THEN "down"
  ELSE IF "range" \in flags THEN "hover" ELSE "away"

(* InjectSyntheticPointerInput: the system has the pointers of the array  *)
(* that was injected last.                                                 *)
Injected(slots, n) ==
  [p \in Pointers |->
     LET mine == {i \in 1 .. n : slots[i].id = p /\ slots[i].flags # {}}
     IN IF mine = {} THEN "away" ELSE Seen(slots[Min(mine)].flags)]

Inject(device, seen, ok) ==
  /\ contacts' = [p \in DOMAIN contacts |->
                    IF ok /\ p \in DOMAIN seen THEN seen[p] ELSE contacts[p]]
  /\ doubt' = IF ok THEN doubt \ {device} ELSE doubt \cup {device}

Count(ok) ==
  failures' = failures + (IF ok THEN 0 ELSE 1) /\ failures' <= MaxFailures

-----------------------------------------------------------------------------
Find(slots, p) == {i \in Active(slots) : slots[i].id = p}
Free(slots) == Slot \ Active(slots)
NoTouches == [i \in Slot |-> Unused]

(* cancel_all_active_touches; touch_update has cancelled the repeat.       *)
CancelAllTouches(ok) ==
  LET slots == perform_touch_compaction(touchInfo)
      n == Cardinality(Active(slots))
      cancelled ==
        [i \in Slot |->
           [slots[i] EXCEPT !.flags = populate_common_pointer_info(@,
                                        "cancel_all")]]
  IN /\ IF n > 0 THEN Inject("touch", Injected(cancelled, n), ok)
        ELSE ok /\ UNCHANGED <<contacts, doubt>>
     /\ touchInfo' = NoTouches /\ activeTouchSlots' = 0
     /\ touchRepeat' = "none"

MustRepeat(n, flags) == n > 1 \/ flags # {}

(* What touch_update does with one pointer, in the slots that there are:   *)
(* pointer_by_id has compacted them, and finds a slot or takes a free one. *)
UpdateSlot(slots, p, e, ok) ==
  LET i == Min(IF Find(slots, p) # {} THEN Find(slots, p) ELSE Free(slots))
      n == IF Find(slots, p) # {} THEN Cardinality(Active(slots)) ELSE i
      flags == populate_common_pointer_info(slots[i].flags, e)
      after == [slots EXCEPT ![i] = [id |-> p, flags |-> flags]]
      kept == flags \ EDGE_TRIGGERED_POINTER_FLAGS
  IN /\ activeTouchSlots' = n
     /\ touchInfo' = IF ok THEN [after EXCEPT ![i].flags = kept] ELSE after
     /\ Inject("touch", Injected(after, n), ok)
     /\ touchRepeat' = IF ok /\ MustRepeat(n, kept) THEN "timer" ELSE "none"

\* The worker is free to take an event of the client.
Idle == context = "alive" /\ touchRepeat # "due" /\ penRepeat # "due"

(* touch_update.  The device is made for the first event (if that fails it *)
(* is as if the event had not come).  With no slot left all touches are    *)
(* cancelled first; the array that is injected next has none of them.      *)
TouchUpdate(p, e, ok) ==
  LET slots == perform_touch_compaction(touchInfo)
      full == Find(slots, p) = {} /\ Free(slots) = {}
      rest == IF full THEN [q \in DOMAIN client |->
                              IF q = Pen THEN client[q] ELSE "away"]
              ELSE client
  IN /\ Idle /\ e # "cancel_all" /\ Count(ok)
     /\ client' = [rest EXCEPT ![p] = Meant(@, e)]
     /\ touch' = TRUE
     /\ UpdateSlot(IF full THEN NoTouches ELSE slots, p, e, ok)
     /\ UNCHANGED <<context, penVars, crossed>>

TouchCancelAll(ok) ==
  /\ Idle /\ touch /\ Count(ok)
  /\ client' = [p \in DOMAIN client |->
                  IF p = Pen THEN client[p] ELSE "away"]
  /\ CancelAllTouches(ok)
  /\ UNCHANGED <<context, touch, penVars, crossed>>

TouchDue ==
  /\ Idle /\ touchRepeat = "timer" /\ touchRepeat' = "due"
  /\ UNCHANGED <<context, touch, touchInfo, activeTouchSlots, penVars,
                 worldVars, crossed>>

(* repeat_touch: the slots as they are, and then once more.                *)
RepeatTouch(ok) ==
  /\ context = "alive" /\ touchRepeat = "due" /\ touchRepeat' = "timer"
  /\ Count(ok)
  /\ Inject("touch", Injected(touchInfo, activeTouchSlots), ok)
  /\ UNCHANGED <<context, touch, touchInfo, activeTouchSlots, penVars, client,
                 crossed>>

-----------------------------------------------------------------------------
(* pen_update: there is one pointer, and "cancel_all" is an event of it.   *)
PenUpdate(e, ok) ==
  LET flags == populate_common_pointer_info(penInfo, e)
      kept == flags \ EDGE_TRIGGERED_POINTER_FLAGS
  IN /\ Idle /\ Count(ok)
     /\ pen \/ e # "cancel_all"
     /\ client' = [client EXCEPT ![Pen] = Meant(@, e)]
     /\ pen' = TRUE
     /\ penInfo' = IF ok THEN kept ELSE flags
     /\ Inject("pen", [p \in {Pen} |-> Seen(flags)], ok)
     /\ penRepeat' = IF ok /\ kept # {} THEN "timer" ELSE "none"
     /\ UNCHANGED <<context, touchVars, crossed>>

PenDue ==
  /\ Idle /\ penRepeat = "timer" /\ penRepeat' = "due"
  /\ UNCHANGED <<context, pen, penInfo, touchVars, worldVars, crossed>>

RepeatPen(ok) ==
  /\ context = "alive" /\ penRepeat = "due" /\ penRepeat' = "timer"
  /\ Count(ok)
  /\ Inject("pen", [p \in {Pen} |-> Seen(penInfo)], ok)
  /\ UNCHANGED <<context, pen, penInfo, touchVars, client, crossed>>

-----------------------------------------------------------------------------
(* ~client_input_raw_t, on the thread that has joined the session: repeats *)
(* that wait are cancelled, then the devices are destroyed.  One that is   *)
(* due would go on with what is freed; the behaviour ends there.           *)
Stopped(repeat) == IF repeat = "timer" THEN "none" ELSE repeat

Destroy ==
  /\ context = "alive" /\ context' = "freed"
  /\ touchRepeat' = Stopped(touchRepeat) /\ penRepeat' = Stopped(penRepeat)
  /\ crossed' = (touchRepeat = "due" \/ penRepeat = "due")
  /\ touch' = FALSE /\ pen' = FALSE
  /\ contacts' = [p \in DOMAIN contacts |-> "away"]
  /\ UNCHANGED <<touchInfo, activeTouchSlots, penInfo, client, failures,
                 doubt>>

Next ==
  \/ \E ok \in BOOLEAN :
       \/ \E p \in Pointers, e \in Events : TouchUpdate(p, e, ok)
       \/ \E e \in Events : PenUpdate(e, ok)
       \/ TouchCancelAll(ok) \/ RepeatTouch(ok) \/ RepeatPen(ok)
  \/ TouchDue \/ PenDue
  \/ Destroy

Spec == Init /\ [][Next]_vars

-----------------------------------------------------------------------------
(* Whatever the order in which fingers come and go, the system has those   *)
(* that the client has, as far as the last injection was taken             *)
(* (pointer_by_id, perform_touch_compaction, touch_update, pen_update).    *)
ContactsAreTold ==
  context = "alive" =>
    \A p \in DOMAIN client :
      (IF p = Pen THEN "pen" ELSE "touch") \in doubt \/ contacts[p] = client[p]

(* What is held is repeated, which the system wants to hear within about a *)
(* second (ISPI_REPEAT_INTERVAL).                                          *)
HeldIsRepeated ==
  context = "alive" =>
    \A p \in DOMAIN client :
      contacts[p] # "away" =>
        IF p = Pen THEN "pen" \in doubt \/ penRepeat # "none"
        ELSE "touch" \in doubt \/ touchRepeat # "none"

(* No repeat is left behind by a session that has ended, but one that the  *)
(* worker had taken (~client_input_raw_t).                                 *)
NoneIsLeft ==
  context = "freed" /\ ~crossed => touchRepeat = "none" /\ penRepeat = "none"

PointersFollowClient == ContactsAreTold /\ HeldIsRepeated /\ NoneIsLeft

-----------------------------------------------------------------------------
(* What holds between the steps, whether or not injections fail.           *)
Contact == {"away", "hover", "down"}
PointerFlags == {"range", "contact"} \cup EDGE_TRIGGERED_POINTER_FLAGS
SlotsType == [Slot -> [id : Pointers \cup {None}, flags : SUBSET PointerFlags]]

TypeOK ==
  /\ touchInfo \in SlotsType /\ activeTouchSlots \in 0 .. Slots
  /\ penInfo \subseteq PointerFlags
  /\ touchRepeat \in {"none", "timer", "due"}
  /\ penRepeat \in {"none", "timer", "due"}
  /\ contacts \in [Pointers \cup {Pen} -> Contact]
  /\ client \in [Pointers \cup {Pen} -> Contact]

\* Each pointer of the client that is not away has one slot, which shows it.
SlotsFollow(slots, clients) ==
  /\ \A i, j \in Active(slots) : slots[i].id = slots[j].id => i = j
  /\ \A i \in Active(slots) :
       slots[i].id \in Pointers /\ clients[slots[i].id] = Seen(slots[i].flags)
  /\ \A p \in Pointers : Find(slots, p) = {} => clients[p] = "away"

IInv ==
  /\ TypeOK /\ SlotsFollow(touchInfo, client)
  /\ Active(touchInfo) \subseteq 1 .. activeTouchSlots
  /\ client[Pen] = Seen(penInfo)
  /\ ContactsAreTold /\ HeldIsRepeated /\ NoneIsLeft
=============================================================================
