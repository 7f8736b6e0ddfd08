---------------------------- MODULE DisplayList -----------------------------
(***************************************************************************)
(* The displays that a capture thread knows, and the one it captures:      *)
(* refresh_displays (src/video.cpp), before a capture begins and again     *)
(* before each reinit, and the display switches that input asks for.       *)
(***************************************************************************)
EXTENDS Integers, Sequences

CONSTANTS
  Displays,     \* lists of names that platf::display_names may return
  Outputs,      \* values of the name of the user's output, "" for none
  MaxShortcut   \* bound: the highest display a shortcut asks for

VARIABLES display_names, current_display_index, output_name,
          switch_display  \* switch_display_event, or -1

listVars ==
  <<display_names, current_display_index, output_name, switch_display>>

-----------------------------------------------------------------------------
Current ==
  IF current_display_index \in 0 .. Len(display_names) - 1
    THEN display_names[current_display_index + 1] ELSE ""

\* The display before, or the user's when there was none; 0 without it.
IndexOf(list, name) ==
  LET places == {i \in DOMAIN list : list[i] = name} IN
    IF places = {} THEN 0
    ELSE (CHOOSE i \in places : \A j \in places : i <= j) - 1

\* The list before survives an empty one. A virtual display may be created
\* when there has been none, and is then found by a second enumeration.
Names(found, after) ==
  CASE found # <<>> -> found
    [] found = <<>> /\ display_names # <<>> -> display_names
    [] OTHER -> IF after # <<>> THEN after ELSE <<output_name>>

KeepIndex(found, after) ==   \* mutant: the index stays with its number
  /\ display_names' = Names(found, after)
  /\ current_display_index' =
       IF Current = "" THEN 0 ELSE current_display_index

refresh_displays(found, after) ==
  /\ display_names' = Names(found, after)
  /\ current_display_index' =
       IF found = <<>> /\ display_names # <<>> THEN current_display_index
       ELSE IndexOf(display_names',
                    IF Current # "" THEN Current ELSE output_name)

\* encode_run_sync and captureThread, before they make a display.
Refresh ==
  /\ \E found, after \in Displays : refresh_displays(found, after)
  /\ UNCHANGED <<output_name, switch_display>>

\* Process any pending display switch with the new list of displays.
Switch ==
  /\ switch_display # -1
  /\ display_names # <<>>
  /\ current_display_index' =
       IF switch_display < Len(display_names)
         THEN switch_display ELSE Len(display_names) - 1
  /\ switch_display' = -1
  /\ UNCHANGED <<display_names, output_name>>

\* Ctrl+Alt+Shift+F1 .. F12 of a client.
Shortcut ==
  /\ switch_display' \in 0 .. MaxShortcut
  /\ UNCHANGED <<display_names, current_display_index, output_name>>

\* The user's output becomes another, or none, as devices come and go.
Remap ==
  /\ output_name' \in Outputs
  /\ UNCHANGED <<display_names, current_display_index, switch_display>>

Init ==
  /\ display_names = <<>> /\ current_display_index = -1
  /\ output_name \in Outputs
  /\ switch_display = -1

Next == Refresh \/ Switch \/ Shortcut \/ Remap

-----------------------------------------------------------------------------
(* An index that points into the list, whenever there is one.              *)
AllNames ==
  {""} \cup Outputs \cup UNION {{l[i] : i \in DOMAIN l} : l \in Displays}
IInv ==
  /\ display_names \in Seq(AllNames) /\ output_name \in AllNames
  /\ switch_display \in -1 .. MaxShortcut
  /\ current_display_index \in Int
  /\ display_names # <<>> =>
       current_display_index \in 0 .. Len(display_names) - 1

(* A reinit goes on with the display that was captured whenever it is      *)
(* still there, though the list has changed and its place in it with that, *)
(* and an index never points past the list, whatever a shortcut asks for   *)
(* (video.cpp:1405, 1462, 1708).                                           *)
DisplayIsKept ==
  [][/\ display_names' # <<>> =>
          current_display_index' \in 0 .. Len(display_names') - 1
     /\ (/\ Current # ""
         /\ display_names' # display_names
         /\ \E i \in DOMAIN display_names' : display_names'[i] = Current)
           => Current' = Current]_listVars
=============================================================================
