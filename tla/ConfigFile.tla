----------------------------- MODULE ConfigFile -----------------------------
(***************************************************************************)
(* The configuration file (src/config.cpp): how it is parsed, how the web  *)
(* interface writes back what it has parsed (getConfig and saveConfig of   *)
(* src/confighttp.cpp), and the thread that watches it and reloads the     *)
(* options that may change while the host runs.                            *)
(*                                                                         *)
(* A text is a sequence of characters, of which those that the parser      *)
(* tells apart are kept: a line ends with one "n", and "x" and "y" stand   *)
(* for all others.  The watcher is about one option whose value is a       *)
(* number in a range.                                                      *)
(***************************************************************************)
EXTENDS Integers, SequencesExt

CONSTANTS
  Pieces,     \* what a user types at a time: sequences of characters
  MaxPieces,  \* bound: how many
  Absent,     \* an option that is not there
  NotSaving,  \* no file is being written
  InRange, OutOfRange, Default, \* values of the option
  MaxSaves    \* bound: how often the file is written

VARIABLES
  text, typed,     \* a file, and of how many pieces it is
  file, mtime,     \* the watched file: the option in it, when it was written
  saving,          \* what is being written to it, or Absent
  commandLine,     \* the option on the command line
  running,         \* the value that the host goes by
  last_write, watcher  \* what the watcher has seen, and where it is

vars == <<text, typed, file, mtime, saving, commandLine, running, last_write,
          watcher>>
textVars == <<text, typed>>
watchVars == <<file, mtime, saving, commandLine, running, last_write, watcher>>

Values == InRange \cup OutOfRange \cup {Absent}

-----------------------------------------------------------------------------
(* The parser.  Positions in a text t are from 1 to its end, Len(t) + 1.   *)

spaceTab == {" "}
whitespace == {" ", "n"}
End(t) == Len(t) + 1

(* std::find_if in [from, to), and the same from behind: the position      *)
(* after the last one, or from.                                            *)
Find(t, from, to, set) ==
  Min({k \in from .. to - 1 : t[k] \in set} \cup {to})
FindNot(t, from, to, set) ==
  Min({k \in from .. to - 1 : t[k] \notin set} \cup {to})
TrimEnd(t, from, to, set) ==
  Max({k + 1 : k \in {j \in from .. to - 1 : t[j] \notin set}} \cup {from})

Count(t, from, to, c) == Cardinality({k \in from .. to : t[k] = c})

StopAtFirst(t, from) ==   \* mutant: a list ends at the first bracket
  LET k == Find(t, from, End(t), {"]"}) IN Min({k + 1, End(t)})

(* skip_list: the end of a list that has begun before from.                *)
skip_list(t, from) ==
  LET closes(k) == Count(t, from, k, "]") = Count(t, from, k, "[") + 1
  IN Min({k + 1 : k \in {j \in from .. Len(t) : closes(j)}} \cup {End(t)})

(* to_string: without the comments, of which each ends with its line.      *)
Commented(t, from, k) ==
  \E j \in from .. k : t[j] = "#" /\ \A i \in j .. k : t[i] # "n"

to_string(t, from, to) ==
  LET upto[k \in from .. to] ==
        IF k = from THEN <<>>
        ELSE IF Commented(t, from, k - 1) THEN upto[k - 1]
        ELSE Append(upto[k - 1], t[k - 1])
  IN upto[to]

(* parse_option: where the option that begins at from ends, and the option *)
(* as a set of one, or the empty set.                                      *)
parse_option(t, from) ==
  LET begin == FindNot(t, from, End(t), whitespace)
      endl == Find(t, begin, End(t), {"n"})
      endc == TrimEnd(t, begin, Find(t, begin, endl, {"#"}), whitespace)
      eq == Find(t, begin, endc, {"="})
      end_name == TrimEnd(t, begin, eq, spaceTab)
      begin_val == FindNot(t, eq + 1, endc, spaceTab)
      list == t[begin_val] = "["
      last == IF list THEN skip_list(t, begin_val + 1) ELSE endl
      none == [end |-> endl, option |-> {}]
  IN IF eq = endc \/ eq = begin THEN none
     ELSE IF begin_val = endl THEN none
     ELSE IF list /\ last = End(t) /\ last = begin_val + 1
     THEN [none EXCEPT !.end = last]
     ELSE [end |-> last,
           option |-> {[name |-> to_string(t, begin, end_name),
                        value |-> to_string(t, begin_val, last)]}]

(* parse_config: of options with the same name the first counts.           *)
parse_config(t) ==
  LET from[pos \in 1 .. End(t) + 1] ==
        IF pos >= End(t) THEN {}
        ELSE LET p == parse_option(t, pos)
                 rest == from[p.end + 1]
             IN p.option \cup {o \in rest : \A q \in p.option :
                                               o.name # q.name}
  IN from[1]

(* saveConfig, of what getConfig has sent: the options with a value, in    *)
(* the order of their names; here in any order.                            *)
OptionLine(o) == o.name \o <<" ", "=", " ">> \o o.value \o <<"n">>

Written(options) ==
  LET upto[n \in 0 .. Len(options)] ==
        IF n = 0 THEN <<>> ELSE upto[n - 1] \o OptionLine(options[n])
  IN upto[Len(options)]

-----------------------------------------------------------------------------
Init ==
  /\ text = <<>> /\ typed = 0
  /\ file \in Values /\ commandLine \in {Absent} \cup InRange
  /\ mtime = 0 /\ saving = NotSaving /\ last_write = 0 /\ watcher = "sleep"
  /\ running = IF commandLine # Absent THEN commandLine
               ELSE IF file \in InRange THEN file ELSE Default

(* A user writes the file.                                                 *)
Type(piece) ==
  /\ typed < MaxPieces
  /\ typed' = typed + 1
  /\ text' = text \o piece
  /\ UNCHANGED watchVars

(* write_file, or an editor: the file is emptied, and then written.        *)
Truncate(v) ==
  /\ saving = NotSaving /\ mtime < 2 * MaxSaves
  /\ saving' = v
  /\ file' = Absent /\ mtime' = mtime + 1
  /\ UNCHANGED <<textVars, commandLine, running, last_write, watcher>>

Write ==
  /\ saving # NotSaving
  /\ saving' = NotSaving
  /\ file' = saving /\ mtime' = mtime + 1
  /\ UNCHANGED <<textVars, commandLine, running, last_write, watcher>>

(* start_config_watcher, every two seconds: the time is noted first.       *)
Look ==
  /\ watcher = "sleep" /\ mtime # last_write
  /\ last_write' = mtime
  /\ watcher' = "reload"
  /\ UNCHANGED <<textVars, file, mtime, saving, commandLine, running>>

GiveUp ==   \* mutant: the thread ends when the file cannot be read
  /\ watcher = "reload"
  /\ watcher' = IF file = Absent THEN "ended" ELSE "sleep"
  /\ running' = IF file \in InRange THEN file ELSE running
  /\ UNCHANGED <<textVars, file, mtime, saving, commandLine, last_write>>

(* reload_solarflare_keys, int_between_f: an option that is not there or   *)
(* is out of its range leaves the value as it was.                         *)
Reload ==
  /\ watcher = "reload"
  /\ watcher' = "sleep"
  /\ running' = IF file \in InRange THEN file ELSE running
  /\ UNCHANGED <<textVars, file, mtime, saving, commandLine, last_write>>

Watch == Look \/ Reload

Edits == \E piece \in Pieces : Type(piece)
Saves == (\E v \in Values : Truncate(v)) \/ Write

Next == Edits \/ Saves \/ Watch

(* The watcher runs on; a write that has begun ends.                       *)
Fairness == WF_vars(Watch) /\ WF_vars(Write)
Spec == Init /\ [][Next]_vars /\ Fairness

-----------------------------------------------------------------------------
\* Text that the format has no way to write: a comment with brackets, a
\* list that does not end, and a value of blanks only.
Plain(t) ==
  LET depth(k) == Count(t, 1, k, "[") - Count(t, 1, k, "]")
  IN /\ \A k \in 0 .. Len(t) : depth(k) >= 0
     /\ depth(Len(t)) = 0
     /\ \A k \in 1 .. Len(t) : Commented(t, 1, k) => t[k] \notin {"[", "]"}

Blank(v) == \A k \in DOMAIN v : v[k] \in whitespace

(* A list is read to the bracket that closes it, and what the web          *)
(* interface has read from the file and writes back unchanged reads the    *)
(* same again (parse_option, skip_list, saveConfig).                       *)
SavedConfigReadsBack ==
  LET saved == {o \in parse_config(text) : o.value # <<>>}
  IN Plain(text) /\ (\A o \in saved : ~Blank(o.value)) =>
       /\ \A o \in saved : o.value[1] = "[" =>
            Count(o.value, 1, Len(o.value), "[") =
              Count(o.value, 1, Len(o.value), "]")
       /\ \A order \in SetToSeqs(saved) : parse_config(Written(order)) = saved

(* The watcher catches up with the last write of the file, whenever it     *)
(* looks and reads (start_config_watcher).                                 *)
ReloadCatchesUp ==
  \A v \in InRange :
    mtime # 0 /\ file = v /\ saving = NotSaving ~> running = v \/ file # v
=============================================================================
