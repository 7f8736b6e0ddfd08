--------------------------- MODULE SessionHistory ---------------------------
(***************************************************************************)
(* What is written and sent when a session starts and ends: the lines of   *)
(* the history file (src/session_history.cpp) and the webhooks             *)
(* (src/webhooks.cpp), from session::start on the RTSP thread and from     *)
(* session::join on whichever thread cleans up, under the watchdog of join *)
(* (src/stream.cpp).                                                       *)
(*                                                                         *)
(* Time is counted in fifths of a second and passes while join waits for a *)
(* webhook's server; everything else that join does is taken to be quick.  *)
(***************************************************************************)
EXTENDS Integers, Sequences, SequencesExt

CONSTANTS
  MaxSessions,  \* bound: sessions that ever start
  Urls,         \* how many webhook_urls are configured
  Replies,      \* external: what their servers do: "ok", "refused" (4xx),
                \* "error" (5xx, or no connection), "silent"
  MaxFailures   \* bound: writes that fail or are cut short by a crash

HangLimit == 50       \* force_kill: 10s
CURLOPT_TIMEOUT == 25 \* 5s
MAX_RETRIES == 2

Ids == 1 .. MaxSessions

VARIABLES
  begun,     \* how far session::start is with each session
  ended,     \* how far session::join is
  file,      \* the lines of session_history.jsonl: rec, and whether it parses
  open,      \* the last line has no newline
  url, attempt, \* of the notification that join sends
  watchdog,  \* the time until force_kill runs, or 0 without one
  fatal,     \* force_kill has run: the host is down
  failures,
  written,   \* history: the records that were written, in their order
  lost       \* history: those that a torn line before them has spoiled

noticeVars == <<url, attempt, watchdog, fatal>>
fileVars == <<file, open, written, lost>>
vars == <<begun, ended, fileVars, noticeVars, failures>>

Init ==
  /\ begun = [s \in Ids |-> "no"] /\ ended = [s \in Ids |-> "no"]
  /\ file = <<>> /\ open = FALSE
  /\ url = 1 /\ attempt = 0 /\ watchdog = 0 /\ fatal = FALSE
  /\ failures = 0
  /\ written = <<>> /\ lost = {}

-----------------------------------------------------------------------------
(* session_history.                                                        *)

Line(rec, whole) == [rec |-> rec, whole |-> whole]

\* A line without its newline takes up what is appended next.
Glued == [file EXCEPT ![Len(file)] = Line(Last(file).rec, FALSE)]

record(rec) ==
  /\ file' = IF open THEN Glued ELSE Append(file, Line(rec, TRUE))
  /\ open' = FALSE
  /\ written' = Append(written, rec)
  /\ lost' = IF open THEN lost \cup {rec, Last(file).rec} ELSE lost
  /\ UNCHANGED failures

(* The file cannot be opened, or the disk is full in the middle of the     *)
(* line, perhaps just before its newline.                                  *)
RecordFails(rec) ==
  /\ failures < MaxFailures /\ failures' = failures + 1
  /\ \/ UNCHANGED <<file, open, written, lost>>
     \/ \E whole \in IF open THEN {FALSE} ELSE BOOLEAN :
          /\ file' = IF open THEN Glued ELSE Append(file, Line(rec, whole))
          /\ written' = IF whole THEN Append(written, rec) ELSE written
          /\ lost' = IF open THEN lost \cup {Last(file).rec} ELSE lost
          /\ open' = TRUE

Records(lines) == [i \in DOMAIN lines |-> lines[i].rec]
Whole == {i \in DOMAIN file : file[i].whole}

\* The elements of s at the given places, in their order.
Chosen(s, places) ==
  LET upto[n \in 0 .. Len(s)] ==
        IF n = 0 THEN <<>>
        ELSE IF n \in places THEN Append(upto[n - 1], s[n]) ELSE upto[n - 1]
  IN upto[Len(s)]

recentStops(limit) ==   \* mutant: the exception is caught outside the loop
  LET good == {n \in 0 .. Len(file) : \A i \in 1 .. n : file[i].whole}
      all == Records(SubSeq(file, 1, Max(good)))
  IN SubSeq(all, Max({1, Len(all) - limit + 1}), Len(all))

recent(limit) ==
  LET all == Chosen(Records(file), Whole)
  IN SubSeq(all, Max({1, Len(all) - limit + 1}), Len(all))

-----------------------------------------------------------------------------
(* session::start, from where the session is RUNNING.                      *)

Quiet(progress) == \A s \in Ids : progress[s] \in {"no", "done"}

StartSession(s) ==
  /\ ~fatal /\ begun[s] = "no" /\ Quiet(begun)
  /\ \A r \in 1 .. s - 1 : begun[r] # "no"
  /\ begun' = [begun EXCEPT ![s] = "record"]
  /\ UNCHANGED <<ended, fileVars, noticeVars, failures>>

StartRecords(s) ==
  /\ ~fatal /\ begun[s] = "record"
  /\ record(<<s, "start">>) \/ RecordFails(<<s, "start">>)
  /\ begun' = [begun EXCEPT ![s] = "notify"]
  /\ UNCHANGED <<ended, noticeVars>>

\* The RTSP thread waits as well, but for no watchdog.
StartNotifies(s) ==
  /\ ~fatal /\ begun[s] = "notify"
  /\ begun' = [begun EXCEPT ![s] = "done"]
  /\ UNCHANGED <<ended, fileVars, noticeVars, failures>>

-----------------------------------------------------------------------------
(* session::join, which may come before session::start has returned.       *)

Join(s) ==
  /\ ~fatal /\ begun[s] # "no" /\ ended[s] = "no" /\ Quiet(ended)
  /\ ended' = [ended EXCEPT ![s] = "record"]
  /\ watchdog' = HangLimit
  /\ UNCHANGED <<begun, fileVars, url, attempt, fatal, failures>>

JoinRecords(s) ==
  /\ ~fatal /\ ended[s] = "record"
  /\ record(<<s, "end">>) \/ RecordFails(<<s, "end">>)
  /\ url' = 1 /\ attempt' = 0
  /\ ended' = [ended EXCEPT ![s] = "notify"]
  /\ UNCHANGED <<begun, watchdog, fatal>>

(* One POST: anything but a 2xx or 4xx is tried again, after a pause that  *)
(* doubles, until MAX_RETRIES.                                             *)
Post(s, reply) ==
  /\ ~fatal /\ ended[s] = "notify" /\ url <= Urls
  /\ LET again == reply \notin {"ok", "refused"} /\ attempt < MAX_RETRIES
         time == (IF reply = "silent" THEN CURLOPT_TIMEOUT ELSE 0)
                 + (IF again THEN 2 ^ attempt ELSE 0)
     IN /\ url' = IF again THEN url ELSE url + 1
        /\ attempt' = IF again THEN attempt + 1 ELSE 0
        /\ watchdog' = Max({0, watchdog - time})
        /\ fatal' = (watchdog <= time)
  /\ UNCHANGED <<begun, ended, fileVars, failures>>

\* The rest of join; its guard takes the watchdog away.
JoinReturns(s) ==
  /\ ~fatal /\ ended[s] = "notify" /\ url > Urls
  /\ ended' = [ended EXCEPT ![s] = "done"]
  /\ watchdog' = 0
  /\ UNCHANGED <<begun, fileVars, url, attempt, fatal, failures>>

(* The host goes down, by force_kill or otherwise, perhaps in the middle   *)
(* of a line, and is started again.                                        *)
Over == [s \in Ids |-> IF begun[s] = "no" THEN "no" ELSE "done"]

Restart ==
  /\ begun' = Over /\ ended' = Over
  /\ watchdog' = 0 /\ fatal' = FALSE
  /\ UNCHANGED <<url, attempt>>
  /\ \/ UNCHANGED <<fileVars, failures>>
     \/ \E s \in Ids : begun[s] = "record" /\ RecordFails(<<s, "start">>)
     \/ \E s \in Ids : ended[s] = "record" /\ RecordFails(<<s, "end">>)

Next ==
  \/ \E s \in Ids :
       \/ StartSession(s) \/ StartRecords(s) \/ StartNotifies(s)
       \/ Join(s) \/ JoinRecords(s) \/ JoinReturns(s)
       \/ \E reply \in Replies : Post(s, reply)
  \/ Restart

-----------------------------------------------------------------------------
Kept == {i \in DOMAIN written : written[i] \notin lost}

(* What was written is read back in its order, up to the limit, whatever   *)
(* writes failed or were cut short: a torn line costs itself and the       *)
(* record that is appended to it (record, recent).                         *)
HistoryIsReadable ==
  LET kept == Chosen(written, Kept)
  IN \A limit \in 1 .. Len(kept) + 1 :
       recent(limit) =
         SubSeq(kept, Max({1, Len(kept) - limit + 1}), Len(kept))

(* The inductive invariant behind it: no record is written twice, and an   *)
(* open line holds the last record that was written, or none that counts.  *)
Recs == Ids \X {"start", "end"}
Progress == {"no", "record", "notify", "done"}
TypeOK ==
  /\ begun \in [Ids -> Progress] /\ ended \in [Ids -> Progress]
  /\ file \in Seq([rec : Recs, whole : BOOLEAN]) /\ open \in BOOLEAN
  /\ written \in Seq(Recs) /\ lost \subseteq Recs

Past(r) ==
  (IF r[2] = "start" THEN begun ELSE ended)[r[1]] \in {"notify", "done"}
Wrote(r) == \E i \in DOMAIN written : written[i] = r

IInv ==
  /\ TypeOK
  /\ \A s \in Ids : ended[s] # "no" => begun[s] # "no"
  /\ \A r \in lost : Past(r)
  /\ \A i \in DOMAIN written : Past(written[i])
  /\ \A i, j \in DOMAIN written : written[i] = written[j] => i = j
  /\ open => LET line == file[Len(file)] IN
       /\ file # <<>> /\ Past(line.rec)
       /\ line.whole => /\ written # <<>> /\ line.rec \notin lost
                        /\ line.rec = written[Len(written)]
       /\ ~line.whole /\ Wrote(line.rec) => line.rec \in lost
  /\ Chosen(Records(file), Whole) = Chosen(written, Kept)

(* Sending a notification does not end the host (notify; webhooks.h).      *)
WebhooksAreNotFatal == ~fatal
=============================================================================
