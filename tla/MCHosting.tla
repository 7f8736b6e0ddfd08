----------------------------- MODULE MCHosting -----------------------------
(***************************************************************************)
(* What hosting a client changes outside the stream, in parts that do not  *)
(* look at each other's variables: the settings and the display (Hosting), *)
(* the compositor of the app (HeadlessCompositor), what is written and     *)
(* sent about the session (SessionHistory), the router (PortMapping), and  *)
(* the watcher of the configuration file (ConfigFile).  A behaviour is     *)
(* about one part.                                                         *)
(***************************************************************************)
EXTENDS Hosting, Sequences, TLC

CONSTANTS c1, c2, Parts, Backends, Desktops, MaxNames, MaxLaunches,
          MaxSessions, Urls, Replies, MaxFailures,
          MaxPorts, Lifetime, Kinds, MaxTroubles,
          Absent, NotSaving, InRange, OutOfRange, Default, MaxSaves

VARIABLES
  part,
  desktop, compositor_at, using, before, socket, output, child, files, held,
  headless, rival, mine, ready, virtual, stuck, launches,
  begun, ended, history, open, url, attempt, watchdog, fatal, failures,
  written, torn,
  kind, up, entries, upnp_at, next, mapped, shutdown, troubles,
  text, typed, option, mtime, saving, commandLine, running, last_write,
  watcher

C == INSTANCE HeadlessCompositor WITH at <- compositor_at
H == INSTANCE SessionHistory WITH file <- history, lost <- torn
R == INSTANCE PortMapping WITH at <- upnp_at

F == INSTANCE ConfigFile WITH file <- option, Pieces <- {},
                         MaxPieces <- 0

\* One client with a profile for both kinds of settings, one for one kind.
MCProfile == c1 :> {"bitrate", "latency"} @@ c2 :> {"bitrate"}

compositorVars ==
  <<desktop, compositor_at, using, before, socket, output, child, files, held,
    headless, rival, mine, ready, virtual, stuck, launches>>
historyVars ==
  <<begun, ended, history, open, url, attempt, watchdog, fatal, failures,
    written, torn>>
portVars == <<kind, up, entries, upnp_at, next, mapped, shutdown, troubles>>
textVars == <<text, typed>>
watchVars ==
  <<option, mtime, saving, commandLine, running, last_write, watcher>>
configVars == <<textVars, watchVars>>

HostingInit ==
  /\ part \in Parts /\ Init /\ C!Init /\ H!Init /\ R!Init /\ F!Init
  /\ part # "compositor" => desktop = "none"
  /\ part # "ports" => kind = "good"
  /\ part # "watch" => option = Absent /\ commandLine = Absent

HostingNext ==
  /\ UNCHANGED part
  /\ \/ /\ part = "settings" /\ Next
        /\ UNCHANGED <<compositorVars, historyVars, portVars, configVars>>
     \/ /\ part = "compositor" /\ C!Next
        /\ UNCHANGED <<vars, historyVars, portVars, configVars>>
     \/ /\ part = "history" /\ H!Next
        /\ UNCHANGED <<vars, compositorVars, portVars, configVars>>
     \/ /\ part = "ports" /\ R!Next
        /\ UNCHANGED <<vars, compositorVars, historyVars, configVars>>
     \/ /\ part = "watch" /\ (F!Saves \/ F!Watch)
        /\ UNCHANGED <<vars, compositorVars, historyVars, portVars>>

\* The fairness of Hosting, of PortMapping where it is not at rest, and of
\* the watcher.
HostingSpec ==
  /\ HostingInit
  /\ [][HostingNext]_<<part, vars, compositorVars, historyVars, portVars,
                      configVars>>
  /\ Fairness
  /\ WF_portVars(part = "ports" /\ R!Thread)
  /\ WF_portVars(part = "ports" /\ R!RouterReturns)
  /\ WF_watchVars(part = "watch" /\ F!Watch)
  /\ WF_watchVars(part = "watch" /\ F!Write)

CompositorIsOurs == C!CompositorIsOurs
HistoryIsReadable == H!HistoryIsReadable
WebhooksAreNotFatal == H!WebhooksAreNotFatal
PortsComeBack == part = "ports" => R!PortsComeBack
ReloadCatchesUp == F!ReloadCatchesUp
=============================================================================
