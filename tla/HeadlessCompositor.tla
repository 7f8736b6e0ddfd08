------------------------- MODULE HeadlessCompositor -------------------------
(***************************************************************************)
(* The compositor that an app is launched in when the host is headless     *)
(* (src/platform/linux/headless_compositor.cpp), as execute and terminate  *)
(* use it (src/process.cpp).  labwc and gamescope are processes that       *)
(* Sunshine forks; it learns which Wayland socket is theirs by looking for *)
(* a new name in the runtime directory.  krfb is an output of the user's   *)
(* KWin session, and niri is the user's session itself.                    *)
(*                                                                         *)
(* A Wayland compositor takes the first name whose lock file nobody holds, *)
(* so that one which was killed leaves files that the next one takes over. *)
(***************************************************************************)
EXTENDS Integers, FiniteSets

CONSTANTS
  Backends,   \* settings of compositor_backend
  Desktops,   \* what the user's session may be
  MaxNames,   \* bound: names of Wayland sockets
  MaxLaunches \* bound: launches of an app

Names == 1 .. MaxNames
Files == Names \X {"lock", "socket"}
NoFile == <<0, "none">>

VARIABLES
  desktop,   \* external: the session the environment tells of
  at,        \* where the launching thread is
  using,     \* _using_krfb, _using_gamescope, _using_niri of the object
  before,    \* the files that were there before the fork
  socket,    \* _wayland_socket
  output,    \* _output_name is not empty
  child,     \* what _pid is: none, running, or dead and not waited for
  files,     \* external: wayland-* in the runtime directory
  held,      \* external: names whose lock some compositor holds
  headless,  \* external: those of them on which another's HEADLESS-1 shows
  mine,      \* external: the name that our process holds or held, or 0
  ready,     \* external: our process answers with its output HEADLESS-1
  virtual,   \* external: the output that krfb has added is there
  stuck,     \* history: krfb could not be asked to remove it
  rival,     \* history: one with a HEADLESS-1 has come while labwc's was
             \* looked for
  launches

worldVars == <<files, held, headless, mine, ready>>
vars == <<desktop, at, using, before, socket, output, child, worldVars,
          virtual, stuck, rival, launches>>

Init ==
  /\ desktop \in Desktops
  /\ at = "rest" /\ using = "none"
  /\ before = {} /\ socket = NoFile /\ output = FALSE
  /\ child = "none"
  /\ files = {} /\ held = {} /\ headless = {} /\ mine = 0 /\ ready = FALSE
  /\ virtual = FALSE /\ stuck = FALSE /\ rival = FALSE
  /\ launches = 0

-----------------------------------------------------------------------------
(* The world: a compositor first has the lock, then the socket.            *)

Free == {n \in Names : n \notin held}
First(n) == n \in Free /\ \A m \in Free : n <= m

\* Another compositor comes, on a screen or headless as ours is (h), or
\* leaves with its files.
OtherComes(n, h) ==
  /\ First(n) /\ held' = held \cup {n}
  /\ headless' = IF h THEN headless \cup {n} ELSE headless
  /\ rival' = (rival \/ (h /\ at \in {"discover", "check"}))
  /\ files' = files \cup {<<n, "lock">>, <<n, "socket">>}
  /\ UNCHANGED <<desktop, at, using, before, socket, output, child, mine,
                 ready, virtual, stuck, launches>>

OtherLeaves(n) ==
  /\ n \in held /\ (child = "running" => n # mine)
  /\ held' = held \ {n} /\ files' = files \ ({n} \X {"lock", "socket"})
  /\ headless' = headless \ {n}
  /\ UNCHANGED <<desktop, at, using, before, socket, output, child, mine,
                 ready, virtual, stuck, rival, launches>>

OursLocks(n) ==
  /\ child = "running" /\ mine = 0 /\ First(n)
  /\ mine' = n /\ held' = held \cup {n}
  /\ files' = files \cup {<<n, "lock">>}
  /\ UNCHANGED <<desktop, at, using, before, socket, output, child, headless,
                 ready, virtual, stuck, rival, launches>>

OursListens ==
  /\ child = "running" /\ mine # 0 /\ <<mine, "socket">> \notin files
  /\ files' = files \cup {<<mine, "socket">>}
  /\ UNCHANGED <<desktop, at, using, before, socket, output, child, held,
                 headless, mine, ready, virtual, stuck, rival, launches>>

OursIsReady ==
  /\ child = "running" /\ <<mine, "socket">> \in files /\ ~ready
  /\ ready' = TRUE
  /\ UNCHANGED <<desktop, at, using, before, socket, output, child, files,
                 held, headless, mine, virtual, stuck, rival, launches>>

\* It crashes, or execl has failed: files stay, without anybody's lock.
OursDies ==
  /\ child = "running" /\ child' = "dead"
  /\ held' = held \ {mine} /\ ready' = FALSE
  /\ UNCHANGED <<desktop, at, using, before, socket, output, files, headless,
                 mine, virtual, stuck, rival, launches>>

-----------------------------------------------------------------------------
(* start.                                                                  *)

resolve_backend(setting) ==
  IF setting \in {"labwc", "krfb", "gamescope"} THEN setting
  ELSE CASE desktop = "kwin" -> "krfb"
         [] desktop = "niri" -> "niri"
         [] desktop = "gamescope" -> "gamescope"
         [] OTHER -> "labwc"

(* Only the strings of three backends are known to execute.                *)
Start(setting) ==
  /\ at = "rest" /\ launches < MaxLaunches
  /\ launches' = launches + 1
  /\ LET backend == resolve_backend(setting)
     IN /\ at' = backend
        /\ using' = IF backend = "labwc" THEN "none" ELSE backend
  /\ before' = {} /\ socket' = NoFile /\ output' = FALSE
  /\ UNCHANGED <<desktop, child, worldVars, virtual, stuck, rival>>

start_krfb(created) ==
  /\ at = "krfb"
  /\ output' = TRUE /\ virtual' = (virtual \/ created)
  /\ at' = IF created THEN "up" ELSE "rest"
  /\ UNCHANGED <<desktop, using, before, socket, child, worldVars, stuck,
                 rival, launches>>

(* niri must run, and its configuration have an output for us.             *)
start_niri(has) ==
  /\ at = "niri"
  /\ output' = has
  /\ at' = IF has THEN "up" ELSE "rest"
  /\ UNCHANGED <<desktop, using, before, socket, child, worldVars, virtual,
                 stuck, rival, launches>>

(* start_labwc and start_gamescope look at the directory and fork.         *)
Fork ==
  /\ at \in {"labwc", "gamescope"}
  /\ before' = files
  /\ output' = (at = "gamescope")
  /\ child' = "running" /\ mine' = 0 /\ ready' = FALSE
  /\ at' = "discover"
  /\ rival' = FALSE
  /\ UNCHANGED <<desktop, using, socket, files, held, headless, virtual,
                 stuck, launches>>

Cannot ==   \* a program is not found, or fork fails
  /\ at \in {"labwc", "gamescope"}
  /\ at' = "rest" /\ output' = (output \/ at = "gamescope")
  /\ UNCHANGED <<desktop, using, before, socket, child, worldVars, virtual,
                 stuck, rival, launches>>

Unchecked(f) ==   \* mutant: labwc is not asked for HEADLESS-1
  /\ at = "discover" /\ f \in files \ before
  /\ socket' = f
  /\ at' = "up"
  /\ UNCHANGED <<desktop, using, before, output, child, worldVars, virtual,
                 stuck, rival, launches>>

Unlisted(f) ==   \* mutant: what was there before the fork is not left out
  /\ at = "discover" /\ f \in files
  /\ socket' = f
  /\ at' = IF using = "gamescope" THEN "up" ELSE "check"
  /\ UNCHANGED <<desktop, using, before, output, child, worldVars, virtual,
                 stuck, rival, launches>>

(* The first new name in the order of the directory, a lock's as well as a *)
(* socket's; gamescope is not asked whether it is its own.                 *)
Discover(f) ==
  /\ at = "discover" /\ f \in files \ before
  /\ socket' = f
  /\ at' = IF using = "gamescope" THEN "up" ELSE "check"
  /\ UNCHANGED <<desktop, using, before, output, child, worldVars, virtual,
                 stuck, rival, launches>>

\* A compositor answers on f, and wlr-randr's list has a HEADLESS-1: ours,
\* or anybody's.
ShowsHeadless(f) ==
  /\ f \in files
  /\ (f = <<mine, "socket">> /\ ready) \/ f \in headless \X {"socket"}

OutputDetected ==
  /\ at = "check" /\ ShowsHeadless(socket)
  /\ at' = "up"
  /\ UNCHANGED <<desktop, using, before, socket, output, child, worldVars,
                 virtual, stuck, rival, launches>>

TimedOut ==
  /\ at \in {"discover", "check"}
  /\ at' = "stop"
  /\ UNCHANGED <<desktop, using, before, socket, output, child, worldVars,
                 virtual, stuck, rival, launches>>

(* The app does not start, or has ended: execute and terminate stop it.    *)
AppIsOver ==
  /\ at = "up" /\ at' = "stop"
  /\ UNCHANGED <<desktop, using, before, socket, output, child, worldVars,
                 virtual, stuck, rival, launches>>

-----------------------------------------------------------------------------
(* stop.                                                                   *)

stop_krfb(removed) ==
  /\ at' = "rest" /\ output' = FALSE
  /\ virtual' = (virtual /\ (output => ~removed))
  /\ stuck' = (stuck \/ (virtual /\ output /\ ~removed))
  /\ UNCHANGED <<desktop, using, before, socket, child, worldVars, rival,
                 launches>>

stop_niri ==
  /\ at' = "rest" /\ output' = FALSE /\ socket' = NoFile /\ using' = "none"
  /\ UNCHANGED <<desktop, before, child, worldVars, virtual, stuck, rival,
                 launches>>

(* stop_gamescope, stop_labwc: SIGTERM, and SIGKILL to one that does not   *)
(* take itself away in time.                                               *)
stop_process(graceful) ==
  /\ at' = "rest" /\ child' = "none"
  /\ ready' = FALSE
  /\ held' = IF child = "running" THEN held \ {mine} ELSE held
  /\ files' = IF child = "running" /\ graceful
                THEN files \ ({mine} \X {"lock", "socket"}) ELSE files
  /\ UNCHANGED <<desktop, using, before, socket, output, headless, mine,
                 virtual, stuck, rival, launches>>

stop(ok) ==
  /\ at = "stop"
  /\ CASE using = "krfb" -> stop_krfb(ok)
       [] using = "niri" -> stop_niri
       [] OTHER -> stop_process(ok)

Next ==
  \/ \E n \in Names, h \in BOOLEAN : OtherComes(n, h)
  \/ \E n \in Names : OtherLeaves(n) \/ OursLocks(n)
  \/ OursListens \/ OursIsReady \/ OursDies
  \/ \E s \in Backends : Start(s)
  \/ \E ok \in BOOLEAN : start_krfb(ok) \/ start_niri(ok) \/ stop(ok)
  \/ Fork \/ Cannot \/ OutputDetected \/ TimedOut \/ AppIsOver
  \/ \E f \in Files : Discover(f)

-----------------------------------------------------------------------------
(* A launch that has failed or is over leaves no process and no output of  *)
(* the host's; and what labwc's app is told to draw to is labwc's own      *)
(* socket, whoever else is there, comes and goes, as long as nobody comes  *)
(* with a HEADLESS-1 between the fork and the end of the search: the list  *)
(* of what was there before keeps out the headless compositors that were,  *)
(* and the wait for HEADLESS-1 the others that came (start_labwc, stop).   *)
CompositorIsOurs ==
  /\ at = "rest" => child = "none" /\ (virtual => stuck)
  /\ at = "up" /\ using = "none" /\ ~rival => socket = <<mine, "socket">>

(* The inductive invariant behind it: where start and stop are goes with   *)
(* the backend, a child with labwc or gamescope, an output that krfb added *)
(* with one that stop will remove, and the name with the one we listen on. *)
TypeOK ==
  /\ at \in {"rest", "krfb", "niri", "labwc", "gamescope", "discover",
             "check", "up", "stop"}
  /\ using \in {"none", "krfb", "niri", "gamescope"}
  /\ child \in {"none", "running", "dead"}
  /\ files \subseteq Files /\ mine \in {0} \cup Names

BackendIsKnown ==
  /\ at \in {"krfb", "niri", "gamescope"} => using = at
  /\ at \in {"labwc", "check"} => using = "none"
  /\ at = "discover" => using \in {"none", "gamescope"}

LeftoversAreKnown ==
  /\ child # "none" => /\ at \in {"discover", "check", "up", "stop"}
                       /\ using \in {"none", "gamescope"}
  /\ virtual /\ ~stuck => at \in {"up", "stop"} /\ using = "krfb" /\ output

(* A headless compositor of another has its socket, and not on our name.   *)
OthersAreApart ==
  /\ headless \subseteq held \cap Names
  /\ headless \X {"socket"} \subseteq files
  /\ child = "running" => mine \in (held \cup {0}) \ headless

SocketIsOurs ==
  /\ ready => mine # 0
  /\ at \in {"discover", "check"} /\ ~rival =>
       headless \X {"socket"} \subseteq before
  /\ at = "check" => socket \notin before
  /\ at = "up" /\ using = "none" /\ ~rival =>
       mine # 0 /\ socket = <<mine, "socket">>

IInv ==
  TypeOK /\ BackendIsKnown /\ LeftoversAreKnown /\ OthersAreApart /\ SocketIsOurs
=============================================================================
