----------------------------- MODULE MCPairing ------------------------------
(***************************************************************************)
(* What clients and users do to the host, in parts that do not look at     *)
(* each other's variables and of which nothing is claimed that must happen *)
(* eventually: two devices that pair under two unique ids (Pairing), the   *)
(* user of the web interface with the files behind it (WebConfig), the     *)
(* text of the configuration file (ConfigFile), and, on Windows, a         *)
(* client's fingers and pen (WindowsPointers), its gamepads                *)
(* (WindowsGamepads), of which a behaviour has either the touchpad and     *)
(* failures, or what the game sets, and the frames that it is shown        *)
(* (DesktopCapture); or, on Wayland, those of a PipeWire stream            *)
(* (ScreenCast); and what comes in on an RTSP connection (RtspConnection). *)
(* A behaviour is about one part.                                          *)
(***************************************************************************)
EXTENDS Pairing, TLC

CONSTANTS d1, d2, i1, i2,
          Parts,   \* the parts that the behaviours are about
          Addresses, Account, Tokens, Admins, Torn,
          LOGIN_FAIL_LIMIT, LOGIN_FAIL_WINDOW, CSRF_TOKEN_LIFETIME,
          MaxTime, MaxPasswords, MaxClients, MaxCsrf, MaxCrashes,
          MaxPieces,
          Pointers, Pen, TouchSlots, MaxFailures,
          Gamepads, PadSlots, Targets, Fingers, Motor, MaxArrivals, MaxTasks,
          Backends, Images, Encoders, MaxFrames, MaxTextures,
          Buffers, MaxStreams, MaxDraws, MaxChanges,
          BufSize, Needle, Overhead, MaxHeader, MaxPayload

ASSUME RtspAssumption ==
  /\ BufSize \in Nat \ {0} /\ Needle \in Nat \ {0} /\ Overhead \in Nat
  /\ MaxHeader \in Nat /\ MaxPayload \in Nat

VARIABLES
  part,
  now, g_login_failures, csrf_tokens, issued, api_tokens, guesses,
  password, passwords, clients, state_file, web, nv, torn,
  creds, identity, starting, crashes, known,
  text, typed, option, mtime, saving, commandLine, running, last_write,
  watcher,
  context, touch, touchInfo, activeTouchSlots, touchRepeat, pen, penInfo,
  penRepeat, contacts, meant, failures, doubt, crossed,
  gamepads, connected, gamepadMask, tasks, game, felt, arrivals, refused,
  confused, inherited,
  backend, pc, frame, visible, src, blend, last_frame, surface, produced,
  imgs, textures, next, at, opened, stale, aliased,
  step, img, delivered, over, stream, negotiate, dead, previous,
  closed, kind, buffers, queue, current, dmabuf, front, back, ready,
  published, early, streams, drawn, changes, streamed, excused, forgotten,
  abrupt, unjust,
  waiting, cipher, request, begin, crlf, got, split

W == INSTANCE WebConfig WITH file <- state_file, spoiled <- torn

ASSUME WebAssumption ==
  /\ None # Torn /\ None \notin W!Trees /\ Torn \notin W!Trees
ASSUME LoginAssumption ==
  /\ LOGIN_FAIL_LIMIT \in Nat /\ LOGIN_FAIL_WINDOW \in Nat
  /\ MaxTime \in Nat
  /\ None \notin [window_start : Nat, failures : 0..LOGIN_FAIL_LIMIT]

\* What a user types: parts of options with the names x and y.  The watcher
\* is at rest here; its run is that of MCHosting.
Pieces == {<<"x", "=">>, <<"y", "=">>, <<"x">>, <<" ">>, <<"#">>, <<"[">>,
           <<"]">>, <<"n">>}
F == INSTANCE ConfigFile
       WITH file <- option, Absent <- None, NotSaving <- None, InRange <- {},
            OutOfRange <- {}, Default <- None, MaxSaves <- 0

T == INSTANCE WindowsPointers WITH client <- meant, Slots <- TouchSlots
ASSUME PointersAssumption ==
  TouchSlots \in Nat \ {0} /\ Pen \notin Pointers /\ None \notin Pointers
G == INSTANCE WindowsGamepads
       WITH Clients <- Gamepads, Slots <- PadSlots, Values <- Motor,
            failures <- refused
ASSUME GamepadsAssumption ==
  PadSlots \subseteq Int /\ None \notin Gamepads \cup Targets
D == INSTANCE DesktopCapture
ASSUME ImagesAssumption ==
  None \notin Images \cup D!Held \cup D!Shown /\ "surface" \notin Images
C == INSTANCE ScreenCast WITH pc <- step
ASSUME BuffersAssumption == None \notin Buffers
R == INSTANCE RtspConnection WITH at <- waiting

webVars ==
  <<now, g_login_failures, csrf_tokens, issued, api_tokens, guesses, password,
    passwords, clients, state_file, web, nv, torn, creds, identity, starting,
    crashes, known>>
configVars == <<text, typed, option, mtime, saving, commandLine, running,
                last_write, watcher>>
pointerVars ==
  <<context, touch, touchInfo, activeTouchSlots, touchRepeat, pen, penInfo,
    penRepeat, contacts, meant, failures, doubt, crossed>>
gamepadVars == <<gamepads, connected, gamepadMask, tasks, game, felt,
                 arrivals, refused, confused, inherited>>
captureVars ==
  <<backend, pc, frame, visible, src, blend, last_frame, surface, produced,
    imgs, textures, next, at, opened, stale, aliased>>
castVars ==
  <<step, img, delivered, over, stream, negotiate, dead, previous,
    closed, kind, buffers, queue, current, dmabuf, front, back, ready,
    published, early, streams, drawn, changes, streamed, excused, forgotten,
    abrupt, unjust>>
rtspVars == <<waiting, cipher, request, begin, crlf, got, split>>

TwoDevices == {d1, d2}
TwoIds == {i1, i2}
Symmetric == Permutations(Devices) \cup Permutations(Ids)

\* A part that a behaviour is not about stays in one of its initial states.
AccessInit ==
  /\ part \in Parts /\ Init /\ W!Init /\ F!Init /\ T!Init /\ G!Init
  /\ D!Init /\ C!Init /\ R!Init
  /\ part # "capture" => backend = CHOOSE b \in Backends : TRUE
  /\ part # "pairing" => uid = [d \in Devices |-> i1]

\* A bound: a behaviour has reports of the gamepads and their touchpads, or
\* games that set something; gamepads come, go and are refused in both.
OneHalf ==
  \/ part = "touchpads" /\ tasks' = <<>>
  \/ /\ part = "games"
     /\ \A s \in PadSlots : /\ gamepads'[s].pointers = <<>>
                            /\ ~gamepads'[s].repeat /\ ~gamepads'[s].lost

AccessNext ==
  /\ UNCHANGED part
  /\ \/ part = "pairing" /\ Next
     \/ part # "pairing" /\ UNCHANGED vars
  /\ \/ part = "web" /\ W!Next
     \/ part # "web" /\ UNCHANGED webVars
  /\ \/ part = "text" /\ F!Edits
     \/ part # "text" /\ UNCHANGED configVars
  /\ \/ part = "pointers" /\ T!Next
     \/ part # "pointers" /\ UNCHANGED pointerVars
  /\ \/ part \in {"touchpads", "games"} /\ G!Next /\ OneHalf
     \/ part \notin {"touchpads", "games"} /\ UNCHANGED gamepadVars
  /\ \/ part = "capture" /\ D!Next
     \/ part # "capture" /\ UNCHANGED captureVars
  /\ \/ part = "cast" /\ C!Next
     \/ part # "cast" /\ UNCHANGED castVars
  /\ \/ part = "rtsp" /\ R!Next
     \/ part # "rtsp" /\ UNCHANGED rtspVars

AccessSpec ==
  AccessInit /\ [][AccessNext]_<<part, vars, webVars, configVars, pointerVars,
                                gamepadVars, captureVars, castVars, rtspVars>>

HostStateSurvives == W!HostStateSurvives
GuessesAreBounded == W!GuessesAreBounded
SavedConfigReadsBack == F!SavedConfigReadsBack

(* What Windows is told of a client's fingers, pen and gamepads is what    *)
(* the client does, however injections fail, callbacks cross and slots are *)
(* used again (platform/windows/input.cpp).                                *)
WindowsInputFollows == T!PointersFollowClient /\ G!GamepadsFollowClient
CapturedIsShown == D!CapturedIsShown
CastIsFollowed == C!CastIsFollowed
RequestsAreWhole == R!RequestsAreWhole
=============================================================================
