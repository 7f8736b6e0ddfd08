# Sunshine streaming host: a verification project

TLA+ models of the parts of the host that are hard to get right and hard to
test: what its threads do to the state they share, what crashes and failures
leave behind, and the boundaries of its counters and texts. Every definition is
translated from the C++ code under `src/`; `PROJECT.json` names, for each one,
the lines it stands for. Proofs that hold for every value of the constants stand
beside the models, in the modules whose names end in `_proofs`.

## 1. The system

A host streams its screen, sound and one launched application to Moonlight
clients. It is one process with many threads:

| thread | code | what it does |
| --- | --- | --- |
| `main` | `main.cpp` | starts the servers; on `mail::shutdown` stops them |
| HTTPS and HTTP servers, one thread each | `nvhttp.cpp` | pairing, `/launch`, `/resume`, `/cancel` for clients |
| web interface, one thread | `confighttp.cpp` | configuration, clients, updates |
| RTSP handler | `rtsp.cpp` | the handshake; every 500 ms cleans up stopped sessions |
| control broadcast thread | `stream.cpp` | one per broadcast context: ENet control stream, ping timeouts |
| video, audio and receive broadcast threads | `stream.cpp` | one each per broadcast context |
| video and audio worker | `stream.cpp`, `video.cpp`, `audio.cpp` | one each per session |
| capture thread | `video.cpp` | one per display, shared by its sessions |
| task pool | `task_pool.h`, `thread_pool.h` | one worker: input, timers, feedback of gamepads |
| scheduler of the display | `display_device.cpp` | applies and reverts display modes, and tries again |
| watcher, UPnP, updater | `config.cpp`, `upnp.cpp`, `update.cpp` | reload the file, keep ports mapped, install releases |

The components, how they meet, and what makes each correct:

* **Streaming sessions** (`stream.cpp`): `session_t` is started by the RTSP
  thread, watched by the control thread, stopped by any and destroyed by whoever
  joins it. No thread may use a destroyed session, no stop may be lost, every
  stopped session ends. Frames and sound go through bounded queues that drop:
  what is sent must be decodable, and parity must cover what it claims.
* **RTSP server** (`rtsp.cpp`): session slots, one pending launch with a timer,
  and a buffer per connection. Slots hold the sessions not yet joined; a launch
  is never replaced silently; a request is handled whole.
* **GameStream HTTP server** (`nvhttp.cpp`): pairing, the list of clients, and
  requests that change sessions, profile, display and app. Only devices that
  showed the PIN are paired, and the list survives restarts.
* **Web configuration server** (`confighttp.cpp`): passwords, tokens, limits on
  guesses, and the configuration file, written back as it was read.
* **Events, queues and mail** (`thread_safe.h`): one lock around a value each.
* **Task pool** (`task_pool.h`, `thread_pool.h`): tasks run once, in order, not
  before their time, not after a cancel; no wake-up is lost.
* **Launched application** (`process.cpp`): prep and undo commands pair up.
* **Input** (`input.cpp`): messages joined without changing their effect, one
  drain per client, timers that race with what comes after them.
* **Host life cycle** (`main.cpp`): order of start and stop.
* **Configuration** (`config.cpp`), **client profiles** (`client_profiles.cpp`),
  **display device** (`display_device.cpp`): overrides that must be taken back.
* **Platform back ends** (`src/platform`): capture, virtual devices, drivers.
* **Video capture and encoding** (`video.cpp`, `nvenc`): shared capture threads,
  the choice of an encoder, the list of displays, invalidated references.
* **Audio capture** (`audio.cpp`): the shared context that moves the default sink.
* **Adaptive bitrate**, **updates**, **session history and webhooks**, **network
  discovery**: small machines with failures of their own.
* GPU governor, logging, tray and utilities are not modelled.

`PROJECT.json` lists them all with their status, and under `hazards` the lines
where the code is exposed, with the property that would catch each.

## 2. Modules

Modules that look at each other's state are one module; modules that do not
share state are checked side by side: an MC module has a variable `part`, each
behaviour is about one part, and the others rest in an initial state. A part's
state is what the table names; comments at its VARIABLES say which field of the
code each one is.

| MC module | modules | proofs |
| --- | --- | --- |
| `MCStreamSession` | `StreamSession` | `StreamSession_proofs` |
| `MCInput` | `TaskPool` (over `TaskSchedule`), `InputQueue`, `InputDevices` | `Input_proofs` |
| `MCHosting` | `Hosting`, `HeadlessCompositor`, `SessionHistory`, `PortMapping`, `ConfigFile` (its watcher) | `Hosting_proofs` |
| `MCMedia` | `CaptureThread`, `CaptureSync`, `EncoderProbe`, `DisplayList`, `DisplayMode`, `VideoBroadcast`, `NvencFrames`, `AdaptiveBitrate` | `Media_proofs` |
| `MCPairing` | `Pairing`, `WebConfig`, `ConfigFile` (its text), `WindowsPointers`, `WindowsGamepads`, `DesktopCapture`, `ScreenCast`, `RtspConnection` | `Pairing_proofs`, `Access_proofs` |
| `MCServices` | `AppProcess`, `LaunchSession`, `VideoFec`, `AudioStream`, `AudioContext`, `NvPrefs`, `Updates` | `Services_proofs` |

Every safety property that a passing run checks is proved for every value of the
constants; liveness stays with TLC (section 9). `Counting` has what the proofs about
data of any length share: least and greatest numbers, and counting up to a bound.

Conventions. An action is what a thread does between two points where another
thread could observe or change what it touches: one hold of a lock, one access
to an atomic, one call that may fail. A variable marked *external* is not the
host's state but that of a router, a driver, a client or a user. A variable
marked *history* records what a property speaks about. A name such as `lost`,
`spoiled`, `split` marks behaviours that the property excludes, each because the
code really fails there: section 8 has them all.

## 3. Sessions (`StreamSession`)

The life of a session, over the RTSP handler, the two servers that make
requests, the main thread at shutdown, the control thread, and the workers.

| state | code |
| --- | --- |
| `slots`, `slotsLock` | `rtsp_server_t::_session_slots` and its lock |
| `alive` | `session_t` objects some `shared_ptr` holds |
| `state`, `deadline`, `peer`, `shutdown`, `controlEnd` | fields of `session_t`; `deadline` is `pingTimeout` compared with the clock, `"epoch"` while it has not been set |
| `worker` | `videoThread`, `audioThread` of each session: receiving the ping, capturing, leaving, returned |
| `bcast`, `refs`, `bshutdown` | the counted broadcast context, who holds a reference, `mail::broadcast_shutdown` |
| `ctl`, `cpc`, `ctodo`, `ccur`, `awaiting` | `control_server_t::_sessions` and the control thread's place in its loop |
| `pc`, `cur`, `mode`, `todo`, `starting` | where a thread is in `cmd_announce`, `clear` or a request |
| `running`, `platform` | `running_sessions` and the platform callbacks |
| `invited`, `app`, `hostDown` | a pending launch session, an app that runs, `mail::shutdown` |

`session::start` is eight actions (`RefBroadcast`, `PushSession`, `SpawnWorkers`,
...), `session::join` four, `clear` is a loop of `Visit` and a join under the
lock, the control thread is `ControlTop`, a scan (`ControlVisit`,
`ControlTimeout`, `ControlStop`), one ENet event at a time, and the farewell after
the loop. Joining a thread that has not been started throws, which `JoinThrows`
models.

| run | instance | shows |
| --- | --- | --- |
| `two_sessions` | 2 sessions, 1 worker each, every request, the app exits, the host shuts down | `ControlSeesLiveSessions`, `ContextServesItsSessions`, `StopIsNotOverwritten` |
| `sessions_end` | 1 session, both workers, fairness | `WorkersSeeTheirSession`; `JoinsReturn`: stopped sessions end and requests are answered while the app runs |
| `app_exit_hang` | 1 session, the app may exit | why `JoinsReturn` needs that condition (section 8) |

Bounds: two sessions are enough for one to start while the other ends, which
every hazard here needs at most. `OneAtATime` follows the second session only
while no request that ends sessions is at work, the invitation has not lapsed and a
`/resume` beside it has something to clean up, and one such request at a time
beside one session; the theorems of section 9 need no such bound. Sessions and workers are symmetric (no liveness is checked
in that run). `UIntRange` = 8 stands for 2^32, above any number of sessions, so
that only a step below zero wraps. Deadlock is not checked, here or elsewhere: a
host without clients may rest.

Fairness: every thread of the host goes on. It is strong for the threads that take
the lock of the slots or of `_sessions`, since the mutexes serve each in turn
under any real scheduler, and weak for the control thread and the workers.
`recv_ping` gives up after `ping_timeout`, and capture ends once the shutdown
event of its session is up. Clients, requests, the app and the clock owe nothing.

## 4. The task pool and the input (`MCInput`)

`TaskSchedule` is the abstract specification: a task begins at most once, not
before its time, in the order of the calls or of the deadlines, and not after it
was cancelled. `TaskPool` is the code: a deque and a vector of timers sorted by
insertion, both under `_task_mutex`, and workers that check, look again under
`_lock` and wait. One action is what happens under one hold of a lock; reading
`_continue` is one of its own. `InputQueue` and `InputDevices` build on what
`TaskSchedule` promises.

| state | code |
| --- | --- |
| `tasks`, `timers`, `going` | `_tasks`, `_timer_tasks`, `_continue` |
| `pc`, `running`, `wake`, `notified` | each worker in `_main`, its task, its deadline, notifications |
| `queue`, `pending`, `ready`, `due`, `processed`, `entry` | `input_queue`, `input_drain_pending`, the pool's tasks, and the drain under way |
| `mouse_press`, `key_press`, `repeat`, `delay`, `pad`, `gamepadMask` | the globals and the members of `input_t` of those names |
| `device_timers`, `releasing`, `freeing` | timers and tasks of `input.cpp` that the pool holds |
| `down` | what the operating system holds down |

The run `input` has three tasks, two workers and delays of 0 and 2 in a clock up to
2; two clients that send keys, or one that sends each kind of message that can be
joined, with two messages per drain; and two inputs with a pad, two keys and two
slots. It shows:

* `KeepsPromise`: the pool implements `TaskSchedule`; `NoWakeupIsLost`: a task that
  is due runs, and `join` returns once the pool is told to stop.
* `SingleFlight`: at most one drain of a client, and one whenever it is needed.
* `BatchingKeepsChanges`: when a message is joined from several, it and the rest of
  the queue have together the effect of the queue as it was: keys and buttons go up
  and down in the same order and everything ends in the same place; sums keep to
  16 bits.
* `LateTasksFit`: slots have one owner and none is lost, one key repeats at most, a
  release that comes late does not let go of a button pressed again, and HOME has
  a timer that will release it, unless a stale id took it (`robbed`, section 8).
* `InputsAreTaken`, `RepeatsStop`: messages are handed on and repeats end.

Bounds: three tasks make two orders differ and leave one to be cancelled. In
`InputDevices` a timer's id is an address, as in the code: a new timer gets any of
three that no live one has, also one that is still noted in `key_press_repeat_id`,
`mouse_left_button_timeout` or a `back_timeout_id`, and `cancel` takes whichever timer
is there. `TaskSchedule` speaks of the tasks themselves, so a task of it has one name
for good. Fairness: the worker of the pool runs, the clock ticks, and the control
thread pushes the drain it owes.

## 5. What surrounds a stream (`MCHosting`, `MCServices`)

**Hosting** composes what `/launch`, `/resume`, `/cancel`, `session::join`, the end of
the app, a hot reload and a restart do to the profile's overrides and to the
display. `settings`, `overridden`, `saved` are the global `config` and the undo
record of `client_profiles.cpp`; `screen`, `job`, `tried` the display, the job of its
scheduler and the devices it has tried. **HeadlessCompositor** is the compositor
an app is launched in, beside other compositors that take and leave socket names;
`headless` are those that show a `HEADLESS-1` as labwc does, which is all that
`OutputDetected` asks of the socket that was found.
**SessionHistory** has the history file with torn lines, and webhooks under the
watchdog of `join`, in fifths of a second. **PortMapping** is the UPnP thread with
routers that restart, forget, refuse and know other machines. **ConfigFile** has a
watcher with file times of one tick and files seen half written.

The run `hosting` shows `ProfilesEnd` (the user's settings come back),
`DisplayComesBack`, `CompositorIsOurs` (nothing of ours is left, and labwc's app draws
to our socket, unless a `rival` came: section 8), `HistoryIsReadable`, `PortsComeBack`, `ReloadCatchesUp`. Fairness there:
requests that have begun go on (strong where they wait for the lock of the slots),
launches lapse, sessions stop once the app is gone, the scheduler runs its job and
devices change in the end; the UPnP thread and a router that is down come back; the
watcher looks and a write under way ends. Bounds: two clients, one with a profile
for a setting that reloads; two requests, one edit, one failing try, one restart;
two socket names, two launches; two sessions with two failures; two ports with a
lease of two rounds and three troubles; two saves. Each history that is known to
go wrong needs at most these. Two more runs show what section 8 says.

**AppProcess** is `proc_t`: `running` is an action per answer, `terminate` is
`BeginKill`, `Reap`, one `UndoCommand` and `StepBack` per prep command and `Finish`,
`execute` is `StartApp`, a `PrepCommand` each and an action per way to end. There is no
lock: calls of all threads are under way at once, and the list of apps is saved at
any time. When a call gets into `terminate` or `execute` while another thread is
inside, or a list is saved over an app that runs, `crossed` is set, and stays until
nobody is inside and nothing is left. The properties are about everything else, the
calls of `running` that cross each other or a `terminate` included; section 8 says
what happens under `crossed`, and the run follows it until all is well again
(`AfterCrossing`: the calls under way end, new ones wait and no app is started; the
proofs have no such bound).
**LaunchSession** is the pending launch with the timer of `session_raise`; a timer
that expires and its handler are two steps, as for `steady_timer`. **VideoFec** cuts
every frame of 1 to 3100 bytes into blocks and shards, with minimums of parity of 0,
2 and 40, and asks what the client makes of the announced percentage (`Strained`
blocks apart, section 8); **AudioStream** numbers sound through queues
that drop, and adds parity to every four packets. **AudioContext** is the counted
context with a sound server on which sinks come, go and refuse. **NvPrefs** is the
driver's setting with its undo file through crashes; **Updates** the updater with
installs that fail on every step.

The run `services` shows `AppsLeaveNothing`, `LaunchesAreTaken` (none is replaced, each
ends), `ParityIsSound`, `SinkComesBack`, `UserValueSurvives`, `InstallsAreSound` and
`ExitIsCleanedUp` (some thread polls `running`, as the control thread does while a
client streams). Bounds: a game with a preset, a group and two prep commands, a
launcher, the desktop; three launches; sequence numbers of 8 instead of 2^16; two
sessions, two real and two virtual sinks, one crash; two starts and two applies.

## 6. Pictures (`MCMedia`)

**CaptureThread** is the thread that sessions share when the encoder can run in
parallel, with displays as generations that live while somebody holds them, an
image included; **CaptureSync** is the one that encodes for all sessions.
**EncoderProbe** is `probe_encoders` and `validate_encoder` on hardware that changes,
with what clients are told of it; **DisplayList** `refresh_displays` and the shortcuts
that switch displays; **DisplayMode** `parse_configuration` with the remapping of
modes. **VideoBroadcast** follows one session's frames through the queue to the
network, **NvencFrames** what a client that loses frames makes of the encoder's
references, and **AdaptiveBitrate** the scale of the bitrate.

The run `media` shows:

* `CaptureReturns`: the video thread of a session that ends returns, from either
  capture thread, whatever the display does meanwhile.
* `ProbeFindsBest`: after a probe the encoder is the first that does what is asked,
  and its flags are what the tests found. `ModeIsJustified`: a display is changed
  only as the user's settings and the client's wishes say, over lists of up to
  two remappings, some of them broken.
* `DisplayIsKept`: a refresh keeps the display that was captured while it is listed,
  and the index points into the list.
* `PicturesDecode`: no frame is sent that depends on a dropped one, and none is shown
  that refers to one the client has not shown.
* `BitrateReturns`: when trouble ends, the bitrate comes back.

Bounds: two sessions and three generations of the display; two encoders of six
kinds; six lists of displays; seven frames with three references and one encoder
made anew; three packets in the queue; three levels of the bitrate. `Reporting` is
FALSE: the client reports losses only, as section 8 explains. Fairness: video
threads go on (strong, since they wait for the capture thread's locks and
references), so does the capture thread; frames are encoded and sent, and the
encoder is reconfigured when it is asked to be.

## 7. Clients, users and devices (`MCPairing`)

**Pairing** is the four requests of a pairing on the HTTP thread, the web
interface's thread and the HTTPS thread's check of certificates; handlers that
write the state file are several steps. **WebConfig** is authentication with its
limit, CSRF and API tokens, and the files that both servers rewrite whole, through
crashes. **ConfigFile** parses every text of up to six pieces, writes back the options
it has read, in any order, and parses them again. **RtspConnection** puts plain and
sealed requests together from reads of every size. **WindowsPointers** and **WindowsGamepads** are touch, pen and virtual
gamepads, with injections that fail, repeats, and callbacks of the driver;
**DesktopCapture** is how a frame gets into an image and from there to encoders, for
the two duplication backends and Windows.Graphics.Capture; **ScreenCast** a PipeWire
stream whose callbacks, formats and ends cross the capture thread.

The run `pairing` shows: `PairedByItsPin` (who is authorised has shown the PIN that was
entered for that attempt), `ClientListIsKept` (told clients are in the file and listed
ones are let in), `HostStateSurvives`, `GuessesAreBounded` (passwords refused in any
window of time), `SavedConfigReadsBack`, `WindowsInputFollows` (what Windows is told is
what the client does), `CapturedIsShown` (no image is overwritten in use, the pointer
is drawn onto the last frame, no encoder draws from a texture that is gone),
`CastIsFollowed` (frames are ours, buffers come back, the last one is shown), and
`RequestsAreWhole`. Of none of these parts is anything claimed that must happen
eventually, so devices and ids are symmetric and no fairness is assumed.

Bounds: two devices with two attempts, an id in common or not; one certificate
queued; a limit of two guesses, one crash; a buffer of nine bytes with a blank
line of two and seals of three, against requests of up to six and seven, so that
they fit, just do not, and overflow; three pointers in two slots; two gamepads in two
slots with three targets; two images and one encoder; two buffers and two streams.
`OneHalf` keeps a behaviour of the gamepads to reports and touchpads, or to what games
set; gamepads that come, go and are refused are in both. Theorem `WindowsInput` has
all of it in one behaviour.

## 8. Where the code differs from what it says

Each violation run has a finding in `PROJECT.json`, with the line quoted.

| run | what happens |
| --- | --- |
| `app_exit_hang` | the app exits, the control thread leaves for good; a session started on the same context is never joined |
| `profile_lost` | a launch that succeeds resets the client's profile at its end, before the session reads it |
| `modes_unsupported` | `av1_mode` 3 is announced on an encoder without AV1: the check looks at the HEVC mode |
| `update_runs_old` | on Linux the restart after an update executes the renamed old binary |
| `webhook_fatal` | a webhook whose server does not answer outlasts the watchdog of `join`, which ends the host |

The rest was met while modelling. Where a model has the steps that lead there, a
property excludes them by the name given; elsewhere no run looks at it.

Sessions and RTSP:
* `/cancel` joins a session that is in its slot but not started, and that is then
  never told to stop. The control thread may read `pingTimeout` before
  `session::start` sets it (stream.cpp:1330).
* The launch may be discarded between the look and the pop of `session_clear`
  (rtsp.cpp:618), which then waits with the lock of the sessions held; it also pops
  another launch than its own, and a late timer discards another one.
* `std::max(begin - 4, begin)` (rtsp.cpp:447) is always `begin`: a blank line that comes
  in two reads is never found and the request never answered (`split`). A bad or
  absent Content-Length counts as 0. One failing accept clears every session.
* Encoded packets wait with raw session pointers (stream.cpp:1569); two display
  generations can be alive at once (video.cpp:1676, 1699).

Application, tasks and input:
* `proc_t` has no lock. Two threads that find the app gone both run its undo
  commands, and may walk `_app_prep_it` past the first; `running` on one thread may set
  `placebo` while another terminates, and leave it set; an `execute` that comes during a
  `terminate` has its app taken down by it. When the list of apps is saved while an app
  runs, its undo commands are never run (all `crossed`). An app that exits with 0 late
  counts as a launcher.
* Ids of tasks are addresses and are used again (task_pool.h:54, 197), and stale ones
  are kept: input.cpp:632 returns without clearing `mouse_left_button_timeout`, and
  reset (1703, 1704) leaves what it has cancelled noted. A later cancel takes
  whatever timer is at that address: another client's release of an emulated HOME
  button among them, which then stays down (`robbed`). The drain that has yielded is
  such a timer, too (1678): cancelled so, it leaves `input_drain_pending` up, and that
  client's input is never taken again (not in a model: `InputQueue` is apart from
  `InputDevices`).
* A reset that cancels a pending release leaves the button down on the host, and a
  drain that has yielded presses keys after reset's release, though stream.cpp:2353
  says "to avoid stuck repeated keys". Urgent drains can starve due timers. The
  comment at input.cpp:627 is not what the code does.

Around a stream:
* A profile is lost when another profile's apply or a reload crosses it; any
  session's join resets the profile of all (`lost`).
* The prefix `wayland-` also matches lock files; gamescope is given the first new
  name, whosever it is; a crash of the host leaves labwc running. For labwc the first
  new name is asked for `HEADLESS-1` (headless_compositor.cpp:511), and that is what any
  headless wlroots compositor calls its output: when another one comes between the
  fork and the end of the search, the app is sent there (`rival`).
* The history has a line at the start too, though session_history.h:7 says "One line
  per completed stream is appended"; a line cut short spoils itself and the next.
* At exit mappings are deleted without asking whose they are.
* `apply` of an update checks the phase and claims the worker in two steps
  (`overtaken`); a failed install of assets leaves the new binary with old assets.
* A restore from the driver's undo file that fails deletes it anyway (`spoiled`).
* When the sound server does not tell its sinks, a configured sink becomes the
  default and is not put back (`spoiled`).
* A block that is raised to a `minRequiredFecPackets` of 3 or more (the client's value
  is not checked) may not be what it is announced as (`Strained`): one data shard with
  a minimum of 3 gives 300%, which overflows 8 bits; with more than 100 data shards
  the percentage, cut to a whole number, gives fewer parity shards; and a minimum of
  some 200 more than 255 shards. `drop_until_idr` does not cover frames lost to a full queue
  or an exception (`unnoticed`).

Pictures:
* `invalidate_ref_frames_events` holds one value: a second request replaces one not
  yet taken (`overtaken`).
* With a client that reports frames without loss too, the average loss never gets
  to zero and the bitrate never recovers, though test_adaptive_bitrate.cpp:112 says
  "Healthy stream + no network issues recovers toward full scale."
* A context raised after `captureThreadSync` has stopped its queue while another
  session holds the reference is dropped, and its `join_event` is waited for for
  ever. `encode_run_sync` does not look at the shutdown while it waits for a display.
* A failed probe leaves no encoder chosen, which `capture` dereferences
  (video.cpp:2935); without a display, the tests leave capability flags set.

Clients, users and devices:
* A retry of `getservercert` keeps the old certificate, though nvhttp.cpp:663 says
  "Reset all pairing state so this attempt starts cleanly"; an unpairing that crosses
  the end of a pairing can lose the client or leave it in (`spoiled`).
* `savePassword` and `save_state` rewrite one file without a lock, truncating it: a crash
  in the middle leaves what neither repairs (`torn`). A newer key without its
  certificate makes the next start a new pair, and clients must pair again.
* A list that does not end swallows the options after it when the web interface saves;
  a value of blanks grows with each save; brackets in a comment end a list.
* After a finger in the middle is lifted, `repeat_touch` injects slots with a hole; a
  repeat the worker has taken goes on with a freed context (`crossed`). What a
  gamepad leaves in its slot is not reset for the next, and a game's last task may
  find its address with another gamepad, also with one that the driver has refused
  and that is kept in its slot (`inherited`, `confused`); the slot of a refused one
  that was never taken has no queue, and `rumble` would call through a null pointer
  (windows/input.cpp:345), where the model has the client told.
* `initialize_image_context` compares addresses of textures, which are used again
  (`aliased`).
* A frame of the screen cast that came before it was due is dropped, and is not shown
  until the screen changes again; `on_param_changed` with another parameter than the
  format drops a buffer without giving it back; frame rate negotiation may stay off
  after a stream that had worked (`excused`, `forgotten`, `unjust`).
* Early returns of `main` leave the configuration watcher running, though
  main.cpp:209-213 asks for a stop; the first exit code is not kept when it is 0.

## 9. Proofs

Eight modules prove theorems for every value of the constants: any number of
sessions, clients, tasks, timers, frames, images, crashes. Most safety theorems have
the same shape: an inductive invariant, one lemma per action that it is kept, and a
last step for `[]`. TLC checks the inductive invariants on small instances; those
named `IInv` are in the model's module, or at the head of the proofs. Assumptions on
constants are `ASSUME`s that the runs evaluate, or hypotheses of the theorem.

| theorem | says | why the property alone is not inductive |
| --- | --- | --- |
| `StreamSession_proofs`: `ControlSafe`, `StopKept`, `ContextServes`, `WorkersSafe`, `TypeCorrect` | the safety of `two_sessions` and `sessions_end` | `Links`: whoever joins holds the lock and has seen `controlEnd`; a session with it up is in no list the control thread uses; the one being started was never pushed, or has its slot, or has been joined |
| `Input_proofs.PoolKeepsPromise` | the pool implements `TaskSchedule`, step by step | timers are sorted and no task is in two places |
| `Input_proofs.OneDrain` | `SingleFlight` | each drain is the worker's, in the pool or owed, never twice |
| `Input_proofs.LateTasksAreHarmless` | `LateTasksFit` | two live timers never have one address, and each is of the kind of device it is for; a cancel by a stale id can take a repeat, the release of a button that is let go, or a HOME timer, which is then noted in `robbed` |
| `Hosting_proofs.SettingsComeBack` | `ProfilesEnd` | a profile that is applied has somebody who will reset it, and what is saved is the user's |
| `Hosting_proofs.CompositorOurs` | `CompositorIsOurs` | the place of start and stop goes with the backend; another's `HEADLESS-1` has a socket under a name that is not ours, and was on the list before the fork |
| `Services_proofs`: `LaunchTimed`, `LaunchKept` | a pending launch has something to end it and is not replaced | what the thread in `session_raise` has seen is still so: it is the only one that raises |
| `Services_proofs`: `AppsClean`, `AppsOneAtATime`, `AppsUndoneInReverse` | nothing outlives an app; undone in reverse | unless calls have crossed, one thread at most is inside, the commands to undo are those up to `_app_prep_it`, and nothing runs from the kill to the next start; when they have, the next state in which all is well satisfies all of that again |
| `Services_proofs.UserValueKept` | `UserValueSurvives` | what is noted, found and in the file, at every step of every process |
| `Services_proofs.InstallsSound` | `InstallsAreSound` | `worker_running` has one owner, and the phase says of the tree what is so |
| `Services_proofs.SinkRestored` | `SinkComesBack` | the context knows the sinks to unload, and that the default is not the old one |
| `Pairing_proofs`: `PairedByPin`, `ClientsKept` | `PairedByItsPin`, `ClientListIsKept` | attempts are told apart; a hash is right only for an attempt whose PIN was entered; uuids are not used again |
| `Access_proofs.RequestsWhole` | `RequestsAreWhole` | where the blank line is, and how much has come, at each state of the socket |
| `Access_proofs.HostStateKept` | `HostStateSurvives` | what each thread has read of the file, and which pair is newest |
| `Access_proofs.GuessesBounded` | `GuessesAreBounded` | guesses are ordered, and those of one window are counted |
| `Access_proofs.CapturedShown` | `CapturedIsShown` | who holds an image, what the surface and the images show, and which texture an encoder has open |
| `Access_proofs.CastFollowed` | `CastIsFollowed` | who holds each buffer, that the last frame drawn is published until it is taken, and what `previous_state` tells of a stream |
| `Access_proofs.WindowsInput` | `WindowsInputFollows` | slots follow the client even when injections fail; no two slots have one gamepad or one target; what a game has set last is the last task of its kind, or is felt already |
| `Services_proofs.ParitySound` (`SoundParity` is its half about sound) | `ParityIsSound` | sound: the sequence number is that of the next frame, and a block that is whole so far has the frames just before it |
| `Media_proofs.ProbeIsBest` | `ProbeFindsBest` | an action property: which encoder is found does not depend on the order of the checks |
| `Media_proofs.PicturesAreWhole` | `PicturesDecode` | requests are about old frames, the buffer of references has no invalid one, and what answers a loss begins anew |
| `Media_proofs.DisplayStays` | `DisplayIsKept` | the index points into the list whenever there is one, and the list is one the system has given |

Five properties are about what a computation makes of data of any size. Their
invariants are simple, and the proof is about the computation:

| theorem | says | the argument |
| --- | --- | --- |
| `Input_proofs.BatchingLossless` | `BatchingKeepsChanges` | a message that two were joined into leaves its source where the two would have, and the messages that were passed over in between are about other sources; so what has been joined and what is left have, at each message looked at, the effect of the queue up to there |
| `Services_proofs.ParitySound`, for video | `ParityIsSound` | a quotient rounded up is the least that covers; so no block of a frame that is split is empty or above what leaves room for its parity, and their sizes add up to the frame's |
| `Media_proofs.ModeJustified` | `ModeIsJustified` | the list is walked up to the first entry that applies or is broken, and what is passed says nothing of this client |
| `Hosting_proofs.HistoryReadable` | `HistoryIsReadable` | no record is written twice, and an open line holds the last record, or one that counts no more: so the whole lines of the file are the records kept, in their order, and stay so at each way a line can be appended |
| `Access_proofs.SavedConfigRead` | `SavedConfigReadsBack` | options that have been read have names and values without a comment, without a line end outside a list, and without a blank at their beginning; so the line written for one is parsed as that option and ends where the next begins, and by counting lines all are read |

A recursive function is shown to exist, and to have its value, by counting up:
`Counting.CountUp` says that a set with 0 and with the successor of each of its
elements below n has every number up to n, and the set of places where the function
is right is such a set. Loops that stop at the first or last place of a kind
(`std::find`, `skip_list`, the first entry that applies) stand on `LeastNumber` and
`GreatestNumber`. This needs no induction theorem with an operator as its parameter,
which no installed prover could instantiate. `SavedConfigReadsBack` speaks of texts
with balanced brackets and values that are not blank: section 8 has what the code does
with others.

`AppsClean` and its companions have no hypothesis about threads or the list of apps:
what crosses is in `crossed`, which says when it is over. `LateTasksAreHarmless`
assumes that slots and ids are different from the marks for "none"; `CastFollowed` and
`WindowsInput` that buffers, fingers, the pen, gamepads and targets are, too, and that
slots have numbers; `SoundParity` that a queue has room and that the sequence numbers
are a whole number of blocks, as 2^16 is; `ProbeIsBest` that the list names an encoder
once and that a card whose encoder works with the most reference frames has one that
works when it may choose. `ParitySound` assumes a percentage of 1 to
255, as the option's range is, and any minimum of parity: it is about each block that is
not `Strained`. `ModeJustified` assumes that what a client asks for is a value,
and `BatchingLossless` that the fields a kind of message does not have are 0 and that
a delta fits the short it is sent in.

The proofs reach the actual specifications: `AccessSpec` for the text of the
configuration, `HostingSpec` for the history, `SuiteSpec` for the input, `ServicesSpec` for parity,
`MediaSpec` for the pictures and lists, each part's own `Init` and `Next` elsewhere.

Only model-checked is liveness: `JoinsReturn`, `NoWakeupIsLost`, `InputsAreTaken`,
`RepeatsStop`, `DisplayComesBack`, `PortsComeBack`, `ReloadCatchesUp`, `CaptureReturns`,
`BitrateReturns`, `ExitIsCleanedUp`, and that launches lapse (in `LaunchesAreTaken`;
that none is replaced is proved). Fairness and ENABLED are beyond the prover.

## 10. What is not modelled

* GPU governor, logging, tray and utilities: nothing depends on their state.
* The idle watchdog, pacing, sockets and the contents of control messages; of RTSP
  what `ANNOUNCE` says beyond what a session is made of.
* Shortcuts, synthetic modifiers, scroll accumulators and the geometry of touch.
* The order of construction in `main.cpp` and its signal handlers.
* The values of most options, edits of the list of apps, covers and the game scanner.
* FRESH_STATE, PIN_STDIN, the old format of the state file; keys, hashes and
  signatures are taken to be right.
* Capture through KMS, wlroots, X11 and on macOS; virtual devices of Linux and
  macOS; colour conversion, shaders, HDR, cursor shapes; the portal's handshake.
* IPv6 pinholes, bounds on the bitrate, effects on sound, encode sessions of FFmpeg.

They are thin layers over system calls, arithmetic on data, or output; `PROJECT.json`
has a reason for each component.
