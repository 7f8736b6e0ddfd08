--------------------------- MODULE Hosting_proofs ---------------------------
(***************************************************************************)
(* Proofs about what hosting a client changes outside the stream, for      *)
(* every value of the constants: the settings that a profile overrides     *)
(* (Hosting), the compositor of an app (HeadlessCompositor) and the        *)
(* router (PortMapping).                                                   *)
(***************************************************************************)
EXTENDS MCHosting, Counting, TLAPS

USE ClientsAssumption, ProfilesAssumption, BoundsAssumption

(* The steps that only tell the scheduler of the display what to do.       *)
LEMMA ScheduleTypes ==
  ASSUME TypeOK, NEW j \in Jobs, Schedule(j)
  PROVE  /\ job' \in Jobs /\ tried' \in BOOLEAN
         /\ screen' \in Clients \cup {User}
         /\ lost' \subseteq {"settings", "screen"}
         /\ ("settings" \in lost') <=> ("settings" \in lost)
BY DEF Schedule, TypeOK

LEMMA JobTypes ==
  Nothing \in Jobs /\ Revert \in Jobs /\ \A c \in Clients : Apply(c) \in Jobs
BY DEF Jobs

LEMMA ConfigureTypes ==
  ASSUME TypeOK, NEW c \in Clients, NEW o \in Outcomes, configure_display(c, o)
  PROVE  /\ job' \in Jobs /\ tried' \in BOOLEAN
         /\ screen' \in Clients \cup {User}
         /\ lost' \subseteq {"settings", "screen"}
         /\ ("settings" \in lost') <=> ("settings" \in lost)
<1>1. CASE o = "configured"
  BY <1>1, ScheduleTypes, JobTypes DEF configure_display
<1>2. CASE o = "disabled"
  BY <1>2, ScheduleTypes, JobTypes DEF configure_display
<1>3. CASE o = "failed"
  BY <1>3 DEF configure_display, displayVars, TypeOK
<1> QED BY <1>1, <1>2, <1>3, OutcomesAssumption

(* apply and reset keep the types of the settings.                         *)
LEMMA ProfileTypes ==
  ASSUME TypeOK
  PROVE  /\ \A c \in Clients :
              apply(c) => /\ settings' \in [Fields -> Values]
                          /\ saved' \in [Fields -> Values]
                          /\ overridden' \in BOOLEAN
         /\ reset => /\ settings' \in [Fields -> Values]
                     /\ saved' \in [Fields -> Values]
                     /\ overridden' \in BOOLEAN
BY DEF TypeOK, apply, reset, Values, profileVars

LEMMA InitIInv == Init => IInv
<1> SUFFICES ASSUME Init PROVE IInv
  OBVIOUS
<1>1. TypeOK
  <2> USE DEF Init
  <2>1. /\ settings \in [Fields -> Values]
        /\ saved \in [Fields -> Values] /\ loaded \in [Fields -> Values]
    BY DEF Values
  <2>2. alone \in BOOLEAN /\ overridden \in BOOLEAN /\ tried \in BOOLEAN
    BY Zenon
  <2>3. slots \in [Clients -> {"none", "running", "stopping"}]
    OBVIOUS
  <2>4. job \in Jobs
    BY JobTypes
  <2> QED BY <2>1, <2>2, <2>3, <2>4 DEF TypeOK, Holders
<1>2. SomeoneResets /\ UserIsSaved /\ LockHeld /\ ClientKnown
  BY DEF Init, SomeoneResets, UserIsSaved, LockHeld, ClientKnown, InLaunch
<1> QED BY <1>1, <1>2 DEF IInv

USE DEF httpsVars, sessionVars, profileVars, fileVars, displayVars

(* No step of a thread, the app, the user or the display breaks it.        *)
LEMMA NextIInv ==
  ASSUME IInv, [Next]_vars
  PROVE  IInv'
<1> USE DEF IInv
<1>1. ASSUME NEW c \in Clients, LaunchBegins(c) PROVE IInv'
  <2> USE <1>1 DEF LaunchBegins
  <2>1. TypeOK'
    BY JobTypes, ProfileTypes DEF TypeOK, Holders
  <2>2. SomeoneResets'
    BY DEF SomeoneResets, InLaunch
  <2>3. UserIsSaved'
    BY DEF UserIsSaved, apply
  <2>4. LockHeld'
    BY DEF LockHeld
  <2>5. ClientKnown'
    BY DEF ClientKnown
  <2> QED BY <2>1, <2>2, <2>3, <2>4, <2>5
<1>2. ASSUME NEW o \in Outcomes, LaunchCounts(o) PROVE IInv'
  <2> USE <1>2 DEF LaunchCounts
  <2>0. client \in Clients
    BY DEF ClientKnown, InLaunch
  <2>1. TypeOK'
    <3>1. alone' \in BOOLEAN
      BY Zenon DEF SlotsEmpty
    <3> QED BY <2>0, <3>1, ConfigureTypes DEF TypeOK
  <2>2. SomeoneResets'
    BY DEF SomeoneResets, InLaunch
  <2>3. UserIsSaved'
    BY <2>0, ConfigureTypes DEF UserIsSaved
  <2>4. LockHeld'
    BY DEF LockHeld
  <2>5. ClientKnown'
    BY DEF ClientKnown, InLaunch
  <2> QED BY <2>1, <2>2, <2>3, <2>4, <2>5
<1>3. ASSUME LaunchFails PROVE IInv'
  <2> USE <1>3 DEF LaunchFails
  <2>1. TypeOK'
    BY DEF TypeOK
  <2>2. SomeoneResets'
    BY DEF SomeoneResets, InLaunch
  <2>3. UserIsSaved'
    BY DEF UserIsSaved
  <2>4. LockHeld'
    BY DEF LockHeld
  <2>5. ClientKnown'
    BY DEF ClientKnown, InLaunch
  <2> QED BY <2>1, <2>2, <2>3, <2>4, <2>5
<1>4. ASSUME LaunchExecutes PROVE IInv'
  <2> USE <1>4 DEF LaunchExecutes
  <2>1. TypeOK'
    BY DEF TypeOK
  <2>2. SomeoneResets'
    BY DEF SomeoneResets, InLaunch
  <2>3. UserIsSaved'
    BY DEF UserIsSaved
  <2>4. LockHeld'
    BY DEF LockHeld
  <2>5. ClientKnown'
    BY DEF ClientKnown, InLaunch
  <2> QED BY <2>1, <2>2, <2>3, <2>4, <2>5
<1>5. ASSUME LaunchRaises PROVE IInv'
  <2> USE <1>5 DEF LaunchRaises
  <2>1. TypeOK'
    BY DEF TypeOK
  <2>2. SomeoneResets'
    BY DEF SomeoneResets, InLaunch
  <2>3. UserIsSaved'
    BY DEF UserIsSaved
  <2>4. LockHeld'
    BY DEF LockHeld
  <2>5. ClientKnown'
    BY DEF ClientKnown, InLaunch
  <2> QED BY <2>1, <2>2, <2>3, <2>4, <2>5
<1>6. ASSUME LaunchEnds PROVE IInv'
  <2> USE <1>6 DEF LaunchEnds
  <2>1. TypeOK'
    BY JobTypes, ScheduleTypes, ProfileTypes DEF TypeOK, Holders
  <2>2. SomeoneResets'
    BY DEF SomeoneResets, LockHeld, reset, SlotsEmpty
  <2>3. UserIsSaved'
    BY DEF UserIsSaved, reset, Schedule
  <2>4. LockHeld'
    BY DEF LockHeld
  <2>5. ClientKnown'
    BY DEF ClientKnown, InLaunch
  <2> QED BY <2>1, <2>2, <2>3, <2>4, <2>5
<1>7. ASSUME NEW c \in Clients, ResumeBegins(c) PROVE IInv'
  <2> USE <1>7 DEF ResumeBegins
  <2>1. TypeOK'
    BY DEF TypeOK, Holders
  <2>2. SomeoneResets'
    BY DEF SomeoneResets, InLaunch
  <2>3. UserIsSaved'
    BY DEF UserIsSaved
  <2>4. LockHeld'
    BY DEF LockHeld
  <2>5. ClientKnown'
    BY DEF ClientKnown
  <2> QED BY <2>1, <2>2, <2>3, <2>4, <2>5
<1>8. ASSUME NEW o \in Outcomes, ResumeCounts(o) PROVE IInv'
  <2> USE <1>8 DEF ResumeCounts
  <2>0. client \in Clients
    BY DEF ClientKnown
  <2>1. TypeOK'
    BY <2>0, JobTypes, ConfigureTypes DEF TypeOK
  <2>2. SomeoneResets'
    BY DEF SomeoneResets, InLaunch
  <2>3. UserIsSaved'
    BY <2>0, ConfigureTypes DEF UserIsSaved
  <2>4. LockHeld'
    BY DEF LockHeld
  <2>5. ClientKnown'
    BY DEF ClientKnown
  <2> QED BY <2>1, <2>2, <2>3, <2>4, <2>5
<1>9. ASSUME NEW r \in BOOLEAN, ResumeEnds(r) PROVE IInv'
  <2> USE <1>9 DEF ResumeEnds
  <2>1. TypeOK'
    BY DEF TypeOK, Holders
  <2>2. SomeoneResets'
    BY DEF SomeoneResets, InLaunch
  <2>3. UserIsSaved'
    BY DEF UserIsSaved
  <2>4. LockHeld'
    BY DEF LockHeld
  <2>5. ClientKnown'
    BY DEF ClientKnown, InLaunch
  <2> QED BY <2>1, <2>2, <2>3, <2>4, <2>5
<1>10. ASSUME CancelBegins PROVE IInv'
  <2> USE <1>10 DEF CancelBegins
  <2>1. TypeOK'
    BY DEF TypeOK, Threads
  <2>2. SomeoneResets'
    BY DEF SomeoneResets, InLaunch
  <2>3. UserIsSaved'
    BY DEF UserIsSaved
  <2>4. LockHeld'
    BY DEF LockHeld
  <2>5. ClientKnown'
    BY DEF ClientKnown, InLaunch
  <2> QED BY <2>1, <2>2, <2>3, <2>4, <2>5
<1>11. ASSUME CancelEnds PROVE IInv'
  <2> USE <1>11 DEF CancelEnds
  <2>1. TypeOK'
    BY JobTypes, ScheduleTypes DEF TypeOK
  <2>2. SomeoneResets'
    BY DEF SomeoneResets, InLaunch
  <2>3. UserIsSaved'
    BY DEF UserIsSaved, Schedule
  <2>4. LockHeld'
    BY DEF LockHeld
  <2>5. ClientKnown'
    BY DEF ClientKnown, InLaunch
  <2> QED BY <2>1, <2>2, <2>3, <2>4, <2>5
<1>12. ASSUME NEW c \in Clients, Announce(c) PROVE IInv'
  <2> USE <1>12 DEF Announce
  <2>1. TypeOK'
    BY DEF TypeOK, Holders
  <2>2. SomeoneResets'
    BY DEF SomeoneResets, InLaunch
  <2>3. UserIsSaved'
    BY DEF UserIsSaved
  <2>4. LockHeld'
    BY DEF LockHeld
  <2>5. ClientKnown'
    BY DEF ClientKnown, InLaunch
  <2> QED BY <2>1, <2>2, <2>3, <2>4, <2>5
<1>13. ASSUME Lapses PROVE IInv'
  <2> USE <1>13 DEF Lapses
  <2>1. TypeOK'
    BY DEF TypeOK, Holders
  <2>2. SomeoneResets'
    BY DEF SomeoneResets, InLaunch
  <2>3. UserIsSaved'
    BY DEF UserIsSaved
  <2>4. LockHeld'
    BY DEF LockHeld
  <2>5. ClientKnown'
    BY DEF ClientKnown, InLaunch
  <2> QED BY <2>1, <2>2, <2>3, <2>4, <2>5
<1>14. ASSUME NEW c \in Clients, Stops(c) PROVE IInv'
  <2> USE <1>14 DEF Stops
  <2>1. TypeOK'
    BY DEF TypeOK
  <2>2. SomeoneResets'
    BY DEF SomeoneResets, InLaunch
  <2>3. UserIsSaved'
    BY DEF UserIsSaved
  <2>4. LockHeld'
    BY DEF LockHeld
  <2>5. ClientKnown'
    BY DEF ClientKnown, InLaunch
  <2> QED BY <2>1, <2>2, <2>3, <2>4, <2>5
<1>15. ASSUME ClearBegins PROVE IInv'
  <2> USE <1>15 DEF ClearBegins
  <2>1. TypeOK'
    BY DEF TypeOK, Threads
  <2>2. SomeoneResets'
    BY DEF SomeoneResets, LockHeld
  <2>3. UserIsSaved'
    BY DEF UserIsSaved
  <2>4. LockHeld'
    BY DEF LockHeld
  <2>5. ClientKnown'
    BY DEF ClientKnown, InLaunch
  <2> QED BY <2>1, <2>2, <2>3, <2>4, <2>5
<1>16. ASSUME NEW c \in Clients, JoinResets(c) PROVE IInv'
  <2> USE <1>16 DEF JoinResets
  <2>1. TypeOK'
    BY ProfileTypes DEF TypeOK, Holders
  <2>2. SomeoneResets'
    BY DEF SomeoneResets, reset
  <2>3. UserIsSaved'
    BY DEF UserIsSaved, reset
  <2>4. LockHeld'
    BY DEF LockHeld
  <2>5. ClientKnown'
    BY DEF ClientKnown, InLaunch
  <2> QED BY <2>1, <2>2, <2>3, <2>4, <2>5
<1>17. ASSUME JoinCounts PROVE IInv'
  <2> USE <1>17 DEF JoinCounts
  <2>1. TypeOK'
    <3>1. slots' \in [Clients -> {"none", "running", "stopping"}]
      BY DEF TypeOK
    <3>2. /\ job' \in Jobs /\ tried' \in BOOLEAN
          /\ screen' \in Clients \cup {User}
          /\ lost' \subseteq {"settings", "screen"}
      BY JobTypes, ScheduleTypes DEF TypeOK
    <3> QED BY <3>1, <3>2 DEF TypeOK, Holders
  <2>2. SomeoneResets'
    BY DEF SomeoneResets, InLaunch
  <2>3. UserIsSaved'
    BY DEF UserIsSaved, Schedule
  <2>4. LockHeld'
    BY DEF LockHeld
  <2>5. ClientKnown'
    BY DEF ClientKnown, InLaunch
  <2> QED BY <2>1, <2>2, <2>3, <2>4, <2>5
<1>18. ASSUME ClearEnds PROVE IInv'
  <2> USE <1>18 DEF ClearEnds
  <2>1. TypeOK'
    BY DEF TypeOK
  <2>2. SomeoneResets'
    BY DEF SomeoneResets, InLaunch
  <2>3. UserIsSaved'
    BY DEF UserIsSaved
  <2>4. LockHeld'
    BY DEF LockHeld
  <2>5. ClientKnown'
    BY DEF ClientKnown, InLaunch
  <2> QED BY <2>1, <2>2, <2>3, <2>4, <2>5
<1>19. ASSUME AppEnds PROVE IInv'
  <2> USE <1>19 DEF AppEnds
  <2>1. TypeOK'
    BY DEF TypeOK
  <2>2. SomeoneResets'
    BY DEF SomeoneResets, InLaunch
  <2>3. UserIsSaved'
    BY DEF UserIsSaved
  <2>4. LockHeld'
    BY DEF LockHeld
  <2>5. ClientKnown'
    BY DEF ClientKnown, InLaunch
  <2> QED BY <2>1, <2>2, <2>3, <2>4, <2>5
<1>20. ASSUME AppIsTerminated PROVE IInv'
  <2> USE <1>20 DEF AppIsTerminated
  <2>1. TypeOK'
    BY JobTypes, ScheduleTypes DEF TypeOK
  <2>2. SomeoneResets'
    BY DEF SomeoneResets, InLaunch
  <2>3. UserIsSaved'
    BY DEF UserIsSaved, Schedule
  <2>4. LockHeld'
    BY DEF LockHeld
  <2>5. ClientKnown'
    BY DEF ClientKnown, InLaunch
  <2> QED BY <2>1, <2>2, <2>3, <2>4, <2>5
<1>21. ASSUME Edit PROVE IInv'
  <2> USE <1>21 DEF Edit
  <2>1. TypeOK'
    BY DEF TypeOK
  <2>2. SomeoneResets'
    BY DEF SomeoneResets, InLaunch
  <2>3. UserIsSaved'
    BY DEF UserIsSaved
  <2>4. LockHeld'
    BY DEF LockHeld
  <2>5. ClientKnown'
    BY DEF ClientKnown, InLaunch
  <2> QED BY <2>1, <2>2, <2>3, <2>4, <2>5
<1>22. ASSUME reload_solarflare_keys PROVE IInv'
  <2> USE <1>22 DEF reload_solarflare_keys
  <2>1. TypeOK'
    <3>1. Read(settings) \in [Fields -> Values]
      BY DEF TypeOK, Read, Values
    <3>2. Read(loaded) \in [Fields -> Values]
      BY DEF TypeOK, Read, Values
    <3> QED BY <3>1, <3>2 DEF TypeOK
  <2>2. SomeoneResets'
    BY DEF SomeoneResets, InLaunch
  <2>3. UserIsSaved'
    BY DEF UserIsSaved
  <2>4. LockHeld'
    BY DEF LockHeld
  <2>5. ClientKnown'
    BY DEF ClientKnown, InLaunch
  <2> QED BY <2>1, <2>2, <2>3, <2>4, <2>5
<1>23. ASSUME RunJob PROVE IInv'
  <2> USE <1>23 DEF RunJob, JobDone, JobRetried, JobFails
  <2>1. TypeOK'
    <3>1. job # Nothing /\ job # Revert => job.client \in Clients
      BY DEF TypeOK, Jobs, Apply
    <3>2. screen' \in Clients \cup {User}
      BY <3>1 DEF TypeOK
    <3>3. tried' \in BOOLEAN
      BY DEF TypeOK
    <3> QED BY <3>2, <3>3, JobTypes DEF TypeOK
  <2>2. SomeoneResets'
    BY DEF SomeoneResets, InLaunch
  <2>3. UserIsSaved'
    BY DEF UserIsSaved
  <2>4. LockHeld'
    BY DEF LockHeld
  <2>5. ClientKnown'
    BY DEF ClientKnown, InLaunch
  <2> QED BY <2>1, <2>2, <2>3, <2>4, <2>5
<1>24. ASSUME DevicesChange PROVE IInv'
  <2> USE <1>24 DEF DevicesChange
  <2>1. TypeOK'
    <3>1. overridden' \in BOOLEAN /\ tried' \in BOOLEAN
      BY Zenon DEF TypeOK
    <3>2. alone' \in BOOLEAN
      BY Zenon DEF TypeOK
    <3> QED BY <3>1, <3>2 DEF TypeOK, Holders
  <2>2. SomeoneResets'
    BY DEF SomeoneResets, InLaunch
  <2>3. UserIsSaved'
    BY DEF UserIsSaved
  <2>4. LockHeld'
    BY DEF LockHeld
  <2>5. ClientKnown'
    BY DEF ClientKnown, InLaunch
  <2> QED BY <2>1, <2>2, <2>3, <2>4, <2>5
<1>25. ASSUME Restart PROVE IInv'
  <2> USE <1>25 DEF Restart
  <2>1. TypeOK'
    <3>1. settings' \in [Fields -> Values]
      BY DEF TypeOK, Values
    <3>2. slots' \in [Clients -> {"none", "running", "stopping"}]
      OBVIOUS
    <3>3. job' \in Jobs
      BY JobTypes
    <3>4. alone' \in BOOLEAN /\ overridden' \in BOOLEAN /\ tried' \in BOOLEAN
      BY Zenon
    <3> QED BY <3>1, <3>2, <3>3, <3>4 DEF TypeOK, Holders
  <2>2. SomeoneResets'
    BY DEF SomeoneResets
  <2>3. UserIsSaved'
    BY DEF UserIsSaved
  <2>4. LockHeld'
    BY DEF LockHeld
  <2>5. ClientKnown'
    BY DEF ClientKnown, InLaunch
  <2> QED BY <2>1, <2>2, <2>3, <2>4, <2>5
<1>26. CASE UNCHANGED vars
  BY <1>26 DEF vars, TypeOK, SomeoneResets, UserIsSaved, LockHeld,
               ClientKnown, InLaunch
<1> QED BY <1>1, <1>2, <1>3, <1>4, <1>5, <1>6, <1>7, <1>8, <1>9, <1>10, <1>11,
          <1>12, <1>13, <1>14, <1>15, <1>16, <1>17, <1>18, <1>19, <1>20,
          <1>21, <1>22, <1>23, <1>24, <1>25, <1>26 DEF Next, Launch, Resume,
          Clear

(* Whatever /launch, /resume, /cancel, the sessions, the app, the user's   *)
(* edits and restarts do, while a profile is applied someone is left who   *)
(* will reset it, and what reset restores is the user's.                   *)
THEOREM HostingInvariant == Spec => []IInv
<1>1. IInv /\ [Next]_vars => IInv'
  BY NextIInv
<1> QED BY <1>1, InitIInv, PTL DEF Spec

(* When no request is under way and no session is left, the settings are   *)
(* the user's, unless a second profile or the hot reload has come on top   *)
(* of one (client_profiles::apply, reset).                                 *)
THEOREM SettingsComeBack == Spec => []ProfilesEnd
<1>1. IInv => ProfilesEnd
  BY DEF IInv, ProfilesEnd, AtRest, SomeoneResets, UserIsSaved, SlotsEmpty,
         InLaunch
<1>2. Spec => []IInv
  BY HostingInvariant
<1> QED BY <1>1, <1>2, PTL

-----------------------------------------------------------------------------
(* The compositor of the app.                                              *)

USE DEF C!worldVars

LEMMA CompositorNext ==
  ASSUME C!IInv, [C!Next]_C!vars
  PROVE  C!IInv'
<1> USE DEF C!IInv, C!TypeOK, C!BackendIsKnown, C!LeftoversAreKnown,
            C!OthersAreApart, C!SocketIsOurs, C!Files, C!Names
<1>0. ASSUME NEW n \in C!Names, NEW h \in BOOLEAN, C!OtherComes(n, h)
      PROVE  C!IInv'
  <2>1. n \in 1 .. MaxNames /\ n \notin held
    BY <1>0 DEF C!OtherComes, C!First, C!Free
  <2>2. C!OthersAreApart'
    BY <1>0, <2>1 DEF C!OtherComes
  <2>3. C!SocketIsOurs'
    BY <1>0, <2>1 DEF C!OtherComes
  <2> QED BY <1>0, <2>1, <2>2, <2>3 DEF C!OtherComes
<1>1. ASSUME NEW n \in C!Names, C!OtherLeaves(n) PROVE C!IInv'
  BY <1>1 DEF C!OtherLeaves
<1>2. ASSUME NEW n \in C!Names, C!OursLocks(n) PROVE C!IInv'
  BY <1>2 DEF C!OursLocks, C!First, C!Free
<1>3. CASE C!OursListens \/ C!OursIsReady \/ C!OursDies
  <2>1. CASE C!OursListens
    BY <1>3, <2>1 DEF C!OursListens
  <2>2. CASE C!OursIsReady
    BY <1>3, <2>2 DEF C!OursIsReady
  <2>3. CASE C!OursDies
    BY <1>3, <2>3 DEF C!OursDies
  <2> QED BY <1>3, <2>1, <2>2, <2>3
<1>4. ASSUME NEW s \in Backends, C!Start(s) PROVE C!IInv'
  BY <1>4 DEF C!Start, C!resolve_backend
<1>5. ASSUME NEW ok \in BOOLEAN, C!start_krfb(ok) \/ C!start_niri(ok)
      PROVE  C!IInv'
  BY <1>5 DEF C!start_krfb, C!start_niri
<1>6. ASSUME NEW ok \in BOOLEAN, C!stop(ok) PROVE C!IInv'
  <2>1. CASE using = "krfb"
    BY <1>6, <2>1 DEF C!stop, C!stop_krfb
  <2>2. CASE using = "niri"
    BY <1>6, <2>2 DEF C!stop, C!stop_niri
  <2>3. CASE using \in {"none", "gamescope"}
    BY <1>6, <2>3 DEF C!stop, C!stop_process
  <2> QED BY <2>1, <2>2, <2>3
<1>7. CASE C!Fork \/ C!Cannot
  BY <1>7 DEF C!Fork, C!Cannot
<1>8. CASE C!OutputDetected \/ C!TimedOut \/ C!AppIsOver
  BY <1>8 DEF C!OutputDetected, C!ShowsHeadless, C!TimedOut, C!AppIsOver
<1>9. ASSUME NEW f \in C!Files, C!Discover(f) PROVE C!IInv'
  BY <1>9 DEF C!Discover
<1>10. CASE UNCHANGED C!vars
  BY <1>10 DEF C!vars
<1> QED BY <1>0, <1>1, <1>2, <1>3, <1>4, <1>5, <1>6, <1>7, <1>8, <1>9, <1>10
        DEF C!Next

(* A launch that is over leaves no process and no output behind; and the   *)
(* app of labwc is told of labwc's own socket, whatever other compositors  *)
(* there are, come and go, unless one with a HEADLESS-1 has come while     *)
(* labwc's was looked for (start_labwc, start_krfb, stop).                 *)
THEOREM CompositorOurs ==
  C!Init /\ [][C!Next]_C!vars => []CompositorIsOurs
<1>1. C!Init => C!IInv
  BY DEF C!Init, C!IInv, C!TypeOK, C!BackendIsKnown, C!LeftoversAreKnown,
         C!OthersAreApart, C!SocketIsOurs
<1>2. C!IInv /\ [C!Next]_C!vars => C!IInv'
  BY CompositorNext
<1>3. C!IInv => CompositorIsOurs
  BY DEF C!IInv, CompositorIsOurs, C!CompositorIsOurs, C!LeftoversAreKnown,
         C!SocketIsOurs
<1> QED BY <1>1, <1>2, <1>3, PTL

-----------------------------------------------------------------------------
(* SessionHistory: what reading lines, up to one of them, has chosen.      *)
Upto(s, places) ==
  CHOOSE upto : upto =
    [n \in 0 .. Len(s) |->
       IF n = 0 THEN <<>>
       ELSE IF n \in places THEN Append(upto[n - 1], s[n]) ELSE upto[n - 1]]

(* The loop over the lines is defined: it can be continued by one line.    *)
LEMMA UptoStep ==
  ASSUME NEW s, NEW places, Len(s) \in Nat
  PROVE  /\ H!Chosen(s, places) = Upto(s, places)[Len(s)]
         /\ Upto(s, places)[0] = <<>>
         /\ \A n \in 1 .. Len(s) :
              Upto(s, places)[n] =
                IF n \in places THEN Append(Upto(s, places)[n - 1], s[n])
                ELSE Upto(s, places)[n - 1]
<1> DEFINE Adds(g, n) == IF n = 0 THEN <<>>
                         ELSE IF n \in places THEN Append(g[n - 1], s[n])
                         ELSE g[n - 1]
           Reads(g, m) == g = [n \in 0 .. m |-> Adds(g, n)]
           Good == {m \in 0 .. Len(s) : \E g : Reads(g, m)}
<1>1. 0 \in Good
  <2> DEFINE g == [n \in 0 .. 0 |-> <<>>]
  <2>1. g = [n \in 0 .. 0 |-> Adds(g, n)]
    OBVIOUS
  <2> HIDE DEF g
  <2> QED BY <2>1
<1>2. ASSUME NEW m \in 0 .. Len(s), m < Len(s), m \in Good
      PROVE  m + 1 \in Good
  <2>1. PICK g : g = [n \in 0 .. m |-> Adds(g, n)]
    BY <1>2
  <2> DEFINE h == [n \in 0 .. m + 1 |->
                     IF n <= m THEN g[n] ELSE Adds(g, n)]
  <2>2. \A n \in 0 .. m + 1 : h[n] = Adds(h, n)
    <3> SUFFICES ASSUME NEW n \in 0 .. m + 1 PROVE h[n] = Adds(h, n)
      OBVIOUS
    <3>1. n # 0 => h[n - 1] = g[n - 1]
      BY <1>2
    <3>2. Adds(h, n) = Adds(g, n)
      BY <3>1
    <3>3. ASSUME n <= m PROVE g[n] = Adds(g, n)
      <4>1. n \in 0 .. m
        BY <1>2, <3>3
      <4> HIDE DEF Adds
      <4> QED BY <2>1, <4>1
    <3> QED BY <3>2, <3>3
  <2>3. h = [n \in 0 .. m + 1 |-> Adds(h, n)]
    <3> HIDE DEF Adds
    <3> QED BY <2>2
  <2> HIDE DEF h, Adds
  <2> QED BY <1>2, <2>3
<1>3. PICK g : Reads(g, Len(s))
  <2> HIDE DEF Good
  <2>1. 0 .. Len(s) \subseteq Good
    BY <1>1, <1>2, CountUp
  <2>2. Len(s) \in Good
    BY <2>1
  <2> QED BY <2>2 DEF Good
<1>4. Reads(Upto(s, places), Len(s))
  <2> HIDE DEF Adds
  <2>1. Upto(s, places) = CHOOSE h : Reads(h, Len(s))
    BY Zenon DEF Upto, Adds
  <2> HIDE DEF Reads
  <2> QED BY <1>3, <2>1
<1>5. H!Chosen(s, places) = Upto(s, places)[Len(s)]
  BY Zenon DEF H!Chosen, Upto
<1> DEFINE u == Upto(s, places)
<1>6. \A n \in 0 .. Len(s) : u[n] = Adds(u, n)
  <2> HIDE DEF Adds, u
  <2>1. u = [n \in 0 .. Len(s) |-> Adds(u, n)]
    BY <1>4 DEF u
  <2> QED BY <2>1
<1> HIDE DEF u
<1>7. u[0] = <<>>
  BY <1>6
<1>8. ASSUME NEW n \in 1 .. Len(s)
      PROVE  u[n] = IF n \in places THEN Append(u[n - 1], s[n])
                    ELSE u[n - 1]
  <2>1. n \in 0 .. Len(s) /\ n # 0
    OBVIOUS
  <2> QED BY <1>6, <2>1
<1> QED BY <1>5, <1>7, <1>8 DEF u

(* What has been chosen up to a line depends on no other.                  *)
LEMMA UptoSame ==
  ASSUME NEW s, NEW t, NEW P, NEW Q, Len(s) \in Nat, Len(t) \in Nat,
         NEW m \in Nat, m <= Len(s), m <= Len(t),
         \A n \in 1 .. m : s[n] = t[n] /\ (n \in P <=> n \in Q)
  PROVE  Upto(s, P)[m] = Upto(t, Q)[m]
<1> DEFINE Same == {n \in 0 .. m : Upto(s, P)[n] = Upto(t, Q)[n]}
<1>1. 0 \in Same
  BY UptoStep
<1>2. ASSUME NEW n \in 0 .. m, n < m, n \in Same PROVE n + 1 \in Same
  <2>1. /\ n + 1 \in 1 .. Len(s) /\ n + 1 \in 1 .. Len(t) /\ n + 1 \in 1 .. m
        /\ (n + 1) - 1 = n
    BY <1>2
  <2>2. Upto(s, P)[n] = Upto(t, Q)[n]
    BY <1>2
  <2> HIDE DEF Same
  <2>3. Upto(s, P)[n + 1] = Upto(t, Q)[n + 1]
    BY <2>1, <2>2, UptoStep
  <2> QED BY <2>1, <2>3 DEF Same
<1>3. 0 .. m \subseteq Same
  <2> HIDE DEF Same
  <2> QED BY <1>1, <1>2, CountUp
<1> QED BY <1>3

(* One more element is chosen, or it is not.                               *)
LEMMA ChosenAppend ==
  ASSUME NEW S, NEW s \in Seq(S), NEW t \in Seq(S), NEW P, NEW Q,
         Len(t) = Len(s) + 1,
         \A n \in 1 .. Len(s) : t[n] = s[n] /\ (n \in Q <=> n \in P)
  PROVE  H!Chosen(t, Q) =
           IF Len(t) \in Q THEN Append(H!Chosen(s, P), t[Len(t)])
           ELSE H!Chosen(s, P)
<1>1. Len(s) \in Nat /\ Len(t) \in Nat /\ Len(t) \in 1 .. Len(t)
      /\ Len(t) - 1 = Len(s)
  OBVIOUS
<1>2. Upto(t, Q)[Len(s)] = Upto(s, P)[Len(s)]
  BY <1>1, UptoSame
<1>3. H!Chosen(t, Q) = Upto(t, Q)[Len(t)]
  BY <1>1, UptoStep
<1>4. H!Chosen(s, P) = Upto(s, P)[Len(s)]
  BY <1>1, UptoStep
<1>5. Upto(t, Q)[Len(t)] = IF Len(t) \in Q
                           THEN Append(Upto(t, Q)[Len(s)], t[Len(t)])
                           ELSE Upto(t, Q)[Len(s)]
  BY <1>1, UptoStep
<1> QED BY <1>2, <1>3, <1>4, <1>5

(* The same elements are chosen from the same places.                      *)
LEMMA ChosenSame ==
  ASSUME NEW S, NEW s \in Seq(S), NEW t \in Seq(S), NEW P, NEW Q,
         Len(t) = Len(s),
         \A n \in 1 .. Len(s) : t[n] = s[n] /\ (n \in Q <=> n \in P)
  PROVE  H!Chosen(t, Q) = H!Chosen(s, P)
<1>1. Len(s) \in Nat /\ Len(t) \in Nat
  OBVIOUS
<1>2. Upto(t, Q)[Len(s)] = Upto(s, P)[Len(s)]
  BY <1>1, UptoSame
<1>3. H!Chosen(t, Q) = Upto(t, Q)[Len(t)]
  BY <1>1, UptoStep
<1>4. H!Chosen(s, P) = Upto(s, P)[Len(s)]
  BY <1>1, UptoStep
<1> QED BY <1>2, <1>3, <1>4
(* What is chosen is a sequence of the same elements.                      *)
LEMMA ChosenType ==
  ASSUME NEW S, NEW s \in Seq(S), NEW places
  PROVE  \A n \in 0 .. Len(s) : Upto(s, places)[n] \in Seq(S)
<1> DEFINE Typed == {n \in 0 .. Len(s) : Upto(s, places)[n] \in Seq(S)}
<1>1. Len(s) \in Nat
  OBVIOUS
<1>2. 0 \in Typed
  <2>1. Upto(s, places)[0] = <<>>
    BY <1>1, UptoStep
  <2>2. 0 \in 0 .. Len(s) /\ <<>> \in Seq(S)
    BY <1>1
  <2> QED BY <2>1, <2>2
<1>3. ASSUME NEW n \in 0 .. Len(s), n < Len(s), n \in Typed
      PROVE  n + 1 \in Typed
  <2>1. n + 1 \in 1 .. Len(s) /\ (n + 1) - 1 = n
    BY <1>1, <1>3
  <2>2. Upto(s, places)[n + 1] =
          IF n + 1 \in places THEN Append(Upto(s, places)[n], s[n + 1])
          ELSE Upto(s, places)[n]
    BY <1>1, <2>1, UptoStep
  <2>3. Upto(s, places)[n] \in Seq(S) /\ s[n + 1] \in S
    BY <1>3, <2>1
  <2>4. Upto(s, places)[n + 1] \in Seq(S)
    BY <2>2, <2>3
  <2> QED BY <2>1, <2>4
<1>4. 0 .. Len(s) \subseteq Typed
  <2> HIDE DEF Typed
  <2> QED BY <1>1, <1>2, <1>3, CountUp
<1> QED BY <1>4

(* A function on the numbers to n is a sequence.                           *)
LEMMA MadeSeq ==
  ASSUME NEW S, NEW n \in Nat, NEW f \in [1 .. n -> S]
  PROVE  f \in Seq(S) /\ Len(f) = n /\ DOMAIN f = 1 .. n
OBVIOUS

(* One more element at the end.                                            *)
LEMMA Appended ==
  ASSUME NEW S, NEW s \in Seq(S), NEW e \in S, NEW t, t = Append(s, e)
  PROVE  /\ t \in Seq(S) /\ Len(t) = Len(s) + 1 /\ t # <<>>
         /\ DOMAIN t = 1 .. Len(s) + 1 /\ t[Len(s) + 1] = e
         /\ \A i \in 1 .. Len(s) : t[i] = s[i]
OBVIOUS

(* The file and what was written agree, when the records of P have been    *)
(* tried: the part of IInv about the file.                                 *)
Lines == [rec : H!Recs, whole : BOOLEAN]

Agrees(P) ==
  /\ history \in Seq(Lines) /\ open \in BOOLEAN
  /\ written \in Seq(H!Recs) /\ torn \subseteq P
  /\ \A i \in DOMAIN written : written[i] \in P
  /\ \A i, j \in DOMAIN written : written[i] = written[j] => i = j
  /\ open => LET line == history[Len(history)] IN
       /\ history # <<>> /\ line.rec \in P
       /\ line.whole => /\ written # <<>> /\ line.rec \notin torn
                        /\ line.rec = written[Len(written)]
       /\ ~line.whole /\ H!Wrote(line.rec) => line.rec \in torn
  /\ H!Chosen(H!Records(history), H!Whole) = H!Chosen(written, H!Kept)

(* A line that is appended without a newline before it spoils the last one *)
(* as it does the record that counts as lost.                              *)
LEMMA GluedAgrees ==
  ASSUME NEW P \in SUBSET H!Recs, Agrees(P), open, NEW lines, lines = H!Glued
  PROVE  /\ lines \in Seq(Lines) /\ Len(lines) = Len(history)
         /\ Len(history) \in Nat \ {0}
         /\ lines[Len(lines)] =
              [rec |-> history[Len(history)].rec, whole |-> FALSE]
         /\ H!Chosen(H!Records(lines),
                     {i \in DOMAIN lines : lines[i].whole})
            = H!Chosen(written,
                {i \in DOMAIN written :
                   written[i] \notin torn \cup {history[Len(history)].rec}})
<1> DEFINE n == Len(history)
           m == Len(written)
           last == history[n]
           W == H!Records(history)
           Q == H!Records(lines)
           whole == {i \in DOMAIN lines : lines[i].whole}
           kept == {i \in DOMAIN written :
                      written[i] \notin torn \cup {last.rec}}
<1>1. /\ history \in Seq(Lines) /\ n \in Nat \ {0} /\ n \in 1 .. n
      /\ last \in Lines /\ DOMAIN history = 1 .. n
      /\ written \in Seq(H!Recs) /\ m \in Nat /\ DOMAIN written = 1 .. m
  BY DEF Agrees
<1>2. lines = [history EXCEPT ![n] = [rec |-> last.rec, whole |-> FALSE]]
  BY DEF H!Glued, H!Line, H!Last
<1>3. /\ lines \in Seq(Lines) /\ Len(lines) = n /\ DOMAIN lines = 1 .. n
      /\ lines[n] = [rec |-> last.rec, whole |-> FALSE]
      /\ \A i \in 1 .. n - 1 : lines[i] = history[i]
  <2> DEFINE torn_line == [rec |-> last.rec, whole |-> FALSE]
  <2>1. last.rec \in H!Recs
    BY <1>1 DEF Lines
  <2>3. torn_line \in Lines
    BY <2>1 DEF Lines
  <2>4. lines = [i \in 1 .. n |-> IF i = n THEN torn_line ELSE history[i]]
    <3> HIDE DEF torn_line, last, n
    <3> QED BY <1>1, <1>2 DEF torn_line
  <2> HIDE DEF torn_line, last, n
  <2>5. \A i \in 1 .. n : history[i] \in Lines
    BY <1>1 DEF n
  <2>6. lines \in [1 .. n -> Lines]
    BY <2>3, <2>4, <2>5
  <2>7. lines \in Seq(Lines) /\ Len(lines) = n /\ DOMAIN lines = 1 .. n
    BY <1>1, <2>6, MadeSeq
  <2>8. lines[n] = torn_line /\ \A i \in 1 .. n - 1 : lines[i] = history[i]
    BY <1>1, <2>4
  <2> QED BY <2>7, <2>8 DEF torn_line
<1>4. /\ W \in Seq(H!Recs) /\ Len(W) = n /\ Q \in Seq(H!Recs) /\ Len(Q) = n
      /\ W[n] = last.rec
      /\ \A i \in 1 .. n : W[i] = Q[i]
  <2>1. W = [i \in 1 .. n |-> history[i].rec]
        /\ Q = [i \in 1 .. n |-> lines[i].rec]
    BY <1>1, <1>3 DEF H!Records
  <2>2. \A i \in 1 .. n : history[i] \in Lines /\ lines[i] \in Lines
    BY <1>1, <1>3
  <2>3. \A l \in Lines : l.rec \in H!Recs
    BY DEF Lines
  <2>4. \A i \in 1 .. n : history[i].rec = lines[i].rec
    BY <1>1, <1>3
  <2> HIDE DEF W, Q, last, n
  <2>5. W \in [1 .. n -> H!Recs] /\ Q \in [1 .. n -> H!Recs]
    BY <2>1, <2>2, <2>3
  <2>6. W[n] = last.rec /\ \A i \in 1 .. n : W[i] = Q[i]
    BY <1>1, <2>1, <2>4 DEF last, n
  <2> QED BY <1>1, <2>5, <2>6, MadeSeq
<1>5. H!Whole = {i \in 1 .. n : history[i].whole}
      /\ whole = {i \in 1 .. n : lines[i].whole}
  BY <1>1, <1>3 DEF H!Whole
<1>6. n \notin whole /\ \A i \in 1 .. n - 1 : i \in whole <=> i \in H!Whole
  BY <1>1, <1>3, <1>5
<1>7. H!Chosen(W, H!Whole) = H!Chosen(written, H!Kept)
  BY DEF Agrees
<1>8. H!Kept = {i \in 1 .. m : written[i] \notin torn}
      /\ kept = {i \in 1 .. m : written[i] \notin torn /\ written[i] # last.rec}
  BY <1>1 DEF H!Kept
<1>9. H!Chosen(Q, whole) = H!Chosen(written, kept)
  <2> HIDE DEF n, m, last, W, Q, whole, kept
  <2>1. CASE last.whole
    <3>1. /\ m \in 1 .. m /\ last.rec \notin torn /\ last.rec = written[m]
          /\ \A i \in 1 .. m : written[i] = written[m] => i = m
      <4>1. /\ written # <<>> /\ last.rec \notin torn
            /\ last.rec = written[m]
            /\ \A i, j \in 1 .. m : written[i] = written[j] => i = j
        BY <1>1, <2>1, Zenon DEF Agrees, n, m, last
      <4>2. m \in 1 .. m
        BY <1>1, <4>1 DEF m
      <4> QED BY <4>1, <4>2
    <3>2. /\ m \in H!Kept /\ m \notin kept
          /\ \A i \in 1 .. m - 1 : i \in kept <=> i \in H!Kept
      BY <1>1, <1>8, <3>1
    <3>3. n \in H!Whole
      BY <1>1, <1>5, <2>1 DEF last
    <3> DEFINE k == n - 1
               l == m - 1
    <3>0. /\ k \in Nat /\ k <= Len(Q) /\ k <= Len(W) /\ k \in 0 .. Len(W)
          /\ l \in Nat /\ l <= Len(written) /\ l \in 0 .. Len(written)
          /\ Len(Q) \in Nat /\ Len(W) \in Nat /\ Len(written) \in Nat
      <4>1. n \in Nat \ {0} /\ Len(W) = n /\ Len(Q) = n
        BY <1>1, <1>4
      <4>2. Len(written) \in Nat /\ Len(written) # 0
        <5>1. \A j \in Nat : j \in 1 .. j => j # 0
          OBVIOUS
        <5>2. m \in Nat /\ m \in 1 .. m
          BY <1>1, <3>1
        <5> QED BY <5>1, <5>2 DEF m
      <4> QED BY <4>1, <4>2 DEF m
    <3>4. H!Chosen(Q, whole) = Upto(Q, whole)[n - 1]
      BY <1>1, <1>4, <1>6, UptoStep
    <3>5. Upto(Q, whole)[n - 1] = Upto(W, H!Whole)[n - 1]
      <4>1. \A i \in 1 .. k : Q[i] = W[i] /\ (i \in whole <=> i \in H!Whole)
        BY <1>1, <1>4, <1>6
      <4> HIDE DEF k
      <4>2. Upto(Q, whole)[k] = Upto(W, H!Whole)[k]
        BY <3>0, <4>1, UptoSame
      <4> QED BY <4>2 DEF k
    <3>6. H!Chosen(W, H!Whole) = Append(Upto(W, H!Whole)[n - 1], last.rec)
      <4>1. H!Chosen(W, H!Whole) = Upto(W, H!Whole)[n]
        BY <1>1, <1>4, UptoStep
      <4>2. n \in 1 .. Len(W) /\ Len(W) \in Nat
        BY <1>1, <1>4
      <4>3. Upto(W, H!Whole)[n] = Append(Upto(W, H!Whole)[n - 1], W[n])
        BY <3>3, <4>2, UptoStep
      <4> QED BY <1>4, <4>1, <4>3
    <3>7. H!Chosen(written, kept) = Upto(written, kept)[m - 1]
      BY <1>1, <3>1, <3>2, UptoStep DEF m
    <3>8. Upto(written, kept)[m - 1] = Upto(written, H!Kept)[m - 1]
      <4>1. \A i \in 1 .. l : i \in kept <=> i \in H!Kept
        BY <3>2
      <4> HIDE DEF l
      <4>2. Upto(written, kept)[l] = Upto(written, H!Kept)[l]
        BY <3>0, <4>1, UptoSame
      <4> QED BY <4>2 DEF l
    <3>9. H!Chosen(written, H!Kept)
            = Append(Upto(written, H!Kept)[m - 1], last.rec)
      <4>1. H!Chosen(written, H!Kept) = Upto(written, H!Kept)[m]
        BY <1>1, UptoStep DEF m
      <4>2. Upto(written, H!Kept)[m]
              = Append(Upto(written, H!Kept)[m - 1], written[m])
        BY <1>1, <3>1, <3>2, UptoStep DEF m
      <4> QED BY <3>1, <4>1, <4>2
    <3>10. Upto(W, H!Whole)[n - 1] \in Seq(H!Recs)
      BY <1>4, <3>0, ChosenType
    <3>11. Upto(written, H!Kept)[m - 1] \in Seq(H!Recs)
      BY <1>1, <3>0, ChosenType
    <3>12. \A x, y \in Seq(H!Recs) :
             Append(x, last.rec) = Append(y, last.rec) => x = y
      <4> SUFFICES ASSUME NEW x \in Seq(H!Recs), NEW y \in Seq(H!Recs),
                          Append(x, last.rec) = Append(y, last.rec)
                   PROVE  x = y
        OBVIOUS
      <4>1. Len(x) = Len(y)
        OBVIOUS
      <4>2. ASSUME NEW i \in 1 .. Len(x) PROVE x[i] = y[i]
        <5>1. Append(x, last.rec)[i] = x[i] /\ Append(y, last.rec)[i] = y[i]
          BY <4>1
        <5> QED BY <5>1
      <4> QED BY <4>1, <4>2
    <3> QED BY <1>7, <3>4, <3>5, <3>6, <3>7, <3>8, <3>9, <3>10, <3>11, <3>12
  <2>2. CASE ~last.whole
    <3>1. \A i \in 1 .. n : i \in whole <=> i \in H!Whole
      BY <1>1, <1>5, <1>6, <2>2 DEF last
    <3>2. H!Chosen(Q, whole) = H!Chosen(W, H!Whole)
      BY <1>1, <1>4, <3>1, ChosenSame
    <3>3. \A i \in 1 .. m : written[i] = last.rec => last.rec \in torn
      BY <1>1, <2>2 DEF Agrees, H!Wrote, n, last
    <3>4. kept = H!Kept
      BY <1>8, <3>3
    <3> QED BY <1>7, <3>2, <3>4
  <2> QED BY <2>1, <2>2
<1> QED BY <1>1, <1>3, <1>9
(* A step that writes nothing, and one after which more has been tried.    *)
LEMMA MoreAgrees ==
  ASSUME NEW P \in SUBSET H!Recs, NEW Q \in SUBSET H!Recs, P \subseteq Q,
         Agrees(P), UNCHANGED H!fileVars
  PROVE  Agrees(Q)'
<1>1. /\ history' = history /\ open' = open
      /\ written' = written /\ torn' = torn
  BY DEF H!fileVars
<1>2. H!Whole' = H!Whole /\ H!Kept' = H!Kept
  BY <1>1 DEF H!Whole, H!Kept
<1>3. \A r : H!Wrote(r)' <=> H!Wrote(r)
  BY <1>1 DEF H!Wrote
<1>4. history[Len(history)].rec \in P => history[Len(history)].rec \in Q
  OBVIOUS
<1> QED BY <1>1, <1>2, <1>3, <1>4 DEF Agrees

(* A record is appended after a newline, whole or torn.                    *)
LEMMA LineAgrees ==
  ASSUME NEW P \in SUBSET H!Recs, NEW r \in H!Recs, r \notin P, Agrees(P),
         ~open, open' \in BOOLEAN, NEW whole \in BOOLEAN, whole \/ open',
         history' = Append(history, H!Line(r, whole)),
         written' = IF whole THEN Append(written, r) ELSE written,
         torn' = torn
  PROVE  Agrees(P \cup {r})'
<1> DEFINE n == Len(history)
           m == Len(written)
           line == H!Line(r, whole)
<1>1. /\ history \in Seq(Lines) /\ n \in Nat /\ DOMAIN history = 1 .. n
      /\ written \in Seq(H!Recs) /\ m \in Nat /\ DOMAIN written = 1 .. m
      /\ torn \subseteq P /\ r \notin torn
      /\ \A i \in 1 .. m : written[i] \in P /\ written[i] # r
      /\ \A i, j \in 1 .. m : written[i] = written[j] => i = j
  BY DEF Agrees
<1>2. line \in Lines /\ line.rec = r /\ line.whole = whole
  BY DEF H!Line, Lines
<1> HIDE DEF line
<1>3. /\ history' \in Seq(Lines) /\ Len(history') = n + 1
      /\ DOMAIN history' = 1 .. n + 1 /\ history'[n + 1] = line
      /\ \A i \in 1 .. n : history'[i] = history[i]
  BY <1>1, <1>2 DEF line
<1>4. /\ H!Records(history) \in Seq(H!Recs) /\ Len(H!Records(history)) = n
      /\ H!Records(history)' \in Seq(H!Recs)
      /\ Len(H!Records(history)') = n + 1
      /\ H!Records(history)'[n + 1] = r
      /\ \A i \in 1 .. n : H!Records(history)'[i] = H!Records(history)[i]
  <2>1. /\ H!Records(history) = [i \in 1 .. n |-> history[i].rec]
        /\ H!Records(history)' = [i \in 1 .. n + 1 |-> history'[i].rec]
    BY <1>1, <1>3 DEF H!Records
  <2>2. \A l \in Lines : l.rec \in H!Recs
    BY DEF Lines
  <2>3. /\ \A i \in 1 .. n : history[i] \in Lines
        /\ \A i \in 1 .. n + 1 : history'[i] \in Lines
    BY <1>1, <1>3
  <2> HIDE DEF n
  <2>4. /\ H!Records(history) \in [1 .. n -> H!Recs]
        /\ H!Records(history)' \in [1 .. n + 1 -> H!Recs]
    BY <2>1, <2>2, <2>3
  <2>5. n + 1 \in Nat /\ n + 1 \in 1 .. n + 1
    BY <1>1
  <2>6. H!Records(history)'[n + 1] = r
    BY <1>2, <1>3, <2>1, <2>5
  <2>7. \A i \in 1 .. n : H!Records(history)'[i] = H!Records(history)[i]
    BY <1>1, <1>3, <2>1
  <2> QED BY <1>1, <2>4, <2>5, <2>6, <2>7, MadeSeq
<1>5. /\ H!Whole = {i \in 1 .. n : history[i].whole}
      /\ H!Whole' = {i \in 1 .. n + 1 : history'[i].whole}
  BY <1>1, <1>3 DEF H!Whole
<1>6. /\ \A i \in 1 .. n : i \in H!Whole' <=> i \in H!Whole
      /\ n + 1 \in H!Whole' <=> whole
  BY <1>1, <1>2, <1>3, <1>5
<1>7. H!Chosen(H!Records(history), H!Whole)' =
        IF whole THEN Append(H!Chosen(H!Records(history), H!Whole), r)
        ELSE H!Chosen(H!Records(history), H!Whole)
  <2> HIDE DEF n
  <2>1. \A i \in 1 .. Len(H!Records(history)) :
          /\ H!Records(history)'[i] = H!Records(history)[i]
          /\ (i \in H!Whole') <=> (i \in H!Whole)
    BY <1>4, <1>6
  <2>2. Len(H!Records(history)') = Len(H!Records(history)) + 1
    BY <1>4
  <2>3. H!Chosen(H!Records(history)', H!Whole') =
          IF Len(H!Records(history)') \in H!Whole'
          THEN Append(H!Chosen(H!Records(history), H!Whole),
                      H!Records(history)'[Len(H!Records(history)')])
          ELSE H!Chosen(H!Records(history), H!Whole)
    <3>1. PICK old, new, was, now :
             /\ old = H!Records(history) /\ new = H!Records(history)'
             /\ was = H!Whole /\ now = H!Whole'
      OBVIOUS
    <3>2. /\ old \in Seq(H!Recs) /\ new \in Seq(H!Recs)
          /\ Len(new) = Len(old) + 1
          /\ \A i \in 1 .. Len(old) : new[i] = old[i] /\ (i \in now <=> i \in was)
      BY <1>4, <2>1, <2>2, <3>1
    <3>3. H!Chosen(new, now) = IF Len(new) \in now
                               THEN Append(H!Chosen(old, was), new[Len(new)])
                               ELSE H!Chosen(old, was)
      BY <3>2, ChosenAppend
    <3> QED BY <3>1, <3>3
  <2> QED BY <1>4, <1>6, <2>3
<1>8. /\ written' \in Seq(H!Recs)
      /\ H!Chosen(written, H!Kept)' =
           IF whole THEN Append(H!Chosen(written, H!Kept), r)
           ELSE H!Chosen(written, H!Kept)
  <2>1. CASE whole
    <3>1. /\ written' \in Seq(H!Recs) /\ Len(written') = m + 1
          /\ DOMAIN written' = 1 .. m + 1 /\ written'[m + 1] = r
          /\ \A i \in 1 .. m : written'[i] = written[i]
      BY <1>1, <2>1, Appended
    <3>2. /\ \A i \in 1 .. m : i \in H!Kept' <=> i \in H!Kept
          /\ m + 1 \in H!Kept'
      BY <1>1, <3>1 DEF H!Kept
    <3>3. H!Chosen(written', H!Kept') =
            IF Len(written') \in H!Kept'
            THEN Append(H!Chosen(written, H!Kept), written'[Len(written')])
            ELSE H!Chosen(written, H!Kept)
      <4>1. \A i \in 1 .. Len(written) :
              /\ written'[i] = written[i]
              /\ (i \in H!Kept') <=> (i \in H!Kept)
        BY <3>1, <3>2
      <4>2. written \in Seq(H!Recs) /\ written' \in Seq(H!Recs)
            /\ Len(written') = Len(written) + 1
        BY <1>1, <3>1
      <4> QED BY ONLY <4>1, <4>2, ChosenAppend
    <3> HIDE DEF m
    <3>4. H!Chosen(written', H!Kept') = Append(H!Chosen(written, H!Kept), r)
      BY <3>1, <3>2, <3>3
    <3> QED BY <2>1, <3>1, <3>4
  <2>2. CASE ~whole
    <3>1. written' = written /\ H!Kept' = H!Kept
      BY <2>2 DEF H!Kept
    <3> QED BY <1>1, <2>2, <3>1
  <2> QED BY <2>1, <2>2
<1>9. H!Chosen(H!Records(history), H!Whole)' = H!Chosen(written, H!Kept)'
  BY <1>7, <1>8 DEF Agrees
<1>10. /\ \A i \in DOMAIN written' : written'[i] \in P \cup {r}
       /\ \A i, j \in DOMAIN written' : written'[i] = written'[j] => i = j
       /\ whole => written' # <<>> /\ written'[Len(written')] = r
       /\ ~whole => \A i \in DOMAIN written' : written'[i] # r
  <2>1. CASE whole
    <3>1. /\ Len(written') = m + 1
          /\ DOMAIN written' = 1 .. m + 1 /\ written'[m + 1] = r
          /\ \A i \in 1 .. m : written'[i] = written[i]
      BY <1>1, <2>1
    <3>2. \A i \in 1 .. m + 1 : i = m + 1 \/ i \in 1 .. m
      BY <1>1
    <3>3. written' # <<>>
      BY <1>1, <3>1
    <3> HIDE DEF m
    <3> QED BY <1>1, <2>1, <3>1, <3>2, <3>3
  <2>2. CASE ~whole
    BY <1>1, <2>2
  <2> QED BY <2>1, <2>2
<1>11. history' # <<>> /\ history'[Len(history')] = line
  BY <1>1, <1>3
<1>12. /\ history' \in Seq(Lines) /\ torn' \subseteq P \cup {r}
       /\ r \in P \cup {r} /\ r \notin torn'
  BY <1>1, <1>3
<1> HIDE DEF n, m
<1> QED BY <1>2, <1>8, <1>9, <1>10, <1>11, <1>12 DEF Agrees, H!Wrote

(* What is appended to a torn line is lost, and so is its record.          *)
LEMMA SpoiledAgrees ==
  ASSUME NEW P \in SUBSET H!Recs, NEW r \in H!Recs, r \notin P, Agrees(P),
         open, open' \in BOOLEAN, history' = H!Glued,
         \/ /\ open' /\ written' = written
            /\ torn' = torn \cup {H!Last(history).rec}
         \/ /\ ~open' /\ written' = Append(written, r)
            /\ torn' = torn \cup {r, H!Last(history).rec}
  PROVE  Agrees(P \cup {r})'
<1> DEFINE last == history[Len(history)]
           spoiled == torn \cup {last.rec}
           m == Len(written)
<1>1. /\ written \in Seq(H!Recs) /\ m \in Nat /\ DOMAIN written = 1 .. m
      /\ torn \subseteq P /\ last.rec \in P
      /\ \A i \in 1 .. m : written[i] \in P /\ written[i] # r
      /\ \A i, j \in 1 .. m : written[i] = written[j] => i = j
  BY DEF Agrees
<1>2. /\ history' \in Seq(Lines) /\ Len(history') = Len(history)
      /\ Len(history) \in Nat \ {0}
      /\ history'[Len(history')] = [rec |-> last.rec, whole |-> FALSE]
      /\ H!Chosen(H!Records(history'), H!Whole') =
           H!Chosen(written,
                    {i \in DOMAIN written : written[i] \notin spoiled})
  <2>1. H!Whole' = {i \in DOMAIN history' : history'[i].whole}
    BY DEF H!Whole
  <2> QED BY <2>1, GluedAgrees
<1> DEFINE kept == {i \in DOMAIN written : written[i] \notin spoiled}
<1>3. H!Chosen(written', H!Kept') = H!Chosen(written, kept)
  <2>1. CASE open'
    <3>1. H!Kept' = kept /\ written' = written
      BY <2>1 DEF H!Kept, H!Last
    <3> QED BY <3>1
  <2>2. CASE ~open'
    <3>1. written' = Append(written, r) /\ torn' = spoiled \cup {r}
      BY <2>2 DEF H!Last
    <3>2. /\ written' \in Seq(H!Recs) /\ Len(written') = m + 1
          /\ DOMAIN written' = 1 .. m + 1 /\ written'[m + 1] = r
          /\ \A i \in 1 .. m : written'[i] = written[i]
      <4>1. /\ written \in Seq(H!Recs) /\ r \in H!Recs
            /\ written' = Append(written, r)
        BY <1>1, <3>1
      <4> QED BY ONLY <4>1, Appended
    <3> HIDE DEF spoiled
    <3>3. H!Kept' = {i \in 1 .. m + 1 : written'[i] \notin spoiled \cup {r}}
      BY <3>1, <3>2 DEF H!Kept
    <3>4. kept = {i \in 1 .. m : written[i] \notin spoiled}
      BY <1>1
    <3>5. \A i \in 1 .. m : (i \in H!Kept') <=> (i \in kept)
      <4> SUFFICES ASSUME NEW i \in 1 .. m
                   PROVE  (i \in H!Kept') <=> (i \in kept)
        OBVIOUS
      <4>1. i \in 1 .. m + 1 /\ written'[i] = written[i] /\ written[i] # r
        BY <1>1, <3>2
      <4> QED BY <3>3, <3>4, <4>1
    <3>6. m + 1 \notin H!Kept'
      BY <3>2, <3>3
    <3> HIDE DEF kept
    <3> QED BY <1>1, <3>2, <3>5, <3>6, ChosenAppend
  <2> QED BY <2>1, <2>2
<1>4. /\ written' \in Seq(H!Recs)
      /\ \A i \in DOMAIN written' : written'[i] \in P \cup {r}
      /\ \A i, j \in DOMAIN written' : written'[i] = written'[j] => i = j
      /\ torn' \subseteq P \cup {r} /\ last.rec \in torn'
  <2>1. CASE open'
    BY <1>1, <2>1 DEF H!Last
  <2>2. CASE ~open'
    <3>1. written' = Append(written, r) /\ torn' = spoiled \cup {r}
      BY <2>2 DEF H!Last
    <3>2. /\ written' \in Seq(H!Recs)
          /\ DOMAIN written' = 1 .. m + 1 /\ written'[m + 1] = r
          /\ \A i \in 1 .. m : written'[i] = written[i]
      <4>1. /\ written \in Seq(H!Recs) /\ r \in H!Recs
            /\ written' = Append(written, r)
        BY <1>1, <3>1
      <4> QED BY ONLY <4>1, Appended
    <3>3. \A i \in 1 .. m + 1 : i = m + 1 \/ i \in 1 .. m
      BY <1>1
    <3> HIDE DEF m
    <3> QED BY <1>1, <3>1, <3>2, <3>3
  <2> QED BY <2>1, <2>2
<1>5. history' # <<>>
  BY <1>2
<1> HIDE DEF last
<1>6. /\ history'[Len(history')].rec = last.rec
      /\ ~history'[Len(history')].whole
  BY <1>2
<1>7. H!Chosen(H!Records(history'), H!Whole') = H!Chosen(written', H!Kept')
  BY <1>2, <1>3
<1> HIDE DEF spoiled, kept, m
<1> QED BY <1>1, <1>2, <1>4, <1>5, <1>6, <1>7 DEF Agrees, H!Wrote

(* A record is written, or it is not: it has been tried.                   *)
LEMMA RecordAgrees ==
  ASSUME NEW P \in SUBSET H!Recs, NEW r \in H!Recs, r \notin P, Agrees(P),
         H!record(r) \/ H!RecordFails(r)
  PROVE  Agrees(P \cup {r})'
<1>1. CASE open /\ H!record(r)
  BY <1>1, SpoiledAgrees DEF H!record
<1>2. CASE ~open /\ H!record(r)
  <2>1. /\ history' = Append(history, H!Line(r, TRUE)) /\ open' = FALSE
        /\ written' = Append(written, r) /\ torn' = torn
    BY <1>2 DEF H!record
  <2> QED BY <1>2, <2>1, LineAgrees
<1>3. CASE UNCHANGED H!fileVars
  BY <1>3, MoreAgrees
<1>4. CASE \E whole \in IF open THEN {FALSE} ELSE BOOLEAN :
            /\ history' = IF open THEN H!Glued
                          ELSE Append(history, H!Line(r, whole))
            /\ written' = IF whole THEN Append(written, r) ELSE written
            /\ torn' = IF open THEN torn \cup {H!Last(history).rec} ELSE torn
            /\ open' = TRUE
  <2>1. CASE open
    BY <1>4, <2>1, SpoiledAgrees
  <2>2. CASE ~open
    <3>1. PICK whole \in BOOLEAN :
            /\ history' = Append(history, H!Line(r, whole))
            /\ written' = IF whole THEN Append(written, r) ELSE written
            /\ torn' = torn /\ open' = TRUE
      BY <1>4, <2>2
    <3> QED BY <2>2, <3>1, LineAgrees
  <2> QED BY <2>1, <2>2
<1> QED
  <2>1. H!RecordFails(r) =>
          \/ UNCHANGED H!fileVars
          \/ \E whole \in IF open THEN {FALSE} ELSE BOOLEAN :
               /\ history' = IF open THEN H!Glued
                             ELSE Append(history, H!Line(r, whole))
               /\ written' = IF whole THEN Append(written, r) ELSE written
               /\ torn' = IF open THEN torn \cup {H!Last(history).rec}
                          ELSE torn
               /\ open' = TRUE
    BY DEF H!RecordFails, H!fileVars
  <2> QED BY <1>1, <1>2, <1>3, <1>4, <2>1
PastRecs == {r \in H!Recs : H!Past(r)}

Started ==
  /\ begun \in [H!Ids -> H!Progress] /\ ended \in [H!Ids -> H!Progress]
  /\ \A s \in H!Ids : ended[s] # "no" => begun[s] # "no"

LEMMA InvariantParts == H!IInv <=> Started /\ Agrees(PastRecs)
<1>1. H!IInv => Started /\ Agrees(PastRecs)
  <2> SUFFICES ASSUME H!IInv PROVE Started /\ Agrees(PastRecs)
    OBVIOUS
  <2>1. Started
    BY DEF H!IInv, H!TypeOK, Started
  <2>2. /\ history \in Seq(Lines) /\ open \in BOOLEAN
        /\ written \in Seq(H!Recs) /\ torn \subseteq PastRecs
    BY DEF H!IInv, H!TypeOK, Lines, PastRecs
  <2>3. \A i \in DOMAIN written : written[i] \in PastRecs
    <3>1. \A i \in DOMAIN written : written[i] \in H!Recs
      BY <2>2
    <3> QED BY <3>1 DEF H!IInv, PastRecs
  <2>4. open => history[Len(history)].rec \in PastRecs
    <3>1. open => history[Len(history)] \in Lines
      BY <2>2 DEF H!IInv
    <3> QED BY <3>1 DEF H!IInv, Lines, PastRecs
  <2> QED BY <2>1, <2>2, <2>3, <2>4 DEF H!IInv, Agrees
<1>2. Started /\ Agrees(PastRecs) => H!IInv
  <2> SUFFICES ASSUME Started, Agrees(PastRecs) PROVE H!IInv
    OBVIOUS
  <2>1. H!TypeOK /\ \A r \in torn : H!Past(r)
    BY DEF H!TypeOK, Started, Agrees, Lines, PastRecs
  <2>2. \A i \in DOMAIN written : H!Past(written[i])
    BY DEF Agrees, PastRecs
  <2>3. open => H!Past(history[Len(history)].rec)
    BY DEF Agrees, PastRecs
  <2> QED BY <2>1, <2>2, <2>3 DEF H!IInv, Started, Agrees
<1> QED BY <1>1, <1>2

LEMMA AfterwardsAgrees ==
  ASSUME NEW P \in SUBSET H!Recs, P \subseteq PastRecs', Agrees(P)'
  PROVE  Agrees(PastRecs)'
<1>1. PICK Q : Q = PastRecs'
  OBVIOUS
<1>2. Agrees(Q)'
  BY ONLY <1>1, P \subseteq PastRecs', Agrees(P)' DEF Agrees
<1> QED BY <1>1, <1>2 DEF Agrees

(* No step is taken back.                                                  *)
LEMMA PastStays ==
  ASSUME Started, H!Next
  PROVE  Started' /\ PastRecs \subseteq PastRecs'
<1>1. \A r \in H!Recs : r[1] \in H!Ids /\ r[2] \in {"start", "end"}
  BY DEF H!Recs
<1>2. CASE \E s \in H!Ids :
             \/ H!StartSession(s) \/ H!StartRecords(s) \/ H!StartNotifies(s)
             \/ H!Join(s) \/ H!JoinRecords(s) \/ H!JoinReturns(s)
             \/ \E reply \in Replies : H!Post(s, reply)
  <2>1. PICK s \in H!Ids :
             \/ H!StartSession(s) \/ H!StartRecords(s) \/ H!StartNotifies(s)
             \/ H!Join(s) \/ H!JoinRecords(s) \/ H!JoinReturns(s)
             \/ \E reply \in Replies : H!Post(s, reply)
    BY <1>2
  <2>2. \/ UNCHANGED <<begun, ended>>
        \/ /\ ended' = ended /\ begun[s] = "no"
           /\ begun' = [begun EXCEPT ![s] = "record"]
        \/ /\ ended' = ended /\ begun[s] = "record"
           /\ begun' = [begun EXCEPT ![s] = "notify"]
        \/ /\ ended' = ended /\ begun[s] = "notify"
           /\ begun' = [begun EXCEPT ![s] = "done"]
        \/ /\ begun' = begun /\ begun[s] # "no" /\ ended[s] = "no"
           /\ ended' = [ended EXCEPT ![s] = "record"]
        \/ /\ begun' = begun /\ begun[s] # "no" /\ ended[s] = "record"
           /\ ended' = [ended EXCEPT ![s] = "notify"]
        \/ /\ begun' = begun /\ begun[s] # "no" /\ ended[s] = "notify"
           /\ ended' = [ended EXCEPT ![s] = "done"]
    BY <2>1 DEF H!StartSession, H!StartRecords, H!StartNotifies, H!Join,
                H!JoinRecords, H!JoinReturns, H!Post, Started
  <2>3. Started'
    BY <2>2 DEF Started, H!Progress
  <2>4. \A p \in H!Ids :
          /\ begun[p] \in {"notify", "done"} => begun'[p] \in {"notify", "done"}
          /\ ended[p] \in {"notify", "done"} => ended'[p] \in {"notify", "done"}
    BY <2>2 DEF Started
  <2>5. PastRecs \subseteq PastRecs'
    BY <1>1, <2>4 DEF PastRecs, H!Past
  <2> QED BY <2>3, <2>5
<1>3. CASE H!Restart
  <2>1. begun' = [s \in H!Ids |-> IF begun[s] = "no" THEN "no" ELSE "done"]
        /\ ended' = begun'
    BY <1>3 DEF H!Restart, H!Over
  <2>2. Started'
    BY <2>1 DEF Started, H!Progress
  <2>3. \A p \in H!Ids :
          /\ begun[p] \in {"notify", "done"} => begun'[p] \in {"notify", "done"}
          /\ ended[p] \in {"notify", "done"} => ended'[p] \in {"notify", "done"}
    BY <2>1 DEF Started
  <2>4. PastRecs \subseteq PastRecs'
    BY <1>1, <2>3 DEF PastRecs, H!Past
  <2> QED BY <2>2, <2>4
<1> QED BY <1>2, <1>3 DEF H!Next

LEMMA HistoryNext ==
  ASSUME H!IInv, H!Next
  PROVE  H!IInv'
<1>1. Started /\ Agrees(PastRecs)
  BY InvariantParts
<1>2. Started' /\ PastRecs \subseteq PastRecs'
  BY <1>1, PastStays
<1>3. SUFFICES Agrees(PastRecs)'
  <2>1. H!IInv' <=> Started' /\ Agrees(PastRecs)'
    BY InvariantParts, PTL
  <2> QED BY <1>2, <2>1
<1>4. PICK P \in SUBSET H!Recs : P = PastRecs
  BY DEF PastRecs
<1>5. Agrees(P)
  BY <1>1, <1>4
<1>6. CASE UNCHANGED H!fileVars
  <2>1. Agrees(P)'
    BY <1>5, <1>6, MoreAgrees
  <2> QED BY <1>2, <1>4, <2>1, AfterwardsAgrees
<1>7. ASSUME NEW s \in H!Ids, NEW end \in {"start", "end"},
             H!record(<<s, end>>) \/ H!RecordFails(<<s, end>>),
             (IF end = "start" THEN begun ELSE ended)[s] = "record",
             (IF end = "start" THEN begun ELSE ended)'[s] \in {"notify", "done"}
      PROVE  Agrees(PastRecs)'
  <2> DEFINE r == <<s, end>>
  <2>1. r \in H!Recs /\ r[1] = s /\ r[2] = end
    BY DEF H!Recs
  <2>2. r \notin PastRecs
    BY <1>7, <2>1 DEF PastRecs, H!Past
  <2>3. r \in PastRecs'
    BY <1>7, <2>1 DEF PastRecs, H!Past
  <2>4. Agrees(P \cup {r})'
    <3> HIDE DEF r
    <3>1. H!record(r) \/ H!RecordFails(r)
      BY <1>7 DEF r
    <3> QED BY <1>4, <1>5, <2>1, <2>2, <3>1, RecordAgrees
  <2>5. P \cup {r} \in SUBSET H!Recs /\ P \cup {r} \subseteq PastRecs'
    BY <1>2, <1>4, <2>1, <2>3
  <2> HIDE DEF r
  <2> QED BY <2>4, <2>5, AfterwardsAgrees
<1>8. ASSUME NEW s \in H!Ids, H!StartRecords(s) PROVE Agrees(PastRecs)'
  <2>1. /\ begun[s] = "record" /\ begun'[s] = "notify"
        /\ H!record(<<s, "start">>) \/ H!RecordFails(<<s, "start">>)
    BY <1>1, <1>8 DEF H!StartRecords, Started
  <2> QED BY <1>7, <2>1
<1>9. ASSUME NEW s \in H!Ids, H!JoinRecords(s) PROVE Agrees(PastRecs)'
  <2>1. /\ ended[s] = "record" /\ ended'[s] = "notify"
        /\ H!record(<<s, "end">>) \/ H!RecordFails(<<s, "end">>)
    BY <1>1, <1>9 DEF H!JoinRecords, Started
  <2> QED BY <1>7, <2>1
<1>10. CASE H!Restart
  <2>1. /\ begun' = [s \in H!Ids |-> IF begun[s] = "no" THEN "no" ELSE "done"]
        /\ ended' = begun'
    BY <1>10 DEF H!Restart, H!Over
  <2>2. ASSUME NEW s \in H!Ids, begun[s] = "record",
               H!RecordFails(<<s, "start">>)
        PROVE  Agrees(PastRecs)'
    <3>1. begun'[s] = "done"
      BY <2>1, <2>2
    <3> QED BY <1>7, <2>2, <3>1
  <2>3. ASSUME NEW s \in H!Ids, ended[s] = "record",
               H!RecordFails(<<s, "end">>)
        PROVE  Agrees(PastRecs)'
    <3>1. ended'[s] = "done"
      BY <1>1, <2>1, <2>3 DEF Started
    <3> QED BY <1>7, <2>3, <3>1
  <2> QED BY <1>6, <1>10, <2>2, <2>3 DEF H!Restart
<1> QED
  <2>1. ASSUME NEW s \in H!Ids,
               \/ H!StartSession(s) \/ H!StartNotifies(s)
               \/ H!Join(s) \/ H!JoinReturns(s)
               \/ \E reply \in Replies : H!Post(s, reply)
        PROVE  UNCHANGED H!fileVars
    BY <2>1 DEF H!StartSession, H!StartNotifies, H!Join, H!JoinReturns, H!Post
  <2> QED BY <1>6, <1>8, <1>9, <1>10, <2>1 DEF H!Next

(* What was written is read back in its order, up to any limit, whatever   *)
(* writes failed or were cut short: a torn line costs itself and the       *)
(* record that is appended to it (record, recent).                         *)
THEOREM HistoryReadable == HostingSpec => []HistoryIsReadable
<1>1. HostingInit => H!IInv
  <2> SUFFICES ASSUME H!Init PROVE H!IInv
    BY DEF HostingInit
  <2>1. Started
    BY DEF H!Init, Started, H!Progress
  <2>2. H!Records(history) = <<>> /\ written = <<>> /\ H!Whole = {}
        /\ H!Kept = {}
    BY DEF H!Init, H!Records, H!Whole, H!Kept
  <2>3. Agrees(PastRecs)
    <3>1. /\ history = <<>> /\ written = <<>> /\ open = FALSE /\ torn = {}
          /\ H!Chosen(H!Records(history), H!Whole) = H!Chosen(written, H!Kept)
      BY <2>2 DEF H!Init
    <3>2. /\ history \in Seq(Lines) /\ written \in Seq(H!Recs)
          /\ DOMAIN written = {}
      BY <3>1
    <3> QED BY <3>1, <3>2 DEF Agrees
  <2> QED BY <2>1, <2>3, InvariantParts
<1>2. H!IInv /\ [HostingNext]_<<part, vars, compositorVars, historyVars,
                                portVars, configVars>> => H!IInv'
  <2> SUFFICES ASSUME H!IInv,
                      [HostingNext]_<<part, vars, compositorVars, historyVars,
                                      portVars, configVars>>
               PROVE  H!IInv'
    OBVIOUS
  <2>1. CASE H!Next
    BY <2>1, HistoryNext
  <2>2. CASE UNCHANGED historyVars
    <3>1. UNCHANGED <<begun, ended>> /\ UNCHANGED H!fileVars
      BY <2>2 DEF historyVars, H!fileVars
    <3>2. Started /\ Agrees(PastRecs)
      BY InvariantParts
    <3>3. Started' /\ PastRecs' = PastRecs
      BY <3>1, <3>2 DEF Started, PastRecs, H!Past
    <3>4. PICK P \in SUBSET H!Recs : P = PastRecs
      BY DEF PastRecs
    <3>5. Agrees(P)'
      BY <3>1, <3>2, <3>4, MoreAgrees
    <3>6. Agrees(PastRecs)'
      BY <3>3, <3>4, <3>5, AfterwardsAgrees
    <3>7. H!IInv' <=> Started' /\ Agrees(PastRecs)'
      BY InvariantParts, PTL
    <3> QED BY <3>3, <3>6, <3>7
  <2> QED BY <2>1, <2>2 DEF HostingNext
<1>3. H!IInv => HistoryIsReadable
  BY DEF H!IInv, HistoryIsReadable, H!HistoryIsReadable, H!recent
<1> QED BY <1>1, <1>2, <1>3, PTL DEF HostingSpec
=============================================================================
