-------------------------- MODULE MCStreamSession --------------------------
(* StreamSession on a small instance.                                      *)
EXTENDS StreamSession, TLC

CONSTANTS s1, s2, video, audio

OneSession == {s1}
TwoSessions == {s1, s2}
VideoOnly == {video}
Both == {audio, video}
NoOps == {}
AllOps == {"cancel", "cert"}

Symmetric == Permutations(Sessions) \cup Permutations(Workers)

(* What else ends sessions than their clients and their clocks: requests   *)
(* that end them, the application's exit, the host's shutdown.             *)
Troubles ==
  {t \in Servers : mode[t] \in {"cancel", "cert", "count"}} \cup
  (IF hostDown THEN {"main"} ELSE {})

(* A bound: two sessions are followed while none of these is at work, the  *)
(* app is not launched again, a client may still come, and a /resume that  *)
(* comes has something to clean up; one session, together with one of      *)
(* these at a time.                                                        *)
TwoTogether ==
  /\ Troubles = {} /\ app /\ invited
  /\ \/ mode["http"] = "stopped"
     \/ mode["http"] = "resume" /\ \E s \in alive : state[s] = "STOPPING"
OneAtATime ==
  Cardinality(Troubles) <= 1 /\ (Cardinality(alive) <= 1 \/ TwoTogether)
=============================================================================
