--------------------------- MODULE Pairing_proofs ---------------------------
(***************************************************************************)
(* Proofs about Pairing, for any number of devices, ids and attempts: who  *)
(* is authorised has shown the PIN that was entered for that attempt.      *)
(***************************************************************************)
EXTENDS Pairing, TLAPS

USE DEF listVars, adminKeeps

(* What the handlers make of a session.                                    *)
LEMMA SessionTypes ==
  ASSUME None \notin Sessions, None \notin Devices, None \notin Int
  PROVE  /\ \A d \in Devices, w \in BOOLEAN :
              /\ NewSession(d, w) \in Sessions
              /\ NewSession(d, w).hash = 0
              /\ NewSession(d, w).cipher_key = None
              /\ NewSession(d, w).held \in {d, None}
         /\ \A s \in Sessions, d \in Devices, w \in BOOLEAN :
              /\ Retry(s, d, w) \in Sessions
              /\ Retry(s, d, w).hash = 0
              /\ Retry(s, d, w).cipher_key = None
              /\ Retry(s, d, w).held \in {d, None}
         /\ \A s \in Sessions, p \in Int, salt \in BOOLEAN :
              getservercert(s, p, salt) # None =>
                LET t == getservercert(s, p, salt)
                IN /\ t \in Sessions
                   /\ t.hash = s.hash
                   /\ t.cipher_key = p
                   /\ t.held = s.held
<1> USE DEF Sessions, Phases
<1>1. \A d \in Devices, w \in BOOLEAN :
        /\ NewSession(d, w) \in Sessions
        /\ NewSession(d, w).hash = 0
        /\ NewSession(d, w).cipher_key = None
        /\ NewSession(d, w).held \in {d, None}
  BY DEF NewSession
<1>2. \A s \in Sessions, d \in Devices, w \in BOOLEAN :
        /\ Retry(s, d, w) \in Sessions
        /\ Retry(s, d, w).hash = 0
        /\ Retry(s, d, w).cipher_key = None
        /\ Retry(s, d, w).held \in {d, None}
  BY DEF NewSession, Retry
<1>3. ASSUME NEW s \in Sessions, NEW p \in Int, NEW salt \in BOOLEAN,
             getservercert(s, p, salt) # None
      PROVE  LET t == getservercert(s, p, salt)
             IN /\ t \in Sessions
                /\ t.hash = s.hash
                /\ t.cipher_key = p
                /\ t.held = s.held
  BY <1>3 DEF getservercert
<1> QED BY <1>1, <1>2, <1>3

(* A device begins an attempt with a number of its own; another one whose  *)
(* request was held in the session is left without an answer.              *)
LEMMA AttemptBegins ==
  ASSUME IInv, None \notin Sessions, None \notin Devices,
         NEW d \in Devices, NEW s \in Sessions \cup {None}, NEW at \in Places,
         NEW p \in {Zero, attempts + 1},
         http.at = "idle", UNCHANGED <<uid, http>>,
         attempts' = attempts + 1,
         map_id_sess' = [map_id_sess EXCEPT ![uid[d]] = s],
         device' = [Unheld(map_id_sess[uid[d]]) EXCEPT
                      ![d] = [at |-> at, n |-> attempts + 1, pin |-> p]],
         entered \subseteq entered',
         s # None => /\ s.hash = 0
                     /\ s.cipher_key \in entered' \cup {Garbage, None}
                     /\ s.held \in {d, None}
  PROVE  IInv'
<1> USE DEF IInv, TypeOK
<1> DEFINE mine == [at |-> at, n |-> attempts + 1, pin |-> p]
<1>1. mine \in Attempts /\ NotPairing \in Attempts
  BY DEF Attempts, Places, NotPairing, Garbage, Zero
<1>2. Unheld(map_id_sess[uid[d]]) \in [Devices -> Attempts]
  BY <1>1 DEF Unheld, Sessions
<1>3. /\ device' \in [Devices -> Attempts]
      /\ device'[d] = mine
      /\ \A e \in Devices \ {d} :
           \/ device'[e] = device[e]
           \/ /\ device'[e] = NotPairing
              /\ map_id_sess[uid[d]] # None
              /\ map_id_sess[uid[d]].held = e
  BY <1>1, <1>2 DEF Unheld
<1>4. /\ map_id_sess' \in [Ids -> Sessions \cup {None}]
      /\ \A i \in Ids : i # uid[d] => map_id_sess'[i] = map_id_sess[i]
      /\ map_id_sess'[uid[d]] = s
  OBVIOUS
<1>a. /\ mine.n = attempts + 1 /\ mine.pin = p /\ mine.at = at
      /\ NotPairing.n = 0 /\ NotPairing.at = "idle"
  BY DEF NotPairing
<1> HIDE DEF mine
<1>5. TypeOK'
  BY <1>3, <1>4
<1>6. AttemptsDiffer'
  BY <1>3, <1>a DEF AttemptsDiffer, Attempts, Zero
<1>7. HashesAreEarned'
  <2> SUFFICES ASSUME NEW i \in Ids, map_id_sess'[i] # None
               PROVE  /\ map_id_sess'[i].hash <= attempts'
                      /\ map_id_sess'[i].cipher_key
                           \in entered' \cup {Garbage, None}
                      /\ \A e \in Devices :
                           /\ device'[e].n # 0
                           /\ map_id_sess'[i].hash = device'[e].n
                           => device'[e].pin \in entered'
    BY DEF HashesAreEarned
  <2>1. CASE i = uid[d]
    BY <2>1, <1>4
  <2>2. CASE i # uid[d]
    <3>1. /\ map_id_sess'[i] = map_id_sess[i]
          /\ map_id_sess[i].hash <= attempts
          /\ map_id_sess[i].hash \in Int
      BY <2>2, <1>4 DEF HashesAreEarned, Sessions
    <3> QED BY <3>1, <1>3, <1>a DEF HashesAreEarned
  <2> QED BY <2>1, <2>2
<1>8. HeldWaits'
  BY <1>3, <1>4, <1>a DEF HeldWaits, Sessions
<1>9. PairedByItsPin'
  BY DEF PairedByItsPin
<1> QED BY <1>5, <1>6, <1>7, <1>8, <1>9

(* A session goes on or is gone, and a device with it: attempts stay.      *)
LEMMA SessionGoesOn ==
  ASSUME IInv, None \notin Sessions, None \notin Devices,
         NEW i \in Ids, NEW s \in Sessions \cup {None},
         UNCHANGED <<uid, attempts>>,
         map_id_sess' = [map_id_sess EXCEPT ![i] = s],
         device' \in [Devices -> Attempts],
         \A e \in Devices : /\ device'[e].n = device[e].n
                            /\ device'[e].pin = device[e].pin
                            /\ device'[e].at # "idle" => device[e].n # 0,
         entered \subseteq entered',
         s # None =>
           /\ s.hash <= attempts
           /\ s.cipher_key \in entered' \cup {Garbage, None}
           /\ \A e \in Devices : device[e].n # 0 /\ s.hash = device[e].n
                                   => device[e].pin \in entered'
           /\ s.held # None => uid[s.held] = i /\ device[s.held].n # 0,
         http' \in Https,
         http'.at # "idle" => /\ http'.cert \in Devices
                              /\ device[http'.cert].pin \in entered
  PROVE  IInv'
<1> USE DEF IInv
<1>1. TypeOK'
  BY DEF TypeOK
<1>2. AttemptsDiffer'
  BY DEF AttemptsDiffer, TypeOK
<1>3. HashesAreEarned'
  BY DEF HashesAreEarned, TypeOK
<1>4. HeldWaits'
  BY DEF HeldWaits, TypeOK, Sessions
<1>5. PairedByItsPin'
  BY DEF PairedByItsPin
<1> QED BY <1>1, <1>2, <1>3, <1>4, <1>5

(* Whatever a handler leaves of a session is as it was entered.            *)
LEMMA Moves ==
  ASSUME IInv, None \notin Devices,
         NEW d \in Devices, NEW at \in Places,
         At(d, at), at # "idle" => device[d].n # 0
  PROVE  /\ device' \in [Devices -> Attempts]
         /\ \A e \in Devices : /\ device'[e].n = device[e].n
                               /\ device'[e].pin = device[e].pin
                               /\ device'[e].at # "idle" => device[e].n # 0
BY DEF At, IInv, TypeOK, Attempts, AttemptsDiffer

(* A device that gives up its session, or the handler that removes it.     *)
LEMMA Gone ==
  ASSUME IInv, None \notin Sessions, None \notin Devices,
         NEW d \in Devices,
         UNCHANGED <<uid, attempts, entered>>,
         map_id_sess' = [map_id_sess EXCEPT ![uid[d]] = None],
         At(d, "idle"),
         http' \in Https,
         http'.at # "idle" => /\ http'.cert \in Devices
                              /\ device[http'.cert].pin \in entered
  PROVE  IInv'
<1>1. uid[d] \in Ids
  BY DEF IInv, TypeOK
<1>2. /\ device' \in [Devices -> Attempts]
      /\ \A e \in Devices : /\ device'[e].n = device[e].n
                            /\ device'[e].pin = device[e].pin
                            /\ device'[e].at # "idle" => device[e].n # 0
  BY Moves DEF Places
<1> QED BY <1>1, <1>2, SessionGoesOn

LEMMA Fails ==
  ASSUME IInv, None \notin Sessions, None \notin Devices,
         NEW d \in Devices, Fail(d),
         UNCHANGED <<uid, attempts, entered, http>>
  PROVE  IInv'
<1>1. http.at # "idle" => /\ http.cert \in Devices
                          /\ device[http.cert].pin \in entered
  BY DEF IInv, TypeOK, Https, PairedByItsPin
<1>2. http \in Https
  BY DEF IInv, TypeOK
<1> QED BY <1>1, <1>2, Gone DEF Fail

(* A request that was in order: the session goes on, with the same hash.   *)
LEMMA GoesOn ==
  ASSUME IInv, None \notin Sessions, None \notin Devices,
         NEW d \in Devices, NEW at \in Places, NEW t \in Sessions,
         device[d].n # 0,
         map_id_sess[uid[d]] # None,
         UNCHANGED <<uid, attempts, entered, http>>,
         map_id_sess' = [map_id_sess EXCEPT ![uid[d]] = t],
         At(d, at),
         t.hash = map_id_sess[uid[d]].hash,
         t.cipher_key = map_id_sess[uid[d]].cipher_key,
         t.held = map_id_sess[uid[d]].held
  PROVE  IInv'
<1>1. uid[d] \in Ids
  BY DEF IInv, TypeOK
<1>2. /\ device' \in [Devices -> Attempts]
      /\ \A e \in Devices : /\ device'[e].n = device[e].n
                            /\ device'[e].pin = device[e].pin
                            /\ device'[e].at # "idle" => device[e].n # 0
  BY Moves
<1>3. /\ t.hash <= attempts
      /\ t.cipher_key \in entered \cup {Garbage, None}
      /\ \A e \in Devices : device[e].n # 0 /\ t.hash = device[e].n
                              => device[e].pin \in entered
  BY <1>1 DEF IInv, HashesAreEarned
<1>4. t.held # None => uid[t.held] = uid[d] /\ device[t.held].n # 0
  BY <1>1 DEF IInv, HeldWaits
<1>5. /\ http.at # "idle" => /\ http.cert \in Devices
                             /\ device[http.cert].pin \in entered
      /\ http \in Https
  BY DEF IInv, TypeOK, Https, PairedByItsPin
<1> QED BY <1>1, <1>2, <1>3, <1>4, <1>5, SessionGoesOn

(* What leaves the sessions alone.                                         *)
LEMMA Aside ==
  ASSUME IInv,
         UNCHANGED <<uid, map_id_sess, device, attempts, entered>>,
         http' \in Https,
         http'.at # "idle" => /\ http'.cert \in Devices
                              /\ device[http'.cert].pin \in entered
  PROVE  IInv'
BY DEF IInv, TypeOK, AttemptsDiffer, HashesAreEarned, HeldWaits,
       PairedByItsPin

(* The host comes up again.                                                *)
LEMMA Afresh ==
  ASSUME uid' \in [Devices -> Ids], attempts' \in Nat,
         NotPairing \in Attempts, NotPairing.n = 0, NotPairing.at = "idle",
         map_id_sess' = [i \in Ids |-> None],
         device' = [d \in Devices |-> NotPairing],
         http' \in Https, http'.at = "idle"
  PROVE  IInv'
BY DEF IInv, TypeOK, AttemptsDiffer, HashesAreEarned, HeldWaits,
       PairedByItsPin

(* No request, no step of the web interface and no restart breaks it.      *)
LEMMA NextIInv ==
  ASSUME None \notin Sessions, None \notin Devices, None \notin Int,
         IInv, [Next]_vars
  PROVE  IInv'
<1>0. /\ uid \in [Devices -> Ids]
      /\ map_id_sess \in [Ids -> Sessions \cup {None}]
      /\ device \in [Devices -> Attempts]
  BY DEF IInv, TypeOK
<1>a. \A i \in Ids : map_id_sess[i] # None => map_id_sess[i] \in Sessions
  BY <1>0
<1>1. ASSUME NEW d \in Devices, GetServerCert(d) PROVE IInv'
  <2>1. /\ Begun(d, TRUE) \in Sessions
        /\ Begun(d, TRUE).hash = 0
        /\ Begun(d, TRUE).cipher_key = None
        /\ Begun(d, TRUE).held \in {d, None}
    BY <1>0, <1>a, SessionTypes DEF Begun
  <2>2. attempts' = attempts + 1
    BY <1>1 DEF GetServerCert
  <2> QED BY <1>1, <2>1, <2>2, AttemptBegins DEF GetServerCert, Places, Zero
<1>2. ASSUME NEW d \in Devices, NEW salt \in BOOLEAN, AutoPair(d, salt)
      PROVE  IInv'
  <2> DEFINE s == getservercert(Begun(d, FALSE), Zero, salt)
             place == IF s = None THEN "idle" ELSE "clientchallenge"
  <2>1. /\ Begun(d, FALSE) \in Sessions
        /\ Begun(d, FALSE).hash = 0
        /\ Begun(d, FALSE).held \in {d, None}
    BY <1>0, <1>a, SessionTypes DEF Begun
  <2>2. s # None => /\ s \in Sessions
                    /\ s.hash = 0
                    /\ s.cipher_key = Zero
                    /\ s.held \in {d, None}
    <3> DEFINE b == Begun(d, FALSE)
    <3>1. b \in Sessions /\ b.hash = 0 /\ b.held \in {d, None}
      BY <2>1
    <3>2. Zero \in Int
      BY DEF Zero
    <3> HIDE DEF b
    <3>3. getservercert(b, Zero, salt) # None =>
            /\ getservercert(b, Zero, salt) \in Sessions
            /\ getservercert(b, Zero, salt).hash = b.hash
            /\ getservercert(b, Zero, salt).cipher_key = Zero
            /\ getservercert(b, Zero, salt).held = b.held
      BY <3>1, <3>2, SessionTypes
    <3> QED BY <3>1, <3>3 DEF b
  <2>3. /\ http.at = "idle" /\ UNCHANGED <<uid, http>>
        /\ attempts' = attempts + 1
        /\ map_id_sess' = [map_id_sess EXCEPT ![uid[d]] = s]
        /\ device' = [Unheld(map_id_sess[uid[d]]) EXCEPT
                        ![d] = [at |-> place, n |-> attempts + 1,
                                pin |-> Zero]]
        /\ entered' = entered \cup {Zero}
    BY <1>2 DEF AutoPair
  <2>4. place \in Places /\ s \in Sessions \cup {None}
    BY <2>2 DEF Places
  <2> HIDE DEF s, place
  <2> QED BY <2>2, <2>3, <2>4, AttemptBegins DEF Zero
<1>3. ASSUME NEW i \in Ids, NEW p \in {Garbage} \cup Shown,
             NEW salt \in BOOLEAN, Pin(i, p, salt)
      PROVE  IInv'
  <2> DEFINE s == map_id_sess[i]
             t == getservercert(s, p, salt)
             u == IF t = None THEN None ELSE [t EXCEPT !.held = None]
  <2>0. s \in Sessions /\ p \in Int
    BY <1>0, <1>a, <1>3 DEF Pin, Shown, Garbage, Attempts
  <2>1. t # None => /\ t \in Sessions
                    /\ t.hash = s.hash
                    /\ t.cipher_key = p
    BY <2>0, SessionTypes
  <2>2. /\ UNCHANGED <<uid, attempts, http>>
        /\ map_id_sess' = [map_id_sess EXCEPT ![i] = u]
        /\ entered' = entered \cup ({p} \ {Garbage})
        /\ IF s.held = None THEN UNCHANGED device
           ELSE At(s.held, IF t = None THEN "idle" ELSE "clientchallenge")
    BY <1>3 DEF Pin
  <2>3. s.held # None => s.held \in Devices /\ device[s.held].n # 0
    BY <2>0 DEF IInv, HeldWaits, Sessions
  <2>4. /\ device' \in [Devices -> Attempts]
        /\ \A e \in Devices : /\ device'[e].n = device[e].n
                              /\ device'[e].pin = device[e].pin
                              /\ device'[e].at # "idle" => device[e].n # 0
    <3>1. CASE s.held = None
      BY <3>1, <2>2, <1>0 DEF IInv, AttemptsDiffer
    <3>2. CASE s.held # None
      <4>1. (IF t = None THEN "idle" ELSE "clientchallenge") \in Places
        BY DEF Places
      <4> HIDE DEF s, t
      <4> QED BY <3>2, <2>2, <2>3, <4>1, Moves
    <3> QED BY <3>1, <3>2
  <2>5. /\ s.hash <= attempts
        /\ \A e \in Devices : device[e].n # 0 /\ s.hash = device[e].n
                               => device[e].pin \in entered
    BY <2>0 DEF IInv, HashesAreEarned
  <2>6. u # None => /\ u \in Sessions
                    /\ u.hash = s.hash
                    /\ u.cipher_key = p
                    /\ u.held = None
    <3> HIDE DEF s, t
    <3> QED BY <2>1 DEF Sessions
  <2>7. /\ http' \in Https
        /\ http'.at # "idle" => /\ http'.cert \in Devices
                                /\ device[http'.cert].pin \in entered
    BY <2>2 DEF IInv, TypeOK, Https, PairedByItsPin
  <2> HIDE DEF s, t, u
  <2> QED BY <2>2, <2>4, <2>5, <2>6, <2>7, SessionGoesOn
<1>4. ASSUME NEW d \in Devices, ClientChallenge(d) PROVE IInv'
  <2> DEFINE i == uid[d]
  <2> DEFINE s == map_id_sess[i]
  <2> DEFINE t == [s EXCEPT !.last_phase = "CLIENTCHALLENGE",
                            !.challenge = device[d].n]
  <2>0. i \in Ids /\ device[d].n \in Int /\ device[d].at # "idle"
    BY <1>0, <1>4 DEF ClientChallenge, Request, Attempts
  <2>1. device[d].n # 0
    BY <2>0 DEF IInv, AttemptsDiffer
  <2>2. CASE InOrder(d, "GETSERVERCERT")
    <3>1. s \in Sessions /\ s # None
      BY <2>0, <2>2, <1>a DEF InOrder
    <3>2. /\ UNCHANGED <<uid, attempts, http, entered>>
          /\ map_id_sess' = [map_id_sess EXCEPT ![i] = t]
          /\ At(d, "serverchallengeresp")
      BY <1>4, <2>2, <1>0, <2>0 DEF ClientChallenge
    <3>3. /\ t \in Sessions /\ t.hash = s.hash
          /\ t.cipher_key = s.cipher_key /\ t.held = s.held
      BY <3>1, <2>0 DEF Sessions, Phases
    <3> HIDE DEF t
    <3> QED BY <3>1, <3>2, <3>3, <2>0, <2>1, GoesOn DEF Places
  <2>3. CASE ~InOrder(d, "GETSERVERCERT")
    BY <1>4, <2>3, Fails DEF ClientChallenge
  <2> QED BY <2>2, <2>3
<1>5. ASSUME NEW d \in Devices, ServerChallengeResp(d) PROVE IInv'
  <2> DEFINE i == uid[d]
  <2> DEFINE s == map_id_sess[i]
  <2> DEFINE right == /\ s.challenge = device[d].n
                      /\ s.cipher_key = device[d].pin
  <2> DEFINE h == IF right THEN device[d].n ELSE Garbage
  <2> DEFINE t == [s EXCEPT !.last_phase = "SERVERCHALLENGERESP",
                            !.hash = h]
  <2>0. /\ i \in Ids /\ device[d].n \in Int /\ device[d].at # "idle"
        /\ device[d].n <= attempts /\ device[d].pin \in Int /\ attempts \in Nat
    BY <1>0, <1>5
    DEF ServerChallengeResp, Request, Attempts, IInv, AttemptsDiffer, TypeOK
  <2>1. /\ device[d].n # 0
        /\ device[d].pin \in {Zero, device[d].n}
        /\ \A e \in Devices \ {d} : device[e].n # device[d].n
    BY <2>0 DEF IInv, AttemptsDiffer
  <2>2. CASE InOrder(d, "CLIENTCHALLENGE")
    <3>1. s \in Sessions /\ s # None
      BY <2>0, <2>2, <1>a DEF InOrder
    <3>2. /\ UNCHANGED <<uid, attempts, http, entered>>
          /\ map_id_sess' = [map_id_sess EXCEPT ![i] = t]
          /\ At(d, "clientpairingsecret")
      BY <1>5, <2>2, <1>0, <2>0 DEF ServerChallengeResp
    <3>3. h \in Int /\ h <= attempts
      BY <2>0 DEF Garbage
    <3>4. /\ t \in Sessions /\ t.hash = h
          /\ t.cipher_key = s.cipher_key /\ t.held = s.held
      <4> HIDE DEF h
      <4> QED BY <3>1, <3>3 DEF Sessions, Phases
    <3>5. s.cipher_key \in entered \cup {Garbage, None}
      BY <3>1, <2>0 DEF IInv, HashesAreEarned
    <3>6. device[d].n = h => device[d].pin \in entered
      <4> SUFFICES ASSUME h = device[d].n PROVE device[d].pin \in entered
        OBVIOUS
      <4>1. s.cipher_key = device[d].pin
        BY <2>0, <2>1 DEF IInv, TypeOK, Attempts, Garbage, h, TypeOK
      <4>2. device[d].pin # Garbage /\ device[d].pin # None
        BY <2>0, <2>1, <1>0 DEF Garbage, Zero, Attempts
      <4> QED BY <4>1, <4>2, <3>5
    <3>7. \A e \in Devices :
            device[e].n # 0 /\ h = device[e].n => device[e].pin \in entered
      <4>1. \A e \in Devices : device[e].n \in Nat
        BY <1>0 DEF Attempts
      <4> QED BY <3>6, <2>1, <4>1 DEF Garbage
    <3>8. /\ http \in Https
          /\ http.at # "idle" => /\ http.cert \in Devices
                                 /\ device[http.cert].pin \in entered
      BY DEF IInv, TypeOK, Https, PairedByItsPin
    <3> HIDE DEF t, h
    <3>9. /\ device' \in [Devices -> Attempts]
          /\ \A e \in Devices : /\ device'[e].n = device[e].n
                                /\ device'[e].pin = device[e].pin
                                /\ device'[e].at # "idle" => device[e].n # 0
      BY <3>2, <2>1, Moves DEF Places
    <3>10. s.held # None => uid[s.held] = i /\ device[s.held].n # 0
      BY <3>1, <2>0 DEF IInv, HeldWaits
    <3> HIDE DEF i, s
    <3> QED BY <3>2, <3>3, <3>4, <3>5, <3>7, <3>8, <3>9, <3>10, <2>0,
               SessionGoesOn
  <2>3. CASE ~InOrder(d, "CLIENTCHALLENGE")
    BY <1>5, <2>3, Fails DEF ServerChallengeResp
  <2> QED BY <2>2, <2>3
<1>6. ASSUME NEW d \in Devices, ClientPairingSecret(d) PROVE IInv'
  <2>1. CASE InOrder(d, "SERVERCHALLENGERESP") /\ SameHash(d)
    <3>1. /\ http' \in Https /\ http'.cert = d
          /\ UNCHANGED <<uid, map_id_sess, device, attempts, entered>>
      BY <1>6, <2>1 DEF ClientPairingSecret, Idle, Https
    <3>2. device[d].at # "idle" /\ uid[d] \in Ids
      BY <1>0, <1>6 DEF ClientPairingSecret, Request
    <3>3. device[d].n # 0
      BY <3>2 DEF IInv, AttemptsDiffer
    <3>4. map_id_sess[uid[d]] # None
      BY <2>1 DEF InOrder
    <3>5. map_id_sess[uid[d]].hash = device[d].n
      BY <2>1 DEF SameHash
    <3>6. device[d].pin \in entered
      BY <3>2, <3>3, <3>4, <3>5 DEF IInv, HashesAreEarned
    <3> QED BY <3>1, <3>6, Aside
  <2>2. CASE ~(InOrder(d, "SERVERCHALLENGERESP") /\ SameHash(d))
    BY <1>6, <2>2, Fails DEF ClientPairingSecret
  <2> QED BY <2>1, <2>2
<1>7. ASSUME RaiseCert \/ AppendDevice \/ SavePaired PROVE IInv'
  <2>0. http \in Https
    BY DEF IInv, TypeOK
  <2>1. /\ http' \in Https
        /\ http.at # "idle" /\ http'.cert = http.cert
        /\ UNCHANGED <<uid, map_id_sess, device, attempts, entered>>
    BY <1>7, <2>0 DEF RaiseCert, AppendDevice, SavePaired, Https
  <2>2. http.cert \in Devices /\ device[http.cert].pin \in entered
    BY <2>0, <2>1 DEF IInv, TypeOK, PairedByItsPin, Https
  <2> QED BY <2>1, <2>2, Aside
<1>8. ASSUME AnswerPaired PROVE IInv'
  <2> DEFINE d == http.cert
  <2>1. /\ d \in Devices
        /\ http' \in Https /\ http'.at = "idle"
        /\ UNCHANGED <<uid, attempts, entered>>
        /\ map_id_sess' = [map_id_sess EXCEPT ![uid[d]] = None]
        /\ At(d, "idle")
    BY <1>8 DEF AnswerPaired, Idle, IInv, TypeOK, Https
  <2> HIDE DEF d
  <2> QED BY <2>1, Gone
<1>9. ASSUME \/ TakeCerts \/ UnpairSaves \/ UnpairReads \/ UnpairInstalls
             \/ EraseAll \/ SaveOnly \/ UNCHANGED vars
             \/ \E uuid \in 1 .. uuids :
                  \/ UnpairErases(uuid)
                  \/ \E enabled \in BOOLEAN : SetEnabled(uuid, enabled)
      PROVE  IInv'
  <2>1. UNCHANGED <<uid, map_id_sess, device, attempts, entered, http>>
    BY <1>9
    DEF TakeCerts, UnpairSaves, UnpairReads, UnpairInstalls, EraseAll,
        SaveOnly, UnpairErases, SetEnabled, vars
  <2>2. http.at # "idle" => /\ http.cert \in Devices
                            /\ device[http.cert].pin \in entered
    BY DEF IInv, TypeOK, Https, PairedByItsPin
  <2> QED BY <2>1, <2>2, Aside DEF IInv, TypeOK
<1>10. ASSUME Restart PROVE IInv'
  <2>1. /\ UNCHANGED <<uid, attempts, entered>>
        /\ map_id_sess' = [i \in Ids |-> None]
        /\ device' = [d \in Devices |-> NotPairing]
        /\ http' \in Https /\ http'.at = "idle"
    BY <1>10 DEF Restart, Idle, Https
  <2>2. /\ NotPairing \in Attempts
        /\ NotPairing.n = 0 /\ NotPairing.at = "idle"
    BY DEF NotPairing, Attempts, Places, Garbage
  <2> QED BY <2>1, <2>2, Afresh DEF IInv, TypeOK
<1> QED BY <1>1, <1>2, <1>3, <1>4, <1>5, <1>6, <1>7, <1>8, <1>9, <1>10 DEF Next

LEMMA InitIInv ==
  ASSUME Init
  PROVE  IInv
<1>1. /\ http \in Https /\ http.at = "idle"
      /\ NotPairing.n = 0 /\ NotPairing.at = "idle"
      /\ NotPairing \in Attempts
  BY DEF Init, Idle, NotPairing, Attempts, Places, Garbage, Https
<1>2. /\ uid \in [Devices -> Ids]
      /\ map_id_sess = [i \in Ids |-> None]
      /\ device = [d \in Devices |-> NotPairing]
      /\ attempts = 0
  BY DEF Init
<1> QED BY <1>1, <1>2
    DEF IInv, TypeOK, AttemptsDiffer, HashesAreEarned, HeldWaits,
        PairedByItsPin

(* Every state has what the invariant says: attempts differ, hashes are    *)
(* earned, and requests wait in sessions of their own id.                  *)
THEOREM PairingInvariant ==
  ASSUME None \notin Sessions, None \notin Devices, None \notin Int
  PROVE  Spec => []IInv
<1>1. Init => IInv
  BY InitIInv
<1>2. IInv /\ [Next]_vars => IInv'
  BY NextIInv
<1> QED BY <1>1, <1>2, PTL DEF Spec

(* Who is authorised at the end of a pairing has shown the PIN that was    *)
(* entered for it, whatever other devices, retries, users and restarts do  *)
(* in between (clientpairingsecret: same_hash && verify).                  *)
THEOREM PairedByPin ==
  ASSUME None \notin Sessions, None \notin Devices, None \notin Int
  PROVE  Spec => []PairedByItsPin
<1>1. IInv => PairedByItsPin
  BY DEF IInv
<1>2. Spec => []IInv
  BY PairingInvariant
<1> QED BY <1>1, <1>2, PTL

-----------------------------------------------------------------------------
(* The list of clients.                                                    *)

LEMMA NoEntries ==
  /\ Certs(<<>>) = {}
  /\ \A given : IsList(<<>>, given)
  /\ \A S : <<>> \in Seq(S)
<1>1. DOMAIN <<>> = {} /\ \A S : <<>> \in Seq(S)
  OBVIOUS
<1>2. Certs(<<>>) = {}
  BY <1>1 DEF Certs
<1>3. \A given : IsList(<<>>, given)
  BY <1>1 DEF IsList
<1> QED BY <1>1, <1>2, <1>3

(* A new entry, and an entry that goes.                                    *)
LEMMA NewEntry ==
  ASSUME NEW list \in Seq(Entries), NEW e \in Entries
  PROVE  /\ Append(list, e) \in Seq(Entries)
         /\ DOMAIN Append(list, e) = 1 .. Len(list) + 1
         /\ \A k \in DOMAIN list : Append(list, e)[k] = list[k]
         /\ Append(list, e)[Len(list) + 1] = e
         /\ Certs(Append(list, e)) = Certs(list) \cup {e.cert}
<1>1. /\ Append(list, e) \in Seq(Entries)
      /\ DOMAIN Append(list, e) = 1 .. Len(list) + 1
      /\ DOMAIN list = 1 .. Len(list)
      /\ \A k \in DOMAIN list : Append(list, e)[k] = list[k]
      /\ Append(list, e)[Len(list) + 1] = e
      /\ Len(list) \in Nat
  OBVIOUS
<1>2. Certs(Append(list, e)) \subseteq Certs(list) \cup {e.cert}
  BY <1>1 DEF Certs
<1>3. Certs(list) \cup {e.cert} \subseteq Certs(Append(list, e))
  BY <1>1 DEF Certs
<1> QED BY <1>1, <1>2, <1>3

LEMMA LongerList ==
  ASSUME NEW given \in Nat, NEW list, IsList(list, given),
         NEW e \in Entries, e.uuid = given + 1
  PROVE  IsList(Append(list, e), given + 1)
<1> DEFINE longer == Append(list, e)
<1>1. /\ list \in Seq(Entries)
      /\ DOMAIN list = 1 .. Len(list) /\ Len(list) \in Nat
      /\ \A k \in DOMAIN list : list[k] \in Entries
  BY DEF IsList
<1>2. \A k \in DOMAIN list : /\ list[k].uuid \in Nat
                             /\ list[k].uuid <= given
  BY <1>1 DEF Entries, IsList
<1>3. /\ longer \in Seq(Entries)
      /\ DOMAIN longer = 1 .. Len(list) + 1
      /\ \A k \in DOMAIN list : longer[k] = list[k]
      /\ longer[Len(list) + 1] = e
  BY <1>1, NewEntry
<1> HIDE DEF longer
<1>4. \A k \in DOMAIN longer : longer[k].uuid <= given + 1
  BY <1>1, <1>2, <1>3
<1>5. \A j, k \in DOMAIN longer : longer[j].uuid = longer[k].uuid => j = k
  BY <1>1, <1>2, <1>3 DEF IsList
<1> QED BY <1>3, <1>4, <1>5 DEF IsList, longer

LEMMA MoreUuids ==
  ASSUME NEW given \in Nat, NEW list, IsList(list, given)
  PROVE  IsList(list, given + 1)
<1>1. \A k \in DOMAIN list : /\ list[k].uuid \in Nat
                             /\ list[k].uuid <= given
  <2>1. list \in Seq(Entries) /\ \A k \in DOMAIN list : list[k] \in Entries
    BY DEF IsList
  <2> QED BY <2>1 DEF Entries, IsList
<1> QED BY <1>1 DEF IsList

LEMMA EntryGoes ==
  ASSUME NEW given, NEW list, IsList(list, given), NEW uuid
  PROVE  /\ IsList(Without(list, uuid), given)
         /\ Certs(Without(list, uuid)) \subseteq Certs(list)
<1>1. CASE ~\E k \in DOMAIN list : list[k].uuid = uuid
  BY <1>1 DEF Without
<1>2. CASE \E k \in DOMAIN list : list[k].uuid = uuid
  <2> DEFINE p == CHOOSE k \in DOMAIN list : list[k].uuid = uuid
             a == SubSeq(list, 1, p - 1)
             b == SubSeq(list, p + 1, Len(list))
             r == RemoveAt(list, p)
  <2>1. list \in Seq(Entries) /\ p \in 1 .. Len(list) /\ Len(list) \in Nat
    BY <1>2 DEF IsList
  <2> HIDE DEF p
  <2>2. /\ r \in Seq(Entries)
        /\ Len(r) = Len(list) - 1
        /\ \A k \in 1 .. Len(list) - 1 :
             r[k] = IF k < p THEN list[k] ELSE list[k + 1]
    <3>1. /\ a \in Seq(Entries) /\ Len(a) = p - 1
          /\ \A k \in 1 .. p - 1 : a[k] = list[k]
      BY <2>1
    <3>2. /\ b \in Seq(Entries) /\ Len(b) = Len(list) - p
          /\ \A k \in 1 .. Len(list) - p : b[k] = list[p + k]
      BY <2>1
    <3>3. r = a \o b
      BY DEF RemoveAt
    <3> HIDE DEF a, b, r
    <3>4. r \in Seq(Entries) /\ Len(r) = Len(list) - 1
      BY <2>1, <3>1, <3>2, <3>3
    <3>5. ASSUME NEW k \in 1 .. Len(list) - 1
          PROVE  r[k] = IF k < p THEN list[k] ELSE list[k + 1]
      <4>1. CASE k < p
        BY <4>1, <2>1, <3>1, <3>2, <3>3
      <4>2. CASE k >= p
        <5>1. r[k] = b[k - (p - 1)] /\ k - (p - 1) \in 1 .. Len(list) - p
          BY <4>2, <2>1, <3>1, <3>2, <3>3
        <5>2. b[k - (p - 1)] = list[p + (k - (p - 1))]
          BY <5>1, <3>2
        <5> QED BY <5>1, <5>2, <4>2, <2>1
      <4> QED BY <4>1, <4>2, <2>1
    <3> QED BY <3>4, <3>5
  <2> HIDE DEF r
  <2>3. \A k \in DOMAIN r : \E j \in DOMAIN list :
          r[k] = list[j] /\ j = (IF k < p THEN k ELSE k + 1)
    BY <2>1, <2>2
  <2>4. IsList(r, given)
    BY <2>1, <2>2, <2>3 DEF IsList
  <2>5. Certs(r) \subseteq Certs(list)
    BY <2>3 DEF Certs
  <2> QED BY <1>2, <2>4, <2>5 DEF Without, r, p
<1> QED BY <1>1, <1>2

(* A client that is enabled or disabled is the same client.                *)
LEMMA SameEntry ==
  ASSUME NEW given, NEW list, IsList(list, given), NEW k \in DOMAIN list,
         NEW enabled \in BOOLEAN
  PROVE  LET new == [list EXCEPT ![k].enabled = enabled]
         IN IsList(new, given) /\ Certs(new) = Certs(list)
<1> DEFINE new == [list EXCEPT ![k].enabled = enabled]
           e == [list[k] EXCEPT !.enabled = enabled]
<1>1. /\ list \in Seq(Entries) /\ list[k] \in Entries
      /\ DOMAIN list = 1 .. Len(list) /\ Len(list) \in Nat
  BY DEF IsList
<1>2. e \in Entries /\ e.uuid = list[k].uuid /\ e.cert = list[k].cert
  BY <1>1 DEF Entries
<1>3. new = [list EXCEPT ![k] = e]
  OBVIOUS
<1> HIDE DEF new, e
<1>4. /\ new \in Seq(Entries) /\ DOMAIN new = DOMAIN list
      /\ \A j \in DOMAIN list : new[j] = IF j = k THEN e ELSE list[j]
  BY <1>1, <1>2, <1>3
<1>5. \A j \in DOMAIN list : /\ new[j].uuid = list[j].uuid
                             /\ new[j].cert = list[j].cert
  BY <1>2, <1>4
<1>6. IsList(new, given)
  BY <1>4, <1>5 DEF IsList
<1>7. Certs(new) = Certs(list)
  BY <1>4, <1>5 DEF Certs
<1> QED BY <1>6, <1>7 DEF new

(* A state file that is written has the list as it is.                     *)
LEMMA Saved ==
  ASSUME ListIInv, None \notin Seq(Entries), save_state,
         UNCHANGED <<named_devices, uuids, add_cert, cert_chain, told,
                     dropped>>,
         admin' \in AdminSteps,
         admin'.at = "install" => admin' = admin /\ http.at = "save",
         http'.at = "append" => http' = http
  PROVE  ListIInv'
<1> USE DEF ListIInv
<1>1. ListsOK'
  BY DEF ListsOK, save_state
<1>2. CASE spoiled'
  BY <1>1, <1>2
<1>3. CASE ~spoiled'
  <2>1. ~spoiled /\ file' = named_devices /\ file' # None
    BY <1>3 DEF save_state, ListsOK, IsList
  <2>2. Certs(named_devices)' = Certs(named_devices)
    OBVIOUS
  <2>3. FileCerts' = Certs(named_devices)
    BY <2>1 DEF FileCerts
  <2>4. CertsAreKnown'
    BY <2>1, <2>2 DEF CertsAreKnown, Queued
  <2>5. FileFollows'
    BY <2>1, <2>2, <2>3 DEF FileFollows
  <2>6. ToldAreListed'
    BY <2>1, <2>2, <2>3 DEF ToldAreListed
  <2> QED BY <1>1, <2>4, <2>5, <2>6
<1> QED BY <1>2, <1>3

(* What leaves the lists alone, and no certificate to be listed.           *)
LEMMA ListsAside ==
  ASSUME ListIInv,
         UNCHANGED <<named_devices, uuids, add_cert, cert_chain, file, admin,
                     told, dropped, spoiled>>,
         http' = http \/ (/\ http.at \notin {"append", "save"}
                          /\ http'.at \notin {"append", "save"})
  PROVE  ListIInv'
<1> USE DEF ListIInv
<1>1. ListsOK'
  BY DEF ListsOK
<1>2. CertsAreKnown => CertsAreKnown'
  BY DEF CertsAreKnown, Queued
<1>3. FileFollows => FileFollows'
  BY DEF FileFollows, FileCerts
<1>4. ToldAreListed => ToldAreListed'
  BY DEF ToldAreListed, FileCerts
<1> QED BY <1>1, <1>2, <1>3, <1>4

(* No step breaks it.                                                      *)
LEMMA NextListIInv ==
  ASSUME None \notin Seq(Entries), IInv, ListIInv, [Next]_vars
  PROVE  ListIInv'
<1> USE DEF ListIInv
<1>0. http \in Https /\ (http.at # "idle" => http.cert \in Devices)
  BY DEF IInv, TypeOK
<1>1. ASSUME \/ \E d \in Devices, salt \in BOOLEAN : AutoPair(d, salt)
             \/ \E i \in Ids, p \in {Garbage} \cup Shown, salt \in BOOLEAN :
                  Pin(i, p, salt)
             \/ \E d \in Devices :
                  \/ GetServerCert(d)
                  \/ ClientChallenge(d) \/ ServerChallengeResp(d)
                  \/ ClientPairingSecret(d)
             \/ UNCHANGED vars
      PROVE  ListIInv'
  BY <1>1, ListsAside
  DEF AutoPair, Pin, GetServerCert, ClientChallenge, ServerChallengeResp,
      ClientPairingSecret, Request, Idle, vars
<1>2. ASSUME RaiseCert PROVE ListIInv'
  <2>1. /\ http.cert \in Devices /\ http.at = "raise"
        /\ http'.at = "append" /\ http'.cert = http.cert
        /\ add_cert \in Seq(Devices)
    BY <1>0, <1>2 DEF RaiseCert, Https, ListsOK
  <2>2. /\ add_cert' \in Seq(Devices)
        /\ Queued \cup dropped \cup {http.cert} = Queued' \cup dropped'
    <3>1. CASE Len(add_cert) >= MaxQueued
      BY <3>1, <2>1, <1>2 DEF RaiseCert, Queued
    <3>2. CASE ~(Len(add_cert) >= MaxQueued)
      <4>1. add_cert' = Append(add_cert, http.cert) /\ dropped' = dropped
        BY <3>2, <1>2 DEF RaiseCert
      <4>2. /\ DOMAIN add_cert' = 1 .. Len(add_cert) + 1
            /\ DOMAIN add_cert = 1 .. Len(add_cert) /\ Len(add_cert) \in Nat
            /\ \A k \in DOMAIN add_cert : add_cert'[k] = add_cert[k]
            /\ add_cert'[Len(add_cert) + 1] = http.cert
        BY <2>1, <4>1
      <4>3. Queued' = Queued \cup {http.cert}
        BY <4>2 DEF Queued
      <4> QED BY <2>1, <4>1, <4>3
    <3> QED BY <3>1, <3>2
  <2>3. UNCHANGED <<named_devices, uuids, cert_chain, file, admin, told,
                    spoiled>>
    BY <1>2 DEF RaiseCert
  <2>4. ListsOK'
    BY <2>2, <2>3 DEF ListsOK
  <2>5. CertsAreKnown => CertsAreKnown'
    BY <2>1, <2>2, <2>3 DEF CertsAreKnown
  <2>6. FileFollows => FileFollows'
    BY <2>1, <2>3 DEF FileFollows, FileCerts
  <2>7. ToldAreListed => ToldAreListed'
    BY <2>3 DEF ToldAreListed, FileCerts
  <2> QED BY <2>3, <2>4, <2>5, <2>6, <2>7
<1>3. ASSUME AppendDevice PROVE ListIInv'
  <2> DEFINE e == [uuid |-> uuids + 1, cert |-> http.cert, enabled |-> TRUE]
  <2>1. /\ http.cert \in Devices /\ http.at = "append"
        /\ http'.at = "save" /\ http'.cert = http.cert
        /\ named_devices \in Seq(Entries) /\ uuids \in Nat
    BY <1>0, <1>3 DEF AppendDevice, Https, ListsOK, IsList
  <2>2. /\ uuids' = uuids + 1
        /\ named_devices' = Append(named_devices, e)
        /\ UNCHANGED <<add_cert, cert_chain, file, admin, told, dropped>>
        /\ spoiled' = (spoiled \/ admin.at = "install")
    BY <1>3 DEF AppendDevice
  <2>3. e \in Entries /\ e.uuid = uuids + 1 /\ e.cert = http.cert
    BY <2>1 DEF Entries
  <2> HIDE DEF e
  <2>4. Certs(named_devices)' = Certs(named_devices) \cup {http.cert}
    BY <2>1, <2>2, <2>3, NewEntry
  <2>5. /\ IsList(named_devices', uuids')
        /\ file # None => IsList(file, uuids')
        /\ admin.at = "install" => IsList(admin.read, uuids')
    BY <2>1, <2>2, <2>3, LongerList, MoreUuids DEF ListsOK
  <2>6. ListsOK'
    BY <2>1, <2>2, <2>5 DEF ListsOK
  <2>7. CertsAreKnown => CertsAreKnown'
    BY <2>1, <2>2, <2>4 DEF CertsAreKnown, Queued
  <2>8. FileFollows /\ admin.at # "install" => FileFollows'
    BY <2>1, <2>2, <2>4 DEF FileFollows, FileCerts
  <2>9. ToldAreListed => ToldAreListed'
    BY <2>2, <2>4 DEF ToldAreListed, FileCerts
  <2> QED BY <2>2, <2>6, <2>7, <2>8, <2>9
<1>4. ASSUME SavePaired \/ UnpairSaves \/ SaveOnly PROVE ListIInv'
  <2>1. /\ save_state
        /\ UNCHANGED <<named_devices, uuids, add_cert, cert_chain, told,
                       dropped>>
    BY <1>4 DEF SavePaired, UnpairSaves, SaveOnly
  <2>2. /\ admin' \in AdminSteps
        /\ admin'.at = "install" => admin' = admin /\ http.at = "save"
        /\ http'.at = "append" => http' = http
    <3>1. admin \in AdminSteps
      BY DEF ListsOK
    <3>2. CASE SavePaired
      BY <1>0, <3>1, <3>2 DEF SavePaired, Https
    <3>3. CASE UnpairSaves
      <4>1. admin' = [admin EXCEPT !.at = "read"] /\ UNCHANGED http
        BY <3>3 DEF UnpairSaves
      <4>2. admin' \in AdminSteps /\ admin'.at = "read"
        BY <4>1, <3>1 DEF AdminSteps
      <4> QED BY <4>1, <4>2
    <3>4. CASE SaveOnly
      BY <3>4 DEF SaveOnly, Idle, AdminSteps
    <3> QED BY <1>4, <3>2, <3>3, <3>4
  <2> QED BY <2>1, <2>2, Saved
<1>5. ASSUME AnswerPaired PROVE ListIInv'
  <2>1. /\ http.at = "answer" /\ http'.at = "idle"
        /\ told' \subseteq told \cup Certs(named_devices)
        /\ UNCHANGED <<named_devices, uuids, add_cert, cert_chain, file,
                       admin, dropped, spoiled>>
    BY <1>5 DEF AnswerPaired, Idle
  <2>2. ListsOK'
    BY <2>1 DEF ListsOK
  <2>3. CertsAreKnown => CertsAreKnown'
    BY <2>1 DEF CertsAreKnown, Queued
  <2>4. FileFollows => FileFollows'
    BY <2>1 DEF FileFollows, FileCerts
  <2>5. FileFollows /\ ToldAreListed => ToldAreListed'
    BY <2>1 DEF ToldAreListed, FileFollows, FileCerts
  <2> QED BY <2>1, <2>2, <2>3, <2>4, <2>5
<1>6. ASSUME TakeCerts PROVE ListIInv'
  <2>1. /\ cert_chain' = cert_chain \cup Queued
        /\ add_cert' = <<>>
        /\ UNCHANGED <<named_devices, uuids, file, http, admin, told,
                       dropped, spoiled>>
    BY <1>6 DEF TakeCerts, Queued
  <2>2. ListsOK'
    BY <2>1, NoEntries DEF ListsOK
  <2>3. CertsAreKnown => CertsAreKnown'
    BY <2>1 DEF CertsAreKnown
  <2>4. FileFollows => FileFollows'
    BY <2>1 DEF FileFollows, FileCerts
  <2>5. ToldAreListed => ToldAreListed'
    BY <2>1 DEF ToldAreListed, FileCerts
  <2> QED BY <2>1, <2>2, <2>3, <2>4, <2>5
<1>7. ASSUME NEW uuid \in 1 .. uuids, UnpairErases(uuid) PROVE ListIInv'
  <2>1. /\ admin.at = "idle" /\ admin'.at = "save"
        /\ named_devices' = Without(named_devices, uuid)
        /\ told' = told \ (Certs(named_devices) \ Certs(named_devices'))
        /\ UNCHANGED <<uuids, add_cert, cert_chain, file, http, dropped,
                       spoiled>>
    BY <1>7 DEF UnpairErases, Idle
  <2>2. /\ IsList(named_devices', uuids)
        /\ Certs(named_devices)' \subseteq Certs(named_devices)
    BY <2>1, EntryGoes DEF ListsOK
  <2>3. admin' \in AdminSteps
    <3>1. uuid \in Nat
      BY DEF ListsOK
    <3> QED BY <1>7, <3>1 DEF UnpairErases, Idle, AdminSteps
  <2>4. ListsOK'
    BY <2>1, <2>2, <2>3 DEF ListsOK
  <2>5. CertsAreKnown => CertsAreKnown'
    BY <2>1, <2>2 DEF CertsAreKnown, Queued
  <2>6. FileFollows => FileFollows'
    BY <2>1, <2>2 DEF FileFollows, FileCerts
  <2>7. ToldAreListed => ToldAreListed'
    BY <2>1, <2>2 DEF ToldAreListed, FileCerts
  <2> QED BY <2>1, <2>4, <2>5, <2>6, <2>7
<1>8. ASSUME UnpairReads PROVE ListIInv'
  <2>1. admin.at = "read" /\ admin \in AdminSteps
    BY <1>8 DEF UnpairReads, ListsOK
  <2>2. file # None => file \in Seq(Entries)
    BY DEF ListsOK, IsList
  <2>3. /\ admin' \in AdminSteps
        /\ IF file = None THEN admin'.at = "idle"
           ELSE admin'.at = "install" /\ admin'.read = file
    <3>1. CASE file = None
      <4>1. admin' = Idle
        BY <1>8, <3>1 DEF UnpairReads
      <4>2. Idle \in AdminSteps /\ Idle.at = "idle"
        BY DEF Idle, AdminSteps
      <4> QED BY <3>1, <4>1, <4>2
    <3>2. CASE file # None
      <4>1. admin' = [admin EXCEPT !.at = "install", !.read = file]
        BY <1>8, <3>2 DEF UnpairReads
      <4> QED BY <3>2, <4>1, <2>1, <2>2 DEF AdminSteps
    <3> QED BY <3>1, <3>2
  <2>4. /\ spoiled' = (spoiled \/ http.at = "save")
        /\ UNCHANGED <<uuids, add_cert, http, named_devices, cert_chain,
                       file, told, dropped>>
    BY <1>8 DEF UnpairReads
  <2>5. ListsOK'
    BY <2>3, <2>4 DEF ListsOK
  <2>6. CertsAreKnown => CertsAreKnown'
    BY <2>4 DEF CertsAreKnown, Queued
  <2>7. FileFollows /\ http.at # "save" => FileFollows'
    BY <2>1, <2>3, <2>4 DEF FileFollows, FileCerts
  <2>8. ToldAreListed => ToldAreListed'
    BY <2>4 DEF ToldAreListed, FileCerts
  <2> QED BY <2>4, <2>5, <2>6, <2>7, <2>8
<1>9. ASSUME UnpairInstalls PROVE ListIInv'
  <2>1. /\ admin.at = "install"
        /\ admin'.at = "idle" /\ admin' \in AdminSteps
        /\ named_devices' = admin.read
        /\ cert_chain' = Certs(admin.read)
        /\ spoiled' = (spoiled \/ http.at = "append")
        /\ UNCHANGED <<uuids, add_cert, http, file, told, dropped>>
    BY <1>9 DEF UnpairInstalls, Idle, AdminSteps
  <2>2. ListsOK'
    BY <2>1 DEF ListsOK
  <2>3. http.at # "append" => CertsAreKnown'
    BY <2>1 DEF CertsAreKnown
  <2>4. FileFollows => named_devices' = named_devices /\ FileFollows'
    BY <2>1 DEF FileFollows, FileCerts
  <2>5. FileFollows /\ ToldAreListed => ToldAreListed'
    BY <2>1, <2>4 DEF ToldAreListed, FileCerts
  <2> QED BY <2>1, <2>2, <2>3, <2>4, <2>5
<1>10. ASSUME EraseAll PROVE ListIInv'
  <2>1. /\ admin.at = "idle"
        /\ admin'.at = "save only" /\ admin' \in AdminSteps
        /\ named_devices' = <<>> /\ cert_chain' = {} /\ told' = {}
        /\ spoiled' = (spoiled \/ http.at = "append")
        /\ UNCHANGED <<uuids, add_cert, http, file, dropped>>
    BY <1>10 DEF EraseAll, Idle, AdminSteps
  <2>2. Certs(named_devices)' = {}
    BY <2>1, NoEntries
  <2>3. ListsOK'
    BY <2>1, NoEntries DEF ListsOK
  <2>4. http.at # "append" => CertsAreKnown'
    BY <2>1, <2>2 DEF CertsAreKnown
  <2>5. FileFollows'
    BY <2>1, <2>2 DEF FileFollows
  <2>6. ToldAreListed'
    BY <2>1 DEF ToldAreListed
  <2> QED BY <2>1, <2>3, <2>4, <2>5, <2>6
<1>11. ASSUME NEW uuid \in 1 .. uuids, NEW enabled \in BOOLEAN,
              SetEnabled(uuid, enabled)
       PROVE  ListIInv'
  <2>1. PICK k \in DOMAIN named_devices :
          named_devices' = [named_devices EXCEPT ![k].enabled = enabled]
    BY <1>11 DEF SetEnabled
  <2>2. /\ admin.at = "idle"
        /\ admin'.at = "save only" /\ admin' \in AdminSteps
        /\ UNCHANGED <<uuids, add_cert, cert_chain, file, http, told,
                       dropped, spoiled>>
    BY <1>11 DEF SetEnabled, Idle, AdminSteps
  <2>3. IsList(named_devices, uuids)
    BY DEF ListsOK
  <2>4. /\ IsList(named_devices', uuids)
        /\ Certs(named_devices)' = Certs(named_devices)
    BY <2>1, <2>3, SameEntry
  <2>5. ListsOK'
    BY <2>2, <2>4 DEF ListsOK
  <2>6. CertsAreKnown => CertsAreKnown'
    BY <2>2, <2>4 DEF CertsAreKnown, Queued
  <2>7. FileFollows => FileFollows'
    BY <2>2, <2>4 DEF FileFollows, FileCerts
  <2>8. ToldAreListed => ToldAreListed'
    BY <2>2, <2>4 DEF ToldAreListed, FileCerts
  <2> QED BY <2>2, <2>5, <2>6, <2>7, <2>8
<1>12. ASSUME Restart PROVE ListIInv'
  <2>1. /\ named_devices' = (IF file = None THEN <<>> ELSE file)
        /\ cert_chain' = Certs(named_devices')
        /\ add_cert' = <<>> /\ dropped' = {}
        /\ http'.at = "idle"
        /\ admin'.at = "idle" /\ admin' \in AdminSteps
        /\ UNCHANGED <<uuids, file, told, spoiled>>
    BY <1>12 DEF Restart, Idle, AdminSteps
  <2>2. Certs(named_devices)' = FileCerts
    BY <2>1, NoEntries DEF FileCerts
  <2>3. ListsOK'
    BY <2>1, NoEntries DEF ListsOK
  <2>4. CertsAreKnown'
    BY <2>1 DEF CertsAreKnown
  <2>5. FileFollows'
    BY <2>1, <2>2 DEF FileFollows, FileCerts
  <2>6. ToldAreListed => ToldAreListed'
    BY <2>1, <2>2 DEF ToldAreListed, FileCerts
  <2> QED BY <2>1, <2>3, <2>4, <2>5, <2>6
<1> QED BY <1>1, <1>2, <1>3, <1>4, <1>5, <1>6, <1>7, <1>8, <1>9, <1>10,
           <1>11, <1>12 DEF Next

LEMMA InitListIInv ==
  ASSUME Init
  PROVE  ListIInv
<1>1. Idle \in AdminSteps /\ Idle.at = "idle"
  BY DEF Idle, AdminSteps
<1> QED BY <1>1, NoEntries
    DEF Init, ListIInv, ListsOK, CertsAreKnown, FileFollows, ToldAreListed,
        FileCerts

(* The list of clients, its file, what clients were told and whose         *)
(* certificates are let in stay one thing, for any number of clients,      *)
(* whatever is between the steps of a pairing, of the web interface and of *)
(* the HTTPS thread, and after a restart (save_state, load_state,          *)
(* add_cert).                                                              *)
THEOREM ClientsKept ==
  ASSUME None \notin Sessions, None \notin Devices, None \notin Int,
         None \notin Seq(Entries)
  PROVE  Spec => []ClientListIsKept
<1>1. Init => ListIInv
  BY InitListIInv
<1>2. IInv /\ ListIInv /\ [Next]_vars => ListIInv'
  BY NextListIInv
<1>3. Spec => []IInv
  BY PairingInvariant
<1>4. ListIInv => ClientListIsKept
  BY DEF ListIInv, ListsOK, CertsAreKnown, FileFollows, ToldAreListed,
         FileCerts, Queued, ClientListIsKept, ToldAreStored, ListedAreLetIn,
         Verified
<1> QED BY <1>1, <1>2, <1>3, <1>4, PTL DEF Spec
=============================================================================
