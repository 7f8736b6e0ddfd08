------------------------------ MODULE Pairing -------------------------------
(***************************************************************************)
(* Pairing (src/nvhttp.cpp): the four requests by which a client pairs, on *)
(* the thread of the HTTP server; the PIN a user enters, and what else the *)
(* web interface does to paired clients, on a thread of its own; and the   *)
(* check of a connection's certificate on the HTTPS server's thread.       *)
(*                                                                         *)
(* A handler is one step, except for those that write the state file: the  *)
(* three threads share client_root and the file without a lock, and the    *)
(* host may go down between two of their calls. The flag FRESH_STATE and   *)
(* the old format of the file are left out; what a client computes counts  *)
(* only as right or wrong.                                                 *)
(***************************************************************************)
EXTENDS Integers, Sequences, SequencesExt

CONSTANTS
  Devices,     \* what pairs, each with a certificate of its own
  Ids,         \* the unique ids they send: two may send the same
  None,
  MaxQueued,   \* of add_cert; 30 in the code
  MaxAttempts, \* bound: how often a device begins to pair
  MaxUuids     \* bound: how many named_devices are ever made

VARIABLES
  uid,          \* the id that a device sends
  map_id_sess,  \* pairings in progress, or None, by unique id
  device,       \* external: where a device is with its attempt
  attempts,     \* how many attempts there were
  named_devices,\* client_root: the clients that are paired
  uuids,        \* how many uuids there were
  add_cert,     \* certificates on their way to the HTTPS thread
  cert_chain,   \* certificates that connections are checked against
  file,         \* named_devices as the file has them, or None
  http,         \* the HTTP thread at the end of a pairing
  admin,        \* the web interface's thread among saves and loads
  entered,      \* history: the PINs that a pairing was given
  told,         \* history: devices that have heard that they are paired, and
                \* were not unpaired before or since
  dropped,      \* history: certificates that add_cert was too full for
  spoiled       \* history: a write failed, or what the web interface does
                \* crossed the end of a pairing

vars == <<uid, map_id_sess, device, attempts, named_devices, uuids, add_cert,
          cert_chain, file, http, admin, entered, told, dropped, spoiled>>
listVars == <<named_devices, uuids, add_cert, cert_chain, file, http, told,
              dropped, spoiled>>

Zero == 0        \* the PIN of clients in a trusted subnet
Garbage == -1    \* a PIN that no device shows; a hash of something else

(* pair_session_t: challenge is the attempt that the challenge was for,    *)
(* hash the attempt whose answer it is, and held the device whose request  *)
(* waits for the PIN.                                                      *)
NewSession(d, waits) ==
  [last_phase |-> "NONE", cipher_key |-> None, challenge |-> 0, hash |-> 0,
   cert |-> d, held |-> IF waits THEN d ELSE None]

Idle == [at |-> "idle", uuid |-> 0, cert |-> None, read |-> None]
Shown == {device[d].pin : d \in Devices}
NotPairing == [at |-> "idle", n |-> 0, pin |-> Garbage]

Init ==
  /\ uid \in [Devices -> Ids]
  /\ map_id_sess = [i \in Ids |-> None]
  /\ device = [d \in Devices |-> NotPairing] /\ attempts = 0
  /\ named_devices = <<>> /\ uuids = 0
  /\ add_cert = <<>> /\ cert_chain = {} /\ file = None
  /\ http = Idle /\ admin = Idle
  /\ entered = {} /\ told = {} /\ dropped = {} /\ spoiled = FALSE

-----------------------------------------------------------------------------
Certs(list) == {list[k].cert : k \in DOMAIN list}

(* The loop of unpair_client; no two entries have the same uuid.           *)
Without(list, uuid) ==
  IF \E k \in DOMAIN list : list[k].uuid = uuid
  THEN RemoveAt(list, CHOOSE k \in DOMAIN list : list[k].uuid = uuid)
  ELSE list

(* The first entry with the certificate decides; one that is not listed is *)
(* enabled.                                                                *)
is_client_enabled(cert) ==
  \A k \in DOMAIN named_devices :
    (/\ named_devices[k].cert = cert
     /\ \A j \in 1 .. k - 1 : named_devices[j].cert # cert)
    => named_devices[k].enabled

(* The write may fail, which only the log tells.                           *)
save_state ==
  \/ file' = named_devices /\ UNCHANGED spoiled
  \/ UNCHANGED file /\ spoiled' = TRUE

(* getservercert with a session s whose salt may be a bad one: what        *)
(* becomes of the session, or None for one that has failed and is removed. *)
getservercert(s, pin, salt) ==
  IF s.last_phase = "NONE" /\ salt
  THEN [s EXCEPT !.last_phase = "GETSERVERCERT", !.cipher_key = pin]
  ELSE None

At(d, where) == device' = [device EXCEPT ![d].at = where]

-----------------------------------------------------------------------------
(* phrase=getservercert: a device begins, and gives up what it was at. A   *)
(* session that is there for its id is reset, all but the certificate, and *)
(* a request that was held in it gets no answer.                           *)

Retry(s, d, waits) == [NewSession(d, waits) EXCEPT !.cert = s.cert]

Begun(d, waits) ==
  LET s == map_id_sess[uid[d]]
  IN IF s = None THEN NewSession(d, waits) ELSE Retry(s, d, waits)

Unheld(s) ==
  IF s # None /\ s.held # None
  THEN [device EXCEPT ![s.held] = NotPairing] ELSE device

GetServerCert(d) ==
  /\ http.at = "idle" /\ attempts < MaxAttempts
  /\ attempts' = attempts + 1
  /\ map_id_sess' = [map_id_sess EXCEPT ![uid[d]] = Begun(d, TRUE)]
  /\ device' = [Unheld(map_id_sess[uid[d]]) EXCEPT
                  ![d] = [at |-> "pin", n |-> attempts', pin |-> attempts']]
  /\ UNCHANGED <<uid, listVars, admin, entered>>

(* A client in a trusted subnet: it is answered at once.                   *)
AutoPair(d, salt) ==
  /\ http.at = "idle" /\ attempts < MaxAttempts
  /\ attempts' = attempts + 1
  /\ LET s == getservercert(Begun(d, FALSE), Zero, salt)
         at == IF s = None THEN "idle" ELSE "clientchallenge"
     IN /\ map_id_sess' = [map_id_sess EXCEPT ![uid[d]] = s]
        /\ device' = [Unheld(map_id_sess[uid[d]]) EXCEPT
                        ![d] = [at |-> at, n |-> attempts', pin |-> Zero]]
  /\ entered' = entered \cup {Zero}
  /\ UNCHANGED <<uid, listVars, admin>>

(* pin(): the user enters a PIN that a device shows, or some other, in the *)
(* web interface, and it goes to any of the sessions. One for which it     *)
(* comes out of order is gone; one with nobody waiting keeps the key.      *)
Pin(i, p, salt) ==
  /\ admin.at = "idle"
  /\ map_id_sess[i] # None
  /\ entered' = entered \cup ({p} \ {Garbage})
  /\ LET s == getservercert(map_id_sess[i], p, salt)
         d == map_id_sess[i].held
     IN /\ map_id_sess' =
             [map_id_sess EXCEPT
                ![i] = IF s = None THEN None ELSE [s EXCEPT !.held = None]]
        /\ IF d = None THEN UNCHANGED device
           ELSE At(d, IF s = None THEN "idle" ELSE "clientchallenge")
  /\ UNCHANGED <<uid, attempts, listVars, admin>>

-----------------------------------------------------------------------------
(* The other requests of a pairing. A session that is not at the phase     *)
(* before is removed (fail_pair); the device begins anew some time.        *)

Fail(d) ==
  /\ map_id_sess' = [map_id_sess EXCEPT ![uid[d]] = None]
  /\ At(d, "idle")

Request(d, phase) == http.at = "idle" /\ device[d].at = phase

InOrder(d, before) ==
  LET s == map_id_sess[uid[d]] IN s # None /\ s.last_phase = before

ClientChallenge(d) ==
  /\ Request(d, "clientchallenge")
  /\ IF InOrder(d, "GETSERVERCERT")
     THEN /\ map_id_sess' =
               [map_id_sess EXCEPT ![uid[d]].last_phase = "CLIENTCHALLENGE",
                                   ![uid[d]].challenge = device[d].n]
          /\ At(d, "serverchallengeresp")
     ELSE Fail(d)
  /\ UNCHANGED <<uid, attempts, listVars, admin, entered>>

(* The device's answer is right when it could read the challenge, which    *)
(* was given to it, with its own PIN.                                      *)
ServerChallengeResp(d) ==
  /\ Request(d, "serverchallengeresp")
  /\ IF InOrder(d, "CLIENTCHALLENGE")
     THEN /\ LET s == map_id_sess[uid[d]]
                 right == /\ s.challenge = device[d].n
                          /\ s.cipher_key = device[d].pin
             IN map_id_sess' =
                  [map_id_sess EXCEPT
                     ![uid[d]].last_phase = "SERVERCHALLENGERESP",
                     ![uid[d]].hash = IF right THEN device[d].n ELSE Garbage]
          /\ At(d, "clientpairingsecret")
     ELSE Fail(d)
  /\ UNCHANGED <<uid, attempts, listVars, admin, entered>>

SameSignature(d) ==   \* mutant: same_hash is not looked at
  map_id_sess[uid[d]].cert = d

(* same_hash && verify: with the certificate that the session began with.  *)
SameHash(d) ==
  /\ map_id_sess[uid[d]].hash = device[d].n
  /\ map_id_sess[uid[d]].cert = d

ClientPairingSecret(d) ==
  /\ Request(d, "clientpairingsecret")
  /\ IF InOrder(d, "SERVERCHALLENGERESP") /\ SameHash(d)
     THEN /\ http' = [Idle EXCEPT !.at = "raise", !.cert = d]
          /\ UNCHANGED <<map_id_sess, device>>
     ELSE Fail(d) /\ UNCHANGED http
  /\ UNCHANGED <<uid, attempts, named_devices, uuids, add_cert, cert_chain,
                 file, told, dropped, spoiled, admin, entered>>

(* add_cert->raise: a full queue is emptied first.                         *)
RaiseCert ==
  /\ http.at = "raise"
  /\ LET full == Len(add_cert) >= MaxQueued
     IN /\ add_cert' =
             IF full THEN <<http.cert>> ELSE Append(add_cert, http.cert)
        /\ dropped' = IF full
                      THEN dropped \cup {add_cert[k] : k \in DOMAIN add_cert}
                      ELSE dropped
  /\ http' = [http EXCEPT !.at = "append"]
  /\ UNCHANGED <<uid, map_id_sess, device, attempts, named_devices, uuids,
                 cert_chain, file, admin, entered, told, spoiled>>

(* add_authorized_client.                                                  *)
AppendDevice ==
  /\ http.at = "append" /\ uuids < MaxUuids
  /\ uuids' = uuids + 1
  /\ named_devices' =
       Append(named_devices,
              [uuid |-> uuids', cert |-> http.cert, enabled |-> TRUE])
  /\ http' = [http EXCEPT !.at = "save"]
  /\ spoiled' = (spoiled \/ admin.at = "install")
  /\ UNCHANGED <<uid, map_id_sess, device, attempts, add_cert, cert_chain,
                 file, admin, entered, told, dropped>>

SaveNothing ==   \* mutant: the client is not saved
  /\ http.at = "save"
  /\ http' = [http EXCEPT !.at = "answer"]
  /\ UNCHANGED <<uid, map_id_sess, device, attempts, named_devices, uuids,
                 add_cert, cert_chain, admin, entered, told, dropped, file,
                 spoiled>>

SavePaired ==
  /\ http.at = "save"
  /\ http' = [http EXCEPT !.at = "answer"]
  /\ save_state
  /\ UNCHANGED <<uid, map_id_sess, device, attempts, named_devices, uuids,
                 add_cert, cert_chain, admin, entered, told, dropped>>

(* remove_session, and the answer that the guard writes at the end.        *)
AnswerPaired ==
  /\ http.at = "answer"
  /\ http' = Idle
  /\ told' = told \cup ({http.cert} \cap Certs(named_devices))
  /\ map_id_sess' = [map_id_sess EXCEPT ![uid[http.cert]] = None]
  /\ At(http.cert, "idle")
  /\ UNCHANGED <<uid, attempts, named_devices, uuids, add_cert, cert_chain,
                 file, admin, entered, dropped, spoiled>>

-----------------------------------------------------------------------------
(* The verify callback of a TLS connection takes what is queued, whoever   *)
(* connects.                                                               *)
TakeCerts ==
  /\ add_cert # <<>>
  /\ cert_chain' = cert_chain \cup {add_cert[k] : k \in DOMAIN add_cert}
  /\ add_cert' = <<>>
  /\ UNCHANGED <<uid, map_id_sess, device, attempts, named_devices, uuids,
                 file, http, admin, entered, told, dropped, spoiled>>

(* Whether it then lets the device in.                                     *)
Verified(d) ==
  /\ d \in cert_chain \cup {add_cert[k] : k \in DOMAIN add_cert}
  /\ is_client_enabled(d)

-----------------------------------------------------------------------------
(* The web interface. A device that is unpaired there is not held to have  *)
(* been told any more.                                                     *)

adminKeeps == <<uid, map_id_sess, device, attempts, uuids, add_cert, http,
                entered>>

UnpairErases(uuid) ==
  /\ admin.at = "idle" /\ admin' = [Idle EXCEPT !.at = "save", !.uuid = uuid]
  /\ named_devices' = Without(named_devices, uuid)
  /\ told' = told \ (Certs(named_devices) \ Certs(named_devices'))
  /\ UNCHANGED <<adminKeeps, cert_chain, file, dropped, spoiled>>

UnpairSaves ==
  /\ admin.at = "save"
  /\ save_state
  /\ admin' = [admin EXCEPT !.at = "read"]
  /\ UNCHANGED <<adminKeeps, named_devices, cert_chain, told, dropped>>

(* load_state: reads the file, and then replaces what it had. The file may *)
(* not be there when no write has ever succeeded.                          *)
UnpairReads ==
  /\ admin.at = "read"
  /\ IF file = None THEN admin' = Idle
     ELSE admin' = [admin EXCEPT !.at = "install", !.read = file]
  /\ spoiled' = (spoiled \/ http.at = "save")
  /\ UNCHANGED <<adminKeeps, named_devices, cert_chain, file, told, dropped>>

InstallThenClear ==   \* mutant: the chain is cleared when it is complete
  /\ admin.at = "install"
  /\ admin' = Idle
  /\ named_devices' = admin.read
  /\ cert_chain' = {}
  /\ spoiled' = (spoiled \/ http.at = "append")
  /\ UNCHANGED <<adminKeeps, file, told, dropped>>

UnpairInstalls ==
  /\ admin.at = "install"
  /\ admin' = Idle
  /\ named_devices' = admin.read
  /\ cert_chain' = Certs(admin.read)
  /\ spoiled' = (spoiled \/ http.at = "append")
  /\ UNCHANGED <<adminKeeps, file, told, dropped>>

(* erase_all_clients: its steps before save_state.                         *)
EraseAll ==
  /\ admin.at = "idle"
  /\ admin' = [Idle EXCEPT !.at = "save only"]
  /\ named_devices' = <<>> /\ cert_chain' = {} /\ told' = {}
  /\ spoiled' = (spoiled \/ http.at = "append")
  /\ UNCHANGED <<adminKeeps, file, dropped>>

(* set_client_enabled: the same.                                           *)
SetEnabled(uuid, enabled) ==
  /\ admin.at = "idle" /\ admin' = [Idle EXCEPT !.at = "save only"]
  /\ \E k \in DOMAIN named_devices :
       /\ named_devices[k].uuid = uuid
       /\ named_devices' = [named_devices EXCEPT ![k].enabled = enabled]
  /\ UNCHANGED <<adminKeeps, cert_chain, file, told, dropped, spoiled>>

SaveOnly ==
  /\ admin.at = "save only"
  /\ save_state
  /\ admin' = Idle
  /\ UNCHANGED <<adminKeeps, named_devices, cert_chain, told, dropped>>

-----------------------------------------------------------------------------
(* The host goes down and comes up again: load_state is all it keeps.      *)
Restart ==
  /\ map_id_sess' = [i \in Ids |-> None]
  /\ device' = [d \in Devices |-> NotPairing]
  /\ named_devices' = IF file = None THEN <<>> ELSE file
  /\ cert_chain' = Certs(named_devices')
  /\ add_cert' = <<>> /\ dropped' = {}
  /\ http' = Idle /\ admin' = Idle
  /\ UNCHANGED <<uid, attempts, uuids, file, entered, told, spoiled>>

Next ==
  \/ \E d \in Devices, salt \in BOOLEAN : AutoPair(d, salt)
  \/ \E i \in Ids, p \in {Garbage} \cup Shown, salt \in BOOLEAN :
       Pin(i, p, salt)
  \/ \E d \in Devices :
       \/ GetServerCert(d)
       \/ ClientChallenge(d) \/ ServerChallengeResp(d)
       \/ ClientPairingSecret(d)
  \/ RaiseCert \/ AppendDevice \/ SavePaired \/ AnswerPaired
  \/ TakeCerts
  \/ \E uuid \in 1 .. uuids : UnpairErases(uuid)
  \/ UnpairSaves \/ UnpairReads \/ UnpairInstalls
  \/ EraseAll
  \/ \E uuid \in 1 .. uuids, enabled \in BOOLEAN : SetEnabled(uuid, enabled)
  \/ SaveOnly
  \/ Restart

Spec == Init /\ [][Next]_vars

-----------------------------------------------------------------------------
(* The types of what pairs.                                                *)
Phases ==
  {"NONE", "GETSERVERCERT", "CLIENTCHALLENGE", "SERVERCHALLENGERESP"}
Sessions ==
  [last_phase : Phases, cipher_key : Int \cup {None}, challenge : Int,
   hash : Int, cert : Devices, held : Devices \cup {None}]
Places ==
  {"idle", "pin", "clientchallenge", "serverchallengeresp",
   "clientpairingsecret"}
Attempts == [at : Places, n : Nat, pin : Int]
Https ==
  [at : {"idle", "raise", "append", "save", "answer"}, uuid : {0},
   cert : Devices \cup {None}, read : {None}]

TypeOK ==
  /\ uid \in [Devices -> Ids]
  /\ map_id_sess \in [Ids -> Sessions \cup {None}]
  /\ device \in [Devices -> Attempts]
  /\ attempts \in Nat
  /\ http \in Https
  /\ http.at # "idle" => http.cert \in Devices

\* Every attempt has a number of its own, and shows its PIN or none.
AttemptsDiffer ==
  \A d \in Devices :
    LET a == device[d]
    IN /\ a.n <= attempts
       /\ a.at # "idle" => a.n # 0
       /\ a.n # 0 => a.pin \in {Zero, a.n}
       /\ \A e \in Devices \ {d} : a.n # 0 => device[e].n # a.n
\* A session's key is of a PIN that was entered, and its hash is right only
\* for an attempt with that key.
HashesAreEarned ==
  \A i \in Ids :
    LET s == map_id_sess[i]
    IN s # None =>
         /\ s.hash <= attempts
         /\ s.cipher_key \in entered \cup {Garbage, None}
         /\ \A d \in Devices :
              device[d].n # 0 /\ s.hash = device[d].n
                => device[d].pin \in entered

(* A client is authorised at the end of an attempt for which the PIN it    *)
(* shows was entered; not one of another attempt, or of another device     *)
(* with the same unique id (clientpairingsecret: same_hash && verify).     *)
PairedByItsPin ==
  http.at \in {"raise", "append", "save", "answer"} =>
    device[http.cert].pin \in entered

\* A request that is held is of a device with the id of the session.
HeldWaits ==
  \A i \in Ids :
    LET s == map_id_sess[i]
    IN s # None /\ s.held # None => uid[s.held] = i /\ device[s.held].n # 0

\* The inductive invariant.
IInv ==
  /\ TypeOK /\ AttemptsDiffer /\ HashesAreEarned /\ HeldWaits
  /\ PairedByItsPin

(* A client that was told it is paired is in the file, until someone       *)
(* unpairs it; a restart at any moment does not lose it, as long as writes *)
(* succeed and no unpairing loads the file over a pairing.                 *)
ToldAreStored ==
  \/ spoiled
  \/ told \subseteq (IF file = None THEN {} ELSE Certs(file))

(* A client that is listed and enabled is let in: its certificate is with  *)
(* the HTTPS thread, or on the way to it, unless the queue overflowed; and *)
(* when no unpairing is at work the file lists nobody else.                *)
ListedAreLetIn ==
  \/ spoiled
  \/ /\ \A d \in Certs(named_devices) \ dropped :
           is_client_enabled(d) => Verified(d)
     /\ (admin.at = "idle" /\ http.at # "save" /\ file # None) =>
          file = named_devices

(* The list of clients, its file, what clients were told and the           *)
(* certificates that are let in stay one thing, whatever is between them   *)
(* (save_state, load_state, add_cert, cert_chain).                         *)
ClientListIsKept == ToldAreStored /\ ListedAreLetIn

-----------------------------------------------------------------------------
(* Why it is so: the inductive invariant of the list of clients.           *)
Entries == [uuid : Nat, cert : Devices, enabled : BOOLEAN]
AdminSteps ==
  [at : {"idle", "save", "read", "install", "save only"}, uuid : Nat,
   cert : {None}, read : Seq(Entries) \cup {None}]
Queued == {add_cert[k] : k \in DOMAIN add_cert}
FileCerts == IF file = None THEN {} ELSE Certs(file)

\* A list has entries of the uuids that were given out, each once.
IsList(list, given) ==
  /\ list \in Seq(Entries)
  /\ \A k \in DOMAIN list : list[k].uuid <= given
  /\ \A j, k \in DOMAIN list : list[j].uuid = list[k].uuid => j = k

ListsOK ==
  /\ uuids \in Nat
  /\ add_cert \in Seq(Devices)
  /\ IsList(named_devices, uuids)
  /\ file # None => IsList(file, uuids)
  /\ admin \in AdminSteps
  /\ admin.at = "install" => IsList(admin.read, uuids)
  /\ spoiled \in BOOLEAN

\* The certificates of listed clients, and of the one that is about to be
\* listed, are with the HTTPS thread or on their way.
CertsAreKnown ==
  /\ Certs(named_devices) \subseteq cert_chain \cup Queued \cup dropped
  /\ http.at = "append" =>
       http.cert \in cert_chain \cup Queued \cup dropped

\* What the file has while a save, or an unpairing, is on its way.
FileFollows ==
  /\ Certs(named_devices) \subseteq
       FileCerts \cup (IF http.at = "save" THEN {http.cert} ELSE {})
  /\ (admin.at = "idle" /\ http.at # "save" /\ file # None) =>
       file = named_devices
  /\ (admin.at = "read" /\ http.at # "save") => file = named_devices
  /\ admin.at = "install" =>
       /\ http.at # "save"
       /\ file = admin.read /\ named_devices = admin.read

ToldAreListed == told \subseteq Certs(named_devices) \cap FileCerts

ListIInv ==
  /\ ListsOK
  /\ spoiled \/ (CertsAreKnown /\ FileFollows /\ ToldAreListed)
=============================================================================
