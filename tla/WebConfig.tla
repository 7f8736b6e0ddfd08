----------------------------- MODULE WebConfig ------------------------------
(***************************************************************************)
(* Who may use the web interface, and the files that say so:               *)
(* authentication with its limit on failures, CSRF tokens and API tokens   *)
(* (src/confighttp.cpp), the credentials of the user and the certificate   *)
(* of the host (src/httpcommon.cpp).                                       *)
(*                                                                         *)
(* One thread serves the web interface.  The user's credentials are by     *)
(* default in the file that the list of paired clients is in, which the    *)
(* thread of the GameStream server saves: each reads the whole file,       *)
(* changes its part and writes the whole.  A file is written by emptying   *)
(* it first.  Passwords, clients and tokens are known by their numbers.    *)
(***************************************************************************)
EXTENDS Integers, Sequences, FiniteSets

CONSTANTS
  Addresses,
  Account,           \* the client id of whoever signs in with the password
  Tokens,            \* API tokens of the configuration
  Admins,            \* those of them with the scope "*"
  None, Torn,        \* Torn: a file that does not parse
  LOGIN_FAIL_LIMIT,  \* 10 in the code
  LOGIN_FAIL_WINDOW, \* 30 s in the code
  CSRF_TOKEN_LIFETIME, \* one hour in the code
  MaxTime,           \* bound: the clock
  MaxPasswords, MaxClients, MaxCsrf, MaxCrashes  \* bounds

VARIABLES
  now,
  g_login_failures,  \* by address: None or [window_start, failures]
  csrf_tokens,       \* by client id: None or [token, expiration]
  issued,            \* how many CSRF tokens there were
  api_tokens,        \* those that the running host knows
  password,          \* what the running host checks; 0: no user is set up
  passwords,         \* how many passwords were ever chosen
  clients,           \* what the running host has of the list of clients
  file,              \* the state file: None, Torn or a tree
  web,               \* the web interface's thread in savePassword
  nv,                \* the GameStream server's thread in save_state
  creds,             \* pairs in the directory of credentials, oldest first
  identity,          \* the pair that the host uses; 0 while it is down
  starting,          \* how far http::init has got
  crashes,
  guesses,           \* history: when each address had a password refused
                     \* since it last signed in
  known,             \* history: the pair that clients were paired with
  spoiled            \* history: a write failed or was cut short, or the two
                     \* threads were in the file at once

loginVars == <<now, g_login_failures, csrf_tokens, issued, api_tokens, guesses>>
fileVars == <<password, passwords, clients, file, web, nv, spoiled>>
identityVars == <<creds, identity, starting, crashes, known>>
vars == <<loginVars, fileVars, identityVars>>

Empty == [password |-> 0, clients |-> 0]
Idle == [at |-> "idle", tree |-> Empty]

Init ==
  /\ now = 0 /\ g_login_failures = [a \in Addresses |-> None]
  /\ csrf_tokens = [i \in Addresses \cup {Account} |-> None] /\ issued = 0
  /\ api_tokens = Tokens
  /\ password = 0 /\ passwords = 0 /\ clients = 0 /\ file = None
  /\ web = Idle /\ nv = Idle
  /\ creds = <<>> /\ identity = 0 /\ starting = "down" /\ crashes = 0
  /\ guesses = [a \in Addresses |-> <<>>] /\ known = 0 /\ spoiled = FALSE

Up == identity # 0

-----------------------------------------------------------------------------
(* authenticate.  A request has an address, credentials and, if a browser  *)
(* sent it, an origin and perhaps a CSRF token.                            *)

Credentials == {"right", "wrong", "none"} \cup Tokens
Requests ==
  [address : Addresses, auth : Credentials,
   origin : {"none", "allowed", "foreign"}, csrf : 0 .. MaxCsrf]

(* prune_rate_limits, which each of the two calls begins with, and the     *)
(* bucket that they then look at.                                          *)
Pruned ==
  [a \in Addresses |->
     LET b == g_login_failures[a]
     IN IF b # None /\ now - b.window_start > LOGIN_FAIL_WINDOW
        THEN None ELSE b]

Bucket(a) ==
  IF Pruned[a] = None THEN [window_start |-> now, failures |-> 0]
  ELSE Pruned[a]

OneMore(a) ==   \* mutant: the limit itself is allowed
  Bucket(a).failures <= LOGIN_FAIL_LIMIT

rate_limit_allow(a) == Bucket(a).failures < LOGIN_FAIL_LIMIT

(* Of the two schemes, each request uses one.                              *)
Authentic(r) == r.auth = "right" \/ r.auth \in api_tokens

rate_limit_record_failure(a) ==
  [Pruned EXCEPT ![a] = [Bucket(a) EXCEPT !.failures = @ + 1]]

(* Every request that is not let in: sent away for now, sent to set up a   *)
(* user, or refused, which counts.  One without credentials counts too:    *)
(* it is how a browser begins.                                             *)
Refuse(r) ==
  /\ Up /\ web.at = "idle"
  /\ LET a == r.address
     IN IF ~rate_limit_allow(a) \/ password = 0
        THEN /\ g_login_failures' = [Pruned EXCEPT ![a] = Bucket(a)]
             /\ UNCHANGED guesses
        ELSE /\ ~Authentic(r)
             /\ g_login_failures' = rate_limit_record_failure(a)
             /\ guesses' = [guesses EXCEPT ![a] = Append(@, now)]
  /\ UNCHANGED <<now, csrf_tokens, issued, api_tokens, fileVars,
                 identityVars>>

(* One that is let in; rate_limit_reset.                                   *)
Enter(r) ==
  /\ Up /\ web.at = "idle"
  /\ password # 0 /\ rate_limit_allow(r.address) /\ Authentic(r)
  /\ g_login_failures' = [Pruned EXCEPT ![r.address] = None]
  /\ guesses' = [guesses EXCEPT ![r.address] = <<>>]

(* has_scope, for what only an administrator may do.                       *)
Admin(r) == r.auth = "right" \/ r.auth \in Admins

client_id(r) ==
  IF password # 0 /\ r.auth = "right" THEN Account ELSE r.address

(* validate_csrf_token.  An expired token is erased when it is shown.      *)
Live(i) == csrf_tokens[i] # None /\ csrf_tokens[i].expiration >= now
validate_csrf_token(r) ==
  \/ r.origin # "foreign"
  \/ Live(client_id(r)) /\ csrf_tokens[client_id(r)].token = r.csrf

Erased(r) ==
  LET i == client_id(r)
  IN [csrf_tokens EXCEPT ![i] =
        IF r.origin = "foreign" /\ r.csrf # 0 /\ ~Live(i) THEN None ELSE @]

-----------------------------------------------------------------------------
(* getCSRFToken: generate_csrf_token; a client has one token.              *)
GetCSRFToken(r) ==
  /\ Enter(r) /\ issued < MaxCsrf
  /\ issued' = issued + 1
  /\ csrf_tokens' =
       [i \in DOMAIN csrf_tokens |->
          IF i = client_id(r)
          THEN [token |-> issued', expiration |-> now + CSRF_TOKEN_LIFETIME]
          ELSE IF Live(i) THEN csrf_tokens[i] ELSE None]
  /\ UNCHANGED <<now, api_tokens, fileVars, identityVars>>

(* deleteToken: until the next start.  createToken adds none.              *)
DeleteToken(r, t) ==
  /\ Enter(r) /\ Admin(r) /\ t \in api_tokens
  /\ api_tokens' = api_tokens \ {t}
  /\ UNCHANGED <<now, csrf_tokens, issued, fileVars, identityVars>>

(* savePassword, for the first user with no check of who asks; then        *)
(* save_user_creds reads the file, and gives up if it does not parse.      *)
SavePassword(r, valid) ==
  /\ IF password = 0
     THEN Up /\ web.at = "idle" /\ UNCHANGED <<g_login_failures, guesses>>
     ELSE Enter(r) /\ Admin(r)
  /\ csrf_tokens' = Erased(r)
  /\ IF (/\ valid /\ validate_csrf_token(r) /\ file # Torn
         /\ passwords < MaxPasswords)
     THEN /\ passwords' = passwords + 1
          /\ web' =
               [at |-> "write",
                tree |-> [IF file = None THEN Empty ELSE file
                            EXCEPT !.password = passwords']]
          /\ spoiled' = (spoiled \/ nv.at # "idle")
     ELSE UNCHANGED <<passwords, web, spoiled>>
  /\ UNCHANGED <<now, issued, api_tokens, password, clients, file, nv,
                 identityVars>>

FreshTree ==   \* mutant: what else the file has is not read
  /\ web.at = "write"
  /\ file' = Torn
  /\ web' = [at |-> "writing",
             tree |-> [Empty EXCEPT !.password = web.tree.password]]
  /\ UNCHANGED <<password, passwords, clients, nv, spoiled, loginVars,
                 identityVars>>

WebEmpties ==
  /\ web.at = "write"
  /\ file' = Torn
  /\ web' = [web EXCEPT !.at = "writing"]
  /\ UNCHANGED <<password, passwords, clients, nv, spoiled, loginVars,
                 identityVars>>

(* The disk may be full.  Two that write at once may leave anything.       *)
Written(tree) ==
  \/ file' = tree /\ UNCHANGED spoiled
  \/ file' = Torn /\ spoiled' = TRUE

WebWrites ==
  /\ web.at = "writing"
  /\ Written(web.tree)
  /\ web' = IF file' = Torn THEN Idle ELSE [web EXCEPT !.at = "reload"]
  /\ UNCHANGED <<password, passwords, clients, nv, loginVars, identityVars>>

(* reload_user_creds; that it fails is not told to the user.               *)
ReloadCreds ==
  /\ web.at = "reload"
  /\ web' = Idle
  /\ password' =
       IF file # Torn /\ file.password # 0 THEN file.password ELSE password
  /\ UNCHANGED <<passwords, clients, file, nv, spoiled, loginVars,
                 identityVars>>

-----------------------------------------------------------------------------
(* A client is paired (Pairing has what becomes of the list): save_state,  *)
(* which gives up if the file does not parse.                              *)
PairClient ==
  /\ Up /\ nv.at = "idle" /\ clients < MaxClients
  /\ clients' = clients + 1
  /\ known' = IF known = 0 THEN identity ELSE known
  /\ spoiled' = (spoiled \/ web.at # "idle")
  /\ IF file = Torn THEN UNCHANGED nv
     ELSE nv' = [at |-> "write",
                 tree |-> [IF file = None THEN Empty ELSE file
                             EXCEPT !.clients = clients']]
  /\ UNCHANGED <<password, passwords, file, web, loginVars, creds, identity,
                 starting, crashes>>

NvEmpties ==
  /\ nv.at = "write"
  /\ file' = Torn
  /\ nv' = [nv EXCEPT !.at = "writing"]
  /\ UNCHANGED <<password, passwords, clients, web, spoiled, loginVars,
                 identityVars>>

NvWrites ==
  /\ nv.at = "writing"
  /\ Written(nv.tree)
  /\ nv' = Idle
  /\ UNCHANGED <<password, passwords, clients, web, loginVars, identityVars>>

-----------------------------------------------------------------------------
(* http::init.  The newest key decides: with its certificate the pair is   *)
(* used again, without it, or with no key, another pair is made.  Then the *)
(* user is read from the file (user_creds_exist), and nvhttp::start reads  *)
(* the clients (load_state).                                               *)

LoadFile ==
  LET tree == IF file \in {None, Torn} THEN Empty ELSE file
  IN password' = tree.password /\ clients' = tree.clients

Newest == Len(creds)

Start ==
  /\ starting = "down"
  /\ IF creds # <<>> /\ creds[Newest].cert
     THEN starting' = "up" /\ identity' = Newest /\ LoadFile
     ELSE starting' = "pkey" /\ UNCHANGED <<identity, password, clients>>
  /\ UNCHANGED <<loginVars, passwords, file, web, nv, spoiled, creds, crashes,
                 known>>

(* create_creds: the key, then the certificate.                            *)
CreateKey ==
  /\ starting = "pkey" /\ starting' = "cert"
  /\ creds' = Append(creds, [cert |-> FALSE])
  /\ UNCHANGED <<loginVars, fileVars, identity, crashes, known>>

CreateCert ==
  /\ starting = "cert" /\ starting' = "up"
  /\ creds' = [creds EXCEPT ![Newest] = [cert |-> TRUE]]
  /\ identity' = Newest
  /\ LoadFile
  /\ UNCHANGED <<loginVars, passwords, file, web, nv, spoiled, crashes, known>>

(* The host goes down, be it in the middle of a write.                     *)
Crash ==
  /\ starting # "down" /\ crashes < MaxCrashes
  /\ crashes' = crashes + 1
  /\ starting' = "down" /\ identity' = 0
  /\ g_login_failures' = [a \in Addresses |-> None]
  /\ csrf_tokens' = [i \in DOMAIN csrf_tokens |-> None]
  /\ api_tokens' = Tokens
  /\ password' = 0 /\ clients' = 0 /\ web' = Idle /\ nv' = Idle
  /\ guesses' = [a \in Addresses |-> <<>>]
  /\ spoiled' = (spoiled \/ file = Torn)
  /\ UNCHANGED <<now, issued, passwords, file, creds, known>>

Tick ==
  /\ now < MaxTime /\ now' = now + 1
  /\ UNCHANGED <<g_login_failures, csrf_tokens, issued, api_tokens, guesses,
                 fileVars, identityVars>>

Next ==
  \/ \E r \in Requests :
       \/ Refuse(r) \/ GetCSRFToken(r)
       \/ \E t \in Tokens : DeleteToken(r, t)
       \/ \E valid \in BOOLEAN : SavePassword(r, valid)
  \/ WebEmpties \/ WebWrites \/ ReloadCreds
  \/ PairClient \/ NvEmpties \/ NvWrites
  \/ Start \/ CreateKey \/ CreateCert \/ Crash
  \/ Tick

Spec == Init /\ [][Next]_vars

-----------------------------------------------------------------------------
(* Whenever nobody is writing, a restart would find the password and the   *)
(* clients that the host has now (save_user_creds, save_state): neither    *)
(* thread takes away what the other has saved.  And the host that a client *)
(* was paired with has the same certificate after any restart              *)
(* (http::init), even one that was cut short.                              *)
StateIsSaved ==
  (/\ Up /\ ~spoiled /\ web.at = "idle" /\ nv.at = "idle"
   /\ password # 0 \/ clients # 0)
  => file = [password |-> password, clients |-> clients]

IdentityIsKept == Up /\ known # 0 => identity = known

HostStateSurvives == StateIsSaved /\ IdentityIsKept

(* In no stretch of the length of the window does an address have more     *)
(* than twice the limit of passwords refused since it last signed in       *)
(* (rate_limit_allow).                                                     *)
GuessesAreBounded ==
  \A a \in Addresses, t \in 0 .. MaxTime :
    Cardinality({k \in DOMAIN guesses[a] :
                   guesses[a][k] \in t .. t + LOGIN_FAIL_WINDOW})
      <= 2 * LOGIN_FAIL_LIMIT

-----------------------------------------------------------------------------
(* What it rests on: what the file, and what is about to be written to it, *)
(* has of what the host knows; and that the newest pair is the one in use. *)
Trees == [password : Nat, clients : Nat]

TypeOK ==
  /\ password \in Nat /\ passwords \in Nat /\ clients \in Nat
  /\ file \in Trees \cup {None, Torn}
  /\ web \in [at : {"idle", "write", "writing", "reload"}, tree : Trees]
  /\ nv \in [at : {"idle", "write", "writing"}, tree : Trees]
  /\ creds \in Seq([cert : BOOLEAN])
  /\ identity \in Nat /\ known \in Nat
  /\ starting \in {"down", "pkey", "cert", "up"}
  /\ spoiled \in BOOLEAN
  /\ web.at = "reload" => file # None

Known == [password |-> password, clients |-> clients]
Saved == file = Known \/ (file = None /\ Known = Empty)

\* A host that is down knows nothing, and will believe the file.
WhileDown ==
  /\ Up <=> starting = "up"
  /\ ~Up => web.at = "idle" /\ nv.at = "idle" /\ Known = Empty
  /\ ~Up /\ ~spoiled => file # Torn

OneWriter ==
  Up /\ ~spoiled =>
    /\ web.at = "idle" \/ nv.at = "idle"
    /\ web.at = "idle" /\ nv.at = "idle" => Saved
    /\ web.at # "idle" =>
         web.tree.password # 0 /\ web.tree.clients = clients
    /\ web.at = "write" => Saved
    /\ web.at = "writing" => file = Torn
    /\ web.at = "reload" => file = web.tree
    /\ nv.at # "idle" => nv.tree = Known
    /\ nv.at = "write" => file # Torn
    /\ nv.at = "writing" => file = Torn

NewestIsUsed ==
  /\ identity # 0 => identity = Newest /\ creds[Newest].cert
  /\ known # 0 => known = Newest /\ creds[Newest].cert
  /\ starting \in {"pkey", "cert"} => known = 0
  /\ starting = "cert" => creds # <<>>

StateInv == TypeOK /\ WhileDown /\ OneWriter /\ NewestIsUsed

(* And what the limit rests on, for an address with the bucket b and the   *)
(* guesses g at time t: all but the failures of the bucket were made       *)
(* before it began, and, the bucket before it having had no more than the  *)
(* limit, all but as many again a window earlier.                          *)
Buckets ==
  {None} \cup [window_start : Nat, failures : 0..LOGIN_FAIL_LIMIT]

Counted(b, g, t) ==
  /\ b = None =>
       \A k \in DOMAIN g :
         k + LOGIN_FAIL_LIMIT <= Len(g) => g[k] + LOGIN_FAIL_WINDOW < t
  /\ b # None =>
       /\ b.window_start <= t
       /\ \A k \in DOMAIN g :
            /\ k + b.failures <= Len(g) => g[k] <= b.window_start
            /\ k + b.failures + LOGIN_FAIL_LIMIT <= Len(g) =>
                 g[k] + LOGIN_FAIL_WINDOW < b.window_start

Spread(g, t) ==
  /\ \A k \in DOMAIN g : g[k] <= t
  /\ \A j, k \in DOMAIN g : j <= k => g[j] <= g[k]
  /\ \A k \in DOMAIN g :
       k + 2 * LOGIN_FAIL_LIMIT \in DOMAIN g =>
         g[k] + LOGIN_FAIL_WINDOW < g[k + 2 * LOGIN_FAIL_LIMIT]

LoginInv ==
  /\ now \in Nat
  /\ g_login_failures \in [Addresses -> Buckets]
  /\ guesses \in [Addresses -> Seq(Nat)]
  /\ \A a \in Addresses :
       /\ Counted(g_login_failures[a], guesses[a], now)
       /\ Spread(guesses[a], now)
=============================================================================
