---------------------------- MODULE Access_proofs ----------------------------
(***************************************************************************)
(* Proofs about what clients and users do to the host, for every value of  *)
(* the constants: the files of the web interface and its limit on guesses  *)
(* (WebConfig), the requests of an RTSP connection (RtspConnection), the   *)
(* frames of the Windows desktop (DesktopCapture) and of a PipeWire stream *)
(* (ScreenCast), what Windows is told of fingers, pen and gamepads         *)
(* (WindowsPointers, WindowsGamepads), and the configuration file, read    *)
(* and written back (ConfigFile).                                          *)
(***************************************************************************)
EXTENDS MCPairing, Counting, TLAPS

-----------------------------------------------------------------------------
(* RtspConnection.                                                         *)

(* The lengths of a request are numbers, and of a sealed one the header is *)
(* the header of the cipher.                                               *)
LEMMA RequestTypes ==
  ASSUME NEW r \in R!Requests \cup {R!NoRequest}
  PROVE  /\ r.sealed \in BOOLEAN /\ r.tells \in BOOLEAN /\ r.sound \in BOOLEAN
         /\ r.header \in Nat /\ r.payload \in Nat /\ r.header >= Needle
         /\ r.sealed => r.header = Overhead /\ r.tells
<1>1. CASE r \in R!Requests
  <2>1. r \in [sealed : BOOLEAN, header : Needle..MaxHeader,
              payload : 0..MaxPayload, tells : BOOLEAN, sound : BOOLEAN]
    BY <1>1 DEF R!Requests
  <2>2. r.sealed \in BOOLEAN /\ r.tells \in BOOLEAN /\ r.sound \in BOOLEAN
    BY <2>1, Zenon
  <2>3. r.header \in Needle..MaxHeader /\ r.payload \in 0..MaxPayload
    BY <2>1
  <2>4. r.sealed => r.header = Overhead /\ r.tells
    BY <1>1, Zenon DEF R!Requests
  <2> QED BY <2>2, <2>3, <2>4, RtspAssumption
<1>2. CASE r = R!NoRequest
  BY <1>2, RtspAssumption DEF R!NoRequest
<1> QED BY <1>1, <1>2

(* Judge keeps the invariant, wherever a read has ended.                   *)
LEMMA JudgeIInv ==
  ASSUME R!IInv, NEW n \in 1..BufSize, waiting \in {"read", "payload"},
         n <= R!Room, UNCHANGED <<cipher, request>>, split' \in BOOLEAN,
         split => split', ~request.sealed,
         R!Judge(request.header, begin + n), request.header <= begin + n
  PROVE  R!IInv'
<1> DEFINE end == begin + n
<1>0. request.sealed = cipher
  <2>1. request.sealed \in BOOLEAN /\ cipher \in BOOLEAN /\ ~cipher
    BY RequestTypes DEF R!IInv, R!TypeOK, R!FormFits
  <2> QED BY <2>1, Zenon
<1>1. /\ request.header \in Nat /\ request.payload \in Nat
      /\ request.tells \in BOOLEAN /\ request.sound \in BOOLEAN
      /\ begin \in Nat /\ ~cipher
  BY RequestTypes DEF R!IInv, R!TypeOK, R!FormFits
<1>2. end \in Nat /\ end <= R!Length /\ end <= BufSize /\ n \in Nat
  BY <1>1, RtspAssumption DEF R!Room, R!Length, R!IInv, R!BeginFits
<1>3. /\ crlf' = request.header /\ crlf' \in Nat
      /\ request' \in R!Requests \cup {R!NoRequest} /\ cipher' \in BOOLEAN
  BY <1>1 DEF R!Judge, R!IInv, R!TypeOK
<1>4. CASE ~request.sound
  <2>1. waiting' = "refused" /\ begin' = begin /\ got' = got
    BY <1>4 DEF R!Judge
  <2> QED
    BY <1>1, <1>3, <1>4, <2>1
    DEF R!IInv, R!TypeOK, R!BeginFits, R!FormFits, R!LineIsFound,
        R!HandledIsWhole, R!RefusedIsWrong, R!Length
<1>5. CASE request.sound /\ R!Enough(request.header, end)
  <2>1. waiting' = "handled" /\ begin' = end /\ got' = end
    BY <1>5 DEF R!Judge
  <2>2. request.tells => end = R!Length
    BY <1>1, <1>2, <1>5 DEF R!Enough, R!Needs, R!Length
  <2>3. R!HandledIsWhole'
    BY <1>0, <1>1, <1>5, <2>1, <2>2 DEF R!HandledIsWhole, R!Length
  <2> QED
    BY <1>1, <1>2, <1>3, <2>1, <2>3
    DEF R!IInv, R!TypeOK, R!BeginFits, R!FormFits, R!LineIsFound,
        R!RefusedIsWrong, R!Length
<1>6. CASE request.sound /\ ~R!Enough(request.header, end) /\ end # BufSize
  <2>1. waiting' = "payload" /\ begin' = end /\ got' = got
    BY <1>6 DEF R!Judge, R!AwaitMore
  <2>2. R!LineIsFound'
    BY <1>1, <1>3, <1>6, <2>1 DEF R!LineIsFound, R!Enough, R!Needs
  <2> QED
    BY <1>1, <1>2, <1>3, <1>6, <2>1, <2>2, RtspAssumption
    DEF R!IInv, R!TypeOK, R!BeginFits, R!FormFits, R!HandledIsWhole,
        R!RefusedIsWrong, R!Length
<1>7. CASE request.sound /\ ~R!Enough(request.header, end) /\ end = BufSize
  <2>1. waiting' = "refused" /\ begin' = end /\ got' = got
    BY <1>7 DEF R!Judge, R!AwaitMore
  <2>2. R!Length > BufSize
    BY <1>1, <1>2, <1>7, RtspAssumption DEF R!Enough, R!Needs, R!Length
  <2>3. R!RefusedIsWrong'
    BY <1>1, <2>1, <2>2 DEF R!RefusedIsWrong, R!TooLong, R!Length
  <2> QED
    BY <1>1, <1>2, <1>3, <2>1, <2>3
    DEF R!IInv, R!TypeOK, R!BeginFits, R!FormFits, R!LineIsFound,
        R!HandledIsWhole, R!Length
<1> QED BY <1>4, <1>5, <1>6, <1>7

LEMMA RtspNext == R!IInv /\ [R!Next]_R!vars => R!IInv'
<1> SUFFICES ASSUME R!IInv, [R!Next]_R!vars PROVE R!IInv'
  OBVIOUS
<1> USE RtspAssumption
<1>0. /\ request.header \in Nat /\ request.payload \in Nat
      /\ request.header >= Needle /\ begin \in Nat
      /\ request.sealed \in BOOLEAN /\ request.sound \in BOOLEAN
      /\ request.sealed => request.header = Overhead /\ request.tells
  BY RequestTypes DEF R!IInv, R!TypeOK
<1>1. ASSUME NEW r \in R!Requests, NEW encrypts \in BOOLEAN,
             R!Connect(r, encrypts)
      PROVE  R!IInv'
  <2>1. request' \in R!Requests /\ request'.header \in Nat
        /\ request'.payload \in Nat /\ request'.header >= Needle
    BY <1>1, RequestTypes DEF R!Connect
  <2>2. waiting' = (IF encrypts THEN "header" ELSE "read") /\ begin' = 0
        /\ cipher' = encrypts /\ UNCHANGED <<crlf, got, split>>
    BY <1>1 DEF R!Connect, R!IInv, R!BeginFits
  <2> QED
    BY <2>1, <2>2
    DEF R!IInv, R!TypeOK, R!BeginFits, R!FormFits, R!LineIsFound,
        R!HandledIsWhole, R!RefusedIsWrong, R!Length
<1>2. ASSUME NEW n \in 1..BufSize, R!ReadPlaintext(n) PROVE R!IInv'
  <2> DEFINE end == begin + n
  <2>0. /\ end \in Nat /\ end <= R!Length /\ end <= BufSize /\ n > 0
        /\ waiting = "read" /\ ~cipher
    BY <1>0, <1>2 DEF R!ReadPlaintext, R!Room, R!Length, R!IInv,
       R!BeginFits, R!FormFits
  <2>1. CASE R!FoundIn(end)
    BY <1>0, <1>2, <2>1, JudgeIInv, Zenon
    DEF R!ReadPlaintext, R!FoundIn, R!IInv, R!TypeOK
  <2>2. CASE ~R!FoundIn(end)
    <3>1. /\ R!AwaitMore("read", end) /\ UNCHANGED <<crlf, cipher, request>>
          /\ split' = (split \/ (/\ request.header - Needle < end
                                 /\ end < request.header))
      BY <1>2, <2>2 DEF R!ReadPlaintext
    <3>2. split' \in BOOLEAN
      BY <3>1, Zenon DEF R!IInv, R!TypeOK
    <3>3. end > request.header - Needle => split' \/ request.sealed
      <4>1. split => split'
        BY <3>1, Zenon
      <4>2. request.header - Needle < end /\ end < request.header => split'
        BY <3>1, Zenon
      <4>3. begin > request.header - Needle => split \/ request.sealed
        BY <2>0, Zenon DEF R!IInv, R!LineIsFound
      <4>4. request.sealed \/ begin + Needle > request.header
            \/ request.header > end
        BY <1>0, <2>0, <2>2 DEF R!FoundIn
      <4> HIDE DEF end
      <4> QED BY <1>0, <2>0, <4>1, <4>2, <4>3, <4>4
    <3>4. begin' = end /\ got' = got
          /\ waiting' = (IF end = BufSize THEN "refused" ELSE "read")
      BY <3>1 DEF R!AwaitMore
    <3>5. R!TypeOK'
      BY <2>0, <3>1, <3>2, <3>4 DEF R!IInv, R!TypeOK
    <3>6. R!LineIsFound'
      BY <3>1, <3>3, <3>4 DEF R!LineIsFound
    <3>7. R!RefusedIsWrong'
      <4> SUFFICES ASSUME end = BufSize, ~request.sealed, ~split'
                   PROVE  R!Length > BufSize
        BY <2>0, <3>1, <3>4 DEF R!RefusedIsWrong, R!TooLong, R!Length
      <4>1. end <= request.header - Needle
        BY <1>0, <2>0, <3>3
      <4> QED BY <1>0, <2>0, <4>1 DEF R!Length
    <3> QED
      BY <2>0, <3>1, <3>4, <3>5, <3>6, <3>7
      DEF R!IInv, R!BeginFits, R!FormFits, R!HandledIsWhole, R!Length
  <2> QED BY <2>1, <2>2
<1>3. ASSUME NEW n \in 1..BufSize, R!ReadPayload(n) PROVE R!IInv'
  <2>1. waiting = "payload" /\ crlf = request.header /\ ~request.sealed
    BY <1>3 DEF R!ReadPayload, R!IInv, R!LineIsFound
  <2>2. request.header <= begin + n
    BY <1>0, <1>3, <2>1 DEF R!ReadPayload, R!IInv, R!LineIsFound
  <2> QED
    BY <1>3, <2>1, <2>2, JudgeIInv
    DEF R!ReadPayload, R!IInv, R!TypeOK
<1>4. ASSUME R!ReadEncryptedHeader PROVE R!IInv'
  <2>1. cipher /\ begin = 0 /\ UNCHANGED <<cipher, request, begin>>
        /\ UNCHANGED <<crlf, got, split>>
    BY <1>4 DEF R!ReadEncryptedHeader, R!IInv, R!FormFits, R!BeginFits
  <2>2. CASE request.sealed /\ R!FitsBuffer
    BY <1>0, <1>4, <2>1, <2>2
    DEF R!ReadEncryptedHeader, R!IInv, R!TypeOK, R!BeginFits, R!FormFits,
        R!LineIsFound, R!HandledIsWhole, R!RefusedIsWrong, R!Length,
        R!FitsBuffer
  <2>3. CASE ~(request.sealed /\ R!FitsBuffer)
    <3>1. waiting' = "refused"
      BY <1>4, <2>3 DEF R!ReadEncryptedHeader
    <3>2. request.sealed # cipher \/ R!TooLong
      <4>1. CASE ~request.sealed
        BY <2>1, <4>1, Zenon
      <4>2. CASE request.sealed /\ ~R!FitsBuffer
        BY <1>0, <2>1, <4>2 DEF R!TooLong, R!FitsBuffer, R!Length
      <4> QED BY <2>3, <4>1, <4>2
    <3>3. R!RefusedIsWrong'
      BY <2>1, <3>2 DEF R!RefusedIsWrong, R!TooLong, R!Length
    <3> QED
      BY <1>0, <2>1, <3>1, <3>3
      DEF R!IInv, R!TypeOK, R!BeginFits, R!FormFits, R!LineIsFound,
          R!HandledIsWhole, R!Length
  <2> QED BY <2>2, <2>3
<1>5. ASSUME R!ReadEncryptedMessage PROVE R!IInv'
  <2>1. /\ cipher /\ request.sealed /\ begin = 0
        /\ UNCHANGED <<cipher, request, begin, crlf, split>>
    BY <1>5 DEF R!ReadEncryptedMessage, R!IInv, R!FormFits, R!BeginFits
  <2>2. request.sealed = cipher
    <3>1. request.sealed \in BOOLEAN /\ cipher \in BOOLEAN
      BY <1>0 DEF R!IInv, R!TypeOK
    <3> QED BY <2>1, <3>1, Zenon
  <2>3. CASE request.sound /\ request.payload >= Needle
    <3>1. waiting' = "handled" /\ got' = R!Length
      BY <1>5, <2>3 DEF R!ReadEncryptedMessage
    <3>2. R!HandledIsWhole'
      BY <2>1, <2>2, <2>3, <3>1 DEF R!HandledIsWhole, R!Length
    <3> QED
      BY <1>0, <2>1, <3>1, <3>2
      DEF R!IInv, R!TypeOK, R!BeginFits, R!FormFits, R!LineIsFound,
          R!RefusedIsWrong, R!Length
  <2>4. CASE ~(request.sound /\ request.payload >= Needle)
    <3>1. waiting' = "refused" /\ got' = got
      BY <1>5, <2>4 DEF R!ReadEncryptedMessage
    <3>2. R!RefusedIsWrong'
      <4>1. ~request.sound \/ request.payload < Needle
        BY <1>0, <2>4
      <4>2. cipher' /\ request' = request
        BY <2>1, Zenon
      <4> QED BY <4>1, <4>2 DEF R!RefusedIsWrong
    <3> QED
      BY <1>0, <2>1, <3>1, <3>2
      DEF R!IInv, R!TypeOK, R!BeginFits, R!FormFits, R!LineIsFound,
          R!HandledIsWhole, R!Length
  <2> QED BY <2>3, <2>4
<1>6. ASSUME R!Breaks PROVE R!IInv'
  BY <1>6
  DEF R!Breaks, R!IInv, R!TypeOK, R!BeginFits, R!FormFits, R!LineIsFound,
      R!HandledIsWhole, R!RefusedIsWrong, R!Length
<1>7. ASSUME UNCHANGED R!vars PROVE R!IInv'
  BY <1>7
  DEF R!vars, R!IInv, R!TypeOK, R!BeginFits, R!FormFits, R!LineIsFound,
      R!HandledIsWhole, R!RefusedIsWrong, R!Length, R!TooLong, R!Enough,
      R!Needs, R!FitsBuffer
<1> QED BY <1>1, <1>2, <1>3, <1>4, <1>5, <1>6, <1>7 DEF R!Next

(* A request is given to the commands only whole and in the form agreed    *)
(* upon, no read goes past the end of the buffer, and, up to a blank line  *)
(* that comes in two reads, nothing that is there is waited for and        *)
(* nothing that is right is refused (socket_t of rtsp.cpp).                *)
THEOREM RequestsWhole == R!Init /\ [][R!Next]_R!vars => []RequestsAreWhole
<1>1. R!Init => R!IInv
  <2> SUFFICES ASSUME R!Init PROVE R!IInv
    OBVIOUS
  <2>1. R!TypeOK
    BY DEF R!Init, R!TypeOK
  <2> QED
    BY <2>1, RtspAssumption, RequestTypes
    DEF R!Init, R!IInv, R!TypeOK, R!BeginFits, R!FormFits, R!LineIsFound,
        R!HandledIsWhole, R!RefusedIsWrong, R!Length
<1>2. R!IInv /\ [R!Next]_R!vars => R!IInv'
  BY RtspNext
<1>3. R!IInv => RequestsAreWhole
  <2> SUFFICES ASSUME R!IInv PROVE RequestsAreWhole
    OBVIOUS
  <2>0. /\ request.header \in Nat /\ request.payload \in Nat
        /\ request.header >= Needle /\ begin \in Nat
        /\ request.sealed => request.header = Overhead
    BY RequestTypes DEF R!IInv, R!TypeOK
  <2>1. R!ReadsFit
    <3>1. begin + (IF waiting \in {"read", "payload"} THEN R!Room ELSE 0)
            <= BufSize
      BY <2>0, RtspAssumption DEF R!IInv, R!Room, R!Length, R!BeginFits
    <3>2. waiting = "body" => R!Length <= BufSize
      BY <2>0, RtspAssumption DEF R!IInv, R!FormFits, R!FitsBuffer, R!Length
    <3> QED BY <3>1, <3>2 DEF R!ReadsFit
  <2>2. R!WholeIsHandled
    <3>1. CASE waiting = "read"
      BY <2>0, <3>1, RtspAssumption
      DEF R!IInv, R!WholeIsHandled, R!LineIsFound, R!Length
    <3>2. CASE waiting = "payload"
      <4>1. crlf = request.header /\ begin - crlf < R!Needs
        BY <2>0, <3>2 DEF R!IInv, R!LineIsFound, R!Enough, R!Needs
      <4>2. begin # R!Length
        BY <2>0, <4>1 DEF R!Length, R!Needs
      <4> QED BY <4>2 DEF R!WholeIsHandled
    <3> QED BY <3>1, <3>2 DEF R!WholeIsHandled
  <2> QED
    BY <2>1, <2>2 DEF R!IInv, RequestsAreWhole, R!RequestsAreWhole
<1> QED BY <1>1, <1>2, <1>3, PTL

-----------------------------------------------------------------------------
(* WebConfig.                                                              *)

LEMMA TreeTypes ==
  /\ W!Empty \in W!Trees
  /\ \A t \in W!Trees : /\ t # None /\ t # Torn
                        /\ t.password \in Nat /\ t.clients \in Nat
                        /\ t = [password |-> t.password, clients |-> t.clients]
  /\ \A p, c \in Nat : [password |-> p, clients |-> c] \in W!Trees
BY WebAssumption DEF W!Trees, W!Empty

(* The part that a thread writes is changed in what it has read.           *)
LEMMA TreeChange ==
  ASSUME NEW t \in W!Trees, NEW n \in Nat
  PROVE  /\ [t EXCEPT !.password = n] =
              [password |-> n, clients |-> t.clients]
         /\ [t EXCEPT !.clients = n] =
              [password |-> t.password, clients |-> n]
BY DEF W!Trees

LEMMA StateKept ==
  ASSUME W!StateInv, UNCHANGED <<W!fileVars, creds, identity, starting, known>>
  PROVE  W!StateInv'
BY DEF W!StateInv, W!TypeOK, W!WhileDown, W!OneWriter, W!NewestIsUsed,
   W!fileVars, W!Up, W!Known, W!Saved, W!Newest

(* The steps that do not touch the pairs of the host.                      *)
LEMMA NewestKept ==
  ASSUME W!StateInv, UNCHANGED <<creds, identity, starting, known>>
  PROVE  W!NewestIsUsed'
BY DEF W!StateInv, W!NewestIsUsed, W!Newest

LEMMA SavePasswordInv ==
  ASSUME W!StateInv, NEW r \in W!Requests, NEW valid \in BOOLEAN,
         W!SavePassword(r, valid)
  PROVE  W!StateInv'
<1> USE WebAssumption
<1>1. /\ W!Up /\ web.at = "idle"
      /\ UNCHANGED <<password, clients, state_file, nv>>
      /\ UNCHANGED <<creds, identity, starting, known>>
  BY DEF W!SavePassword, W!Enter, W!identityVars
<1>2. CASE UNCHANGED <<passwords, web, torn>>
  BY <1>1, <1>2, StateKept DEF W!fileVars
<1>3. CASE ~UNCHANGED <<passwords, web, torn>>
  <2> DEFINE old == IF state_file = None THEN W!Empty ELSE state_file
  <2>1. /\ state_file # Torn /\ passwords' = passwords + 1
        /\ web' = [at |-> "write",
                   tree |-> [old EXCEPT !.password = passwords']]
        /\ torn' = (torn \/ nv.at # "idle")
    BY <1>3 DEF W!SavePassword
  <2>2. old \in W!Trees /\ passwords' \in Nat /\ passwords' # 0
        /\ old.clients \in Nat
    BY <2>1, TreeTypes DEF W!StateInv, W!TypeOK
  <2>3. web' = [at |-> "write", tree |-> [password |-> passwords',
                                          clients |-> old.clients]]
    <3> HIDE DEF old
    <3> QED BY <2>1, <2>2, TreeChange
  <2>4. [password |-> passwords', clients |-> old.clients] \in W!Trees
    BY <2>2, TreeTypes
  <2>5. W!TypeOK'
    <3> HIDE DEF old
    <3>1. torn' \in BOOLEAN
      BY <2>1, Zenon DEF W!StateInv, W!TypeOK
    <3>2. web' \in [at : {"idle", "write", "writing", "reload"},
                    tree : W!Trees]
      BY <2>3, <2>4
    <3>3. web'.at # "reload"
      BY <2>3
    <3> QED BY <1>1, <2>2, <3>1, <3>2, <3>3 DEF W!StateInv, W!TypeOK
  <2>6. W!WhileDown'
    BY <1>1 DEF W!StateInv, W!WhileDown, W!Up
  <2>7. W!OneWriter'
    <3> SUFFICES ASSUME ~torn' PROVE W!OneWriter'
      BY DEF W!OneWriter
    <3>1. ~torn /\ nv.at = "idle" /\ W!Saved
      BY <1>1, <2>1 DEF W!StateInv, W!OneWriter
    <3>2. old.clients = clients
      <4>1. W!Known \in W!Trees /\ W!Known.clients = clients
        BY TreeTypes DEF W!StateInv, W!TypeOK, W!Known
      <4>2. CASE state_file = W!Known
        BY <4>1, <4>2, TreeTypes
      <4>3. CASE state_file = None /\ W!Known = W!Empty
        BY <4>1, <4>3
      <4> QED BY <3>1, <4>2, <4>3 DEF W!Saved
    <3>3. W!Saved'
      BY <1>1, <3>1 DEF W!Saved, W!Known, W!Empty
    <3> HIDE DEF old
    <3>4. /\ web'.at = "write" /\ web'.tree.password # 0
          /\ web'.tree.clients = clients'
      BY <1>1, <2>2, <2>3, <3>2
    <3> QED BY <1>1, <3>1, <3>3, <3>4 DEF W!OneWriter
  <2> QED BY <1>1, <2>5, <2>6, <2>7, NewestKept DEF W!StateInv
<1> QED BY <1>2, <1>3

LEMMA WebEmptiesInv ==
  ASSUME W!StateInv, W!WebEmpties PROVE W!StateInv'
<1>1. /\ web.at = "write" /\ state_file' = Torn
      /\ web' = [web EXCEPT !.at = "writing"]
      /\ UNCHANGED <<password, passwords, clients, nv, torn>>
      /\ UNCHANGED <<creds, identity, starting, known>>
  BY DEF W!WebEmpties, W!identityVars
<1>2. web' = [at |-> "writing", tree |-> web.tree] /\ web.tree \in W!Trees
  BY <1>1 DEF W!StateInv, W!TypeOK
<1>3. W!TypeOK'
  BY <1>1, <1>2 DEF W!StateInv, W!TypeOK
<1>4. W!Up
  BY <1>1 DEF W!StateInv, W!WhileDown
<1>5. W!WhileDown'
  BY <1>1, <1>4 DEF W!StateInv, W!WhileDown, W!Up
<1>6. W!OneWriter'
  <2> SUFFICES ASSUME ~torn' PROVE W!OneWriter'
    BY DEF W!OneWriter
  <2>1. /\ nv.at = "idle" /\ web.tree.password # 0
        /\ web.tree.clients = clients
    BY <1>1, <1>4 DEF W!StateInv, W!OneWriter
  <2>2. web'.at = "writing" /\ web'.tree = web.tree
    BY <1>2
  <2> QED BY <1>1, <2>1, <2>2 DEF W!OneWriter
<1> QED BY <1>1, <1>3, <1>5, <1>6, NewestKept DEF W!StateInv

LEMMA WebWritesInv ==
  ASSUME W!StateInv, W!WebWrites PROVE W!StateInv'
<1>1. /\ web.at = "writing" /\ W!Written(web.tree)
      /\ web' = IF state_file' = Torn THEN W!Idle
                ELSE [web EXCEPT !.at = "reload"]
      /\ UNCHANGED <<password, passwords, clients, nv>>
      /\ UNCHANGED <<creds, identity, starting, known>>
  BY DEF W!WebWrites, W!identityVars
<1>2. /\ web.tree \in W!Trees /\ web.tree # Torn /\ web.tree # None
      /\ [web EXCEPT !.at = "reload"] = [at |-> "reload", tree |-> web.tree]
  BY TreeTypes DEF W!StateInv, W!TypeOK
<1>4. W!Up
  BY <1>1 DEF W!StateInv, W!WhileDown
<1>5. CASE state_file' = web.tree /\ UNCHANGED torn
  <2>1. web' = [at |-> "reload", tree |-> web.tree]
    BY <1>1, <1>2, <1>5
  <2>2. W!TypeOK'
    BY <1>1, <1>2, <1>5, <2>1 DEF W!StateInv, W!TypeOK
  <2>3. W!WhileDown'
    BY <1>1, <1>4, <1>5 DEF W!StateInv, W!WhileDown, W!Up
  <2>4. W!OneWriter'
    <3> SUFFICES ASSUME ~torn' PROVE W!OneWriter'
      BY DEF W!OneWriter
    <3>1. /\ nv.at = "idle" /\ web.tree.password # 0
          /\ web.tree.clients = clients
      BY <1>1, <1>4, <1>5 DEF W!StateInv, W!OneWriter
    <3>2. web'.at = "reload" /\ web'.tree = web.tree
      BY <2>1
    <3> QED BY <1>1, <1>5, <3>1, <3>2 DEF W!OneWriter
  <2> QED BY <1>1, <2>2, <2>3, <2>4, NewestKept DEF W!StateInv
<1>6. CASE state_file' = Torn /\ torn' = TRUE
  <2>1. web' = [at |-> "idle", tree |-> W!Empty]
    BY <1>1, <1>6 DEF W!Idle
  <2>2. W!TypeOK'
    BY <1>1, <1>6, <2>1, TreeTypes DEF W!StateInv, W!TypeOK
  <2>3. W!WhileDown'
    BY <1>1, <1>4, <1>6 DEF W!StateInv, W!WhileDown, W!Up
  <2>4. W!OneWriter'
    BY <1>6 DEF W!OneWriter
  <2> QED BY <1>1, <2>2, <2>3, <2>4, NewestKept DEF W!StateInv
<1> QED BY <1>1, <1>5, <1>6 DEF W!Written

LEMMA ReloadCredsInv ==
  ASSUME W!StateInv, W!ReloadCreds PROVE W!StateInv'
<1>1. /\ web.at = "reload" /\ web' = [at |-> "idle", tree |-> W!Empty]
      /\ password' = (IF state_file # Torn /\ state_file.password # 0
                      THEN state_file.password ELSE password)
      /\ UNCHANGED <<passwords, clients, state_file, nv, torn>>
      /\ UNCHANGED <<creds, identity, starting, known>>
  BY DEF W!ReloadCreds, W!Idle, W!identityVars
<1>2. W!Up
  BY <1>1 DEF W!StateInv, W!WhileDown
<1>3. W!TypeOK'
  <2>1. state_file # Torn => state_file \in W!Trees
    BY <1>1 DEF W!StateInv, W!TypeOK
  <2>2. password' \in Nat
    BY <1>1, <2>1, TreeTypes DEF W!StateInv, W!TypeOK
  <2> QED BY <1>1, <2>2, TreeTypes DEF W!StateInv, W!TypeOK
<1>4. W!WhileDown'
  BY <1>1, <1>2 DEF W!StateInv, W!WhileDown, W!Up
<1>5. W!OneWriter'
  <2> SUFFICES ASSUME ~torn' PROVE W!OneWriter'
    BY DEF W!OneWriter
  <2>1. /\ nv.at = "idle" /\ state_file = web.tree
        /\ web.tree.password # 0 /\ web.tree.clients = clients
        /\ web.tree \in W!Trees
    BY <1>1, <1>2 DEF W!StateInv, W!OneWriter, W!TypeOK
  <2>2. password' = state_file.password /\ clients' = state_file.clients
    BY <1>1, <2>1, TreeTypes
  <2>3. W!Saved'
    BY <1>1, <2>1, <2>2, TreeTypes DEF W!Saved, W!Known
  <2> QED BY <1>1, <2>1, <2>3 DEF W!OneWriter
<1> QED BY <1>1, <1>3, <1>4, <1>5, NewestKept DEF W!StateInv

LEMMA PairClientInv ==
  ASSUME W!StateInv, W!PairClient PROVE W!StateInv'
<1>1. /\ W!Up /\ nv.at = "idle" /\ clients' = clients + 1
      /\ known' = (IF known = 0 THEN identity ELSE known)
      /\ torn' = (torn \/ web.at # "idle")
      /\ UNCHANGED <<password, passwords, state_file, web>>
      /\ UNCHANGED <<creds, identity, starting>>
  BY DEF W!PairClient
<1>2. W!WhileDown'
  BY <1>1 DEF W!StateInv, W!WhileDown, W!Up
<1>3. W!NewestIsUsed'
  BY <1>1 DEF W!StateInv, W!NewestIsUsed, W!WhileDown, W!Up, W!Newest
<1>4. /\ torn' \in BOOLEAN /\ clients' \in Nat /\ known' \in Nat
  <2>1. torn' \in BOOLEAN
    BY <1>1, Zenon DEF W!StateInv, W!TypeOK
  <2> QED BY <1>1, <2>1 DEF W!StateInv, W!TypeOK
<1>5. CASE state_file = Torn
  <2>1. UNCHANGED nv
    BY <1>5 DEF W!PairClient
  <2>2. W!TypeOK'
    BY <1>1, <1>4, <2>1 DEF W!StateInv, W!TypeOK
  <2>3. torn'
    <3> SUFFICES ASSUME ~torn, web.at = "idle" PROVE FALSE
      BY <1>1
    <3>1. W!Saved
      BY <1>1 DEF W!StateInv, W!OneWriter
    <3> QED BY <1>5, <3>1, WebAssumption, TreeTypes
            DEF W!Saved, W!Known, W!StateInv, W!TypeOK
  <2> QED BY <1>2, <1>3, <2>2, <2>3 DEF W!StateInv, W!OneWriter
<1>6. CASE state_file # Torn
  <2> DEFINE old == IF state_file = None THEN W!Empty ELSE state_file
  <2>1. nv' = [at |-> "write", tree |-> [old EXCEPT !.clients = clients']]
    BY <1>6 DEF W!PairClient
  <2>2. old \in W!Trees /\ old.password \in Nat
    BY <1>6, TreeTypes DEF W!StateInv, W!TypeOK
  <2>3. nv' = [at |-> "write", tree |-> [password |-> old.password,
                                         clients |-> clients']]
    <3> HIDE DEF old
    <3> QED BY <1>4, <2>1, <2>2, TreeChange
  <2>4. nv' \in [at : {"idle", "write", "writing"}, tree : W!Trees]
    <3> HIDE DEF old
    <3>1. [password |-> old.password, clients |-> clients'] \in W!Trees
      BY <1>4, <2>2, TreeTypes
    <3> QED BY <2>3, <3>1
  <2>5. W!TypeOK'
    BY <1>1, <1>4, <2>4 DEF W!StateInv, W!TypeOK
  <2>6. W!OneWriter'
    <3> SUFFICES ASSUME ~torn' PROVE W!OneWriter'
      BY DEF W!OneWriter
    <3>1. ~torn /\ web.at = "idle" /\ W!Saved
      BY <1>1 DEF W!StateInv, W!OneWriter
    <3>2. old.password = password
      <4>1. W!Known \in W!Trees /\ W!Known.password = password
        BY TreeTypes DEF W!StateInv, W!TypeOK, W!Known
      <4>2. CASE state_file = W!Known
        BY <4>1, <4>2, TreeTypes
      <4>3. CASE state_file = None /\ W!Known = W!Empty
        BY <4>1, <4>3
      <4> QED BY <3>1, <4>2, <4>3 DEF W!Saved
    <3>3. nv'.at = "write" /\ nv'.tree = W!Known'
      BY <1>1, <2>3, <3>2 DEF W!Known
    <3> QED BY <1>1, <1>6, <3>1, <3>3 DEF W!OneWriter
  <2> QED BY <1>2, <1>3, <2>5, <2>6 DEF W!StateInv
<1> QED BY <1>5, <1>6

LEMMA NvEmptiesInv ==
  ASSUME W!StateInv, W!NvEmpties PROVE W!StateInv'
<1>1. /\ nv.at = "write" /\ state_file' = Torn
      /\ nv' = [nv EXCEPT !.at = "writing"]
      /\ UNCHANGED <<password, passwords, clients, web, torn>>
      /\ UNCHANGED <<creds, identity, starting, known>>
  BY DEF W!NvEmpties, W!identityVars
<1>2. nv' = [at |-> "writing", tree |-> nv.tree] /\ nv.tree \in W!Trees
  BY <1>1 DEF W!StateInv, W!TypeOK
<1>3. W!TypeOK'
  BY <1>1, <1>2, WebAssumption DEF W!StateInv, W!TypeOK
<1>4. W!Up
  BY <1>1 DEF W!StateInv, W!WhileDown
<1>5. W!WhileDown'
  BY <1>1, <1>4 DEF W!StateInv, W!WhileDown, W!Up
<1>6. W!OneWriter'
  <2> SUFFICES ASSUME ~torn' PROVE W!OneWriter'
    BY DEF W!OneWriter
  <2>1. web.at = "idle" /\ nv.tree = W!Known
    BY <1>1, <1>4 DEF W!StateInv, W!OneWriter
  <2>2. nv'.at = "writing" /\ nv'.tree = W!Known'
    BY <1>1, <1>2, <2>1 DEF W!Known
  <2> QED BY <1>1, <2>1, <2>2 DEF W!OneWriter
<1> QED BY <1>1, <1>3, <1>5, <1>6, NewestKept DEF W!StateInv

LEMMA NvWritesInv ==
  ASSUME W!StateInv, W!NvWrites PROVE W!StateInv'
<1>1. /\ nv.at = "writing" /\ W!Written(nv.tree)
      /\ nv' = [at |-> "idle", tree |-> W!Empty]
      /\ UNCHANGED <<password, passwords, clients, web>>
      /\ UNCHANGED <<creds, identity, starting, known>>
  BY DEF W!NvWrites, W!Idle, W!identityVars
<1>2. nv.tree \in W!Trees /\ nv.tree # None /\ nv.tree # Torn
  BY TreeTypes DEF W!StateInv, W!TypeOK
<1>3. state_file' \in {nv.tree, Torn} /\ torn' \in BOOLEAN
  <2>1. torn' \in BOOLEAN
    BY <1>1, Zenon DEF W!Written, W!StateInv, W!TypeOK
  <2> QED BY <1>1, <2>1 DEF W!Written
<1>4. W!TypeOK'
  BY <1>1, <1>2, <1>3, TreeTypes, WebAssumption DEF W!StateInv, W!TypeOK
<1>5. W!Up
  BY <1>1 DEF W!StateInv, W!WhileDown
<1>6. W!WhileDown'
  BY <1>1, <1>5 DEF W!StateInv, W!WhileDown, W!Up
<1>7. W!OneWriter'
  <2> SUFFICES ASSUME ~torn' PROVE W!OneWriter'
    BY DEF W!OneWriter
  <2>1. ~torn /\ state_file' = nv.tree
    BY <1>1 DEF W!Written
  <2>2. web.at = "idle" /\ nv.tree = W!Known
    BY <1>1, <1>5, <2>1 DEF W!StateInv, W!OneWriter
  <2>3. W!Saved'
    BY <1>1, <2>1, <2>2 DEF W!Saved, W!Known
  <2> QED BY <1>1, <2>2, <2>3 DEF W!OneWriter
<1> QED BY <1>1, <1>4, <1>6, <1>7, NewestKept DEF W!StateInv

(* A host that starts knows what the file has.                             *)
LEMMA LoadFileInv ==
  ASSUME W!StateInv, ~W!Up, W!LoadFile, starting' = "up", identity' # 0,
         UNCHANGED <<state_file, web, nv, torn, passwords>>
  PROVE  /\ password' \in Nat /\ clients' \in Nat
         /\ W!WhileDown' /\ W!OneWriter'
<1>1. web.at = "idle" /\ nv.at = "idle" /\ (~torn => state_file # Torn)
  BY DEF W!StateInv, W!WhileDown
<1>2. password' \in Nat /\ clients' \in Nat
  BY TreeTypes DEF W!LoadFile, W!StateInv, W!TypeOK, W!Empty
<1>3. W!WhileDown'
  BY DEF W!WhileDown, W!Up
<1>4. ~torn => W!Saved'
  <2> SUFFICES ASSUME ~torn PROVE W!Saved'
    OBVIOUS
  <2>1. CASE state_file = None
    <3>1. password' = 0 /\ clients' = 0
      BY <2>1 DEF W!LoadFile, W!Empty
    <3> QED BY <2>1, <3>1 DEF W!Saved, W!Known, W!Empty
  <2>2. CASE state_file # None
    <3>1. state_file \in W!Trees
      BY <1>1, <2>2 DEF W!StateInv, W!TypeOK
    <3>2. password' = state_file.password /\ clients' = state_file.clients
      BY <1>1, <2>2 DEF W!LoadFile
    <3>3. state_file' = W!Known'
      BY <3>1, <3>2, TreeTypes DEF W!Known
    <3> QED BY <3>3 DEF W!Saved
  <2> QED BY <2>1, <2>2
<1>5. W!OneWriter'
  BY <1>1, <1>4 DEF W!OneWriter
<1> QED BY <1>2, <1>3, <1>5

LEMMA StartInv ==
  ASSUME W!StateInv, W!Start PROVE W!StateInv'
<1>1. /\ starting = "down" /\ ~W!Up
      /\ UNCHANGED <<passwords, state_file, web, nv, torn, creds, known>>
  BY DEF W!Start, W!StateInv, W!WhileDown
<1>2. CASE creds # <<>> /\ creds[W!Newest].cert
  <2>1. starting' = "up" /\ identity' = W!Newest /\ W!LoadFile
    BY <1>2 DEF W!Start
  <2>2. W!Newest \in Nat /\ W!Newest # 0
    BY <1>2 DEF W!StateInv, W!TypeOK, W!Newest
  <2>3. /\ password' \in Nat /\ clients' \in Nat
        /\ W!WhileDown' /\ W!OneWriter'
    BY <1>1, <2>1, <2>2, LoadFileInv
  <2>4. W!TypeOK'
    BY <1>1, <2>1, <2>2, <2>3 DEF W!StateInv, W!TypeOK
  <2>5. W!NewestIsUsed'
    BY <1>1, <1>2, <2>1 DEF W!StateInv, W!NewestIsUsed, W!Newest
  <2> QED BY <2>3, <2>4, <2>5 DEF W!StateInv
<1>3. CASE ~(creds # <<>> /\ creds[W!Newest].cert)
  <2>1. starting' = "pkey" /\ UNCHANGED <<identity, password, clients>>
    BY <1>3 DEF W!Start
  <2>2. W!TypeOK'
    BY <1>1, <2>1 DEF W!StateInv, W!TypeOK
  <2>3. W!WhileDown'
    BY <1>1, <2>1 DEF W!StateInv, W!WhileDown, W!Up, W!Known
  <2>4. W!OneWriter'
    BY <1>1, <2>1 DEF W!OneWriter, W!Up
  <2>5. known = 0
    <3> SUFFICES ASSUME known # 0 PROVE FALSE
      OBVIOUS
    <3>1. known = W!Newest /\ creds[W!Newest].cert
      BY DEF W!StateInv, W!NewestIsUsed
    <3>2. creds = <<>>
      BY <1>3, <3>1
    <3> QED BY <3>1, <3>2 DEF W!Newest
  <2>6. W!NewestIsUsed'
    BY <1>1, <2>1, <2>5 DEF W!StateInv, W!NewestIsUsed, W!Newest, W!Up
  <2> QED BY <2>2, <2>3, <2>4, <2>6 DEF W!StateInv
<1> QED BY <1>2, <1>3

LEMMA CreateKeyInv ==
  ASSUME W!StateInv, W!CreateKey PROVE W!StateInv'
<1>1. /\ starting = "pkey" /\ starting' = "cert" /\ ~W!Up /\ known = 0
      /\ creds' = Append(creds, [cert |-> FALSE])
      /\ UNCHANGED <<password, passwords, clients, state_file, web, nv, torn>>
      /\ UNCHANGED <<identity, known>>
  BY DEF W!CreateKey, W!StateInv, W!WhileDown, W!NewestIsUsed, W!fileVars
<1>2. creds' \in Seq([cert : BOOLEAN]) /\ creds' # <<>>
  <2>1. creds \in Seq([cert : BOOLEAN])
    BY DEF W!StateInv, W!TypeOK
  <2>2. [cert |-> FALSE] \in [cert : BOOLEAN]
    OBVIOUS
  <2> QED BY <1>1, <2>1, <2>2
<1>3. W!TypeOK'
  BY <1>1, <1>2 DEF W!StateInv, W!TypeOK
<1>4. W!WhileDown' /\ W!OneWriter'
  BY <1>1 DEF W!StateInv, W!WhileDown, W!OneWriter, W!Up, W!Known
<1>5. W!NewestIsUsed'
  BY <1>1, <1>2 DEF W!NewestIsUsed, W!Up
<1> QED BY <1>3, <1>4, <1>5 DEF W!StateInv

LEMMA CreateCertInv ==
  ASSUME W!StateInv, W!CreateCert PROVE W!StateInv'
<1>1. /\ starting = "cert" /\ starting' = "up" /\ ~W!Up /\ known = 0
      /\ creds' = [creds EXCEPT ![W!Newest] = [cert |-> TRUE]]
      /\ identity' = W!Newest /\ W!LoadFile /\ creds # <<>>
      /\ UNCHANGED <<passwords, state_file, web, nv, torn, known>>
  BY DEF W!CreateCert, W!StateInv, W!WhileDown, W!NewestIsUsed
<1>2. W!Newest \in 1..Len(creds) /\ creds \in Seq([cert : BOOLEAN])
  BY <1>1 DEF W!StateInv, W!TypeOK, W!Newest
<1>3. /\ creds' \in Seq([cert : BOOLEAN]) /\ Len(creds') = Len(creds)
      /\ creds'[W!Newest].cert
  <2>1. [cert |-> TRUE] \in [cert : BOOLEAN]
    OBVIOUS
  <2> QED BY <1>1, <1>2, <2>1
<1>4. W!Newest' = W!Newest
  BY <1>3 DEF W!Newest
<1>5. /\ password' \in Nat /\ clients' \in Nat
      /\ W!WhileDown' /\ W!OneWriter'
  BY <1>1, <1>2, LoadFileInv
<1>6. W!TypeOK'
  BY <1>1, <1>2, <1>3, <1>5 DEF W!StateInv, W!TypeOK
<1>7. W!NewestIsUsed'
  BY <1>1, <1>3, <1>4 DEF W!NewestIsUsed
<1> QED BY <1>5, <1>6, <1>7 DEF W!StateInv

LEMMA CrashInv ==
  ASSUME W!StateInv, W!Crash PROVE W!StateInv'
<1>1. /\ starting' = "down" /\ identity' = 0 /\ password' = 0 /\ clients' = 0
      /\ web' = [at |-> "idle", tree |-> W!Empty]
      /\ nv' = [at |-> "idle", tree |-> W!Empty]
      /\ torn' = (torn \/ state_file = Torn)
      /\ UNCHANGED <<passwords, state_file, creds, known>>
  BY DEF W!Crash, W!Idle
<1>2. torn' \in BOOLEAN
  BY <1>1, Zenon DEF W!StateInv, W!TypeOK
<1>3. W!TypeOK'
  BY <1>1, <1>2, TreeTypes DEF W!StateInv, W!TypeOK
<1>4. W!WhileDown'
  BY <1>1 DEF W!WhileDown, W!Up, W!Known, W!Empty
<1>5. W!OneWriter'
  BY <1>1 DEF W!OneWriter, W!Up
<1>6. W!NewestIsUsed'
  BY <1>1 DEF W!StateInv, W!NewestIsUsed, W!Newest
<1> QED BY <1>3, <1>4, <1>5, <1>6 DEF W!StateInv

LEMMA StateNext == W!StateInv /\ [W!Next]_W!vars => W!StateInv'
<1> SUFFICES ASSUME W!StateInv, [W!Next]_W!vars PROVE W!StateInv'
  OBVIOUS
<1>1. ASSUME NEW r \in W!Requests,
             \/ W!Refuse(r) \/ W!GetCSRFToken(r)
             \/ \E t \in Tokens : W!DeleteToken(r, t)
      PROVE  W!StateInv'
  BY <1>1, StateKept
  DEF W!Refuse, W!GetCSRFToken, W!DeleteToken, W!identityVars
<1>2. CASE W!Tick \/ UNCHANGED W!vars
  BY <1>2, StateKept DEF W!Tick, W!vars, W!identityVars
<1> QED
  BY <1>1, <1>2, SavePasswordInv, WebEmptiesInv, WebWritesInv, ReloadCredsInv,
     PairClientInv, NvEmptiesInv, NvWritesInv, StartInv, CreateKeyInv,
     CreateCertInv, CrashInv
  DEF W!Next

(* Whenever nobody writes, a restart would find the password and the       *)
(* clients that the host has now, and it uses the pair that its clients    *)
(* were paired with, whatever crashes there were (save_user_creds,         *)
(* save_state, http::init): as long as no write failed or was cut short    *)
(* and the two threads were not in the file at once.                       *)
THEOREM HostStateKept == W!Init /\ [][W!Next]_W!vars => []HostStateSurvives
<1>1. W!Init => W!StateInv
  <2> SUFFICES ASSUME W!Init PROVE W!StateInv
    OBVIOUS
  <2>1. W!Idle = [at |-> "idle", tree |-> W!Empty] /\ ~W!Up
    BY DEF W!Idle, W!Init, W!Up
  <2>2. <<>> \in Seq([cert : BOOLEAN])
    OBVIOUS
  <2>3. W!TypeOK
    BY <2>1, <2>2, TreeTypes DEF W!Init, W!TypeOK
  <2>4. W!WhileDown /\ W!OneWriter
    BY <2>1, WebAssumption
    DEF W!Init, W!WhileDown, W!OneWriter, W!Known, W!Empty
  <2>5. W!NewestIsUsed
    BY DEF W!Init, W!NewestIsUsed
  <2> QED BY <2>3, <2>4, <2>5 DEF W!StateInv
<1>2. W!StateInv /\ [W!Next]_W!vars => W!StateInv'
  BY StateNext
<1>3. W!StateInv => HostStateSurvives
  BY DEF W!StateInv, W!OneWriter, W!NewestIsUsed, W!Saved, W!Known, W!Empty,
     W!StateIsSaved, W!IdentityIsKept, W!HostStateSurvives,
     HostStateSurvives, W!Up
<1> QED BY <1>1, <1>2, <1>3, PTL

(* What becomes of a bucket: it is pruned, time goes by, it is opened.     *)
LEMMA BucketTypes ==
  ASSUME NEW b \in W!Buckets, b # None
  PROVE  /\ b.window_start \in Nat /\ b.failures \in 0..LOGIN_FAIL_LIMIT
         /\ b \in [window_start : Nat, failures : 0..LOGIN_FAIL_LIMIT]
BY DEF W!Buckets

LEMMA PrunedCounts ==
  ASSUME NEW b \in W!Buckets, NEW g \in Seq(Nat), NEW t \in Nat,
         W!Counted(b, g, t), W!Spread(g, t),
         b # None, t - b.window_start > LOGIN_FAIL_WINDOW
  PROVE  W!Counted(None, g, t)
<1> SUFFICES ASSUME NEW k \in DOMAIN g, k + LOGIN_FAIL_LIMIT <= Len(g)
             PROVE  g[k] + LOGIN_FAIL_WINDOW < t
  BY DEF W!Counted
<1>1. k \in 1..Len(g) /\ g[k] \in Nat
  OBVIOUS
<1>2. g[k] <= b.window_start
  BY <1>1, BucketTypes, LoginAssumption DEF W!Counted
<1> QED BY <1>1, <1>2, BucketTypes, LoginAssumption

LEMMA TimeCounts ==
  ASSUME NEW b \in W!Buckets, NEW g \in Seq(Nat), NEW t \in Nat,
         W!Counted(b, g, t), W!Spread(g, t)
  PROVE  W!Counted(b, g, t + 1) /\ W!Spread(g, t + 1)
<1>1. \A k \in DOMAIN g : g[k] \in Nat
  OBVIOUS
<1> QED
  BY <1>1, BucketTypes, LoginAssumption DEF W!Counted, W!Spread

LEMMA OpenedCounts ==
  ASSUME NEW g \in Seq(Nat), NEW t \in Nat,
         W!Counted(None, g, t), W!Spread(g, t)
  PROVE  W!Counted([window_start |-> t, failures |-> 0], g, t)
<1> DEFINE b == [window_start |-> t, failures |-> 0]
<1>1. b # None
  BY LoginAssumption
<1>2. b.window_start = t /\ b.failures = 0
  OBVIOUS
<1>3. \A k \in DOMAIN g : k \in Nat /\ g[k] \in Nat
  OBVIOUS
<1> HIDE DEF b
<1>4. W!Counted(b, g, t)
  BY <1>1, <1>2, <1>3, LoginAssumption DEF W!Counted, W!Spread
<1> QED BY <1>4 DEF b

(* One more failure, within the limit.                                     *)
LEMMA FailureCounts ==
  ASSUME NEW b \in W!Buckets, NEW g \in Seq(Nat), NEW t \in Nat, b # None,
         W!Counted(b, g, t), W!Spread(g, t), b.failures < LOGIN_FAIL_LIMIT
  PROVE  /\ [b EXCEPT !.failures = @ + 1] \in W!Buckets
         /\ W!Counted([b EXCEPT !.failures = @ + 1], Append(g, t), t)
         /\ W!Spread(Append(g, t), t)
<1> DEFINE c == [b EXCEPT !.failures = @ + 1]
           h == Append(g, t)
<1>1. /\ b.window_start \in Nat /\ b.failures \in Nat
      /\ b.window_start <= t
      /\ LOGIN_FAIL_LIMIT \in Nat /\ LOGIN_FAIL_WINDOW \in Nat
  BY BucketTypes, LoginAssumption DEF W!Counted
<1>2. /\ c \in [window_start : Nat, failures : 0..LOGIN_FAIL_LIMIT]
      /\ c.window_start = b.window_start /\ c.failures = b.failures + 1
  BY <1>1, BucketTypes
<1>3. /\ h \in Seq(Nat) /\ Len(h) = Len(g) + 1 /\ Len(g) \in Nat
      /\ DOMAIN h = 1..Len(g) + 1 /\ DOMAIN g = 1..Len(g)
      /\ h[Len(g) + 1] = t
      /\ \A k \in DOMAIN g : h[k] = g[k] /\ g[k] \in Nat
  OBVIOUS
<1> HIDE DEF c, h
<1>4. c # None /\ c \in W!Buckets
  BY <1>2, LoginAssumption DEF W!Buckets
<1>5. W!Counted(c, h, t)
  <2> SUFFICES ASSUME NEW k \in DOMAIN h
               PROVE /\ k + c.failures <= Len(h) => h[k] <= c.window_start
                     /\ k + c.failures + LOGIN_FAIL_LIMIT <= Len(h) =>
                          h[k] + LOGIN_FAIL_WINDOW < c.window_start
    BY <1>1, <1>2, <1>4 DEF W!Counted
  <2>1. CASE k \in DOMAIN g
    <3>1. /\ k + b.failures <= Len(g) => g[k] <= b.window_start
          /\ k + b.failures + LOGIN_FAIL_LIMIT <= Len(g) =>
               g[k] + LOGIN_FAIL_WINDOW < b.window_start
      BY <2>1 DEF W!Counted
    <3>2. k \in Nat /\ g[k] \in Nat /\ h[k] = g[k]
      BY <1>3, <2>1
    <3>3. k + c.failures <= Len(h) => k + b.failures <= Len(g)
      BY <1>1, <1>2, <1>3, <3>2
    <3>4. k + c.failures + LOGIN_FAIL_LIMIT <= Len(h) =>
            k + b.failures + LOGIN_FAIL_LIMIT <= Len(g)
      <4>1. \A x, y, z, n \in Nat : x + (y + 1) + z <= n + 1 => x + y + z <= n
        OBVIOUS
      <4>2. c.failures = b.failures + 1 /\ Len(h) = Len(g) + 1
            /\ Len(g) \in Nat
        BY <1>2, <1>3
      <4> QED BY <1>1, <3>2, <4>1, <4>2
    <3> QED BY <1>2, <3>1, <3>2, <3>3, <3>4
  <2>2. CASE k = Len(g) + 1
    BY <1>1, <1>2, <1>3, <2>2
  <2> QED BY <1>3, <2>1, <2>2
<1>6. W!Spread(h, t)
  <2>1. \A k \in DOMAIN h : h[k] <= t
    BY <1>3 DEF W!Spread
  <2>2. ASSUME NEW j \in DOMAIN h, NEW k \in DOMAIN h, j <= k
        PROVE  h[j] <= h[k]
    <3>1. CASE k \in DOMAIN g
      <4>1. j \in DOMAIN g
        BY <1>3, <2>2, <3>1
      <4> QED BY <1>3, <2>2, <3>1, <4>1 DEF W!Spread
    <3>2. CASE k = Len(g) + 1
      BY <1>3, <2>1, <3>2
    <3> QED BY <1>3, <3>1, <3>2
  <2>3. ASSUME NEW k \in DOMAIN h, k + 2 * LOGIN_FAIL_LIMIT \in DOMAIN h
        PROVE  h[k] + LOGIN_FAIL_WINDOW < h[k + 2 * LOGIN_FAIL_LIMIT]
    <3>1. k \in DOMAIN g
      BY <1>1, <1>3, <2>3
    <3>2. CASE k + 2 * LOGIN_FAIL_LIMIT \in DOMAIN g
      BY <1>3, <3>1, <3>2 DEF W!Spread
    <3>3. CASE k + 2 * LOGIN_FAIL_LIMIT = Len(g) + 1
      <4>1. k + b.failures + LOGIN_FAIL_LIMIT <= Len(g)
        <5>1. \A x, y, z, n \in Nat :
                y < z /\ x + 2 * z = n + 1 => x + y + z <= n
          OBVIOUS
        <5>2. k \in Nat /\ Len(g) \in Nat
          BY <1>3, <3>1
        <5> QED BY <1>1, <3>3, <5>1, <5>2
      <4>2. g[k] + LOGIN_FAIL_WINDOW < b.window_start
        BY <3>1, <4>1 DEF W!Counted
      <4>3. h[k + 2 * LOGIN_FAIL_LIMIT] = t
        BY <1>3, <3>3
      <4>4. h[k] = g[k] /\ g[k] \in Nat
        BY <1>3, <3>1
      <4> QED BY <1>1, <4>2, <4>3, <4>4
    <3> QED BY <1>3, <2>3, <3>1, <3>2, <3>3
  <2> QED BY <2>1, <2>2, <2>3 DEF W!Spread
<1> QED BY <1>4, <1>5, <1>6 DEF c, h

(* prune_rate_limits, and the bucket that is looked at after it.           *)
LEMMA PrunedInv ==
  ASSUME W!LoginInv, NEW a \in Addresses
  PROVE  /\ W!Pruned[a] \in W!Buckets
         /\ W!Counted(W!Pruned[a], guesses[a], now)
         /\ W!Spread(guesses[a], now)
<1> DEFINE b == g_login_failures[a]
<1>1. /\ b \in W!Buckets /\ guesses[a] \in Seq(Nat) /\ now \in Nat
      /\ W!Counted(b, guesses[a], now) /\ W!Spread(guesses[a], now)
  BY DEF W!LoginInv
<1>2. W!Pruned[a] =
        IF b # None /\ now - b.window_start > LOGIN_FAIL_WINDOW
        THEN None ELSE b
  BY DEF W!Pruned
<1>3. CASE b # None /\ now - b.window_start > LOGIN_FAIL_WINDOW
  <2>1. W!Counted(None, guesses[a], now)
    BY <1>1, <1>3, PrunedCounts
  <2> QED BY <1>1, <1>2, <1>3, <2>1 DEF W!Buckets
<1>4. CASE ~(b # None /\ now - b.window_start > LOGIN_FAIL_WINDOW)
  BY <1>1, <1>2, <1>4
<1> QED BY <1>3, <1>4

LEMMA BucketInv ==
  ASSUME W!LoginInv, NEW a \in Addresses
  PROVE  /\ W!Bucket(a) \in W!Buckets /\ W!Bucket(a) # None
         /\ W!Counted(W!Bucket(a), guesses[a], now)
<1>1. guesses[a] \in Seq(Nat) /\ now \in Nat
  BY DEF W!LoginInv
<1>2. CASE W!Pruned[a] = None
  <2>1. W!Bucket(a) = [window_start |-> now, failures |-> 0]
    BY <1>2 DEF W!Bucket
  <2>2. W!Counted([window_start |-> now, failures |-> 0], guesses[a], now)
    BY <1>1, <1>2, PrunedInv, OpenedCounts
  <2>3. [window_start |-> now, failures |-> 0]
          \in [window_start : Nat, failures : 0..LOGIN_FAIL_LIMIT]
    BY <1>1, LoginAssumption
  <2> QED BY <2>1, <2>2, <2>3, LoginAssumption DEF W!Buckets
<1>3. CASE W!Pruned[a] # None
  BY <1>3, PrunedInv DEF W!Bucket
<1> QED BY <1>2, <1>3

(* A step that looks at one address, and prunes the others.                *)
LEMMA LoginStep ==
  ASSUME W!LoginInv, NEW a \in Addresses, NEW b \in W!Buckets,
         NEW g \in Seq(Nat), W!Counted(b, g, now), W!Spread(g, now),
         now' = now, g_login_failures' = [W!Pruned EXCEPT ![a] = b],
         guesses' = [guesses EXCEPT ![a] = g]
  PROVE  W!LoginInv'
<1>1. now \in Nat /\ guesses \in [Addresses -> Seq(Nat)]
  BY DEF W!LoginInv
<1>2. W!Pruned \in [Addresses -> W!Buckets]
  <2>1. W!Pruned = [c \in Addresses |-> W!Pruned[c]]
    BY DEF W!Pruned
  <2> QED BY <2>1, PrunedInv
<1>3. /\ g_login_failures' \in [Addresses -> W!Buckets]
      /\ guesses' \in [Addresses -> Seq(Nat)]
  BY <1>1, <1>2
<1>4. ASSUME NEW c \in Addresses
      PROVE  /\ W!Counted(g_login_failures'[c], guesses'[c], now)
             /\ W!Spread(guesses'[c], now)
  <2>1. CASE c = a
    <3>1. g_login_failures'[c] = b /\ guesses'[c] = g
      BY <1>1, <1>2, <2>1
    <3> QED BY <3>1
  <2>2. CASE c # a
    <3>1. g_login_failures'[c] = W!Pruned[c] /\ guesses'[c] = guesses[c]
      BY <1>1, <1>2, <2>2
    <3> QED BY <3>1, PrunedInv
  <2> QED BY <2>1, <2>2
<1> QED BY <1>1, <1>3, <1>4 DEF W!LoginInv

LEMMA EmptyCounts ==
  ASSUME NEW t \in Nat
  PROVE  /\ <<>> \in Seq(Nat) /\ None \in W!Buckets
         /\ W!Counted(None, <<>>, t) /\ W!Spread(<<>>, t)
<1>1. DOMAIN <<>> = {} /\ <<>> \in Seq(Nat)
  OBVIOUS
<1> QED BY <1>1 DEF W!Buckets, W!Counted, W!Spread

LEMMA EnterInv ==
  ASSUME W!LoginInv, NEW r \in W!Requests, W!Enter(r), now' = now
  PROVE  W!LoginInv'
<1>1. r.address \in Addresses /\ now \in Nat
  BY DEF W!Requests, W!LoginInv
<1>2. /\ g_login_failures' = [W!Pruned EXCEPT ![r.address] = None]
      /\ guesses' = [guesses EXCEPT ![r.address] = <<>>]
  BY DEF W!Enter
<1> QED BY <1>1, <1>2, EmptyCounts, LoginStep

LEMMA RefuseInv ==
  ASSUME W!LoginInv, NEW r \in W!Requests, W!Refuse(r)
  PROVE  W!LoginInv'
<1> DEFINE a == r.address
<1>1. /\ a \in Addresses /\ now \in Nat /\ guesses[a] \in Seq(Nat)
      /\ guesses \in [Addresses -> Seq(Nat)]
  BY DEF W!Requests, W!LoginInv
<1>2. /\ W!Bucket(a) \in W!Buckets /\ W!Bucket(a) # None
      /\ W!Counted(W!Bucket(a), guesses[a], now)
      /\ W!Spread(guesses[a], now)
  BY <1>1, BucketInv, PrunedInv
<1>3. CASE ~W!rate_limit_allow(a) \/ password = 0
  <2>1. /\ g_login_failures' = [W!Pruned EXCEPT ![a] = W!Bucket(a)]
        /\ guesses' = guesses /\ now' = now
    BY <1>3 DEF W!Refuse
  <2>2. guesses' = [guesses EXCEPT ![a] = guesses[a]]
    BY <1>1, <2>1
  <2> QED BY <1>1, <1>2, <2>1, <2>2, LoginStep
<1>4. CASE ~(~W!rate_limit_allow(a) \/ password = 0)
  <2>1. /\ g_login_failures' = [W!Pruned EXCEPT ![a] =
                                  [W!Bucket(a) EXCEPT !.failures = @ + 1]]
        /\ guesses' = [guesses EXCEPT ![a] = Append(guesses[a], now)]
        /\ now' = now
    BY <1>1, <1>4 DEF W!Refuse, W!rate_limit_record_failure
  <2>2. W!Bucket(a).failures < LOGIN_FAIL_LIMIT
    BY <1>4 DEF W!rate_limit_allow
  <2> DEFINE b == [W!Bucket(a) EXCEPT !.failures = @ + 1]
             g == Append(guesses[a], now)
  <2>3. /\ b \in W!Buckets /\ W!Counted(b, g, now) /\ W!Spread(g, now)
    BY <1>1, <1>2, <2>2, FailureCounts
  <2>4. g \in Seq(Nat)
    BY <1>1
  <2> HIDE DEF b, g, a
  <2>5. /\ g_login_failures' = [W!Pruned EXCEPT ![a] = b]
        /\ guesses' = [guesses EXCEPT ![a] = g]
    BY <2>1 DEF b, g
  <2> QED BY <1>1, <2>1, <2>3, <2>4, <2>5, LoginStep
<1> QED BY <1>3, <1>4

LEMMA LoginKept ==
  ASSUME W!LoginInv, UNCHANGED <<now, g_login_failures, guesses>>
  PROVE  W!LoginInv'
BY DEF W!LoginInv

LEMMA LoginNext == W!LoginInv /\ [W!Next]_W!vars => W!LoginInv'
<1> SUFFICES ASSUME W!LoginInv, [W!Next]_W!vars PROVE W!LoginInv'
  OBVIOUS
<1>1. ASSUME NEW r \in W!Requests,
             \/ W!GetCSRFToken(r)
             \/ \E t \in Tokens : W!DeleteToken(r, t)
      PROVE  W!LoginInv'
  BY <1>1, EnterInv DEF W!GetCSRFToken, W!DeleteToken
<1>2. ASSUME NEW r \in W!Requests, NEW valid \in BOOLEAN,
             W!SavePassword(r, valid)
      PROVE  W!LoginInv'
  <2>1. now' = now
    BY <1>2 DEF W!SavePassword
  <2>2. CASE password = 0
    BY <1>2, <2>1, <2>2, LoginKept DEF W!SavePassword
  <2>3. CASE password # 0
    BY <1>2, <2>1, <2>3, EnterInv DEF W!SavePassword
  <2> QED BY <2>2, <2>3
<1>3. CASE W!Tick
  <2>1. /\ now' = now + 1 /\ now \in Nat
        /\ UNCHANGED <<g_login_failures, guesses>>
    BY <1>3 DEF W!Tick, W!LoginInv
  <2> QED BY <2>1, TimeCounts DEF W!LoginInv
<1>4. CASE W!Crash
  <2>1. /\ g_login_failures' = [a \in Addresses |-> None] /\ now' = now
        /\ guesses' = [a \in Addresses |-> <<>>] /\ now \in Nat
    BY <1>4 DEF W!Crash, W!LoginInv
  <2> QED BY <2>1, EmptyCounts DEF W!LoginInv
<1>5. ASSUME \/ W!WebEmpties \/ W!WebWrites \/ W!ReloadCreds
             \/ W!PairClient \/ W!NvEmpties \/ W!NvWrites
             \/ W!Start \/ W!CreateKey \/ W!CreateCert
             \/ UNCHANGED W!vars
      PROVE  W!LoginInv'
  BY <1>5, LoginKept
  DEF W!WebEmpties, W!WebWrites, W!ReloadCreds, W!PairClient, W!NvEmpties,
      W!NvWrites, W!Start, W!CreateKey, W!CreateCert, W!loginVars, W!vars
<1> QED BY <1>1, <1>2, <1>3, <1>4, <1>5, RefuseInv DEF W!Next

LEMMA SameCardinality == \A S : W!Cardinality(S) = Cardinality(S)
BY DEF W!Cardinality, Cardinality

(* Of guesses that are spread, one window has no more than twice the       *)
(* limit: from the least that is in it on.                                 *)
LEMMA SpreadBounds ==
  ASSUME NEW g \in Seq(Nat), NEW t \in Nat, NEW from \in Nat, W!Spread(g, t)
  PROVE  Cardinality({k \in DOMAIN g :
                        g[k] \in from .. from + LOGIN_FAIL_WINDOW})
           <= 2 * LOGIN_FAIL_LIMIT
<1> DEFINE S == {k \in DOMAIN g : g[k] \in from .. from + LOGIN_FAIL_WINDOW}
           limit == 2 * LOGIN_FAIL_LIMIT
<1>0. LOGIN_FAIL_WINDOW \in Nat /\ limit \in Nat
  BY LoginAssumption
<1> SUFFICES Cardinality(S) <= limit
  OBVIOUS
<1>1. CASE S = {}
  <2> HIDE DEF S, limit
  <2> QED BY <1>0, <1>1, FS_EmptySet
<1>2. CASE S # {}
  <2>1. DOMAIN g \subseteq Nat /\ \A k \in DOMAIN g : g[k] \in Nat
    OBVIOUS
  <2>2. PICK low \in S : \A k \in S : low <= k
    BY <1>2, <2>1, LeastNumber
  <2> DEFINE high == low + limit
  <2>3. low \in DOMAIN g /\ low \in Nat /\ high \in Nat
    <3> HIDE DEF limit
    <3> QED BY <1>0, <2>1
  <2>4. ASSUME NEW k \in S PROVE k \in low .. high - 1
    <3>1. k \in DOMAIN g /\ k \in Nat /\ low <= k
      BY <2>1, <2>2
    <3> SUFFICES ASSUME k >= high PROVE FALSE
      BY <2>3, <3>1
    <3>2. high \in DOMAIN g
      <4>1. DOMAIN g = 1..Len(g) /\ Len(g) \in Nat
        OBVIOUS
      <4>2. high >= low
        BY <1>0, <2>3
      <4> HIDE DEF high
      <4> QED BY <2>3, <3>1, <4>1, <4>2
    <3>3. g[low] + LOGIN_FAIL_WINDOW < g[high] /\ g[high] <= g[k]
      BY <2>3, <3>1, <3>2 DEF W!Spread
    <3>4. g[low] >= from /\ g[k] <= from + LOGIN_FAIL_WINDOW
      BY <2>1, <2>3, <3>1
    <3> QED BY <1>0, <2>1, <2>3, <3>1, <3>2, <3>3, <3>4
  <2> HIDE DEF S, limit
  <2>5. /\ IsFiniteSet(low .. high - 1)
        /\ Cardinality(low .. high - 1) <= limit
    <3>1. low \in Int /\ high - 1 \in Int
      BY <2>3
    <3>2. Cardinality(low .. high - 1) =
            IF low > high - 1 THEN 0 ELSE high - 1 - low + 1
      BY <3>1, FS_Interval
    <3>3. (IF low > high - 1 THEN 0 ELSE high - 1 - low + 1) <= limit
      BY <1>0, <2>3
    <3> QED BY <3>1, <3>2, <3>3, FS_Interval
  <2>6. /\ IsFiniteSet(S) /\ Cardinality(S) <= Cardinality(low .. high - 1)
    BY <2>4, <2>5, FS_Subset
  <2>7. Cardinality(S) \in Nat /\ Cardinality(low .. high - 1) \in Nat
    BY <2>5, <2>6, FS_CardinalityType
  <2> QED BY <1>0, <2>5, <2>6, <2>7
<1> QED BY <1>1, <1>2

(* In no stretch of the length of the window does an address have more     *)
(* than twice the limit of passwords refused since it last signed in       *)
(* (rate_limit_allow, rate_limit_record_failure).                          *)
THEOREM GuessesBounded == W!Init /\ [][W!Next]_W!vars => []GuessesAreBounded
<1>1. W!Init => W!LoginInv
  BY EmptyCounts DEF W!Init, W!LoginInv
<1>2. W!LoginInv /\ [W!Next]_W!vars => W!LoginInv'
  BY LoginNext
<1>3. W!LoginInv => GuessesAreBounded
  <2> SUFFICES ASSUME W!LoginInv, NEW a \in Addresses, NEW t \in 0 .. MaxTime
               PROVE  Cardinality({k \in DOMAIN guesses[a] :
                        guesses[a][k] \in t .. t + LOGIN_FAIL_WINDOW})
                        <= 2 * LOGIN_FAIL_LIMIT
    BY SameCardinality DEF GuessesAreBounded, W!GuessesAreBounded
  <2>1. guesses[a] \in Seq(Nat) /\ now \in Nat /\ W!Spread(guesses[a], now)
    BY DEF W!LoginInv
  <2> QED BY <2>1, SpreadBounds
<1> QED BY <1>1, <1>2, <1>3, PTL

-----------------------------------------------------------------------------
(* DesktopCapture.                                                         *)

LEMMA ShownTypes ==
  /\ \A n \in Nat, c \in BOOLEAN :
       D!Frame(n, c) \in D!Shown /\ D!Frame(n, c).frame = n
  /\ \A s \in D!Shown : s.frame \in Nat /\ s.cursor \in BOOLEAN
  /\ \A h \in D!Held : h.img \in Images /\ h.meant \in D!Shown
BY DEF D!Shown, D!Held, D!Frame

(* What complete_img changes, and what not.                                *)
LEMMA CompleteImg ==
  ASSUME D!TypeOK, NEW i \in Images, NEW dummy \in BOOLEAN,
         NEW shows \in D!Shown, NEW reused \in BOOLEAN,
         D!complete_img(i, dummy, shows, reused)
  PROVE  /\ imgs' \in [Images -> [texture : Nat, dummy : BOOLEAN,
                                  shows : D!Shown]]
         /\ textures' \in Nat /\ aliased \subseteq aliased'
         /\ imgs'[i].shows = shows
         /\ \A j \in Images \ {i} : imgs'[j] = imgs[j]
<1> DEFINE Pool == [texture : Nat, dummy : BOOLEAN, shows : D!Shown]
           new == [texture |-> IF D!Completed(imgs[i], dummy)
                               THEN imgs[i].texture ELSE textures + 1,
                   dummy |-> dummy, shows |-> shows]
<1>1. imgs \in [Images -> Pool] /\ textures \in Nat
  BY DEF D!TypeOK
<1>2. imgs' = [imgs EXCEPT ![i] = new]
  BY DEF D!complete_img
<1>3. new \in Pool /\ new.shows = shows
  BY <1>1
<1>4. textures' \in Nat /\ aliased \subseteq aliased'
  <2>1. CASE D!Completed(imgs[i], dummy)
    BY <1>1, <2>1 DEF D!complete_img
  <2>2. CASE ~D!Completed(imgs[i], dummy)
    BY <1>1, <2>2 DEF D!complete_img
  <2> QED BY <2>1, <2>2
<1> HIDE DEF new, Pool
<1>5. imgs' \in [Images -> Pool] /\ imgs'[i] = new
      /\ \A j \in Images \ {i} : imgs'[j] = imgs[j]
  BY <1>1, <1>2, <1>3
<1> QED BY <1>3, <1>4, <1>5 DEF Pool

(* Images that encoders have are left alone.                               *)
LEMMA WholeKept ==
  ASSUME D!TypeOK, D!ImagesStayWhole, UNCHANGED <<next, at>>,
         \A i \in Images : D!Used(i) => imgs'[i].shows = imgs[i].shows
  PROVE  D!ImagesStayWhole'
<1> SUFFICES ASSUME NEW e \in Encoders, NEW held \in D!HeldBy(e)
             PROVE  imgs'[held.img].shows = held.meant
  BY DEF D!ImagesStayWhole, D!HeldBy
<1>1. held \in D!Held
  BY DEF D!HeldBy, D!TypeOK
<1>2. held.img \in Images /\ D!Used(held.img)
  BY <1>1, ShownTypes DEF D!Used
<1>3. imgs[held.img].shows = held.meant
  BY DEF D!ImagesStayWhole
<1> QED BY <1>2, <1>3

LEMMA TexturesKept ==
  ASSUME D!TexturesAreCurrent, stale' = stale, aliased \subseteq aliased'
  PROVE  D!TexturesAreCurrent'
BY DEF D!TexturesAreCurrent

LEMMA AcquireInv ==
  ASSUME D!IInv, NEW f \in BOOLEAN, NEW m \in BOOLEAN, NEW shown \in BOOLEAN,
         NEW wanted \in BOOLEAN, D!Acquire(f, m, shown, wanted)
  PROVE  D!IInv'
<1>1. /\ pc = "acquire" /\ pc' = "last" /\ src' = f
      /\ frame' = (IF f THEN frame + 1 ELSE frame)
      /\ visible' = (IF m THEN shown ELSE visible)
      /\ blend' = (visible' /\ wanted)
      /\ UNCHANGED <<backend, last_frame, surface, produced, imgs, textures>>
      /\ UNCHANGED <<next, at, opened, stale, aliased>>
  BY DEF D!Acquire, D!poolVars, D!encVars
<1>2. D!TypeOK'
  <2>1. visible' \in BOOLEAN /\ frame' \in Nat
    BY <1>1 DEF D!IInv, D!TypeOK
  <2>2. blend' \in BOOLEAN
    BY <1>1, Zenon
  <2> QED BY <1>1, <2>1, <2>2 DEF D!IInv, D!TypeOK
<1>3. D!Clean'
  <2> SUFFICES ASSUME backend = "vram", frame' > 0, ~f PROVE D!Clean'
    BY <1>1 DEF D!Clean
  <2>1. frame' = frame
    BY <1>1
  <2> QED BY <1>1, <2>1 DEF D!IInv, D!Clean
<1>4. D!ImagesStayWhole'
  BY <1>1, WholeKept DEF D!IInv
<1> QED BY <1>1, <1>2, <1>3, <1>4, TexturesKept DEF D!IInv

(* last_frame_action: what is kept afterwards is clean.                    *)
LEMMA LastFrameInv ==
  ASSUME D!IInv, D!LastFrame PROVE D!IInv'
<1>1. /\ pc = "last" /\ pc' = "out" /\ src' = FALSE
      /\ UNCHANGED <<backend, frame, visible, blend, produced, next, at>>
      /\ UNCHANGED <<opened, stale>>
  BY DEF D!LastFrame
<1>2. ASSUME UNCHANGED <<imgs, textures, aliased>>,
             last_frame' \in Images \cup {None, "surface"},
             surface' \in D!Shown, D!Clean'
      PROVE  D!IInv'
  <2>1. D!TypeOK'
    BY <1>1, <1>2 DEF D!IInv, D!TypeOK
  <2>2. D!ImagesStayWhole'
    BY <1>1, <1>2, WholeKept DEF D!IInv
  <2> QED BY <1>1, <1>2, <2>1, <2>2, TexturesKept DEF D!IInv
<1>3. CASE backend = "ram"
  <2>1. UNCHANGED <<last_frame, surface, imgs, textures, aliased>>
    BY <1>3 DEF D!LastFrame, D!poolVars
  <2>2. D!Clean'
    BY <1>1, <1>3 DEF D!Clean
  <2> QED BY <1>2, <2>1, <2>2 DEF D!IInv, D!TypeOK
<1>4. CASE backend # "ram" /\ D!NothingKnown
  <2>1. /\ UNCHANGED <<last_frame, surface, imgs, textures, aliased>>
        /\ frame' = 0
    BY <1>1, <1>4 DEF D!NothingKnown, D!poolVars
  <2>2. D!Clean'
    BY <2>1 DEF D!Clean
  <2> QED BY <1>2, <2>1, <2>2 DEF D!IInv, D!TypeOK
<1>5. CASE D!KeepLast
  <2>1. /\ UNCHANGED <<last_frame, surface, imgs, textures, aliased>> /\ ~src
    BY <1>5 DEF D!KeepLast, D!poolVars
  <2>2. D!Clean'
    BY <1>1, <2>1 DEF D!Clean, D!IInv
  <2> QED BY <1>2, <2>1, <2>2 DEF D!IInv, D!TypeOK
<1>6. CASE D!CopySrcToSurface
  <2>1. /\ last_frame' = "surface" /\ surface' = D!Frame(frame, FALSE)
        /\ UNCHANGED <<imgs, textures, aliased>>
    BY <1>6 DEF D!CopySrcToSurface, D!poolVars
  <2>2. D!Clean'
    BY <1>1, <2>1, ImagesAssumption DEF D!Clean
  <2>3. surface' \in D!Shown
    BY <2>1, ShownTypes DEF D!IInv, D!TypeOK
  <2> QED BY <1>2, <2>1, <2>2, <2>3
<1>7. CASE D!ReplaceImgWithSurface
  <2>1. /\ ~src /\ last_frame \in Images /\ last_frame' = "surface"
        /\ surface' = imgs[last_frame].shows
        /\ UNCHANGED <<imgs, textures, aliased>>
    BY <1>7 DEF D!ReplaceImgWithSurface, D!poolVars
  <2>2. D!Clean'
    BY <1>1, <2>1, ImagesAssumption DEF D!Clean, D!IInv
  <2>3. surface' \in D!Shown
    BY <2>1 DEF D!IInv, D!TypeOK
  <2> QED BY <1>2, <2>1, <2>2, <2>3
<1>8. ASSUME NEW i \in Images, NEW reused \in BOOLEAN,
             D!CopySrcToImg(i, reused)
      PROVE  D!IInv'
  <2>1. /\ ~D!Used(i) /\ last_frame' = i /\ UNCHANGED surface
        /\ D!complete_img(i, FALSE, D!Frame(frame, FALSE), reused)
    BY <1>8 DEF D!CopySrcToImg
  <2>2. D!Frame(frame, FALSE) \in D!Shown
    BY ShownTypes DEF D!IInv, D!TypeOK
  <2>3. /\ imgs' \in [Images -> [texture : Nat, dummy : BOOLEAN,
                                 shows : D!Shown]]
        /\ textures' \in Nat /\ aliased \subseteq aliased'
        /\ imgs'[i].shows = D!Frame(frame, FALSE)
        /\ \A j \in Images \ {i} : imgs'[j] = imgs[j]
    BY <2>1, <2>2, CompleteImg DEF D!IInv
  <2>4. D!TypeOK'
    BY <1>1, <2>1, <2>3 DEF D!IInv, D!TypeOK
  <2>5. D!Clean'
    BY <1>1, <2>1, <2>3, ImagesAssumption DEF D!Clean
  <2>6. D!ImagesStayWhole'
    BY <1>1, <2>1, <2>3, WholeKept DEF D!IInv
  <2> QED BY <1>1, <2>3, <2>4, <2>5, <2>6, TexturesKept DEF D!IInv
<1>9. ASSUME NEW i \in Images, NEW reused \in BOOLEAN,
             D!ReplaceSurfaceWithImg(i, reused)
      PROVE  D!IInv'
  <2>1. /\ ~src /\ last_frame = "surface" /\ ~D!Used(i)
        /\ last_frame' = i /\ surface' = D!Black
        /\ D!complete_img(i, FALSE, surface, reused)
    BY <1>9 DEF D!ReplaceSurfaceWithImg, D!Pulled
  <2>2. surface \in D!Shown /\ D!Black \in D!Shown
    BY DEF D!IInv, D!TypeOK, D!Black, D!Shown
  <2>3. /\ imgs' \in [Images -> [texture : Nat, dummy : BOOLEAN,
                                 shows : D!Shown]]
        /\ textures' \in Nat /\ aliased \subseteq aliased'
        /\ imgs'[i].shows = surface
        /\ \A j \in Images \ {i} : imgs'[j] = imgs[j]
    BY <2>1, <2>2, CompleteImg DEF D!IInv
  <2>4. D!TypeOK'
    BY <1>1, <2>1, <2>2, <2>3 DEF D!IInv, D!TypeOK
  <2>5. D!Clean'
    BY <1>1, <2>1, <2>3, ImagesAssumption DEF D!Clean, D!IInv
  <2>6. D!ImagesStayWhole'
    BY <1>1, <2>1, <2>3, WholeKept DEF D!IInv
  <2> QED BY <1>1, <2>3, <2>4, <2>5, <2>6, TexturesKept DEF D!IInv
<1> QED
  BY <1>3, <1>4, <1>5, <1>6, <1>7, <1>8, <1>9 DEF D!LastFrame

(* An image is pushed that shows what it is said to show.                  *)
LEMMA PushedInv ==
  ASSUME D!IInv, NEW i \in Images, D!Pushed(i), at' = at,
         imgs'[i].shows = D!Frame(frame, blend),
         \A j \in Images : D!Used(j) => imgs'[j].shows = imgs[j].shows
  PROVE  D!ImagesStayWhole' /\ next' \in [Encoders -> D!Held \cup {None}]
<1> DEFINE new == [img |-> i, meant |-> D!Frame(frame, blend)]
<1>1. next' = [e \in Encoders |-> new]
  BY DEF D!Pushed
<1>2. new \in D!Held /\ new.img = i /\ new.meant = D!Frame(frame, blend)
  BY ShownTypes DEF D!Held, D!IInv, D!TypeOK
<1> HIDE DEF new
<1>3. ASSUME NEW e \in Encoders, NEW held \in D!HeldBy(e)'
      PROVE  imgs'[held.img].shows = held.meant
  <2>1. held = new \/ (held = at[e] /\ held # None)
    BY <1>1, <1>3 DEF D!HeldBy
  <2>2. CASE held = new
    BY <1>2, <2>2
  <2>3. CASE held = at[e] /\ held # None
    <3>1. held \in D!HeldBy(e) /\ held \in D!Held
      BY <2>3 DEF D!HeldBy, D!IInv, D!TypeOK
    <3>2. D!Used(held.img) /\ held.img \in Images
      BY <3>1, ShownTypes DEF D!Used
    <3>3. imgs[held.img].shows = held.meant
      BY <3>1 DEF D!IInv, D!ImagesStayWhole
    <3> QED BY <3>2, <3>3
  <2> QED BY <2>1, <2>2, <2>3
<1> QED BY <1>1, <1>2, <1>3 DEF D!ImagesStayWhole

LEMMA OutFrameInv ==
  ASSUME D!IInv, D!OutFrame PROVE D!IInv'
<1>1. /\ pc = "out" /\ pc' = "acquire" /\ blend' = FALSE
      /\ UNCHANGED <<backend, frame, visible, src, last_frame, surface>>
      /\ UNCHANGED <<produced, at, opened, stale>>
  BY DEF D!OutFrame
<1>2. /\ frame \in Nat /\ blend \in BOOLEAN /\ D!TypeOK
      /\ D!Frame(frame, blend) \in D!Shown
  BY ShownTypes DEF D!IInv, D!TypeOK
<1>3. CASE backend = "vram" /\ D!ForwardLastImg
  <2>1. /\ frame > 0 /\ ~blend /\ last_frame \in Images
        /\ D!Pushed(last_frame) /\ UNCHANGED <<imgs, textures, aliased>>
    BY <1>3 DEF D!ForwardLastImg, D!poolVars
  <2>2. blend = FALSE
    BY <1>2, <2>1, Zenon
  <2>3. imgs'[last_frame].shows = D!Frame(frame, blend)
    BY <1>1, <1>3, <2>1, <2>2 DEF D!IInv, D!Clean
  <2>4. D!ImagesStayWhole' /\ next' \in [Encoders -> D!Held \cup {None}]
    BY <1>1, <2>1, <2>3, PushedInv
  <2>5. D!TypeOK'
    BY <1>1, <2>1, <2>4 DEF D!IInv, D!TypeOK
  <2>6. D!Clean'
    BY <1>1, <2>1 DEF D!IInv, D!Clean
  <2> QED BY <1>1, <2>1, <2>4, <2>5, <2>6, TexturesKept DEF D!IInv
\* Every other way fills an image that nobody has.
<1>4. ASSUME NEW i \in Images, NEW reused \in BOOLEAN, NEW dummy \in BOOLEAN,
             D!Pulled(i), D!Pushed(i),
             D!complete_img(i, dummy, D!Frame(frame, blend), reused)
      PROVE  D!IInv'
  <2>1. /\ imgs' \in [Images -> [texture : Nat, dummy : BOOLEAN,
                                 shows : D!Shown]]
        /\ textures' \in Nat /\ aliased \subseteq aliased'
        /\ imgs'[i].shows = D!Frame(frame, blend)
        /\ \A j \in Images \ {i} : imgs'[j] = imgs[j]
    BY <1>2, <1>4, CompleteImg
  <2>2. /\ i # last_frame
        /\ \A j \in Images : D!Used(j) => imgs'[j].shows = imgs[j].shows
    BY <1>4, <2>1 DEF D!Pulled
  <2>3. D!ImagesStayWhole' /\ next' \in [Encoders -> D!Held \cup {None}]
    BY <1>1, <1>4, <2>1, <2>2, PushedInv
  <2>4. D!TypeOK'
    BY <1>1, <2>1, <2>3 DEF D!IInv, D!TypeOK
  <2>5. D!Clean'
    BY <1>1, <2>1, <2>2 DEF D!IInv, D!Clean
  <2> QED BY <1>1, <2>1, <2>3, <2>4, <2>5, TexturesKept DEF D!IInv
<1>5. ASSUME NEW i \in Images, NEW reused \in BOOLEAN, backend = "vram",
             D!CopyLastSurfaceAndBlendCursor(i, reused)
      PROVE  D!IInv'
  <2>1. /\ frame > 0 /\ blend /\ last_frame = "surface"
        /\ D!Pulled(i) /\ D!Pushed(i)
        /\ D!complete_img(i, FALSE, D!Frame(surface.frame, TRUE), reused)
    BY <1>5 DEF D!CopyLastSurfaceAndBlendCursor
  <2>2. blend = TRUE
    BY <1>2, <2>1, Zenon
  <2>3. surface = D!Frame(frame, FALSE)
    BY <1>1, <1>5, <2>1 DEF D!IInv, D!Clean
  <2>4. D!Frame(surface.frame, TRUE) = D!Frame(frame, blend)
    BY <2>2, <2>3 DEF D!Frame
  <2> QED BY <1>4, <2>1, <2>4
<1>6. ASSUME NEW i \in Images, D!DummyFallback(i) PROVE D!IInv'
  <2>1. /\ frame = 0 /\ D!Pulled(i) /\ D!Pushed(i)
        /\ D!complete_img(i, TRUE, D!Frame(frame, blend), FALSE)
    BY <1>6 DEF D!DummyFallback
  <2> QED BY <1>4, <2>1
<1>7. ASSUME NEW i \in Images, NEW reused \in BOOLEAN, D!CopyToImg(i, reused)
      PROVE  D!IInv'
  <2>1. /\ D!Pulled(i) /\ D!Pushed(i) /\ (frame = 0) \in BOOLEAN
        /\ D!complete_img(i, frame = 0, D!Frame(frame, blend), reused)
    BY <1>7 DEF D!CopyToImg
  <2> QED BY <1>4, <2>1
<1> QED BY <1>3, <1>5, <1>6, <1>7 DEF D!OutFrame

LEMMA TrimInv ==
  ASSUME D!IInv, NEW i \in Images, D!Trim(i) PROVE D!IInv'
<1>1. /\ D!Pulled(i) /\ imgs' = [imgs EXCEPT ![i] = D!NewImage]
      /\ UNCHANGED <<backend, pc, frame, visible, src, blend, last_frame>>
      /\ UNCHANGED <<surface, produced, textures, next, at, stale, aliased>>
  BY DEF D!Trim, D!snapVars
<1>2. D!NewImage \in [texture : Nat, dummy : BOOLEAN, shows : D!Shown]
  BY DEF D!NewImage, D!Black, D!Shown
<1>3. imgs' \in [Images -> [texture : Nat, dummy : BOOLEAN, shows : D!Shown]]
      /\ \A j \in Images \ {i} : imgs'[j] = imgs[j]
  BY <1>1, <1>2 DEF D!IInv, D!TypeOK
<1>4. D!TypeOK'
  BY <1>1, <1>3 DEF D!IInv, D!TypeOK
<1>5. D!Clean'
  BY <1>1, <1>3 DEF D!IInv, D!Clean, D!Pulled
<1>6. D!ImagesStayWhole'
  BY <1>1, <1>3, WholeKept DEF D!IInv, D!Pulled
<1> QED BY <1>1, <1>4, <1>5, <1>6, TexturesKept DEF D!IInv

(* An encoder takes an image and is done with it.                          *)
LEMMA EncoderInv ==
  ASSUME D!IInv, NEW e \in Encoders, D!Take(e) \/ D!Convert(e)
  PROVE  D!IInv'
<1>1. /\ UNCHANGED <<backend, pc, frame, visible, src, blend, last_frame>>
      /\ UNCHANGED <<surface, produced, imgs, textures, aliased>>
  BY DEF D!Take, D!Convert, D!snapVars, D!poolVars
<1>2. /\ next' \in [Encoders -> D!Held \cup {None}]
      /\ at' \in [Encoders -> D!Held \cup {None}]
      /\ \A f \in Encoders : D!HeldBy(f)' \subseteq D!HeldBy(f)
  BY DEF D!Take, D!Convert, D!HeldBy, D!IInv, D!TypeOK
<1>3. D!TypeOK' /\ D!Clean'
  BY <1>1, <1>2 DEF D!IInv, D!TypeOK, D!Clean
<1>4. D!ImagesStayWhole'
  BY <1>1, <1>2 DEF D!IInv, D!ImagesStayWhole
<1>5. D!TexturesAreCurrent'
  <2>1. CASE D!Take(e)
    BY <2>1, TexturesKept DEF D!Take, D!IInv
  <2>2. CASE D!Convert(e)
    <3> DEFINE i == at[e].img
    <3>1. CASE stale' = stale
      BY <1>1, <3>1, TexturesKept DEF D!IInv
    <3>2. CASE stale' # stale
      <4>1. D!IsOpen(e, i) /\ opened[e][i] # imgs[i].texture
        BY <2>2, <3>2 DEF D!Convert
      <4>2. aliased # {}
        BY <4>1 DEF D!IsOpen
      <4> QED BY <1>1, <4>2 DEF D!TexturesAreCurrent
    <3> QED BY <3>1, <3>2
  <2> QED BY <2>1, <2>2
<1> QED BY <1>3, <1>4, <1>5 DEF D!IInv

LEMMA CaptureNext == D!IInv /\ [D!Next]_D!vars => D!IInv'
<1> SUFFICES ASSUME D!IInv, [D!Next]_D!vars PROVE D!IInv'
  OBVIOUS
<1>1. ASSUME NEW own \in BOOLEAN, D!on_frame_arrived(own) PROVE D!IInv'
  <2>1. /\ UNCHANGED <<backend, pc, frame, visible, src, blend, last_frame>>
        /\ UNCHANGED <<surface, imgs, textures, next, at, stale, aliased>>
        /\ produced' = D!Frame((IF produced = None THEN frame
                                ELSE produced.frame) + 1, own)
    BY <1>1 DEF D!on_frame_arrived, D!snapVars, D!poolVars, D!encVars
  <2>2. produced' \in D!Shown
    BY <2>1, ShownTypes DEF D!IInv, D!TypeOK
  <2>3. D!TypeOK' /\ D!Clean'
    BY <2>1, <2>2 DEF D!IInv, D!TypeOK, D!Clean
  <2>4. D!ImagesStayWhole'
    BY <2>1, WholeKept DEF D!IInv
  <2> QED BY <2>1, <2>3, <2>4, TexturesKept DEF D!IInv
<1>2. ASSUME D!Consume PROVE D!IInv'
  <2>1. /\ backend = "wgc" /\ produced # None /\ produced' = None
        /\ frame' = produced.frame /\ blend' = produced.cursor /\ pc' = "out"
        /\ UNCHANGED <<backend, visible, src, last_frame, surface>>
        /\ UNCHANGED <<imgs, textures, next, at, stale, aliased>>
    BY <1>2 DEF D!Consume, D!poolVars, D!encVars
  <2>2. frame' \in Nat /\ blend' \in BOOLEAN
    BY <2>1, ShownTypes DEF D!IInv, D!TypeOK
  <2>3. D!TypeOK' /\ D!Clean'
    BY <2>1, <2>2 DEF D!IInv, D!TypeOK, D!Clean
  <2>4. D!ImagesStayWhole'
    BY <2>1, WholeKept DEF D!IInv
  <2> QED BY <2>1, <2>3, <2>4, TexturesKept DEF D!IInv
<1>3. ASSUME D!Ends PROVE D!IInv'
  <2>1. /\ pc' = "over" /\ last_frame' = None
        /\ UNCHANGED <<backend, frame, visible, src, blend, surface>>
        /\ UNCHANGED <<produced, imgs, textures, next, at, stale, aliased>>
    BY <1>3 DEF D!Ends, D!poolVars, D!encVars
  <2>2. D!TypeOK' /\ D!Clean'
    BY <2>1 DEF D!IInv, D!TypeOK, D!Clean
  <2>3. D!ImagesStayWhole'
    BY <2>1, WholeKept DEF D!IInv
  <2> QED BY <2>1, <2>2, <2>3, TexturesKept DEF D!IInv
<1>4. ASSUME UNCHANGED D!vars PROVE D!IInv'
  <2>1. /\ UNCHANGED <<backend, pc, frame, visible, src, blend, last_frame>>
        /\ UNCHANGED <<surface, produced, imgs, textures, next, at>>
        /\ UNCHANGED <<stale, aliased>>
    BY <1>4 DEF D!vars, D!snapVars, D!poolVars, D!encVars
  <2>2. D!TypeOK' /\ D!Clean'
    BY <2>1 DEF D!IInv, D!TypeOK, D!Clean
  <2>3. D!ImagesStayWhole'
    BY <2>1, WholeKept DEF D!IInv
  <2> QED BY <2>1, <2>2, <2>3, TexturesKept DEF D!IInv
<1> QED
  BY <1>1, <1>2, <1>3, <1>4, AcquireInv, LastFrameInv, OutFrameInv, TrimInv,
     EncoderInv
  DEF D!Next

(* What an encoder has or gets is the frame that was captured for it, with *)
(* the pointer as it was; what is kept to draw the next pointer onto is    *)
(* the last frame, without one; and nobody draws from a texture that is    *)
(* gone, up to one at whose address there is another                       *)
(* (display_ddup_vram_t::snapshot, initialize_image_context).              *)
THEOREM CapturedShown == D!Init /\ [][D!Next]_D!vars => []CapturedIsShown
<1>1. D!Init => D!IInv
  <2> SUFFICES ASSUME D!Init PROVE D!IInv
    OBVIOUS
  <2>1. /\ D!Black \in D!Shown
        /\ D!NewImage \in [texture : Nat, dummy : BOOLEAN, shows : D!Shown]
    BY DEF D!Black, D!Shown, D!NewImage
  <2>2. D!TypeOK
    BY <2>1 DEF D!Init, D!TypeOK
  <2> QED
    BY <2>2 DEF D!Init, D!IInv, D!Clean, D!ImagesStayWhole, D!HeldBy,
       D!TexturesAreCurrent
<1>2. D!IInv /\ [D!Next]_D!vars => D!IInv'
  BY CaptureNext
<1>3. D!IInv => CapturedIsShown
  BY DEF D!IInv, D!Clean, CapturedIsShown, D!CapturedIsShown,
     D!LastFrameIsClean
<1> QED BY <1>1, <1>2, <1>3, PTL

-----------------------------------------------------------------------------
(* ScreenCast.  Steps that leave the buffers alone: what is current is     *)
(* kept, or let go and noted.                                              *)
LEMMA BuffersKept ==
  ASSUME C!TypeOK, C!CurrentIsHeld, C!HeldAreKnown, C!NewestIsDrawn,
         UNCHANGED <<buffers, queue, drawn>>,
         \/ current' = current /\ forgotten' = forgotten /\ (C!Over => C!Over')
         \/ current' = None /\ forgotten' = forgotten \cup ({current} \ {None})
  PROVE  C!TypeOK' /\ C!CurrentIsHeld' /\ C!HeldAreKnown' /\ C!NewestIsDrawn'
<1>1. C!TypeOK' /\ C!NewestIsDrawn'
  BY DEF C!TypeOK, C!NewestIsDrawn, C!Newest
<1>2. C!CurrentIsHeld'
  BY DEF C!TypeOK, C!CurrentIsHeld
<1>3. C!HeldAreKnown'
  BY BuffersAssumption DEF C!HeldAreKnown, C!TypeOK
<1> QED BY <1>1, <1>2, <1>3

(* Steps after which the stream has new buffers, or none.                  *)
LEMMA BuffersGone ==
  ASSUME C!TypeOK, buffers' = C!Unused, queue' = <<>>,
         drawn' = drawn, current' \in {current, None},
         current' = None \/ C!Over'
  PROVE  C!TypeOK' /\ C!CurrentIsHeld' /\ C!HeldAreKnown' /\ C!NewestIsDrawn'
<1>1. C!TypeOK'
  BY DEF C!TypeOK, C!Unused, C!Nothing
<1>2. C!CurrentIsHeld'
  BY DEF C!CurrentIsHeld
<1>3. C!HeldAreKnown'
  BY DEF C!HeldAreKnown, C!Unused
<1> QED BY <1>1, <1>2, <1>3 DEF C!NewestIsDrawn

(* What the compositor and PipeWire's loop do with the buffers.            *)
LEMMA DrawInv ==
  ASSUME C!IInv, NEW b \in Buffers,
         NEW quality \in {"good", "empty", "corrupt"}, C!Draw(b, quality)
  PROVE  C!IInv'
<1>1. /\ drawn' = drawn + 1 /\ buffers[b].at = "free"
      /\ buffers' = [buffers EXCEPT ![b] =
                       [at |-> "filled",
                        has |-> [shows |-> drawn + 1, quality |-> quality]]]
      /\ queue' = Append(queue, b) /\ stream = "streaming"
      /\ UNCHANGED <<step, dead, current, forgotten, stream, previous>>
      /\ UNCHANGED <<streamed, abrupt, unjust>>
  BY DEF C!Draw, C!captureVars, C!stateVars, C!frameVars, C!historyVars
<1>2. /\ drawn \in Nat /\ queue \in Seq(Buffers)
      /\ buffers \in [Buffers ->
                        [at : {"free", "filled", "held"},
                         has : [shows : Nat,
                                quality : {"good", "empty", "corrupt"}]]]
      /\ current \in Buffers \cup {None}
  BY DEF C!IInv, C!TypeOK
<1>3. /\ queue' \in Seq(Buffers) /\ queue' # <<>>
      /\ queue'[Len(queue')] = b
  <2>1. queue' \in Seq(Buffers) /\ Len(queue') = Len(queue) + 1
    BY <1>1, <1>2
  <2>2. Append(queue, b)[Len(queue) + 1] = b
    BY <1>2
  <2> QED BY <1>1, <2>1, <2>2
<1>4. /\ buffers'[b].at = "filled"
      /\ buffers'[b].has = [shows |-> drawn + 1, quality |-> quality]
      /\ \A c \in Buffers \ {b} : buffers'[c] = buffers[c]
  BY <1>1, <1>2
<1>5. C!TypeOK'
  <2>1. [at |-> "filled", has |-> [shows |-> drawn + 1, quality |-> quality]]
          \in [at : {"free", "filled", "held"},
               has : [shows : Nat, quality : {"good", "empty", "corrupt"}]]
    BY <1>2
  <2> QED BY <1>1, <1>2, <1>3, <2>1 DEF C!TypeOK
<1>6. C!CurrentIsHeld' /\ C!HeldAreKnown'
  BY <1>1, <1>2, <1>4
  DEF C!IInv, C!CurrentIsHeld, C!HeldAreKnown, C!Over
<1>7. C!NewestIsDrawn'
  BY <1>1, <1>2, <1>3, <1>4 DEF C!NewestIsDrawn, C!Newest
<1>8. C!LastIsTaken'
  BY <1>3 DEF C!LastIsTaken
<1>9. C!EndsAreNoted' /\ C!NegotiationIsKept'
  BY <1>1 DEF C!IInv, C!EndsAreNoted, C!NegotiationIsKept
<1> QED BY <1>5, <1>6, <1>7, <1>8, <1>9 DEF C!IInv

LEMMA OnProcessInv ==
  ASSUME C!IInv, C!OnProcess PROVE C!IInv'
<1> DEFINE b == C!Newest
<1>1. /\ queue # <<>> /\ queue' = <<>> /\ published' = buffers[b].has
      /\ ready' = TRUE /\ dmabuf' = (kind = "dma")
      /\ excused' = (buffers[b].has.quality # "good")
      /\ UNCHANGED <<step, dead, forgotten, stream, previous, drawn>>
      /\ UNCHANGED <<streamed, abrupt, unjust>>
  BY DEF C!OnProcess, C!captureVars, C!stateVars, C!countVars
<1>2. \/ /\ kind = "dma" /\ current' = b /\ buffers' = C!GivenBack(b)
      \/ /\ kind # "dma" /\ current' = None /\ buffers' = C!GivenBack(None)
         /\ front' = IF buffers[b].has.quality = "empty" THEN back
                     ELSE buffers[b].has.shows
  BY DEF C!OnProcess
<1>3. b \in Buffers /\ b # None
  BY <1>1, BuffersAssumption DEF C!IInv, C!TypeOK, C!Newest
<1>4. \A c \in Buffers :
        /\ C!GivenBack(current')[c].at =
             IF c = current' THEN "held"
             ELSE IF c = current \/ buffers[c].at = "filled" THEN "free"
             ELSE buffers[c].at
        /\ C!GivenBack(current')[c].has = buffers[c].has
  BY DEF C!GivenBack, C!IInv, C!TypeOK
<1>5. C!TypeOK'
  <2>1. C!GivenBack(current') \in
          [Buffers -> [at : {"free", "filled", "held"},
                       has : [shows : Nat,
                              quality : {"good", "empty", "corrupt"}]]]
    BY DEF C!GivenBack, C!IInv, C!TypeOK
  <2> QED BY <1>1, <1>2, <1>3, <2>1 DEF C!IInv, C!TypeOK
<1>6. C!CurrentIsHeld' /\ C!HeldAreKnown'
  BY <1>1, <1>2, <1>3, <1>4
  DEF C!IInv, C!CurrentIsHeld, C!HeldAreKnown, C!Over
<1>7. C!NewestIsDrawn'
  BY <1>1 DEF C!NewestIsDrawn
<1>8. C!LastIsTaken'
  <2> SUFFICES ASSUME ~excused' PROVE C!LastIsTaken'
    BY DEF C!LastIsTaken
  <2>1. buffers[b].has = [shows |-> drawn, quality |-> "good"] /\ drawn > 0
    <3>1. buffers[b].has.shows = drawn /\ drawn > 0
      BY <1>1 DEF C!IInv, C!NewestIsDrawn
    <3>2. buffers[b].has.quality = "good"
      BY <1>1
    <3>3. buffers[b].has \in [shows : Nat,
                              quality : {"good", "empty", "corrupt"}]
      BY <1>3 DEF C!IInv, C!TypeOK
    <3>4. buffers[b].has = [shows |-> buffers[b].has.shows,
                            quality |-> buffers[b].has.quality]
      BY <3>3
    <3> QED BY <3>1, <3>2, <3>4
  <2>2. published' = [shows |-> drawn', quality |-> "good"] /\ drawn' > 0
    BY <1>1, <2>1
  <2>3. IF dmabuf' THEN current' # None ELSE front' = drawn'
    <3>1. CASE kind = "dma"
      <4>1. dmabuf' /\ current' = b
        BY <1>1, <1>2, <3>1
      <4> QED BY <1>3, <4>1
    <3>2. CASE kind # "dma"
      <4>1. ~dmabuf' /\ front' = buffers[b].has.shows
        BY <1>1, <1>2, <2>1, <3>2
      <4> QED BY <1>1, <2>1, <4>1
    <3> QED BY <3>1, <3>2
  <2> QED BY <1>1, <2>2, <2>3 DEF C!LastIsTaken
<1>9. C!EndsAreNoted' /\ C!NegotiationIsKept'
  BY <1>1 DEF C!IInv, C!EndsAreNoted, C!NegotiationIsKept
<1> QED BY <1>5, <1>6, <1>7, <1>8, <1>9 DEF C!IInv

(* The steps of the capture thread.                                        *)
LEMMA SnapshotInv ==
  ASSUME C!IInv,
         \/ C!Snapshot \/ C!Wake \/ C!Timeout \/ C!CheckDue \/ C!Fill
         \/ C!Push \/ C!Interrupted
  PROVE  C!IInv'
<1>1. /\ UNCHANGED <<stream, dead, previous, buffers, queue, current, dmabuf>>
      /\ UNCHANGED <<front, published, drawn, streamed, forgotten, abrupt>>
      /\ UNCHANGED <<unjust>>
      /\ step' # "off" /\ step \notin {"off", "leave"}
  BY DEF C!Snapshot, C!Wake, C!Timeout, C!CheckDue, C!Fill, C!Push,
     C!Interrupted, C!captureVars, C!stateVars, C!frameVars, C!countVars,
     C!historyVars
<1>2. C!TypeOK' /\ C!CurrentIsHeld' /\ C!HeldAreKnown' /\ C!NewestIsDrawn'
  BY <1>1, BuffersKept DEF C!IInv, C!Over
<1>3. C!LastIsTaken'
  <2> SUFFICES ASSUME ~C!Over', ~excused', queue' = <<>> PROVE C!LastIsTaken'
    BY DEF C!LastIsTaken
  <2>1. ~C!Over /\ ~dead
    BY <1>1 DEF C!Over
  <2>2. ~excused
    BY DEF C!Snapshot, C!Wake, C!Timeout, C!CheckDue, C!Fill, C!Push,
       C!Interrupted, C!historyVars
  <2>3. /\ published = [shows |-> drawn, quality |-> "good"] /\ drawn > 0
        /\ IF dmabuf THEN current # None ELSE front = drawn
        /\ \/ ready \/ step \in {"woken", "fill"}
           \/ step = "push" /\ img = drawn
           \/ step \in {"top", "wait"} /\ delivered = drawn
    BY <1>1, <2>1, <2>2 DEF C!IInv, C!LastIsTaken
  <2>4. C!Picture = drawn /\ C!Picture # 0
    BY <2>1, <2>3 DEF C!Picture, C!IInv, C!TypeOK
  <2>5. CASE C!Snapshot \/ C!Timeout \/ C!Push \/ C!Interrupted
    BY <1>1, <2>3, <2>5
    DEF C!LastIsTaken, C!Snapshot, C!Timeout, C!Push, C!Interrupted,
        C!frameVars, C!Over
  <2>6. CASE C!Wake \/ C!CheckDue
    BY <1>1, <2>1, <2>3, <2>6
    DEF C!LastIsTaken, C!Wake, C!CheckDue, C!frameVars
  <2>7. CASE C!Fill
    BY <1>1, <2>3, <2>4, <2>7 DEF C!LastIsTaken, C!Fill
  <2> QED BY <2>5, <2>6, <2>7
<1>4. C!EndsAreNoted' /\ C!NegotiationIsKept'
  BY <1>1 DEF C!IInv, C!EndsAreNoted, C!NegotiationIsKept
<1> QED BY <1>2, <1>3, <1>4 DEF C!IInv

(* A stream begins, is dead, and is left.                                  *)
LEMMA LeaveInv ==
  ASSUME C!IInv, C!Open \/ C!Cleanup \/ C!NoticeDead PROVE C!IInv'
<1>1. CASE C!Open
  <2>1. /\ buffers' = C!Unused /\ queue' = <<>> /\ current' = None
        /\ excused' = TRUE /\ step' = "top" /\ stream' = "connecting"
        /\ dead' = FALSE /\ streamed' = FALSE
        /\ UNCHANGED <<drawn, abrupt, unjust>>
    BY <1>1 DEF C!Open
  <2>2. C!TypeOK' /\ C!CurrentIsHeld' /\ C!HeldAreKnown' /\ C!NewestIsDrawn'
    BY <2>1, BuffersGone DEF C!IInv
  <2>3. C!LastIsTaken' /\ C!EndsAreNoted' /\ C!NegotiationIsKept'
    BY <2>1 DEF C!IInv, C!LastIsTaken, C!EndsAreNoted, C!NegotiationIsKept
  <2> QED BY <2>2, <2>3 DEF C!IInv
<1>2. CASE C!Cleanup
  <2>1. /\ buffers' = C!Unused /\ queue' = <<>> /\ current' = None
        /\ step' = "off" /\ stream' = "none"
        /\ UNCHANGED <<drawn, abrupt, unjust>>
    BY <1>2 DEF C!Cleanup, C!countVars, C!historyVars
  <2>2. C!TypeOK' /\ C!CurrentIsHeld' /\ C!HeldAreKnown' /\ C!NewestIsDrawn'
    BY <2>1, BuffersGone DEF C!IInv
  <2>3. C!LastIsTaken' /\ C!EndsAreNoted' /\ C!NegotiationIsKept'
    BY <2>1 DEF C!IInv, C!LastIsTaken, C!Over, C!EndsAreNoted,
       C!NegotiationIsKept
  <2> QED BY <2>2, <2>3 DEF C!IInv
<1>3. CASE C!NoticeDead
  <2>1. /\ step = "top" /\ dead /\ dead' = FALSE /\ step' = "leave"
        /\ unjust' # unjust =>
             previous # "streaming" /\ (unjust' <=> unjust \/ streamed)
        /\ UNCHANGED <<stream, previous, buffers, queue, current, drawn>>
        /\ UNCHANGED <<streamed, forgotten, abrupt>>
    BY <1>3 DEF C!NoticeDead, C!HasStreamed, C!frameVars, C!countVars
  <2>2. C!TypeOK' /\ C!CurrentIsHeld' /\ C!HeldAreKnown' /\ C!NewestIsDrawn'
    BY <2>1, BuffersKept DEF C!IInv, C!Over
  <2>3. C!LastIsTaken' /\ C!EndsAreNoted'
    BY <2>1 DEF C!IInv, C!LastIsTaken, C!Over, C!EndsAreNoted
  <2>4. C!NegotiationIsKept'
    BY <2>1 DEF C!IInv, C!EndsAreNoted, C!NegotiationIsKept
  <2> QED BY <2>2, <2>3, <2>4 DEF C!IInv
<1> QED BY <1>1, <1>2, <1>3

(* What PipeWire's loop is told of the stream.                             *)
LEMMA FormatInv ==
  ASSUME C!IInv, NEW k \in {"dma", "mem"}, C!FormatChanged(k) PROVE C!IInv'
<1>1. /\ buffers' = C!Unused /\ queue' = <<>> /\ current' = None
      /\ excused' = TRUE
      /\ stream \in {"connecting", "paused", "streaming"}
      /\ stream' = IF stream = "connecting" THEN "paused" ELSE stream
      /\ UNCHANGED <<step, dead, previous, drawn, streamed, abrupt, unjust>>
  BY DEF C!FormatChanged, C!DropCurrent, C!captureVars, C!stateVars
<1>2. C!TypeOK' /\ C!CurrentIsHeld' /\ C!HeldAreKnown' /\ C!NewestIsDrawn'
  BY <1>1, BuffersGone DEF C!IInv
<1>3. C!LastIsTaken' /\ C!EndsAreNoted' /\ C!NegotiationIsKept'
  BY <1>1 DEF C!IInv, C!LastIsTaken, C!EndsAreNoted, C!NegotiationIsKept
<1> QED BY <1>2, <1>3 DEF C!IInv

LEMMA StreamStateInv ==
  ASSUME C!IInv, C!ParamChanged \/ C!Streams \/ C!Pause PROVE C!IInv'
<1>1. /\ UNCHANGED <<step, buffers, queue, dmabuf, front, published, drawn>>
      /\ UNCHANGED <<abrupt, unjust, img, delivered>>
      /\ stream \in {"paused", "streaming"}
  BY DEF C!ParamChanged, C!Streams, C!Pause, C!captureVars, C!frameVars,
     C!countVars
<1>2. C!TypeOK' /\ C!CurrentIsHeld' /\ C!HeldAreKnown' /\ C!NewestIsDrawn'
  <2>1. \/ current' = current /\ forgotten' = forgotten /\ UNCHANGED dead
        \/ current' = None /\ forgotten' = forgotten \cup ({current} \ {None})
    BY DEF C!ParamChanged, C!Streams, C!Pause, C!frameVars, C!stateVars
  <2> QED BY <1>1, <2>1, BuffersKept DEF C!IInv, C!Over
<1>3. C!LastIsTaken'
  BY <1>1
  DEF C!IInv, C!LastIsTaken, C!Over, C!ParamChanged, C!Streams, C!Pause,
      C!frameVars, C!stateVars
<1>4. C!EndsAreNoted' /\ C!NegotiationIsKept'
  BY <1>1
  DEF C!IInv, C!EndsAreNoted, C!NegotiationIsKept, C!ParamChanged, C!Streams,
      C!Pause, C!stateVars, C!frameVars
<1> QED BY <1>2, <1>3, <1>4 DEF C!IInv

LEMMA StreamEndsInv ==
  ASSUME C!IInv, C!Fail \/ \E ended \in BOOLEAN : C!Disconnect(ended)
  PROVE  C!IInv'
<1>1. /\ buffers' = C!Unused /\ queue' = <<>> /\ dead' = TRUE
      /\ UNCHANGED <<step, current, drawn, streamed, unjust>>
      /\ stream \notin {"none", "unconnected"}
      /\ stream' \in {"error", "unconnected"}
      /\ \/ previous' = stream /\ (abrupt' <=> abrupt \/
                                     (streamed /\ stream # "streaming"))
         \/ previous' = previous /\ (abrupt' <=> abrupt \/
                                       stream = "streaming")
  BY DEF C!Fail, C!Disconnect, C!captureVars, C!frameVars, C!countVars
<1>2. C!TypeOK' /\ C!CurrentIsHeld' /\ C!HeldAreKnown' /\ C!NewestIsDrawn'
  BY <1>1, BuffersGone DEF C!IInv, C!Over
<1>3. C!LastIsTaken'
  BY <1>1 DEF C!LastIsTaken, C!Over
<1>4. C!EndsAreNoted' /\ C!NegotiationIsKept'
  BY <1>1 DEF C!IInv, C!EndsAreNoted, C!NegotiationIsKept
<1> QED BY <1>2, <1>3, <1>4 DEF C!IInv

LEMMA CastNext == C!IInv /\ [C!Next]_C!vars => C!IInv'
<1> SUFFICES ASSUME C!IInv, [C!Next]_C!vars PROVE C!IInv'
  OBVIOUS
<1>1. ASSUME C!Pass \/ UNCHANGED C!vars PROVE C!IInv'
  <2>1. /\ UNCHANGED <<step, img, delivered, stream, dead, previous, buffers>>
        /\ UNCHANGED <<queue, current, dmabuf, front, ready, published>>
        /\ UNCHANGED <<drawn, streamed, excused, forgotten, abrupt, unjust>>
    BY <1>1 DEF C!Pass, C!vars, C!captureVars, C!stateVars, C!frameVars,
       C!countVars, C!historyVars
  <2>2. C!TypeOK' /\ C!CurrentIsHeld' /\ C!HeldAreKnown' /\ C!NewestIsDrawn'
    BY <2>1, BuffersKept DEF C!IInv, C!Over
  <2>3. C!LastIsTaken' /\ C!EndsAreNoted' /\ C!NegotiationIsKept'
    BY <2>1 DEF C!IInv, C!LastIsTaken, C!Over, C!EndsAreNoted,
       C!NegotiationIsKept
  <2> QED BY <2>2, <2>3 DEF C!IInv
<1> QED
  BY <1>1, DrawInv, OnProcessInv, SnapshotInv, LeaveInv, FormatInv,
     StreamStateInv, StreamEndsInv
  DEF C!Next

(* A picture is taken from a buffer that is ours, and those that are not   *)
(* come back to the compositor; what the screen shows last is handed on;   *)
(* and the maximal frame rate is given up only after a stream that had no  *)
(* frames: with the exceptions that the properties name                    *)
(* (pipewire.cpp, on_process and fill_img; check_stream_dead).             *)
THEOREM CastFollowed == C!Init /\ [][C!Next]_C!vars => []CastIsFollowed
<1>1. C!Init => C!IInv
  <2> SUFFICES ASSUME C!Init PROVE C!IInv
    OBVIOUS
  <2>1. C!TypeOK
    BY DEF C!Init, C!TypeOK, C!Unused, C!Nothing
  <2>2. C!CurrentIsHeld /\ C!HeldAreKnown /\ C!NewestIsDrawn
    BY DEF C!Init, C!CurrentIsHeld, C!HeldAreKnown, C!NewestIsDrawn, C!Unused
  <2>3. C!LastIsTaken /\ C!EndsAreNoted /\ C!NegotiationIsKept
    BY DEF C!Init, C!LastIsTaken, C!Over, C!EndsAreNoted, C!NegotiationIsKept
  <2> QED BY <2>1, <2>2, <2>3 DEF C!IInv
<1>2. C!IInv /\ [C!Next]_C!vars => C!IInv'
  BY CastNext
<1>3. C!IInv => CastIsFollowed
  <2> SUFFICES ASSUME C!IInv PROVE CastIsFollowed
    OBVIOUS
  <2>1. C!FilledFromOurs /\ C!BuffersComeBack
    BY DEF C!IInv, C!FilledFromOurs, C!BuffersComeBack, C!CurrentIsHeld,
       C!HeldAreKnown, C!Over
  <2>2. C!LastFrameIsShown
    BY DEF C!IInv, C!LastFrameIsShown, C!LastIsTaken, C!Over
  <2> QED
    BY <2>1, <2>2 DEF C!IInv, CastIsFollowed, C!CastIsFollowed
<1> QED BY <1>1, <1>2, <1>3, PTL

-----------------------------------------------------------------------------
(* WindowsPointers.  Some places of 1 .. n are as many as their ranks, and *)
(* each rank is one place's.                                               *)
LEMMA SamePlaces == \A S : T!Cardinality(S) = Cardinality(S)
BY DEF T!Cardinality, Cardinality

Rank(used, j) == T!Cardinality({k \in used : k <= j})

LEMMA RanksFit ==
  ASSUME NEW n \in Nat, NEW used \in SUBSET (1..n)
  PROVE  /\ T!Cardinality(used) \in 0..n
         /\ \A j \in used : Rank(used, j) \in 1..T!Cardinality(used)
         /\ \A j, k \in used : Rank(used, j) = Rank(used, k) => j = k
         /\ \A i \in 1..T!Cardinality(used) : \E j \in used : Rank(used, j) = i
<1> DEFINE upto(j) == {k \in used : k <= j}
           m == Cardinality(used)
<1>0. \A x \in used : x \in Int
  OBVIOUS
<1>1. IsFiniteSet(used) /\ m \in Nat /\ m <= n
  <2>1. IsFiniteSet(1..n) /\ Cardinality(1..n) = n
    BY FS_Interval
  <2> QED BY <2>1, FS_Subset, FS_CardinalityType
<1>2. ASSUME NEW j \in used
      PROVE  /\ IsFiniteSet(upto(j)) /\ Cardinality(upto(j)) \in 1..m
             /\ Rank(used, j) = Cardinality(upto(j))
  <2>1. upto(j) \in SUBSET used /\ j \in upto(j)
    OBVIOUS
  <2>2. IsFiniteSet(upto(j)) /\ Cardinality(upto(j)) <= m
    BY <1>1, <2>1, FS_Subset
  <2>3. Cardinality(upto(j)) \in Nat /\ Cardinality(upto(j)) # 0
    BY <2>1, <2>2, FS_CardinalityType, FS_EmptySet
  <2>4. Rank(used, j) = Cardinality(upto(j))
    BY SamePlaces DEF Rank
  <2> HIDE DEF m, upto
  <2> QED BY <1>1, <2>2, <2>3, <2>4
<1>3. ASSUME NEW j \in used, NEW k \in used, Rank(used, j) = Rank(used, k)
      PROVE  j = k
  <2>1. CASE j <= k
    <3>1. upto(j) \in SUBSET upto(k) /\ k \in upto(k)
      <4>1. \A x \in used : x <= j => x <= k
        BY <1>0, <2>1
      <4>2. k <= k
        BY <1>0
      <4> QED BY <4>1, <4>2, Zenon
    <3>2. upto(j) = upto(k)
      <4> HIDE DEF upto
      <4> QED BY <1>2, <1>3, <3>1, FS_Subset
    <3>3. k <= j
      BY <3>1, <3>2
    <3> QED BY <1>0, <2>1, <3>3
  <2>2. CASE k <= j
    <3>1. upto(k) \in SUBSET upto(j) /\ j \in upto(j)
      <4>1. \A x \in used : x <= k => x <= j
        BY <1>0, <2>2
      <4>2. j <= j
        BY <1>0
      <4> QED BY <4>1, <4>2, Zenon
    <3>2. upto(j) = upto(k)
      <4> HIDE DEF upto
      <4> QED BY <1>2, <1>3, <3>1, FS_Subset
    <3>3. j <= k
      BY <3>1, <3>2
    <3> QED BY <1>0, <2>2, <3>3
  <2> QED BY <1>0, <2>1, <2>2
<1>4. ASSUME NEW i \in 1..m PROVE \E j \in used : Rank(used, j) = i
  <2> DEFINE rank == [j \in used |-> Rank(used, j)]
  <2> HIDE DEF m
  <2>1. rank \in Injection(used, 1..m)
    BY <1>2, <1>3 DEF Injection, IsInjective
  <2>2. IsFiniteSet(1..m) /\ Cardinality(1..m) = m
    BY <1>1, FS_Interval
  <2>3. rank \in Surjection(used, 1..m)
    <3> HIDE DEF rank
    <3> QED BY <2>1, <2>2, FS_Injection DEF m
  <2>4. \E j \in used : rank[j] = i
    <3> HIDE DEF rank
    <3> QED BY <2>3 DEF Surjection
  <2> QED BY <2>4
<1>5. T!Cardinality(used) = m
  BY SamePlaces
<1> HIDE DEF m, upto
<1> QED BY <1>1, <1>2, <1>3, <1>4, <1>5

(* The flags of a pointer tell what the client means, also without those   *)
(* that say only what has changed.                                         *)
LEMMA FlagsTell ==
  ASSUME NEW flags \in SUBSET T!PointerFlags, NEW e \in T!Events
  PROVE  LET after == T!populate_common_pointer_info(flags, e)
         IN /\ after \in SUBSET T!PointerFlags
            /\ T!Seen(after) = T!Meant(T!Seen(flags), e)
            /\ T!Seen(after \ T!EDGE_TRIGGERED_POINTER_FLAGS) = T!Seen(after)
            /\ T!Seen(flags) \in T!Contact
            /\ flags # {} /\ e = "cancel_all" => after # {}
BY DEF T!PointerFlags, T!EDGE_TRIGGERED_POINTER_FLAGS, T!Events, T!Gone,
   T!populate_common_pointer_info, T!Seen, T!Meant, T!Contact

LEMMA CompactFits ==
  ASSUME NEW slots \in T!SlotsType, NEW meaning, T!SlotsFollow(slots, meaning)
  PROVE  LET new == T!perform_touch_compaction(slots)
             n == T!Cardinality(T!Active(slots))
         IN /\ new \in T!SlotsType /\ T!SlotsFollow(new, meaning)
            /\ T!Active(new) = 1..n /\ n \in 0..TouchSlots
            /\ T!Cardinality(T!Active(new)) = n
<1> DEFINE new == T!perform_touch_compaction(slots)
           used == T!Active(slots)
           n == T!Cardinality(used)
           nth(i) == CHOOSE j \in used : Rank(used, j) = i
<1>1. used \in SUBSET (1..TouchSlots)
  BY DEF T!Active, T!Slot
<1>2. n \in 0..TouchSlots
  BY <1>1, RanksFit, PointersAssumption
<1>3. \A j, k \in used : Rank(used, j) = Rank(used, k) => j = k
  BY <1>1, RanksFit, PointersAssumption
<1>4. ASSUME NEW i \in 1..n PROVE nth(i) \in used /\ Rank(used, nth(i)) = i
  <2>1. \E j \in used : Rank(used, j) = i
    BY <1>1, RanksFit, PointersAssumption
  <2> HIDE DEF used
  <2> QED BY <2>1
<1>5. new = [i \in 1..TouchSlots |-> IF i <= n THEN slots[nth(i)] ELSE T!Unused]
  BY DEF T!perform_touch_compaction, Rank, T!Slot
<1>6. \A j \in used : Rank(used, j) \in 1..n /\ nth(Rank(used, j)) = j
  <2>1. \A j \in used : Rank(used, j) \in 1..n
    BY <1>1, RanksFit, PointersAssumption
  <2> HIDE DEF used, n, nth
  <2> QED BY <1>3, <1>4, <2>1
<1>7. \A i \in 1..n : new[i] = slots[nth(i)]
  <2> HIDE DEF new, nth, n
  <2> QED BY <1>2, <1>5, PointersAssumption
<1>8. \A j \in used : /\ j \in 1..TouchSlots /\ slots[j].flags # {}
                      /\ slots[j] \in [id : Pointers \cup {None},
                                       flags : SUBSET T!PointerFlags]
  BY <1>1 DEF T!Active, T!SlotsType, T!Slot
<1>9. new \in T!SlotsType
  <2>1. T!Unused \in [id : Pointers \cup {None},
                      flags : SUBSET T!PointerFlags]
    BY DEF T!Unused
  <2> HIDE DEF nth, n, used, new
  <2> QED BY <1>2, <1>4, <1>5, <1>8, <2>1 DEF T!SlotsType, T!Slot
<1>10. T!Active(new) = 1..n
  <2>1. \A i \in 1..TouchSlots : new[i].flags # {} <=> i \in 1..n
    <3> HIDE DEF nth, n, used, new
    <3> QED BY <1>2, <1>4, <1>5, <1>8 DEF T!Unused
  <2> HIDE DEF nth, n, used, new
  <2> QED BY <1>2, <2>1, PointersAssumption DEF T!Active, T!Slot
<1>11. T!SlotsFollow(new, meaning)
  <2>1. \A i, j \in used : slots[i].id = slots[j].id => i = j
    BY DEF T!SlotsFollow
  <2>2. \A i \in used : /\ slots[i].id \in Pointers
                        /\ meaning[slots[i].id] = T!Seen(slots[i].flags)
    BY DEF T!SlotsFollow
  <2>3. \A p \in Pointers :
          (\A i \in used : slots[i].id # p) => meaning[p] = "away"
    BY DEF T!SlotsFollow, T!Find
  <2> HIDE DEF nth, n, used, new
  <2>4. \A i, j \in 1..n : new[i].id = new[j].id => i = j
    BY <1>4, <1>7, <2>1
  <2>5. \A i \in 1..n : /\ new[i].id \in Pointers
                        /\ meaning[new[i].id] = T!Seen(new[i].flags)
    BY <1>4, <1>7, <2>2
  <2>6. \A p \in Pointers :
          (\A i \in 1..n : new[i].id # p) => meaning[p] = "away"
    BY <1>6, <1>7, <2>3
  <2> QED BY <1>10, <2>4, <2>5, <2>6 DEF T!SlotsFollow, T!Find
<1>12. T!Cardinality(1..n) = n
  <2> HIDE DEF n
  <2> QED BY <1>2, FS_Interval, SamePlaces
<1> HIDE DEF nth, n, used, new
<1> QED BY <1>2, <1>9, <1>10, <1>11, <1>12 DEF n, used, new

\* What becomes of slots of which one is set to a pointer and its flags.
SlotIsSet(slots, meaning, p, i, flags, new, said) ==
  new = [slots EXCEPT ![i] = [id |-> p, flags |-> flags]] /\
  said = [meaning EXCEPT ![p] = T!Seen(flags)] =>
    /\ new \in T!SlotsType /\ T!SlotsFollow(new, said)
    /\ T!Active(new) \subseteq T!Active(slots) \cup {i}
    /\ T!Active(new) = {} => \A q \in Pointers : said[q] = "away"

LEMMA SetSlot ==
  ASSUME NEW slots \in T!SlotsType, NEW p \in Pointers,
         NEW meaning \in [Pointers \cup {Pen} -> T!Contact],
         T!SlotsFollow(slots, meaning), NEW i \in T!Slot,
         \/ i \in T!Active(slots) /\ slots[i].id = p
         \/ i \notin T!Active(slots) /\ T!Find(slots, p) = {},
         NEW flags \in SUBSET T!PointerFlags, NEW new, NEW said
  PROVE  SlotIsSet(slots, meaning, p, i, flags, new, said)
<1> SUFFICES
      ASSUME new = [slots EXCEPT ![i] = [id |-> p, flags |-> flags]],
             said = [meaning EXCEPT ![p] = T!Seen(flags)]
      PROVE  /\ new \in T!SlotsType /\ T!SlotsFollow(new, said)
             /\ T!Active(new) \subseteq T!Active(slots) \cup {i}
             /\ T!Active(new) = {} => \A q \in Pointers : said[q] = "away"
  BY DEF SlotIsSet
<1>1. new \in T!SlotsType
  BY DEF T!SlotsType
<1>2. \A j \in T!Slot :
        new[j] = IF j = i THEN [id |-> p, flags |-> flags] ELSE slots[j]
  BY DEF T!SlotsType
<1>3. T!Active(new) = IF flags = {} THEN T!Active(slots) \ {i}
                      ELSE T!Active(slots) \cup {i}
  BY <1>2 DEF T!Active
<1>4. \A j \in T!Active(slots) \ {i} : slots[j].id # p
  BY DEF T!SlotsFollow, T!Find
<1>5. said[p] = T!Seen(flags) /\ \A q \in Pointers \ {p} : said[q] = meaning[q]
  OBVIOUS
<1>6. \A j, k \in T!Active(new) : new[j].id = new[k].id => j = k
  BY <1>2, <1>3, <1>4 DEF T!SlotsFollow, T!Active
<1>7. \A j \in T!Active(new) :
        new[j].id \in Pointers /\ said[new[j].id] = T!Seen(new[j].flags)
  BY <1>2, <1>3, <1>4, <1>5 DEF T!SlotsFollow, T!Active
<1>8. ASSUME NEW q \in Pointers, T!Find(new, q) = {} PROVE said[q] = "away"
  <2>1. CASE q = p
    <3>1. ASSUME flags # {} PROVE FALSE
      <4>1. i \in T!Active(new) /\ new[i].id = p
        BY <1>2, <1>3, <3>1
      <4> QED BY <1>8, <2>1, <4>1 DEF T!Find
    <3> QED BY <1>5, <2>1, <3>1 DEF T!Seen
  <2>2. CASE q # p
    <3>1. T!Find(slots, q) = {}
      BY <1>2, <1>3, <1>8, <2>2 DEF T!Find, T!Active
    <3> QED BY <1>5, <2>2, <3>1 DEF T!SlotsFollow
  <2> QED BY <2>1, <2>2
<1>9. T!SlotsFollow(new, said)
  BY <1>6, <1>7, <1>8 DEF T!SlotsFollow
<1> QED BY <1>1, <1>3, <1>8, <1>9 DEF T!Find

LEMMA InjectedTells ==
  ASSUME NEW slots \in T!SlotsType, NEW meaning, T!SlotsFollow(slots, meaning),
         NEW n \in 0..TouchSlots, T!Active(slots) \subseteq 1..n,
         NEW p \in Pointers
  PROVE  T!Injected(slots, n)[p] = meaning[p]
<1> DEFINE mine == {i \in 1..n : slots[i].id = p /\ slots[i].flags # {}}
<1>1. mine = T!Find(slots, p)
  BY PointersAssumption DEF T!Find, T!Active, T!Slot
<1>2. T!Injected(slots, n)[p] = IF mine = {} THEN "away"
                                ELSE T!Seen(slots[T!Min(mine)].flags)
  BY DEF T!Injected
<1>3. CASE mine = {}
  BY <1>1, <1>2, <1>3 DEF T!SlotsFollow
<1>4. CASE mine # {}
  <2>1. PICK i \in T!Active(slots) : slots[i].id = p
    BY <1>1, <1>4 DEF T!Find
  <2>2. mine = {i} /\ i \in Int
    BY <1>1, <2>1 DEF T!Find, T!SlotsFollow
  <2>3. T!Min(mine) = i
    <3> HIDE DEF mine
    <3> QED BY <2>2 DEF T!Min
  <2> HIDE DEF mine
  <2> QED BY <1>2, <1>4, <2>1, <2>3 DEF T!SlotsFollow
<1> QED BY <1>3, <1>4

(* An injection changes what the system has of one device only.            *)
LEMMA InjectTells ==
  ASSUME NEW of, NEW seen, NEW ok \in BOOLEAN, T!Inject(of, seen, ok),
         contacts \in [Pointers \cup {Pen} -> T!Contact],
         \A q \in DOMAIN seen : seen[q] \in T!Contact
  PROVE  /\ contacts' \in [Pointers \cup {Pen} -> T!Contact]
         /\ \A q \in Pointers \cup {Pen} :
              contacts'[q] = IF ok /\ q \in DOMAIN seen THEN seen[q]
                             ELSE contacts[q]
         /\ doubt' = IF ok THEN doubt \ {of} ELSE doubt \cup {of}
BY DEF T!Inject

\* What touch_update makes of one pointer, as the client knows of it.
UpdateTold(meaning, ok) ==
  /\ touchInfo' \in T!SlotsType /\ activeTouchSlots' \in 0..TouchSlots
  /\ touchRepeat' \in {"none", "timer"}
  /\ T!SlotsFollow(touchInfo', meaning)
  /\ T!Active(touchInfo') \subseteq 1..activeTouchSlots'
  /\ contacts' \in [Pointers \cup {Pen} -> T!Contact]
  /\ contacts'[Pen] = contacts[Pen]
  /\ doubt' = IF ok THEN doubt \ {"touch"} ELSE doubt \cup {"touch"}
  /\ ok => \A q \in Pointers : contacts'[q] = meaning[q]
  /\ ok /\ touchRepeat' = "none" => \A q \in Pointers : meaning[q] = "away"

LEMMA UpdateFits ==
  ASSUME NEW slots \in T!SlotsType,
         NEW meaning \in [Pointers \cup {Pen} -> T!Contact],
         T!SlotsFollow(slots, meaning), NEW m \in 0..TouchSlots,
         T!Active(slots) = 1..m, T!Cardinality(T!Active(slots)) = m,
         NEW p \in Pointers, NEW e \in T!Events, NEW ok \in BOOLEAN,
         T!Find(slots, p) # {} \/ T!Free(slots) # {},
         contacts \in [Pointers \cup {Pen} -> T!Contact],
         T!UpdateSlot(slots, p, e, ok)
  PROVE  UpdateTold([meaning EXCEPT ![p] = T!Meant(@, e)], ok)
<1> DEFINE found == T!Find(slots, p) # {}
           i == T!Min(IF found THEN T!Find(slots, p) ELSE T!Free(slots))
           n == IF found THEN m ELSE i
           flags == T!populate_common_pointer_info(slots[i].flags, e)
           after == [slots EXCEPT ![i] = [id |-> p, flags |-> flags]]
           kept == flags \ T!EDGE_TRIGGERED_POINTER_FLAGS
           rest == [slots EXCEPT ![i] = [id |-> p, flags |-> kept]]
           said == [meaning EXCEPT ![p] = T!Meant(@, e)]
<1>1. /\ activeTouchSlots' = n
      /\ touchInfo' = IF ok THEN [after EXCEPT ![i].flags = kept] ELSE after
      /\ T!Inject("touch", T!Injected(after, n), ok)
      /\ touchRepeat' = IF ok /\ T!MustRepeat(n, kept) THEN "timer" ELSE "none"
  BY DEF T!UpdateSlot
<1>3. /\ i \in T!Slot /\ i \in 1..n /\ n \in 0..TouchSlots /\ 1..m \subseteq 1..n
      /\ \/ i \in T!Active(slots) /\ slots[i].id = p
         \/ i \notin T!Active(slots) /\ T!Find(slots, p) = {}
  <2>1. CASE found
    <3>1. PICK j \in T!Active(slots) : slots[j].id = p
      BY <2>1 DEF T!Find
    <3>2. T!Find(slots, p) = {j} /\ j \in 1..m
      BY <3>1 DEF T!Find, T!SlotsFollow
    <3>3. i = j
      BY <2>1, <3>2 DEF T!Min
    <3> HIDE DEF i, found
    <3> QED BY <2>1, <3>1, <3>2, <3>3, PointersAssumption DEF T!Slot
  <2>2. CASE ~found
    <3>1. m + 1 \in T!Free(slots) /\ \A j \in T!Free(slots) : m + 1 <= j
      BY <2>2, PointersAssumption DEF T!Free, T!Slot
    <3>2. i = m + 1
      BY <2>2, <3>1, PointersAssumption DEF T!Min, T!Free, T!Slot
    <3>3. m + 1 \in T!Slot
      BY <3>1 DEF T!Free
    <3> HIDE DEF i
    <3> QED BY <2>2, <3>2, <3>3, PointersAssumption DEF T!Slot
  <2> QED BY <2>1, <2>2
<1> HIDE DEF i, n
<1>4. slots[i] \in [id : Pointers \cup {None}, flags : SUBSET T!PointerFlags]
  BY <1>3 DEF T!SlotsType
<1>5. /\ flags \in SUBSET T!PointerFlags /\ kept \in SUBSET T!PointerFlags
      /\ T!Seen(flags) = T!Meant(T!Seen(slots[i].flags), e)
      /\ T!Seen(kept) = T!Seen(flags) /\ T!Seen(flags) \in T!Contact
  <2> HIDE DEF flags
  <2>1. /\ flags \in SUBSET T!PointerFlags
        /\ T!Seen(flags) = T!Meant(T!Seen(slots[i].flags), e)
        /\ T!Seen(kept) = T!Seen(flags)
    BY <1>4, FlagsTell DEF flags
  <2> QED BY <2>1 DEF T!Seen, T!Contact
<1>6. meaning[p] = T!Seen(slots[i].flags)
  <2>1. CASE i \in T!Active(slots) /\ slots[i].id = p
    BY <2>1 DEF T!SlotsFollow
  <2>2. CASE i \notin T!Active(slots) /\ T!Find(slots, p) = {}
    <3>1. slots[i].flags = {}
      BY <1>3, <2>2 DEF T!Active
    <3> QED BY <2>2, <3>1 DEF T!Seen, T!SlotsFollow
  <2> QED BY <1>3, <2>1, <2>2
<1>7. said = [meaning EXCEPT ![p] = T!Seen(flags)]
      /\ said = [meaning EXCEPT ![p] = T!Seen(kept)]
  BY <1>5, <1>6
<1>8. said \in [Pointers \cup {Pen} -> T!Contact]
  BY <1>5, <1>7
<1> HIDE DEF flags, kept, said, found
<1>16. /\ after = [slots EXCEPT ![i] = [id |-> p, flags |-> flags]]
      /\ rest = [slots EXCEPT ![i] = [id |-> p, flags |-> kept]]
  OBVIOUS
<1> HIDE DEF after, rest
<1>9. /\ after \in T!SlotsType /\ T!SlotsFollow(after, said)
      /\ T!Active(after) \subseteq 1..n
  <2>0. SlotIsSet(slots, meaning, p, i, flags, after, said)
    BY <1>3, <1>5, SetSlot
  <2>1. /\ after \in T!SlotsType /\ T!SlotsFollow(after, said)
        /\ T!Active(after) \subseteq T!Active(slots) \cup {i}
    BY <1>7, <1>16, <2>0 DEF SlotIsSet
  <2> QED BY <1>3, <2>1
<1>10. /\ rest \in T!SlotsType /\ T!SlotsFollow(rest, said)
       /\ T!Active(rest) \subseteq 1..n
       /\ T!Active(rest) = {} => \A q \in Pointers : said[q] = "away"
  <2>0. SlotIsSet(slots, meaning, p, i, kept, rest, said)
    BY <1>3, <1>5, SetSlot
  <2>1. /\ rest \in T!SlotsType /\ T!SlotsFollow(rest, said)
        /\ T!Active(rest) \subseteq T!Active(slots) \cup {i}
        /\ T!Active(rest) = {} => \A q \in Pointers : said[q] = "away"
    BY <1>7, <1>16, <2>0 DEF SlotIsSet
  <2> QED BY <1>3, <2>1
<1>11. [after EXCEPT ![i].flags = kept] = rest
  <2>1. after[i] = [id |-> p, flags |-> flags]
    BY <1>3, <1>16 DEF T!SlotsType
  <2>2. [after[i] EXCEPT !.flags = kept] = [id |-> p, flags |-> kept]
    BY <2>1
  <2>3. [after EXCEPT ![i] = [id |-> p, flags |-> kept]] = rest
    BY <1>16 DEF T!SlotsType
  <2> QED BY <2>2, <2>3
<1>12. \A q \in Pointers : T!Injected(after, n)[q] = said[q]
  BY <1>3, <1>9, InjectedTells
<1>13. /\ DOMAIN T!Injected(after, n) = Pointers
       /\ \A q \in DOMAIN T!Injected(after, n) :
            T!Injected(after, n)[q] \in T!Contact
  <2>1. DOMAIN T!Injected(after, n) = Pointers
    BY DEF T!Injected
  <2> QED BY <1>8, <1>12, <2>1
<1>14. /\ contacts' \in [Pointers \cup {Pen} -> T!Contact]
       /\ contacts'[Pen] = contacts[Pen]
       /\ doubt' = IF ok THEN doubt \ {"touch"} ELSE doubt \cup {"touch"}
       /\ ok => \A q \in Pointers : contacts'[q] = said[q]
  <2> DEFINE seen == T!Injected(after, n)
  <2> HIDE DEF seen
  <2>1. /\ T!Inject("touch", seen, ok) /\ DOMAIN seen = Pointers
        /\ \A q \in DOMAIN seen : seen[q] \in T!Contact
        /\ \A q \in Pointers : seen[q] = said[q]
    BY <1>1, <1>12, <1>13 DEF seen
  <2>2. /\ contacts' \in [Pointers \cup {Pen} -> T!Contact]
        /\ \A q \in Pointers \cup {Pen} :
             contacts'[q] = IF ok /\ q \in DOMAIN seen THEN seen[q]
                            ELSE contacts[q]
        /\ doubt' = IF ok THEN doubt \ {"touch"} ELSE doubt \cup {"touch"}
    BY <2>1, InjectTells
  <2> QED BY <2>1, <2>2, PointersAssumption
<1>15. ASSUME ok, touchRepeat' = "none"
       PROVE  \A q \in Pointers : said[q] = "away"
  <2>1. n <= 1 /\ kept = {}
    BY <1>1, <1>3, <1>15 DEF T!MustRepeat
  <2>2. i = 1 /\ T!Active(rest) \subseteq {i}
    BY <1>3, <1>10, <2>1, PointersAssumption
  <2>3. rest[i].flags = {}
    BY <1>3, <1>16, <2>1 DEF T!SlotsType
  <2>4. T!Active(rest) = {}
    BY <2>2, <2>3 DEF T!Active
  <2> QED BY <1>10, <2>4
<1> QED
  BY <1>1, <1>3, <1>9, <1>10, <1>11, <1>14, <1>15 DEF UpdateTold, said

LEMMA TouchUpdateInv ==
  ASSUME T!IInv, NEW p \in Pointers, NEW e \in T!Events, NEW ok \in BOOLEAN,
         T!TouchUpdate(p, e, ok)
  PROVE  T!IInv'
<1> DEFINE slots == T!perform_touch_compaction(touchInfo)
           full == T!Find(slots, p) = {} /\ T!Free(slots) = {}
           rest == IF full THEN [q \in DOMAIN meant |->
                                   IF q = Pen THEN meant[q] ELSE "away"]
                   ELSE meant
           used == IF full THEN T!NoTouches ELSE slots
           m == IF full THEN 0 ELSE T!Cardinality(T!Active(slots))
<1>1. /\ context = "alive" /\ context' = "alive"
      /\ meant' = [rest EXCEPT ![p] = T!Meant(@, e)]
      /\ T!UpdateSlot(used, p, e, ok)
      /\ UNCHANGED <<penInfo, penRepeat>>
  BY DEF T!TouchUpdate, T!Idle, T!penVars
<1>2. /\ touchInfo \in T!SlotsType
      /\ contacts \in [Pointers \cup {Pen} -> T!Contact]
      /\ meant \in [Pointers \cup {Pen} -> T!Contact]
      /\ T!SlotsFollow(touchInfo, meant)
      /\ meant[Pen] = T!Seen(penInfo) /\ penInfo \subseteq T!PointerFlags
  BY DEF T!IInv, T!TypeOK
<1>3. /\ slots \in T!SlotsType /\ T!SlotsFollow(slots, meant)
      /\ T!Active(slots) = 1..T!Cardinality(T!Active(slots))
      /\ T!Cardinality(T!Active(slots)) \in 0..TouchSlots
  BY <1>2, CompactFits
<1> HIDE DEF slots
<1>4. /\ used \in T!SlotsType /\ T!SlotsFollow(used, rest)
      /\ m \in 0..TouchSlots /\ T!Active(used) = 1..m
      /\ T!Cardinality(T!Active(used)) = m
      /\ T!Find(used, p) # {} \/ T!Free(used) # {}
      /\ rest \in [Pointers \cup {Pen} -> T!Contact] /\ rest[Pen] = meant[Pen]
  <2>1. CASE full
    <3>1. /\ T!NoTouches \in T!SlotsType /\ T!Active(T!NoTouches) = {}
          /\ 1 \in T!Slot
      BY PointersAssumption
      DEF T!NoTouches, T!SlotsType, T!Unused, T!Active, T!Slot
    <3>2. T!Cardinality({}) = 0 /\ 1..0 = {}
      BY SamePlaces, FS_EmptySet
    <3>3. /\ rest \in [Pointers \cup {Pen} -> T!Contact]
          /\ rest[Pen] = meant[Pen] /\ \A q \in Pointers : rest[q] = "away"
      BY <1>2, <2>1, PointersAssumption DEF T!Contact
    <3>4. /\ used = T!NoTouches /\ m = 0
      BY <2>1
    <3> HIDE DEF used, rest, m
    <3>5. T!SlotsFollow(used, rest)
      BY <3>1, <3>3, <3>4 DEF T!SlotsFollow
    <3> QED
      BY <3>1, <3>2, <3>3, <3>4, <3>5, PointersAssumption DEF T!Free
  <2>2. CASE ~full
    BY <1>2, <1>3, <2>2
  <2> QED BY <2>1, <2>2
<1> HIDE DEF used, rest, m
<1>5. UpdateTold(meant', ok)
  BY <1>1, <1>2, <1>4, UpdateFits
<1>6. /\ meant' \in [Pointers \cup {Pen} -> T!Contact]
      /\ meant'[Pen] = meant[Pen]
  <2>1. meant'[Pen] = rest[Pen]
    BY <1>1, <1>4, PointersAssumption
  <2>2. T!Meant(rest[p], e) \in T!Contact
    BY <1>4 DEF T!Meant, T!Contact, T!Events
  <2> QED BY <1>1, <1>4, <2>1, <2>2
<1>7. T!TypeOK'
  BY <1>1, <1>2, <1>5, <1>6 DEF UpdateTold, T!IInv, T!TypeOK
<1>8. \A q \in Pointers :
        "touch" \in doubt' \/ (/\ contacts'[q] = meant'[q]
                               /\ touchRepeat' = "none" => meant'[q] = "away")
  <2>1. CASE ok
    BY <1>5, <2>1 DEF UpdateTold
  <2>2. CASE ~ok
    BY <1>5, <2>2 DEF UpdateTold
  <2> QED BY <2>1, <2>2
<1>9. /\ "pen" \in doubt \/ contacts[Pen] = meant[Pen]
      /\ contacts[Pen] # "away" => "pen" \in doubt \/ penRepeat # "none"
  <2>1. Pen \in DOMAIN meant
    BY <1>2
  <2> QED BY <1>1, <2>1 DEF T!IInv, T!ContactsAreTold, T!HeldIsRepeated
<1>10. "pen" \in doubt' <=> "pen" \in doubt
  BY <1>5 DEF UpdateTold
<1>11. DOMAIN meant' = Pointers \cup {Pen} /\ contacts'[Pen] = contacts[Pen]
  BY <1>5, <1>6 DEF UpdateTold
<1>12. T!ContactsAreTold'
  <2> SUFFICES ASSUME NEW q \in DOMAIN meant'
               PROVE  \/ (IF q = Pen THEN "pen" ELSE "touch") \in doubt'
                      \/ contacts'[q] = meant'[q]
    BY DEF T!ContactsAreTold
  <2> QED BY <1>6, <1>8, <1>9, <1>10, <1>11
<1>13. T!HeldIsRepeated'
  <2> SUFFICES ASSUME NEW q \in DOMAIN meant', contacts'[q] # "away"
               PROVE  IF q = Pen THEN "pen" \in doubt' \/ penRepeat' # "none"
                      ELSE "touch" \in doubt' \/ touchRepeat' # "none"
    BY DEF T!HeldIsRepeated
  <2> QED BY <1>1, <1>8, <1>9, <1>10, <1>11
<1> QED
  BY <1>1, <1>2, <1>5, <1>6, <1>7, <1>12, <1>13
  DEF T!IInv, UpdateTold, T!NoneIsLeft

LEMMA TouchCancelAllInv ==
  ASSUME T!IInv, NEW ok \in BOOLEAN, T!TouchCancelAll(ok) PROVE T!IInv'
<1> DEFINE slots == T!perform_touch_compaction(touchInfo)
           n == T!Cardinality(T!Active(slots))
           cancelled ==
             [i \in T!Slot |->
                [slots[i] EXCEPT !.flags =
                   T!populate_common_pointer_info(@, "cancel_all")]]
           seen == T!Injected(cancelled, n)
<1>1. /\ context = "alive" /\ context' = "alive"
      /\ meant' = [p \in DOMAIN meant |->
                     IF p = Pen THEN meant[p] ELSE "away"]
      /\ IF n > 0 THEN T!Inject("touch", seen, ok)
         ELSE ok /\ UNCHANGED <<contacts, doubt>>
      /\ touchInfo' = T!NoTouches /\ activeTouchSlots' = 0
      /\ touchRepeat' = "none" /\ penRepeat \in {"none", "timer", "due"}
      /\ UNCHANGED <<penInfo, penRepeat>>
  BY DEF T!TouchCancelAll, T!CancelAllTouches, T!Idle, T!penVars, T!IInv,
     T!TypeOK
<1>2. /\ touchInfo \in T!SlotsType
      /\ contacts \in [Pointers \cup {Pen} -> T!Contact]
      /\ meant \in [Pointers \cup {Pen} -> T!Contact]
      /\ T!SlotsFollow(touchInfo, meant)
      /\ meant[Pen] = T!Seen(penInfo) /\ penInfo \subseteq T!PointerFlags
  BY DEF T!IInv, T!TypeOK
<1>3. /\ slots \in T!SlotsType /\ T!SlotsFollow(slots, meant)
      /\ T!Active(slots) = 1..n /\ n \in 0..TouchSlots
  BY <1>2, CompactFits
<1>4. /\ T!NoTouches \in T!SlotsType /\ T!Active(T!NoTouches) = {}
  BY PointersAssumption DEF T!NoTouches, T!SlotsType, T!Unused, T!Active
<1> HIDE DEF slots, n
<1>5. /\ meant' \in [Pointers \cup {Pen} -> T!Contact]
      /\ meant'[Pen] = meant[Pen] /\ \A q \in Pointers : meant'[q] = "away"
  BY <1>1, <1>2, PointersAssumption DEF T!Contact
<1>6. /\ DOMAIN seen = Pointers /\ \A q \in DOMAIN seen : seen[q] = "away"
  <2>1. DOMAIN seen = Pointers
    BY DEF T!Injected
  <2>2. \A i \in T!Slot : T!Seen(cancelled[i].flags) = "away"
    <3> SUFFICES ASSUME NEW i \in T!Slot
                 PROVE  T!Seen(cancelled[i].flags) = "away"
      OBVIOUS
    <3>1. slots[i] \in [id : Pointers \cup {None},
                        flags : SUBSET T!PointerFlags]
      BY <1>3 DEF T!SlotsType
    <3>2. cancelled[i].flags =
            T!populate_common_pointer_info(slots[i].flags, "cancel_all")
      BY <3>1
    <3>3. \A b : T!Meant(b, "cancel_all") = "away"
      BY DEF T!Meant
    <3>4. "cancel_all" \in T!Events
      BY DEF T!Events
    <3> QED BY <3>1, <3>2, <3>3, <3>4, FlagsTell
  <2>3. ASSUME NEW q \in Pointers PROVE seen[q] = "away"
    <3> DEFINE mine == {i \in 1..n : cancelled[i].id = q
                                       /\ cancelled[i].flags # {}}
    <3>1. seen[q] = IF mine = {} THEN "away"
                    ELSE T!Seen(cancelled[T!Min(mine)].flags)
      BY DEF T!Injected
    <3>2. ASSUME mine # {} PROVE T!Min(mine) \in T!Slot
      <4>1. mine \in SUBSET Nat
        OBVIOUS
      <4>2. \E x \in mine : \A y \in mine : x <= y
        <5> HIDE DEF mine
        <5> QED BY <3>2, <4>1, LeastNumber
      <4>3. T!Min(mine) \in mine
        <5> HIDE DEF mine
        <5> QED BY <4>2 DEF T!Min
      <4> QED BY <1>3, <4>3, PointersAssumption DEF T!Slot
    <3> HIDE DEF mine, cancelled, seen
    <3> QED BY <2>2, <3>1, <3>2
  <2> HIDE DEF seen
  <2> QED BY <2>1, <2>3
<1> HIDE DEF seen
<1>7. /\ contacts' \in [Pointers \cup {Pen} -> T!Contact]
      /\ contacts'[Pen] = contacts[Pen]
      /\ "touch" \notin doubt' => \A q \in Pointers : contacts'[q] = "away"
      /\ "pen" \in doubt' <=> "pen" \in doubt
  <2>1. CASE n > 0
    <3>1. /\ contacts' \in [Pointers \cup {Pen} -> T!Contact]
          /\ \A q \in Pointers \cup {Pen} :
               contacts'[q] = IF ok /\ q \in DOMAIN seen THEN seen[q]
                              ELSE contacts[q]
          /\ doubt' = IF ok THEN doubt \ {"touch"} ELSE doubt \cup {"touch"}
      <4>1. T!Inject("touch", seen, ok)
        BY <1>1, <2>1
      <4>2. \A q \in DOMAIN seen : seen[q] \in T!Contact
        BY <1>6 DEF T!Contact
      <4> QED BY <1>2, <4>1, <4>2, InjectTells
    <3> QED BY <1>6, <3>1, PointersAssumption
  <2>2. CASE ~(n > 0)
    <3>1. UNCHANGED <<contacts, doubt>>
      BY <1>1, <2>2
    <3>2. T!Active(slots) = {}
      BY <1>3, <2>2, PointersAssumption
    <3>3. \A q \in Pointers : meant[q] = "away"
      BY <1>3, <3>2 DEF T!SlotsFollow, T!Find
    <3>4. \A q \in Pointers : "touch" \in doubt \/ contacts[q] = meant[q]
      BY <1>1, <1>2, PointersAssumption DEF T!IInv, T!ContactsAreTold
    <3> QED BY <1>2, <3>1, <3>3, <3>4
  <2> QED BY <2>1, <2>2
<1>8. T!TypeOK' /\ T!SlotsFollow(touchInfo', meant')
      /\ T!Active(touchInfo') \subseteq 1..activeTouchSlots'
  BY <1>1, <1>2, <1>4, <1>5, <1>7, PointersAssumption
  DEF T!TypeOK, T!SlotsFollow
<1>9. T!ContactsAreTold'
  BY <1>1, <1>5, <1>7, PointersAssumption DEF T!IInv, T!ContactsAreTold
<1>10. T!HeldIsRepeated'
  BY <1>1, <1>5, <1>7, PointersAssumption DEF T!IInv, T!HeldIsRepeated
<1> QED
  BY <1>1, <1>2, <1>5, <1>8, <1>9, <1>10 DEF T!IInv, T!NoneIsLeft

LEMMA RepeatTouchInv ==
  ASSUME T!IInv, NEW ok \in BOOLEAN, T!RepeatTouch(ok) PROVE T!IInv'
<1> DEFINE seen == T!Injected(touchInfo, activeTouchSlots)
<1>1. /\ touchRepeat' = "timer" /\ T!Inject("touch", seen, ok)
      /\ UNCHANGED <<context, touchInfo, activeTouchSlots, penInfo>>
      /\ UNCHANGED <<penRepeat, meant>> /\ context = "alive"
  BY DEF T!RepeatTouch, T!penVars
<1>2. DOMAIN seen = Pointers /\ \A q \in Pointers : seen[q] = meant[q]
  <2>1. DOMAIN seen = Pointers
    BY DEF T!Injected
  <2> QED BY <2>1, InjectedTells DEF T!IInv, T!TypeOK
<1> HIDE DEF seen
<1>3. /\ contacts' \in [Pointers \cup {Pen} -> T!Contact]
      /\ \A q \in Pointers \cup {Pen} :
           contacts'[q] = IF ok /\ q \in DOMAIN seen THEN seen[q]
                          ELSE contacts[q]
      /\ doubt' = IF ok THEN doubt \ {"touch"} ELSE doubt \cup {"touch"}
  <2>1. \A q \in DOMAIN seen : seen[q] \in T!Contact
    BY <1>2 DEF T!IInv, T!TypeOK
  <2> QED BY <1>1, <2>1, InjectTells DEF T!IInv, T!TypeOK
<1>4. DOMAIN meant = Pointers \cup {Pen}
  BY DEF T!IInv, T!TypeOK
<1>5. T!ContactsAreTold'
  BY <1>1, <1>2, <1>3, <1>4, PointersAssumption
  DEF T!IInv, T!ContactsAreTold
<1>6. T!HeldIsRepeated'
  BY <1>1, <1>2, <1>3, <1>4, PointersAssumption
  DEF T!IInv, T!HeldIsRepeated
<1> QED BY <1>1, <1>3, <1>5, <1>6 DEF T!IInv, T!TypeOK, T!NoneIsLeft

(* The pen: an event, or its repeat.                                       *)
LEMMA PenInv ==
  ASSUME T!IInv, NEW ok \in BOOLEAN, NEW flags \in SUBSET T!PointerFlags,
         T!Inject("pen", [p \in {Pen} |-> T!Seen(flags)], ok),
         meant' = [meant EXCEPT ![Pen] = T!Seen(flags)],
         penInfo' \in SUBSET T!PointerFlags, T!Seen(penInfo') = T!Seen(flags),
         penRepeat' \in {"none", "timer"},
         ok /\ T!Seen(flags) # "away" => penRepeat' # "none",
         context = "alive", UNCHANGED context,
         UNCHANGED <<touchInfo, activeTouchSlots, touchRepeat>>
  PROVE  T!IInv'
<1> DEFINE seen == [p \in {Pen} |-> T!Seen(flags)]
<1>1. T!Seen(flags) \in T!Contact
  BY DEF T!Seen, T!Contact
<1>2. DOMAIN seen = {Pen} /\ seen[Pen] = T!Seen(flags)
  OBVIOUS
<1>3. /\ contacts' \in [Pointers \cup {Pen} -> T!Contact]
      /\ \A q \in Pointers \cup {Pen} :
           contacts'[q] = IF ok /\ q \in DOMAIN seen THEN seen[q]
                          ELSE contacts[q]
      /\ doubt' = IF ok THEN doubt \ {"pen"} ELSE doubt \cup {"pen"}
  <2>1. \A q \in DOMAIN seen : seen[q] \in T!Contact
    BY <1>1
  <2> HIDE DEF seen
  <2>2. T!Inject("pen", seen, ok)
    BY DEF seen
  <2> QED BY <2>1, <2>2, InjectTells DEF T!IInv, T!TypeOK
<1> HIDE DEF seen
<1>4. /\ meant' \in [Pointers \cup {Pen} -> T!Contact]
      /\ meant'[Pen] = T!Seen(flags)
      /\ \A q \in Pointers : meant'[q] = meant[q]
      /\ DOMAIN meant = Pointers \cup {Pen}
  BY <1>1, PointersAssumption DEF T!IInv, T!TypeOK
<1>5. \A q \in Pointers : contacts'[q] = contacts[q]
  BY <1>2, <1>3, PointersAssumption
<1>6. contacts'[Pen] = IF ok THEN T!Seen(flags) ELSE contacts[Pen]
  BY <1>2, <1>3
<1>7. /\ "touch" \in doubt' <=> "touch" \in doubt
      /\ "pen" \in doubt' <=> ~ok
  BY <1>3
<1>9. T!SlotsFollow(touchInfo', meant')
  BY <1>4 DEF T!IInv, T!SlotsFollow
<1>10. T!ContactsAreTold'
  BY <1>4, <1>5, <1>6, <1>7, PointersAssumption
  DEF T!IInv, T!ContactsAreTold
<1>11. T!HeldIsRepeated'
  BY <1>4, <1>5, <1>6, <1>7, PointersAssumption
  DEF T!IInv, T!HeldIsRepeated
<1> QED
  BY <1>3, <1>4, <1>9, <1>10, <1>11
  DEF T!IInv, T!TypeOK, T!NoneIsLeft

LEMMA PointersNext == T!IInv /\ [T!Next]_T!vars => T!IInv'
<1> SUFFICES ASSUME T!IInv, [T!Next]_T!vars PROVE T!IInv'
  OBVIOUS
<1>1. ASSUME NEW e \in T!Events, NEW ok \in BOOLEAN, T!PenUpdate(e, ok)
      PROVE  T!IInv'
  <2> DEFINE flags == T!populate_common_pointer_info(penInfo, e)
             kept == flags \ T!EDGE_TRIGGERED_POINTER_FLAGS
  <2>1. /\ context = "alive" /\ UNCHANGED context
        /\ UNCHANGED <<touchInfo, activeTouchSlots, touchRepeat>>
        /\ meant' = [meant EXCEPT ![Pen] = T!Meant(@, e)]
        /\ penInfo' = IF ok THEN kept ELSE flags
        /\ T!Inject("pen", [p \in {Pen} |-> T!Seen(flags)], ok)
        /\ penRepeat' = IF ok /\ kept # {} THEN "timer" ELSE "none"
    BY <1>1 DEF T!PenUpdate, T!Idle, T!touchVars
  <2>2. /\ flags \in SUBSET T!PointerFlags
        /\ T!Seen(flags) = T!Meant(T!Seen(penInfo), e)
        /\ T!Seen(kept) = T!Seen(flags)
    BY FlagsTell DEF T!IInv, T!TypeOK
  <2> HIDE DEF flags
  <2>3. meant' = [meant EXCEPT ![Pen] = T!Seen(flags)]
    BY <2>1, <2>2 DEF T!IInv
  <2>4. kept = {} => T!Seen(flags) = "away"
    BY <2>2 DEF T!Seen
  <2> HIDE DEF kept
  <2>5. penInfo' \in SUBSET T!PointerFlags /\ T!Seen(penInfo') = T!Seen(flags)
    BY <2>1, <2>2 DEF kept
  <2> QED BY <2>1, <2>2, <2>3, <2>4, <2>5, PenInv
<1>2. ASSUME NEW ok \in BOOLEAN, T!RepeatPen(ok) PROVE T!IInv'
  <2>1. /\ context = "alive" /\ penRepeat' = "timer" /\ UNCHANGED context
        /\ UNCHANGED <<touchInfo, activeTouchSlots, touchRepeat>>
        /\ UNCHANGED <<penInfo, meant>>
        /\ T!Inject("pen", [p \in {Pen} |-> T!Seen(penInfo)], ok)
    BY <1>2 DEF T!RepeatPen, T!touchVars
  <2>2. meant' = [meant EXCEPT ![Pen] = T!Seen(penInfo)]
    BY <2>1 DEF T!IInv, T!TypeOK
  <2> QED BY <2>1, <2>2, PenInv DEF T!IInv, T!TypeOK
<1>3. ASSUME T!TouchDue \/ T!PenDue \/ UNCHANGED T!vars PROVE T!IInv'
  <2>1. /\ UNCHANGED <<context, touchInfo, activeTouchSlots, penInfo>>
        /\ UNCHANGED <<contacts, meant, doubt, crossed>>
        /\ touchRepeat' = touchRepeat \/
             (touchRepeat' = "due" /\ context = "alive")
        /\ penRepeat' = penRepeat \/
             (penRepeat' = "due" /\ context = "alive")
    BY <1>3 DEF T!TouchDue, T!PenDue, T!Idle, T!vars, T!touchVars, T!penVars,
       T!worldVars
  <2>2. T!TypeOK' /\ T!ContactsAreTold'
    BY <2>1 DEF T!IInv, T!TypeOK, T!ContactsAreTold
  <2>3. T!HeldIsRepeated' /\ T!NoneIsLeft'
    BY <2>1 DEF T!IInv, T!HeldIsRepeated, T!NoneIsLeft
  <2> QED BY <2>1, <2>2, <2>3 DEF T!IInv
<1>4. ASSUME T!Destroy PROVE T!IInv'
  <2>1. /\ context' = "freed"
        /\ UNCHANGED <<touchInfo, activeTouchSlots, penInfo, meant>>
        /\ contacts' = [p \in DOMAIN contacts |-> "away"]
        /\ touchRepeat' = T!Stopped(touchRepeat)
        /\ penRepeat' = T!Stopped(penRepeat)
        /\ crossed' = (touchRepeat = "due" \/ penRepeat = "due")
    BY <1>4 DEF T!Destroy
  <2>2. T!TypeOK'
    BY <2>1 DEF T!IInv, T!TypeOK, T!Contact, T!Stopped
  <2>3. T!ContactsAreTold' /\ T!HeldIsRepeated'
    BY <2>1 DEF T!ContactsAreTold, T!HeldIsRepeated
  <2>4. T!SlotsFollow(touchInfo', meant')
        /\ T!Active(touchInfo') \subseteq 1..activeTouchSlots'
        /\ meant'[Pen] = T!Seen(penInfo')
    BY <2>1 DEF T!IInv
  <2>5. ASSUME ~crossed' PROVE touchRepeat' = "none" /\ penRepeat' = "none"
    <3>1. touchRepeat # "due" /\ penRepeat # "due"
      BY <2>1, <2>5
    <3>2. touchRepeat \in {"none", "timer"} /\ penRepeat \in {"none", "timer"}
      BY <3>1 DEF T!IInv, T!TypeOK
    <3> QED BY <2>1, <3>2 DEF T!Stopped
  <2> QED BY <2>2, <2>3, <2>4, <2>5 DEF T!IInv, T!NoneIsLeft
<1> QED
  BY <1>1, <1>2, <1>3, <1>4, TouchUpdateInv, TouchCancelAllInv, RepeatTouchInv
  DEF T!Next

LEMMA PointersInit == T!Init => T!IInv
<1> SUFFICES ASSUME T!Init PROVE T!IInv
  OBVIOUS
<1>1. T!TypeOK /\ T!Active(touchInfo) = {}
  BY PointersAssumption
  DEF T!Init, T!TypeOK, T!SlotsType, T!Unused, T!Contact, T!Active
<1>2. \A p \in Pointers \cup {Pen} :
        contacts[p] = "away" /\ meant[p] = "away"
  BY DEF T!Init
<1>3. DOMAIN meant = Pointers \cup {Pen}
  BY <1>1 DEF T!TypeOK
<1>4. T!SlotsFollow(touchInfo, meant)
  BY <1>1, <1>2 DEF T!SlotsFollow
<1> QED
  BY <1>1, <1>2, <1>3, <1>4
  DEF T!IInv, T!Init, T!ContactsAreTold, T!HeldIsRepeated, T!NoneIsLeft,
      T!Seen

(* Whatever the order in which fingers come and go, the slots are filled,  *)
(* and injections fail, the system has the contacts that the client has as *)
(* soon as an injection is taken, and what is held is repeated             *)
(* (touch_update, pen_update, perform_touch_compaction).                   *)
THEOREM PointersFollow ==
  T!Init /\ [][T!Next]_T!vars => []T!PointersFollowClient
<1>1. T!IInv => T!PointersFollowClient
  BY DEF T!IInv, T!PointersFollowClient
<1> QED BY <1>1, PointersInit, PointersNext, PTL

-----------------------------------------------------------------------------
(* WindowsGamepads.                                                        *)

\* What a report leaves of a gamepad, and of its fingers.
SamePad(h, g) ==
  /\ h \in G!Pads /\ h.gp = g.gp /\ h.kind = g.kind
  /\ h.attached = g.attached /\ h.client = g.client /\ h.last = g.last
SameFingers(h, g) ==
  /\ h.pointers = g.pointers /\ h.available = g.available
  /\ h.raised = g.raised

\* What a slot that is set holds.
PadIsSet(s, h) ==
  /\ gamepads' \in [PadSlots -> G!Pads] /\ gamepads'[s] = h
  /\ \A r \in PadSlots \ {s} : gamepads'[r] = gamepads[r]

LEMMA SetPad ==
  ASSUME G!TypeOK, NEW s \in PadSlots, NEW h \in G!Pads,
         gamepads' = [gamepads EXCEPT ![s] = h]
  PROVE  PadIsSet(s, h)
BY DEF G!TypeOK, PadIsSet

LEMMA PadFields ==
  ASSUME NEW g \in G!Pads
  PROVE  /\ g.gp \in Targets \cup {None} /\ g.kind \in G!Kinds
         /\ g.attached \in BOOLEAN /\ g.client \in Gamepads \cup {None}
         /\ g.available \in SUBSET G!Index /\ g.pointers \in G!Touches
         /\ g.raised \in SUBSET G!Index /\ g.last \in G!Levels
         /\ g.repeat \in BOOLEAN /\ g.lost \in BOOLEAN
BY DEF G!Pads

(* A map of fingers gives each of them one of the two indexes.             *)
LEMMA TouchFields ==
  ASSUME NEW x \in G!Touches
  PROVE  /\ x = [f \in DOMAIN x |-> x[f]]
         /\ DOMAIN x \in SUBSET Fingers
         /\ \A f \in DOMAIN x : x[f] \in G!Index
<1>1. PICK some \in SUBSET Fingers : x \in [some -> G!Index]
  BY DEF G!Touches
<1> QED BY <1>1

LEMMA NoTouches == <<>> \in G!Touches /\ DOMAIN <<>> = {}
<1>1. <<>> \in [{} -> G!Index]
  OBVIOUS
<1> QED BY <1>1 DEF G!Touches

(* ds4_update_ts_and_send changes nothing but what is sent again.          *)
LEMMA ReportKept ==
  ASSUME NEW g \in G!Pads, NEW fails \in BOOLEAN
  PROVE  LET h == G!ds4_update_ts_and_send(g, fails)
         IN /\ SamePad(h, g) /\ SameFingers(h, g)
            /\ h.repeat => ~h.lost
<1> DEFINE h == G!ds4_update_ts_and_send(g, fails)
<1>1. CASE ~G!Attached(g)
  <2>1. h = [g EXCEPT !.repeat = FALSE]
    BY <1>1 DEF G!ds4_update_ts_and_send
  <2> HIDE DEF h
  <2>2. SamePad(h, g)
    BY <2>1 DEF SamePad, G!Pads
  <2>3. SameFingers(h, g) /\ h.repeat = FALSE
    BY <2>1 DEF SameFingers, G!Pads
  <2> QED BY <2>2, <2>3 DEF h
<1>2. CASE G!Attached(g)
  <2>1. h = [g EXCEPT !.repeat = ~fails, !.lost = fails]
    BY <1>2 DEF G!ds4_update_ts_and_send
  <2> HIDE DEF h
  <2>2. SamePad(h, g)
    BY <2>1 DEF SamePad, G!Pads
  <2>3. SameFingers(h, g)
    BY <2>1 DEF SameFingers, G!Pads
  <2>4. h.repeat = ~fails /\ h.lost = fails
    BY <2>1 DEF G!Pads
  <2>5. h.repeat => ~h.lost
    <3>1. CASE fails
      BY <2>4, <3>1
    <3>2. CASE ~fails
      BY <2>4, <3>2
    <3> QED BY <3>1, <3>2
  <2> QED BY <2>2, <2>3, <2>5 DEF h
<1> QED BY <1>1, <1>2

(* gamepad_touch: a finger comes down on a free index,                     *)
LEMMA DownFits ==
  ASSUME NEW g \in G!Pads, NEW f \in Fingers, g.available # {}
  PROVE  LET h == G!Down(g, f)
         IN /\ SamePad(h, g) /\ h.repeat = g.repeat /\ h.lost = g.lost
            /\ G!FingersFit(g) /\ f \notin DOMAIN g.pointers =>
                 G!FingersFit(h)
<1> DEFINE h == G!Down(g, f)
           i == G!First(g.available)
           touched == [x \in DOMAIN g.pointers \cup {f} |->
                         IF x = f THEN i ELSE g.pointers[x]]
<1>1. h = [g EXCEPT !.pointers = touched, !.available = @ \ {i},
                    !.raised = @ \ {i}]
  BY DEF G!Down
<1>2. /\ g.available \in SUBSET G!Index /\ g.raised \in SUBSET G!Index
      /\ DOMAIN g.pointers \in SUBSET Fingers
      /\ \A x \in DOMAIN g.pointers : g.pointers[x] \in G!Index
  BY PadFields, TouchFields
<1>3. i \in g.available /\ i \in G!Index
  BY <1>2 DEF G!First, G!Index
<1> HIDE DEF i, h
<1>4. touched \in G!Touches
  <2>1. DOMAIN g.pointers \cup {f} \in SUBSET Fingers
    BY <1>2
  <2>2. touched \in [DOMAIN g.pointers \cup {f} -> G!Index]
    BY <1>2, <1>3
  <2> QED BY <2>1, <2>2 DEF G!Touches
<1> DEFINE held == DOMAIN g.pointers
<1>5. /\ DOMAIN touched = held \cup {f} /\ touched[f] = i
      /\ \A x \in held : x # f => touched[x] = g.pointers[x]
  OBVIOUS
<1> HIDE DEF touched, held
<1>6. /\ SamePad(h, g) /\ h.repeat = g.repeat /\ h.lost = g.lost
      /\ h.pointers = touched /\ h.available = g.available \ {i}
      /\ h.raised = g.raised \ {i}
  BY <1>1, <1>2, <1>4 DEF SamePad, G!Pads
<1>7. ASSUME G!FingersFit(g), f \notin held
      PROVE  G!FingersFit(h)
  <2>1. /\ \A a, b \in held : g.pointers[a] = g.pointers[b] => a = b
        /\ g.available = G!Index \ {g.pointers[x] : x \in held}
        /\ g.raised = g.available
    BY <1>7 DEF G!FingersFit, G!IsInjective, G!Range, held
  <2>2. \A x \in held : g.pointers[x] # i
    BY <1>3, <2>1
  <2>3. \A a, b \in DOMAIN touched : touched[a] = touched[b] => a = b
    BY <1>5, <1>7, <2>1, <2>2
  <2>4. {touched[x] : x \in DOMAIN touched} =
          {g.pointers[x] : x \in held} \cup {i}
    BY <1>5, <1>7
  <2> QED
    BY <1>6, <2>1, <2>3, <2>4 DEF G!FingersFit, G!IsInjective, G!Range
<1> QED BY <1>6, <1>7 DEF h, held

(* and gives it back when it goes up;                                      *)
LEMMA UpFits ==
  ASSUME NEW g \in G!Pads, NEW f \in DOMAIN g.pointers
  PROVE  LET h == G!Up(g, f)
         IN /\ SamePad(h, g) /\ h.repeat = g.repeat /\ h.lost = g.lost
            /\ G!FingersFit(g) => G!FingersFit(h)
<1> DEFINE h == G!Up(g, f)
           i == g.pointers[f]
           held == DOMAIN g.pointers
           kept == [x \in held \ {f} |-> g.pointers[x]]
<1>1. h = [g EXCEPT !.raised = @ \cup {i}, !.available = @ \cup {i},
                    !.pointers = G!Restrict(@, held \ {f})]
  BY DEF G!Up
<1>2. /\ g.available \in SUBSET G!Index /\ g.raised \in SUBSET G!Index
      /\ held \in SUBSET Fingers
      /\ \A x \in held : g.pointers[x] \in G!Index
  BY PadFields, TouchFields
<1>3. G!Restrict(g.pointers, held \ {f}) = kept
  BY DEF G!Restrict
<1>4. kept \in G!Touches
  <2>1. kept \in [held \ {f} -> G!Index] /\ held \ {f} \in SUBSET Fingers
    BY <1>2
  <2> QED BY <2>1 DEF G!Touches
<1>5. DOMAIN kept = held \ {f} /\ i \in G!Index
      /\ \A x \in held \ {f} : kept[x] = g.pointers[x]
  BY <1>2
<1> HIDE DEF h, kept
<1>6. /\ SamePad(h, g) /\ h.repeat = g.repeat /\ h.lost = g.lost
      /\ h.pointers = kept /\ h.available = g.available \cup {i}
      /\ h.raised = g.raised \cup {i}
  <2> HIDE DEF held, i
  <2> QED BY <1>1, <1>2, <1>3, <1>4, <1>5 DEF SamePad, G!Pads
<1>7. ASSUME G!FingersFit(g) PROVE G!FingersFit(h)
  <2>1. /\ \A a, b \in held : g.pointers[a] = g.pointers[b] => a = b
        /\ g.available = G!Index \ {g.pointers[x] : x \in held}
        /\ g.raised = g.available
    BY <1>7 DEF G!FingersFit, G!IsInjective, G!Range
  <2>2. \A a, b \in DOMAIN kept : kept[a] = kept[b] => a = b
    BY <1>5, <2>1
  <2>3. {kept[x] : x \in DOMAIN kept} =
          {g.pointers[x] : x \in held} \ {i}
    BY <1>5, <2>1
  <2>4. h.available = G!Index \ {kept[x] : x \in DOMAIN kept}
    BY <1>5, <1>6, <2>1, <2>3
  <2> QED
    BY <1>6, <2>1, <2>2, <2>4 DEF G!FingersFit, G!IsInjective, G!Range
<1> QED BY <1>6, <1>7 DEF h

(* when all are up, all indexes are free.                                  *)
LEMMA AllUpFits ==
  ASSUME NEW g \in G!Pads
  PROVE  LET h == G!AllUp(g)
         IN /\ SamePad(h, g) /\ h.repeat = g.repeat /\ h.lost = g.lost
            /\ G!FingersFit(h)
<1> DEFINE h == G!AllUp(g)
<1>1. h = [g EXCEPT !.raised = G!Index, !.available = G!Index,
                    !.pointers = <<>>]
  BY DEF G!AllUp
<1> HIDE DEF h
<1>2. /\ SamePad(h, g) /\ h.repeat = g.repeat /\ h.lost = g.lost
      /\ h.pointers = <<>> /\ h.available = G!Index /\ h.raised = G!Index
  BY <1>1, NoTouches DEF SamePad, G!Pads
<1>3. G!FingersFit(h)
  BY <1>2, NoTouches DEF G!FingersFit, G!IsInjective, G!Range
<1> QED BY <1>2, <1>3 DEF h

(* What one slot reports, while no slot comes or goes.                     *)
LEMMA PadKept ==
  ASSUME G!Base, NEW s \in PadSlots, NEW h, SamePad(h, gamepads[s]),
         gamepads' = [gamepads EXCEPT ![s] = h],
         h.repeat => gamepadMask[s] # None /\ ~h.lost,
         UNCHANGED <<connected, gamepadMask, tasks, game, felt, arrivals,
                     inherited>>,
         refused' \in Nat, refused' = 0 => refused = 0,
         confused' \in SUBSET PadSlots, confused \ {s} \subseteq confused',
         s \notin confused' /\ gamepadMask[s] # None /\ h.kind = "ds4" =>
           G!FingersFit(h)
  PROVE  G!Base' /\ (G!Fed => G!Fed')
<1>1. PadIsSet(s, h)
  BY SetPad DEF SamePad, G!Base
<1>2. /\ gamepads' \in [PadSlots -> G!Pads] /\ gamepads'[s] = h
      /\ \A r \in PadSlots \ {s} : gamepads'[r] = gamepads[r]
  BY <1>1 DEF PadIsSet
<1>3. \A r \in PadSlots :
        /\ gamepads'[r].gp = gamepads[r].gp
        /\ gamepads'[r].kind = gamepads[r].kind
        /\ gamepads'[r].attached = gamepads[r].attached
        /\ gamepads'[r].client = gamepads[r].client
        /\ gamepads'[r].last = gamepads[r].last
  BY <1>2 DEF SamePad
<1>4. G!TypeOK'
  BY <1>2 DEF G!Base, G!TypeOK
<1>5. G!SlotsDiffer' /\ G!OwnersAreKnown'
  BY <1>3 DEF G!Base, G!SlotsDiffer, G!OwnersAreKnown
<1>6. G!FingersHaveIndexes'
  <2> SUFFICES ASSUME NEW r \in PadSlots \ confused', gamepadMask'[r] # None,
                      gamepads'[r].kind = "ds4"
               PROVE  G!FingersFit(gamepads'[r])
    BY DEF G!FingersHaveIndexes, G!FingersFit
  <2>1. CASE r = s
    BY <1>2, <2>1
  <2>2. CASE r # s
    BY <1>2, <2>2 DEF G!Base, G!FingersHaveIndexes
  <2> QED BY <2>1, <2>2
<1>7. G!GamepadsAreServed'
  <2>1. \A r \in PadSlots :
          /\ gamepads'[r].repeat => gamepadMask'[r] # None
          /\ gamepads'[r].repeat => ~gamepads'[r].lost
    BY <1>2 DEF G!Base, G!GamepadsAreServed
  <2>2. \A r \in PadSlots :
          gamepadMask'[r] # None =>
            connected' /\ gamepads'[r].gp # None /\ gamepads'[r].attached
    BY <1>3 DEF G!Base, G!GamepadsAreServed, G!Attached
  <2>3. connected' /\ refused' = 0 => \E r \in PadSlots : gamepadMask'[r] # None
    BY DEF G!Base, G!GamepadsAreServed
  <2> QED BY <2>1, <2>2, <2>3 DEF G!GamepadsAreServed, G!Attached
<1>8. ASSUME G!Fed PROVE G!Fed'
  BY <1>3, <1>8 DEF G!Fed, G!Comes
<1> QED BY <1>4, <1>5, <1>6, <1>7, <1>8 DEF G!Base

\* A step of the invariant.
PadsAreKept == G!Base' /\ (G!Fed => G!Fed')

LEMMA FailsCount ==
  ASSUME G!Base, NEW fails \in BOOLEAN, G!CanFail(fails)
  PROVE  refused' \in Nat /\ (refused' = 0 => refused = 0)
BY DEF G!Base, G!TypeOK, G!CanFail

(* gamepad_update and the repeat of a report.                              *)
LEMMA ReportInv ==
  ASSUME G!Base, NEW s \in PadSlots, NEW fails \in BOOLEAN,
         \/ \E c \in Gamepads : G!gamepad_update(c, s, fails)
         \/ G!Repeat(s, fails)
  PROVE  PadsAreKept
<1> DEFINE g == gamepads[s]
           h == G!ds4_update_ts_and_send(g, fails)
<1>1. /\ gamepads' = [gamepads EXCEPT ![s] = h] /\ G!CanFail(fails)
      /\ UNCHANGED <<connected, gamepadMask, tasks, game, felt, arrivals,
                     confused, inherited>>
  BY DEF G!gamepad_update, G!Repeat
<1>2. gamepadMask[s] # None
  BY GamepadsAssumption
  DEF G!gamepad_update, G!Repeat, G!Owns, G!Base, G!GamepadsAreServed
<1>3. g \in G!Pads
  BY DEF G!Base, G!TypeOK
<1>4. SamePad(h, g) /\ SameFingers(h, g) /\ (h.repeat => ~h.lost)
  BY <1>3, ReportKept
<1> HIDE DEF h
<1>5. s \notin confused' /\ gamepadMask[s] # None /\ h.kind = "ds4" =>
        G!FingersFit(h)
  BY <1>1, <1>4
  DEF G!Base, G!FingersHaveIndexes, G!FingersFit, SamePad, SameFingers
<1>6. confused' \in SUBSET PadSlots /\ confused \ {s} \subseteq confused'
  BY <1>1 DEF G!Base, G!TypeOK
<1> QED
  BY <1>1, <1>2, <1>4, <1>5, <1>6, FailsCount, PadKept DEF PadsAreKept

(* gamepad_touch.                                                          *)
LEMMA TouchInv ==
  ASSUME G!Base, NEW c \in Gamepads, NEW s \in PadSlots,
         NEW e \in {"down", "up", "move", "cancel_all"}, NEW f \in Fingers,
         NEW fails \in BOOLEAN, G!gamepad_touch(c, s, e, f, fails)
  PROVE  PadsAreKept
<1> DEFINE g == gamepads[s]
           u == CASE e = "down" -> G!Down(g, f)
                  [] e = "up" -> G!Up(g, f)
                  [] e = "move" -> g
                  [] e = "cancel_all" -> G!AllUp(g)
           h == G!ds4_update_ts_and_send(u, fails)
<1>1. /\ G!Owns(c, s) /\ g.kind = "ds4" /\ G!CanFail(fails)
      /\ e = "down" => g.available # {}
      /\ e \in {"up", "move"} => f \in DOMAIN g.pointers
      /\ gamepads' = [gamepads EXCEPT ![s] = h]
      /\ confused' = IF e = "down" /\ f \in DOMAIN g.pointers
                     THEN confused \cup {s}
                     ELSE IF e = "cancel_all" THEN confused \ {s} ELSE confused
      /\ UNCHANGED <<connected, gamepadMask, tasks, game, felt, arrivals,
                     inherited>>
  BY DEF G!gamepad_touch
<1>2. g \in G!Pads /\ gamepadMask[s] # None
  BY <1>1, GamepadsAssumption DEF G!Base, G!TypeOK, G!Owns
<1>3. /\ SamePad(u, g)
      /\ s \notin confused' => G!FingersFit(u)
  <2>1. s \notin confused => G!FingersFit(g)
    BY <1>1, <1>2 DEF G!Base, G!FingersHaveIndexes
  <2>2. CASE e = "down"
    <3>1. u = G!Down(g, f)
      BY <2>2
    <3>2. s \notin confused' => s \notin confused /\ f \notin DOMAIN g.pointers
      BY <1>1, <2>2
    <3> HIDE DEF u, g
    <3> QED BY <1>1, <1>2, <2>1, <2>2, <3>1, <3>2, DownFits
  <2>3. CASE e = "up"
    <3>1. u = G!Up(g, f)
      BY <2>3
    <3>2. s \notin confused' => s \notin confused
      BY <1>1, <2>3
    <3> HIDE DEF u, g
    <3> QED BY <1>1, <1>2, <2>1, <2>3, <3>1, <3>2, UpFits
  <2>4. CASE e = "move"
    <3>1. u = g /\ (s \notin confused' => s \notin confused)
      BY <1>1, <2>4
    <3> QED BY <1>2, <2>1, <3>1 DEF SamePad
  <2>5. CASE e = "cancel_all"
    <3>1. u = G!AllUp(g)
      BY <2>5
    <3> HIDE DEF u, g
    <3> QED BY <1>2, <3>1, AllUpFits
  <2> QED BY <2>2, <2>3, <2>4, <2>5
<1> HIDE DEF u
<1>4. u \in G!Pads
  BY <1>3 DEF SamePad
<1>5. SamePad(h, u) /\ SameFingers(h, u) /\ (h.repeat => ~h.lost)
  BY <1>4, ReportKept
<1> HIDE DEF h
<1>6. SamePad(h, g)
  BY <1>3, <1>5 DEF SamePad
<1>7. s \notin confused' => G!FingersFit(h)
  BY <1>3, <1>5 DEF G!FingersFit, SameFingers
<1>8. confused' \in SUBSET PadSlots /\ confused \ {s} \subseteq confused'
  BY <1>1 DEF G!Base, G!TypeOK
<1> QED
  BY <1>1, <1>2, <1>5, <1>6, <1>7, <1>8, FailsCount, PadKept DEF PadsAreKept

(* alloc_gamepad, when the driver does not take the gamepad.               *)
LEMMA RefusedInv ==
  ASSUME G!Base, NEW c \in Gamepads, NEW s \in PadSlots,
         NEW sort \in G!Kinds, NEW t \in Targets,
         NEW result \in {"unconnected", "refused"},
         G!alloc_gamepad(c, s, sort, t, result)
  PROVE  PadsAreKept
<1> DEFINE g == gamepads[s]
           h == IF result = "unconnected" THEN [g EXCEPT !.client = c]
                ELSE [g EXCEPT !.gp = t, !.kind = sort, !.attached = FALSE,
                        !.client = c,
                        !.available = IF sort = "ds4" THEN G!Index ELSE @,
                        !.raised = IF sort = "ds4" THEN G!Index ELSE @]
<1>1. /\ gamepadMask[s] = None
      /\ \A r \in PadSlots : gamepads[r].gp # t
      /\ arrivals' = arrivals + 1 /\ refused' = refused + 1
      /\ result = "unconnected" => ~connected
      /\ connected' = (result = "refused")
      /\ gamepads' = [gamepads EXCEPT ![s] = h]
      /\ UNCHANGED <<gamepadMask, felt, confused, inherited, tasks>>
      /\ game' = [game EXCEPT ![t] = G!Still]
  BY DEF G!alloc_gamepad, G!CanFail, G!Arrived
<1>2. g \in G!Pads
  BY DEF G!Base, G!TypeOK
<1>3. /\ h \in G!Pads /\ h.repeat = g.repeat
      /\ h.gp = t \/ h.gp = g.gp
  <2>1. CASE result = "unconnected"
    <3>1. h = [g EXCEPT !.client = c]
      BY <2>1
    <3> HIDE DEF h, g
    <3> QED BY <1>2, <3>1 DEF G!Pads
  <2>2. CASE result = "refused" /\ sort = "ds4"
    <3>1. h = [g EXCEPT !.gp = t, !.kind = sort, !.attached = FALSE,
                 !.client = c, !.available = G!Index, !.raised = G!Index]
      BY <2>2
    <3> HIDE DEF h, g
    <3> QED BY <1>2, <3>1 DEF G!Pads
  <2>3. CASE result = "refused" /\ sort # "ds4"
    <3>1. h = [g EXCEPT !.gp = t, !.kind = sort, !.attached = FALSE,
                 !.client = c, !.available = @, !.raised = @]
      BY <2>3
    <3> HIDE DEF h, g
    <3> QED BY <1>2, <3>1 DEF G!Pads
  <2> QED BY <2>1, <2>2, <2>3
<1> HIDE DEF h
<1>4. PadIsSet(s, h)
  BY <1>1, <1>3, SetPad DEF G!Base
<1>5. /\ gamepads' \in [PadSlots -> G!Pads] /\ gamepads'[s] = h
      /\ \A r \in PadSlots \ {s} : gamepads'[r] = gamepads[r]
  BY <1>4 DEF PadIsSet
<1>6. G!Still \in G!Levels
  BY DEF G!Still, G!Levels
<1>7. G!TypeOK'
  BY <1>1, <1>5, <1>6 DEF G!Base, G!TypeOK
<1>8. refused' # 0
  BY <1>1 DEF G!Base, G!TypeOK
<1>9. \A r \in PadSlots : gamepadMask[r] # None => r # s
  BY <1>1
<1>10. G!SlotsDiffer'
  BY <1>1, <1>3, <1>5 DEF G!Base, G!SlotsDiffer
<1>11. G!OwnersAreKnown'
  BY <1>1, <1>5, <1>8, <1>9 DEF G!Base, G!OwnersAreKnown
<1>12. G!FingersHaveIndexes'
  BY <1>1, <1>5, <1>9 DEF G!Base, G!FingersHaveIndexes, G!FingersFit
<1>13. G!GamepadsAreServed'
  <2>1. ~g.repeat
    BY <1>1 DEF G!Base, G!GamepadsAreServed
  <2>2. \A r \in PadSlots :
          /\ gamepads'[r].repeat => gamepadMask'[r] # None
          /\ gamepads'[r].repeat => ~gamepads'[r].lost
    BY <1>1, <1>3, <1>5, <2>1 DEF G!Base, G!GamepadsAreServed
  <2>3. \A r \in PadSlots :
          gamepadMask'[r] # None =>
            connected' /\ gamepads'[r].gp # None /\ gamepads'[r].attached
    BY <1>1, <1>5, <1>9 DEF G!Base, G!GamepadsAreServed, G!Attached
  <2> QED BY <1>8, <2>2, <2>3 DEF G!GamepadsAreServed, G!Attached
<1>14. ASSUME G!Fed PROVE G!Fed'
  <2>1. \A r \in PadSlots : gamepadMask'[r] # None =>
          /\ gamepadMask[r] # None /\ gamepads'[r] = gamepads[r]
          /\ gamepadMask'[r] = gamepadMask[r]
          /\ gamepads[r].gp \in Targets \ {t}
    <3> SUFFICES ASSUME NEW r \in PadSlots, gamepadMask'[r] # None
                 PROVE  /\ gamepadMask[r] # None /\ gamepads'[r] = gamepads[r]
                        /\ gamepadMask'[r] = gamepadMask[r]
                        /\ gamepads[r].gp \in Targets \ {t}
      OBVIOUS
    <3>1. gamepadMask[r] # None /\ gamepads'[r] = gamepads[r]
          /\ gamepadMask'[r] = gamepadMask[r]
      BY <1>1, <1>5, <1>9
    <3>2. gamepads[r] \in G!Pads /\ gamepads[r].gp # None
      BY <3>1 DEF G!Base, G!TypeOK, G!GamepadsAreServed, G!Attached
    <3> QED BY <1>1, <3>1, <3>2, PadFields
  <2>2. \A x \in Targets \ {t} : game'[x] = game[x]
    BY <1>1 DEF G!Base, G!TypeOK
  <2> QED BY <1>1, <1>14, <2>1, <2>2 DEF G!Fed, G!Comes
<1> QED
  BY <1>7, <1>8, <1>10, <1>11, <1>12, <1>13, <1>14 DEF PadsAreKept, G!Base

(* alloc_gamepad, when it does: the gamepad has no slot yet, and its       *)
(* target is nobody's.                                                     *)
LEMMA ArrivedInv ==
  ASSUME G!Base, NEW c \in Gamepads, NEW s \in PadSlots,
         NEW sort \in G!Kinds, NEW t \in Targets,
         G!alloc_gamepad(c, s, sort, t, "ok")
  PROVE  PadsAreKept
<1> DEFINE g == gamepads[s]
           h == [g EXCEPT !.gp = t, !.kind = sort, !.attached = TRUE,
                   !.client = c,
                   !.available = IF sort = "ds4" THEN G!Index ELSE @,
                   !.raised = IF sort = "ds4" THEN G!Index ELSE @]
<1>1. /\ gamepadMask[s] = None /\ \A r \in PadSlots : gamepadMask[r] # c
      /\ \A r \in PadSlots : gamepads[r].gp # t
      /\ arrivals' = arrivals + 1 /\ refused' = refused
      /\ connected' = TRUE
      /\ gamepads' = [gamepads EXCEPT ![s] = h]
      /\ gamepadMask' = [gamepadMask EXCEPT ![s] = c]
      /\ felt' = [felt EXCEPT ![c] = G!Still]
      /\ game' = [game EXCEPT ![t] = G!Still]
      /\ confused' = IF g.pointers # <<>> /\ sort = "ds4"
                     THEN confused \cup {s} ELSE confused \ {s}
      /\ inherited' =
           IF \/ g.last # G!Still
              \/ \E k \in DOMAIN tasks : tasks[k].target = t
           THEN inherited \cup {s} ELSE inherited \ {s}
      /\ UNCHANGED tasks
  <2>1. /\ G!CanFail("ok" # "ok") /\ connected' = ("ok" # "unconnected")
        /\ gamepads' = [gamepads EXCEPT ![s] =
                          IF "ok" = "unconnected" THEN [@ EXCEPT !.client = c]
                          ELSE G!Arrived(@, c, sort, t, "ok" = "ok")]
    BY Zenon DEF G!alloc_gamepad
  <2>2. refused' = refused
    BY <2>1 DEF G!CanFail, G!Base, G!TypeOK
  <2>3. G!Arrived(g, c, sort, t, "ok" = "ok") = h
    BY DEF G!Arrived
  <2>4. gamepads' = [gamepads EXCEPT ![s] =
                      G!Arrived(@, c, sort, t, "ok" = "ok")]
    BY <2>1
  <2>5. connected' = TRUE
    BY <2>1
  <2> HIDE DEF h
  <2>6. gamepads' = [gamepads EXCEPT ![s] = h]
    BY <2>3, <2>4
  <2> QED BY <2>2, <2>5, <2>6 DEF G!alloc_gamepad
<1>2. g \in G!Pads /\ c # None /\ t # None
  BY GamepadsAssumption DEF G!Base, G!TypeOK
<1>3. /\ h \in G!Pads /\ h.repeat = g.repeat /\ h.gp = t /\ h.attached
      /\ h.client = c /\ h.last = g.last /\ h.kind = sort
      /\ h.pointers = g.pointers
      /\ sort = "ds4" => h.available = G!Index /\ h.raised = G!Index
  <2>1. CASE sort = "ds4"
    <3>1. h = [g EXCEPT !.gp = t, !.kind = sort, !.attached = TRUE,
                 !.client = c, !.available = G!Index, !.raised = G!Index]
      BY <2>1
    <3> HIDE DEF h, g
    <3> QED BY <1>2, <3>1 DEF G!Pads
  <2>2. CASE sort # "ds4"
    <3>1. h = [g EXCEPT !.gp = t, !.kind = sort, !.attached = TRUE,
                 !.client = c, !.available = @, !.raised = @]
      BY <2>2
    <3> HIDE DEF h, g
    <3> QED BY <1>2, <2>2, <3>1 DEF G!Pads
  <2> QED BY <2>1, <2>2
<1> HIDE DEF h
<1>4. PadIsSet(s, h)
  BY <1>1, <1>3, SetPad DEF G!Base
<1>5. /\ gamepads' \in [PadSlots -> G!Pads] /\ gamepads'[s] = h
      /\ \A r \in PadSlots \ {s} : gamepads'[r] = gamepads[r]
  BY <1>4 DEF PadIsSet
<1>6. G!Still \in G!Levels
  BY DEF G!Still, G!Levels
<1>7. /\ gamepadMask' \in [PadSlots -> Gamepads \cup {None}]
      /\ gamepadMask'[s] = c
      /\ \A r \in PadSlots \ {s} : gamepadMask'[r] = gamepadMask[r]
  BY <1>1 DEF G!Base, G!TypeOK
<1>8. /\ felt' \in [Gamepads -> G!Levels] /\ felt'[c] = G!Still
      /\ \A x \in Gamepads \ {c} : felt'[x] = felt[x]
      /\ game' \in [Targets -> G!Levels] /\ game'[t] = G!Still
      /\ \A x \in Targets \ {t} : game'[x] = game[x]
  BY <1>1, <1>6 DEF G!Base, G!TypeOK
<1>9. confused' \in SUBSET PadSlots /\ inherited' \in SUBSET PadSlots
  BY <1>1 DEF G!Base, G!TypeOK
<1>10. G!TypeOK'
  BY <1>1, <1>5, <1>7, <1>8, <1>9 DEF G!Base, G!TypeOK
<1>11. G!SlotsDiffer'
  BY <1>1, <1>2, <1>3, <1>5, <1>7 DEF G!Base, G!SlotsDiffer
<1>12. G!OwnersAreKnown'
  BY <1>1, <1>2, <1>3, <1>5, <1>7 DEF G!Base, G!OwnersAreKnown
<1>13. G!FingersHaveIndexes'
  <2> SUFFICES ASSUME NEW r \in PadSlots \ confused', gamepadMask'[r] # None,
                      gamepads'[r].kind = "ds4"
               PROVE  G!FingersFit(gamepads'[r])
    BY DEF G!FingersHaveIndexes, G!FingersFit
  <2>1. CASE r = s
    <3>1. sort = "ds4" /\ h.pointers = <<>>
      BY <1>1, <1>3, <1>5, <2>1
    <3>2. G!FingersFit(h)
      BY <1>3, <3>1, NoTouches DEF G!FingersFit, G!IsInjective, G!Range
    <3> QED BY <1>5, <2>1, <3>2
  <2>2. CASE r # s
    <3>1. r \notin confused /\ gamepads'[r] = gamepads[r]
          /\ gamepadMask'[r] = gamepadMask[r]
      BY <1>1, <1>5, <1>7, <2>2
    <3> QED BY <3>1 DEF G!Base, G!FingersHaveIndexes
  <2> QED BY <2>1, <2>2
<1>14. G!GamepadsAreServed'
  <2>1. ~g.repeat
    BY <1>1 DEF G!Base, G!GamepadsAreServed
  <2>2. \A r \in PadSlots :
          /\ gamepads'[r].repeat => gamepadMask'[r] # None
          /\ gamepads'[r].repeat => ~gamepads'[r].lost
    BY <1>3, <1>5, <1>7, <2>1 DEF G!Base, G!GamepadsAreServed
  <2>3. \A r \in PadSlots :
          gamepadMask'[r] # None =>
            connected' /\ gamepads'[r].gp # None /\ gamepads'[r].attached
    BY <1>1, <1>2, <1>3, <1>5, <1>7
    DEF G!Base, G!GamepadsAreServed, G!Attached
  <2>4. gamepadMask'[s] # None
    BY <1>2, <1>7
  <2> QED BY <2>2, <2>3, <2>4 DEF G!GamepadsAreServed, G!Attached
<1>15. ASSUME G!Fed PROVE G!Fed'
  <2> SUFFICES ASSUME NEW r \in PadSlots \ inherited', gamepadMask'[r] # None
               PROVE  /\ gamepads'[r].last = felt'[gamepadMask'[r]]
                      /\ \A what \in G!Feedback :
                           \/ G!EndsWith(tasks, gamepads'[r].gp, what,
                                         game'[gamepads'[r].gp][what])
                           \/ /\ G!Without(tasks, gamepads'[r].gp, what)
                              /\ felt'[gamepadMask'[r]][what] =
                                   game'[gamepads'[r].gp][what]
    BY <1>1, <1>15 DEF G!Fed, G!Comes, G!EndsWith, G!Without, G!Of, G!Task
  <2>1. CASE r = s
    <3>1. g.last = G!Still /\ \A k \in DOMAIN tasks : tasks[k].target # t
      BY <1>1, <2>1
    <3>2. \A what \in G!Feedback : G!Without(tasks, t, what)
      BY <3>1 DEF G!Without, G!Of, G!Base, G!TypeOK
    <3> QED BY <1>3, <1>5, <1>7, <1>8, <2>1, <3>1, <3>2
  <2>2. CASE r # s
    <3>1. /\ r \in PadSlots \ inherited /\ gamepads'[r] = gamepads[r]
          /\ gamepadMask'[r] = gamepadMask[r] /\ gamepadMask[r] # None
      BY <1>1, <1>5, <1>7, <2>2
    <3>2. /\ gamepadMask[r] \in Gamepads \ {c}
          /\ gamepads[r].gp \in Targets \ {t}
      BY <1>1, <3>1, PadFields
      DEF G!Base, G!TypeOK, G!GamepadsAreServed, G!Attached
    <3> QED BY <1>8, <1>15, <3>1, <3>2 DEF G!Fed, G!Comes
  <2> QED BY <2>1, <2>2
<1> QED
  BY <1>10, <1>11, <1>12, <1>13, <1>14, <1>15
  DEF PadsAreKept, G!Base

(* free_target leaves what others have, and the driver as long as one of   *)
(* them is attached.                                                       *)
LEMMA FreeInv ==
  ASSUME G!Base, NEW c \in Gamepads, NEW s \in PadSlots, G!free_gamepad(c, s)
  PROVE  PadsAreKept
<1> DEFINE g == gamepads[s]
           h == [g EXCEPT !.gp = None, !.attached = FALSE,
                          !.repeat = FALSE, !.lost = FALSE]
<1>1. /\ gamepadMask[s] = c
      /\ gamepadMask' = [gamepadMask EXCEPT ![s] = None]
      /\ gamepads' = [gamepads EXCEPT ![s] = h]
      /\ connected' = (connected /\ ~G!NoneAttached(s))
      /\ UNCHANGED <<tasks, game, felt, arrivals, refused, confused,
                     inherited>>
  BY DEF G!free_gamepad, G!Owns, G!bounds
<1>2. g \in G!Pads
  BY DEF G!Base, G!TypeOK
<1>3. /\ h \in G!Pads /\ h.gp = None /\ h.attached = FALSE
      /\ h.repeat = FALSE
  <2> HIDE DEF g
  <2> QED BY <1>2 DEF G!Pads
<1> HIDE DEF h
<1>4. PadIsSet(s, h)
  BY <1>1, <1>3, SetPad DEF G!Base
<1>5. /\ gamepads' \in [PadSlots -> G!Pads] /\ gamepads'[s] = h
      /\ \A r \in PadSlots \ {s} : gamepads'[r] = gamepads[r]
  BY <1>4 DEF PadIsSet
<1>6. /\ gamepadMask' \in [PadSlots -> Gamepads \cup {None}]
      /\ gamepadMask'[s] = None
      /\ \A r \in PadSlots \ {s} : gamepadMask'[r] = gamepadMask[r]
  BY <1>1 DEF G!Base, G!TypeOK
<1>7. connected' \in BOOLEAN
  BY <1>1
<1>8. G!TypeOK'
  BY <1>1, <1>5, <1>6, <1>7 DEF G!Base, G!TypeOK
<1>9. G!SlotsDiffer'
  BY <1>3, <1>5, <1>6 DEF G!Base, G!SlotsDiffer
<1>10. G!OwnersAreKnown'
  BY <1>1, <1>3, <1>5, <1>6 DEF G!Base, G!OwnersAreKnown
<1>11. G!FingersHaveIndexes'
  BY <1>1, <1>5, <1>6 DEF G!Base, G!FingersHaveIndexes, G!FingersFit
<1>12. G!GamepadsAreServed'
  <2>1. \A r \in PadSlots :
          /\ gamepads'[r].repeat => gamepadMask'[r] # None
          /\ gamepads'[r].repeat => ~gamepads'[r].lost
    BY <1>3, <1>5, <1>6 DEF G!Base, G!GamepadsAreServed
  <2>2. \A r \in PadSlots :
          gamepadMask'[r] # None =>
            r # s /\ connected /\ G!Attached(gamepads[r])
    BY <1>6 DEF G!Base, G!GamepadsAreServed
  <2>3. \A r \in PadSlots :
          gamepadMask'[r] # None =>
            connected' /\ gamepads'[r].gp # None /\ gamepads'[r].attached
    BY <1>1, <1>5, <2>2 DEF G!NoneAttached, G!Attached
  <2>4. connected' /\ refused' = 0 =>
          \E r \in PadSlots : gamepadMask'[r] # None
    BY <1>1, <1>6
    DEF G!NoneAttached, G!Attached, G!Base, G!OwnersAreKnown
  <2> QED BY <2>1, <2>3, <2>4 DEF G!GamepadsAreServed, G!Attached
<1>13. ASSUME G!Fed PROVE G!Fed'
  <2>1. \A r \in PadSlots : gamepadMask'[r] # None =>
          /\ gamepadMask[r] # None /\ gamepads'[r] = gamepads[r]
          /\ gamepadMask'[r] = gamepadMask[r]
    BY <1>5, <1>6
  <2> QED BY <1>1, <1>13, <2>1 DEF G!Fed, G!Comes
<1> QED
  BY <1>8, <1>9, <1>10, <1>11, <1>12, <1>13 DEF PadsAreKept, G!Base

(* A task that is added is the last of its kind, and no other's; one that  *)
(* is taken was the last of its kind, or leaves the last one.              *)
LEMMA TaskAdded ==
  ASSUME NEW q \in Seq(G!Tasks), NEW one \in G!Tasks, NEW t, NEW w, NEW v
  PROVE  /\ one = G!Task(t, w, v) => G!EndsWith(Append(q, one), t, w, v)
         /\ ~G!Of(one, t, w) =>
              /\ G!EndsWith(q, t, w, v) => G!EndsWith(Append(q, one), t, w, v)
              /\ G!Without(q, t, w) => G!Without(Append(q, one), t, w)
<1> DEFINE p == Append(q, one)
           n == Len(q)
<1>1. /\ n \in Nat /\ Len(p) = n + 1 /\ p[n + 1] = one
      /\ \A j \in 1 .. n : p[j] = q[j]
  OBVIOUS
<1> HIDE DEF p, n
<1>2. ASSUME one = G!Task(t, w, v) PROVE G!EndsWith(p, t, w, v)
  <2>1. n + 1 \in 1 .. Len(p) /\ \A j \in 1 .. Len(p) : ~(j > n + 1)
    BY <1>1
  <2> QED BY <1>1, <1>2, <2>1 DEF G!EndsWith
<1>3. ASSUME ~G!Of(one, t, w), G!EndsWith(q, t, w, v)
      PROVE  G!EndsWith(p, t, w, v)
  <2>1. PICK k \in 1 .. n :
          /\ q[k] = G!Task(t, w, v)
          /\ \A j \in 1 .. n : j > k => ~G!Of(q[j], t, w)
    BY <1>3 DEF G!EndsWith, n
  <2>2. k \in 1 .. Len(p) /\ p[k] = G!Task(t, w, v)
    BY <1>1, <2>1
  <2>3. ASSUME NEW j \in 1 .. Len(p), j > k PROVE ~G!Of(p[j], t, w)
    <3>1. CASE j = n + 1
      BY <1>1, <1>3, <3>1
    <3>2. CASE j # n + 1
      <4>1. j \in 1 .. n
        BY <1>1, <3>2
      <4> QED BY <1>1, <2>1, <2>3, <4>1
    <3> QED BY <3>1, <3>2
  <2> QED BY <2>2, <2>3 DEF G!EndsWith
<1>4. ASSUME ~G!Of(one, t, w), G!Without(q, t, w) PROVE G!Without(p, t, w)
  <2> SUFFICES ASSUME NEW j \in 1 .. Len(p) PROVE ~G!Of(p[j], t, w)
    BY DEF G!Without
  <2>1. CASE j = n + 1
    BY <1>1, <1>4, <2>1
  <2>2. CASE j # n + 1
    <3>1. j \in 1 .. n
      BY <1>1, <2>2
    <3> QED BY <1>1, <1>4, <3>1 DEF G!Without, n
  <2> QED BY <2>1, <2>2
<1> QED BY <1>2, <1>3, <1>4 DEF p

LEMMA TaskTaken ==
  ASSUME NEW q \in Seq(G!Tasks), q # <<>>, NEW t, NEW w, NEW v
  PROVE  /\ G!EndsWith(q, t, w, v) =>
              \/ G!EndsWith(Tail(q), t, w, v)
              \/ Head(q) = G!Task(t, w, v) /\ G!Without(Tail(q), t, w)
         /\ G!Without(q, t, w) =>
              ~G!Of(Head(q), t, w) /\ G!Without(Tail(q), t, w)
<1> DEFINE p == Tail(q)
           n == Len(q)
<1>1. /\ n \in Nat \ {0} /\ Len(p) = n - 1 /\ q[1] = Head(q)
      /\ \A j \in 1 .. n - 1 : p[j] = q[j + 1]
  OBVIOUS
<1> HIDE DEF p, n
<1>2. ASSUME G!EndsWith(q, t, w, v)
      PROVE  \/ G!EndsWith(p, t, w, v)
             \/ Head(q) = G!Task(t, w, v) /\ G!Without(p, t, w)
  <2>1. PICK k \in 1 .. n :
          /\ q[k] = G!Task(t, w, v)
          /\ \A j \in 1 .. n : j > k => ~G!Of(q[j], t, w)
    BY <1>2 DEF G!EndsWith, n
  <2>2. ASSUME NEW j \in 1 .. Len(p), j + 1 > k PROVE ~G!Of(p[j], t, w)
    <3>1. j + 1 \in 1 .. n /\ p[j] = q[j + 1]
      BY <1>1
    <3> QED BY <2>1, <2>2, <3>1
  <2>3. CASE k = 1
    <3>1. \A j \in 1 .. Len(p) : j + 1 > k
      BY <1>1, <2>3
    <3> QED BY <1>1, <2>1, <2>2, <2>3, <3>1 DEF G!Without
  <2>4. CASE k # 1
    <3>1. k - 1 \in 1 .. Len(p) /\ p[k - 1] = q[(k - 1) + 1]
      BY <1>1, <2>4
    <3>2. p[k - 1] = G!Task(t, w, v)
      BY <1>1, <2>1, <3>1
    <3>3. \A j \in 1 .. Len(p) : j > k - 1 => j + 1 > k
      BY <1>1
    <3>4. \A j \in 1 .. Len(p) : j > k - 1 => ~G!Of(p[j], t, w)
      BY <2>2, <3>3
    <3> QED BY <3>1, <3>2, <3>4 DEF G!EndsWith
  <2> QED BY <2>3, <2>4
<1>3. ASSUME G!Without(q, t, w)
      PROVE  ~G!Of(Head(q), t, w) /\ G!Without(p, t, w)
  <2>1. \A j \in 1 .. n : ~G!Of(q[j], t, w)
    BY <1>3 DEF G!Without, n
  <2>2. \A j \in 1 .. Len(p) : j + 1 \in 1 .. n /\ p[j] = q[j + 1]
    BY <1>1
  <2>3. 1 \in 1 .. n
    BY <1>1
  <2> QED BY <1>1, <2>1, <2>2, <2>3 DEF G!Without
<1> QED BY <1>2, <1>3 DEF p

(* x360_notify and ds4_notify: what a game sets is on its way.             *)
LEMMA NotifyInv ==
  ASSUME G!Base, NEW s \in PadSlots, NEW what \in G!Feedback,
         NEW v \in Motor, G!Notify(s, what, v)
  PROVE  PadsAreKept
<1> DEFINE t == gamepads[s].gp
           level == [game[t] EXCEPT ![what] = v]
           one == G!Task(t, "rumble", level.rumble)
           two == G!Task(t, "rgb_led", level.rgb_led)
           more == Append(tasks, one)
<1>1. /\ t # None
      /\ gamepads[s].kind = "x360" => what = "rumble"
      /\ game' = [game EXCEPT ![t] = level]
      /\ tasks' = (tasks \o <<one>>)
                    \o IF gamepads[s].kind = "x360" THEN <<>> ELSE <<two>>
      /\ UNCHANGED <<gamepads, connected, gamepadMask, felt, arrivals,
                     refused, confused, inherited>>
  BY DEF G!Notify, G!Attached, G!bounds
<1>2. t \in Targets /\ gamepads[s].kind \in G!Kinds
  <2>1. gamepads[s] \in G!Pads
    BY DEF G!Base, G!TypeOK
  <2> QED BY <1>1, <2>1, PadFields
<1> HIDE DEF t
<1>3. /\ level \in G!Levels /\ level[what] = v
      /\ \A w \in G!Feedback \ {what} : level[w] = game[t][w]
  BY <1>2 DEF G!Levels, G!Base, G!TypeOK
<1>4. "rumble" \in G!Feedback /\ "rgb_led" \in G!Feedback
  BY DEF G!Feedback
<1> HIDE DEF level
<1>5. one \in G!Tasks /\ two \in G!Tasks
  <2>1. level["rumble"] \in Motor \cup {0} /\ level["rgb_led"] \in Motor \cup {0}
    BY <1>3, <1>4 DEF G!Levels
  <2> QED BY <1>2, <1>4, <2>1 DEF G!Task, G!Tasks
<1>6. /\ one.target = t /\ one.what = "rumble"
      /\ two.target = t /\ two.what = "rgb_led"
      /\ one = G!Task(t, "rumble", level["rumble"])
      /\ two = G!Task(t, "rgb_led", level["rgb_led"])
  BY DEF G!Task
<1> HIDE DEF one, two
<1>7. tasks \in Seq(G!Tasks) /\ more \in Seq(G!Tasks)
  BY <1>5 DEF G!Base, G!TypeOK
<1>8. tasks' = IF gamepads[s].kind = "x360" THEN more ELSE Append(more, two)
  <2>1. tasks \o <<one>> = more
    BY <1>5, <1>7
  <2>2. tasks' = more
                   \o IF gamepads[s].kind = "x360" THEN <<>> ELSE <<two>>
    BY <1>1, <2>1
  <2> HIDE DEF more
  <2>3. more \o <<>> = more /\ more \o <<two>> = Append(more, two)
    BY <1>5, <1>7
  <2>4. CASE gamepads[s].kind = "x360"
    BY <2>2, <2>3, <2>4
  <2>5. CASE gamepads[s].kind # "x360"
    BY <2>2, <2>3, <2>5
  <2> QED BY <2>4, <2>5
<1> HIDE DEF more
<1>9. tasks' \in Seq(G!Tasks) /\ tasks' # <<>>
  <2>1. more # <<>> /\ Append(more, two) # <<>>
    BY <1>5, <1>7 DEF more
  <2> QED BY <1>5, <1>7, <1>8, <2>1
<1>10. game' \in [Targets -> G!Levels] /\ game'[t] = level
       /\ \A x \in Targets \ {t} : game'[x] = game[x]
  BY <1>1, <1>2, <1>3 DEF G!Base, G!TypeOK
<1>11. G!TypeOK'
  BY <1>1, <1>9, <1>10 DEF G!Base, G!TypeOK
<1>12. G!SlotsDiffer' /\ G!OwnersAreKnown' /\ G!GamepadsAreServed'
  BY <1>1
  DEF G!Base, G!SlotsDiffer, G!OwnersAreKnown, G!GamepadsAreServed,
      G!Attached
<1>13. G!FingersHaveIndexes'
  BY <1>1 DEF G!Base, G!FingersHaveIndexes, G!FingersFit
<1>14. ASSUME G!Fed PROVE G!Fed'
  <2>0. /\ gamepads' = gamepads /\ gamepadMask' = gamepadMask
        /\ felt' = felt /\ refused' = refused /\ inherited' = inherited
    BY <1>1
  <2> SUFFICES ASSUME NEW r \in PadSlots \ inherited, gamepadMask[r] # None
               PROVE  \A w \in G!Feedback :
                        \/ G!EndsWith(tasks', gamepads[r].gp, w,
                                      game'[gamepads[r].gp][w])
                        \/ /\ G!Without(tasks', gamepads[r].gp, w)
                           /\ felt[gamepadMask[r]][w] =
                                game'[gamepads[r].gp][w]
    BY <2>0, <1>14 DEF G!Fed, G!Comes, G!EndsWith, G!Without, G!Of, G!Task
  <2> TAKE w \in G!Feedback
  <2> DEFINE x == gamepads[r].gp
             had == felt[gamepadMask[r]][w]
  <2>1. x \in Targets
    BY PadFields DEF G!Base, G!TypeOK, G!GamepadsAreServed, G!Attached
  <2>2. \/ G!EndsWith(tasks, x, w, game[x][w])
        \/ G!Without(tasks, x, w) /\ had = game[x][w]
    BY <1>14 DEF G!Fed, G!Comes
  <2> HIDE DEF x, had
  <2>3. SUFFICES \/ G!EndsWith(tasks', x, w, game'[x][w])
                 \/ G!Without(tasks', x, w) /\ had = game'[x][w]
    BY DEF x, had
  <2>4. CASE x # t
    <3>1. game'[x] = game[x] /\ ~G!Of(one, x, w) /\ ~G!Of(two, x, w)
      BY <1>6, <1>10, <2>1, <2>4 DEF G!Of
    <3>2. \/ G!EndsWith(more, x, w, game[x][w])
          \/ G!Without(more, x, w) /\ had = game[x][w]
      BY <1>5, <1>7, <2>2, <3>1, TaskAdded DEF more
    <3> QED BY <1>5, <1>7, <1>8, <3>1, <3>2, TaskAdded
  <2>5. CASE x = t /\ w = "rumble"
    <3>1. G!EndsWith(more, x, w, level[w])
      BY <1>5, <1>6, <1>7, <2>5, TaskAdded DEF more
    <3>2. ~G!Of(two, x, w)
      BY <1>6, <2>5 DEF G!Of
    <3>3. G!EndsWith(Append(more, two), x, w, level[w])
      BY <1>5, <1>7, <3>1, <3>2, TaskAdded
    <3> QED BY <1>8, <1>10, <2>5, <3>1, <3>3
  <2>6. CASE x = t /\ w = "rgb_led"
    <3>1. CASE gamepads[s].kind = "x360"
      <4>1. level[w] = game[x][w]
        <5>1. what = "rumble"
          BY <1>1, <3>1
        <5> QED BY <1>3, <2>6, <5>1
      <4>2. ~G!Of(one, x, w)
        BY <1>6, <2>6 DEF G!Of
      <4>3. tasks' = more /\ game'[x][w] = game[x][w]
        BY <1>8, <1>10, <2>6, <3>1, <4>1
      <4> QED BY <1>5, <1>7, <2>2, <4>2, <4>3, TaskAdded DEF more
    <3>2. CASE gamepads[s].kind # "x360"
      <4>1. tasks' = Append(more, two) /\ game'[x] = level
        BY <1>8, <1>10, <2>6, <3>2
      <4> QED BY <1>5, <1>6, <1>7, <2>6, <4>1, TaskAdded
    <3> QED BY <3>1, <3>2
  <2> QED BY <2>4, <2>5, <2>6 DEF G!Feedback
<1> QED
  BY <1>9, <1>11, <1>12, <1>13, <1>14 DEF PadsAreKept, G!Base

(* rumble and set_rgb_led: the client is told what the task says, unless   *)
(* that is what it has been told.                                          *)
LEMMA PassedOnInv ==
  ASSUME G!Base, G!rumble
  PROVE  PadsAreKept
<1> DEFINE task == Head(tasks)
           w == task.what
           v == task.value
           its == {r \in PadSlots : gamepads[r].gp = task.target}
           s == CHOOSE i \in its : \A j \in its : i <= j
           new == its # {} /\ gamepads[s].last[w] # v
<1>1. /\ tasks # <<>> /\ tasks' = Tail(tasks)
      /\ new => /\ felt' = [felt EXCEPT ![gamepads[s].client][w] = v]
                /\ gamepads' = [gamepads EXCEPT ![s].last[w] = v]
                /\ inherited' =
                     inherited \cup {r \in PadSlots \ {s} :
                                      gamepadMask[r] = gamepads[s].client}
      /\ ~new => UNCHANGED <<felt, gamepads, inherited>>
      /\ UNCHANGED <<connected, gamepadMask, game, arrivals, refused,
                     confused>>
  BY DEF G!rumble, G!bounds, G!Owns, G!Told
<1>2. /\ task \in G!Tasks /\ tasks' \in Seq(G!Tasks)
      /\ tasks \in Seq(G!Tasks)
  <2>1. tasks \in Seq(G!Tasks) /\ tasks # <<>> /\ tasks' = Tail(tasks)
    BY <1>1 DEF G!Base, G!TypeOK
  <2> QED BY <2>1
<1>3. task.target \in Targets /\ w \in G!Feedback /\ v \in Motor \cup {0}
  BY <1>2 DEF G!Tasks
<1>4. ASSUME its # {} PROVE its = {s} /\ s \in PadSlots
  <2>1. PICK r \in its : TRUE
    BY <1>4
  <2>2. r \in Int /\ gamepads[r].gp # None
    BY <1>3, GamepadsAssumption
  <2>3. its = {r}
    BY <2>2 DEF G!Base, G!SlotsDiffer
  <2>4. \A j \in its : r <= j
    BY <2>2, <2>3
  <2> HIDE DEF its
  <2>5. s \in its
    BY <2>1, <2>4
  <2> QED BY <2>3, <2>5 DEF its
<1> HIDE DEF task, s
<1>5. \A r \in PadSlots :
        gamepads[r].gp = task.target <=> its # {} /\ r = s
  BY <1>4
<1> DEFINE g == gamepads[s]
           h == [g EXCEPT !.last = [g.last EXCEPT ![w] = v]]
<1>6. ASSUME new
      PROVE  /\ s \in PadSlots /\ g \in G!Pads /\ h \in G!Pads
             /\ gamepads' = [gamepads EXCEPT ![s] = h]
             /\ h.gp = g.gp /\ h.kind = g.kind /\ h.attached = g.attached
             /\ h.client = g.client /\ h.repeat = g.repeat
             /\ h.lost = g.lost /\ SameFingers(h, g)
             /\ h.last = [g.last EXCEPT ![w] = v]
  <2>1. s \in PadSlots
    BY <1>4, <1>6
  <2>2. g \in G!Pads /\ g.last \in G!Levels
    BY <2>1, PadFields DEF G!Base, G!TypeOK
  <2>3. [g.last EXCEPT ![w] = v] \in G!Levels
    BY <1>3, <2>2 DEF G!Levels
  <2>4. gamepads' = [gamepads EXCEPT ![s] = h]
    BY <1>1, <1>6
  <2> HIDE DEF g
  <2> QED BY <2>1, <2>2, <2>3, <2>4 DEF G!Pads, SameFingers
<1> HIDE DEF h
<1>7. ASSUME new PROVE PadIsSet(s, h)
  BY <1>6, <1>7, SetPad DEF G!Base
<1>8. /\ gamepads' \in [PadSlots -> G!Pads]
      /\ \A r \in PadSlots :
           /\ gamepads'[r].gp = gamepads[r].gp
           /\ gamepads'[r].kind = gamepads[r].kind
           /\ gamepads'[r].attached = gamepads[r].attached
           /\ gamepads'[r].client = gamepads[r].client
           /\ gamepads'[r].repeat = gamepads[r].repeat
           /\ gamepads'[r].lost = gamepads[r].lost
           /\ SameFingers(gamepads'[r], gamepads[r])
           /\ gamepads'[r].last =
                IF new /\ r = s THEN [g.last EXCEPT ![w] = v]
                ELSE gamepads[r].last
  <2>1. CASE new
    <3>1. /\ gamepads' \in [PadSlots -> G!Pads] /\ gamepads'[s] = h
          /\ \A r \in PadSlots \ {s} : gamepads'[r] = gamepads[r]
      BY <1>7, <2>1 DEF PadIsSet
    <3> HIDE DEF new
    <3> QED BY <1>6, <2>1, <3>1 DEF SameFingers
  <2>2. CASE ~new
    <3>1. gamepads' = gamepads
      BY <1>1, <2>2
    <3> HIDE DEF new
    <3> QED BY <2>2, <3>1 DEF SameFingers, G!Base, G!TypeOK
  <2> QED BY <2>1, <2>2
<1>9. /\ felt' \in [Gamepads -> G!Levels]
      /\ \A x \in Gamepads :
           felt'[x] = IF new /\ x = g.client
                      THEN [felt[x] EXCEPT ![w] = v] ELSE felt[x]
  <2>1. CASE new
    <3>1. felt' = [felt EXCEPT ![g.client] = [felt[g.client] EXCEPT ![w] = v]]
      BY <1>1, <2>1
    <3>2. felt \in [Gamepads -> G!Levels]
      BY DEF G!Base, G!TypeOK
    <3> HIDE DEF new, g
    <3>3. \A x \in Gamepads :
            felt'[x] = IF x = g.client THEN [felt[x] EXCEPT ![w] = v]
                       ELSE felt[x]
      BY <3>1, <3>2
    <3>4. \A x \in Gamepads : [felt[x] EXCEPT ![w] = v] \in G!Levels
      BY <1>3, <3>2 DEF G!Levels
    <3>5. felt' = [x \in Gamepads |-> felt'[x]]
      BY <3>1, <3>2
    <3>6. \A x \in Gamepads : felt'[x] \in G!Levels
      BY <3>2, <3>3, <3>4
    <3> QED BY <2>1, <3>3, <3>5, <3>6
  <2>2. CASE ~new
    <3>1. felt' = felt
      BY <1>1, <2>2
    <3> HIDE DEF new
    <3> QED BY <2>2, <3>1 DEF G!Base, G!TypeOK
  <2> QED BY <2>1, <2>2
<1> HIDE DEF new, its
<1>0. /\ inherited' \in SUBSET PadSlots /\ inherited \subseteq inherited'
      /\ \A r \in PadSlots \ inherited' :
           new /\ r # s => gamepadMask[r] # g.client
  BY <1>1 DEF G!Base, G!TypeOK
<1>10. G!TypeOK'
  BY <1>0, <1>1, <1>2, <1>8, <1>9 DEF G!Base, G!TypeOK
<1>11. G!SlotsDiffer' /\ G!OwnersAreKnown' /\ G!GamepadsAreServed'
  BY <1>1, <1>8
  DEF G!Base, G!SlotsDiffer, G!OwnersAreKnown, G!GamepadsAreServed,
      G!Attached
<1>12. G!FingersHaveIndexes'
  BY <1>1, <1>8
  DEF G!Base, G!FingersHaveIndexes, G!FingersFit, SameFingers
<1>13. ASSUME G!Fed PROVE G!Fed'
  <2> SUFFICES ASSUME NEW r \in PadSlots \ inherited', gamepadMask[r] # None
               PROVE  /\ gamepads'[r].last = felt'[gamepadMask[r]]
                      /\ \A what \in G!Feedback :
                           \/ G!EndsWith(tasks', gamepads[r].gp, what,
                                         game[gamepads[r].gp][what])
                           \/ /\ G!Without(tasks', gamepads[r].gp, what)
                              /\ felt'[gamepadMask[r]][what] =
                                   game[gamepads[r].gp][what]
    BY <1>1, <1>8, <1>13
    DEF G!Fed, G!Comes, G!EndsWith, G!Without, G!Of, G!Task
  <2> DEFINE t == gamepads[r].gp
             c == gamepadMask[r]
  <2>1. /\ t \in Targets /\ c \in Gamepads /\ gamepads[r].client = c
    BY PadFields
    DEF G!Base, G!TypeOK, G!GamepadsAreServed, G!Attached, G!OwnersAreKnown
  <2>2. /\ gamepads[r].last = felt[c]
        /\ \A what \in G!Feedback :
             \/ G!EndsWith(tasks, t, what, game[t][what])
             \/ G!Without(tasks, t, what) /\ felt[c][what] = game[t][what]
    BY <1>0, <1>13 DEF G!Fed, G!Comes
  <2>3. CASE t = task.target
    <3>1. its # {} /\ r = s
      BY <1>5, <2>3
    <3>2. gamepads'[r].last = felt'[c]
      BY <1>8, <1>9, <2>1, <2>2, <3>1
    <3>3. felt'[c][w] = v /\ \A what \in G!Feedback \ {w} :
                               felt'[c][what] = felt[c][what]
      <4>1. felt[c] \in G!Levels
        BY <2>1 DEF G!Base, G!TypeOK
      <4>2. CASE new
        <5>1. felt'[c] = [felt[c] EXCEPT ![w] = v]
          BY <1>9, <2>1, <3>1, <4>2
        <5> QED BY <1>3, <4>1, <5>1 DEF G!Levels
      <4>3. CASE ~new
        <5>1. felt'[c] = felt[c] /\ felt[c][w] = v
          BY <1>9, <2>1, <2>2, <3>1, <4>3 DEF new
        <5> QED BY <5>1
      <4> QED BY <4>2, <4>3
    <3>4. ASSUME NEW what \in G!Feedback
          PROVE  \/ G!EndsWith(tasks', t, what, game[t][what])
                 \/ /\ G!Without(tasks', t, what)
                    /\ felt'[c][what] = game[t][what]
      <4> HIDE DEF t, c
      <4>1. \/ G!EndsWith(tasks', t, what, game[t][what])
            \/ /\ task = G!Task(t, what, game[t][what])
               /\ G!Without(tasks', t, what)
            \/ /\ ~G!Of(task, t, what) /\ G!Without(tasks', t, what)
               /\ felt[c][what] = game[t][what]
        BY <1>1, <1>2, <2>2, TaskTaken DEF task
      <4>2. ASSUME task = G!Task(t, what, game[t][what])
            PROVE  felt'[c][what] = game[t][what]
        <5>1. w = what /\ v = game[t][what]
          BY <4>2 DEF G!Task
        <5> QED BY <3>3, <5>1
      <4>3. ASSUME ~G!Of(task, t, what) PROVE felt'[c][what] = felt[c][what]
        BY <2>3, <3>3, <4>3 DEF G!Of
      <4> QED BY <4>1, <4>2, <4>3
    <3> QED BY <3>2, <3>4
  <2>4. CASE t # task.target
    <3>1. ~(its # {} /\ r = s)
      BY <1>5, <2>4
    <3>2. new => s \in PadSlots /\ r # s /\ gamepads[s].gp = task.target
      BY <1>5, <1>6, <3>1 DEF new
    <3>3. new => g.client # c
      BY <1>0, <3>2
    <3>4. gamepads'[r].last = gamepads[r].last /\ felt'[c] = felt[c]
      <4>1. CASE new
        BY <1>8, <1>9, <2>1, <3>2, <3>3, <4>1
      <4>2. CASE ~new
        BY <1>8, <1>9, <2>1, <4>2
      <4> QED BY <4>1, <4>2
    <3>5. ASSUME NEW what \in G!Feedback
          PROVE  \/ G!EndsWith(tasks', t, what, game[t][what])
                 \/ G!Without(tasks', t, what) /\ felt[c][what] = game[t][what]
      <4> HIDE DEF t, c
      <4>1. task # G!Task(t, what, game[t][what])
        BY <2>4 DEF G!Task
      <4> QED BY <1>1, <1>2, <2>2, <4>1, TaskTaken DEF task
    <3> QED BY <2>2, <3>4, <3>5
  <2> QED BY <2>3, <2>4
<1> QED BY <1>10, <1>11, <1>12, <1>13 DEF PadsAreKept, G!Base

LEMMA PadsNext ==
  ASSUME G!Base, [G!Next]_G!vars
  PROVE  PadsAreKept
<1>1. ASSUME NEW c \in Gamepads, NEW s \in PadSlots, NEW sort \in G!Kinds,
             NEW t \in Targets, NEW result \in {"ok", "unconnected", "refused"},
             G!alloc_gamepad(c, s, sort, t, result)
      PROVE  PadsAreKept
  <2>1. CASE result = "ok"
    BY <1>1, <2>1, ArrivedInv
  <2>2. CASE result # "ok"
    BY <1>1, <2>2, RefusedInv
  <2> QED BY <2>1, <2>2
<1>2. CASE UNCHANGED G!vars
  <2>1. /\ UNCHANGED <<gamepads, connected, gamepadMask, tasks, game, felt>>
        /\ UNCHANGED <<arrivals, refused, confused, inherited>>
    BY <1>2 DEF G!vars
  <2>2. G!TypeOK' /\ G!SlotsDiffer' /\ G!OwnersAreKnown'
    BY <2>1 DEF G!Base, G!TypeOK, G!SlotsDiffer, G!OwnersAreKnown
  <2>3. G!FingersHaveIndexes' /\ G!GamepadsAreServed'
    BY <2>1
    DEF G!Base, G!FingersHaveIndexes, G!FingersFit, G!GamepadsAreServed,
        G!Attached
  <2>4. G!Fed => G!Fed'
    BY <2>1 DEF G!Fed, G!Comes
  <2> QED BY <2>2, <2>3, <2>4 DEF PadsAreKept, G!Base
<1> QED
  BY <1>1, <1>2, FreeInv, ReportInv, TouchInv, NotifyInv, PassedOnInv
  DEF G!Next

LEMMA PadsInit == G!Init => G!Base /\ G!Fed
<1> SUFFICES ASSUME G!Init PROVE G!Base /\ G!Fed
  OBVIOUS
<1>1. G!Still \in G!Levels
  BY DEF G!Still, G!Levels
<1>2. /\ gamepads \in [PadSlots -> G!Pads]
      /\ \A s \in PadSlots :
           /\ gamepads[s].gp = None /\ gamepads[s].attached = FALSE
           /\ gamepads[s].repeat = FALSE
  BY <1>1, NoTouches DEF G!Init, G!Pads, G!Kinds
<1>3. /\ connected = FALSE /\ gamepadMask = [s \in PadSlots |-> None]
      /\ tasks = <<>> /\ game = [t \in Targets |-> G!Still]
      /\ felt = [c \in Gamepads |-> G!Still]
      /\ arrivals = 0 /\ refused = 0 /\ confused = {} /\ inherited = {}
  BY DEF G!Init
<1>4. G!TypeOK
  <2>1. tasks \in Seq(G!Tasks)
    BY <1>3
  <2> QED BY <1>1, <1>2, <1>3, <2>1 DEF G!TypeOK
<1>5. G!SlotsDiffer /\ G!OwnersAreKnown
  BY <1>2, <1>3 DEF G!SlotsDiffer, G!OwnersAreKnown
<1>6. G!FingersHaveIndexes /\ G!GamepadsAreServed
  BY <1>2, <1>3 DEF G!FingersHaveIndexes, G!GamepadsAreServed
<1>7. G!Fed
  BY <1>3 DEF G!Fed
<1> QED BY <1>4, <1>5, <1>6, <1>7 DEF G!Base

(* When nothing is on its way, what the game has set is felt.              *)
LEMMA FedIsFelt == G!Base /\ G!Fed => G!FeelsTheGame
<1> SUFFICES ASSUME G!Base, G!Fed, tasks = <<>>,
                    NEW s \in PadSlots \ inherited, gamepadMask[s] # None
             PROVE  felt[gamepadMask[s]] = game[gamepads[s].gp]
  BY DEF G!FeelsTheGame
<1>1. /\ gamepads[s] \in G!Pads /\ gamepads[s].gp # None
      /\ gamepadMask[s] \in Gamepads
  BY DEF G!Base, G!TypeOK, G!GamepadsAreServed, G!Attached
<1>2. gamepads[s].gp \in Targets
  BY <1>1, PadFields
<1>3. felt[gamepadMask[s]] \in G!Levels /\ game[gamepads[s].gp] \in G!Levels
  BY <1>1, <1>2 DEF G!Base, G!TypeOK
<1>4. \A what \in G!Feedback :
        felt[gamepadMask[s]][what] = game[gamepads[s].gp][what]
  <2>1. \A what \in G!Feedback :
          \/ G!EndsWith(tasks, gamepads[s].gp, what,
                        game[gamepads[s].gp][what])
          \/ felt[gamepadMask[s]][what] = game[gamepads[s].gp][what]
    BY DEF G!Fed, G!Comes
  <2>2. 1 .. Len(tasks) = {}
    OBVIOUS
  <2> QED BY <2>1, <2>2 DEF G!EndsWith
<1> QED BY <1>3, <1>4 DEF G!Levels

(* A gamepad does what the game has set, in whatever order gamepads arrive *)
(* and leave, slots and addresses are used again, the driver refuses and   *)
(* calls back (alloc_gamepad_internal, free_target, rumble, set_rgb_led).  *)
THEOREM GamepadsFollow ==
  G!Init /\ [][G!Next]_G!vars => []G!GamepadsFollowClient
<1>1. G!Base /\ G!Fed => G!GamepadsFollowClient
  BY FedIsFelt DEF G!Base, G!GamepadsFollowClient
<1>2. G!Base /\ G!Fed /\ [G!Next]_G!vars => (G!Base /\ G!Fed)'
  BY PadsNext DEF PadsAreKept
<1> QED BY <1>1, <1>2, PadsInit, PTL

(* Windows is told what the client does with fingers, pen and gamepads,    *)
(* and a gamepad does what the game has set, in whatever order slots are   *)
(* used again, fingers come and go, injections and reports fail, gamepads  *)
(* are refused and the driver calls back (touch_update, pen_update,        *)
(* alloc_gamepad, gamepad_touch, rumble); all of these meet.               *)
THEOREM WindowsInput ==
  T!Init /\ [][T!Next]_T!vars /\ G!Init /\ [][G!Next]_G!vars
    => []WindowsInputFollows
BY PointersFollow, GamepadsFollow, PTL DEF WindowsInputFollows

-----------------------------------------------------------------------------
(* ConfigFile: what the parser looks for in a text.                        *)

LEMMA LeastOf ==
  ASSUME NEW Q \in SUBSET Nat, Q # {}
  PROVE  F!Min(Q) \in Q /\ \A y \in Q : F!Min(Q) <= y
BY LeastNumber, Zenon DEF F!Min

LEMMA GreatestOf ==
  ASSUME NEW n \in Nat, NEW Q \in SUBSET (0 .. n), Q # {}
  PROVE  F!Max(Q) \in Q /\ \A y \in Q : y <= F!Max(Q)
<1>1. \E x \in Q : \A y \in Q : x >= y
  BY GreatestNumber
<1>2. F!Max(Q) \in Q /\ \A y \in Q : F!Max(Q) >= y
  BY <1>1, Zenon DEF F!Max
<1> QED BY <1>2

LEMMA FindIs ==
  ASSUME NEW t, NEW set, NEW from \in Nat, NEW to \in Nat, from <= to
  PROVE  /\ F!Find(t, from, to, set) \in from .. to
         /\ \A r \in from .. to :
              r = F!Find(t, from, to, set) <=>
                /\ r = to \/ t[r] \in set
                /\ \A k \in from .. r - 1 : t[k] \notin set
<1> DEFINE Q == {k \in from .. to - 1 : t[k] \in set} \cup {to}
<1>1. Q \in SUBSET Nat /\ Q # {}
  OBVIOUS
<1>2. F!Find(t, from, to, set) = F!Min(Q)
  BY DEF F!Find
<1> HIDE DEF Q
<1>3. F!Min(Q) \in Q /\ \A y \in Q : F!Min(Q) <= y
  BY <1>1, LeastOf
<1> DEFINE m == F!Min(Q)
<1> HIDE DEF m
<1> QED BY <1>2, <1>3 DEF m, Q

LEMMA FindNotIs ==
  ASSUME NEW t, NEW set, NEW from \in Nat, NEW to \in Nat, from <= to
  PROVE  /\ F!FindNot(t, from, to, set) \in from .. to
         /\ \A r \in from .. to :
              r = F!FindNot(t, from, to, set) <=>
                /\ r = to \/ t[r] \notin set
                /\ \A k \in from .. r - 1 : t[k] \in set
<1> DEFINE Q == {k \in from .. to - 1 : t[k] \notin set} \cup {to}
<1>1. Q \in SUBSET Nat /\ Q # {}
  OBVIOUS
<1>2. F!FindNot(t, from, to, set) = F!Min(Q)
  BY DEF F!FindNot
<1> HIDE DEF Q
<1>3. F!Min(Q) \in Q /\ \A y \in Q : F!Min(Q) <= y
  BY <1>1, LeastOf
<1> DEFINE m == F!Min(Q)
<1> HIDE DEF m
<1>4. m \in Q /\ \A y \in Q : m <= y
  BY <1>3 DEF m
<1>5. m \in from .. to /\ (m = to \/ t[m] \notin set)
  BY <1>4 DEF Q
<1>6. ASSUME NEW k \in from .. m - 1 PROVE t[k] \in set
  BY <1>4, <1>5 DEF Q
<1>7. ASSUME NEW r \in from .. to, r = to \/ t[r] \notin set,
             \A k \in from .. r - 1 : t[k] \in set
      PROVE  r = m
  <2>1. m <= r
    BY <1>4, <1>7 DEF Q
  <2> QED BY <1>5, <1>7, <2>1
<1> QED BY <1>2, <1>5, <1>6, <1>7 DEF m

LEMMA Found ==
  ASSUME NEW t, NEW set, NEW from \in Nat, NEW to \in Nat, from <= to,
         NEW r, r = F!Find(t, from, to, set)
  PROVE  /\ r \in from .. to /\ (r = to \/ t[r] \in set)
         /\ \A k \in from .. r - 1 : t[k] \notin set
<1>1. F!Find(t, from, to, set) \in from .. to
  BY FindIs
<1>2. \A q \in from .. to :
        q = F!Find(t, from, to, set) =>
          /\ q = to \/ t[q] \in set
          /\ \A k \in from .. q - 1 : t[k] \notin set
  BY FindIs
<1> QED BY <1>1, <1>2

LEMMA FoundNot ==
  ASSUME NEW t, NEW set, NEW from \in Nat, NEW to \in Nat, from <= to,
         NEW r, r = F!FindNot(t, from, to, set)
  PROVE  /\ r \in from .. to /\ (r = to \/ t[r] \notin set)
         /\ \A k \in from .. r - 1 : t[k] \in set
<1>1. F!FindNot(t, from, to, set) \in from .. to
  BY FindNotIs
<1>2. \A q \in from .. to :
        q = F!FindNot(t, from, to, set) =>
          /\ q = to \/ t[q] \notin set
          /\ \A k \in from .. q - 1 : t[k] \in set
  BY FindNotIs
<1> QED BY <1>1, <1>2

LEMMA TrimEndIs ==
  ASSUME NEW t, NEW set, NEW from \in Nat, NEW to \in Nat, from <= to
  PROVE  /\ F!TrimEnd(t, from, to, set) \in from .. to
         /\ \A r \in from .. to :
              r = F!TrimEnd(t, from, to, set) <=>
                /\ r = from \/ t[r - 1] \notin set
                /\ \A k \in r .. to - 1 : t[k] \in set
<1> DEFINE J == {j \in from .. to - 1 : t[j] \notin set}
           Q == {k + 1 : k \in J} \cup {from}
<1>1. Q \in SUBSET (0 .. to) /\ Q # {}
  OBVIOUS
<1>2. F!TrimEnd(t, from, to, set) = F!Max(Q)
  BY DEF F!TrimEnd
<1>3. \A r \in Int : r \in Q <=> r = from \/ r - 1 \in J
  OBVIOUS
<1> HIDE DEF Q
<1>4. F!Max(Q) \in Q /\ \A y \in Q : y <= F!Max(Q)
  BY <1>1, GreatestOf
<1> DEFINE m == F!Max(Q)
<1>5. m \in 0 .. to
  BY <1>1, <1>4
<1> HIDE DEF m
<1>6. m \in Q /\ \A y \in Q : y <= m
  BY <1>4 DEF m
<1>7. m \in from .. to /\ (m = from \/ t[m - 1] \notin set)
  BY <1>3, <1>5, <1>6
<1>8. \A k \in m .. to - 1 : t[k] \in set
  <2> SUFFICES ASSUME NEW k \in m .. to - 1, t[k] \notin set PROVE FALSE
    OBVIOUS
  <2>1. k \in J /\ (k + 1) - 1 = k /\ k + 1 \in Int
    BY <1>7
  <2>2. k + 1 \in Q
    BY <1>3, <2>1
  <2> QED BY <1>5, <1>6, <2>2
<1>9. ASSUME NEW r \in from .. to, r = from \/ t[r - 1] \notin set,
             \A k \in r .. to - 1 : t[k] \in set
      PROVE  r = m
  <2>1. r \in Q
    BY <1>3, <1>9
  <2>2. r <= m
    BY <1>6, <2>1
  <2>3. ASSUME r < m PROVE FALSE
    <3>1. m - 1 \in r .. to - 1 /\ m # from
      BY <1>7, <2>3
    <3> QED BY <1>7, <1>9, <3>1
  <2> QED BY <1>7, <2>2, <2>3
<1> QED BY <1>2, <1>7, <1>8, <1>9 DEF m

-----------------------------------------------------------------------------
(* How often a character comes in a part of a text.                        *)

LEMMA SameSize ==
  ASSUME NEW S
  PROVE  F!Cardinality(S) = Cardinality(S)
BY DEF F!Cardinality, Cardinality

LEMMA CountNone ==
  ASSUME NEW t, NEW c, NEW from \in Int, NEW to \in Int, to < from
  PROVE  F!Count(t, from, to, c) = 0
<1>1. {k \in from .. to : t[k] = c} = {}
  OBVIOUS
<1> QED BY <1>1, FS_EmptySet, SameSize DEF F!Count

LEMMA CountNext ==
  ASSUME NEW t, NEW c, NEW from \in Int, NEW to \in Int, from <= to + 1
  PROVE  /\ F!Count(t, from, to, c) \in Nat
         /\ F!Count(t, from, to + 1, c) =
              F!Count(t, from, to, c) + IF t[to + 1] = c THEN 1 ELSE 0
<1> DEFINE Those(n) == {k \in from .. n : t[k] = c}
<1>1. IsFiniteSet(Those(to))
  <2>1. IsFiniteSet(from .. to) /\ Those(to) \in SUBSET (from .. to)
    BY FS_Interval
  <2> QED BY <2>1, FS_Subset
<1>2. Cardinality(Those(to)) \in Nat
  BY <1>1, FS_CardinalityType
<1>3. Those(to + 1) = IF t[to + 1] = c THEN Those(to) \cup {to + 1} ELSE Those(to)
  OBVIOUS
<1>4. to + 1 \notin Those(to)
  OBVIOUS
<1>5. Cardinality(Those(to) \cup {to + 1}) = Cardinality(Those(to)) + 1
  BY <1>1, <1>4, FS_AddElement
<1>6. /\ F!Count(t, from, to, c) = Cardinality(Those(to))
      /\ F!Count(t, from, to + 1, c) = Cardinality(Those(to + 1))
  BY SameSize DEF F!Count
<1> HIDE DEF Those
<1> QED BY <1>2, <1>3, <1>5, <1>6

CountsOn(t, c, from, n, k) ==
  F!Count(t, from, k, c) = F!Count(t, from, n, c) + IF t[k] = c THEN 1 ELSE 0

LEMMA CountOne ==
  ASSUME NEW t, NEW c, NEW from \in Int, NEW n \in Int, from <= n + 1,
         NEW k, k = n + 1
  PROVE  CountsOn(t, c, from, n, k)
<1>1. F!Count(t, from, n + 1, c) =
        F!Count(t, from, n, c) + IF t[n + 1] = c THEN 1 ELSE 0
  BY CountNext
<1> QED BY <1>1, Zenon DEF CountsOn

LEMMA CountIsNat ==
  ASSUME NEW t, NEW c, NEW from \in Int, NEW to \in Int
  PROVE  F!Count(t, from, to, c) \in Nat
<1>1. CASE to < from
  BY <1>1, CountNone
<1>2. CASE from <= to
  BY <1>2, CountNext
<1> QED BY <1>1, <1>2

(* Parts that are alike, wherever they are.                                *)
LEMMA CountAlike ==
  ASSUME NEW t, NEW u, NEW c, NEW from \in Int, NEW to \in Int, from <= to + 1,
         NEW d \in Int, NEW from2, NEW to2, from2 = from + d, to2 = to + d,
         \A i \in from .. to : t[i] = u[i + d]
  PROVE  F!Count(t, from, to, c) = F!Count(u, from2, to2, c)
<1> DEFINE n == to + 1 - from
           a == from - 1
           b == from2 - 1
           Q == {k \in 0 .. n : F!Count(t, from, a + k, c) =
                                  F!Count(u, from2, b + k, c)}
<1>0. /\ n \in Nat /\ a \in Int /\ b \in Int /\ b = a + d /\ a + n = to
      /\ b + n = to2 /\ from = a + 1 /\ from2 = b + 1 /\ n \in 0 .. n
  OBVIOUS
<1>1. 0 \in Q
  <2>1. a + 0 < from /\ b + 0 < from2 /\ 0 \in 0 .. n
    BY <1>0
  <2>2. F!Count(t, from, a + 0, c) = 0 /\ F!Count(u, from2, b + 0, c) = 0
    BY <1>0, <2>1, CountNone
  <2> QED BY <2>1, <2>2
<1> HIDE DEF n, a, b
<1>2. ASSUME NEW k \in 0 .. n, k < n, k \in Q PROVE k + 1 \in Q
  <2> DEFINE i == a + k
             j == b + k
  <2>1. /\ i \in Int /\ j \in Int /\ from <= i + 1 /\ from2 <= j + 1
        /\ i + 1 \in from .. to /\ j + 1 = (i + 1) + d
        /\ a + (k + 1) = i + 1 /\ b + (k + 1) = j + 1 /\ k + 1 \in 0 .. n
    BY <1>0, <1>2
  <2>2. F!Count(t, from, i, c) = F!Count(u, from2, j, c)
    BY <1>2
  <2> HIDE DEF i, j
  <2>3. t[i + 1] = u[j + 1]
    BY <2>1
  <2>4. F!Count(t, from, i + 1, c) =
          F!Count(t, from, i, c) + IF t[i + 1] = c THEN 1 ELSE 0
    BY <2>1, CountNext
  <2>5. F!Count(u, from2, j + 1, c) =
          F!Count(u, from2, j, c) + IF u[j + 1] = c THEN 1 ELSE 0
    BY <1>0, <2>1, CountNext
  <2> QED BY <2>1, <2>2, <2>3, <2>4, <2>5
<1>3. n \in Q
  <2>1. 0 .. n \subseteq Q
    <3> HIDE DEF Q
    <3> QED BY <1>0, <1>1, <1>2, CountUp
  <2> QED BY <1>0, <2>1
<1> QED BY <1>0, <1>3

LEMMA CountPrefix ==
  ASSUME NEW t, NEW u, NEW c, NEW n \in Nat, \A i \in 1 .. n : t[i] = u[i]
  PROVE  F!Count(t, 1, n, c) = F!Count(u, 1, n, c)
<1> DEFINE d == 0
           from == 1
<1>1. /\ d \in Int /\ from \in Int /\ n \in Int /\ from <= n + 1
      /\ from = from + d /\ n = n + d /\ \A i \in from .. n : t[i] = u[i + d]
  OBVIOUS
<1> HIDE DEF d, from
<1>2. F!Count(t, from, n, c) = F!Count(u, from, n, c)
  BY <1>1, CountAlike
<1> QED BY <1>2 DEF from

LEMMA CountSplit ==
  ASSUME NEW t, NEW c, NEW from \in Int, NEW m \in Int, from <= m + 1,
         NEW to \in Int, m <= to, NEW b, b = m + 1
  PROVE  F!Count(t, from, to, c) = F!Count(t, from, m, c) + F!Count(t, b, to, c)
<1> DEFINE n == to - m
           Q == {k \in 0 .. n :
                   F!Count(t, from, m + k, c) =
                     F!Count(t, from, m, c) + F!Count(t, b, m + k, c)}
<1>0. n \in Nat /\ n \in 0 .. n /\ m + n = to /\ 0 \in 0 .. n /\ b \in Int
  OBVIOUS
<1>1. 0 \in Q
  <2>1. F!Count(t, b, m, c) = 0 /\ m + 0 = m
    BY CountNone
  <2>2. F!Count(t, from, m, c) \in Nat
    BY CountIsNat
  <2> QED BY <1>0, <2>1, <2>2
<1> HIDE DEF n
<1>2. ASSUME NEW k \in 0 .. n, k < n, k \in Q PROVE k + 1 \in Q
  <2> DEFINE e == m + k
  <2>1. e \in Int /\ from <= e + 1 /\ b <= e + 1 /\ m + (k + 1) = e + 1
        /\ k + 1 \in 0 .. n
    BY <1>0, <1>2
  <2>2. F!Count(t, from, e, c) = F!Count(t, from, m, c) + F!Count(t, b, e, c)
    BY <1>2
  <2> HIDE DEF e
  <2>3. F!Count(t, from, e + 1, c) =
          F!Count(t, from, e, c) + IF t[e + 1] = c THEN 1 ELSE 0
    BY <2>1, CountNext
  <2>4. F!Count(t, b, e + 1, c) =
          F!Count(t, b, e, c) + IF t[e + 1] = c THEN 1 ELSE 0
    BY <1>0, <2>1, CountNext
  <2>5. /\ F!Count(t, from, m, c) \in Nat /\ F!Count(t, b, e, c) \in Nat
    BY <1>0, <2>1, CountIsNat
  <2>6. F!Count(t, from, e + 1, c) =
          F!Count(t, from, m, c) + F!Count(t, b, e + 1, c)
    BY <2>2, <2>3, <2>4, <2>5
  <2> QED BY <2>1, <2>6
<1>3. n \in Q
  <2>1. 0 .. n \subseteq Q
    <3> HIDE DEF Q
    <3> QED BY <1>0, <1>1, <1>2, CountUp
  <2> QED BY <1>0, <2>1
<1> QED BY <1>0, <1>3

-----------------------------------------------------------------------------
(* Text without its comments.                                              *)

StringTo(t, from, to) ==
  LET upto[k \in from .. to] ==
        IF k = from THEN <<>>
        ELSE IF F!Commented(t, from, k - 1) THEN upto[k - 1]
        ELSE Append(upto[k - 1], t[k - 1])
  IN upto

LEMMA StringToStep ==
  ASSUME NEW t, NEW from \in Nat, NEW to \in Nat, from <= to
  PROVE  /\ F!to_string(t, from, to) = StringTo(t, from, to)[to]
         /\ StringTo(t, from, to)[from] = <<>>
         /\ \A k \in from .. to - 1 :
              StringTo(t, from, to)[k + 1] =
                IF F!Commented(t, from, k) THEN StringTo(t, from, to)[k]
                ELSE Append(StringTo(t, from, to)[k], t[k])
<1> DEFINE Step(s, k) == IF F!Commented(t, from, k - 1) THEN s
                         ELSE Append(s, t[k - 1])
           Term(g, k) == IF k = from THEN <<>> ELSE Step(g[k - 1], k)
           Reads(g, m) == g = [k \in from .. m |-> Term(g, k)]
           Good == {n \in 0 .. to - from : \E g : Reads(g, from + n)}
<1> HIDE DEF Step
<1>1. 0 \in Good
  <2> DEFINE g == [k \in from .. from |-> <<>>]
  <2>1. g = [k \in from .. from |-> Term(g, k)]
    OBVIOUS
  <2> HIDE DEF g, Term
  <2>2. \E h : Reads(h, from + 0)
    <3>1. from + 0 = from
      OBVIOUS
    <3> QED BY <2>1, <3>1
  <2> HIDE DEF Reads
  <2> QED BY <2>2
<1>2. ASSUME NEW n \in 0 .. to - from, n < to - from, n \in Good
      PROVE  n + 1 \in Good
  <2> DEFINE m == from + n
  <2>0. m \in Nat /\ from <= m /\ from + (n + 1) = m + 1
    OBVIOUS
  <2>1. PICK g : g = [k \in from .. m |-> Term(g, k)]
    BY <1>2
  <2> HIDE DEF m
  <2> DEFINE h == [k \in from .. m + 1 |-> IF k <= m THEN g[k] ELSE Term(g, k)]
  <2>2. \A k \in from .. m + 1 : h[k] = Term(h, k)
    <3> SUFFICES ASSUME NEW k \in from .. m + 1 PROVE h[k] = Term(h, k)
      OBVIOUS
    <3>1. k # from => h[k - 1] = g[k - 1]
      BY <2>0
    <3>2. Term(h, k) = Term(g, k)
      BY <3>1
    <3>3. ASSUME k <= m PROVE g[k] = Term(g, k)
      <4>1. k \in from .. m
        BY <2>0, <3>3
      <4> HIDE DEF Term
      <4> QED BY <2>1, <4>1
    <3> QED BY <3>2, <3>3
  <2>3. h = [k \in from .. m + 1 |-> Term(h, k)]
    <3> HIDE DEF Term
    <3> QED BY <2>2
  <2> HIDE DEF h, Term
  <2>4. \E f : Reads(f, from + (n + 1))
    BY <2>0, <2>3
  <2> HIDE DEF Reads
  <2> QED BY <1>2, <2>4
<1>3. PICK g : Reads(g, to)
  <2> HIDE DEF Good
  <2>1. 0 .. to - from \subseteq Good
    BY <1>1, <1>2, CountUp
  <2>2. to - from \in Good /\ from + (to - from) = to
    BY <2>1
  <2> QED BY <2>2 DEF Good
<1> DEFINE u == StringTo(t, from, to)
<1>4. Reads(u, to)
  <2>1. u = CHOOSE h : Reads(h, to)
    BY Zenon DEF StringTo, Term, Step
  <2> HIDE DEF Reads, u
  <2> QED BY <1>3, <2>1
<1>5. F!to_string(t, from, to) = u[to]
  BY Zenon DEF F!to_string, StringTo
<1>6. \A k \in from .. to : u[k] = Term(u, k)
  <2> HIDE DEF Term, u
  <2>1. u = [k \in from .. to |-> Term(u, k)]
    BY <1>4 DEF u
  <2> QED BY <2>1
<1> HIDE DEF u
<1>7. u[from] = <<>>
  BY <1>6
<1>8. ASSUME NEW k \in from .. to - 1
      PROVE  u[k + 1] = IF F!Commented(t, from, k) THEN u[k]
                        ELSE Append(u[k], t[k])
  <2>1. k + 1 \in from .. to /\ k + 1 # from /\ (k + 1) - 1 = k
    OBVIOUS
  <2>2. u[k + 1] = Step(u[(k + 1) - 1], k + 1)
    BY <1>6, <2>1
  <2> QED BY <2>1, <2>2 DEF Step
<1> QED BY <1>5, <1>7, <1>8 DEF u

LEMMA StringNext ==
  ASSUME NEW t, NEW from \in Nat
  PROVE  /\ F!to_string(t, from, from) = <<>>
         /\ \A k \in Nat : from <= k =>
              F!to_string(t, from, k + 1) =
                IF F!Commented(t, from, k) THEN F!to_string(t, from, k)
                ELSE Append(F!to_string(t, from, k), t[k])
<1>1. F!to_string(t, from, from) = <<>>
  <2>1. from <= from
    OBVIOUS
  <2>2. /\ F!to_string(t, from, from) = StringTo(t, from, from)[from]
        /\ StringTo(t, from, from)[from] = <<>>
    BY <2>1, StringToStep
  <2> QED BY <2>2
<1>2. ASSUME NEW k \in Nat, from <= k
      PROVE  F!to_string(t, from, k + 1) =
                IF F!Commented(t, from, k) THEN F!to_string(t, from, k)
                ELSE Append(F!to_string(t, from, k), t[k])
  <2> DEFINE u == StringTo(t, from, k)
             v == StringTo(t, from, k + 1)
             Q == {n \in 0 .. k - from : u[from + n] = v[from + n]}
  <2>1. /\ u[from] = <<>>
        /\ \A i \in from .. k - 1 :
             u[i + 1] = IF F!Commented(t, from, i) THEN u[i]
                        ELSE Append(u[i], t[i])
        /\ F!to_string(t, from, k) = u[k]
    BY <1>2, StringToStep
  <2>2. /\ v[from] = <<>>
        /\ \A i \in from .. k :
             v[i + 1] = IF F!Commented(t, from, i) THEN v[i]
                        ELSE Append(v[i], t[i])
        /\ F!to_string(t, from, k + 1) = v[k + 1]
    <3>1. k + 1 \in Nat /\ from <= k + 1 /\ (k + 1) - 1 = k
      BY <1>2
    <3> HIDE DEF v
    <3>2. /\ v[from] = <<>>
          /\ \A i \in from .. (k + 1) - 1 :
             v[i + 1] = IF F!Commented(t, from, i) THEN v[i]
                        ELSE Append(v[i], t[i])
          /\ F!to_string(t, from, k + 1) = v[k + 1]
      BY <3>1, StringToStep DEF v
    <3> QED BY <3>1, <3>2
  <2> HIDE DEF u, v
  <2>3. 0 \in Q
    <3>1. from + 0 = from
      OBVIOUS
    <3> QED BY <1>2, <2>1, <2>2, <3>1
  <2>4. ASSUME NEW n \in 0 .. k - from, n < k - from, n \in Q
        PROVE  n + 1 \in Q
    <3> DEFINE i == from + n
    <3>1. i \in from .. k - 1 /\ i \in from .. k /\ from + (n + 1) = i + 1
          /\ n + 1 \in 0 .. k - from
      BY <2>4
    <3>2. u[i] = v[i]
      BY <2>4
    <3> HIDE DEF i
    <3>3. u[i + 1] = v[i + 1]
      BY <2>1, <2>2, <3>1, <3>2
    <3> QED BY <3>1, <3>3
  <2>5. u[k] = v[k]
    <3>1. k - from \in Nat /\ from + (k - from) = k
      BY <1>2
    <3>2. 0 .. k - from \subseteq Q
      <4> HIDE DEF Q
      <4> QED BY <2>3, <2>4, <3>1, CountUp
    <3>3. k - from \in Q
      BY <3>1, <3>2
    <3> QED BY <3>1, <3>3
  <2>6. k \in from .. k
    BY <1>2
  <2> QED BY <2>1, <2>2, <2>5, <2>6
<1> QED BY <1>1, <1>2

LEMMA Appended ==
  ASSUME NEW S, NEW a \in Seq(S), NEW x \in S
  PROVE  /\ Append(a, x) \in Seq(S) /\ Len(a) \in Nat
         /\ Len(Append(a, x)) = Len(a) + 1 /\ Append(a, x)[Len(a) + 1] = x
         /\ \A i \in 1 .. Len(a) : Append(a, x)[i] = a[i]
OBVIOUS

(* What is left is of the text, and not of a comment.                      *)
LEMMA StringHolds ==
  ASSUME NEW S, NEW t \in Seq(S), NEW from \in 1 .. Len(t) + 1,
         NEW to \in from .. Len(t) + 1
  PROVE  /\ F!to_string(t, from, to) \in Seq(S)
         /\ F!to_string(t, from, to) \in
              Seq({t[k] : k \in {i \in from .. to - 1 :
                                   ~F!Commented(t, from, i)}})
<1> DEFINE K == {i \in from .. to - 1 : ~F!Commented(t, from, i)}
           U == {t[k] : k \in K}
           s(k) == F!to_string(t, from, k)
           Q == {n \in 0 .. to - from : s(from + n) \in Seq(S)
                                          /\ s(from + n) \in Seq(U)}
<1>0. from \in Nat /\ to \in Nat /\ Len(t) \in Nat
  OBVIOUS
<1>1. 0 \in Q
  <2>1. s(from) = <<>> /\ from + 0 = from /\ 0 \in 0 .. to - from
    BY <1>0, StringNext
  <2>2. <<>> \in Seq(S) /\ <<>> \in Seq(U)
    OBVIOUS
  <2> HIDE DEF s, U
  <2> QED BY <2>1, <2>2
<1>2. ASSUME NEW n \in 0 .. to - from, n < to - from, n \in Q
      PROVE  n + 1 \in Q
  <2> DEFINE k == from + n
  <2>1. k \in Nat /\ from <= k /\ k \in from .. to - 1
        /\ from + (n + 1) = k + 1 /\ k \in 1 .. Len(t)
        /\ n + 1 \in 0 .. to - from
    BY <1>0, <1>2
  <2>2. s(k) \in Seq(S) /\ s(k) \in Seq(U)
    BY <1>2
  <2> HIDE DEF k
  <2>3. s(k + 1) = IF F!Commented(t, from, k) THEN s(k)
                   ELSE Append(s(k), t[k])
    BY <1>0, <2>1, StringNext
  <2>4. t[k] \in S
    BY <2>1
  <2>5. ~F!Commented(t, from, k) => t[k] \in U
    BY <2>1
  <2> HIDE DEF s, U
  <2>6. CASE F!Commented(t, from, k)
    <3>1. s(k + 1) = s(k)
      BY <2>3, <2>6
    <3> QED BY <2>1, <2>2, <3>1
  <2>7. CASE ~F!Commented(t, from, k)
    <3>1. s(k + 1) = Append(s(k), t[k])
      BY <2>3, <2>7
    <3>2. Append(s(k), t[k]) \in Seq(S)
      BY <2>2, <2>4, Appended
    <3>3. Append(s(k), t[k]) \in Seq(U)
      BY <2>2, <2>5, <2>7, Appended
    <3> QED BY <2>1, <3>1, <3>2, <3>3
  <2> QED BY <2>6, <2>7
<1>3. s(to) \in Seq(S) /\ s(to) \in Seq(U)
  <2>1. /\ to - from \in Nat /\ from + (to - from) = to
        /\ to - from \in 0 .. to - from
    BY <1>0
  <2>2. 0 .. to - from \subseteq Q
    <3> HIDE DEF Q
    <3> QED BY <1>1, <1>2, <2>1, CountUp
  <2>3. to - from \in Q
    <3> HIDE DEF Q
    <3> QED BY <2>1, <2>2
  <2> QED BY <2>1, <2>3
<1> QED BY <1>3

(* Where nothing is a comment, nothing is left out.                        *)
LEMMA StringWhole ==
  ASSUME NEW S, NEW t \in Seq(S), NEW from \in 1 .. Len(t) + 1,
         NEW to \in from .. Len(t) + 1,
         \A k \in from .. to - 1 : t[k] # "#"
  PROVE  F!to_string(t, from, to) = SubSeq(t, from, to - 1)
<1> DEFINE s(k) == F!to_string(t, from, k)
           Q == {n \in 0 .. to - from :
                   s(from + n) = SubSeq(t, from, from + n - 1)}
<1>0. from \in Nat /\ to \in Nat /\ Len(t) \in Nat
  OBVIOUS
<1>1. 0 \in Q
  <2>1. s(from) = <<>> /\ from + 0 = from /\ 0 \in 0 .. to - from
    BY <1>0, StringNext
  <2>2. SubSeq(t, from, from + 0 - 1) = <<>>
    OBVIOUS
  <2> HIDE DEF s
  <2> QED BY <2>1, <2>2
<1>2. ASSUME NEW n \in 0 .. to - from, n < to - from, n \in Q
      PROVE  n + 1 \in Q
  <2> DEFINE k == from + n
  <2>1. k \in Nat /\ from <= k /\ k \in from .. to - 1
        /\ from + (n + 1) = k + 1 /\ k \in 1 .. Len(t)
        /\ n + 1 \in 0 .. to - from /\ from + (n + 1) - 1 = k
    BY <1>0, <1>2
  <2>2. s(k) = SubSeq(t, from, k - 1)
    BY <1>2
  <2> HIDE DEF k
  <2>3. ~F!Commented(t, from, k)
    BY <2>1 DEF F!Commented
  <2>4. s(k + 1) = Append(s(k), t[k])
    BY <1>0, <2>1, <2>3, StringNext
  <2>5. Append(SubSeq(t, from, k - 1), t[k]) = SubSeq(t, from, k)
    BY <1>0, <2>1
  <2> HIDE DEF s
  <2> QED BY <2>1, <2>2, <2>4, <2>5
<1>3. s(to) = SubSeq(t, from, to - 1)
  <2>1. /\ to - from \in Nat /\ from + (to - from) = to
        /\ to - from \in 0 .. to - from
    BY <1>0
  <2>2. 0 .. to - from \subseteq Q
    <3> HIDE DEF Q
    <3> QED BY <1>1, <1>2, <2>1, CountUp
  <2>3. to - from \in Q
    <3> HIDE DEF Q
    <3> QED BY <2>1, <2>2
  <2> HIDE DEF s
  <2> QED BY <2>1, <2>3
<1> QED BY <1>3

(* The first character is kept.                                            *)
LEMMA StringFirst ==
  ASSUME NEW S, NEW t \in Seq(S), NEW from \in 1 .. Len(t),
         NEW to \in from + 1 .. Len(t) + 1, t[from] # "#"
  PROVE  /\ Len(F!to_string(t, from, to)) >= 1
         /\ F!to_string(t, from, to)[1] = t[from]
<1> DEFINE s(k) == F!to_string(t, from, k)
           first == from + 1
           Q == {n \in 0 .. to - first : Len(s(first + n)) >= 1
                                           /\ s(first + n)[1] = t[from]}
<1>0. from \in Nat /\ to \in Nat /\ Len(t) \in Nat /\ first \in Nat
  OBVIOUS
<1>1. 0 \in Q
  <2>1. s(from) = <<>> /\ first + 0 = from + 1 /\ 0 \in 0 .. to - first
    BY <1>0, StringNext
  <2>2. ~F!Commented(t, from, from)
    BY <1>0 DEF F!Commented
  <2>3. s(from + 1) = Append(s(from), t[from])
    <3>1. from <= from
      BY <1>0
    <3> QED BY <1>0, <2>2, <3>1, StringNext
  <2>4. Len(Append(<<>>, t[from])) = 1 /\ Append(<<>>, t[from])[1] = t[from]
    OBVIOUS
  <2> HIDE DEF s
  <2> QED BY <2>1, <2>3, <2>4
<1>2. ASSUME NEW n \in 0 .. to - first, n < to - first, n \in Q
      PROVE  n + 1 \in Q
  <2> DEFINE k == first + n
  <2>1. k \in Nat /\ from <= k /\ k \in from .. Len(t) + 1
        /\ first + (n + 1) = k + 1 /\ n + 1 \in 0 .. to - first
        /\ k \in 1 .. Len(t)
    BY <1>0, <1>2
  <2>2. Len(s(k)) >= 1 /\ s(k)[1] = t[from]
    BY <1>2
  <2> HIDE DEF k
  <2>3. s(k + 1) = IF F!Commented(t, from, k) THEN s(k)
                   ELSE Append(s(k), t[k])
    BY <1>0, <2>1, StringNext
  <2>4. s(k) \in Seq(S) /\ t[k] \in S
    <3>1. from \in 1 .. Len(t) + 1
      BY <1>0
    <3>2. F!to_string(t, from, k) \in Seq(S)
      BY <2>1, <3>1, StringHolds
    <3> QED BY <2>1, <3>2
  <2> HIDE DEF s
  <2>5. Len(s(k + 1)) >= 1 /\ s(k + 1)[1] = t[from]
    <3>1. 1 \in 1 .. Len(s(k))
      BY <2>2, <2>4
    <3>2. /\ Len(Append(s(k), t[k])) >= 1
          /\ Append(s(k), t[k])[1] = t[from]
      BY <2>2, <2>4, <3>1, Appended
    <3>3. CASE F!Commented(t, from, k)
      BY <2>2, <2>3, <3>3
    <3>4. CASE ~F!Commented(t, from, k)
      BY <2>3, <3>2, <3>4
    <3> QED BY <3>3, <3>4
  <2> QED BY <2>1, <2>5
<1>3. Len(s(to)) >= 1 /\ s(to)[1] = t[from]
  <2>1. /\ to - first \in Nat /\ first + (to - first) = to
        /\ to - first \in 0 .. to - first
    BY <1>0
  <2>2. 0 .. to - first \subseteq Q
    <3> HIDE DEF Q
    <3> QED BY <1>1, <1>2, <2>1, CountUp
  <2>3. to - first \in Q
    <3> HIDE DEF Q
    <3> QED BY <2>1, <2>2
  <2> QED BY <2>1, <2>3
<1> QED BY <1>3

(* The first characters of what is left are what is left of a first part,  *)
(* when no comment holds any of Kinds.                                         *)
LEMMA StringCounts ==
  ASSUME NEW S, NEW t \in Seq(S), NEW from \in 1 .. Len(t) + 1,
         NEW to \in from .. Len(t) + 1, NEW Kinds,
         \A k \in from .. to - 1 : F!Commented(t, from, k) => t[k] \notin Kinds
  PROVE  LET s == F!to_string(t, from, to)
         IN /\ \A c \in Kinds : F!Count(s, 1, Len(s), c)
                              = F!Count(t, from, to - 1, c)
            /\ \A j \in 1 .. Len(s) : \E i \in from .. to - 1 : \A c \in Kinds :
                 F!Count(s, 1, j, c) = F!Count(t, from, i, c)
<1> DEFINE s(k) == F!to_string(t, from, k)
           All(k) == \A c \in Kinds : F!Count(s(k), 1, Len(s(k)), c)
                                   = F!Count(t, from, k - 1, c)
           Each(k) == \A j \in 1 .. Len(s(k)) : \E i \in from .. k - 1 :
                        \A c \in Kinds : F!Count(s(k), 1, j, c)
                                      = F!Count(t, from, i, c)
           Q == {n \in 0 .. to - from : All(from + n) /\ Each(from + n)}
<1>0. from \in Nat /\ to \in Nat /\ Len(t) \in Nat
  OBVIOUS
<1>1. 0 \in Q
  <2>1. s(from) = <<>> /\ from + 0 = from /\ 0 \in 0 .. to - from
    BY <1>0, StringNext
  <2> HIDE DEF s
  <2>2. Len(s(from)) = 0
    BY <2>1
  <2>3. \A c \in Kinds : F!Count(s(from), 1, 0, c) = 0
                      /\ F!Count(t, from, from - 1, c) = 0
    BY <1>0, CountNone
  <2>4. All(from) /\ Each(from)
    BY <2>2, <2>3
  <2> HIDE DEF All, Each
  <2> QED BY <2>1, <2>4
<1>2. ASSUME NEW n \in 0 .. to - from, n < to - from, n \in Q
      PROVE  n + 1 \in Q
  <2> DEFINE k == from + n
  <2>1. k \in Nat /\ from <= k /\ k \in from .. to - 1
        /\ from + (n + 1) = k + 1 /\ k \in 1 .. Len(t)
        /\ n + 1 \in 0 .. to - from /\ k \in from .. Len(t) + 1
        /\ (k + 1) - 1 = k /\ (k - 1) + 1 = k
    BY <1>0, <1>2
  <2>2. All(k) /\ Each(k)
    BY <1>2
  <2> HIDE DEF k
  <2>3. s(k + 1) = IF F!Commented(t, from, k) THEN s(k)
                   ELSE Append(s(k), t[k])
    BY <1>0, <2>1, StringNext
  <2>4. s(k) \in Seq(S) /\ t[k] \in S /\ Len(s(k)) \in Nat
    <3>1. F!to_string(t, from, k) \in Seq(S)
      BY <2>1, StringHolds
    <3> QED BY <2>1, <3>1
  <2>5. ASSUME NEW c
        PROVE  F!Count(t, from, k, c) =
                 F!Count(t, from, k - 1, c) + IF t[k] = c THEN 1 ELSE 0
    <3>1. k - 1 \in Int /\ from <= (k - 1) + 1
      BY <1>0, <2>1
    <3> DEFINE m == k - 1
    <3>a. m \in Int /\ from \in Int /\ from <= m + 1 /\ k = m + 1
      BY <1>0, <2>1, <3>1
    <3> HIDE DEF m, k
    <3>2. CountsOn(t, c, from, m, k)
      BY <3>a, CountOne
    <3> QED BY <3>2 DEF CountsOn, m
  <2>6. CASE F!Commented(t, from, k)
    <3>1. ASSUME NEW c \in Kinds
          PROVE  F!Count(t, from, k, c) = F!Count(t, from, k - 1, c)
      <4>1. F!Count(t, from, k - 1, c) \in Nat /\ t[k] # c
        BY <1>0, <2>1, <2>6, CountIsNat
      <4> QED BY <2>5, <4>1
    <3>2. s(k + 1) = s(k)
      BY <2>3, <2>6
    <3> HIDE DEF s
    <3>3. All(k + 1)
      BY <2>1, <2>2, <3>1, <3>2
    <3>4. Each(k + 1)
      BY <2>1, <2>2, <3>2
    <3> HIDE DEF All, Each
    <3> QED BY <2>1, <3>3, <3>4
  <2>7. CASE ~F!Commented(t, from, k)
    <3> DEFINE a == s(k)
               b == s(k + 1)
    <3>1. b = Append(a, t[k])
      BY <2>3, <2>7
    <3>2. a \in Seq(S) /\ Len(a) \in Nat
      BY <2>4
    <3>3. \A c \in Kinds : F!Count(a, 1, Len(a), c) = F!Count(t, from, k - 1, c)
      BY <2>2
    <3>4. \A j \in 1 .. Len(a) : \E i \in from .. k - 1 : \A c \in Kinds :
            F!Count(a, 1, j, c) = F!Count(t, from, i, c)
      BY <2>2
    <3> HIDE DEF a, b
    <3>5. /\ Len(b) = Len(a) + 1 /\ b[Len(a) + 1] = t[k]
          /\ \A i \in 1 .. Len(a) : b[i] = a[i]
      BY <2>4, <3>1, <3>2
    <3>6. ASSUME NEW j \in 0 .. Len(a), NEW c
          PROVE  F!Count(b, 1, j, c) = F!Count(a, 1, j, c)
      <4>1. j \in Nat /\ \A i \in 1 .. j : b[i] = a[i]
        BY <3>2, <3>5
      <4> QED BY <4>1, CountPrefix
    <3>7. ASSUME NEW c \in Kinds
          PROVE  F!Count(b, 1, Len(b), c) = F!Count(t, from, k, c)
      <4>1. F!Count(b, 1, Len(a) + 1, c) =
              F!Count(b, 1, Len(a), c) + IF b[Len(a) + 1] = c THEN 1 ELSE 0
        <5> DEFINE m == Len(a)
                   j == Len(a) + 1
                   one == 1
        <5>1. /\ one \in Int /\ m \in Int /\ one <= m + 1 /\ j = m + 1
          BY <3>2
        <5> HIDE DEF m, j, one
        <5>2. CountsOn(b, c, one, m, j)
          BY <5>1, CountOne
        <5> QED BY <5>2 DEF CountsOn, m, j, one
      <4>2. F!Count(b, 1, Len(a), c) = F!Count(t, from, k - 1, c)
        BY <3>2, <3>3, <3>6
      <4> QED BY <2>5, <3>5, <4>1, <4>2
    <3>8. ASSUME NEW j \in 1 .. Len(b)
          PROVE  \E i \in from .. k : \A c \in Kinds :
                   F!Count(b, 1, j, c) = F!Count(t, from, i, c)
      <4>1. CASE j = Len(b)
        <5>1. k \in from .. k
          BY <1>0, <2>1
        <5> QED BY <3>7, <4>1, <5>1
      <4>2. CASE j # Len(b)
        <5>1. j \in 1 .. Len(a) /\ j \in 0 .. Len(a)
          BY <3>2, <3>5, <4>2
        <5>2. PICK i \in from .. k - 1 : \A c \in Kinds :
                F!Count(a, 1, j, c) = F!Count(t, from, i, c)
          BY <3>4, <5>1
        <5>3. i \in from .. k
          BY <1>0, <2>1
        <5> QED BY <3>6, <5>1, <5>2, <5>3
      <4> QED BY <4>1, <4>2
    <3>9. All(k + 1) /\ Each(k + 1)
      BY <2>1, <3>7, <3>8 DEF b
    <3> HIDE DEF All, Each
    <3> QED BY <2>1, <3>9
  <2> QED BY <2>6, <2>7
<1>3. All(to) /\ Each(to)
  <2>1. /\ to - from \in Nat /\ from + (to - from) = to
        /\ to - from \in 0 .. to - from
    BY <1>0
  <2>2. 0 .. to - from \subseteq Q
    <3> HIDE DEF Q
    <3> QED BY <1>1, <1>2, <2>1, CountUp
  <2>3. to - from \in Q
    <3> HIDE DEF Q
    <3> QED BY <2>1, <2>2
  <2> HIDE DEF All, Each
  <2> QED BY <2>1, <2>3
<1> QED BY <1>3

-----------------------------------------------------------------------------
(* Lists.                                                                  *)

\* As many brackets are closed as were opened.
Even(t, from, k) == F!Count(t, from, k, "[") = F!Count(t, from, k, "]")

LEMMA ListBegins ==
  ASSUME NEW t, NEW b \in Nat, t[b] = "["
  PROVE  /\ F!Count(t, b, b, "[") = 1 /\ F!Count(t, b, b, "]") = 0
         /\ \A k \in Nat : b <= k =>
              /\ F!Count(t, b, k, "[") = F!Count(t, b + 1, k, "[") + 1
              /\ F!Count(t, b, k, "]") = F!Count(t, b + 1, k, "]")
<1>1. ASSUME NEW c
      PROVE  F!Count(t, b, b, c) = IF t[b] = c THEN 1 ELSE 0
  <2>1. F!Count(t, b, b - 1, c) = 0
    BY CountNone
  <2>2. b - 1 \in Int /\ b <= (b - 1) + 1 /\ (b - 1) + 1 = b
    OBVIOUS
  <2>3. F!Count(t, b, (b - 1) + 1, c) =
          F!Count(t, b, b - 1, c) + IF t[(b - 1) + 1] = c THEN 1 ELSE 0
    BY <2>2, CountNext
  <2> QED BY <2>1, <2>2, <2>3
<1>2. F!Count(t, b, b, "[") = 1 /\ F!Count(t, b, b, "]") = 0
  BY <1>1
<1>3. ASSUME NEW k \in Nat, b <= k, NEW c
      PROVE  F!Count(t, b, k, c) = F!Count(t, b, b, c) + F!Count(t, b + 1, k, c)
  <2> DEFINE d == b + 1
  <2>1. d = b + 1 /\ b \in Int /\ k \in Int /\ b <= b + 1
    OBVIOUS
  <2> HIDE DEF d
  <2>2. F!Count(t, b, k, c) = F!Count(t, b, b, c) + F!Count(t, d, k, c)
    BY <1>3, <2>1, CountSplit
  <2> QED BY <2>2 DEF d
<1>4. ASSUME NEW k \in Nat, b <= k
      PROVE  /\ F!Count(t, b, k, "[") = F!Count(t, b + 1, k, "[") + 1
             /\ F!Count(t, b, k, "]") = F!Count(t, b + 1, k, "]")
  <2>1. /\ F!Count(t, b + 1, k, "[") \in Nat
        /\ F!Count(t, b + 1, k, "]") \in Nat
    BY CountIsNat
  <2> QED BY <1>2, <1>3, <1>4, <2>1
<1> QED BY <1>2, <1>4

LEMMA SkipIs ==
  ASSUME NEW t, Len(t) \in Nat, NEW b \in 1 .. Len(t), t[b] = "[",
         NEW r \in b + 1 .. Len(t), Even(t, b, r),
         \A k \in b + 1 .. r - 1 : ~Even(t, b, k)
  PROVE  F!skip_list(t, b + 1) = r + 1
<1> DEFINE closes(k) ==
             F!Count(t, b + 1, k, "]") = F!Count(t, b + 1, k, "[") + 1
           J == {j \in b + 1 .. Len(t) : closes(j)}
           Q == {k + 1 : k \in J} \cup {Len(t) + 1}
<1>1. \A k \in b + 1 .. Len(t) : closes(k) <=> Even(t, b, k)
  BY ListBegins DEF Even
<1>2. F!skip_list(t, b + 1) = F!Min(Q)
  BY DEF F!skip_list, F!End
<1> HIDE DEF closes
<1>3. Q \in SUBSET Nat /\ r \in J /\ r + 1 \in Q
  BY <1>1
<1>4. \A y \in Q : r + 1 <= y
  BY <1>1
<1> HIDE DEF Q
<1>5. F!Min(Q) \in Q /\ \A y \in Q : F!Min(Q) <= y
  BY <1>3, LeastOf
<1> DEFINE m == F!Min(Q)
<1> HIDE DEF m
<1>6. m \in Q /\ m <= r + 1 /\ r + 1 <= m /\ m \in Nat
  BY <1>3, <1>4, <1>5 DEF m
<1> QED BY <1>2, <1>6 DEF m

(* A list of a text that the format can write ends.                        *)
LEMMA ListCloses ==
  ASSUME NEW t, Len(t) \in Nat, F!Plain(t), NEW b \in 1 .. Len(t), t[b] = "["
  PROVE  \E r \in b + 1 .. Len(t) :
           /\ Even(t, b, r) /\ t[r] = "]"
           /\ \A k \in b + 1 .. r - 1 : ~Even(t, b, k)
           /\ F!skip_list(t, b + 1) = r + 1
<1> DEFINE open(k) == F!Count(t, b, k, "[")
           close(k) == F!Count(t, b, k, "]")
           Q == {k \in b .. Len(t) : open(k) <= close(k)}
<1>1. open(b) = 1 /\ close(b) = 0
  BY ListBegins
<1>2. \A k \in Nat : open(k) \in Nat /\ close(k) \in Nat
  BY CountIsNat
<1>3. ASSUME NEW k \in b .. Len(t)
      PROVE  /\ open(k + 1) = open(k) + IF t[k + 1] = "[" THEN 1 ELSE 0
             /\ close(k + 1) = close(k) + IF t[k + 1] = "]" THEN 1 ELSE 0
  <2>1. k \in Int /\ b \in Int /\ b <= k + 1
    OBVIOUS
  <2> QED BY <2>1, CountNext
<1>4. open(Len(t)) <= close(Len(t))
  <2>1. ASSUME NEW c
        PROVE  F!Count(t, 1, Len(t), c) =
                 F!Count(t, 1, b - 1, c) + F!Count(t, b, Len(t), c)
    <3> DEFINE m == b - 1
               from == 1
    <3>1. /\ m \in Int /\ from \in Int /\ Len(t) \in Int /\ b = m + 1
          /\ from <= m + 1 /\ m <= Len(t)
      OBVIOUS
    <3> HIDE DEF m, from
    <3>2. F!Count(t, from, Len(t), c) =
            F!Count(t, from, m, c) + F!Count(t, b, Len(t), c)
      BY <3>1, CountSplit
    <3> QED BY <3>2 DEF m, from
  <2>2. /\ F!Count(t, 1, b - 1, "[") - F!Count(t, 1, b - 1, "]") >= 0
        /\ F!Count(t, 1, Len(t), "[") - F!Count(t, 1, Len(t), "]") = 0
    BY DEF F!Plain
  <2>3. /\ F!Count(t, 1, b - 1, "[") \in Nat /\ F!Count(t, 1, b - 1, "]") \in Nat
        /\ F!Count(t, 1, Len(t), "[") \in Nat
        /\ F!Count(t, 1, Len(t), "]") \in Nat
    BY CountIsNat
  <2>4. /\ F!Count(t, 1, Len(t), "[") =
              F!Count(t, 1, b - 1, "[") + open(Len(t))
        /\ F!Count(t, 1, Len(t), "]") =
              F!Count(t, 1, b - 1, "]") + close(Len(t))
    BY <2>1
  <2>5. open(Len(t)) \in Nat /\ close(Len(t)) \in Nat
    BY <1>2
  <2> HIDE DEF open, close
  <2> QED BY <2>2, <2>3, <2>4, <2>5
<1> HIDE DEF open, close
<1>5. PICK r \in Q : \A k \in Q : r <= k
  <2>1. Q \in SUBSET Nat /\ Len(t) \in Q
    BY <1>4
  <2> HIDE DEF Q
  <2> QED BY <2>1, LeastNumber
<1>6. r \in b + 1 .. Len(t) /\ open(r) <= close(r)
  BY <1>1, <1>5
<1>7. ASSUME NEW k \in b .. r - 1 PROVE open(k) > close(k)
  <2>1. k \in b .. Len(t) /\ ~(r <= k) /\ k \in Nat
    BY <1>6
  <2>2. ~(open(k) <= close(k))
    BY <1>5, <2>1
  <2> QED BY <1>2, <2>1, <2>2
<1>8. open(r) = close(r) /\ t[r] = "]"
  <2> DEFINE k == r - 1
  <2>1. k \in b .. Len(t) /\ k + 1 = r /\ k \in b .. r - 1 /\ k \in Nat
        /\ r \in Nat
    BY <1>6
  <2> HIDE DEF k
  <2>2. /\ open(r) = open(k) + IF t[r] = "[" THEN 1 ELSE 0
        /\ close(r) = close(k) + IF t[r] = "]" THEN 1 ELSE 0
    BY <1>3, <2>1
  <2>3. open(k) > close(k) /\ open(k) \in Nat /\ close(k) \in Nat
    BY <1>2, <1>7, <2>1
  <2> QED BY <1>6, <2>2, <2>3
<1>9. Even(t, b, r) /\ \A k \in b + 1 .. r - 1 : ~Even(t, b, k)
  <2>1. ASSUME NEW k \in b + 1 .. r - 1 PROVE open(k) # close(k)
    <3>1. k \in b .. r - 1 /\ k \in Nat
      BY <1>6
    <3> QED BY <1>2, <1>7, <3>1
  <2> QED BY <1>8, <2>1 DEF Even, open, close
<1>10. F!skip_list(t, b + 1) = r + 1
  BY <1>6, <1>9, SkipIs
<1> QED BY <1>6, <1>8, <1>9, <1>10

-----------------------------------------------------------------------------
(* What parse_option finds in t from p on.                                 *)

BeginAt(t, p) == F!FindNot(t, p, F!End(t), F!whitespace)
EndlAt(t, p) == F!Find(t, BeginAt(t, p), F!End(t), {"n"})
HashAt(t, p) == F!Find(t, BeginAt(t, p), EndlAt(t, p), {"#"})
EndcAt(t, p) == F!TrimEnd(t, BeginAt(t, p), HashAt(t, p), F!whitespace)
EqAt(t, p) == F!Find(t, BeginAt(t, p), EndcAt(t, p), {"="})
NameEndAt(t, p) == F!TrimEnd(t, BeginAt(t, p), EqAt(t, p), F!spaceTab)
ValueAt(t, p) == F!FindNot(t, EqAt(t, p) + 1, EndcAt(t, p), F!spaceTab)
LastAt(t, p) == IF t[ValueAt(t, p)] = "[" THEN F!skip_list(t, ValueAt(t, p) + 1)
                ELSE EndlAt(t, p)

NoOption(t, p) ==
  \/ EqAt(t, p) = EndcAt(t, p) \/ EqAt(t, p) = BeginAt(t, p)
  \/ ValueAt(t, p) = EndlAt(t, p)
TornList(t, p) ==
  /\ t[ValueAt(t, p)] = "[" /\ LastAt(t, p) = F!End(t)
  /\ LastAt(t, p) = ValueAt(t, p) + 1

LEMMA OptionIs ==
  ASSUME NEW t, NEW p
  PROVE  /\ F!parse_option(t, p).end =
              IF NoOption(t, p) THEN EndlAt(t, p) ELSE LastAt(t, p)
         /\ F!parse_option(t, p).option =
              IF NoOption(t, p) \/ TornList(t, p) THEN {}
              ELSE {[name |-> F!to_string(t, BeginAt(t, p), NameEndAt(t, p)),
                     value |-> F!to_string(t, ValueAt(t, p), LastAt(t, p))]}
<1> DEFINE b == BeginAt(t, p)
           endl == EndlAt(t, p)
           eq == EqAt(t, p)
           begin_val == ValueAt(t, p)
           list == t[begin_val] = "["
           last == LastAt(t, p)
           none == [end |-> endl, option |-> {}]
           one == [name |-> F!to_string(t, b, NameEndAt(t, p)),
                   value |-> F!to_string(t, begin_val, last)]
<1>1. F!parse_option(t, p) =
        IF eq = EndcAt(t, p) \/ eq = b THEN none
        ELSE IF begin_val = endl THEN none
        ELSE IF list /\ last = F!End(t) /\ last = begin_val + 1
        THEN [none EXCEPT !.end = last]
        ELSE [end |-> last, option |-> {one}]
  BY Zenon DEF F!parse_option, BeginAt, EndlAt, HashAt, EndcAt, EqAt, NameEndAt,
     ValueAt, LastAt
<1>2. /\ [none EXCEPT !.end = last].end = last
      /\ [none EXCEPT !.end = last].option = {}
      /\ none.end = endl /\ none.option = {}
  OBVIOUS
<1>3. NoOption(t, p) <=> eq = EndcAt(t, p) \/ eq = b \/ begin_val = endl
  BY DEF NoOption
<1>4. TornList(t, p) <=> list /\ last = F!End(t) /\ last = begin_val + 1
  BY DEF TornList
<1> DEFINE ended == [none EXCEPT !.end = last]
<1> HIDE DEF b, endl, eq, begin_val, list, last, none, one, ended
<1>5. CASE NoOption(t, p)
  <2>1. F!parse_option(t, p) = none
    BY <1>1, <1>3, <1>5
  <2> QED BY <1>2, <1>5, <2>1 DEF endl
<1>6. CASE ~NoOption(t, p) /\ TornList(t, p)
  <2>1. F!parse_option(t, p) = ended
    BY <1>1, <1>3, <1>4, <1>6 DEF ended
  <2>2. ended.end = last /\ ended.option = {}
    BY <1>2 DEF ended
  <2> QED BY <1>6, <2>1, <2>2 DEF last
<1>7. CASE ~NoOption(t, p) /\ ~TornList(t, p)
  <2>1. F!parse_option(t, p) = [end |-> last, option |-> {one}]
    BY <1>1, <1>3, <1>4, <1>7
  <2>2. /\ F!parse_option(t, p).end = last
        /\ F!parse_option(t, p).option = {one}
    BY <2>1
  <2> QED BY <1>7, <2>2 DEF last, one, b, begin_val
<1> QED BY <1>5, <1>6, <1>7

LEMMA PartsAre ==
  ASSUME NEW t, Len(t) \in Nat, NEW p \in 1 .. Len(t) + 1
  PROVE  LET b == BeginAt(t, p)
             l == EndlAt(t, p)
             h == HashAt(t, p)
             c == EndcAt(t, p)
             e == EqAt(t, p)
             n == NameEndAt(t, p)
             v == ValueAt(t, p)
         IN /\ b \in p .. Len(t) + 1 /\ l \in b .. Len(t) + 1 /\ h \in b .. l
            /\ c \in b .. h /\ e \in b .. c /\ n \in b .. e
            /\ e < c => v \in e + 1 .. c
            /\ b = Len(t) + 1 \/ t[b] \notin F!whitespace
            /\ \A k \in b .. l - 1 : t[k] # "n"
            /\ h = l \/ t[h] = "#"
            /\ \A k \in b .. h - 1 : t[k] # "#"
            /\ \A k \in c .. h - 1 : t[k] \in F!whitespace
            /\ \A k \in b .. e - 1 : t[k] # "="
            /\ n = b \/ t[n - 1] \notin F!spaceTab
            /\ \A k \in n .. e - 1 : t[k] \in F!spaceTab
            /\ e < c => v = c \/ t[v] \notin F!spaceTab
<1> DEFINE b == BeginAt(t, p)
           l == EndlAt(t, p)
           h == HashAt(t, p)
           c == EndcAt(t, p)
           e == EqAt(t, p)
           n == NameEndAt(t, p)
           v == ValueAt(t, p)
           end == Len(t) + 1
<1>0. F!End(t) = end /\ end \in Nat /\ p \in Nat /\ p <= end
  BY DEF F!End
<1> HIDE DEF end
<1>1. b \in p .. end /\ (b = end \/ t[b] \notin F!whitespace)
  <2>1. b = F!FindNot(t, p, end, F!whitespace)
    BY <1>0 DEF BeginAt
  <2> HIDE DEF b
  <2> QED BY <1>0, <2>1, FoundNot
<1>2. l \in b .. end /\ \A k \in b .. l - 1 : t[k] # "n"
  <2>1. l = F!Find(t, b, end, {"n"}) /\ b \in Nat /\ b <= end
    BY <1>0, <1>1 DEF EndlAt
  <2> HIDE DEF b, l
  <2>2. l \in b .. end /\ \A k \in b .. l - 1 : t[k] \notin {"n"}
    BY <1>0, <2>1, Found
  <2> QED BY <2>2
<1>3. h \in b .. l /\ (h = l \/ t[h] = "#") /\ \A k \in b .. h - 1 : t[k] # "#"
  <2>1. h = F!Find(t, b, l, {"#"}) /\ b \in Nat /\ l \in Nat /\ b <= l
    BY <1>0, <1>1, <1>2 DEF HashAt
  <2> HIDE DEF b, l, h
  <2>2. /\ h \in b .. l /\ (h = l \/ t[h] \in {"#"})
        /\ \A k \in b .. h - 1 : t[k] \notin {"#"}
    BY <2>1, Found
  <2> QED BY <2>2
<1>4. c \in b .. h /\ \A k \in c .. h - 1 : t[k] \in F!whitespace
  <2>1. c = F!TrimEnd(t, b, h, F!whitespace) /\ b \in Nat /\ h \in Nat /\ b <= h
    BY <1>0, <1>1, <1>2, <1>3 DEF EndcAt
  <2> HIDE DEF b, c, h
  <2> QED BY <2>1, TrimEndIs
<1>5. e \in b .. c /\ \A k \in b .. e - 1 : t[k] # "="
  <2>1. e = F!Find(t, b, c, {"="}) /\ b \in Nat /\ c \in Nat /\ b <= c
    BY <1>0, <1>1, <1>2, <1>3, <1>4 DEF EqAt
  <2> HIDE DEF b, c, e
  <2>2. e \in b .. c /\ \A k \in b .. e - 1 : t[k] \notin {"="}
    BY <2>1, Found
  <2> QED BY <2>2
<1>6. n \in b .. e /\ (n = b \/ t[n - 1] \notin F!spaceTab)
      /\ \A k \in n .. e - 1 : t[k] \in F!spaceTab
  <2>1. n = F!TrimEnd(t, b, e, F!spaceTab) /\ b \in Nat /\ e \in Nat /\ b <= e
    BY <1>0, <1>1, <1>2, <1>3, <1>4, <1>5 DEF NameEndAt
  <2> HIDE DEF b, n, e
  <2>2. /\ n \in b .. e /\ (n = b \/ t[n - 1] \notin F!spaceTab)
        /\ \A k \in n .. e - 1 : t[k] \in F!spaceTab
    BY <2>1, TrimEndIs
  <2> QED BY <2>2 DEF F!spaceTab
<1>7. e < c => v \in e + 1 .. c /\ (v = c \/ t[v] \notin F!spaceTab)
  <2> SUFFICES ASSUME e < c PROVE v \in e + 1 .. c /\ (v = c \/ t[v] \notin F!spaceTab)
    OBVIOUS
  <2> DEFINE f == e + 1
  <2>1. v = F!FindNot(t, f, c, F!spaceTab) /\ f \in Nat /\ c \in Nat
        /\ f <= c
    BY <1>0, <1>1, <1>2, <1>3, <1>4, <1>5 DEF ValueAt
  <2> HIDE DEF v, c, e, f
  <2>2. v \in f .. c /\ (v = c \/ t[v] \notin F!spaceTab)
    BY <2>1, FoundNot
  <2> QED BY <2>2 DEF F!spaceTab, f
<1> HIDE DEF b, l, h, c, e, n, v
<1> QED BY <1>1, <1>2, <1>3, <1>4, <1>5, <1>6, <1>7
        DEF end, b, l, h, c, e, n, v

LEMMA SkipRange ==
  ASSUME NEW t, Len(t) \in Nat, NEW b \in 1 .. Len(t)
  PROVE  F!skip_list(t, b + 1) \in b + 1 .. Len(t) + 1
<1> DEFINE closes(k) ==
             F!Count(t, b + 1, k, "]") = F!Count(t, b + 1, k, "[") + 1
           J == {j \in b + 1 .. Len(t) : closes(j)}
           Q == {k + 1 : k \in J} \cup {Len(t) + 1}
<1>1. F!skip_list(t, b + 1) = F!Min(Q)
  BY DEF F!skip_list, F!End
<1> HIDE DEF closes
<1>2. Q \in SUBSET Nat /\ Q # {} /\ Q \subseteq b + 1 .. Len(t) + 1
  OBVIOUS
<1> HIDE DEF Q
<1>3. F!Min(Q) \in Q
  BY <1>2, LeastOf
<1> QED BY <1>1, <1>2, <1>3

LEMMA OptionRange ==
  ASSUME NEW t, Len(t) \in Nat, NEW p \in 1 .. Len(t) + 1
  PROVE  /\ F!parse_option(t, p).end \in p .. Len(t) + 1
         /\ IsFiniteSet(F!parse_option(t, p).option)
         /\ \A o, q \in F!parse_option(t, p).option : o = q
<1> DEFINE b == BeginAt(t, p)
           l == EndlAt(t, p)
           h == HashAt(t, p)
           c == EndcAt(t, p)
           e == EqAt(t, p)
           v == ValueAt(t, p)
<1>1. /\ b \in p .. Len(t) + 1 /\ l \in b .. Len(t) + 1 /\ h \in b .. l
      /\ c \in b .. h /\ e \in b .. c /\ (e < c => v \in e + 1 .. c)
  BY PartsAre
<1>2. ASSUME ~NoOption(t, p) PROVE LastAt(t, p) \in p .. Len(t) + 1
  <2>1. e # c /\ v # l
    BY <1>2 DEF NoOption
  <2> HIDE DEF b, l, h, c, e, v
  <2>2. v \in 1 .. Len(t) /\ p <= v /\ l \in p .. Len(t) + 1
    BY <1>1, <2>1
  <2>3. F!skip_list(t, v + 1) \in v + 1 .. Len(t) + 1
    BY <2>2, SkipRange
  <2>4. LastAt(t, p) \in {l, F!skip_list(t, v + 1)}
    BY DEF LastAt, l, v
  <2> QED BY <2>2, <2>3, <2>4
<1>3. F!parse_option(t, p).end \in p .. Len(t) + 1
  <2>1. EndlAt(t, p) \in p .. Len(t) + 1
    BY <1>1
  <2> QED BY <1>2, <2>1, OptionIs
<1>4. \E x : F!parse_option(t, p).option \in {{}, {x}}
  BY OptionIs
<1>5. PICK x : F!parse_option(t, p).option \in {{}, {x}}
  BY <1>4
<1> DEFINE P == F!parse_option(t, p).option
<1>6. IsFiniteSet(P) /\ \A o, q \in P : o = q
  <2>1. P = {} \/ P = {x}
    BY <1>5
  <2> HIDE DEF P
  <2>2. IsFiniteSet({}) /\ IsFiniteSet({x})
    BY FS_EmptySet, FS_Singleton
  <2> QED BY <2>1, <2>2
<1> QED BY <1>3, <1>6

-----------------------------------------------------------------------------
(* What is read can be written.                                            *)

Chars == {"x", "y", "=", " ", "#", "[", "]", "n"}

LEMMA Blanks ==
  /\ \A x : x \in F!whitespace <=> x \in F!spaceTab \/ x = "n"
  /\ "[" \notin F!whitespace /\ "#" \notin F!whitespace
BY Zenon DEF F!whitespace, F!spaceTab

NameReads(a) ==
  /\ a \in Seq(Chars) /\ Len(a) >= 1
  /\ a[1] \notin F!whitespace /\ a[Len(a)] \notin F!spaceTab
  /\ \A k \in 1 .. Len(a) : a[k] \notin {"n", "#", "="}

ValueReads(v) ==
  /\ v \in Seq(Chars) /\ Len(v) >= 1
  /\ v[1] \notin F!whitespace
  /\ \A k \in 1 .. Len(v) : v[k] # "#"
  /\ v[1] = "[" => /\ Len(v) >= 2 /\ Even(v, 1, Len(v))
                   /\ \A k \in 2 .. Len(v) - 1 : ~Even(v, 1, k)
  /\ v[1] # "[" => \A k \in 1 .. Len(v) : v[k] # "n"

Writable(o) ==
  /\ o = [name |-> o.name, value |-> o.value]
  /\ NameReads(o.name) /\ ValueReads(o.value)

LEMMA CommentedFrom ==
  ASSUME NEW t, NEW from \in Nat, NEW k \in Nat, from <= k, t[k] = "#"
  PROVE  F!Commented(t, from, k)
BY DEF F!Commented

LEMMA CommentsGrow ==
  ASSUME NEW t, NEW from \in Nat, NEW k \in Nat, 1 <= from,
         F!Commented(t, from, k)
  PROVE  F!Commented(t, 1, k)
<1>1. PICK j \in from .. k : t[j] = "#" /\ \A i \in j .. k : t[i] # "n"
  BY DEF F!Commented
<1>2. j \in 1 .. k
  BY <1>1
<1> QED BY <1>1, <1>2 DEF F!Commented

LEMMA CountGrows ==
  ASSUME NEW t, NEW c, NEW m \in Nat, NEW to \in Nat, m <= to
  PROVE  F!Count(t, 1, m, c) <= F!Count(t, 1, to, c)
<1> DEFINE b == m + 1
           from == 1
<1>1. /\ b = m + 1 /\ from \in Int /\ m \in Int /\ to \in Int
      /\ from <= m + 1 /\ b \in Int
  OBVIOUS
<1> HIDE DEF b, from
<1>2. F!Count(t, from, to, c) = F!Count(t, from, m, c) + F!Count(t, b, to, c)
  BY <1>1, CountSplit
<1>3. F!Count(t, from, m, c) \in Nat /\ F!Count(t, b, to, c) \in Nat
  BY <1>1, CountIsNat
<1> QED BY <1>2, <1>3 DEF from

LEMMA PartsOrder ==
  ASSUME NEW t, Len(t) \in Nat, NEW p \in 1 .. Len(t) + 1
  PROVE  LET b == BeginAt(t, p)
             l == EndlAt(t, p)
             h == HashAt(t, p)
             c == EndcAt(t, p)
             e == EqAt(t, p)
             n == NameEndAt(t, p)
             v == ValueAt(t, p)
         IN /\ b \in Nat /\ l \in Nat /\ h \in Nat /\ c \in Nat /\ e \in Nat
            /\ n \in Nat /\ 1 <= b /\ p <= b /\ l <= Len(t) + 1 /\ h <= l /\ c <= h
            /\ e <= c /\ b <= e /\ n <= e /\ b <= n
            /\ e < c => v \in Nat /\ e + 1 <= v /\ v <= c
<1> DEFINE b == BeginAt(t, p)
           l == EndlAt(t, p)
           h == HashAt(t, p)
           c == EndcAt(t, p)
           e == EqAt(t, p)
           n == NameEndAt(t, p)
           v == ValueAt(t, p)
           end == Len(t) + 1
<1>1. /\ b \in p .. end /\ l \in b .. end /\ h \in b .. l
      /\ c \in b .. h /\ e \in b .. c /\ n \in b .. e
      /\ e < c => v \in e + 1 .. c
  BY PartsAre
<1>2. end \in Nat /\ p \in Nat /\ 1 <= p
  OBVIOUS
<1> HIDE DEF b, l, h, c, e, n, v, end
<1>3. b \in Nat /\ l \in Nat /\ h \in Nat /\ c \in Nat /\ e \in Nat /\ n \in Nat
  BY <1>1, <1>2
<1>4. /\ 1 <= b /\ p <= b /\ l <= end /\ h <= l /\ c <= h
      /\ e <= c /\ b <= e /\ n <= e /\ b <= n
      /\ e < c => v \in Nat /\ e + 1 <= v /\ v <= c
  BY <1>1, <1>2, <1>3
<1> QED BY <1>3, <1>4 DEF b, l, h, c, e, n, v, end

LEMMA ReadName ==
  ASSUME NEW t \in Seq(Chars), NEW p \in 1 .. Len(t) + 1, ~NoOption(t, p)
  PROVE  NameReads(F!to_string(t, BeginAt(t, p), NameEndAt(t, p)))
<1> DEFINE b == BeginAt(t, p)
           l == EndlAt(t, p)
           h == HashAt(t, p)
           c == EndcAt(t, p)
           e == EqAt(t, p)
           n == NameEndAt(t, p)
           s == F!to_string(t, b, n)
<1>0. Len(t) \in Nat
  OBVIOUS
<1>1. /\ b \in p .. Len(t) + 1 /\ l \in b .. Len(t) + 1 /\ h \in b .. l
      /\ c \in b .. h /\ e \in b .. c /\ n \in b .. e
      /\ b = Len(t) + 1 \/ t[b] \notin F!whitespace
      /\ \A k \in b .. l - 1 : t[k] # "n"
      /\ \A k \in b .. h - 1 : t[k] # "#"
      /\ \A k \in b .. e - 1 : t[k] # "="
      /\ n = b \/ t[n - 1] \notin F!spaceTab
      /\ \A k \in n .. e - 1 : t[k] \in F!spaceTab
  BY <1>0, PartsAre
<1>1a. /\ b \in Nat /\ l \in Nat /\ h \in Nat /\ c \in Nat /\ e \in Nat
       /\ n \in Nat /\ 1 <= b /\ l <= Len(t) + 1 /\ h <= l /\ c <= h
       /\ e <= c /\ b <= e /\ n <= e /\ b <= n
  BY <1>0, PartsOrder
<1>2. e # c /\ e # b
  BY DEF NoOption
<1> HIDE DEF b, l, h, c, e, n
<1>2a. /\ b \in Nat /\ l \in Nat /\ h \in Nat /\ c \in Nat /\ e \in Nat
       /\ n \in Nat /\ 1 <= b /\ l <= Len(t) + 1 /\ h <= l /\ c <= h /\ e < c
       /\ b < e /\ n <= e /\ b <= n
  BY <1>1a, <1>2
<1>3. b \in 1 .. Len(t) /\ t[b] \notin F!whitespace /\ b < e
  <2>1. b < Len(t) + 1
    BY <1>0, <1>2a
  <2>2. b \in 1 .. Len(t) /\ b # Len(t) + 1
    BY <1>0, <1>2a, <2>1
  <2> QED BY <1>1, <1>2a, <2>2
<1>4. n # b
  <2> SUFFICES ASSUME n = b PROVE FALSE
    OBVIOUS
  <2>1. b \in n .. e - 1
    BY <1>2a
  <2>2. t[b] \in F!spaceTab
    BY <1>1, <2>1
  <2> QED BY <1>3, <2>2, Blanks
<1>5. n \in b .. Len(t) + 1 /\ b < n /\ b \in 1 .. Len(t) + 1
  BY <1>0, <1>2a, <1>4
<1>6. \A k \in b .. n - 1 : t[k] \notin {"n", "#", "="}
  <2> SUFFICES ASSUME NEW k \in b .. n - 1 PROVE t[k] \notin {"n", "#", "="}
    OBVIOUS
  <2>1. k \in b .. l - 1 /\ k \in b .. h - 1 /\ k \in b .. e - 1
    BY <1>2a
  <2> QED BY <1>1, <2>1
<1>7. s = SubSeq(t, b, n - 1)
  <2>1. \A k \in b .. n - 1 : t[k] # "#"
    BY <1>6
  <2> QED BY <1>5, <2>1, StringWhole
<1>8. /\ s \in Seq(Chars) /\ Len(s) = n - b
      /\ \A k \in 1 .. Len(s) : s[k] = t[b + k - 1]
  BY <1>0, <1>5, <1>7
<1>9. s[1] = t[b] /\ s[Len(s)] = t[n - 1]
  BY <1>3, <1>5, <1>8
<1>10. \A k \in 1 .. Len(s) : s[k] \notin {"n", "#", "="}
  BY <1>3, <1>5, <1>6, <1>8
<1>11. NameReads(s)
  <2> HIDE DEF s
  <2>1. Len(s) >= 1
    BY <1>2a, <1>4, <1>8
  <2>2. t[n - 1] \notin F!spaceTab
    BY <1>1, <1>4
  <2> QED BY <1>3, <1>8, <1>9, <1>10, <2>1, <2>2 DEF NameReads
<1> QED BY <1>11 DEF b, n

LEMMA ReadValue ==
  ASSUME NEW t \in Seq(Chars), F!Plain(t), NEW p \in 1 .. Len(t) + 1,
         ~NoOption(t, p), NEW s,
         s = F!to_string(t, ValueAt(t, p), LastAt(t, p)), ~F!Blank(s)
  PROVE  ValueReads(s)
<1> DEFINE b == BeginAt(t, p)
           l == EndlAt(t, p)
           h == HashAt(t, p)
           c == EndcAt(t, p)
           e == EqAt(t, p)
           v == ValueAt(t, p)
           last == LastAt(t, p)
<1>0. Len(t) \in Nat
  OBVIOUS
<1>1. /\ b \in p .. Len(t) + 1 /\ l \in b .. Len(t) + 1 /\ h \in b .. l
      /\ c \in b .. h /\ e \in b .. c /\ (e < c => v \in e + 1 .. c)
      /\ \A k \in b .. l - 1 : t[k] # "n"
      /\ h = l \/ t[h] = "#"
      /\ \A k \in b .. h - 1 : t[k] # "#"
      /\ \A k \in c .. h - 1 : t[k] \in F!whitespace
      /\ e < c => v = c \/ t[v] \notin F!spaceTab
  BY <1>0, PartsAre
<1>1a. /\ b \in Nat /\ l \in Nat /\ h \in Nat /\ c \in Nat /\ e \in Nat
       /\ 1 <= b /\ l <= Len(t) + 1 /\ h <= l /\ c <= h
       /\ e <= c /\ b <= e /\ (e < c => v \in Nat /\ e + 1 <= v /\ v <= c)
  BY <1>0, PartsOrder
<1>2. e # c /\ v # l
  BY DEF NoOption
<1>3. last = IF t[v] = "[" THEN F!skip_list(t, v + 1) ELSE l
  BY DEF LastAt
<1> HIDE DEF b, l, h, c, e, v, last
<1>4. v \in 1 .. Len(t) /\ v \in b + 1 .. c /\ v < l /\ l \in v .. Len(t) + 1
  <2>1. e < c
    BY <1>1a, <1>2
  <2> QED BY <1>0, <1>1a, <1>2, <2>1
<1>5. v \in Nat /\ l \in Nat /\ v \in 1 .. Len(t) + 1 /\ 1 <= v
  BY <1>4
<1>6. s = F!to_string(t, v, last)
  BY DEF v, last
<1>7. v # c
  <2> SUFFICES ASSUME v = c PROVE FALSE
    OBVIOUS
  <2>1. t[v] # "["
    <3>1. CASE v = h
      BY <1>1, <1>4, <3>1
    <3>2. CASE v # h
      <4>1. v \in c .. h - 1
        BY <1>1, <1>4, <3>2
      <4> QED BY <1>1, <4>1 DEF F!whitespace
    <3> QED BY <3>1, <3>2
  <2>2. s = F!to_string(t, v, l)
    BY <1>3, <1>6, <2>1
  <2> DEFINE K == {i \in v .. l - 1 : ~F!Commented(t, v, i)}
             U == {t[k] : k \in K}
  <2>3. s \in Seq(U)
    BY <1>4, <1>5, <2>2, StringHolds
  <2>4. \A k \in K : t[k] \in F!whitespace
    <3> SUFFICES ASSUME NEW k \in v .. l - 1, ~F!Commented(t, v, k)
                 PROVE  t[k] \in F!whitespace
      OBVIOUS
    <3>1. CASE k < h
      BY <1>1, <1>4, <3>1
    <3>2. CASE h <= k
      <4>1. h \in v .. k /\ t[h] = "#"
        BY <1>1, <1>4, <3>2
      <4>2. \A i \in h .. k : t[i] # "n"
        BY <1>1, <1>4
      <4> QED BY <4>1, <4>2 DEF F!Commented
    <3> QED BY <1>1, <1>4, <3>1, <3>2
  <2> HIDE DEF K
  <2>5. U \subseteq F!whitespace
    BY <2>4
  <2> HIDE DEF U
  <2>6. \A k \in DOMAIN s : s[k] \in F!whitespace
    BY <2>3, <2>5
  <2> QED BY <2>6 DEF F!Blank
<1>8. t[v] \notin F!whitespace \cup {"#"} /\ v < h
  <2>1. /\ b \in Nat /\ c \in Nat /\ h \in Nat /\ l \in Nat /\ e \in Nat
        /\ v \in Nat /\ b <= v /\ v < c /\ c <= h /\ h <= l /\ e < c
    BY <1>1a, <1>2, <1>4, <1>7
  <2>2. v \in b .. l - 1 /\ v \in b .. h - 1 /\ v < h
    BY <2>1
  <2> QED BY <1>1, <1>7, <2>1, <2>2, Blanks
<1>9. ASSUME t[v] # "[" PROVE ValueReads(s)
  <2>1. s = F!to_string(t, v, l)
    BY <1>3, <1>6, <1>9
  <2> DEFINE K == {i \in v .. l - 1 : ~F!Commented(t, v, i)}
             U == {t[k] : k \in K}
  <2>2. s \in Seq(U) /\ s \in Seq(Chars)
    BY <1>4, <1>5, <2>1, StringHolds
  <2>3. \A k \in K : t[k] \notin {"#", "n"}
    <3> SUFFICES ASSUME NEW k \in v .. l - 1, ~F!Commented(t, v, k)
                 PROVE  t[k] \notin {"#", "n"}
      OBVIOUS
    <3>1. k \in Nat /\ v <= k /\ k \in b .. l - 1
      BY <1>1a, <1>4, <1>5
    <3> QED BY <1>1, <1>5, <3>1, CommentedFrom
  <2> HIDE DEF K
  <2>4. \A x \in U : x \notin {"#", "n"}
    BY <2>3
  <2> HIDE DEF U
  <2>5. \A k \in 1 .. Len(s) : s[k] \notin {"#", "n"}
    BY <2>2, <2>4
  <2>6. Len(s) >= 1 /\ s[1] = t[v]
    <3>1. l \in v + 1 .. Len(t) + 1
      BY <1>4
    <3> QED BY <1>4, <1>8, <2>1, <3>1, StringFirst
  <2> QED BY <1>8, <1>9, <2>2, <2>5, <2>6 DEF ValueReads
<1>10. ASSUME t[v] = "[" PROVE ValueReads(s)
  <2>1. PICK r \in v + 1 .. Len(t) :
           /\ Even(t, v, r) /\ t[r] = "]"
           /\ \A k \in v + 1 .. r - 1 : ~Even(t, v, k)
           /\ F!skip_list(t, v + 1) = r + 1
    BY <1>0, <1>4, <1>10, ListCloses
  <2> DEFINE Kinds == {"[", "]"}
             to == r + 1
             m == Len(s)
  <2>2. /\ to \in v .. Len(t) + 1 /\ to \in v + 1 .. Len(t) + 1 /\ r \in Nat
        /\ r \in v .. Len(t) + 1 /\ v <= r /\ to - 1 = r
    BY <1>0, <1>4, <2>1
  <2>3. s = F!to_string(t, v, to)
    BY <1>3, <1>6, <1>10, <2>1
  <2>4. \A k \in v .. to - 1 : F!Commented(t, v, k) => t[k] \notin Kinds
    <3> SUFFICES ASSUME NEW k \in v .. to - 1, F!Commented(t, v, k)
                 PROVE  t[k] \notin Kinds
      OBVIOUS
    <3>1. k \in Nat /\ k \in 1 .. Len(t)
      BY <1>0, <1>4, <2>2
    <3>2. F!Commented(t, 1, k)
      BY <1>5, <3>1, CommentsGrow
    <3> QED BY <3>1, <3>2 DEF F!Plain
  <2> HIDE DEF Kinds, to
  <2>5. /\ s \in Seq(Chars)
        /\ s \in Seq({t[k] : k \in {i \in v .. to - 1 : ~F!Commented(t, v, i)}})
    BY <1>5, <2>2, <2>3, StringHolds
  <2>6. /\ \A x \in Kinds : F!Count(s, 1, Len(s), x) = F!Count(t, v, to - 1, x)
        /\ \A j \in 1 .. Len(s) : \E i \in v .. to - 1 : \A x \in Kinds :
             F!Count(s, 1, j, x) = F!Count(t, v, i, x)
    BY <1>5, <2>2, <2>3, <2>4, StringCounts
  <2>7. m \in Nat /\ "[" \in Kinds /\ "]" \in Kinds
    BY <2>5 DEF Kinds
  <2>8. Len(s) >= 1 /\ s[1] = "["
    BY <1>4, <1>8, <1>10, <2>2, <2>3, StringFirst
  <2>9. Even(s, 1, m)
    BY <2>1, <2>2, <2>6, <2>7 DEF Even
  <2>10. s[m] = "]"
    <3>1. ~F!Commented(t, v, r)
      BY <2>1, <2>2, <2>4, <2>7
    <3>2. s = Append(F!to_string(t, v, r), t[r])
      <4>1. to = r + 1
        BY DEF to
      <4> QED BY <1>5, <2>2, <2>3, <3>1, <4>1, StringNext
    <3>3. F!to_string(t, v, r) \in Seq(Chars) /\ t[r] \in Chars
      <4>1. F!to_string(t, v, r) \in Seq(Chars)
        BY <1>5, <2>2, StringHolds
      <4> QED BY <1>0, <1>4, <2>1, <4>1
    <3> DEFINE a == F!to_string(t, v, r)
    <3> HIDE DEF a
    <3>4. Len(s) = Len(a) + 1 /\ s[Len(a) + 1] = t[r]
      BY <3>2, <3>3, Appended DEF a
    <3> QED BY <2>1, <3>4
  <2>11. m >= 2
    <3>1. m # 1
      BY <2>8, <2>10
    <3> HIDE DEF m
    <3>2. m >= 1
      BY <2>8 DEF m
    <3> QED BY <2>7, <3>1, <3>2
  <2>12. ASSUME NEW j \in 2 .. m - 1 PROVE ~Even(s, 1, j)
    <3>1. j \in 1 .. Len(s) /\ j \in Nat /\ j <= m - 1 /\ m - 1 \in Nat
      BY <2>7
    <3>2. PICK i \in v .. to - 1 : \A x \in Kinds :
             F!Count(s, 1, j, x) = F!Count(t, v, i, x)
      BY <2>6, <3>1
    <3>3. Even(s, 1, j) <=> Even(t, v, i)
      BY <2>7, <3>2 DEF Even
    <3>4. CASE i = v
      <4>1. F!Count(t, v, v, "[") = 1 /\ F!Count(t, v, v, "]") = 0
        BY <1>5, <1>10, ListBegins
      <4> QED BY <3>3, <3>4, <4>1 DEF Even
    <3>5. CASE i # v /\ i # r
      <4>1. i \in v + 1 .. r - 1
        <5>1. i \in Nat /\ v <= i /\ i <= to - 1
          BY <1>5, <2>2
        <5> QED BY <1>5, <2>2, <3>5, <5>1
      <4> QED BY <2>1, <3>3, <4>1
    <3>6. CASE i = r
      <4>1. F!Count(s, 1, j, "]") = F!Count(s, 1, m, "]")
        BY <2>2, <2>6, <2>7, <3>2, <3>6
      <4>2. F!Count(s, 1, j, "]") <= F!Count(s, 1, m - 1, "]")
        BY <3>1, CountGrows
      <4>3. F!Count(s, 1, (m - 1) + 1, "]") =
              F!Count(s, 1, m - 1, "]") + IF s[(m - 1) + 1] = "]" THEN 1 ELSE 0
        <5> DEFINE q == m - 1
        <5>1. q \in Int /\ 1 \in Int /\ 1 <= q + 1
          BY <3>1
        <5> HIDE DEF q
        <5>2. F!Count(s, 1, q + 1, "]") =
                F!Count(s, 1, q, "]") + IF s[q + 1] = "]" THEN 1 ELSE 0
          BY <5>1, CountNext
        <5> QED BY <5>2 DEF q
      <4>4. (m - 1) + 1 = m
        BY <2>7
      <4>5. /\ F!Count(s, 1, m - 1, "]") \in Nat
            /\ F!Count(s, 1, m, "]") \in Nat /\ F!Count(s, 1, j, "]") \in Nat
        BY <2>7, <3>1, CountIsNat
      <4>6. F!Count(s, 1, m, "]") = F!Count(s, 1, m - 1, "]") + 1
        BY <2>10, <4>3, <4>4
      <4> HIDE DEF m
      <4> QED BY <4>1, <4>2, <4>5, <4>6
    <3> QED BY <3>4, <3>5, <3>6
  <2>13. \A k \in 1 .. Len(s) : s[k] # "#"
    <3> DEFINE K == {i \in v .. to - 1 : ~F!Commented(t, v, i)}
               U == {t[k] : k \in K}
    <3>1. \A k \in K : t[k] # "#"
      BY <1>5, <2>2, CommentedFrom
    <3> HIDE DEF K
    <3>2. "#" \notin U
      BY <3>1
    <3>3. s \in Seq(U)
      BY <2>5 DEF K
    <3> HIDE DEF U
    <3> QED BY <3>2, <3>3
  <2> QED BY <2>5, <2>8, <2>9, <2>11, <2>12, <2>13, Blanks DEF ValueReads
<1> QED BY <1>9, <1>10

(* An option that is read is of a name and a value that can be written.    *)
LEMMA ReadOption ==
  ASSUME NEW t \in Seq(Chars), F!Plain(t), NEW p \in 1 .. Len(t) + 1,
         NEW o \in F!parse_option(t, p).option, ~F!Blank(o.value)
  PROVE  Writable(o)
<1>1. /\ ~NoOption(t, p)
      /\ o = [name |-> F!to_string(t, BeginAt(t, p), NameEndAt(t, p)),
              value |-> F!to_string(t, ValueAt(t, p), LastAt(t, p))]
  <2>1. F!parse_option(t, p).option # {}
    OBVIOUS
  <2> QED BY <2>1, OptionIs
<1> DEFINE a == F!to_string(t, BeginAt(t, p), NameEndAt(t, p))
           v == F!to_string(t, ValueAt(t, p), LastAt(t, p))
<1>2. NameReads(a)
  BY <1>1, ReadName
<1> HIDE DEF a, v
<1>3. o = [name |-> a, value |-> v]
  BY <1>1 DEF a, v
<1>4. o.name = a /\ o.value = v
  BY <1>3
<1>5. v = F!to_string(t, ValueAt(t, p), LastAt(t, p)) /\ ~F!Blank(v)
  BY <1>4 DEF v
<1>6. ValueReads(v)
  BY <1>1, <1>5, ReadValue
<1> QED BY <1>2, <1>3, <1>4, <1>6 DEF Writable

-----------------------------------------------------------------------------
(* The options of a text.                                                  *)

ConfigFrom(t) ==
  LET from[pos \in 1 .. F!End(t) + 1] ==
        IF pos >= F!End(t) THEN {}
        ELSE LET p == F!parse_option(t, pos)
                 rest == from[p.end + 1]
             IN p.option \cup {o \in rest : \A q \in p.option :
                                               o.name # q.name}
  IN from

LEMMA ConfigStep ==
  ASSUME NEW t, Len(t) \in Nat
  PROVE  /\ F!parse_config(t) = ConfigFrom(t)[1]
         /\ ConfigFrom(t)[Len(t) + 1] = {}
         /\ ConfigFrom(t)[Len(t) + 2] = {}
         /\ \A k \in 1 .. Len(t) :
              ConfigFrom(t)[k] =
                F!parse_option(t, k).option
                  \cup {o \in ConfigFrom(t)[F!parse_option(t, k).end + 1] :
                          \A q \in F!parse_option(t, k).option :
                            o.name # q.name}
<1> DEFINE end == Len(t) + 1
           top == end + 1
           After(k) == F!parse_option(t, k).end + 1
           Step(s, k) == F!parse_option(t, k).option
                           \cup {o \in s : \A q \in F!parse_option(t, k).option :
                                             o.name # q.name}
           Term(g, k) == IF k >= end THEN {} ELSE Step(g[After(k)], k)
           Reads(g, m) == g = [k \in m .. top |-> Term(g, k)]
           Good == {n \in 0 .. end : \E g : Reads(g, top - n)}
<1>0. /\ end \in Nat /\ top \in Nat /\ top = end + 1 /\ 1 <= end /\ end = Len(t) + 1
      /\ top = Len(t) + 2 /\ F!End(t) = end
  BY DEF F!End
<1>1. \A k \in 1 .. Len(t) : After(k) \in k + 1 .. top
  <2> SUFFICES ASSUME NEW k \in 1 .. Len(t) PROVE After(k) \in k + 1 .. top
    OBVIOUS
  <2>1. k \in 1 .. Len(t) + 1
    OBVIOUS
  <2>2. F!parse_option(t, k).end \in k .. Len(t) + 1
    BY <2>1, OptionRange
  <2> QED BY <2>2
<1> HIDE DEF Step, After, end, top
<1>2. 0 \in Good
  <2> DEFINE g == [k \in top .. top |-> {}]
  <2>1. g = [k \in top .. top |-> Term(g, k)]
    BY <1>0
  <2> HIDE DEF g, Term
  <2>2. \E h : Reads(h, top - 0)
    <3>1. top - 0 = top
      BY <1>0
    <3> QED BY <2>1, <3>1
  <2> HIDE DEF Reads
  <2> QED BY <1>0, <2>2
<1>3. ASSUME NEW n \in 0 .. end, n < end, n \in Good PROVE n + 1 \in Good
  <2> DEFINE m == top - n
             d == m - 1
  <2>0. m \in Nat /\ d \in Nat /\ 1 <= d /\ d + 1 = m /\ m <= top
        /\ top - (n + 1) = d
    BY <1>0, <1>3
  <2>1. PICK g : g = [k \in m .. top |-> Term(g, k)]
    BY <1>3
  <2> HIDE DEF m, d
  <2> DEFINE h == [k \in d .. top |-> IF k >= m THEN g[k] ELSE Term(g, k)]
  <2>2. \A k \in d .. top : h[k] = Term(h, k)
    <3> SUFFICES ASSUME NEW k \in d .. top PROVE h[k] = Term(h, k)
      OBVIOUS
    <3>1. k < end => h[After(k)] = g[After(k)]
      <4> SUFFICES ASSUME k < end PROVE h[After(k)] = g[After(k)]
        OBVIOUS
      <4>1. k \in 1 .. Len(t)
        BY <1>0, <2>0
      <4>2. After(k) \in k + 1 .. top
        BY <1>1, <4>1
      <4>3. After(k) \in d .. top /\ After(k) >= m
        BY <1>0, <2>0, <4>2
      <4> QED BY <4>3
    <3>2. Term(h, k) = Term(g, k)
      BY <1>0, <2>0, <3>1
    <3>3. ASSUME k >= m PROVE g[k] = Term(g, k)
      <4>1. k \in m .. top
        BY <2>0, <3>3
      <4> HIDE DEF Term
      <4> QED BY <2>1, <4>1
    <3> HIDE DEF Term
    <3> QED BY <3>2, <3>3
  <2>3. h = [k \in d .. top |-> Term(h, k)]
    <3> HIDE DEF Term
    <3> QED BY <2>2
  <2> HIDE DEF h, Term
  <2>4. \E f : Reads(f, top - (n + 1))
    BY <2>0, <2>3
  <2> HIDE DEF Reads
  <2>5. n + 1 \in 0 .. end
    BY <1>0, <1>3
  <2> QED BY <2>4, <2>5
<1>4. PICK g : Reads(g, 1)
  <2>1. end \in Nat /\ top - end = 1
    BY <1>0
  <2> HIDE DEF Good, Reads
  <2>2. 0 .. end \subseteq Good
    BY <1>2, <1>3, <2>1, CountUp
  <2>3. end \in Good
    BY <2>1, <2>2
  <2>4. \E g : Reads(g, top - end)
    BY <2>3 DEF Good
  <2> QED BY <2>1, <2>4
<1> DEFINE u == ConfigFrom(t)
<1>5. Reads(u, 1)
  <2>1. u = CHOOSE h : h = [k \in 1 .. F!End(t) + 1 |->
                              IF k >= F!End(t) THEN {} ELSE Step(h[After(k)], k)]
    BY Zenon DEF ConfigFrom, Step, After
  <2>2. u = CHOOSE h : Reads(h, 1)
    BY <1>0, <2>1
  <2> HIDE DEF Reads, u
  <2> QED BY <1>4, <2>2
<1>6. F!parse_config(t) = u[1]
  BY Zenon DEF F!parse_config, ConfigFrom
<1>7. \A k \in 1 .. top : u[k] = Term(u, k)
  <2> HIDE DEF Term, u
  <2>1. u = [k \in 1 .. top |-> Term(u, k)]
    BY <1>5 DEF u
  <2> QED BY <2>1
<1> HIDE DEF u
<1>8. u[end] = {} /\ u[top] = {}
  BY <1>0, <1>7
<1>9. ASSUME NEW k \in 1 .. Len(t) PROVE u[k] = Step(u[After(k)], k)
  <2>1. k \in 1 .. top /\ ~(k >= end)
    BY <1>0
  <2> QED BY <1>7, <2>1
<1> QED BY <1>0, <1>6, <1>8, <1>9 DEF u, Step, After

(* The options are read one by one, and each name once.                    *)
LEMMA ConfigHolds ==
  ASSUME NEW t, Len(t) \in Nat
  PROVE  /\ IsFiniteSet(F!parse_config(t))
         /\ \A o, q \in F!parse_config(t) : o.name = q.name => o = q
         /\ \A o \in F!parse_config(t) :
              \E p \in 1 .. Len(t) : o \in F!parse_option(t, p).option
<1> DEFINE u == ConfigFrom(t)
           top == Len(t) + 2
           Fine(s) == /\ IsFiniteSet(s)
                      /\ \A o, q \in s : o.name = q.name => o = q
                      /\ \A o \in s : \E p \in 1 .. Len(t) :
                                        o \in F!parse_option(t, p).option
           Q == {n \in 0 .. Len(t) + 1 : \A k \in top - n .. top : Fine(u[k])}
<1>1. Fine({})
  BY FS_EmptySet
<1>2. u[Len(t) + 1] = {} /\ u[Len(t) + 2] = {}
  BY ConfigStep
<1>3. 0 \in Q
  <2>1. \A k \in top - 0 .. top : k = Len(t) + 2
    OBVIOUS
  <2> HIDE DEF Fine, u
  <2>2. \A k \in top - 0 .. top : Fine(u[k])
    <3> SUFFICES ASSUME NEW k \in top - 0 .. top PROVE Fine(u[k])
      OBVIOUS
    <3>1. k = Len(t) + 2
      BY <2>1
    <3> QED BY <1>1, <1>2, <3>1
  <2>3. 0 \in 0 .. Len(t) + 1
    OBVIOUS
  <2> HIDE DEF top
  <2> QED BY <2>2, <2>3
<1>4. ASSUME NEW k \in 1 .. Len(t), Fine(u[F!parse_option(t, k).end + 1])
      PROVE  Fine(u[k])
  <2> DEFINE P == F!parse_option(t, k).option
             r == u[F!parse_option(t, k).end + 1]
             s == {o \in r : \A q \in P : o.name # q.name}
  <2>1. u[k] = P \cup s
    BY ConfigStep
  <2>2. /\ IsFiniteSet(P) /\ \A o, q \in P : o = q
    <3>1. k \in 1 .. Len(t) + 1
      OBVIOUS
    <3> QED BY <3>1, OptionRange
  <2>3. /\ IsFiniteSet(r)
        /\ \A o, q \in r : o.name = q.name => o = q
        /\ \A o \in r : \E p \in 1 .. Len(t) : o \in F!parse_option(t, p).option
    BY <1>4
  <2>4. \A o \in P : \E p \in 1 .. Len(t) : o \in F!parse_option(t, p).option
    OBVIOUS
  <2> HIDE DEF P, r, u
  <2>5. IsFiniteSet(s)
    <3>1. s \in SUBSET r
      OBVIOUS
    <3> HIDE DEF s
    <3> QED BY <2>3, <3>1, FS_Subset
  <2>6. IsFiniteSet(P \cup s)
    BY <2>2, <2>5, FS_Union
  <2>7. \A o, q \in P \cup s : o.name = q.name => o = q
    BY <2>2, <2>3
  <2>8. \A o \in P \cup s : \E p \in 1 .. Len(t) :
                              o \in F!parse_option(t, p).option
    BY <2>3, <2>4
  <2> HIDE DEF s
  <2> QED BY <2>1, <2>6, <2>7, <2>8
<1> HIDE DEF Fine, u
<1>5. ASSUME NEW n \in 0 .. Len(t) + 1, n < Len(t) + 1, n \in Q
      PROVE  n + 1 \in Q
  <2> SUFFICES ASSUME NEW k \in top - (n + 1) .. top PROVE Fine(u[k])
    BY <1>5
  <2>1. CASE k \in top - n .. top
    BY <1>5, <2>1
  <2>2. CASE k = Len(t) + 1
    BY <1>1, <1>2, <2>2
  <2>3. CASE k \notin top - n .. top /\ k # Len(t) + 1
    <3>1. k \in 1 .. Len(t) /\ k = top - (n + 1) /\ k \in 1 .. Len(t) + 1
      BY <1>5, <2>3
    <3> DEFINE e == F!parse_option(t, k).end
    <3>2. e \in k .. Len(t) + 1
      BY <3>1, OptionRange
    <3> HIDE DEF e
    <3>3. e + 1 \in top - n .. top
      BY <3>1, <3>2
    <3>4. Fine(u[e + 1])
      BY <1>5, <3>3
    <3> QED BY <1>4, <3>1, <3>4 DEF e
  <2> QED BY <2>1, <2>2, <2>3
<1>6. Fine(u[1])
  <2>1. Len(t) + 1 \in Nat /\ top - (Len(t) + 1) = 1 /\ 1 \in 1 .. top
    OBVIOUS
  <2>2. 0 .. Len(t) + 1 \subseteq Q
    <3> HIDE DEF Q, top
    <3> QED BY <1>3, <1>5, <2>1, CountUp
  <2>3. Len(t) + 1 \in Q
    <3> HIDE DEF Q
    <3> QED BY <2>1, <2>2
  <2> QED BY <2>1, <2>3
<1>7. F!parse_config(t) = u[1]
  BY ConfigStep DEF u
<1> QED BY <1>6, <1>7 DEF Fine

-----------------------------------------------------------------------------
(* A line that is written is read.                                         *)

LEMMA FindsIt ==
  ASSUME NEW t, NEW set, NEW from \in Nat, NEW to \in Nat, from <= to,
         NEW r \in from .. to, r = to \/ t[r] \in set,
         \A k \in from .. r - 1 : t[k] \notin set
  PROVE  F!Find(t, from, to, set) = r
<1>1. \A q \in from .. to :
        (/\ q = to \/ t[q] \in set
         /\ \A k \in from .. q - 1 : t[k] \notin set) =>
        q = F!Find(t, from, to, set)
  BY FindIs
<1> QED BY <1>1

LEMMA FindsNot ==
  ASSUME NEW t, NEW set, NEW from \in Nat, NEW to \in Nat, from <= to,
         NEW r \in from .. to, r = to \/ t[r] \notin set,
         \A k \in from .. r - 1 : t[k] \in set
  PROVE  F!FindNot(t, from, to, set) = r
<1>1. \A q \in from .. to :
        (/\ q = to \/ t[q] \notin set
         /\ \A k \in from .. q - 1 : t[k] \in set) =>
        q = F!FindNot(t, from, to, set)
  BY FindNotIs
<1> QED BY <1>1

LEMMA Trims ==
  ASSUME NEW t, NEW set, NEW from \in Nat, NEW to \in Nat, from <= to,
         NEW r \in from .. to, r = from \/ t[r - 1] \notin set,
         \A k \in r .. to - 1 : t[k] \in set
  PROVE  F!TrimEnd(t, from, to, set) = r
<1>1. \A q \in from .. to :
        (/\ q = from \/ t[q - 1] \notin set
         /\ \A k \in q .. to - 1 : t[k] \in set) =>
        q = F!TrimEnd(t, from, to, set)
  BY TrimEndIs
<1> QED BY <1>1

JoinOf(w, S, a, b) ==
  /\ w \in Seq(S) /\ Len(a) \in Nat /\ Len(b) \in Nat
  /\ Len(w) = Len(a) + Len(b)
  /\ \A k \in 1 .. Len(a) : w[k] = a[k]
  /\ \A k \in 1 .. Len(b) : w[Len(a) + k] = b[k]

LEMMA Joined ==
  ASSUME NEW S, NEW a \in Seq(S), NEW b \in Seq(S)
  PROVE  JoinOf(a \o b, S, a, b)
BY DEF JoinOf

LEMMA Triple ==
  ASSUME NEW S, NEW x \in S, NEW y \in S
  PROVE  /\ <<x, y, x>> \in Seq(S) /\ Len(<<x, y, x>>) = 3
         /\ <<x, y, x>>[1] = x /\ <<x, y, x>>[2] = y /\ <<x, y, x>>[3] = x
OBVIOUS

Line(a, v) == a \o <<" ", "=", " ">> \o v \o <<"n">>

LEMMA LineIs ==
  ASSUME NEW a, NEW v, NameReads(a), ValueReads(v)
  PROVE  LET line == Line(a, v)
             L == Len(a)
             V == Len(v)
         IN /\ line \in Seq(Chars) /\ Len(line) = L + V + 4
            /\ L \in Nat /\ V \in Nat /\ L >= 1 /\ V >= 1
            /\ \A k \in 1 .. L : line[k] = a[k]
            /\ line[L + 1] \in F!spaceTab /\ line[L + 2] = "="
            /\ line[L + 3] \in F!spaceTab
            /\ \A k \in 1 .. V : line[L + 3 + k] = v[k]
            /\ line[L + V + 4] = "n"
<1> DEFINE mid == <<" ", "=", " ">>
           L == Len(a)
           V == Len(v)
<1>1. /\ a \in Seq(Chars) /\ L >= 1 /\ v \in Seq(Chars) /\ V >= 1
  BY DEF NameReads, ValueReads
<1>2. /\ mid \in Seq(Chars) /\ Len(mid) = 3
      /\ mid[1] \in F!spaceTab /\ mid[2] = "=" /\ mid[3] \in F!spaceTab
  <2>1. " " \in Chars /\ "=" \in Chars /\ " " \in F!spaceTab
    BY Zenon DEF Chars, F!spaceTab
  <2>2. /\ mid \in Seq(Chars) /\ Len(mid) = 3
        /\ mid[1] = " " /\ mid[2] = "=" /\ mid[3] = " "
    BY <2>1, Triple, Zenon
  <2> QED BY <2>1, <2>2, Zenon
<1>3. <<"n">> \in Seq(Chars) /\ Len(<<"n">>) = 1 /\ <<"n">>[1] = "n"
  BY DEF Chars
<1> DEFINE end == <<"n">>
<1>4. Line(a, v) = a \o mid \o v \o end
  BY Zenon DEF Line
<1> HIDE DEF mid, end
<1>5. L \in Nat /\ V \in Nat
  BY <1>1
<1> DEFINE x == a \o mid
           y == x \o v
<1>6. /\ x \in Seq(Chars) /\ Len(x) = L + 3
      /\ \A k \in 1 .. L : x[k] = a[k]
      /\ x[L + 1] \in F!spaceTab /\ x[L + 2] = "=" /\ x[L + 3] \in F!spaceTab
  <2>0. JoinOf(x, Chars, a, mid)
    BY <1>1, <1>2, Joined, Zenon
  <2> HIDE DEF x
  <2>1. /\ x \in Seq(Chars) /\ Len(x) = L + Len(mid)
        /\ \A k \in 1 .. L : x[k] = a[k]
        /\ \A k \in 1 .. Len(mid) : x[L + k] = mid[k]
    BY <2>0 DEF JoinOf
  <2>2. 1 \in 1 .. Len(mid) /\ 2 \in 1 .. Len(mid) /\ 3 \in 1 .. Len(mid)
    BY <1>2
  <2> QED BY <1>2, <2>1, <2>2
<1> HIDE DEF x
<1>7. /\ y \in Seq(Chars) /\ Len(y) = L + 3 + V
      /\ \A k \in 1 .. L + 3 : y[k] = x[k]
      /\ \A k \in 1 .. V : y[L + 3 + k] = v[k]
  <2>0. JoinOf(y, Chars, x, v)
    BY <1>1, <1>6, Joined, Zenon
  <2> HIDE DEF y
  <2>1. /\ y \in Seq(Chars) /\ Len(y) = Len(x) + V
        /\ \A k \in 1 .. Len(x) : y[k] = x[k]
        /\ \A k \in 1 .. V : y[Len(x) + k] = v[k]
    BY <2>0 DEF JoinOf
  <2> QED BY <1>6, <2>1
<1> HIDE DEF y
<1>8. /\ y \o end \in Seq(Chars) /\ Len(y \o end) = L + V + 4
      /\ \A k \in 1 .. L + V + 3 : (y \o end)[k] = y[k]
      /\ (y \o end)[L + V + 4] = "n"
  <2> DEFINE w == y \o end
  <2>0. JoinOf(w, Chars, y, end)
    <3>1. end \in Seq(Chars)
      BY <1>3 DEF end
    <3> QED BY <1>7, <3>1, Joined, Zenon
  <2> HIDE DEF w
  <2>1. /\ w \in Seq(Chars) /\ Len(w) = Len(y) + Len(end)
        /\ \A k \in 1 .. Len(y) : w[k] = y[k]
        /\ \A k \in 1 .. Len(end) : w[Len(y) + k] = end[k]
    BY <2>0 DEF JoinOf
  <2>2. Len(end) = 1 /\ end[1] = "n" /\ 1 \in 1 .. Len(end)
    BY <1>3 DEF end
  <2>3. Len(y) = L + V + 3 /\ Len(y) + 1 = L + V + 4
    BY <1>5, <1>7
  <2>4. w \in Seq(Chars) /\ Len(w) = L + V + 4
    BY <2>1, <2>2, <2>3
  <2>5. w[L + V + 4] = "n"
    BY <2>1, <2>2, <2>3
  <2>6. \A k \in 1 .. L + V + 3 : w[k] = y[k]
    BY <2>1, <2>3
  <2> QED BY <2>4, <2>5, <2>6 DEF w
<1>9. Line(a, v) = y \o end
  BY <1>4 DEF x, y
<1> DEFINE w == y \o end
<1> HIDE DEF w
<1>10. /\ w \in Seq(Chars) /\ Len(w) = L + V + 4
       /\ \A k \in 1 .. L + V + 3 : w[k] = y[k]
       /\ w[L + V + 4] = "n"
  BY <1>8 DEF w
<1>11. \A k \in 1 .. L : w[k] = a[k]
  <2> SUFFICES ASSUME NEW k \in 1 .. L PROVE w[k] = a[k]
    OBVIOUS
  <2>1. k \in 1 .. L + 3 /\ k \in 1 .. L + V + 3
    BY <1>5
  <2> QED BY <1>6, <1>7, <1>10, <2>1
<1>12. w[L + 1] \in F!spaceTab /\ w[L + 2] = "=" /\ w[L + 3] \in F!spaceTab
  <2>1. /\ L + 1 \in 1 .. L + 3 /\ L + 2 \in 1 .. L + 3 /\ L + 3 \in 1 .. L + 3
        /\ L + 1 \in 1 .. L + V + 3 /\ L + 2 \in 1 .. L + V + 3
        /\ L + 3 \in 1 .. L + V + 3
    BY <1>5
  <2> QED BY <1>6, <1>7, <1>10, <2>1
<1>13. \A k \in 1 .. V : w[L + 3 + k] = v[k]
  <2> SUFFICES ASSUME NEW k \in 1 .. V PROVE w[L + 3 + k] = v[k]
    OBVIOUS
  <2>1. L + 3 + k \in 1 .. L + V + 3
    BY <1>5
  <2> QED BY <1>7, <1>10, <2>1
<1>14. Line(a, v) = w
  BY <1>9 DEF w
<1> QED BY <1>1, <1>5, <1>10, <1>11, <1>12, <1>13, <1>14

(* The line of a and v, after the first d characters of t.                       *)
LineAt(t, d, a, v) ==
  /\ d + Len(Line(a, v)) <= Len(t)
  /\ \A k \in 1 .. Len(Line(a, v)) : t[d + k] = Line(a, v)[k]

PlacesOf(t, d, a, v, L, V, z, f) ==
  /\ L \in Nat /\ V \in Nat /\ L >= 1 /\ V >= 1 /\ z \in Nat /\ z <= Len(t)
  /\ z = d + Len(Line(a, v))
  /\ \A k \in d + 1 .. d + L : t[k] = a[k - d] /\ t[k] \notin {"n", "#", "="}
  /\ t[d + 1] \notin F!whitespace /\ t[d + L] \notin F!spaceTab
  /\ t[d + L + 1] \in F!spaceTab /\ t[d + L + 2] = "="
  /\ t[d + L + 3] \in F!spaceTab
  /\ \A k \in f .. z - 1 : t[k] = v[k - (d + L + 3)] /\ t[k] # "#"
  /\ t[f] = v[1] /\ t[f] \notin F!whitespace /\ t[z] = "n"

LEMMA LinePlaces ==
  ASSUME NEW t \in Seq(Chars), NEW a, NEW v, NameReads(a), ValueReads(v),
         NEW d \in Nat, LineAt(t, d, a, v), NEW L, L = Len(a), NEW V, V = Len(v),
         NEW z, z = d + L + V + 4, NEW f, f = d + L + 4
  PROVE  PlacesOf(t, d, a, v, L, V, z, f)
<1> DEFINE line == Line(a, v)
<1>1. /\ line \in Seq(Chars) /\ Len(line) = L + V + 4
      /\ L \in Nat /\ V \in Nat /\ L >= 1 /\ V >= 1
      /\ \A k \in 1 .. L : line[k] = a[k]
      /\ line[L + 1] \in F!spaceTab /\ line[L + 2] = "=" /\ line[L + 3] \in F!spaceTab
      /\ \A k \in 1 .. V : line[L + 3 + k] = v[k]
      /\ line[L + V + 4] = "n"
  BY LineIs
<1>2. /\ \A k \in 1 .. L : a[k] \notin {"n", "#", "="}
      /\ a[1] \notin F!whitespace /\ a[L] \notin F!spaceTab
      /\ v[1] \notin F!whitespace /\ \A k \in 1 .. V : v[k] # "#"
  BY DEF NameReads, ValueReads
<1>3. /\ d + Len(line) <= Len(t) /\ \A k \in 1 .. Len(line) : t[d + k] = line[k]
  BY DEF LineAt
<1>4. Len(t) \in Nat
  OBVIOUS
<1>a. L \in Nat /\ V \in Nat /\ L >= 1 /\ V >= 1 /\ Len(line) = L + V + 4
  BY <1>1
<1>b. d + Len(line) <= Len(t)
  BY <1>3
<1> HIDE DEF line
<1>5. z \in Nat /\ z <= Len(t) /\ z = d + Len(line)
  BY <1>a, <1>b, <1>4
<1>6. \A k \in 1 .. L + V + 4 : t[d + k] = line[k]
  BY <1>1, <1>3
<1>7. ASSUME NEW k \in d + 1 .. d + L
      PROVE  t[k] = a[k - d] /\ t[k] \notin {"n", "#", "="}
  <2> DEFINE i == k - d
  <2>1. i \in 1 .. L /\ i \in 1 .. L + V + 4 /\ d + i = k
    BY <1>a
  <2> HIDE DEF i
  <2>2. t[d + i] = a[i]
    BY <1>1, <1>6, <2>1
  <2> QED BY <1>2, <2>1, <2>2 DEF i
<1>8. t[d + 1] \notin F!whitespace /\ t[d + L] \notin F!spaceTab
  <2>1. /\ 1 \in 1 .. L /\ L \in 1 .. L /\ 1 \in 1 .. L + V + 4
        /\ L \in 1 .. L + V + 4
    BY <1>a
  <2>2. t[d + 1] = a[1] /\ t[d + L] = a[L]
    BY <1>1, <1>6, <2>1
  <2> QED BY <1>2, <2>2
<1>9. /\ t[d + L + 1] \in F!spaceTab /\ t[d + L + 2] = "=" /\ t[d + L + 3] \in F!spaceTab
      /\ t[z] = "n"
  <2>1. /\ L + 1 \in 1 .. L + V + 4 /\ L + 2 \in 1 .. L + V + 4
        /\ L + 3 \in 1 .. L + V + 4 /\ L + V + 4 \in 1 .. L + V + 4
        /\ d + (L + 1) = d + L + 1 /\ d + (L + 2) = d + L + 2
        /\ d + (L + 3) = d + L + 3 /\ d + (L + V + 4) = z
    BY <1>a
  <2>2. /\ t[d + (L + 1)] \in F!spaceTab /\ t[d + (L + 2)] = "="
        /\ t[d + (L + 3)] \in F!spaceTab /\ t[d + (L + V + 4)] = "n"
    BY <1>1, <1>6, <2>1
  <2> QED BY <2>1, <2>2
<1>10. ASSUME NEW k \in d + L + 4 .. z - 1
       PROVE  t[k] = v[k - (d + L + 3)] /\ t[k] # "#"
  <2> DEFINE i == k - (d + L + 3)
             j == L + 3 + i
  <2>1. i \in 1 .. V /\ j \in 1 .. L + V + 4 /\ d + j = k /\ j = L + 3 + i
    BY <1>a
  <2> HIDE DEF i, j
  <2>2. t[d + j] = line[j] /\ line[L + 3 + i] = v[i]
    BY <1>1, <1>6, <2>1
  <2> QED BY <1>2, <2>1, <2>2 DEF i
<1>11. t[d + L + 4] = v[1]
  <2>1. d + L + 4 \in d + L + 4 .. z - 1 /\ (d + L + 4) - (d + L + 3) = 1
    BY <1>a
  <2> QED BY <1>10, <2>1
<1>12. v[1] \notin F!whitespace
  BY <1>2
<1> QED BY <1>1, <1>5, <1>7, <1>8, <1>9, <1>10, <1>11, <1>12
        DEF line, PlacesOf

PartsOf(t, p, d, v, L, z, f) ==
  /\ BeginAt(t, p) = p
  /\ EndlAt(t, p) \in f + 1 .. z
  /\ v[1] # "[" => EndlAt(t, p) = z
  /\ EndcAt(t, p) \in f + 1 .. z
  /\ EqAt(t, p) = d + L + 2 /\ NameEndAt(t, p) = d + L + 1
  /\ ValueAt(t, p) = f

\* Where the parts of a line are found, of which a list may hold the first
\* end of a line.
LEMMA LineParts ==
  ASSUME NEW t \in Seq(Chars), NEW a, NEW v, NameReads(a), ValueReads(v),
         NEW d \in Nat, LineAt(t, d, a, v),
         NEW p, p = d + 1, NEW L, L = Len(a), NEW V, V = Len(v),
         NEW z, z = d + L + V + 4, NEW f, f = d + L + 4
  PROVE  PartsOf(t, p, d, v, L, z, f)
<1> DEFINE l == EndlAt(t, p)
           c == EndcAt(t, p)
           e == d + L + 2
           end == Len(t) + 1
<1>0. /\ L \in Nat /\ V \in Nat /\ L >= 1 /\ V >= 1 /\ z \in Nat /\ z <= Len(t)
      /\ \A k \in d + 1 .. d + L : t[k] \notin {"n", "#", "="}
      /\ t[d + 1] \notin F!whitespace /\ t[d + L] \notin F!spaceTab
      /\ t[d + L + 1] \in F!spaceTab /\ t[d + L + 2] = "="
      /\ t[d + L + 3] \in F!spaceTab
      /\ \A k \in f .. z - 1 : t[k] = v[k - (d + L + 3)] /\ t[k] # "#"
      /\ t[f] = v[1] /\ t[f] \notin F!whitespace /\ t[z] = "n"
  <2>1. PlacesOf(t, d, a, v, L, V, z, f)
    BY LinePlaces
  <2> QED BY <2>1 DEF PlacesOf
<1>00. \A x \in F!spaceTab : x \notin {"n", "#", "=", "["} /\ x \in F!whitespace
  BY Zenon DEF F!spaceTab, F!whitespace
<1>a. /\ L \in Nat /\ V \in Nat /\ L >= 1 /\ V >= 1 /\ z \in Nat /\ z <= Len(t)
      /\ Len(t) \in Nat /\ p \in Nat /\ f \in Nat /\ f < z /\ F!End(t) = end
      /\ end = Len(t) + 1 /\ e = d + L + 2
  <2>1. Len(t) \in Nat
    OBVIOUS
  <2> QED BY <1>0, <2>1 DEF F!End
<1> HIDE DEF end, e
<1>1. BeginAt(t, p) = p
  <2>1. F!FindNot(t, p, end, F!whitespace) = p
    <3>1. p \in Nat /\ end \in Nat /\ p <= end /\ p \in p .. end
      BY <1>a
    <3>2. t[p] \notin F!whitespace /\ \A k \in p .. p - 1 : t[k] \in F!whitespace
      BY <1>0, <1>a
    <3> QED BY <3>1, <3>2, FindsNot
  <2> QED BY <1>a, <2>1 DEF BeginAt
<1>2. \A k \in p .. f - 1 : t[k] \notin {"n", "#"}
  <2> SUFFICES ASSUME NEW k \in p .. f - 1 PROVE t[k] \notin {"n", "#"}
    OBVIOUS
  <2>1. k \in Nat /\ d + 1 <= k /\ k <= d + L + 3 /\ L \in Nat
    BY <1>a
  <2>2. \/ k \in d + 1 .. d + L \/ k = d + L + 1 \/ k = d + L + 2
        \/ k = d + L + 3
    BY <2>1
  <2> QED BY <1>0, <1>00, <2>2
<1>3. l \in f + 1 .. z /\ \A k \in p .. l - 1 : t[k] # "n"
  <2>1. l = F!Find(t, p, end, {"n"})
    BY <1>1, <1>a DEF EndlAt
  <2>2. p \in Nat /\ end \in Nat /\ p <= end
    BY <1>a
  <2> HIDE DEF l
  <2>3. /\ l \in p .. end /\ (l = end \/ t[l] \in {"n"})
        /\ \A k \in p .. l - 1 : t[k] \notin {"n"}
    BY <2>1, <2>2, Found
  <2>4. l <= z
    <3> SUFFICES ASSUME l > z PROVE FALSE
      BY <1>a, <2>3
    <3>1. z \in p .. l - 1
      BY <1>a, <2>3
    <3> QED BY <1>0, <2>3, <3>1
  <2>5. l > f
    <3> SUFFICES ASSUME l <= f PROVE FALSE
      BY <1>a, <2>3
    <3>1. t[l] = "n"
      BY <1>a, <2>3
    <3>2. l # f
      BY <1>0, <3>1, Blanks
    <3>3. l \in p .. f - 1
      BY <1>a, <2>3, <3>2
    <3> QED BY <1>2, <3>1, <3>3
  <2> QED BY <1>a, <2>3, <2>4, <2>5
<1>4. v[1] # "[" => l = z
  <2> SUFFICES ASSUME v[1] # "[", l # z PROVE FALSE
    OBVIOUS
  <2>1. l \in f .. z - 1 /\ l - (d + L + 3) \in 1 .. V /\ l \in p .. end /\ l # end
    BY <1>3, <1>a
  <2>2. l = F!Find(t, p, end, {"n"})
    BY <1>1, <1>a DEF EndlAt
  <2>3. p \in Nat /\ end \in Nat /\ p <= end
    BY <1>a
  <2> HIDE DEF l
  <2>4. l = end \/ t[l] \in {"n"}
    BY <2>2, <2>3, Found
  <2>5. t[l] = v[l - (d + L + 3)]
    BY <1>0, <2>1
  <2>6. \A k \in 1 .. V : v[k] # "n"
    BY <2>1 DEF ValueReads
  <2> QED BY <2>1, <2>4, <2>5, <2>6
<1> HIDE DEF l
<1>b. l \in Nat /\ f < l /\ l <= z
  BY <1>3, <1>a
<1>5. HashAt(t, p) = l
  <2>1. F!Find(t, p, l, {"#"}) = l
    <3>1. p \in Nat /\ l \in Nat /\ p <= l /\ l \in p .. l
      BY <1>a, <1>b
    <3>2. \A k \in p .. l - 1 : t[k] \notin {"#"}
      <4> SUFFICES ASSUME NEW k \in p .. l - 1 PROVE t[k] # "#"
        OBVIOUS
      <4>1. k \in p .. f - 1 \/ k \in f .. z - 1
        BY <1>a, <1>b
      <4> QED BY <1>0, <1>2, <4>1
    <3> QED BY <3>1, <3>2, FindsIt
  <2> QED BY <1>1, <2>1 DEF HashAt, l
<1>6. c \in f + 1 .. z
  <2>1. c = F!TrimEnd(t, p, l, F!whitespace)
    BY <1>1, <1>5 DEF EndcAt
  <2>2. p \in Nat /\ l \in Nat /\ p <= l
    BY <1>a, <1>b
  <2> HIDE DEF c
  <2>3. c \in p .. l /\ \A k \in c .. l - 1 : t[k] \in F!whitespace
    BY <2>1, <2>2, TrimEndIs
  <2>4. c > f
    <3> SUFFICES ASSUME c <= f PROVE FALSE
      BY <1>a, <2>3
    <3>1. f \in c .. l - 1
      BY <1>a, <1>b, <2>3
    <3> QED BY <1>0, <2>3, <3>1
  <2> QED BY <1>a, <1>b, <2>3, <2>4
<1> HIDE DEF c
<1>c. c \in Nat /\ f < c
  BY <1>6, <1>a
<1>7. EqAt(t, p) = e
  <2>1. F!Find(t, p, c, {"="}) = e
    <3>1. p \in Nat /\ c \in Nat /\ p <= c /\ e \in p .. c
      BY <1>a, <1>c
    <3>2. t[e] \in {"="}
      BY <1>0, <1>a
    <3>3. \A k \in p .. e - 1 : t[k] \notin {"="}
      <4> SUFFICES ASSUME NEW k \in p .. e - 1 PROVE t[k] # "="
        OBVIOUS
      <4>1. k \in d + 1 .. d + L \/ k = d + L + 1
        BY <1>a
      <4> QED BY <1>0, <1>00, <4>1
    <3> QED BY <3>1, <3>2, <3>3, FindsIt
  <2> QED BY <1>1, <2>1 DEF EqAt, c
<1>8. NameEndAt(t, p) = d + L + 1
  <2> DEFINE n == d + L + 1
  <2>0. n = d + L + 1
    OBVIOUS
  <2> HIDE DEF n
  <2>1. F!TrimEnd(t, p, e, F!spaceTab) = n
    <3>1. p \in Nat /\ e \in Nat /\ p <= e /\ n \in p .. e /\ n - 1 = d + L
      BY <1>a, <2>0
    <3>2. t[n - 1] \notin F!spaceTab
      BY <1>0, <3>1
    <3>3. \A k \in n .. e - 1 : t[k] \in F!spaceTab
      <4>1. \A k \in n .. e - 1 : k = n
        BY <1>a, <2>0
      <4> QED BY <1>0, <2>0, <4>1
    <3> QED BY <3>1, <3>2, <3>3, Trims
  <2> QED BY <1>1, <1>7, <2>0, <2>1 DEF NameEndAt
<1>9. ValueAt(t, p) = f
  <2> DEFINE g == e + 1
  <2>0. g = d + L + 3
    BY <1>a
  <2>1. F!FindNot(t, g, c, F!spaceTab) = f
    <3> HIDE DEF g
    <3>1. g \in Nat /\ c \in Nat /\ g <= c /\ f \in g .. c /\ f - 1 = g
      BY <1>a, <1>c, <2>0
    <3>2. t[f] \notin F!spaceTab
      BY <1>0, Blanks
    <3>3. \A k \in g .. f - 1 : t[k] \in F!spaceTab
      BY <1>0, <2>0, <3>1
    <3> QED BY <3>1, <3>2, <3>3, FindsNot
  <2> QED BY <1>7, <2>1 DEF ValueAt, c
<1> QED BY <1>1, <1>3, <1>4, <1>6, <1>7, <1>8, <1>9, <1>a
        DEF l, c, PartsOf

TextAt(t, a, from, to, d) ==
  /\ from \in 1 .. Len(t) + 1 /\ to \in from .. Len(t) + 1 /\ d = from - 1
  /\ to = from + Len(a)
  /\ \A k \in from .. to - 1 : t[k] = a[k - d] /\ t[k] # "#"

(* Text without comments that is that of a.                                *)
LEMMA StringIs ==
  ASSUME NEW t \in Seq(Chars), NEW a \in Seq(Chars), NEW from, NEW to, NEW d,
         TextAt(t, a, from, to, d)
  PROVE  F!to_string(t, from, to) = a
<1>0. /\ Len(t) \in Nat /\ Len(a) \in Nat
      /\ from \in 1 .. Len(t) + 1 /\ to \in from .. Len(t) + 1
      /\ d = from - 1 /\ to = from + Len(a)
      /\ \A k \in from .. to - 1 : t[k] = a[k - d] /\ t[k] # "#"
  BY DEF TextAt
<1>1. F!to_string(t, from, to) = SubSeq(t, from, to - 1)
  BY <1>0, StringWhole
<1> DEFINE s == SubSeq(t, from, to - 1)
<1>2. /\ s \in Seq(Chars) /\ Len(s) = Len(a)
      /\ \A k \in 1 .. Len(a) : s[k] = t[from + k - 1]
  BY <1>0
<1>3. \A k \in 1 .. Len(a) : s[k] = a[k]
  <2> SUFFICES ASSUME NEW k \in 1 .. Len(a) PROVE s[k] = a[k]
    OBVIOUS
  <2> DEFINE i == from + k - 1
  <2>1. i \in from .. to - 1 /\ i - d = k
    BY <1>0
  <2>2. s[k] = t[i]
    BY <1>2
  <2> HIDE DEF i, s
  <2> QED BY <1>0, <2>1, <2>2
<1>4. s = a
  <2> HIDE DEF s
  <2>1. DOMAIN s = DOMAIN a
    BY <1>2
  <2>2. \A k \in DOMAIN s : s[k] = a[k]
    BY <1>2, <1>3
  <2> QED BY <1>2, <1>3, <2>1, <2>2
<1> QED BY <1>1, <1>4

LEMMA LessOne ==
  ASSUME NEW f \in Nat, NEW n \in Nat, NEW z, z = f + n
  PROVE  z - 1 = n + (f - 1)
OBVIOUS

(* The end of a list that is written.                                      *)
LEMMA ListRead ==
  ASSUME NEW t \in Seq(Chars), NEW v, ValueReads(v), v[1] = "[",
         NEW f \in 1 .. Len(t), NEW z, z = f + Len(v), z <= Len(t),
         \A k \in f .. z - 1 : t[k] = v[k - (f - 1)]
  PROVE  F!skip_list(t, f + 1) = z
<1> DEFINE V == Len(v)
           e == f - 1
           r == z - 1
<1>0. /\ v \in Seq(Chars) /\ V \in Nat /\ V >= 2 /\ Len(t) \in Nat
      /\ e \in Int /\ f = e + 1 /\ z \in Nat /\ r \in Nat /\ z = r + 1 /\ r = V + e
      /\ r \in f + 1 .. Len(t) /\ f \in Nat
  <2>1. v \in Seq(Chars) /\ V >= 2
    BY DEF ValueReads
  <2>2. V \in Nat /\ Len(t) \in Nat
    BY <2>1
  <2> HIDE DEF V
  <2>3. z = f + V
    BY DEF V
  <2>4. f \in Nat /\ f >= 1 /\ f <= Len(t)
    BY <2>2
  <2>5. z \in Nat /\ f + 1 <= z - 1 /\ r \in Nat
    BY <2>1, <2>2, <2>3, <2>4
  <2>6. r \in f + 1 .. Len(t) /\ z = r + 1
    BY <2>2, <2>4, <2>5
  <2>7. e \in Int /\ f = e + 1
    BY <2>4
  <2>8. r = V + e
    BY <2>2, <2>3, <2>4, LessOne, Zenon
  <2> QED BY <2>1, <2>2, <2>4, <2>5, <2>6, <2>7, <2>8
<1>1. Even(v, 1, V) /\ \A k \in 2 .. V - 1 : ~Even(v, 1, k)
  BY DEF ValueReads
<1>2. \A i \in 1 .. V : v[i] = t[i + e]
  <2> SUFFICES ASSUME NEW i \in 1 .. V PROVE v[i] = t[i + e]
    OBVIOUS
  <2> DEFINE k == i + e
  <2>1. k \in f .. z - 1 /\ k - (f - 1) = i
    BY <1>0
  <2> HIDE DEF k, e, V
  <2>2. t[k] = v[k - (f - 1)]
    BY <2>1
  <2> QED BY <2>1, <2>2 DEF k
<1> HIDE DEF V, e, r
<1>3. ASSUME NEW k \in 1 .. V PROVE Even(v, 1, k) <=> Even(t, f, k + e)
  <2> DEFINE to2 == k + e
             from == 1
  <2>1. /\ from \in Int /\ k \in Int /\ from <= k + 1 /\ e \in Int
        /\ f = from + e /\ to2 = k + e
        /\ \A i \in from .. k : v[i] = t[i + e]
    BY <1>0, <1>2
  <2> HIDE DEF to2, from
  <2>2. \A c : F!Count(v, from, k, c) = F!Count(t, f, to2, c)
    BY <2>1, CountAlike
  <2> QED BY <2>2 DEF Even, to2, from
<1>4. Even(t, f, r)
  <2>1. V \in 1 .. V
    BY <1>0
  <2> QED BY <1>0, <1>1, <1>3, <2>1
<1>5. \A k \in f + 1 .. r - 1 : ~Even(t, f, k)
  <2> SUFFICES ASSUME NEW k \in f + 1 .. r - 1 PROVE ~Even(t, f, k)
    OBVIOUS
  <2> DEFINE i == k - e
  <2>1. i \in 2 .. V - 1 /\ i \in 1 .. V /\ i + e = k
    BY <1>0
  <2> HIDE DEF i
  <2> QED BY <1>1, <1>3, <2>1
<1>6. t[f] = "["
  <2>1. 1 \in 1 .. V /\ 1 + e = f
    BY <1>0
  <2> QED BY <1>2, <2>1
<1>7. F!skip_list(t, f + 1) = r + 1
  BY <1>0, <1>4, <1>5, <1>6, SkipIs
<1> QED BY <1>0, <1>7

LEMMA LineRead ==
  ASSUME NEW t \in Seq(Chars), NEW a, NEW v, NameReads(a), ValueReads(v),
         NEW d \in Nat, LineAt(t, d, a, v), NEW p, p = d + 1,
         NEW z, z = d + Len(Line(a, v))
  PROVE  /\ F!parse_option(t, p).end = z
         /\ F!parse_option(t, p).option = {[name |-> a, value |-> v]}
<1> DEFINE L == Len(a)
           V == Len(v)
           f == d + L + 4
           y == d + L + V + 4
           l == EndlAt(t, p)
           c == EndcAt(t, p)
           n == d + L + 1
<1>d. /\ L = Len(a) /\ V = Len(v) /\ f = d + L + 4 /\ y = d + L + V + 4
      /\ n = d + L + 1
  OBVIOUS
<1>1. a \in Seq(Chars) /\ v \in Seq(Chars)
  BY DEF NameReads, ValueReads
<1> HIDE DEF L, V, f, y, n
<1>2. PlacesOf(t, d, a, v, L, V, y, f)
  BY <1>d, LinePlaces
<1>3. /\ BeginAt(t, p) = p /\ l \in f + 1 .. y /\ (v[1] # "[" => l = y)
      /\ c \in f + 1 .. y /\ EqAt(t, p) = d + L + 2 /\ NameEndAt(t, p) = n
      /\ ValueAt(t, p) = f
  <2>1. PartsOf(t, p, d, v, L, y, f)
    BY <1>d, LineParts
  <2> QED BY <1>d, <2>1 DEF PartsOf
<1>4. /\ L \in Nat /\ V \in Nat /\ L >= 1 /\ V >= 1 /\ y \in Nat /\ y <= Len(t)
      /\ y = z /\ Len(t) \in Nat /\ f \in Nat /\ f = d + L + 4 /\ y = f + V
      /\ n \in Nat /\ n = p + L /\ p \in Nat
  <2>1. Len(t) \in Nat
    OBVIOUS
  <2>2. L \in Nat /\ V \in Nat /\ L >= 1 /\ V >= 1 /\ y \in Nat /\ y <= Len(t)
        /\ y = z
    BY <1>2 DEF PlacesOf
  <2> QED BY <1>d, <2>1, <2>2
<1>5. /\ t[f] = v[1]
      /\ \A k \in f .. y - 1 : t[k] = v[k - (d + L + 3)] /\ t[k] # "#"
      /\ \A k \in d + 1 .. d + L : t[k] = a[k - d] /\ t[k] # "#"
  BY <1>2 DEF PlacesOf
<1> HIDE DEF l, c
<1>6. ~NoOption(t, p)
  <2>1. d + L + 2 # c /\ d + L + 2 # p /\ f # l
    BY <1>3, <1>4
  <2> QED BY <1>3, <2>1 DEF NoOption, l, c
<1>7. LastAt(t, p) = y
  <2>1. CASE v[1] # "["
    BY <1>3, <1>5, <2>1 DEF LastAt, l
  <2>2. CASE v[1] = "["
    <3>1. f - 1 = d + L + 3 /\ f \in 1 .. Len(t) /\ y = f + Len(v)
      BY <1>d, <1>4
    <3>2. \A k \in f .. y - 1 : t[k] = v[k - (f - 1)]
      BY <1>5, <3>1
    <3>3. F!skip_list(t, f + 1) = y
      BY <1>4, <2>2, <3>1, <3>2, ListRead
    <3> QED BY <1>3, <1>5, <2>2, <3>3 DEF LastAt
  <2> QED BY <2>1, <2>2
<1>8. ~TornList(t, p)
  <2>1. F!End(t) # y
    BY <1>4 DEF F!End
  <2> QED BY <1>7, <2>1 DEF TornList
<1>9. F!to_string(t, p, n) = a
  <2>1. /\ p \in 1 .. Len(t) + 1 /\ n \in p .. Len(t) + 1 /\ d = p - 1
        /\ n = p + Len(a) /\ n - 1 = d + L
    BY <1>d, <1>4
  <2>2. \A k \in p .. n - 1 : t[k] = a[k - d] /\ t[k] # "#"
    BY <1>5, <2>1
  <2>3. TextAt(t, a, p, n, d)
    BY <2>1, <2>2 DEF TextAt
  <2> QED BY <1>1, <2>3, StringIs
<1>10. F!to_string(t, f, y) = v
  <2> DEFINE g == d + L + 3
  <2>1. /\ f \in 1 .. Len(t) + 1 /\ y \in f .. Len(t) + 1 /\ g = f - 1
        /\ y = f + Len(v)
    BY <1>d, <1>4
  <2>2. \A k \in f .. y - 1 : t[k] = v[k - g] /\ t[k] # "#"
    BY <1>5
  <2> HIDE DEF g
  <2>3. TextAt(t, v, f, y, g)
    BY <2>1, <2>2 DEF TextAt
  <2> QED BY <1>1, <2>3, StringIs
<1>11. F!parse_option(t, p).end = y
  BY <1>6, <1>7, OptionIs
<1>12. F!parse_option(t, p).option =
         {[name |-> F!to_string(t, BeginAt(t, p), NameEndAt(t, p)),
           value |-> F!to_string(t, ValueAt(t, p), LastAt(t, p))]}
  <2>1. ~(NoOption(t, p) \/ TornList(t, p))
    BY <1>6, <1>8
  <2> QED BY <2>1, OptionIs, Zenon
<1> QED BY <1>3, <1>4, <1>7, <1>9, <1>10, <1>11, <1>12

-----------------------------------------------------------------------------
(* The file that is written back.                                          *)

WrittenTo(s) ==
  LET upto[n \in 0 .. Len(s)] ==
        IF n = 0 THEN <<>> ELSE upto[n - 1] \o F!OptionLine(s[n])
  IN upto

LEMMA WrittenStep ==
  ASSUME NEW s, NEW M \in Nat, M = Len(s)
  PROVE  /\ F!Written(s) = WrittenTo(s)[M]
         /\ WrittenTo(s)[0] = <<>>
         /\ \A n \in 0 .. M - 1 :
              WrittenTo(s)[n + 1] = WrittenTo(s)[n] \o F!OptionLine(s[n + 1])
<1> DEFINE Step(a, n) == a \o F!OptionLine(s[n])
           Term(g, n) == IF n = 0 THEN <<>> ELSE Step(g[n - 1], n)
           Reads(g, m) == g = [n \in 0 .. m |-> Term(g, n)]
           Good == {m \in 0 .. M : \E g : Reads(g, m)}
<1> HIDE DEF Step
<1>1. 0 \in Good
  <2> DEFINE g == [n \in 0 .. 0 |-> <<>>]
  <2>1. g = [n \in 0 .. 0 |-> Term(g, n)]
    OBVIOUS
  <2> HIDE DEF g, Term
  <2>2. \E h : Reads(h, 0)
    BY <2>1
  <2> HIDE DEF Reads
  <2> QED BY <2>2
<1>2. ASSUME NEW m \in 0 .. M, m < M, m \in Good
      PROVE  m + 1 \in Good
  <2>1. PICK g : g = [n \in 0 .. m |-> Term(g, n)]
    BY <1>2
  <2> DEFINE h == [n \in 0 .. m + 1 |-> IF n <= m THEN g[n] ELSE Term(g, n)]
  <2>2. \A n \in 0 .. m + 1 : h[n] = Term(h, n)
    <3> SUFFICES ASSUME NEW n \in 0 .. m + 1 PROVE h[n] = Term(h, n)
      OBVIOUS
    <3>1. n # 0 => h[n - 1] = g[n - 1]
      OBVIOUS
    <3>2. Term(h, n) = Term(g, n)
      BY <3>1
    <3>3. ASSUME n <= m PROVE g[n] = Term(g, n)
      <4>1. n \in 0 .. m
        BY <3>3
      <4> HIDE DEF Term
      <4> QED BY <2>1, <4>1
    <3> HIDE DEF Term
    <3> QED BY <3>2, <3>3
  <2>3. h = [n \in 0 .. m + 1 |-> Term(h, n)]
    <3> HIDE DEF Term
    <3> QED BY <2>2
  <2> HIDE DEF h, Term
  <2>4. \E f : Reads(f, m + 1)
    BY <2>3
  <2> HIDE DEF Reads
  <2> QED BY <1>2, <2>4
<1>3. PICK g : Reads(g, M)
  <2> HIDE DEF Good, Reads
  <2>1. 0 .. M \subseteq Good
    BY <1>1, <1>2, CountUp
  <2>2. M \in Good
    BY <2>1
  <2> QED BY <2>2 DEF Good
<1> DEFINE u == WrittenTo(s)
<1>4. Reads(u, M)
  <2>1. u = CHOOSE h : Reads(h, M)
    BY Zenon DEF WrittenTo, Step
  <2> HIDE DEF Reads, u
  <2> QED BY <1>3, <2>1
<1>5. F!Written(s) = u[M]
  BY Zenon DEF F!Written, WrittenTo
<1>6. \A n \in 0 .. M : u[n] = Term(u, n)
  <2> HIDE DEF Term, u
  <2>1. u = [n \in 0 .. M |-> Term(u, n)]
    BY <1>4 DEF u
  <2> QED BY <2>1
<1> HIDE DEF u
<1>7. u[0] = <<>>
  BY <1>6
<1>8. ASSUME NEW n \in 0 .. M - 1 PROVE u[n + 1] = Step(u[n], n + 1)
  <2>1. n + 1 \in 0 .. M /\ n + 1 # 0 /\ (n + 1) - 1 = n
    OBVIOUS
  <2> QED BY <1>6, <2>1
<1> QED BY <1>5, <1>7, <1>8 DEF u, Step

OptionAt(t, d, o) ==
  /\ d + Len(F!OptionLine(o)) <= Len(t)
  /\ \A k \in 1 .. Len(F!OptionLine(o)) : t[d + k] = F!OptionLine(o)[k]

LEMMA OptionRead ==
  ASSUME NEW t \in Seq(Chars), NEW o, Writable(o), NEW d \in Nat,
         OptionAt(t, d, o), NEW p, p = d + 1,
         NEW z, z = d + Len(F!OptionLine(o))
  PROVE  /\ F!parse_option(t, p).end = z
         /\ F!parse_option(t, p).option = {o}
<1>1. /\ F!OptionLine(o) = Line(o.name, o.value)
      /\ NameReads(o.name) /\ ValueReads(o.value)
      /\ o = [name |-> o.name, value |-> o.value]
  BY Zenon DEF F!OptionLine, Line, Writable
<1> DEFINE a == o.name
           v == o.value
<1>2. /\ F!OptionLine(o) = Line(a, v) /\ NameReads(a) /\ ValueReads(v)
      /\ o = [name |-> a, value |-> v]
  BY <1>1, Zenon
<1> HIDE DEF a, v
<1>3. LineAt(t, d, a, v) /\ z = d + Len(Line(a, v))
  BY <1>2 DEF LineAt, OptionAt
<1>4. /\ F!parse_option(t, p).end = z
      /\ F!parse_option(t, p).option = {[name |-> a, value |-> v]}
  BY <1>2, <1>3, LineRead
<1> QED BY <1>2, <1>4, Zenon

LEMMA OptionLineIs ==
  ASSUME NEW o, Writable(o)
  PROVE  /\ F!OptionLine(o) \in Seq(Chars) /\ Len(F!OptionLine(o)) \in Nat
         /\ Len(F!OptionLine(o)) >= 1
<1>1. /\ F!OptionLine(o) = Line(o.name, o.value)
      /\ NameReads(o.name) /\ ValueReads(o.value)
  BY Zenon DEF F!OptionLine, Line, Writable
<1> DEFINE a == o.name
           v == o.value
<1>2. F!OptionLine(o) = Line(a, v) /\ NameReads(a) /\ ValueReads(v)
  BY <1>1, Zenon
<1> HIDE DEF a, v
<1>3. /\ Line(a, v) \in Seq(Chars) /\ Len(Line(a, v)) = Len(a) + Len(v) + 4
      /\ Len(a) \in Nat /\ Len(v) \in Nat
  BY <1>2, LineIs
<1> QED BY <1>2, <1>3

LinesOf(s, M, Upto) ==
  /\ \A n \in 0 .. M : Upto[n] \in Seq(Chars) /\ Len(Upto[n]) \in Nat
  /\ \A n \in 0 .. M - 1 :
       /\ OptionAt(Upto[M], Len(Upto[n]), s[n + 1])
       /\ Len(Upto[n + 1]) = Len(Upto[n]) + Len(F!OptionLine(s[n + 1]))
       /\ Len(Upto[n]) < Len(Upto[n + 1]) /\ Len(Upto[n + 1]) <= Len(Upto[M])

(* The lines of a file, one after the other.                               *)
LEMMA WrittenHolds ==
  ASSUME NEW s, NEW M \in Nat, M = Len(s), \A n \in 1 .. M : Writable(s[n]),
         NEW Upto, Upto = WrittenTo(s)
  PROVE  LinesOf(s, M, Upto)
<1> DEFINE line(n) == F!OptionLine(s[n])
<1>1. /\ Upto[0] = <<>>
      /\ \A n \in 0 .. M - 1 : Upto[n + 1] = Upto[n] \o line(n + 1)
  BY WrittenStep
<1>2. \A n \in 1 .. M : /\ line(n) \in Seq(Chars) /\ Len(line(n)) \in Nat
                        /\ Len(line(n)) >= 1
  BY OptionLineIs
<1> HIDE DEF line
<1>3. \A n \in 0 .. M : Upto[n] \in Seq(Chars)
  <2> DEFINE Q == {n \in 0 .. M : Upto[n] \in Seq(Chars)}
  <2>1. 0 \in Q
    <3>1. <<>> \in Seq(Chars) /\ 0 \in 0 .. M
      OBVIOUS
    <3> QED BY <1>1, <3>1
  <2>2. ASSUME NEW n \in 0 .. M, n < M, n \in Q PROVE n + 1 \in Q
    <3>1. n \in 0 .. M - 1 /\ n + 1 \in 1 .. M /\ n + 1 \in 0 .. M
      BY <2>2
    <3>2. Upto[n] \in Seq(Chars) /\ line(n + 1) \in Seq(Chars)
      BY <1>2, <2>2, <3>1
    <3>3. Upto[n] \o line(n + 1) \in Seq(Chars)
      BY <3>2
    <3> QED BY <1>1, <3>1, <3>3
  <2> HIDE DEF Q
  <2>3. 0 .. M \subseteq Q
    BY <2>1, <2>2, CountUp
  <2> QED BY <2>3 DEF Q
<1>4. \A n \in 0 .. M : Len(Upto[n]) \in Nat
  BY <1>3
<1>5. ASSUME NEW n \in 0 .. M - 1
      PROVE  /\ Len(Upto[n + 1]) = Len(Upto[n]) + Len(line(n + 1))
             /\ Len(Upto[n]) < Len(Upto[n + 1])
             /\ \A k \in 1 .. Len(Upto[n]) : Upto[n + 1][k] = Upto[n][k]
             /\ \A k \in 1 .. Len(line(n + 1)) :
                  Upto[n + 1][Len(Upto[n]) + k] = line(n + 1)[k]
  <2>1. n \in 0 .. M /\ n + 1 \in 1 .. M /\ n + 1 \in 0 .. M
    OBVIOUS
  <2> DEFINE a == Upto[n]
             b == line(n + 1)
             c == Upto[n + 1]
  <2>2. a \in Seq(Chars) /\ b \in Seq(Chars) /\ Len(b) >= 1 /\ c = a \o b
    BY <1>1, <1>2, <1>3, <2>1
  <2> HIDE DEF a, b, c
  <2>3. JoinOf(c, Chars, a, b)
    BY <2>2, Joined, Zenon
  <2>4. /\ Len(c) = Len(a) + Len(b) /\ Len(a) < Len(c)
        /\ \A k \in 1 .. Len(a) : c[k] = a[k]
        /\ \A k \in 1 .. Len(b) : c[Len(a) + k] = b[k]
    BY <2>2, <2>3 DEF JoinOf
  <2> QED BY <2>4 DEF a, b, c
<1>6. ASSUME NEW n \in 0 .. M
      PROVE  /\ Len(Upto[n]) <= Len(Upto[M])
             /\ \A i \in 1 .. Len(Upto[n]) : Upto[M][i] = Upto[n][i]
  <2> DEFINE Begins(m) == /\ Len(Upto[n]) <= Len(Upto[m])
                          /\ \A i \in 1 .. Len(Upto[n]) : Upto[m][i] = Upto[n][i]
             Left == M - n
             Q == {k \in 0 .. Left : Begins(n + k)}
  <2>0. Left \in Nat /\ n + Left = M /\ Left \in 0 .. Left /\ 0 \in 0 .. Left /\ n + 0 = n
    OBVIOUS
  <2> HIDE DEF Left
  <2>1. 0 \in Q
    <3>1. Begins(n)
      BY <1>4
    <3> HIDE DEF Begins
    <3> QED BY <2>0, <3>1
  <2>2. ASSUME NEW k \in 0 .. Left, k < Left, k \in Q PROVE k + 1 \in Q
    <3> DEFINE m == n + k
    <3>1. m \in 0 .. M - 1 /\ n + (k + 1) = m + 1 /\ k + 1 \in 0 .. Left
          /\ m \in 0 .. M /\ m + 1 \in 0 .. M
      BY <2>0, <2>2
    <3>2. Begins(m)
      BY <2>2
    <3> HIDE DEF m
    <3>3. /\ Len(Upto[m]) < Len(Upto[m + 1])
          /\ \A i \in 1 .. Len(Upto[m]) : Upto[m + 1][i] = Upto[m][i]
      BY <1>5, <3>1
    <3>4. Len(Upto[n]) \in Nat /\ Len(Upto[m]) \in Nat /\ Len(Upto[m + 1]) \in Nat
      BY <1>4, <3>1
    <3>5. Begins(m + 1)
      <4>1. Len(Upto[n]) <= Len(Upto[m + 1])
        BY <3>2, <3>3, <3>4
      <4>2. ASSUME NEW i \in 1 .. Len(Upto[n]) PROVE Upto[m + 1][i] = Upto[n][i]
        <5>1. i \in 1 .. Len(Upto[m])
          BY <3>2, <3>4
        <5> QED BY <3>2, <3>3, <5>1
      <4> QED BY <4>1, <4>2
    <3> HIDE DEF Begins
    <3> QED BY <3>1, <3>5
  <2>3. 0 .. Left \subseteq Q
    <3> HIDE DEF Q
    <3> QED BY <2>0, <2>1, <2>2, CountUp
  <2>4. Begins(M)
    <3>1. Left \in Q
      BY <2>0, <2>3
    <3> HIDE DEF Begins
    <3> QED BY <2>0, <3>1
  <2> QED BY <2>4
<1>7. ASSUME NEW n \in 0 .. M - 1
      PROVE  /\ OptionAt(Upto[M], Len(Upto[n]), s[n + 1])
             /\ Len(Upto[n + 1]) <= Len(Upto[M])
  <2>1. n + 1 \in 0 .. M /\ n \in 0 .. M
    OBVIOUS
  <2>2. /\ Len(Upto[n + 1]) <= Len(Upto[M])
        /\ \A i \in 1 .. Len(Upto[n + 1]) : Upto[M][i] = Upto[n + 1][i]
    BY <1>6, <2>1
  <2> DEFINE d == Len(Upto[n])
             b == line(n + 1)
  <2>3. /\ Len(Upto[n + 1]) = d + Len(b)
        /\ \A k \in 1 .. Len(b) : Upto[n + 1][d + k] = b[k]
    BY <1>5
  <2>4. d \in Nat /\ Len(b) \in Nat
    <3>1. n + 1 \in 1 .. M
      OBVIOUS
    <3> QED BY <1>2, <1>4, <2>1, <3>1
  <2> HIDE DEF d, b
  <2>5. \A k \in 1 .. Len(b) : Upto[M][d + k] = b[k]
    <3> SUFFICES ASSUME NEW k \in 1 .. Len(b) PROVE Upto[M][d + k] = b[k]
      OBVIOUS
    <3>1. d + k \in 1 .. Len(Upto[n + 1])
      BY <2>3, <2>4
    <3> QED BY <2>2, <2>3, <3>1
  <2>6. d + Len(b) <= Len(Upto[M])
    BY <2>2, <2>3
  <2> QED BY <2>2, <2>5, <2>6 DEF OptionAt, d, b, line
<1> QED BY <1>3, <1>4, <1>5, <1>7 DEF line, LinesOf

LEMMA WrittenRead ==
  ASSUME NEW s, NEW M \in Nat, M = Len(s), \A n \in 1 .. M : Writable(s[n]),
         \A i, j \in 1 .. M : s[i].name = s[j].name => i = j
  PROVE  F!parse_config(F!Written(s)) = {s[n] : n \in 1 .. M}
<1> DEFINE Upto == WrittenTo(s)
           Size(n) == Len(Upto[n])
           t == Upto[M]
           u == ConfigFrom(t)
           Rest(n) == {s[j] : j \in n + 1 .. M}
           Q == {k \in 0 .. M : u[Size(M - k) + 1] = Rest(M - k)}
<1>0. Upto = WrittenTo(s)
  OBVIOUS
<1> HIDE DEF Upto
<1>1. /\ \A n \in 0 .. M : Upto[n] \in Seq(Chars) /\ Size(n) \in Nat
      /\ \A n \in 0 .. M - 1 :
           /\ OptionAt(t, Size(n), s[n + 1])
           /\ Size(n + 1) = Size(n) + Len(F!OptionLine(s[n + 1]))
           /\ Size(n) < Size(n + 1) /\ Size(n + 1) <= Size(M)
  <2>1. LinesOf(s, M, Upto)
    BY <1>0, WrittenHolds
  <2> HIDE DEF Upto
  <2> QED BY <2>1 DEF LinesOf
<1>2. F!Written(s) = t /\ Upto[0] = <<>>
  BY <1>0, WrittenStep
<1>3. t \in Seq(Chars) /\ Len(t) \in Nat /\ Len(t) = Size(M) /\ M \in 0 .. M
  <2>1. M \in 0 .. M
    OBVIOUS
  <2> QED BY <1>1, <2>1
<1>4. /\ F!parse_config(t) = u[1] /\ u[Len(t) + 1] = {}
      /\ \A k \in 1 .. Len(t) :
           u[k] = F!parse_option(t, k).option
                    \cup {o \in u[F!parse_option(t, k).end + 1] :
                            \A q \in F!parse_option(t, k).option :
                              o.name # q.name}
  BY <1>3, ConfigStep
<1> HIDE DEF t, u, Size
<1>5. 0 \in Q
  <2>1. M - 0 = M /\ 0 \in 0 .. M
    OBVIOUS
  <2>2. Rest(M) = {}
    <3>1. M + 1 .. M = {}
      OBVIOUS
    <3> QED BY <3>1
  <2> HIDE DEF Rest
  <2> QED BY <1>3, <1>4, <2>1, <2>2
<1>6. ASSUME NEW n \in 0 .. M - 1, u[Size(n + 1) + 1] = Rest(n + 1)
      PROVE  u[Size(n) + 1] = Rest(n)
  <2> DEFINE o == s[n + 1]
             p == Size(n) + 1
             z == Size(n + 1)
  <2>0. n + 1 \in 1 .. M /\ n \in 0 .. M
    OBVIOUS
  <2>1. /\ Writable(o) /\ Size(n) \in Nat /\ p = Size(n) + 1
        /\ z = Size(n) + Len(F!OptionLine(o)) /\ OptionAt(t, Size(n), o)
    BY <1>1, <2>0
  <2>2. p \in 1 .. Len(t)
    <3>1. Size(n) < Size(n + 1) /\ Size(n + 1) <= Len(t) /\ Size(n + 1) \in Nat
      <4>1. n + 1 \in 0 .. M
        OBVIOUS
      <4> QED BY <1>1, <1>3, <4>1
    <3> QED BY <1>3, <2>1, <3>1
  <2> DEFINE d == Size(n)
  <2> HIDE DEF o, p, z, d
  <2>3. /\ Writable(o) /\ d \in Nat /\ p = d + 1
        /\ z = d + Len(F!OptionLine(o)) /\ OptionAt(t, d, o)
    BY <2>1 DEF d
  <2>4. /\ F!parse_option(t, p).end = z /\ F!parse_option(t, p).option = {o}
    BY <1>3, <2>3, OptionRead
  <2>5. u[p] = {o} \cup {x \in u[z + 1] : \A q \in {o} : x.name # q.name}
    BY <1>4, <2>2, <2>4
  <2>6. u[z + 1] = Rest(n + 1)
    BY <1>6 DEF z
  <2>7. \A x \in Rest(n + 1) : x.name # o.name
    <3> SUFFICES ASSUME NEW j \in (n + 1) + 1 .. M PROVE s[j].name # o.name
      OBVIOUS
    <3>1. j \in 1 .. M /\ j # n + 1
      OBVIOUS
    <3> QED BY <2>0, <3>1, Zenon DEF o
  <2>8. Rest(n) = {o} \cup Rest(n + 1)
    <3>1. \A j \in Int : j \in n + 1 .. M <=> j = n + 1 \/ j \in (n + 1) + 1 .. M
      BY <2>0
    <3>2. n + 1 \in n + 1 .. M
      BY <2>0
    <3>3. \A x : x \in Rest(n) => x \in {o} \cup Rest(n + 1)
      BY <3>1 DEF o
    <3>4. \A x : x \in {o} \cup Rest(n + 1) => x \in Rest(n)
      BY <3>1, <3>2 DEF o
    <3> HIDE DEF Rest
    <3> QED BY <3>3, <3>4
  <2> HIDE DEF Rest
  <2>9. {x \in u[z + 1] : \A q \in {o} : x.name # q.name} = Rest(n + 1)
    BY <2>6, <2>7, Zenon
  <2>10. u[p] = Rest(n)
    BY <2>5, <2>8, <2>9, Zenon
  <2> QED BY <2>10 DEF p
<1>7. ASSUME NEW k \in 0 .. M, k < M, k \in Q PROVE k + 1 \in Q
  <2> DEFINE n == M - (k + 1)
  <2>1. n \in 0 .. M - 1 /\ n + 1 = M - k /\ k + 1 \in 0 .. M
    BY <1>7
  <2> HIDE DEF Rest
  <2>2. u[Size(M - k) + 1] = Rest(M - k)
    BY <1>7
  <2>3. u[Size(n) + 1] = Rest(n)
    <3> HIDE DEF n
    <3>1. u[Size(n + 1) + 1] = Rest(n + 1)
      BY <2>1, <2>2
    <3> QED BY <1>6, <2>1, <3>1
  <2> QED BY <2>1, <2>3
<1>8. M \in Q
  <2> HIDE DEF Q
  <2>1. 0 .. M \subseteq Q
    BY <1>5, <1>7, CountUp
  <2> QED BY <1>3, <2>1
<1>9. u[1] = Rest(0)
  <2>1. Size(0) = 0 /\ M - M = 0 /\ Size(0) + 1 = 1
    BY <1>2 DEF Size
  <2>2. u[Size(M - M) + 1] = Rest(M - M)
    <3> HIDE DEF Rest
    <3> QED BY <1>8
  <2> HIDE DEF Rest
  <2> QED BY <2>1, <2>2
<1>10. Rest(0) = {s[n] : n \in 1 .. M}
  OBVIOUS
<1> HIDE DEF Rest
<1> QED BY <1>2, <1>4, <1>9, <1>10

\* Every order of a finite set is a sequence of its elements, each once.
LEMMA Orders ==
  ASSUME NEW S, IsFiniteSet(S), NEW f \in F!SetToSeqs(S)
  PROVE  /\ Len(f) \in Nat /\ S = {f[n] : n \in 1 .. Len(f)}
         /\ \A n \in 1 .. Len(f) : f[n] \in S
         /\ \A i, j \in 1 .. Len(f) : f[i] = f[j] => i = j
<1> DEFINE n == Cardinality(S)
           Within == 1 .. n
<1>1. n \in Nat
  BY FS_CardinalityType
<1>2. f \in [Within -> S] /\ \A i, j \in Within : i # j => f[i] # f[j]
  BY SameSize DEF F!SetToSeqs
<1> HIDE DEF n
<1>3. Len(f) = n
  BY <1>1, <1>2
<1>4. IsFiniteSet(Within) /\ Cardinality(Within) = n
  <2>1. 1 \in Int /\ n \in Int
    BY <1>1
  <2>2. IsFiniteSet(Within) /\ Cardinality(Within) = IF 1 > n THEN 0 ELSE n - 1 + 1
    BY <2>1, FS_Interval
  <2> QED BY <1>1, <2>2
<1> HIDE DEF Within
<1>5. f \in Injection(Within, S)
  BY <1>2 DEF Injection, IsInjective
<1>6. f \in Surjection(Within, S)
  BY <1>4, <1>5, FS_Injection DEF n
<1>7. \A y \in S : \E x \in Within : f[x] = y
  BY <1>6 DEF Surjection
<1>8. S = {f[x] : x \in Within}
  BY <1>2, <1>7
<1> QED BY <1>1, <1>2, <1>3, <1>8 DEF Within
-----------------------------------------------------------------------------
LEMMA ReadsBack ==
  ASSUME text \in Seq(Chars)
  PROVE  SavedConfigReadsBack
<1> DEFINE Saved == {o \in F!parse_config(text) : o.value # <<>>}
<1> SUFFICES ASSUME F!Plain(text), \A o \in Saved : ~F!Blank(o.value)
             PROVE  /\ \A o \in Saved : o.value[1] = "[" =>
                         F!Count(o.value, 1, Len(o.value), "[") =
                           F!Count(o.value, 1, Len(o.value), "]")
                    /\ \A order \in F!SetToSeqs(Saved) :
                         F!parse_config(F!Written(order)) = Saved
  BY DEF SavedConfigReadsBack, F!SavedConfigReadsBack
<1>0. Len(text) \in Nat
  OBVIOUS
<1>1. /\ IsFiniteSet(F!parse_config(text))
      /\ \A o, q \in F!parse_config(text) : o.name = q.name => o = q
      /\ \A o \in F!parse_config(text) :
           \E p \in 1 .. Len(text) : o \in F!parse_option(text, p).option
  BY <1>0, ConfigHolds
<1>2. ASSUME NEW o \in Saved PROVE Writable(o)
  <2>1. PICK p \in 1 .. Len(text) : o \in F!parse_option(text, p).option
    BY <1>1
  <2>2. p \in 1 .. Len(text) + 1
    BY <1>0
  <2> HIDE DEF Saved
  <2> QED BY <1>2, <2>1, <2>2, ReadOption
<1>3. IsFiniteSet(Saved) /\ \A o, q \in Saved : o.name = q.name => o = q
  <2>1. Saved \in SUBSET F!parse_config(text)
    OBVIOUS
  <2> HIDE DEF Saved
  <2>2. IsFiniteSet(Saved)
    BY <1>1, <2>1, FS_Subset
  <2>3. \A o, q \in Saved : o.name = q.name => o = q
    BY <1>1, <2>1, Zenon
  <2> QED BY <2>2, <2>3
<1> HIDE DEF Saved
<1>4. ASSUME NEW o \in Saved, o.value[1] = "["
      PROVE  F!Count(o.value, 1, Len(o.value), "[") =
               F!Count(o.value, 1, Len(o.value), "]")
  <2> DEFINE v == o.value
  <2>1. ValueReads(v) /\ v[1] = "["
    BY <1>2, <1>4, Zenon DEF Writable
  <2> HIDE DEF v
  <2>2. Even(v, 1, Len(v))
    BY <2>1 DEF ValueReads
  <2> QED BY <2>2 DEF Even, v
<1>5. ASSUME NEW s \in F!SetToSeqs(Saved)
      PROVE  F!parse_config(F!Written(s)) = Saved
  <2> DEFINE M == Len(s)
  <2>1. /\ M \in Nat /\ Saved = {s[n] : n \in 1 .. M}
        /\ \A n \in 1 .. M : s[n] \in Saved
        /\ \A i, j \in 1 .. M : s[i] = s[j] => i = j
    BY <1>3, Orders
  <2>2. M = Len(s)
    OBVIOUS
  <2> HIDE DEF M
  <2>3. \A n \in 1 .. M : Writable(s[n])
    BY <1>2, <2>1
  <2>4. \A i, j \in 1 .. M : s[i].name = s[j].name => i = j
    BY <1>3, <2>1, Zenon
  <2>5. F!parse_config(F!Written(s)) = {s[n] : n \in 1 .. M}
    BY <2>1, <2>2, <2>3, <2>4, WrittenRead
  <2> QED BY <2>1, <2>5
<1> QED BY <1>4, <1>5

OfChars == text \in Seq(Chars)

LEMMA TextInit == AccessInit => OfChars
<1>1. <<>> \in Seq(Chars)
  OBVIOUS
<1> QED BY <1>1 DEF AccessInit, F!Init, OfChars

LEMMA TextNext ==
  OfChars
    /\ [AccessNext]_<<part, vars, webVars, configVars, pointerVars,
                      gamepadVars, captureVars, castVars, rtspVars>>
  => OfChars'
<1> SUFFICES ASSUME text \in Seq(Chars),
                    [AccessNext]_<<part, vars, webVars, configVars,
                                   pointerVars, gamepadVars, captureVars,
                                   castVars, rtspVars>>
             PROVE  text' \in Seq(Chars)
  BY DEF OfChars
<1>1. CASE UNCHANGED configVars
  BY <1>1 DEF configVars
<1>2. CASE F!Edits
  <2>1. PICK piece \in Pieces : text' = text \o piece
    BY <1>2 DEF F!Edits, F!Type
  <2>2. Pieces \subseteq Seq(Chars)
    <3>1. \A x, y \in Chars : <<x, y>> \in Seq(Chars) /\ <<x>> \in Seq(Chars)
      OBVIOUS
    <3> QED BY <3>1, Zenon DEF Pieces, Chars
  <2> QED BY <2>1, <2>2
<1>3. F!Edits \/ UNCHANGED configVars
  BY DEF AccessNext
<1> QED BY <1>1, <1>2, <1>3

(* Of a text of any length: a list is read to the bracket that closes it,  *)
(* and the file that saveConfig writes, of what getConfig has read and in  *)
(* any order, is read by parse_config as the same options.                 *)
THEOREM SavedConfigRead == AccessSpec => []SavedConfigReadsBack
<1>1. OfChars => SavedConfigReadsBack
  BY ReadsBack DEF OfChars
<1> QED BY <1>1, TextInit, TextNext, PTL DEF AccessSpec
=============================================================================
