-------------------------- MODULE RtspConnection --------------------------
(***************************************************************************)
(* How the RTSP server puts a request together from what its socket        *)
(* delivers (socket_t of src/rtsp.cpp): in plain text, which comes in      *)
(* reads of any size, or sealed, behind a header that tells its length.    *)
(* A connection carries one request; each has a buffer of its own.         *)
(*                                                                         *)
(* Of a request its lengths are known: that of its header, whose last      *)
(* Needle bytes are the blank line that ends it, and that of its payload.  *)
(***************************************************************************)
EXTENDS Naturals

CONSTANTS
  BufSize,               \* msg_buf.size()
  Needle,                \* the length of "\r\n\r\n"
  Overhead,              \* sizeof(encrypted_rtsp_header_t): between the two
  MaxHeader, MaxPayload  \* bounds

VARIABLES
  at,       \* what the socket waits for: "read", "payload", "header" or
            \* "body"; or "handled", "refused", "closed"; "idle" at first
  cipher,   \* the session has rtsp_cipher
  request,  \* what the client sends
  begin,    \* how much of it is in msg_buf
  crlf,     \* where its payload begins
  got,      \* how much of it was handed on
  split     \* history: a read has ended inside the blank line

vars == <<at, cipher, request, begin, crlf, got, split>>

\* `tells': it has a Content-length; `sound': it can be parsed, and
\* decrypted where it is sealed.
Requests ==
  {r \in [sealed : BOOLEAN, header : Needle..MaxHeader,
          payload : 0..MaxPayload, tells : BOOLEAN, sound : BOOLEAN] :
     r.sealed => r.header = Overhead /\ r.tells}

Length == request.header + request.payload

NoRequest ==
  [sealed |-> FALSE, header |-> Needle, payload |-> 0, tells |-> FALSE,
   sound |-> FALSE]

Init ==
  /\ at = "idle" /\ cipher = FALSE /\ request = NoRequest
  /\ begin = 0 /\ crlf = 0 /\ got = 0 /\ split = FALSE

\* handle_accept and read, for a session with or without a cipher.
Connect(r, encrypts) ==
  /\ at = "idle"
  /\ request' = r /\ cipher' = encrypts
  /\ at' = IF encrypts THEN "header" ELSE "read"
  /\ UNCHANGED <<begin, crlf, got, split>>

\* async_read_some: as much as has come and there is room for.
Room == (IF Length < BufSize THEN Length ELSE BufSize) - begin

\* read and read_plaintext_payload refuse what the buffer cannot hold.
AwaitMore(state, end) ==
  /\ begin' = end
  /\ at' = IF end = BufSize THEN "refused" ELSE state
  /\ UNCHANGED got

\* The blank line is looked for in what this read has brought.
FoundIn(end) ==
  ~request.sealed /\ begin + Needle <= request.header /\ request.header <= end

\* Content-length, as far as it can be understood.
Needs == IF request.tells THEN request.payload ELSE 0

\* mutant: forgets that crlf is the beginning of the payload
EnoughOfAll(from, end) == end >= Needs

EnoughButOne(from, end) == end + 1 - from >= Needs   \* mutant: off by one

Enough(from, end) == end - from >= Needs

(* handle_plaintext_payload, with the header at hand.                      *)
Judge(from, end) ==
  /\ crlf' = from
  /\ IF ~request.sound THEN at' = "refused" /\ UNCHANGED <<begin, got>>
     ELSE IF Enough(from, end)
       THEN at' = "handled" /\ got' = end /\ begin' = end
     ELSE AwaitMore("payload", end)

(* handle_read_plaintext.                                                  *)
ReadPlaintext(n) ==
  LET end == begin + n
  IN /\ at = "read" /\ n <= Room
     /\ IF FoundIn(end) THEN Judge(request.header, end) /\ UNCHANGED split
        ELSE /\ AwaitMore("read", end) /\ UNCHANGED crlf
             /\ split' = (split \/ (/\ request.header - Needle < end
                                    /\ end < request.header))
     /\ UNCHANGED <<cipher, request>>

ReadPayload(n) ==
  /\ at = "payload" /\ n <= Room
  /\ Judge(crlf, begin + n)
  /\ UNCHANGED <<cipher, request, split>>

FitsAnyway == TRUE   \* mutant: the length is believed

FitsBuffer == Overhead + request.payload < BufSize

(* handle_read_encrypted_header: all of it, once it is there.              *)
ReadEncryptedHeader ==
  /\ at = "header" /\ Length >= Overhead
  /\ at' = IF request.sealed /\ FitsBuffer THEN "body" ELSE "refused"
  /\ UNCHANGED <<cipher, request, begin, crlf, got, split>>

(* handle_read_encrypted_message: the tag, and parse_rtsp_message_safe,    *)
(* which wants room for a blank line.                                      *)
ReadEncryptedMessage ==
  /\ at = "body"
  /\ IF request.sound /\ request.payload >= Needle
     THEN at' = "handled" /\ got' = Length
     ELSE at' = "refused" /\ UNCHANGED got
  /\ UNCHANGED <<cipher, request, begin, crlf, split>>

\* The client goes, or the connection breaks: a read fails.
Breaks ==
  /\ at \in {"read", "payload", "header", "body"} /\ at' = "closed"
  /\ UNCHANGED <<cipher, request, begin, crlf, got, split>>

Next ==
  \/ \E r \in Requests, encrypts \in BOOLEAN : Connect(r, encrypts)
  \/ \E n \in 1..BufSize : ReadPlaintext(n) \/ ReadPayload(n)
  \/ ReadEncryptedHeader \/ ReadEncryptedMessage \/ Breaks

Spec == Init /\ [][Next]_vars

-----------------------------------------------------------------------------
TooLong ==
  IF cipher THEN Length >= BufSize ELSE Length > BufSize

(* The commands are given what the client sent, whole, however it came,    *)
(* when it tells its length, and only in the form agreed upon.             *)
HandledIsWhole ==
  at = "handled" =>
    /\ request.sound /\ request.sealed = cipher
    /\ request.tells => got = Length

(* No read goes past the end of the buffer.                                *)
ReadsFit ==
  /\ begin + (IF at \in {"read", "payload"} THEN Room ELSE 0) <= BufSize
  /\ at = "body" => Length <= BufSize

(* The server does not wait for more of a request that is there, up to one *)
(* whose blank line came in two reads, which is never found, or one that   *)
(* is sealed when it should not be.                                        *)
WholeIsHandled ==
  at \in {"read", "payload"} /\ begin = Length => split \/ request.sealed

(* Nothing that is right is refused, up to such a blank line again.        *)
RefusedIsWrong ==
  at = "refused" =>
    \/ ~request.sound \/ request.sealed # cipher \/ TooLong \/ split
    \/ cipher /\ request.payload < Needle

RequestsAreWhole ==
  HandledIsWhole /\ ReadsFit /\ WholeIsHandled /\ RefusedIsWrong

-----------------------------------------------------------------------------
(* What it rests on: how far each state has got.                           *)
TypeOK ==
  /\ at \in {"idle", "read", "payload", "header", "body", "handled",
            "refused", "closed"}
  /\ cipher \in BOOLEAN /\ request \in Requests \cup {NoRequest}
  /\ begin \in Nat /\ crlf \in Nat /\ got \in Nat /\ split \in BOOLEAN

\* What was read is there and has room; before the first read there is none.
BeginFits ==
  /\ begin <= Length /\ begin <= BufSize
  /\ at \in {"idle", "header", "body"} => begin = 0
  /\ at \in {"read", "payload"} => begin < BufSize

\* The form that is waited for is that of the session.
FormFits ==
  /\ at \in {"read", "payload"} => ~cipher
  /\ at \in {"header", "body"} => cipher
  /\ at = "body" => request.sealed /\ FitsBuffer

\* Past the beginning of the blank line it has been found, or never will be.
LineIsFound ==
  /\ at = "read" /\ begin > request.header - Needle =>
       split \/ request.sealed
  /\ at = "payload" =>
       /\ ~request.sealed /\ request.sound
       /\ crlf = request.header /\ crlf <= begin /\ ~Enough(crlf, begin)

IInv ==
  /\ TypeOK /\ BeginFits /\ FormFits /\ LineIsFound
  /\ HandledIsWhole /\ RefusedIsWrong
=============================================================================
