-------------------------------- MODULE Http --------------------------------
(***************************************************************************)
(* The session operations of src/http.c over the send side of              *)
(* src/socket.c, as operators on the record of one connection.  A socket   *)
(* send may fail, so an operation maps a connection to the set of          *)
(* connections it can leave behind.  The state machine that calls these    *)
(* operators is module Session.                                            *)
(***************************************************************************)
EXTENDS Integers, Sequences

CONSTANTS
  NRoutes,      \* length of the list ews_route_append built
  SendFaults,   \* how send() may fail: a subset of {"again", "reset"}
  Tls,          \* which of the two ews_sock_ops tables the socket uses
  SendLen,      \* length a handler passes to send()
  DeclaredLen   \* the Content-Length a handler declares

ASSUME HttpConstants ==
  /\ NRoutes \in Nat
  /\ SendFaults \subseteq {"again", "reset"}
  /\ Tls \in BOOLEAN
  /\ SendLen \in Nat \ {0}
  /\ DeclaredLen \in Nat

-----------------------------------------------------------------------------
(* Constants of the source.                                                *)

\* enum ews_sess_state: the low bits index the dispatch tables of do_read and
\* do_write, the bits 0x30 say which of the two applies.
REQUEST_BEGIN   == 0
REQUEST_HEADER  == 1
REQUEST_BODY    == 2
RESPONSE_BEGIN  == 16
RESPONSE_HEADER == 17
RESPONSE_BODY   == 18
SessState == {REQUEST_BEGIN, REQUEST_HEADER, REQUEST_BODY,
              RESPONSE_BEGIN, RESPONSE_HEADER, RESPONSE_BODY}

NoRoute == 0                 \* a NULL route
R404    == NRoutes + 1       \* ews_route_404, outside the list
Route   == 1..R404
Stray   == R404 + 1          \* owner after a FINALIZE nobody was due

SIZE_MAX  == -1              \* request->length before a Content-Length
SockFlag  == {"INUSE", "CONNECTED", "SHUTDOWN", "PEND_CLOSE"}
HttpFlag  == {"KEEPALIVE", "REQUEST_CHUNKED", "REQUEST_CHUNKED_LINE",
              "RESPONSE_CHUNKED"}
RouteStatus == {"ERROR", "CLOSE", "NOT_FOUND", "FOUND", "NEXT", "DONE", "MORE"}
HeaderOp  == {"header", "close", "keepalive", "length", "chunked"}
Op        == HeaderOp \cup {"status", "error", "send", "recv", "recv1"}

-----------------------------------------------------------------------------
(* The connection.                                                         *)

\* data->block, and its state after the memset of finalize.  The lengths are
\* counted in input units (Session) and in units of SendLen.
Block == [state : SessState, version : 0..2, route : 0..R404,
          flags : SUBSET HttpFlag, length : Nat \cup {SIZE_MAX},
          chunkSize : Nat, chunkPos : Nat, boundary : BOOLEAN, left : Nat]
ZeroBlock == [state |-> REQUEST_BEGIN, version |-> 0, route |-> NoRoute,
              flags |-> {}, length |-> 0, chunkSize |-> 0, chunkPos |-> 0,
              boundary |-> FALSE, left |-> 0]

\* What the peer has seen of the response stream.  owed is what is left of the
\* declared body, or one of these two:
Unbounded == -1              \* delimited by the end of the stream
Chunked   == -2              \* delimited by the chunk framing
Wire == [at : {"idle", "head", "body", "lost", "garbled"}, owed : Int]

\* sock, block, chunkLen are the program's; the rest is history: what the peer
\* saw (wire), the route whose FINALIZE is due (owner), boundaries not freed
\* (heap), whether the peer is owed an answer (waiting), and the undefined
\* behaviour the program ran into (fault).
Fault == {"none", "null_route", "recursion", "underflow", "uninit"}
Conn == [sock : SUBSET SockFlag, block : Block, chunkLen : Nat, wire : Wire,
         owner : 0..Stray, heap : Int, waiting : BOOLEAN, fault : Fault]

Least(a, b) == IF a <= b THEN a ELSE b
Is(c, flag) == flag \in c.block.flags
PendClose(c) == [c EXCEPT !.sock = @ \cup {"PEND_CLOSE"}]

-----------------------------------------------------------------------------
(* The peer's reading of the response: a status line, header lines, a      *)
(* blank line, and a body of the declared extent.                          *)

Complete(w) == w.at = "idle" \/ (w.at = "body" /\ w.owed = 0)

Legal(w, piece, n) ==
  \/ piece = "status" /\ Complete(w)
  \/ piece \in HeaderOp \cup {"blank", "errhead"} /\ w.at = "head"
  \/ piece = "data" /\ w.at = "body" /\ (w.owed < 0 \/ n <= w.owed)
  \/ piece \in {"frame", "last"} /\ w.at = "body" /\ w.owed = Chunked

WireStep(w, piece, n) ==
  IF w.at = "lost" THEN w
  ELSE IF ~Legal(w, piece, n) THEN [w EXCEPT !.at = "garbled"]
  ELSE CASE piece = "status"    -> [at |-> "head", owed |-> Unbounded]
         [] piece = "length"    -> [w EXCEPT !.owed = n]
         [] piece = "chunked"   -> [w EXCEPT !.owed = Chunked]
         [] piece = "blank"     -> [w EXCEPT !.at = "body"]
         [] piece = "errhead"   -> [at |-> "body", owed |-> n]
         [] piece = "data" /\ w.owed >= 0 -> [w EXCEPT !.owed = @ - n]
         [] piece = "last"      -> [w EXCEPT !.at = "idle"]
         [] OTHER               -> w

-----------------------------------------------------------------------------
(* The socket's send, and the operations of http.c.                        *)

\* Mutant of Failed: the comparison errno == ECONNRESET that was meant.
FailedAsMeant(c, error) ==
  LET d == [c EXCEPT !.wire.at = "lost"]
  IN IF error = "again" THEN d ELSE PendClose(d)

\* What a failed send leaves.  The plain socket tests "errno = ECONNRESET", an
\* assignment, so EAGAIN too falls through to PEND_CLOSE; TLS returns early.
Failed(c, error) ==
  LET d == [c EXCEPT !.wire.at = "lost"]
  IN IF Tls /\ error = "again" THEN d ELSE PendClose(d)

\* ews_sock_send and ews_sock_send_tls: the connections after a send, by outcome.
SendOk(c, piece, n) ==
  IF "SHUTDOWN" \in c.sock THEN {}
  ELSE {[c EXCEPT !.wire = WireStep(@, piece, n)]}
SendFail(c) ==
  IF "SHUTDOWN" \in c.sock THEN {c} ELSE {Failed(c, e) : e \in SendFaults}

Shutdown(c) == [c EXCEPT !.sock = @ \cup {"SHUTDOWN"}]

\* Mutant of Release: the block is zeroed and the boundary not freed.
ReleaseLeaking(c) ==
  LET d == [c EXCEPT !.block = ZeroBlock,
                     !.owner = IF c.block.route = NoRoute THEN @
                               ELSE IF @ = c.block.route THEN NoRoute ELSE Stray,
                     !.waiting = FALSE]
  IN IF Is(c, "KEEPALIVE") THEN d ELSE Shutdown(d)

\* Mutant of Release: the block is zeroed first, so nothing else is seen to be due.
ReleaseReversed(c) ==
  Shutdown([c EXCEPT !.block = ZeroBlock, !.waiting = FALSE])

\* The end of finalize: the route's FINALIZE call, the half-close, the free of
\* the boundary and the memset of the block.
Release(c) ==
  LET b == c.block
      d == [c EXCEPT !.block = ZeroBlock,
                     !.heap = IF b.boundary THEN @ - 1 ELSE @,
                     !.owner = IF b.route = NoRoute THEN @
                               ELSE IF @ = b.route THEN NoRoute ELSE Stray,
                     !.waiting = FALSE]
  IN IF "KEEPALIVE" \in b.flags THEN d ELSE Shutdown(d)

\* finalize.  A failed send of the last chunk calls finalize again with nothing
\* changed: it recurses until a send succeeds, and the frames that return to
\* find a zeroed block half-close the socket; if none succeeds it never ends.
Finalize(c) ==
  IF c.block.state = REQUEST_BEGIN THEN {c}
  ELSE IF c.block.state = RESPONSE_BODY /\ Is(c, "RESPONSE_CHUNKED")
  THEN {Release(d) : d \in SendOk(c, "last", 0)}
       \cup {Shutdown(Release(d)) :
               d \in UNION {SendOk(f, "last", 0) : f \in SendFail(c)}}
       \cup {[f EXCEPT !.fault = "recursion"] : f \in SendFail(c)}
  ELSE {Release(c)}

FinalizeAll(S) == UNION {Finalize(c) : c \in S}

\* http_raw_send
RawSend(c, piece, n) == SendOk(c, piece, n) \cup FinalizeAll(SendFail(c))
RawSendAll(S, piece, n) == UNION {RawSend(c, piece, n) : c \in S}

\* http_status: silent for HTTP/0.9.  The EWS_SOCK_FLAG_PEND_CLOSE it ORs into
\* the 8-bit block flags when it is called late is lost.
HttpStatus(c) ==
  IF c.block.version = 0 THEN {c}
  ELSE IF c.block.state > RESPONSE_BEGIN THEN Finalize(c)
  ELSE RawSend(c, "status", 0)

\* http_error: status, headers and body go out one by one, whatever became of
\* the ones before.  An error body counts one unit.
HttpError(c) ==
  IF c.block.state <= RESPONSE_BEGIN /\ c.block.version > 0
  THEN FinalizeAll(RawSendAll(RawSendAll(HttpStatus(c), "errhead", 1), "data", 1))
  ELSE Finalize(c)

\* http_header
HttpHeader(c, h) ==
  IF c.block.state # RESPONSE_HEADER THEN HttpError(c)
  ELSE RawSend(
    [c EXCEPT !.block.flags = CASE h = "close"     -> @ \ {"KEEPALIVE"}
                                [] h = "keepalive" -> @ \cup {"KEEPALIVE"}
                                [] h = "chunked"   -> @ \cup {"RESPONSE_CHUNKED"}
                                [] OTHER           -> @,
              !.block.left = IF h = "length" THEN DeclaredLen ELSE @],
    h, DeclaredLen)

\* Mutant of HttpSend: the length is not clamped.
HttpSendUnclamped(c) ==
  IF c.block.state # RESPONSE_BODY THEN HttpError(c)
  ELSE {[d EXCEPT !.block.left =
             IF @ > 0 /\ ~Is(c, "RESPONSE_CHUNKED") THEN @ - SendLen ELSE @] :
          d \in RawSend(c, "data", SendLen)}

\* http_send: a chunk is three sends, of which the second and the third find or
\* leave the same; otherwise the length is clamped to what is left of the declared
\* one, unless nothing is left.
HttpSend(c) ==
  IF c.block.state # RESPONSE_BODY THEN HttpError(c)
  ELSE IF Is(c, "RESPONSE_CHUNKED")
  THEN RawSendAll(SendOk(c, "frame", 0), "data", SendLen)
       \cup FinalizeAll(SendFail(c))
  ELSE LET left == c.block.left
           len  == IF left > 0 THEN Least(SendLen, left) ELSE SendLen
       IN {[d EXCEPT !.block.left = IF left > 0 THEN @ - len ELSE @] :
             d \in SendOk(c, "data", len)}
          \cup FinalizeAll(SendFail(c))

\* http_recv, of the whole chunk or of one unit of it
HttpRecv(c, len) == [c EXCEPT !.chunkLen = @ - Least(len, @)]

SessionOp(c, op) ==
  CASE op = "status" -> HttpStatus(c)
    [] op = "error"  -> HttpError(c)
    [] op = "send"   -> HttpSend(c)
    [] op = "recv"   -> {HttpRecv(c, c.chunkLen)}
    [] op = "recv1"  -> {HttpRecv(c, 1)}
    [] OTHER         -> HttpHeader(c, op)

-----------------------------------------------------------------------------
(* call_handler, from the handler's return on.                             *)

\* Mutant of Advance: NEXT goes on from the state of the headers too.
AdvanceRequests(c) ==
  CASE c.block.state \in {REQUEST_HEADER, RESPONSE_BEGIN} ->
         {[c EXCEPT !.block.state = @ + 1]}
    [] c.block.state = RESPONSE_HEADER ->
         {[d EXCEPT !.block.state = RESPONSE_BODY] : d \in RawSend(c, "blank", 0)}
    [] c.block.state = RESPONSE_BODY -> Finalize(c)
    [] OTHER -> {c}

\* The NEXT status.  The blank line's failure finalizes, and the state is set
\* to RESPONSE_BODY all the same, in a block whose route is now NULL.
Advance(c) ==
  CASE c.block.state = RESPONSE_BEGIN ->
         {[c EXCEPT !.block.state = RESPONSE_HEADER]}
    [] c.block.state = RESPONSE_HEADER ->
         {[d EXCEPT !.block.state = RESPONSE_BODY] : d \in RawSend(c, "blank", 0)}
    [] c.block.state = RESPONSE_BODY -> Finalize(c)
    [] OTHER -> {c}

\* The connections a status leaves.
AfterStatus(c, status) ==
  LET begun == c.block.state > REQUEST_BEGIN
  IN CASE status = "ERROR" ->
            IF begun THEN HttpError(PendClose(c)) ELSE {PendClose(c)}
       [] status = "CLOSE" ->
            IF begun THEN Finalize(PendClose(c)) ELSE {PendClose(c)}
       [] status \in {"FOUND", "NOT_FOUND"} ->
            IF begun THEN HttpError(c) ELSE {c}
       [] status = "NEXT" -> Advance(c)
       [] status = "DONE" -> Finalize(c)
       [] status = "MORE" ->
            IF c.block.state \in {RESPONSE_HEADER, RESPONSE_BODY} THEN {c}
            ELSE IF begun THEN HttpError(PendClose(c)) ELSE {PendClose(c)}

\* The status call_handler returns.
ReturnedStatus(c, status) ==
  IF /\ c.block.state > REQUEST_BEGIN
     /\ \/ status \in {"FOUND", "NOT_FOUND"}
        \/ status = "MORE" /\ c.block.state \notin {RESPONSE_HEADER, RESPONSE_BODY}
  THEN "ERROR" ELSE status
=============================================================================
