------------------------------- MODULE Session -------------------------------
(***************************************************************************)
(* One client connection: the http_sock_evt callbacks of src/http.c        *)
(* (on_connect, do_read, do_write, on_close) as the worker's select loop    *)
(* (src/worker.c) calls them, the user's route handlers, and the peer.     *)
(*                                                                         *)
(* Input is a sequence of units: a line without its end ("line", a header, *)
(* "size"), "crlf", one unit of body "data", or "junk" that ends nothing.  *)
(* n is the HTTP version, the length or the size a line gives; the numbers *)
(* in the last two may be negative.                                        *)
(***************************************************************************)
EXTENDS Http

CONSTANTS
  BufSize,      \* CONFIG_EWS_SESSION_BUFSIZE, in units
  Streams,      \* the inputs: each a sequence of requests, each of units
  Handlers,     \* what each appended route's handler may do
  CatchAll,     \* whether the last route's pattern matches every path
  SizeRange,    \* how many values a size_t has
  Pipelining,   \* whether the peer sends before it has its answer
  AllocFails    \* whether strdup can fail

Kind == {"line", "nopath", "badversion", "crlf", "header", "badheader", "close",
         "keepalive", "length", "chunked", "multipart", "size", "data", "junk"}
Unit == {u \in [k : Kind, n : Int] : /\ u.k = "line" => u.n \in 0..2
                                     /\ 0 <= SizeRange + u.n}
Behaviour == SessState \X Seq(Op) \X RouteStatus

ASSUME SessionConstants ==
  /\ BufSize \in Nat \ {0, 1}
  /\ SizeRange \in Nat
  /\ Streams \subseteq Seq(Seq(Unit))
  /\ Handlers \in [1..NRoutes -> SUBSET Behaviour]
  /\ CatchAll \in BOOLEAN
  /\ Pipelining \in BOOLEAN
  /\ AllocFails \in BOOLEAN

-----------------------------------------------------------------------------
(* The handlers of src/route.c: <<state, session operations, status>>.     *)

NotFoundHandler ==
  {<<REQUEST_BEGIN, <<>>, "FOUND">>, <<REQUEST_HEADER, <<>>, "NEXT">>,
   <<REQUEST_BODY, <<>>, "NEXT">>, <<RESPONSE_BEGIN, <<"error">>, "DONE">>,
   <<RESPONSE_HEADER, <<>>, "DONE">>, <<RESPONSE_BODY, <<>>, "DONE">>}

TestHandler ==
  {<<REQUEST_BEGIN, <<>>, "FOUND">>, <<REQUEST_HEADER, <<>>, "NEXT">>,
   <<REQUEST_BODY, <<"recv">>, "NEXT">>,
   <<RESPONSE_BEGIN, <<"status">>, "NEXT">>,
   <<RESPONSE_HEADER, <<"chunked">>, "NEXT">>,
   <<RESPONSE_BODY, <<"send">>, "DONE">>}

BehavioursOf(route) == IF route = R404 THEN NotFoundHandler ELSE Handlers[route]

-----------------------------------------------------------------------------
VARIABLES
  conn,      \* the connection record of Http
  pc,        \* where the worker is in its work on this connection
  call,      \* the handler call under way: caller, operations left, status
  buf,       \* the buflen unread units of data->buf, from data->bufpos on
  bufpos,
  net,       \* sent by the peer, not yet received
  later      \* the requests the peer has still to send

vars == <<conn, pc, call, buf, bufpos, net, later>>

Pc == {"accepted", "select", "again", "parse", "match", "handler", "done",
       "closed", "halted"}
Caller == {"none", "begin", "begin404", "header", "body", "response"}
Call == [by : Caller, ops : Seq(Op), status : RouteStatus]
Idle == [by |-> "none", ops |-> <<>>, status |-> "DONE"]

\* The type invariant.
TypeOK ==
  /\ conn \in Conn
  /\ pc \in Pc
  /\ call \in Call
  /\ buf \in Seq(Unit)
  /\ bufpos \in Nat
  /\ net \in Seq(Unit)
  /\ later \in Seq(Seq(Unit))

\* do_read of the listener: the slot is zeroed, and the socket is in use.
Init ==
  /\ conn = [sock |-> {"INUSE"}, block |-> ZeroBlock, chunkLen |-> 0,
             wire |-> [at |-> "idle", owed |-> Unbounded], owner |-> NoRoute,
             heap |-> 0, waiting |-> FALSE, fault |-> "none"]
  /\ pc = "accepted"
  /\ call = Idle
  /\ buf = <<>>
  /\ bufpos = 0
  /\ net = <<>>
  /\ later \in Streams

-----------------------------------------------------------------------------
(* Control.                                                                *)

\* Go on from connection d at control point p; undefined behaviour stops here.
Goto(d, p) ==
  /\ conn' = d
  /\ pc' = IF d.fault = "none" THEN p ELSE "halted"

\* A parser of do_read returns true: do_read returns too when the socket is to
\* be closed, and goes to its label done otherwise.
ReturnTrue(d) == Goto(d, IF "PEND_CLOSE" \in d.sock THEN "select" ELSE "done")

\* call_handler up to the handler's first step: what it will do is chosen here.
CallHandler(d, caller) ==
  IF d.block.route = NoRoute
  THEN /\ Goto([d EXCEPT !.fault = "null_route"], "halted")
       /\ UNCHANGED call
  ELSE \E b \in BehavioursOf(d.block.route) :
         /\ b[1] = d.block.state
         /\ call' = [by |-> caller, ops |-> b[2], status |-> b[3]]
         /\ Goto(d, "handler")

\* http_error, with the socket marked for closing after it
Reject(c) == {PendClose(d) : d \in HttpError(c)}

Crlfs(s) == {i \in DOMAIN s : s[i].k = "crlf"}
LineEnd(s) == CHOOSE i \in Crlfs(s) : \A j \in Crlfs(s) : i <= j
LineKind(s) == IF Crlfs(s) = {} THEN "none"
               ELSE IF LineEnd(s) = 1 THEN "blank"
               ELSE IF LineEnd(s) = 2 THEN s[1].k ELSE "junk"
Consume(n) ==
  /\ buf' = SubSeq(buf, n + 1, Len(buf))
  /\ bufpos' = bufpos + n

Parsing(n) == pc = "parse" /\ buf # <<>> /\ conn.block.state % 16 = n
HasLine == LineKind(buf) # "none"

\* No end of line yet: more input is awaited, unless the buffer cannot take it.
AwaitLine(d) ==
  /\ ~HasLine
  /\ \E e \in IF bufpos = 0 /\ Len(buf) >= BufSize - 1 THEN Reject(d) ELSE {d} :
       ReturnTrue(e)
  /\ UNCHANGED <<call, buf, bufpos, net, later>>

-----------------------------------------------------------------------------
(* The worker around the callbacks.                                        *)

\* pre_select of a fresh socket, on_connect
OnConnect ==
  /\ pc = "accepted"
  /\ Goto([conn EXCEPT !.sock = @ \cup {"CONNECTED"}], "select")
  /\ UNCHANGED <<call, buf, bufpos, net, later>>

Close ==
  /\ \E d \in Finalize(conn) :
       IF d.fault # "none" THEN Goto(d, "halted")
       ELSE Goto([d EXCEPT !.sock = {}, !.waiting = FALSE], "closed")
  /\ UNCHANGED <<call, buf, bufpos, net, later>>

\* pre_select closes a socket marked for it ...
PendingClose == pc = "select" /\ "PEND_CLOSE" \in conn.sock /\ Close

\* ... and one that was idle too long.
IdleTimeout == pc = "select" /\ Close

WantRead  == conn.block.state \div 16 = 0
WantWrite == conn.block.state \div 16 = 1

\* The recv of do_read, first from post_select, then again while TLS has more.
Receiving ==
  \/ pc = "select" /\ "PEND_CLOSE" \notin conn.sock /\ WantRead
  \/ pc = "again"

Recv ==
  /\ Receiving
  /\ \E n \in 1..Least(Len(net), BufSize - Len(buf)) :
       /\ buf' = buf \o SubSeq(net, 1, n)
       /\ net' = SubSeq(net, n + 1, Len(net))
  /\ pc' = "parse"
  /\ UNCHANGED <<conn, call, bufpos, later>>

\* recv returned 0, for the end of the stream, or an error
RecvEnd ==
  /\ Receiving
  /\ Goto(PendClose(conn), "select")
  /\ UNCHANGED <<call, buf, bufpos, net, later>>

\* Mutant of ReadDone: the window is not moved back to the front of data->buf.
ReadDoneInPlace ==
  /\ pc = "done" \/ (pc = "parse" /\ buf = <<>>)
  /\ Goto(IF bufpos + Len(buf) = BufSize THEN PendClose(conn) ELSE conn, "select")
  /\ UNCHANGED <<call, buf, bufpos, net, later>>

\* do_read from its label done: compaction, and back to the select
ReadDone ==
  /\ pc = "done" \/ (pc = "parse" /\ buf = <<>>)
  /\ IF Len(buf) = BufSize
     THEN Goto(PendClose(conn), "select") /\ UNCHANGED bufpos
     ELSE /\ bufpos' = 0
          /\ \E p \in {"select"} \cup (IF Tls /\ net # <<>> THEN {"again"} ELSE {}) :
               Goto(conn, p)
  /\ UNCHANGED <<call, buf, net, later>>

\* do_write: response_begin, response_header and response_body are the same
DoWrite ==
  /\ pc = "select"
  /\ "PEND_CLOSE" \notin conn.sock
  /\ WantWrite
  /\ CallHandler(conn, "response")
  /\ UNCHANGED <<buf, bufpos, net, later>>

-----------------------------------------------------------------------------
(* request_begin                                                           *)

Begun == [conn EXCEPT !.block.length = SIZE_MAX]

BeginAwait == Parsing(0) /\ AwaitLine(Begun)

\* A header taken for a request line has a path, and no version.
HeaderKind == {"header", "close", "keepalive", "length", "chunked"}

BeginReject ==
  /\ Parsing(0) /\ HasLine
  /\ LineKind(buf) \notin {"line"} \cup HeaderKind
  /\ \E d \in Reject(Begun) : ReturnTrue(d)
  /\ Consume(LineEnd(buf))
  /\ UNCHANGED <<call, net, later>>

BeginLine ==
  /\ Parsing(0) /\ HasLine
  /\ LineKind(buf) \in {"line"} \cup HeaderKind
  /\ LET v == IF LineKind(buf) = "line" THEN buf[1].n ELSE 0
     IN Goto([Begun EXCEPT
                !.block.version = IF v = 0 THEN @ ELSE v,
                !.block.flags = IF v = 2 THEN @ \cup {"KEEPALIVE"} ELSE @,
                !.block.route = IF NRoutes > 0 THEN 1 ELSE NoRoute],
             "match")
  /\ Consume(LineEnd(buf))
  /\ UNCHANGED <<call, net, later>>

\* Mutant of NextRoute: a route that declined is asked again.
NextRouteAgain(c) ==
  [c EXCEPT !.block.route = IF @ <= NRoutes THEN @ ELSE NoRoute]

\* route->next, of a route that a handler's call to finalize may have made NULL
NextRoute(c) ==
  [c EXCEPT !.block.route = IF @ < NRoutes THEN @ + 1 ELSE NoRoute,
            !.fault = IF c.block.route = NoRoute THEN "null_route" ELSE @]

\* The pattern of the route under consideration does not match the path ...
SkipRoute ==
  /\ pc = "match" /\ conn.block.route # NoRoute
  /\ ~(CatchAll /\ conn.block.route = NRoutes)
  /\ Goto(NextRoute(conn), "match")
  /\ UNCHANGED <<call, buf, bufpos, net, later>>

\* ... or it does, and its handler is asked ...
TryRoute ==
  /\ pc = "match" /\ conn.block.route # NoRoute
  /\ CallHandler(conn, "begin")
  /\ UNCHANGED <<buf, bufpos, net, later>>

\* ... and when the list is exhausted, ews_route_404's is called.
LastResort ==
  /\ pc = "match" /\ conn.block.route = NoRoute
  /\ CallHandler([conn EXCEPT !.block.route = R404], "begin404")
  /\ UNCHANGED <<buf, bufpos, net, later>>

\* The end of request_begin.  The route is now due a FINALIZE.
Accepted(c) ==
  [c EXCEPT !.block.state = IF c.block.version = 0 THEN RESPONSE_BEGIN
                            ELSE REQUEST_HEADER,
            !.owner = IF @ = NoRoute THEN c.block.route ELSE Stray]

-----------------------------------------------------------------------------
(* request_header                                                          *)

HeaderAwait == Parsing(1) /\ AwaitLine(conn)

\* Mutant of HeaderEnd: a Content-Length does not announce a body.
HeaderEndNoBody ==
  /\ Parsing(1) /\ HasLine /\ LineKind(buf) = "blank"
  /\ Goto([conn EXCEPT !.block.state =
             IF Is(conn, "REQUEST_CHUNKED") THEN REQUEST_BODY ELSE RESPONSE_BEGIN],
          "parse")
  /\ Consume(LineEnd(buf))
  /\ UNCHANGED <<call, net, later>>

HeaderEnd ==
  /\ Parsing(1) /\ HasLine /\ LineKind(buf) = "blank"
  /\ Goto([conn EXCEPT !.block.state =
             IF conn.block.length # SIZE_MAX \/ Is(conn, "REQUEST_CHUNKED")
             THEN REQUEST_BODY ELSE RESPONSE_BEGIN], "parse")
  /\ Consume(LineEnd(buf))
  /\ UNCHANGED <<call, net, later>>

HeaderReject ==
  /\ Parsing(1) /\ HasLine
  /\ LineKind(buf) \notin {"blank", "multipart"} \cup HeaderKind
  /\ \E d \in Reject(conn) : ReturnTrue(d)
  /\ Consume(LineEnd(buf))
  /\ UNCHANGED <<call, net, later>>

\* What strtol and strtoul make of a number in a size_t.  The largest value, which
\* is what "-1" reads as, stands for no length at all.
SizeT(n) == IF n < 0 THEN SizeRange + n ELSE n
LengthOf(n) == IF n = -1 THEN SIZE_MAX ELSE SizeT(n)

\* What a header line does to the block.
Effect(c, u) ==
  CASE u.k = "close"     -> [c EXCEPT !.block.flags = @ \ {"KEEPALIVE"}]
    [] u.k = "keepalive" -> [c EXCEPT !.block.flags = @ \cup {"KEEPALIVE"}]
    [] u.k = "length" /\ ~Is(c, "REQUEST_CHUNKED") ->
         [c EXCEPT !.block.length = LengthOf(u.n)]
    [] u.k = "chunked"   ->
         [c EXCEPT !.block.flags = @ \cup {"REQUEST_CHUNKED",
                                           "REQUEST_CHUNKED_LINE"},
                   !.block.length = SIZE_MAX]
    [] u.k = "multipart" -> [c EXCEPT !.block.boundary = TRUE, !.heap = @ + 1]
    [] OTHER             -> c

HeaderLine ==
  /\ Parsing(1) /\ HasLine
  /\ LineKind(buf) \in {"multipart"} \cup HeaderKind
  /\ CallHandler(Effect(conn, buf[1]), "header")
  /\ Consume(LineEnd(buf))
  /\ UNCHANGED <<net, later>>

\* strdup of the multipart boundary fails
HeaderNoMemory ==
  /\ AllocFails
  /\ Parsing(1) /\ HasLine /\ LineKind(buf) = "multipart"
  /\ \E d \in Reject([conn EXCEPT !.block.boundary = FALSE]) : ReturnTrue(d)
  /\ Consume(LineEnd(buf))
  /\ UNCHANGED <<call, net, later>>

-----------------------------------------------------------------------------
(* request_body                                                            *)

ChunkLine == Parsing(2) /\ Is(conn, "REQUEST_CHUNKED")
                        /\ Is(conn, "REQUEST_CHUNKED_LINE")

\* "0\r\n\r\n"
LastChunk == <<[k |-> "size", n |-> 0], [k |-> "crlf", n |-> 0],
               [k |-> "crlf", n |-> 0]>>

\* No line yet, or the one that ends a chunk's data.  Only when the last chunk
\* follows at once is that line consumed, and then the last chunk is not.
ChunkBreak ==
  /\ ChunkLine
  /\ LineKind(buf) \in {"none", "blank"}
  /\ IF LineKind(buf) = "blank" /\ SubSeq(buf, 2, Least(4, Len(buf))) = LastChunk
     THEN /\ Consume(1)
          /\ ReturnTrue([conn EXCEPT !.block.state = RESPONSE_BEGIN])
     ELSE /\ UNCHANGED <<buf, bufpos>>
          /\ ReturnTrue(conn)
  /\ UNCHANGED <<call, net, later>>

\* Mutant of ChunkSize: the flag that says a size line comes next stays set.
ChunkSizeAgain ==
  /\ ChunkLine
  /\ HasLine /\ LineKind(buf) = "size"
  /\ Goto([conn EXCEPT !.block.chunkSize = SizeT(buf[1].n),
                       !.block.chunkPos = 0], "parse")
  /\ Consume(LineEnd(buf))
  /\ UNCHANGED <<call, net, later>>

ChunkSize ==
  /\ ChunkLine
  /\ HasLine /\ LineKind(buf) = "size"
  /\ Goto([conn EXCEPT !.block.chunkSize = SizeT(buf[1].n),
                       !.block.chunkPos = 0,
                       !.block.flags = @ \ {"REQUEST_CHUNKED_LINE"}], "parse")
  /\ Consume(LineEnd(buf))
  /\ UNCHANGED <<call, net, later>>

\* The line is left in the buffer of a socket that is to be closed.
ChunkReject ==
  /\ ChunkLine
  /\ HasLine /\ LineKind(buf) \notin {"blank", "size"}
  /\ \E d \in Reject(conn) : ReturnTrue(d)
  /\ UNCHANGED <<call, buf, bufpos, net, later>>

\* What is left of the body, or of the current chunk of it.
Remaining(c) ==
  IF Is(c, "REQUEST_CHUNKED") THEN c.block.chunkSize - c.block.chunkPos
  ELSE IF c.block.length = SIZE_MAX THEN Len(buf) ELSE c.block.length

\* A chunk is handed over whole, or in buffers full.
BodyAwait ==
  /\ Parsing(2) /\ ~ChunkLine
  /\ Is(conn, "REQUEST_CHUNKED")
  /\ Len(buf) < Least(BufSize, Remaining(conn))
  /\ ReturnTrue(conn)
  /\ UNCHANGED <<call, buf, bufpos, net, later>>

BodyData ==
  /\ Parsing(2) /\ ~ChunkLine
  /\ Is(conn, "REQUEST_CHUNKED") => Len(buf) >= Least(BufSize, Remaining(conn))
  /\ CallHandler([conn EXCEPT !.chunkLen = Least(Len(buf), Remaining(conn))], "body")
  /\ UNCHANGED <<buf, bufpos, net, later>>

\* After the handler: what it read is subtracted from what was to be read.
Read(c) == Least(Len(buf), Remaining(c)) - c.chunkLen

\* Mutant of Account: the body counts as read one unit early.
AccountEarly(c) ==
  IF Is(c, "REQUEST_CHUNKED")
  THEN [c EXCEPT !.block.chunkPos = @ + Read(c),
                 !.block.flags = @ \cup {"REQUEST_CHUNKED_LINE"}]
  ELSE [c EXCEPT !.block.length = @ - Read(c),
                 !.block.state = IF Read(c) + 1 >= c.block.length
                                 THEN RESPONSE_BEGIN ELSE @]

\* Mutant of Account: a finished body does not end the REQUEST_BODY state.
AccountForever(c) ==
  IF Is(c, "REQUEST_CHUNKED")
  THEN [c EXCEPT !.block.chunkPos = @ + Read(c)]
  ELSE [c EXCEPT !.block.length = @ - Read(c)]

Account(c) ==
  IF Is(c, "REQUEST_CHUNKED")
  THEN [c EXCEPT !.block.chunkPos = @ + Read(c),
                 !.block.flags =
                    IF c.block.chunkPos + Read(c) = c.block.chunkSize
                    THEN @ \cup {"REQUEST_CHUNKED_LINE"} ELSE @]
  ELSE [c EXCEPT !.block.length = @ - Read(c),
                 !.block.state = IF Read(c) = c.block.length
                                 THEN RESPONSE_BEGIN ELSE @]

BodyFault(c) ==
  IF ~Is(c, "REQUEST_CHUNKED") /\ c.block.length = SIZE_MAX THEN "uninit"
  ELSE IF Read(c) < 0 THEN "underflow" ELSE c.fault

BodyTail(c) ==
  IF BodyFault(c) # "none"
  THEN /\ Goto([c EXCEPT !.fault = BodyFault(c)], "halted")
       /\ UNCHANGED <<buf, bufpos>>
  ELSE /\ Consume(Read(c))
       /\ IF Read(c) = Len(buf) THEN ReturnTrue(Account(c))
          ELSE Goto(Account(c), "parse")

-----------------------------------------------------------------------------
(* The handler's steps, and the return from call_handler to each caller.   *)

HandlerOp ==
  /\ pc = "handler" /\ call.ops # <<>>
  /\ \E d \in SessionOp(conn, Head(call.ops)) : Goto(d, "handler")
  /\ call' = [call EXCEPT !.ops = Tail(@)]
  /\ UNCHANGED <<buf, bufpos, net, later>>

Returns(callers) ==
  /\ pc = "handler" /\ call.ops = <<>> /\ call.by \in callers
  /\ call' = Idle

\* A handler called out of step can have had its block zeroed by finalize: then the
\* list counts as exhausted.
ReturnToBegin ==
  /\ Returns({"begin"})
  /\ \E d \in AfterStatus(conn, call.status) :
       CASE ReturnedStatus(conn, call.status) = "FOUND" ->
              IF d.block.route = NoRoute THEN Goto(d, "match")
              ELSE Goto(Accepted(d), "parse")
         [] ReturnedStatus(conn, call.status) = "NOT_FOUND" ->
              Goto(NextRoute(d), "match")
         [] OTHER -> ReturnTrue(d)
  /\ UNCHANGED <<buf, bufpos, net, later>>

ReturnToLastResort ==
  /\ Returns({"begin404"})
  /\ \E d \in AfterStatus(conn, call.status) : Goto(Accepted(d), "parse")
  /\ UNCHANGED <<buf, bufpos, net, later>>

ReturnToHeader ==
  /\ Returns({"header"})
  /\ \E d \in AfterStatus(conn, call.status) : Goto(d, "parse")
  /\ UNCHANGED <<buf, bufpos, net, later>>

ReturnToBody ==
  /\ Returns({"body"})
  /\ \E d \in AfterStatus(conn, call.status) : BodyTail(d)
  /\ UNCHANGED <<net, later>>

ReturnToWrite ==
  /\ Returns({"response"})
  /\ \E d \in AfterStatus(conn, call.status) : Goto(d, "select")
  /\ UNCHANGED <<buf, bufpos, net, later>>

-----------------------------------------------------------------------------
(* The peer.                                                               *)

PeerSends ==
  /\ later # <<>>
  /\ pc \notin {"closed", "halted"}
  /\ Pipelining \/ (~conn.waiting /\ "SHUTDOWN" \notin conn.sock)
  /\ net' = net \o Head(later)
  /\ later' = Tail(later)
  /\ conn' = [conn EXCEPT !.waiting = TRUE]
  /\ UNCHANGED <<pc, call, buf, bufpos>>

-----------------------------------------------------------------------------
RequestBegin  == BeginAwait \/ BeginReject \/ BeginLine
Matching      == SkipRoute \/ TryRoute \/ LastResort
RequestHeader == HeaderAwait \/ HeaderEnd \/ HeaderReject \/ HeaderLine
                 \/ HeaderNoMemory
RequestBody   == ChunkBreak \/ ChunkSize \/ ChunkReject \/ BodyAwait \/ BodyData
Handler       == HandlerOp \/ ReturnToBegin \/ ReturnToLastResort
                 \/ ReturnToHeader \/ ReturnToBody \/ ReturnToWrite

\* What the worker does by itself, and what time and the peer do to it.
Worker == OnConnect \/ PendingClose \/ Recv \/ ReadDone \/ DoWrite
          \/ RequestBegin \/ Matching \/ RequestHeader \/ RequestBody \/ Handler
Environment == IdleTimeout \/ RecvEnd \/ PeerSends
Stopped == pc \in {"closed", "halted"} /\ UNCHANGED vars

Next == Worker \/ Environment \/ Stopped

Spec == Init /\ [][Next]_vars
FairSpec == Spec /\ WF_vars(Worker)

-----------------------------------------------------------------------------
(* What the connection code must keep.                                     *)

\* The program meets no undefined behaviour: no handler is called through a NULL
\* route, finalize terminates, and request_body never "reads" less than nothing.
NoFault == conn.fault = "none"

\* The unread window lies inside data->buf, and whenever do_read calls recv, which
\* stores at data->buf + buflen, the window starts at 0 and leaves room.
WindowInBuffer ==
  /\ bufpos + Len(buf) <= BufSize
  /\ Receiving => bufpos = 0 /\ Len(buf) < BufSize

\* A route whose handler accepted a request is the one the block names until it
\* gets its one FINALIZE call; no FINALIZE reaches a route that is not due it.
OwnerIsRoute ==
  conn.owner = IF conn.block.state = REQUEST_BEGIN THEN NoRoute
               ELSE conn.block.route

\* When a connection is gone, so are its boundary and its unfinished request.
NothingOutlives == pc = "closed" => conn.heap = 0 /\ conn.owner = NoRoute

\* The parser state always fits the unit it looks at: what is left of one element
\* of a request is never read as the next, and nothing is read while answering.
InStep ==
  pc = "parse" /\ buf # <<>> =>
    \/ /\ conn.block.state = REQUEST_BEGIN
       /\ Head(buf).k \in {"line", "nopath", "badversion", "junk"}
    \/ /\ conn.block.state = REQUEST_HEADER
       /\ Head(buf).k \in {"crlf", "multipart", "badheader", "junk"} \cup HeaderKind
    \/ /\ conn.block.state = REQUEST_BODY
       /\ Head(buf).k \in IF ~Is(conn, "REQUEST_CHUNKED") THEN {"data"}
                          ELSE IF ChunkLine THEN {"size", "crlf", "junk"} ELSE {"data"}

\* The peer can read the responses: status, headers, blank line, a body no longer
\* than declared, and no new status before the old response is complete.
WireWellFormed == conn.wire.at # "garbled"

\* Once a send has failed, the response has a hole; the connection is marked to be
\* closed, whatever handlers and http_error go on to send after the hole.
LossCloses ==
  conn.wire.at = "lost" /\ pc \notin {"closed", "halted"}
    => "PEND_CLOSE" \in conn.sock

\* The answer begins when the request of a peer that waits for it has been read to
\* its last unit, and not before.
ReadWhole == conn.block.state >= RESPONSE_BEGIN => buf = <<>> /\ net = <<>>

\* A send that fails returns to its caller.
SendReturns == conn.fault # "recursion"

StageOf(state) ==
  CASE state = REQUEST_HEADER  -> "request header"
    [] state = REQUEST_BODY    -> "request body"
    [] state = RESPONSE_BEGIN  -> "response begin"
    [] state = RESPONSE_HEADER -> "response header"
    [] state = RESPONSE_BODY   -> "response body"
    [] OTHER                   -> "none"
HandlerDialogue == INSTANCE Dialogue WITH
  Routes <- Route,
  owner  <- conn.owner,
  stage  <- IF conn.owner = NoRoute THEN "none" ELSE StageOf(conn.block.state),
  called <- IF pc = "handler" THEN conn.block.route ELSE NoRoute

\* A handler hears a dialogue: it is asked, called in the order of the states while
\* the request is its route's, and finalized once, whatever ends the request inside
\* whichever call (call_handler and finalize, src/http.c).
DialogueSpec == HandlerDialogue!Spec

\* Where a callback is on its way back to the select loop.
Stage ==
  IF pc = "match" \/ (pc = "handler" /\ call.by \in {"begin", "begin404"}) THEN 6
  ELSE IF pc = "parse" /\ conn.block.state = REQUEST_BODY
          /\ ~(Is(conn, "REQUEST_CHUNKED") /\ Is(conn, "REQUEST_CHUNKED_LINE")) THEN 5
  ELSE IF pc = "handler" THEN 4
  ELSE IF pc = "parse" THEN 3
  ELSE IF pc = "done" THEN 2
  ELSE IF pc = "again" THEN 1 ELSE 0

\* The routes that may still be asked.
RoutesLeft ==
  (IF conn.block.route = NoRoute THEN 0 ELSE R404 - conn.block.route)
  + (IF pc = "match" THEN 1 ELSE 0)

OpsLeft == IF pc = "handler" THEN Len(call.ops) + 1 ELSE 0

\* What is left to do before the callback returns, most significant first.
Work == <<Len(net), Len(buf), Stage, RoutesLeft, OpsLeft>>
Less(v, w) == \E i \in 1..5 : v[i] < w[i] /\ \A j \in 1..(i - 1) : v[j] = w[j]

\* A callback never goes round in circles: each step it takes on its own leaves less
\* to do, until it is back in the select loop, whatever routes decline, handlers
\* return, chunks are read and rounds do_read adds for TLS (the loops of do_read,
\* request_begin and request_body).
CallbackEnds ==
  [][pc = "accepted" \/ pc = "select" \/ PeerSends \/ Less(Work', Work)]_vars

\* Every request the peer has sent is answered or its connection is closed.
Served == conn.waiting ~> ~conn.waiting
=============================================================================
