------------------------------ MODULE WireProofs ------------------------------
(* Under the contracts of Orderly and Framed the peer can read every answer,  *)
(* for every stream, every handler and every failed send they allow.          *)
EXTENDS ContractProofs

\* What a send leaves as it is: a socket that is shut sends nothing, and after a loss
\* the peer reads no further.
Mute(c)  == Shut(c) \/ c.wire.at = "lost"
Clear(c) == c.wire.at # "garbled"
Quiet    == {c \in GoodConn : Mute(c) /\ Clear(c)}

\* A response that is over: the peer has read all of it or the connection is given up.
Settled(c) == c.block = ZeroBlock /\ (Complete(c.wire) \/ Dropped(c))
Over       == Quiet \cup {c \in GoodConn : Clear(c) /\ Settled(c)}

-----------------------------------------------------------------------------
(* Nothing more goes out on a quiet connection.                            *)

LEMMA QuietGood == Quiet \subseteq GoodConn /\ Quiet \subseteq Conn
BY DEF Quiet, GoodConn

LEMMA QuietAlike ==
  ASSUME NEW c \in Quiet, NEW d \in GoodConn, d.wire = c.wire, Shut(c) => Shut(d)
  PROVE  d \in Quiet
BY DEF Quiet, Mute, Clear

LEMMA PendCloseFacts ==
  ASSUME NEW c \in GoodConn
  PROVE  /\ PendClose(c) \in GoodConn /\ PendClose(c).block = c.block
         /\ PendClose(c).wire = c.wire /\ PendClose(c).sock = c.sock \cup {"PEND_CLOSE"}
BY PendCloseGood DEF PendClose, GoodConn, Conn

LEMMA PendCloseQuiet == ASSUME NEW c \in Quiet PROVE PendClose(c) \in Quiet
BY QuietGood, PendCloseFacts, QuietAlike DEF Shut

LEMMA ShutdownQuiet ==
  ASSUME NEW c \in GoodConn, Clear(c) PROVE Shutdown(c) \in Quiet
<1>1. Shutdown(c).wire = c.wire /\ "SHUTDOWN" \in Shutdown(c).sock
  BY DEF Shutdown, GoodConn, Conn
<1> QED
  BY <1>1, ShutdownGood DEF Quiet, Mute, Clear, Shut

\* What a send that succeeds does.
LEMMA SentFacts ==
  ASSUME NEW c \in GoodConn, NEW piece, NEW n \in Nat, NEW d \in SendOk(c, piece, n)
  PROVE  /\ d \in GoodConn /\ d.block = c.block /\ d.sock = c.sock
         /\ d.wire = WireStep(c.wire, piece, n) /\ ~Shut(c)
<1>1. ~Shut(c) /\ d = [c EXCEPT !.wire = WireStep(c.wire, piece, n)]
  BY DEF SendOk, Shut
<1> QED
  BY <1>1, SendOkGood DEF GoodConn, Conn

LEMMA SendOkQuiet ==
  ASSUME NEW c \in Quiet, NEW piece, NEW n \in Nat
  PROVE  SendOk(c, piece, n) \subseteq Quiet
<1> SUFFICES ASSUME NEW d \in SendOk(c, piece, n) PROVE d \in Quiet
  OBVIOUS
<1>1. d \in GoodConn /\ d.wire = WireStep(c.wire, piece, n) /\ ~Shut(c)
  BY QuietGood, SentFacts
<1>2. c.wire.at = "lost"
  BY <1>1 DEF Quiet, Mute
<1>3. d.wire = c.wire
  BY <1>1, <1>2 DEF WireStep
<1> QED
  BY <1>1, <1>3, QuietAlike

\* A send that fails leaves a hole, or fails because the socket is shut.
LEMMA SendFailQuiet ==
  ASSUME NEW c \in GoodConn, Clear(c) PROVE SendFail(c) \subseteq Quiet
<1> SUFFICES ASSUME NEW d \in SendFail(c) PROVE d \in Quiet
  OBVIOUS
<1>1. CASE Shut(c)
  <2>1. d = c
    BY <1>1 DEF SendFail, Shut
  <2> QED
    BY <1>1, <2>1 DEF Quiet, Mute
<1>2. CASE ~Shut(c)
  <2>1. PICK e \in SendFaults : d = Failed(c, e)
    BY <1>2 DEF SendFail, Shut
  <2>2. d.wire.at = "lost"
    BY <2>1 DEF Failed, PendClose, GoodConn, Conn, Wire
  <2> QED
    BY <2>2, SendFailGood DEF Quiet, Mute, Clear
<1> QED
  BY <1>1, <1>2

LEMMA ReleaseFacts ==
  ASSUME NEW c \in GoodConn
  PROVE  /\ Release(c) \in GoodConn /\ Release(c).block = ZeroBlock
         /\ Release(c).wire = c.wire
         /\ Dropped(c) => Dropped(Release(c))
         /\ Shut(c) \/ ~Is(c, "KEEPALIVE") => Shut(Release(c))
<1>1. /\ Release(c).block = ZeroBlock /\ Release(c).wire = c.wire
      /\ Release(c).sock = IF Is(c, "KEEPALIVE") THEN c.sock ELSE c.sock \cup {"SHUTDOWN"}
  BY DEF Release, Shutdown, Is, GoodConn, Conn
<1> QED
  BY <1>1, ReleaseGood DEF Dropped, Shut

LEMMA ReleaseQuiet == ASSUME NEW c \in Quiet PROVE Release(c) \in Quiet
BY QuietGood, ReleaseFacts, QuietAlike

\* finalize sends the last chunk, if there is one, before it releases the request.
LastChunkDue(c) == c.block.state = RESPONSE_BODY /\ Is(c, "RESPONSE_CHUNKED")

LEMMA FinalizeEither ==
  ASSUME NEW c \in GoodConn, Clear(c), NEW d \in Finalize(c)
  PROVE  \/ d \in Quiet
         \/ c.block.state = REQUEST_BEGIN /\ d = c
         \/ c.block.state # REQUEST_BEGIN /\ ~LastChunkDue(c) /\ d = Release(c)
         \/ LastChunkDue(c) /\ \E e \in SendOk(c, "last", 0) : d = Release(e)
<1>1. ASSUME NEW f \in SendFail(c)
      PROVE  /\ [f EXCEPT !.fault = "recursion"] \in Quiet
             /\ \A e \in SendOk(f, "last", 0) : Shutdown(Release(e)) \in Quiet
  <2>1. f \in Quiet /\ f \in GoodConn /\ f \in Conn
    BY SendFailQuiet, QuietGood
  <2>2. [f EXCEPT !.fault = "recursion"] \in GoodConn
    BY <2>1 DEF GoodConn, Conn, Fault, Marked
  <2>3. /\ [f EXCEPT !.fault = "recursion"].wire = f.wire
        /\ [f EXCEPT !.fault = "recursion"].sock = f.sock
    BY <2>1 DEF Conn
  <2>4. ASSUME NEW e \in SendOk(f, "last", 0) PROVE Shutdown(Release(e)) \in Quiet
    <3>1. e \in Quiet
      BY <2>1, SendOkQuiet
    <3>2. Release(e) \in Quiet
      BY <3>1, ReleaseQuiet
    <3> QED
      BY <3>2, ShutdownQuiet DEF Quiet
  <2> QED
    BY <2>1, <2>2, <2>3, <2>4, QuietAlike DEF Shut
<1> QED
  BY <1>1 DEF Finalize, LastChunkDue

LEMMA FinalizeQuiet == ASSUME NEW c \in Quiet PROVE Finalize(c) \subseteq Quiet
<1> SUFFICES ASSUME NEW d \in Finalize(c) PROVE d \in Quiet
  OBVIOUS
<1>1. \A e \in SendOk(c, "last", 0) : Release(e) \in Quiet
  BY SendOkQuiet, ReleaseQuiet
<1>2. c \in GoodConn /\ Clear(c) /\ Release(c) \in Quiet
  BY ReleaseQuiet DEF Quiet
<1> QED
  BY <1>1, <1>2, FinalizeEither

LEMMA FinalizeAllQuiet ==
  ASSUME NEW S \in SUBSET Quiet PROVE FinalizeAll(S) \subseteq Quiet
BY FinalizeQuiet DEF FinalizeAll

LEMMA RawSendQuiet ==
  ASSUME NEW c \in Quiet, NEW piece, NEW n \in Nat
  PROVE  RawSend(c, piece, n) \subseteq Quiet
BY SendOkQuiet, SendFailQuiet, FinalizeAllQuiet DEF RawSend, Quiet

LEMMA RawSendAllQuiet ==
  ASSUME NEW S \in SUBSET Quiet, NEW piece, NEW n \in Nat
  PROVE  RawSendAll(S, piece, n) \subseteq Quiet
BY RawSendQuiet DEF RawSendAll

LEMMA HttpStatusQuiet == ASSUME NEW c \in Quiet PROVE HttpStatus(c) \subseteq Quiet
BY FinalizeQuiet, RawSendQuiet DEF HttpStatus

LEMMA HttpErrorQuiet == ASSUME NEW c \in Quiet PROVE HttpError(c) \subseteq Quiet
<1> DEFINE S == RawSendAll(RawSendAll(HttpStatus(c), "errhead", 1), "data", 1)
<1>1. RawSendAll(HttpStatus(c), "errhead", 1) \in SUBSET Quiet
  BY HttpStatusQuiet, RawSendAllQuiet
<1>2. S \in SUBSET Quiet
  BY <1>1, RawSendAllQuiet
<1> HIDE DEF S
<1>3. FinalizeAll(S) \subseteq Quiet
  BY <1>2, FinalizeAllQuiet
<1> USE DEF S
<1> QED
  BY <1>3, FinalizeQuiet DEF HttpError

\* The block after http_header has looked at the header.
HeaderFlags(c, h) ==
  CASE h = "close"     -> c.block.flags \ {"KEEPALIVE"}
    [] h = "keepalive" -> c.block.flags \cup {"KEEPALIVE"}
    [] h = "chunked"   -> c.block.flags \cup {"RESPONSE_CHUNKED"}
    [] OTHER           -> c.block.flags
HeaderLeft(c, h) == IF h = "length" THEN DeclaredLen ELSE c.block.left
HeaderNoted(c, h) ==
  [c EXCEPT !.block.flags = HeaderFlags(c, h), !.block.left = HeaderLeft(c, h)]

LEMMA HeaderNotedFacts ==
  ASSUME NEW c \in GoodConn, NEW h
  PROVE  LET d == HeaderNoted(c, h)
         IN /\ d \in GoodConn /\ d.wire = c.wire /\ d.sock = c.sock
            /\ d.block = [c.block EXCEPT !.flags = HeaderFlags(c, h), !.left = HeaderLeft(c, h)]
            /\ d.block.flags = HeaderFlags(c, h) /\ d.block.left = HeaderLeft(c, h)
            /\ d.block.state = c.block.state /\ d.block.route = c.block.route
<1>1. HeaderFlags(c, h) \in SUBSET HttpFlag /\ HeaderLeft(c, h) \in Nat
  BY HttpConstants DEF GoodConn, Conn, Block, HttpFlag, HeaderFlags, HeaderLeft
<1> QED
  BY <1>1 DEF HeaderNoted, GoodConn, Conn, Block, Marked

LEMMA HttpHeaderIs ==
  ASSUME NEW c, NEW h, c.block.state = RESPONSE_HEADER
  PROVE  HttpHeader(c, h) = RawSend(HeaderNoted(c, h), h, DeclaredLen)
BY DEF HttpHeader, HeaderNoted, HeaderFlags, HeaderLeft

LEMMA HttpHeaderQuiet ==
  ASSUME NEW c \in Quiet, NEW h PROVE HttpHeader(c, h) \subseteq Quiet
<1>1. CASE c.block.state # RESPONSE_HEADER
  BY <1>1, HttpErrorQuiet DEF HttpHeader
<1>2. CASE c.block.state = RESPONSE_HEADER
  <2> DEFINE d == HeaderNoted(c, h)
  <2>1. d \in GoodConn /\ d.wire = c.wire /\ d.sock = c.sock
    BY QuietGood, HeaderNotedFacts
  <2>2. d \in Quiet
    BY <2>1, QuietAlike DEF Shut
  <2> QED
    BY <1>2, <2>2, HttpHeaderIs, RawSendQuiet, HttpConstants
<1> QED
  BY <1>1, <1>2

\* The block after a send of len units of a response with a declared length.
LeftAfter(left, len) == IF left > 0 THEN left - len ELSE left
SendSize(left) == IF left > 0 THEN Least(SendLen, left) ELSE SendLen
SendNoted(d, len) == [d EXCEPT !.block.left = LeftAfter(@, len)]

LEMMA SendSizeFacts ==
  ASSUME NEW left \in Nat
  PROVE  SendSize(left) \in Nat /\ LeftAfter(left, SendSize(left)) \in Nat
BY HttpConstants DEF SendSize, LeftAfter, Least

LEMMA SendNotedFacts ==
  ASSUME NEW d \in GoodConn, NEW len, LeftAfter(d.block.left, len) \in Nat
  PROVE  LET e == SendNoted(d, len)
         IN /\ e \in GoodConn /\ e.wire = d.wire /\ e.sock = d.sock
            /\ e.block = [d.block EXCEPT !.left = LeftAfter(d.block.left, len)]
            /\ e.block.left = LeftAfter(d.block.left, len) /\ e.block.flags = d.block.flags
            /\ e.block.state = d.block.state /\ e.block.route = d.block.route
BY DEF SendNoted, GoodConn, Conn, Block, Marked

LEMMA HttpSendIs ==
  ASSUME NEW c \in GoodConn, c.block.state = RESPONSE_BODY, ~Is(c, "RESPONSE_CHUNKED"),
         NEW d \in HttpSend(c)
  PROVE  LET len == SendSize(c.block.left)
         IN \/ \E e \in SendOk(c, "data", len) : d = SendNoted(e, len)
            \/ d \in FinalizeAll(SendFail(c))
<1> DEFINE len == SendSize(c.block.left)
<1>1. len \in Nat /\ len = IF c.block.left > 0 THEN Least(SendLen, c.block.left) ELSE SendLen
  BY SendSizeFacts DEF SendSize, GoodConn, Conn, Block
<1>2. \/ \E e \in SendOk(c, "data", len) :
           d = [e EXCEPT !.block.left = IF c.block.left > 0 THEN @ - len ELSE @]
      \/ d \in FinalizeAll(SendFail(c))
  BY <1>1 DEF HttpSend
<1> HIDE DEF len
<1>3. ASSUME NEW e \in SendOk(c, "data", len),
             d = [e EXCEPT !.block.left = IF c.block.left > 0 THEN @ - len ELSE @]
      PROVE  d = SendNoted(e, len)
  BY <1>1, <1>3, SentFacts DEF SendNoted, LeftAfter
<1>4. (\E e \in SendOk(c, "data", len) : d = SendNoted(e, len)) \/ d \in FinalizeAll(SendFail(c))
  BY <1>2, <1>3
<1> QED
  BY <1>4 DEF len

LEMMA HttpSendQuiet == ASSUME NEW c \in Quiet PROVE HttpSend(c) \subseteq Quiet
<1>1. c \in GoodConn /\ Clear(c) /\ c.block.left \in Nat
  BY DEF Quiet, GoodConn, Conn, Block
<1>2. FinalizeAll(SendFail(c)) \subseteq Quiet
  BY <1>1, SendFailQuiet, FinalizeAllQuiet
<1>3. CASE c.block.state # RESPONSE_BODY
  BY <1>3, HttpErrorQuiet DEF HttpSend
<1>4. CASE c.block.state = RESPONSE_BODY /\ Is(c, "RESPONSE_CHUNKED")
  <2>1. RawSendAll(SendOk(c, "frame", 0), "data", SendLen) \subseteq Quiet
    BY SendOkQuiet, RawSendAllQuiet, HttpConstants
  <2> QED
    BY <1>2, <1>4, <2>1 DEF HttpSend
<1>5. CASE c.block.state = RESPONSE_BODY /\ ~Is(c, "RESPONSE_CHUNKED")
  <2> DEFINE len == SendSize(c.block.left)
  <2>1. \A d \in SendOk(c, "data", len) : SendNoted(d, len) \in Quiet
    <3> SUFFICES ASSUME NEW d \in SendOk(c, "data", len) PROVE SendNoted(d, len) \in Quiet
      OBVIOUS
    <3>1. len \in Nat /\ LeftAfter(c.block.left, len) \in Nat
      BY <1>1, SendSizeFacts
    <3>2. d \in Quiet /\ d.block = c.block /\ d \in GoodConn
      BY <1>1, <3>1, SendOkQuiet, SentFacts, QuietGood
    <3> QED
      BY <3>1, <3>2, SendNotedFacts, QuietAlike DEF Shut
  <2> QED
    BY <1>1, <1>2, <1>5, <2>1, HttpSendIs
<1> QED
  BY <1>3, <1>4, <1>5

LEMMA HttpRecvFacts ==
  ASSUME NEW c \in GoodConn, NEW len \in Nat
  PROVE  /\ HttpRecv(c, len) \in GoodConn /\ HttpRecv(c, len).wire = c.wire
         /\ HttpRecv(c, len).sock = c.sock /\ HttpRecv(c, len).block = c.block
BY HttpRecvGood DEF HttpRecv, GoodConn, Conn

LEMMA SessionOpQuiet ==
  ASSUME NEW c \in Quiet, NEW op PROVE SessionOp(c, op) \subseteq Quiet
<1>1. c \in GoodConn /\ c.chunkLen \in Nat
  BY DEF Quiet, GoodConn, Conn
<1>2. \A len \in Nat : HttpRecv(c, len) \in Quiet
  BY <1>1, HttpRecvFacts, QuietAlike DEF Shut
<1> QED
  BY <1>1, <1>2, HttpStatusQuiet, HttpErrorQuiet, HttpSendQuiet, HttpHeaderQuiet
  DEF SessionOp

\* The state that a returned call sets.
LEMMA SetStateFacts ==
  ASSUME NEW c \in GoodConn, NEW s \in SessState
  PROVE  LET d == [c EXCEPT !.block.state = s]
         IN /\ d \in GoodConn /\ d.wire = c.wire /\ d.sock = c.sock
            /\ d.block.state = s /\ d.block.route = c.block.route
            /\ d.block.flags = c.block.flags /\ d.block.left = c.block.left
            /\ d.block.version = c.block.version
BY SetStateGood DEF GoodConn, Conn, Block

LEMMA AdvanceQuiet == ASSUME NEW c \in Quiet PROVE Advance(c) \subseteq Quiet
<1>1. RESPONSE_HEADER \in SessState /\ RESPONSE_BODY \in SessState
  BY DEF SessState
<1>2. \A d \in Quiet : \A s \in SessState : [d EXCEPT !.block.state = s] \in Quiet
  BY QuietGood, SetStateFacts, QuietAlike DEF Shut
<1>3. \A d \in RawSend(c, "blank", 0) : [d EXCEPT !.block.state = RESPONSE_BODY] \in Quiet
  BY <1>1, <1>2, RawSendQuiet
<1> QED
  BY <1>1, <1>2, <1>3, FinalizeQuiet DEF Advance

LEMMA AfterStatusQuiet ==
  ASSUME NEW c \in Quiet, NEW status \in RouteStatus
  PROVE  AfterStatus(c, status) \subseteq Quiet
<1>1. PendClose(c) \in Quiet
  BY PendCloseQuiet
<1> QED
  BY <1>1, HttpErrorQuiet, FinalizeQuiet, AdvanceQuiet DEF AfterStatus, RouteStatus

-----------------------------------------------------------------------------
(* A response that is over stays over.                                     *)

LEMMA ZeroBlockFacts ==
  /\ ZeroBlock.state = REQUEST_BEGIN /\ ZeroBlock.version = 0 /\ ZeroBlock.flags = {}
  /\ ZeroBlock.left = 0 /\ ZeroBlock.route = NoRoute
BY DEF ZeroBlock

LEMMA OverFacts ==
  ASSUME NEW c \in Over
  PROVE  c \in GoodConn /\ Clear(c) /\ (c \in Quiet \/ Settled(c))
BY DEF Over, Quiet

LEMMA ReleaseOver ==
  ASSUME NEW c \in GoodConn, Clear(c),
         Complete(c.wire) \/ Dropped(c) \/ Mute(c) \/ ~Is(c, "KEEPALIVE")
  PROVE  Release(c) \in Over
<1>1. /\ Release(c) \in GoodConn /\ Release(c).block = ZeroBlock /\ Release(c).wire = c.wire
      /\ Dropped(c) => Dropped(Release(c))
      /\ Shut(c) \/ ~Is(c, "KEEPALIVE") => Shut(Release(c))
  BY ReleaseFacts
<1> QED
  BY <1>1 DEF Over, Quiet, Settled, Mute, Clear

LEMMA FinalizeOver ==
  ASSUME NEW c \in GoodConn, Clear(c), c.block.state # REQUEST_BEGIN,
         IF LastChunkDue(c) THEN Mute(c) \/ (c.wire.at = "body" /\ c.wire.owed = Chunked)
         ELSE Complete(c.wire) \/ Dropped(c) \/ Mute(c) \/ ~Is(c, "KEEPALIVE")
  PROVE  Finalize(c) \subseteq Over
<1> SUFFICES ASSUME NEW d \in Finalize(c) PROVE d \in Over
  OBVIOUS
<1>1. CASE Mute(c)
  BY <1>1, FinalizeQuiet DEF Quiet, Over
<1>2. CASE ~Mute(c) /\ LastChunkDue(c)
  <2>1. ASSUME NEW e \in SendOk(c, "last", 0) PROVE Release(e) \in Over
    <3>1. e \in GoodConn /\ e.wire = WireStep(c.wire, "last", 0)
      BY SentFacts
    <3>2. c.wire.at = "body" /\ c.wire.owed = Chunked /\ c.wire \in Wire
      BY <1>2 DEF GoodConn, Conn
    <3>3. e.wire.at = "idle"
      BY <3>1, <3>2 DEF WireStep, Legal, Wire, HeaderOp
    <3> QED
      BY <3>1, <3>3, ReleaseOver DEF Complete, Clear
  <2> QED
    BY <1>2, <2>1, FinalizeEither DEF Over
<1>3. CASE ~Mute(c) /\ ~LastChunkDue(c)
  BY <1>3, ReleaseOver, FinalizeEither DEF Over
<1> QED
  BY <1>1, <1>2, <1>3

LEMMA RawSendEither ==
  ASSUME NEW c \in GoodConn, Clear(c), NEW piece, NEW n \in Nat, NEW d \in RawSend(c, piece, n)
  PROVE  d \in Quiet \/ d \in SendOk(c, piece, n)
BY SendFailQuiet, FinalizeAllQuiet DEF RawSend

\* http_error answers a request that has no answer yet.
LEMMA HttpErrorOver ==
  ASSUME NEW c \in GoodConn, Clear(c), Complete(c.wire), c.block.version > 0,
         c.block.state \in {REQUEST_HEADER, REQUEST_BODY, RESPONSE_BEGIN}
  PROVE  HttpError(c) \subseteq Over
<1> SUFFICES ASSUME NEW d \in HttpError(c) PROVE d \in Over
  OBVIOUS
<1>1. c.block.state <= RESPONSE_BEGIN /\ ~(c.block.state > RESPONSE_BEGIN)
  BY DEF REQUEST_HEADER, REQUEST_BODY, RESPONSE_BEGIN
<1>2. c.block.version # 0 /\ c.wire \in Wire
  BY DEF GoodConn, Conn
<1>3. d \in FinalizeAll(RawSendAll(RawSendAll(HttpStatus(c), "errhead", 1), "data", 1))
  BY <1>1 DEF HttpError
<1>4. PICK e : d \in Finalize(e)
               /\ e \in RawSendAll(RawSendAll(HttpStatus(c), "errhead", 1), "data", 1)
  BY <1>3 DEF FinalizeAll
<1>5. PICK g : e \in RawSend(g, "data", 1) /\ g \in RawSendAll(HttpStatus(c), "errhead", 1)
  BY <1>4 DEF RawSendAll
<1>6. PICK h : g \in RawSend(h, "errhead", 1) /\ h \in RawSend(c, "status", 0)
  BY <1>1, <1>2, <1>5 DEF RawSendAll, HttpStatus
<1>7. CASE h \in Quiet \/ g \in Quiet \/ e \in Quiet
  BY <1>4, <1>5, <1>6, <1>7, RawSendQuiet, FinalizeQuiet DEF Over
<1>8. CASE h \notin Quiet /\ g \notin Quiet /\ e \notin Quiet
  <2>1. h \in GoodConn /\ h.block = c.block /\ h.wire = WireStep(c.wire, "status", 0)
    BY <1>6, <1>8, RawSendEither, SentFacts
  <2>2. h.wire = [at |-> "head", owed |-> Unbounded]
    BY <1>2, <2>1 DEF WireStep, Legal, Complete, Wire
  <2>3. g \in GoodConn /\ g.block = c.block /\ g.wire = WireStep(h.wire, "errhead", 1)
    BY <1>6, <1>8, <2>1, <2>2, RawSendEither, SentFacts DEF Clear
  <2>4. g.wire = [at |-> "body", owed |-> 1]
    BY <2>2, <2>3 DEF WireStep, Legal, HeaderOp
  <2>5. e \in GoodConn /\ e.block = c.block /\ e.wire = WireStep(g.wire, "data", 1)
    BY <1>5, <1>8, <2>3, <2>4, RawSendEither, SentFacts DEF Clear
  <2>6. e.wire = [at |-> "body", owed |-> 0]
    BY <2>4, <2>5 DEF WireStep, Legal, HeaderOp, Chunked
  <2>7. e.block.state # REQUEST_BEGIN /\ ~LastChunkDue(e)
    BY <2>5 DEF LastChunkDue, REQUEST_BEGIN, REQUEST_HEADER, REQUEST_BODY, RESPONSE_BEGIN,
                RESPONSE_BODY
  <2> QED
    BY <1>4, <2>5, <2>6, <2>7, FinalizeOver DEF Complete, Clear
<1> QED
  BY <1>7, <1>8

LEMMA SessionOpOver ==
  ASSUME NEW c \in Over, NEW op PROVE SessionOp(c, op) \subseteq Over
<1> SUFFICES ASSUME NEW d \in SessionOp(c, op) PROVE d \in Over
  OBVIOUS
<1>1. CASE c \in Quiet
  BY <1>1, SessionOpQuiet DEF Over
<1>2. CASE c \notin Quiet
  <2>1. c \in GoodConn /\ Clear(c) /\ Settled(c) /\ c.chunkLen \in Nat
    BY <1>2, OverFacts DEF GoodConn, Conn
  <2>2. c.block.state = REQUEST_BEGIN /\ c.block.version = 0
    BY <2>1, ZeroBlockFacts DEF Settled
  <2>3. Finalize(c) = {c}
    BY <2>2 DEF Finalize
  <2>4. HttpError(c) = {c} /\ HttpStatus(c) = {c}
    BY <2>2, <2>3 DEF HttpError, HttpStatus
  <2>5. (\A h : HttpHeader(c, h) = {c}) /\ HttpSend(c) = {c}
    BY <2>2, <2>4, StatesApart DEF HttpHeader, HttpSend
  <2>6. \A len \in Nat : HttpRecv(c, len) \in Over
    BY <2>1, HttpRecvFacts DEF Over, Settled, Clear, Dropped
  <2> QED
    BY <2>1, <2>4, <2>5, <2>6 DEF SessionOp
<1> QED
  BY <1>1, <1>2

LEMMA PendCloseOver == ASSUME NEW c \in Over PROVE PendClose(c) \in Over
<1>1. /\ c \in GoodConn /\ Clear(c) /\ (c \in Quiet \/ Settled(c))
      /\ PendClose(c) \in GoodConn /\ PendClose(c).block = c.block
      /\ PendClose(c).wire = c.wire /\ PendClose(c).sock = c.sock \cup {"PEND_CLOSE"}
  BY OverFacts, PendCloseFacts
<1> QED
  BY <1>1, PendCloseQuiet DEF Over, Settled, Dropped, Clear

LEMMA AfterStatusOver ==
  ASSUME NEW c \in Over, NEW status \in RouteStatus
  PROVE  AfterStatus(c, status) \subseteq Over
<1>1. CASE c \in Quiet
  BY <1>1, AfterStatusQuiet DEF Over
<1>2. CASE c \notin Quiet
  <2>1. c.block.state = REQUEST_BEGIN
    BY <1>2, OverFacts, ZeroBlockFacts DEF Settled
  <2>2. Finalize(c) = {c} /\ Advance(c) = {c} /\ ~(c.block.state > REQUEST_BEGIN)
    BY <2>1, StatesApart DEF Finalize, Advance, REQUEST_BEGIN
  <2>3. AfterStatus(c, status) \subseteq {c, PendClose(c)}
    BY <2>1, <2>2, StatesApart DEF AfterStatus, RouteStatus
  <2> QED
    BY <2>3, PendCloseOver
<1> QED
  BY <1>1, <1>2

-----------------------------------------------------------------------------
(* A response under way, and what its handler has still to say.            *)

\* The way in which the contract lets a route frame its responses.
FrameOf(r) == CHOOSE f \in Framing : \A b \in Handlers[r] : Answers(b, f)
Frame(c)   == FrameOf(c.block.route)

\* No header said how long the body is, or what was said is what http_send goes by.
Unframed(c)   == c.block.left = 0 /\ ~Is(c, "RESPONSE_CHUNKED")
Undeclared(c) == c.wire.owed = Unbounded /\ Unframed(c)
Declared(c)   ==
  /\ Frame(c) = "length"  => c.wire.owed = c.block.left /\ ~Is(c, "RESPONSE_CHUNKED")
  /\ Frame(c) = "chunked" => c.wire.owed = Chunked /\ Is(c, "RESPONSE_CHUNKED")
  /\ Frame(c) = "close"   => Undeclared(c) /\ ~Is(c, "KEEPALIVE")
Announced(c)  == Declared(c) /\ (Frame(c) = "length" => c.block.left = DeclaredLen)

Unanswered(c) == Complete(c.wire) /\ Unframed(c) /\ c.block.version > 0
AtHeader(c) ==
  /\ c.block.state = RESPONSE_HEADER /\ c.block.route \in 1..NRoutes
  /\ c.wire.at = "head" /\ (Undeclared(c) \/ Announced(c))
AtBody(c) ==
  /\ c.block.state = RESPONSE_BODY /\ c.block.route \in 1..NRoutes
  /\ c.wire.at = "body" /\ Declared(c)

\* n sends are left for what is left of the declared length.
Fits(n, left) == (n - 1) * SendLen < left /\ left <= n * SendLen

TellsBegin(c, ops, status) ==
  /\ c.block.state = RESPONSE_BEGIN /\ Unframed(c)
  /\ c.block.route \in 1..NRoutes \/ (ops # <<>> /\ Head(ops) = "error")
  /\ \/ Unanswered(c) /\ AnswersBegin(ops, status)
     \/ /\ c.wire = [at |-> "head", owed |-> Unbounded]
        /\ ops = <<>> /\ status \in {"NEXT", "CLOSE"}
TellsHeader(c, ops, status) ==
  /\ AtHeader(c) /\ ops \in Seq(HeadersOf(Frame(c)))
  /\ status \in {"NEXT", "MORE", "CLOSE", "ERROR"}
  /\ status = "NEXT" => Announced(c) \/ \E i \in DOMAIN ops : ops[i] = Frame(c)
TellsBody(c, ops, status) ==
  /\ AtBody(c) /\ ops \in Seq({"send"})
  /\ Frame(c) = "length" =>
       \/ Fits(Len(ops), c.block.left) /\ (status = "MORE" => Announced(c) /\ ops = <<>>)
       \/ Announced(c) /\ ops = <<>> /\ status \in {"MORE", "CLOSE", "ERROR"}

\* The connection in a call of do_write with ops and status to come ...
Tells(c, ops, status) ==
  /\ c \in GoodConn
  /\ \/ c \in Over
     \/ TellsBegin(c, ops, status)
     \/ TellsHeader(c, ops, status)
     \/ TellsBody(c, ops, status)

\* ... and out of one.
Told(c, asking) ==
  \/ c \in Quiet
  \/ /\ c.block.state = REQUEST_BEGIN /\ Clear(c) /\ Unframed(c)
     /\ Complete(c.wire) \/ Dropped(c)
     /\ asking => c.block.version > 0
  \/ /\ c.block.state \in {REQUEST_HEADER, REQUEST_BODY, RESPONSE_BEGIN}
     /\ Unanswered(c)
  \/ AtHeader(c)
  \/ AtBody(c) /\ Announced(c)

LEMMA FrameFacts ==
  ASSUME Framed, NEW r \in 1..NRoutes
  PROVE  FrameOf(r) \in Framing /\ \A b \in Handlers[r] : Answers(b, FrameOf(r))
BY DEF Framed, FrameOf

LEMMA FitsStep ==
  ASSUME NEW n \in Nat, NEW left \in Nat, Fits(n + 1, left)
  PROVE  /\ left > 0 /\ SendSize(left) \in Nat /\ SendSize(left) <= left
         /\ left - SendSize(left) \in Nat /\ Fits(n, left - SendSize(left))
<1> DEFINE p == n * SendLen
<1>1. SendLen \in Nat \ {0} /\ p \in Nat
  BY HttpConstants
<1>2. (n - 1) * SendLen = p - SendLen /\ (n + 1) * SendLen = p + SendLen
  BY <1>1
<1>3. n = 0 \/ p >= SendLen
  BY <1>1
<1>4. (n + 1 - 1) * SendLen = p
  OBVIOUS
<1>5. p < left /\ left <= p + SendLen
  BY <1>2, <1>4 DEF Fits
<1>6. n = 0 => p = 0
  BY <1>1
<1> HIDE DEF p
<1>7. left > 0 /\ SendSize(left) = Least(SendLen, left)
  BY <1>1, <1>5 DEF SendSize
<1>8. /\ p - SendLen < left - Least(SendLen, left)
      /\ left - Least(SendLen, left) <= p
      /\ Least(SendLen, left) \in Nat /\ Least(SendLen, left) <= left
  BY <1>1, <1>3, <1>5, <1>6 DEF Least
<1> USE DEF p
<1> QED
  BY <1>1, <1>2, <1>7, <1>8 DEF Fits

LEMMA FitsNone == ASSUME NEW left \in Nat, Fits(0, left) PROVE left = 0
BY HttpConstants DEF Fits

LEMMA TellsClear ==
  ASSUME NEW c, NEW ops, NEW status, Tells(c, ops, status) PROVE c \in GoodConn /\ Clear(c)
BY OverFacts DEF Tells, TellsBegin, TellsHeader, TellsBody, Unanswered, Complete, AtHeader,
   AtBody, Clear

LEMMA ToldClear ==
  ASSUME NEW c, NEW asking, Told(c, asking) PROVE Clear(c)
BY DEF Told, Quiet, Unanswered, Complete, AtHeader, AtBody, Clear

LEMMA OverTold == ASSUME NEW c \in Over PROVE Told(c, FALSE)
BY ZeroBlockFacts, OverFacts DEF Told, Settled, Unframed, Is

\* http_status, once.
LEMMA BeginOpTells ==
  ASSUME NEW c \in GoodConn, NEW ops \in Seq(Op), ops # <<>>, NEW status,
         TellsBegin(c, ops, status), NEW d \in SessionOp(c, Head(ops))
  PROVE  d \in Over \/ TellsBegin(d, Tail(ops), status)
<1>1. /\ c.block.state = RESPONSE_BEGIN /\ Unframed(c) /\ Unanswered(c)
      /\ AnswersBegin(ops, status)
      /\ c.block.route \in 1..NRoutes \/ (ops # <<>> /\ Head(ops) = "error")
  BY DEF TellsBegin
<1>2. Clear(c) /\ c.block.version # 0 /\ c.wire \in Wire
  BY <1>1 DEF Unanswered, Complete, Clear, GoodConn, Conn
<1>3. CASE Head(ops) = "error"
  BY <1>1, <1>2, <1>3, HttpErrorOver DEF SessionOp, Unanswered
<1>4. CASE Head(ops) # "error"
  <2>1. ops = <<"status">> /\ status \in {"NEXT", "CLOSE"} /\ c.block.route \in 1..NRoutes
    BY <1>1, <1>4 DEF AnswersBegin
  <2>2. Head(ops) = "status" /\ Tail(ops) = <<>>
    BY <2>1
  <2>3. d \in RawSend(c, "status", 0)
    BY <1>1, <1>2, <2>2 DEF SessionOp, HttpStatus, RESPONSE_BEGIN
  <2>4. CASE d \in Quiet
    BY <2>4 DEF Over
  <2>5. CASE d \in SendOk(c, "status", 0)
    <3>1. d.block = c.block /\ d.wire = WireStep(c.wire, "status", 0)
      BY <2>5, SentFacts
    <3>2. d.wire = [at |-> "head", owed |-> Unbounded]
      BY <1>1, <1>2, <3>1 DEF Unanswered, WireStep, Legal, Complete, Wire
    <3> QED
      BY <1>1, <2>1, <2>2, <3>1, <3>2 DEF TellsBegin, Unframed, Is
  <2> QED
    BY <1>2, <2>3, <2>4, <2>5, RawSendEither
<1> QED
  BY <1>3, <1>4

\* A header that frames the response is noted in the block as the peer reads it.
LEMMA HeaderOpTells ==
  ASSUME Framed, NEW c \in GoodConn, NEW ops \in Seq(Op), ops # <<>>, NEW status,
         TellsHeader(c, ops, status), NEW d \in SessionOp(c, Head(ops))
  PROVE  d \in Over \/ TellsHeader(d, Tail(ops), status)
<1> DEFINE h == Head(ops)
           f == Frame(c)
           e == HeaderNoted(c, h)
<1>1. /\ AtHeader(c) /\ ops \in Seq(HeadersOf(f)) /\ f \in Framing
      /\ c.block.state = RESPONSE_HEADER /\ c.block.route \in 1..NRoutes
      /\ c.wire.at = "head" /\ (Undeclared(c) \/ Announced(c))
      /\ c.wire \in Wire /\ c.block \in Block
  BY FrameFacts DEF TellsHeader, AtHeader, Frame, GoodConn, Conn
<1>2. h \in HeadersOf(f) /\ Tail(ops) \in Seq(HeadersOf(f))
  BY <1>1
<1>3. h \in HeaderOp /\ (f = "close" => h \in {"header", "close"})
      /\ h \in {"header", "close", "keepalive", f}
  BY <1>1, <1>2 DEF HeadersOf, Framing, HeaderOp
<1>4. d \in RawSend(e, h, DeclaredLen)
  <2>1. SessionOp(c, h) = HttpHeader(c, h)
    BY <1>3 DEF SessionOp, HeaderOp
  <2> QED
    BY <1>1, <2>1, HttpHeaderIs
<1>5. /\ e \in GoodConn /\ e.wire = c.wire /\ Clear(e)
      /\ e.block.flags = HeaderFlags(c, h) /\ e.block.left = HeaderLeft(c, h)
      /\ e.block.state = c.block.state /\ e.block.route = c.block.route
  BY <1>1, HeaderNotedFacts DEF Clear
<1> HIDE DEF e
<1>6. CASE d \in Quiet
  BY <1>6 DEF Over
<1>7. CASE d \in SendOk(e, h, DeclaredLen)
  <2>1. d.block = e.block /\ d.wire = WireStep(c.wire, h, DeclaredLen)
    BY <1>5, <1>7, SentFacts, HttpConstants
  <2>2. Legal(c.wire, h, DeclaredLen)
    BY <1>1, <1>3 DEF Legal
  <2>3. /\ d.wire.at = "head"
        /\ d.wire.owed = IF h = "length" THEN DeclaredLen
                         ELSE IF h = "chunked" THEN Chunked ELSE c.wire.owed
    BY <1>1, <1>3, <2>1, <2>2 DEF WireStep, Wire, HeaderOp
  <2>4. /\ d.block.state = RESPONSE_HEADER /\ d.block.route = c.block.route
        /\ d.block.flags = HeaderFlags(c, h) /\ d.block.left = HeaderLeft(c, h)
        /\ Frame(d) = f
    BY <1>1, <1>5, <2>1 DEF Frame
  <2>5. /\ Is(d, "RESPONSE_CHUNKED") <=> (h = "chunked" \/ Is(c, "RESPONSE_CHUNKED"))
        /\ Is(d, "KEEPALIVE") <=>
             (h = "keepalive" \/ (h # "close" /\ Is(c, "KEEPALIVE")))
    BY <1>3, <2>4 DEF Is, HeaderFlags, HeaderOp
  <2>6. Announced(c) \/ h = f => Announced(d)
    <3>1. CASE f = "length"
      <4>1. ~Is(c, "RESPONSE_CHUNKED")
        BY <1>1, <3>1 DEF Undeclared, Unframed, Announced, Declared
      <4> QED
        BY <1>1, <1>3, <2>3, <2>4, <2>5, <3>1, <4>1
           DEF Announced, Declared, HeaderLeft
    <3>2. CASE f = "chunked"
      BY <1>1, <1>3, <2>3, <2>4, <2>5, <3>2 DEF Announced, Declared
    <3>3. CASE f = "close"
      BY <1>1, <1>3, <2>3, <2>4, <2>5, <3>3
         DEF Announced, Declared, Undeclared, Unframed, HeaderLeft
    <3> QED
      BY <1>1, <3>1, <3>2, <3>3 DEF Framing
  <2>7. Undeclared(c) => Undeclared(d) \/ Announced(d)
    BY <1>3, <2>3, <2>4, <2>5, <2>6 DEF Undeclared, Unframed, HeaderLeft
  <2>8. AtHeader(d)
    BY <1>1, <2>3, <2>4, <2>6, <2>7 DEF AtHeader
  <2>9. status = "NEXT" => Announced(d) \/ \E i \in DOMAIN Tail(ops) : Tail(ops)[i] = f
    <3> SUFFICES ASSUME status = "NEXT", ~Announced(d)
                 PROVE  \E i \in DOMAIN Tail(ops) : Tail(ops)[i] = f
      OBVIOUS
    <3>1. PICK i \in DOMAIN ops : ops[i] = f
      BY <2>6 DEF TellsHeader
    <3>2. i # 1 /\ i \in 2..Len(ops)
      BY <2>6, <3>1
    <3>3. i - 1 \in DOMAIN Tail(ops) /\ Tail(ops)[i - 1] = f
      BY <3>1, <3>2
    <3> QED
      BY <3>3
  <2> QED
    BY <1>2, <2>4, <2>8, <2>9 DEF TellsHeader
<1> QED
  BY <1>4, <1>5, <1>6, <1>7, RawSendEither, HttpConstants

\* A piece of the body: a chunk, what fits in the declared length, or anything.
LEMMA BodyOpTells ==
  ASSUME Framed, NEW c \in GoodConn, NEW ops \in Seq(Op), ops # <<>>,
         NEW status \in RouteStatus,
         TellsBody(c, ops, status), NEW d \in SessionOp(c, Head(ops))
  PROVE  d \in Over \/ TellsBody(d, Tail(ops), status)
<1> DEFINE f == Frame(c)
<1>1. /\ AtBody(c) /\ ops \in Seq({"send"}) /\ f \in Framing
      /\ c.block.state = RESPONSE_BODY /\ c.block.route \in 1..NRoutes
      /\ c.wire.at = "body" /\ Declared(c) /\ Clear(c)
      /\ c.wire \in Wire /\ c.wire.owed \in Int /\ c.block.left \in Nat
  BY FrameFacts DEF TellsBody, AtBody, Frame, GoodConn, Conn, Block, Clear, Wire
<1>2. Head(ops) = "send" /\ Tail(ops) \in Seq({"send"}) /\ d \in HttpSend(c)
      /\ Len(ops) \in Nat \ {0} /\ Len(Tail(ops)) = Len(ops) - 1
  BY <1>1 DEF SessionOp
<1>3. FinalizeAll(SendFail(c)) \subseteq Quiet
  BY <1>1, SendFailQuiet, FinalizeAllQuiet
<1>4. CASE f = "chunked"
  <2>1. Is(c, "RESPONSE_CHUNKED") /\ c.wire.owed = Chunked
    BY <1>1, <1>4 DEF Declared
  <2>2. CASE d \in FinalizeAll(SendFail(c))
    BY <1>3, <2>2 DEF Over
  <2>3. CASE d \in RawSendAll(SendOk(c, "frame", 0), "data", SendLen)
    <3>1. PICK e \in SendOk(c, "frame", 0) : d \in RawSend(e, "data", SendLen)
      BY <2>3 DEF RawSendAll
    <3>2. e \in GoodConn /\ e.block = c.block /\ e.wire = WireStep(c.wire, "frame", 0)
      BY <3>1, SentFacts
    <3>3. e.wire = c.wire
      BY <1>1, <2>1, <3>2 DEF WireStep, Legal
    <3>4. CASE d \in Quiet
      BY <3>4 DEF Over
    <3>5. CASE d \in SendOk(e, "data", SendLen)
      <4>1. d.block = c.block /\ d.wire = WireStep(c.wire, "data", SendLen)
        BY <3>2, <3>3, <3>5, SentFacts, HttpConstants
      <4>2. d.wire = c.wire
        BY <1>1, <2>1, <4>1 DEF WireStep, Legal, Chunked, HeaderOp
      <4>3. AtBody(d) /\ Frame(d) = "chunked"
        BY <1>1, <1>4, <4>1, <4>2 DEF AtBody, Declared, Undeclared, Unframed, Frame, Is
      <4> QED
        BY <1>2, <4>3 DEF TellsBody
    <3> QED
      BY <1>1, <3>1, <3>2, <3>3, <3>4, <3>5, RawSendEither, HttpConstants DEF Clear
  <2> QED
    BY <1>1, <1>2, <2>1, <2>2, <2>3 DEF HttpSend
<1>5. CASE f # "chunked"
  <2> DEFINE len == SendSize(c.block.left)
  <2>1. ~Is(c, "RESPONSE_CHUNKED")
    BY <1>1, <1>5 DEF Declared, Undeclared, Unframed, Framing
  <2>2. len \in Nat /\ LeftAfter(c.block.left, len) \in Nat
    BY <1>1, SendSizeFacts
  <2>3. CASE d \in FinalizeAll(SendFail(c))
    BY <1>3, <2>3 DEF Over
  <2>4. ASSUME NEW e \in SendOk(c, "data", len), d = SendNoted(e, len)
        PROVE  TellsBody(d, Tail(ops), status)
    <3>1. e \in GoodConn /\ e.block = c.block /\ e.wire = WireStep(c.wire, "data", len)
      BY <2>2, SentFacts
    <3>2. /\ d.wire = e.wire /\ d.block.left = LeftAfter(c.block.left, len)
          /\ d.block.flags = c.block.flags /\ d.block.state = RESPONSE_BODY
          /\ d.block.route = c.block.route
      <4> HIDE DEF len
      <4>1. LeftAfter(e.block.left, len) \in Nat
        BY <2>2, <3>1
      <4>2. /\ d.wire = e.wire /\ d.block.left = LeftAfter(e.block.left, len)
            /\ d.block.flags = e.block.flags /\ d.block.state = e.block.state
            /\ d.block.route = e.block.route
        BY <2>4, <3>1, <4>1, SendNotedFacts
      <4> QED
        BY <1>1, <3>1, <4>2
    <3>3. Frame(d) = f /\ (Is(d, "RESPONSE_CHUNKED") <=> Is(c, "RESPONSE_CHUNKED"))
          /\ (Is(d, "KEEPALIVE") <=> Is(c, "KEEPALIVE"))
      BY <3>2 DEF Frame, Is
    <3>4. CASE f = "length"
      <4>1. Fits(Len(ops), c.block.left) /\ status # "MORE"
        BY <1>2, <3>4 DEF TellsBody
      <4>2. Len(ops) = Len(Tail(ops)) + 1 /\ Len(Tail(ops)) \in Nat
        BY <1>2
      <4>3. /\ c.block.left > 0 /\ len <= c.block.left
            /\ Fits(Len(Tail(ops)), c.block.left - len)
        BY <1>1, <4>1, <4>2, FitsStep
      <4>4. c.wire.owed = c.block.left
        BY <1>1, <3>4 DEF Declared
      <4>5. d.block.left = c.block.left - len
        BY <3>2, <4>3 DEF LeftAfter
      <4> HIDE DEF len
      <4>6. d.wire = [c.wire EXCEPT !.owed = @ - len]
        BY <1>1, <2>2, <3>1, <3>2, <4>3, <4>4 DEF WireStep, Legal, Chunked, HeaderOp
      <4>7. d.wire.at = "body" /\ d.wire.owed = d.block.left
        BY <1>1, <4>4, <4>5, <4>6 DEF Wire
      <4>8. AtBody(d)
        BY <1>1, <2>1, <3>2, <3>3, <3>4, <4>7 DEF AtBody, Declared
      <4> QED
        BY <1>2, <3>3, <4>1, <4>3, <4>5, <4>8 DEF TellsBody
    <3>5. CASE f = "close"
      <4>1. Undeclared(c) /\ ~Is(c, "KEEPALIVE") /\ c.wire.owed = Unbounded /\ c.block.left = 0
        BY <1>1, <3>5 DEF Declared, Undeclared, Unframed
      <4>2. d.wire = c.wire /\ d.block.left = 0
        BY <1>1, <2>2, <3>1, <3>2, <4>1
           DEF WireStep, Legal, Unbounded, Chunked, HeaderOp, LeftAfter
      <4>3. AtBody(d)
        BY <1>1, <3>2, <3>3, <3>5, <4>1, <4>2
           DEF AtBody, Declared, Undeclared, Unframed
      <4> QED
        BY <1>2, <3>3, <3>5, <4>3 DEF TellsBody
    <3> QED
      BY <1>1, <1>5, <3>4, <3>5 DEF Framing
  <2> QED
    BY <1>1, <1>2, <2>1, <2>3, <2>4, HttpSendIs
<1> QED
  BY <1>4, <1>5

LEMMA SessionOpTells ==
  ASSUME Framed, NEW c, NEW ops \in Seq(Op), ops # <<>>, NEW status \in RouteStatus,
         Tells(c, ops, status), NEW d \in SessionOp(c, Head(ops))
  PROVE  Tells(d, Tail(ops), status)
<1>1. c \in GoodConn /\ d \in GoodConn
  BY SessionOpGood DEF Tells
<1> QED
  BY <1>1, SessionOpOver, BeginOpTells, HeaderOpTells, BodyOpTells DEF Tells

\* Whatever ends a body leaves it whole, or ends the connection.
LEMMA BodyEnds ==
  ASSUME Framed, NEW c \in GoodConn, AtBody(c),
         Complete(c.wire) \/ Dropped(c) \/ Frame(c) # "length"
  PROVE  Finalize(c) \subseteq Over
<1>1. /\ Frame(c) \in Framing /\ Clear(c) /\ c.wire.at = "body" /\ Declared(c)
      /\ c.block.state = RESPONSE_BODY
  BY FrameFacts DEF AtBody, Frame, Clear
<1>2. c.block.state # REQUEST_BEGIN /\ (LastChunkDue(c) <=> Is(c, "RESPONSE_CHUNKED"))
  BY <1>1, StatesApart DEF LastChunkDue
<1> QED
  BY <1>1, <1>2, FinalizeOver DEF Declared, Undeclared, Unframed, Framing

LEMMA BeginTold ==
  ASSUME NEW c \in GoodConn, NEW status \in RouteStatus, TellsBegin(c, <<>>, status),
         NEW d \in AfterStatus(c, status)
  PROVE  Told(d, FALSE)
<1> DEFINE p == PendClose(c)
<1>1. /\ c.block.state = RESPONSE_BEGIN /\ Unframed(c) /\ c.block.route \in 1..NRoutes
      /\ c.block.state > REQUEST_BEGIN
      /\ c.block.state \notin {REQUEST_BEGIN, RESPONSE_HEADER, RESPONSE_BODY}
  BY StatesApart DEF TellsBegin, RESPONSE_BEGIN, REQUEST_BEGIN, RESPONSE_BODY
<1>2. /\ p \in GoodConn /\ p.block = c.block /\ p.wire = c.wire /\ Dropped(p)
  BY PendCloseFacts DEF Dropped
<1>3. Clear(c) /\ Clear(p)
  BY <1>2 DEF TellsBegin, Unanswered, Complete, Clear
<1>4. Finalize(p) \subseteq Over
  BY <1>1, <1>2, <1>3, FinalizeOver DEF LastChunkDue
<1> HIDE DEF p
<1>5. CASE Unanswered(c) /\ AnswersBegin(<<>>, status)
  <2>1. status # "NEXT"
    BY <1>5 DEF AnswersBegin
  <2>2. HttpError(c) \subseteq Over /\ HttpError(p) \subseteq Over /\ Finalize(c) \subseteq Over
    BY <1>1, <1>2, <1>3, <1>5, HttpErrorOver, FinalizeOver DEF LastChunkDue, Unanswered
  <2>3. AfterStatus(c, status) \subseteq Over
    BY <1>1, <1>4, <2>1, <2>2 DEF AfterStatus, RouteStatus, p
  <2> QED
    BY <2>3, OverTold
<1>6. CASE c.wire = [at |-> "head", owed |-> Unbounded] /\ status = "NEXT"
  <2>1. d = [c EXCEPT !.block.state = RESPONSE_HEADER]
    BY <1>1, <1>6 DEF AfterStatus, Advance
  <2>2. RESPONSE_HEADER \in SessState
    BY DEF SessState
  <2>3. /\ d.wire = c.wire /\ d.block.state = RESPONSE_HEADER /\ d.block.route = c.block.route
        /\ d.block.flags = c.block.flags /\ d.block.left = c.block.left
    BY <2>1, <2>2, SetStateFacts
  <2>4. AtHeader(d)
    BY <1>1, <1>6, <2>3 DEF AtHeader, Undeclared, Unframed, Is
  <2> QED
    BY <2>4 DEF Told
<1>7. CASE status = "CLOSE"
  <2>1. d \in Finalize(p)
    BY <1>1, <1>7 DEF AfterStatus, p
  <2> QED
    BY <1>4, <2>1, OverTold
<1> QED
  BY <1>5, <1>6, <1>7 DEF TellsBegin

LEMMA HeaderTold ==
  ASSUME NEW c \in GoodConn, NEW status \in RouteStatus, TellsHeader(c, <<>>, status),
         NEW d \in AfterStatus(c, status)
  PROVE  Told(d, FALSE)
<1> DEFINE p == PendClose(c)
<1>1. /\ AtHeader(c) /\ c.block.state = RESPONSE_HEADER /\ c.block.route \in 1..NRoutes
      /\ c.wire.at = "head" /\ Clear(c) /\ c.wire \in Wire
      /\ c.block.state > REQUEST_BEGIN /\ ~(c.block.state <= RESPONSE_BEGIN)
      /\ c.block.state \notin {REQUEST_BEGIN, RESPONSE_BEGIN, RESPONSE_BODY}
  BY StatesApart DEF TellsHeader, AtHeader, Clear, GoodConn, Conn, REQUEST_BEGIN,
     RESPONSE_BEGIN, RESPONSE_HEADER, RESPONSE_BODY
<1>2. /\ p \in GoodConn /\ p.block = c.block /\ p.wire = c.wire /\ Dropped(p) /\ Clear(p)
  BY <1>1, PendCloseFacts DEF Dropped, Clear
<1>3. Finalize(p) \subseteq Over
  BY <1>1, <1>2, FinalizeOver DEF LastChunkDue
<1> HIDE DEF p
<1>4. CASE status = "NEXT"
  <2>1. Announced(c)
    BY <1>4 DEF TellsHeader
  <2>2. PICK e \in RawSend(c, "blank", 0) : d = [e EXCEPT !.block.state = RESPONSE_BODY]
    BY <1>1, <1>4 DEF AfterStatus, Advance
  <2>3. RESPONSE_BODY \in SessState
    BY DEF SessState
  <2>4. e \in GoodConn
    BY <2>2, RawSendGood
  <2>5. /\ d \in GoodConn /\ d.wire = e.wire /\ d.sock = e.sock
        /\ d.block.state = RESPONSE_BODY /\ d.block.route = e.block.route
        /\ d.block.flags = e.block.flags /\ d.block.left = e.block.left
    BY <2>2, <2>3, <2>4, SetStateFacts
  <2>6. CASE e \in Quiet
    BY <2>5, <2>6, QuietAlike DEF Told, Shut
  <2>7. CASE e \in SendOk(c, "blank", 0)
    <3>1. e.block = c.block /\ e.wire = WireStep(c.wire, "blank", 0)
      BY <2>7, SentFacts
    <3>2. e.wire.at = "body" /\ e.wire.owed = c.wire.owed
      BY <1>1, <3>1 DEF WireStep, Legal, Wire
    <3>3. Frame(d) = Frame(c) /\ Announced(d) /\ AtBody(d)
      BY <1>1, <2>1, <2>5, <3>1, <3>2
         DEF Frame, Announced, Declared, Undeclared, Unframed, Is, AtBody
    <3> QED
      BY <3>3 DEF Told
  <2> QED
    BY <1>1, <2>2, <2>6, <2>7, RawSendEither
<1>5. CASE status = "MORE"
  BY <1>1, <1>5 DEF AfterStatus, Told
<1>6. CASE status \in {"CLOSE", "ERROR"}
  <2>1. HttpError(p) = Finalize(p)
    BY <1>1, <1>2 DEF HttpError
  <2>2. d \in Finalize(p)
    BY <1>1, <1>6, <2>1 DEF AfterStatus, p
  <2> QED
    BY <1>3, <2>2, OverTold
<1> QED
  BY <1>4, <1>5, <1>6 DEF TellsHeader

LEMMA BodyTold ==
  ASSUME Framed, NEW c \in GoodConn, NEW status \in RouteStatus,
         TellsBody(c, <<>>, status), NEW d \in AfterStatus(c, status)
  PROVE  Told(d, FALSE)
<1> DEFINE p == PendClose(c)
<1>1. /\ AtBody(c) /\ c.block.state = RESPONSE_BODY /\ c.wire.at = "body" /\ Declared(c)
      /\ c.block.state > REQUEST_BEGIN /\ ~(c.block.state <= RESPONSE_BEGIN)
      /\ c.block.state \notin {REQUEST_BEGIN, RESPONSE_BEGIN, RESPONSE_HEADER}
      /\ c.block.left \in Nat
  BY StatesApart DEF TellsBody, AtBody, GoodConn, Conn, Block, REQUEST_BEGIN,
     RESPONSE_BEGIN, RESPONSE_HEADER, RESPONSE_BODY
<1>2. /\ p \in GoodConn /\ p.block = c.block /\ p.wire = c.wire /\ Dropped(p)
      /\ p.sock = c.sock \cup {"PEND_CLOSE"}
  BY PendCloseFacts DEF Dropped
<1>3. AtBody(p)
  BY <1>1, <1>2 DEF AtBody, Declared, Undeclared, Unframed, Is, Frame
<1>4. Finalize(p) \subseteq Over /\ HttpError(p) = Finalize(p) /\ HttpError(c) = Finalize(c)
  BY <1>1, <1>2, <1>3, BodyEnds DEF HttpError
<1> HIDE DEF p
<1>5. CASE status = "MORE"
  <2>1. Announced(c)
    BY <1>1, <1>5 DEF TellsBody, Announced
  <2>2. d = c
    BY <1>1, <1>5 DEF AfterStatus
  <2> QED
    BY <1>1, <2>1, <2>2 DEF Told
<1>6. CASE status \in {"CLOSE", "ERROR"}
  <2>1. d \in Finalize(p)
    BY <1>1, <1>4, <1>6 DEF AfterStatus, p
  <2> QED
    BY <1>4, <2>1, OverTold
<1>7. CASE status \notin {"MORE", "CLOSE", "ERROR"}
  <2>1. d \in Finalize(c)
    BY <1>1, <1>4, <1>7 DEF AfterStatus, Advance, RouteStatus
  <2>2. Complete(c.wire) \/ Frame(c) # "length"
    <3> SUFFICES ASSUME Frame(c) = "length" PROVE Complete(c.wire)
      OBVIOUS
    <3>1. Fits(0, c.block.left)
      BY <1>7 DEF TellsBody
    <3>2. c.wire.owed = 0
      BY <1>1, <3>1, FitsNone DEF Declared
    <3> QED
      BY <1>1, <3>2 DEF Complete
  <2> QED
    BY <1>1, <2>1, <2>2, BodyEnds, OverTold
<1> QED
  BY <1>5, <1>6, <1>7

LEMMA AfterStatusTold ==
  ASSUME Framed, NEW c, NEW status \in RouteStatus, Tells(c, <<>>, status),
         NEW d \in AfterStatus(c, status)
  PROVE  d \in GoodConn /\ Told(d, FALSE)
<1>1. c \in GoodConn /\ d \in GoodConn
  BY AfterStatusGood DEF Tells
<1> QED
  BY <1>1, AfterStatusOver, OverTold, BeginTold, HeaderTold, BodyTold DEF Tells

-----------------------------------------------------------------------------
(* The inductive invariant.                                                *)

Wired ==
  /\ Clear(conn)
  /\ pc \notin {"closed", "halted"} =>
       IF pc = "handler" /\ call.by = "response" THEN Tells(conn, call.ops, call.status)
       ELSE Told(conn, Asking)
  /\ Versioned(Rest) /\ \A i \in DOMAIN later : Versioned(later[i])

LEMMA InitWired == ASSUME Framed, Init PROVE Wired
<1>1. /\ conn.block = ZeroBlock /\ conn.wire = [at |-> "idle", owed |-> Unbounded]
      /\ pc = "accepted" /\ Rest = <<>>
  BY EmptySeq, ConcatEmptySeq DEF Init, Rest
<1>2. Told(conn, FALSE) /\ Asking = FALSE /\ Clear(conn)
  BY <1>1, ZeroBlockFacts DEF Told, Clear, Complete, Unframed, Is, Asking
<1>3. Told(conn, Asking)
  BY <1>2
<1>4. Versioned(Rest) /\ \A i \in DOMAIN later : Versioned(later[i])
  <2>1. DOMAIN <<>> = {}
    OBVIOUS
  <2> QED
    BY <1>1, <2>1 DEF Versioned, Init, Framed
<1> QED
  BY <1>1, <1>2, <1>3, <1>4 DEF Wired

\* What is left of versioned input is versioned.
LEMMA VersionedBehind ==
  ASSUME NEW s \in Seq(Unit), NEW n \in Nat, n <= Len(s), Versioned(s)
  PROVE  Versioned(Behind(s, n))
<1>1. /\ Behind(s, n) \in Seq(Unit) /\ Len(Behind(s, n)) = Len(s) - n
      /\ \A i \in 1..(Len(s) - n) : Behind(s, n)[i] = s[n + i]
  BY BehindFacts
<1> SUFFICES ASSUME NEW i \in DOMAIN Behind(s, n), Behind(s, n)[i].k = "line"
             PROVE  Behind(s, n)[i].n # 0
  BY DEF Versioned
<1>2. i \in 1..(Len(s) - n) /\ n + i \in DOMAIN s
  BY <1>1
<1> QED
  BY <1>1, <1>2 DEF Versioned

LEMMA ConsumeVersioned ==
  ASSUME IInv, Wired, NEW n \in Nat, n <= Len(buf), Consume(n), net' = net
  PROVE  Versioned(Rest')
<1>1. Rest' = Behind(Rest, n) /\ n <= Len(Rest) /\ Rest \in Seq(Unit)
  BY IInvFacts, ConsumeRest
<1> QED
  BY <1>1, VersionedBehind DEF Wired

-----------------------------------------------------------------------------
(* The kinds of steps.                                                     *)

\* The connection of a step that leaves the input as it is.
LEMMA ToldAlike ==
  ASSUME NEW c, NEW d \in GoodConn, d.wire = c.wire, d.block = c.block,
         Shut(c) => Shut(d), Dropped(c) => Dropped(d), NEW asking, Told(c, asking)
  PROVE  Told(d, asking)
BY QuietAlike DEF Told, Clear, Unframed, Unanswered, AtHeader, AtBody, Undeclared, Announced,
   Declared, Frame, Is

LEMMA TellsAlike ==
  ASSUME NEW c, NEW d \in GoodConn, d.wire = c.wire, d.block = c.block, d.sock = c.sock,
         NEW ops, NEW status, Tells(c, ops, status)
  PROVE  Tells(d, ops, status)
<1>1. c \in Over => d \in Over
  BY QuietAlike DEF Over, Shut, Clear, Settled, Dropped
<1>2. (Unanswered(c) => Unanswered(d)) /\ (AtHeader(c) => AtHeader(d))
      /\ (AtBody(c) => AtBody(d)) /\ (Announced(c) => Announced(d)) /\ Frame(c) = Frame(d)
  BY DEF Unanswered, AtHeader, AtBody, Undeclared, Announced, Declared, Frame, Unframed, Is
<1> QED
  BY <1>1, <1>2 DEF Tells, TellsBegin, TellsHeader, TellsBody, Unframed, Is

LEMMA GoesTold ==
  ASSUME Wired, NEW d, conn' = d, Told(d, FALSE), later' = later, Versioned(Rest'),
         pc' \in {"select", "again", "parse", "done", "halted"}
  PROVE  Wired'
<1>1. Clear(conn') /\ Asking' = FALSE
  BY ToldClear DEF Asking
<1>2. Told(conn', Asking')
  BY <1>1
<1> QED
  BY <1>1, <1>2 DEF Wired

\* A handler is called, or looked for, before the request is answered.
LEMMA AsksTold ==
  ASSUME Wired, NEW d, conn' = d, NEW asking \in BOOLEAN, Told(d, asking),
         later' = later, Versioned(Rest'), pc' \in {"match", "handler", "halted"},
         pc' = "match" => asking,
         pc' = "handler" => /\ call'.by \in {"begin", "begin404", "header", "body"}
                            /\ asking <=> call'.by \in {"begin", "begin404"}
  PROVE  Wired'
<1>1. Clear(conn')
  BY ToldClear
<1>2. pc' # "halted" => Asking' = asking
  BY DEF Asking
<1>3. pc' # "halted" => Told(conn', Asking')
  BY <1>2
<1> QED
  BY <1>1, <1>3 DEF Wired

\* A request that is read is not answered yet, and once it is asked for it has a version.
Reading == {REQUEST_BEGIN, REQUEST_HEADER, REQUEST_BODY}

LEMMA ReadingTold ==
  ASSUME NEW c, NEW asking \in BOOLEAN, Told(c, asking), ~Dropped(c),
         c.block.state \in Reading,
         NEW d \in GoodConn, d.wire = c.wire, d.sock = c.sock,
         d.block.left = c.block.left,
         Is(d, "RESPONSE_CHUNKED") <=> Is(c, "RESPONSE_CHUNKED"),
         d.block.state \in Reading \cup {RESPONSE_BEGIN},
         NEW after \in BOOLEAN,
         \/ d.block.version > 0
         \/ /\ d.block.version = c.block.version
            /\ d.block.state # REQUEST_BEGIN \/ after =>
                 c.block.state # REQUEST_BEGIN \/ asking
  PROVE  Told(d, after)
<1>1. CASE c \in Quiet
  BY <1>1, QuietAlike DEF Told, Shut
<1>2. CASE c \notin Quiet
  <2>1. c.block.state \notin {RESPONSE_BEGIN, RESPONSE_HEADER, RESPONSE_BODY}
    BY StatesApart DEF Reading
  <2>2. /\ Complete(c.wire) /\ Unframed(c)
        /\ c.block.state # REQUEST_BEGIN \/ asking => c.block.version > 0
    BY <1>2, <2>1 DEF Told, AtHeader, AtBody, Unanswered
  <2>3. Complete(d.wire) /\ Unframed(d) /\ Clear(d)
    BY <2>2 DEF Unframed, Complete, Clear
  <2>4. d.block.state # REQUEST_BEGIN \/ after => d.block.version > 0
    BY <2>2
  <2> QED
    BY <2>3, <2>4 DEF Told, Unanswered, Reading
<1> QED
  BY <1>1, <1>2

LEMMA RejectTold ==
  ASSUME NEW c \in GoodConn, Told(c, FALSE), c.block.state \in Reading,
         c.block.state = REQUEST_BEGIN => c.block.version = 0, NEW d \in Reject(c)
  PROVE  Told(d, FALSE)
<1>1. PICK e \in HttpError(c) : d = PendClose(e)
  BY DEF Reject
<1>2. CASE c \in Quiet
  BY <1>1, <1>2, HttpErrorQuiet, PendCloseQuiet DEF Told
<1>3. CASE c.block.state = REQUEST_BEGIN
  <2>1. e = c
    BY <1>1, <1>3 DEF HttpError, Finalize
  <2>2. /\ d \in GoodConn /\ d.block = c.block /\ d.wire = c.wire
        /\ d.sock = c.sock \cup {"PEND_CLOSE"}
    BY <1>1, <2>1, PendCloseFacts
  <2> QED
    BY <2>2, ToldAlike DEF Shut, Dropped
<1>4. CASE c \notin Quiet /\ c.block.state # REQUEST_BEGIN
  <2>1. c.block.state \notin {RESPONSE_BEGIN, RESPONSE_HEADER, RESPONSE_BODY}
    BY StatesApart DEF Reading
  <2>2. Unanswered(c) /\ Clear(c) /\ c.block.state \in {REQUEST_HEADER, REQUEST_BODY}
    BY <1>4, <2>1, ToldClear DEF Told, AtHeader, AtBody, Reading
  <2>3. e \in Over
    BY <1>1, <2>2, HttpErrorOver DEF Unanswered
  <2> QED
    BY <1>1, <2>3, PendCloseOver, OverTold
<1> QED
  BY <1>2, <1>3, <1>4

LEMMA RejectWired ==
  ASSUME Wired, NEW c \in GoodConn, Told(c, FALSE), c.block.state \in Reading,
         c.block.state = REQUEST_BEGIN => c.block.version = 0,
         \E d \in Reject(c) : ReturnTrue(d), later' = later, Versioned(Rest')
  PROVE  Wired'
<1>1. PICK d \in Reject(c) : ReturnTrue(d)
  OBVIOUS
<1>2. conn' = d /\ pc' \in {"select", "done", "halted"}
  BY <1>1 DEF ReturnTrue, Goto
<1> QED
  BY <1>1, <1>2, RejectTold, GoesTold

-----------------------------------------------------------------------------
(* The worker around the callbacks.                                        *)

LEMMA OutOfCall ==
  ASSUME Wired, pc \notin {"closed", "halted", "handler", "match"}
  PROVE  Told(conn, FALSE)
<1>1. Asking = FALSE /\ Told(conn, Asking)
  BY DEF Wired, Asking
<1> QED
  BY <1>1

LEMMA OnConnectWired == ASSUME IInv, IInv', Wired, OnConnect PROVE Wired'
<1> DEFINE d == [conn EXCEPT !.sock = @ \cup {"CONNECTED"}]
<1>1. pc = "accepted" /\ Goto(d, "select") /\ later' = later /\ Rest' = Rest
  BY DEF OnConnect, Rest
<1>2. conn' = d /\ pc' \in {"select", "halted"} /\ d \in GoodConn
  BY <1>1, IInvFacts DEF Goto, IInv, ConnInv
<1>3. d.block = conn.block /\ d.wire = conn.wire /\ d.sock = conn.sock \cup {"CONNECTED"}
  BY IInvFacts DEF Conn
<1> HIDE DEF d
<1>4. Told(d, FALSE)
  BY <1>1, <1>2, <1>3, OutOfCall, ToldAlike DEF Shut, Dropped
<1> QED
  BY <1>1, <1>2, <1>4, GoesTold DEF Wired

\* finalize leaves the peer with what it can read.
LEMMA FinalizeClear ==
  ASSUME Framed, NEW c \in GoodConn, Told(c, FALSE), NEW d \in Finalize(c)
  PROVE  Clear(d)
<1>1. Clear(c)
  BY ToldClear
<1>2. CASE c \in Quiet
  BY <1>2, FinalizeQuiet DEF Quiet
<1>3. CASE c \notin Quiet /\ LastChunkDue(c)
  <2>1. AtBody(c) /\ Announced(c)
    <3>1. c.block.state \notin {REQUEST_BEGIN, REQUEST_HEADER, REQUEST_BODY, RESPONSE_BEGIN,
                                RESPONSE_HEADER}
      BY <1>3 DEF LastChunkDue, REQUEST_BEGIN, REQUEST_HEADER, REQUEST_BODY, RESPONSE_BEGIN,
                  RESPONSE_HEADER, RESPONSE_BODY
    <3> QED
      BY <1>3, <3>1 DEF Told, AtHeader
  <2>2. Complete(c.wire) \/ Dropped(c) \/ Frame(c) # "length"
    BY <1>3, <2>1 DEF Announced, Declared, LastChunkDue
  <2> QED
    BY <2>1, <2>2, BodyEnds, OverFacts
<1>4. CASE ~LastChunkDue(c)
  <2>1. Release(c).wire = c.wire
    BY ReleaseFacts
  <2> QED
    BY <1>1, <1>4, <2>1, FinalizeEither DEF Quiet, Clear
<1> QED
  BY <1>2, <1>3, <1>4

LEMMA CloseWired ==
  ASSUME Framed, IInv, IInv', Wired, pc = "select", Close PROVE Wired'
<1>1. PICK d \in Finalize(conn) :
        IF d.fault # "none" THEN Goto(d, "halted")
        ELSE Goto([d EXCEPT !.sock = {}, !.waiting = FALSE], "closed")
  BY DEF Close
<1>2. Told(conn, FALSE) /\ conn \in GoodConn
  BY OutOfCall, IInvFacts
<1>3. Clear(d) /\ d \in Conn
  BY <1>1, <1>2, FinalizeClear, FinalizeGood DEF GoodConn
<1>4. pc' \in {"closed", "halted"} /\ conn'.wire = d.wire
  <2>1. CASE d.fault # "none"
    BY <1>1, <2>1 DEF Goto
  <2>2. CASE d.fault = "none"
    BY <1>1, <1>3, <2>2 DEF Goto, Conn
  <2> QED
    BY <2>1, <2>2
<1>5. Rest' = Rest /\ later' = later
  BY DEF Close, Rest
<1> QED
  BY <1>3, <1>4, <1>5 DEF Wired, Clear

LEMMA RecvWired == ASSUME IInv, Wired, Recv PROVE Wired'
<1>1. /\ pc \in {"select", "again"} /\ pc' = "parse" /\ UNCHANGED <<conn, later>>
      /\ Rest' = Rest
  BY RecvRest DEF Recv, Receiving
<1> QED
  BY <1>1, OutOfCall, GoesTold DEF Wired

LEMMA PendCloseTold ==
  ASSUME NEW c \in GoodConn, NEW asking, Told(c, asking) PROVE Told(PendClose(c), asking)
<1>1. /\ PendClose(c) \in GoodConn /\ PendClose(c).block = c.block
      /\ PendClose(c).wire = c.wire /\ PendClose(c).sock = c.sock \cup {"PEND_CLOSE"}
  BY PendCloseFacts
<1> QED
  BY <1>1, ToldAlike DEF Shut, Dropped

LEMMA RecvEndWired == ASSUME IInv, Wired, RecvEnd PROVE Wired'
<1>1. /\ pc \in {"select", "again"} /\ later' = later /\ Rest' = Rest
      /\ Goto(PendClose(conn), "select")
  BY DEF RecvEnd, Receiving, Rest
<1>2. Told(PendClose(conn), FALSE)
  BY <1>1, OutOfCall, IInvFacts, PendCloseTold
<1> QED
  BY <1>1, <1>2, GoesTold DEF Goto, Wired

LEMMA ReadDoneWired == ASSUME IInv, Wired, ReadDone PROVE Wired'
<1>1. pc \in {"done", "parse"} /\ later' = later /\ Rest' = Rest
  BY DEF ReadDone, Rest
<1>2. PICK d \in {conn, PendClose(conn)} : Goto(d, "select") \/ Goto(d, "again")
  BY DEF ReadDone
<1>3. Told(d, FALSE)
  BY <1>1, OutOfCall, IInvFacts, PendCloseTold
<1>4. conn' = d /\ pc' \in {"select", "again", "halted"}
  BY <1>2 DEF Goto
<1> QED
  BY <1>1, <1>3, <1>4, GoesTold DEF Wired

-----------------------------------------------------------------------------
(* The callbacks.                                                          *)

\* The contract is what a handler is called by.
LEMMA CallTells ==
  ASSUME Framed, NEW c \in GoodConn, Told(c, FALSE), c.block.state \in Answering,
         c.block.route # NoRoute, NEW b \in BehavioursOf(c.block.route),
         b[1] = c.block.state
  PROVE  Tells(c, b[2], b[3])
<1>1. c.block.state \notin {REQUEST_BEGIN, REQUEST_HEADER, REQUEST_BODY}
  BY StatesApart DEF Answering
<1>2. c.block.route \in Route
  BY HttpConstants DEF GoodConn, Conn, Block, Route, NoRoute, R404
<1>3. ASSUME c.block.route \in 1..NRoutes PROVE Frame(c) \in Framing /\ Answers(b, Frame(c))
  <2>1. c.block.route # R404
    BY <1>3, HttpConstants DEF R404
  <2> QED
    BY <1>3, <2>1, FrameFacts DEF BehavioursOf, Frame
<1>4. CASE c \in Quiet
  BY <1>4 DEF Tells, Over
<1>5. CASE c.block.state = RESPONSE_BEGIN /\ Unanswered(c)
  <2>1. CASE c.block.route \in 1..NRoutes
    BY <1>3, <1>5, <2>1 DEF Tells, TellsBegin, Answers, Unanswered
  <2>2. CASE c.block.route \notin 1..NRoutes
    <3>1. b \in NotFoundHandler
      BY <1>2, <2>2, HttpConstants DEF BehavioursOf, Route, R404
    <3>2. b[2] = <<"error">>
      BY <1>5, <3>1 DEF NotFoundHandler, REQUEST_BEGIN, REQUEST_HEADER, REQUEST_BODY,
         RESPONSE_BEGIN, RESPONSE_HEADER, RESPONSE_BODY
    <3>3. b[2] # <<>> /\ Head(b[2]) = "error"
      BY <3>2
    <3> QED
      BY <1>5, <3>3 DEF Tells, TellsBegin, AnswersBegin, Unanswered
  <2> QED
    BY <2>1, <2>2
<1>6. CASE AtHeader(c)
  <2>1. AnswersHeader(b[2], b[3], Frame(c))
    BY <1>3, <1>6 DEF AtHeader, Answers
  <2> QED
    BY <1>6, <2>1 DEF Tells, TellsHeader, AnswersHeader
<1>7. CASE AtBody(c) /\ Announced(c)
  <2>1. AnswersBody(b[2], b[3], Frame(c))
    BY <1>3, <1>7 DEF AtBody, Answers
  <2>2. Frame(c) = "length" => c.block.left = DeclaredLen
    BY <1>7 DEF Announced
  <2> QED
    BY <1>7, <2>1, <2>2 DEF Tells, TellsBody, AnswersBody, SendsWhole, Fits
<1> QED
  BY <1>1, <1>4, <1>5, <1>6, <1>7 DEF Told, Answering

LEMMA DoWriteWired == ASSUME Framed, IInv, Kept, Wired, DoWrite PROVE Wired'
<1>1. /\ pc = "select" /\ ~Asking /\ ~Dropped(conn) /\ CallHandler(conn, "response")
      /\ later' = later /\ Rest' = Rest
  BY DEF DoWrite, Asking, Dropped, Rest
<1>2. conn \in Clean /\ conn \in GoodConn /\ conn.block.state \in Answering
  <2>1. /\ conn \in Clean /\ conn \in GoodConn
        /\ conn.block.state \in {REQUEST_BEGIN, REQUEST_HEADER, REQUEST_BODY} \cup Answering
    BY <1>1, KeptFacts
  <2>2. conn.block.state \notin {REQUEST_BEGIN, REQUEST_HEADER, REQUEST_BODY}
    BY DEF DoWrite, WantWrite, REQUEST_BEGIN, REQUEST_HEADER, REQUEST_BODY
  <2> QED
    BY <2>1, <2>2
<1>3. conn.block.route # NoRoute
  BY <1>1, <1>2 DEF Clean, Sound
<1>4. PICK b \in BehavioursOf(conn.block.route) :
        /\ b[1] = conn.block.state
        /\ call' = [by |-> "response", ops |-> b[2], status |-> b[3]]
        /\ Goto(conn, "handler")
  BY <1>1, <1>3 DEF CallHandler
<1>5. Tells(conn, b[2], b[3])
  BY <1>1, <1>2, <1>3, <1>4, OutOfCall, CallTells
<1>6. /\ conn' = conn /\ pc' \in {"handler", "halted"}
      /\ call'.by = "response" /\ call'.ops = b[2] /\ call'.status = b[3]
  BY <1>4 DEF Goto
<1> QED
  BY <1>1, <1>5, <1>6, TellsClear DEF Wired

LEMMA BegunTold ==
  ASSUME IInv, Kept, Wired, Parsing(0), buf # <<>>
  PROVE  /\ Begun \in GoodConn /\ Told(Begun, FALSE) /\ ~Dropped(Begun)
         /\ Begun.block.state = REQUEST_BEGIN /\ Begun.block.version = 0
<1>1. /\ Begun \in Clean /\ ~Dropped(Begun) /\ ~Shut(Begun) /\ conn.block \in Block
      /\ Begun.block = [conn.block EXCEPT !.length = SIZE_MAX]
      /\ conn.block.state = REQUEST_BEGIN /\ conn.block.version = 0
      /\ Begun = [conn EXCEPT !.block = [conn.block EXCEPT !.length = SIZE_MAX]]
  BY BegunClean
<1>2. conn \in Conn /\ pc = "parse" /\ ~Dropped(conn) /\ Told(conn, FALSE)
  BY ParsingFacts, OutOfCall DEF Parsing
<1>3. Begun.wire = conn.wire /\ Begun.sock = conn.sock
  BY <1>1, <1>2 DEF Conn
<1>4. /\ Begun.block.state = REQUEST_BEGIN /\ Begun.block.version = 0
      /\ Begun.block.left = conn.block.left /\ Begun.block.flags = conn.block.flags
  BY <1>1 DEF Block
<1>5. Told(Begun, FALSE)
  BY <1>1, <1>2, <1>3, <1>4, ReadingTold DEF Clean, Is, Reading
<1> QED
  BY <1>1, <1>4, <1>5 DEF Clean

LEMMA AwaitWired ==
  ASSUME Wired, NEW c \in GoodConn, Told(c, FALSE), c.block.state \in Reading,
         c.block.state = REQUEST_BEGIN => c.block.version = 0, AwaitLine(c)
  PROVE  Wired'
<1>1. later' = later /\ Rest' = Rest /\ Versioned(Rest)
  BY DEF AwaitLine, Rest, Wired
<1>2. CASE \E d \in Reject(c) : ReturnTrue(d)
  BY <1>1, <1>2, RejectWired
<1>3. CASE ReturnTrue(c)
  <2>1. conn' = c /\ pc' \in {"select", "done", "halted"}
    BY <1>3 DEF ReturnTrue, Goto
  <2> QED
    BY <1>1, <2>1, GoesTold
<1> QED
  BY <1>2, <1>3 DEF AwaitLine

LEMMA BeginAwaitWired == ASSUME IInv, Kept, Wired, BeginAwait PROVE Wired'
BY BegunTold, AwaitWired DEF BeginAwait, Parsing, Reading

LEMMA BeginRejectWired == ASSUME IInv, Kept, Wired, BeginReject PROVE Wired'
<1>1. /\ Parsing(0) /\ buf # <<>> /\ HasLine /\ Consume(LineEnd(buf)) /\ net' = net
      /\ later' = later /\ \E d \in Reject(Begun) : ReturnTrue(d)
  BY DEF BeginReject, Parsing
<1>2. Versioned(Rest')
  BY <1>1, IInvFacts, HasLineRange, ConsumeVersioned
<1> QED
  BY <1>1, <1>2, BegunTold, RejectWired DEF Reading

LEMMA BeginLineWired == ASSUME IInv, IInv', Kept, Wired, BeginLine PROVE Wired'
<1>1. /\ Parsing(0) /\ pc = "parse" /\ buf # <<>> /\ HasLine
      /\ LineKind(buf) \in {"line"} \cup HeaderKind
      /\ Consume(LineEnd(buf)) /\ UNCHANGED <<call, net, later>>
  BY DEF BeginLine, Parsing
<1>2. buf \in Seq(Unit) /\ net \in Seq(Unit) /\ Rest \in Seq(Unit)
  BY <1>1, KeptFacts
<1>3. LineEnd(buf) = 2 /\ LineKind(buf) = Rest[1].k /\ buf[1] = Rest[1] /\ 2 <= Len(buf)
  <2>1. LineKind(buf) \notin {"blank", "junk"}
    BY <1>1 DEF HeaderKind
  <2> QED
    BY <1>1, <1>2, <2>1, LineFacts
<1>4. LineKind(buf) = "line" /\ Rest # <<>>
  <2>1. /\ conn.block.state = REQUEST_BEGIN /\ Expects(conn, FALSE, Rest) /\ Rest # <<>>
    BY <1>1, BegunClean, ParsingFacts
  <2> QED
    BY <1>1, <1>2, <1>3, <2>1, RequestStart DEF Expects, HeaderKind
<1>5. buf[1].n \in 1..2
  <2>1. buf[1] \in Unit /\ 1 \in DOMAIN Rest
    BY <1>1, <1>2, <1>4, ParsingFacts, EmptySeq
  <2>2. Versioned(Rest) /\ Rest[1].k = "line" /\ Rest[1].n = buf[1].n
    BY <1>3, <1>4 DEF Wired
  <2>3. buf[1].n # 0
    BY <2>1, <2>2 DEF Versioned
  <2>4. buf[1].n \in 0..2
    BY <1>3, <1>4, <2>1 DEF Unit
  <2> QED
    BY <2>3, <2>4
<1>6. Versioned(Rest')
  BY <1>1, <1>3, ConsumeVersioned
<1> DEFINE v == buf[1].n
           b == Begun.block
           version == IF v = 0 THEN b.version ELSE v
           flags == IF v = 2 THEN b.flags \cup {"KEEPALIVE"} ELSE b.flags
           route == IF NRoutes > 0 THEN 1 ELSE NoRoute
           d == [Begun EXCEPT !.block.version = version, !.block.flags = flags,
                              !.block.route = route]
<1>7. /\ Begun \in GoodConn /\ Begun \in Conn /\ Told(Begun, FALSE) /\ ~Dropped(Begun)
      /\ Begun.block.state = REQUEST_BEGIN
  BY <1>1, BegunTold DEF GoodConn
<1>8. Goto(d, "match")
  BY <1>4, <1>7 DEF BeginLine
<1>9. "RESPONSE_CHUNKED" \in flags <=> "RESPONSE_CHUNKED" \in Begun.block.flags
  OBVIOUS
<1>10. version > 0
  BY <1>5
<1> HIDE DEF version, flags, route
<1>11. /\ d.block.state = REQUEST_BEGIN /\ d.block.version = version /\ d.block.flags = flags
       /\ d.block.left = Begun.block.left /\ d.wire = Begun.wire /\ d.sock = Begun.sock
  BY <1>7 DEF Conn, Block
<1> HIDE DEF d
<1>12. conn' = d /\ pc' \in {"match", "halted"} /\ d \in GoodConn
  BY <1>8 DEF Goto, IInv, ConnInv
<1>13. Told(d, TRUE)
  BY <1>7, <1>9, <1>10, <1>11, <1>12, ReadingTold DEF Is, Reading
<1> QED
  BY <1>1, <1>6, <1>12, <1>13, AsksTold

LEMMA AskedTold ==
  ASSUME IInv, Kept, Wired, Asking
  PROVE  Told(conn, TRUE) /\ ~Dropped(conn) /\ conn.block.state = REQUEST_BEGIN
<1>1. Asking = TRUE /\ pc \in {"match", "handler"} /\ (pc = "handler" => call.by # "response")
  BY DEF Asking
<1>2. Told(conn, Asking)
  BY <1>1 DEF Wired
<1> QED
  BY <1>1, <1>2, AskingFacts

\* Another route is considered.
LEMMA RouteTold ==
  ASSUME IInv, Kept, Wired, Asking, NEW r, NEW d \in GoodConn,
         d = [conn EXCEPT !.block.route = r]
  PROVE  Told(d, TRUE)
<1>1. conn \in Conn /\ conn.block \in Block
  BY AskingFacts
<1>2. /\ d.block.state = conn.block.state /\ d.block.version = conn.block.version
      /\ d.block.left = conn.block.left /\ d.block.flags = conn.block.flags
      /\ d.wire = conn.wire /\ d.sock = conn.sock
  BY <1>1 DEF Conn, Block
<1> QED
  BY <1>2, AskedTold, ReadingTold DEF Is, Reading

LEMMA MatchingWired == ASSUME IInv, IInv', Kept, Wired, Matching PROVE Wired'
<1>1. pc = "match" /\ Asking /\ Rest' = Rest /\ later' = later /\ Versioned(Rest)
  BY DEF Matching, SkipRoute, TryRoute, LastResort, Asking, Rest, Wired
<1>2. CASE SkipRoute
  <2>1. /\ conn' = NextRoute(conn) /\ pc' \in {"match", "halted"} /\ conn' \in GoodConn
    BY <1>2 DEF SkipRoute, Goto, IInv, ConnInv
  <2>2. conn' = [conn EXCEPT !.block.route = IF @ < NRoutes THEN @ + 1 ELSE NoRoute]
    BY <1>1, <1>2, <2>1, AskingFacts, NextRouteOf DEF SkipRoute
  <2>3. Told(conn', TRUE)
    BY <1>1, <2>1, <2>2, RouteTold
  <2> QED
    BY <1>1, <2>1, <2>3, AsksTold
<1>3. CASE TryRoute
  <2>1. CallHandler(conn, "begin") /\ conn.block.route # NoRoute
    BY <1>3 DEF TryRoute
  <2>2. conn' = conn /\ pc' \in {"handler", "halted"} /\ call'.by = "begin"
    BY <2>1 DEF CallHandler, Goto
  <2> QED
    BY <1>1, <2>2, AskedTold, AsksTold
<1>4. CASE LastResort
  <2> DEFINE d == [conn EXCEPT !.block.route = R404]
  <2>1. CallHandler(d, "begin404")
    BY <1>4 DEF LastResort
  <2>2. d.block.route # NoRoute
    BY <1>1, AskingFacts, HttpConstants DEF Conn, Block, R404, NoRoute
  <2>3. conn' = d /\ pc' \in {"handler", "halted"} /\ call'.by = "begin404"
    BY <2>1, <2>2 DEF CallHandler, Goto
  <2>4. conn' \in GoodConn
    BY <2>3 DEF IInv, ConnInv
  <2>5. Told(conn', TRUE)
    BY <1>1, <2>3, <2>4, RouteTold
  <2> QED
    BY <1>1, <2>3, <2>5, AsksTold
<1> QED
  BY <1>2, <1>3, <1>4 DEF Matching

LEMMA HeaderTolds ==
  ASSUME IInv, Kept, Wired, Parsing(1), buf # <<>>
  PROVE  /\ Told(conn, FALSE) /\ conn \in GoodConn /\ conn \in Conn /\ ~Dropped(conn)
         /\ conn.block \in Block /\ conn.block.state = REQUEST_HEADER
         /\ conn.block.state \in Reading /\ conn.block.state # REQUEST_BEGIN
BY HeaderFacts, OutOfCall, StatesApart DEF Parsing, Reading

LEMMA HeaderAwaitWired == ASSUME IInv, Kept, Wired, HeaderAwait PROVE Wired'
BY HeaderTolds, AwaitWired DEF HeaderAwait, Parsing

LEMMA LineVersioned ==
  ASSUME IInv, Wired, HasLine, Consume(LineEnd(buf)), net' = net PROVE Versioned(Rest')
BY IInvFacts, HasLineRange, ConsumeVersioned

LEMMA HeaderRejectWired == ASSUME IInv, Kept, Wired, HeaderReject PROVE Wired'
<1>1. /\ Parsing(1) /\ buf # <<>> /\ HasLine /\ Consume(LineEnd(buf)) /\ net' = net
      /\ later' = later /\ \E d \in Reject(conn) : ReturnTrue(d)
  BY DEF HeaderReject, Parsing
<1> QED
  BY <1>1, LineVersioned, HeaderTolds, RejectWired

LEMMA HeaderNoMemoryWired == ASSUME IInv, Kept, Wired, HeaderNoMemory PROVE Wired'
<1> DEFINE d == [conn EXCEPT !.block.boundary = FALSE]
<1>1. /\ Parsing(1) /\ buf # <<>> /\ HasLine /\ Consume(LineEnd(buf)) /\ net' = net
      /\ later' = later /\ \E e \in Reject(d) : ReturnTrue(e)
  BY DEF HeaderNoMemory, Parsing
<1>2. /\ Told(conn, FALSE) /\ conn \in GoodConn /\ conn \in Conn /\ ~Dropped(conn)
      /\ conn.block \in Block /\ conn.block.state = REQUEST_HEADER
      /\ conn.block.state \in Reading /\ conn.block.state # REQUEST_BEGIN
  BY <1>1, HeaderTolds
<1>3. /\ d \in GoodConn /\ d.block.state = REQUEST_HEADER /\ d.wire = conn.wire
      /\ d.sock = conn.sock /\ d.block.left = conn.block.left
      /\ d.block.flags = conn.block.flags /\ d.block.version = conn.block.version
  BY <1>2 DEF GoodConn, Conn, Block, Marked
<1> HIDE DEF d
<1>4. Told(d, FALSE)
  BY <1>2, <1>3, ReadingTold DEF Is, Reading
<1> QED
  BY <1>1, <1>2, <1>3, <1>4, LineVersioned, RejectWired

LEMMA HeaderEndWired == ASSUME IInv, IInv', Kept, Wired, HeaderEnd PROVE Wired'
<1> DEFINE st == IF conn.block.length # SIZE_MAX \/ Is(conn, "REQUEST_CHUNKED")
                 THEN REQUEST_BODY ELSE RESPONSE_BEGIN
           d == [conn EXCEPT !.block.state = st]
<1>1. /\ Parsing(1) /\ buf # <<>> /\ HasLine /\ Consume(LineEnd(buf)) /\ net' = net
      /\ later' = later /\ Goto(d, "parse")
  BY DEF HeaderEnd, Parsing
<1>2. /\ Told(conn, FALSE) /\ conn \in GoodConn /\ ~Dropped(conn)
      /\ conn.block.state \in Reading /\ conn.block.state # REQUEST_BEGIN
  BY <1>1, HeaderTolds
<1>3. st \in SessState /\ st \in Reading \cup {RESPONSE_BEGIN}
  BY DEF SessState, Reading
<1> HIDE DEF st
<1>4. /\ d \in GoodConn /\ d.block.state = st /\ d.wire = conn.wire
      /\ d.sock = conn.sock /\ d.block.left = conn.block.left
      /\ d.block.flags = conn.block.flags /\ d.block.version = conn.block.version
  BY <1>2, <1>3, SetStateFacts
<1> HIDE DEF d
<1>5. Told(d, FALSE)
  BY <1>2, <1>3, <1>4, ReadingTold DEF Is
<1>6. conn' = d /\ pc' \in {"parse", "halted"}
  BY <1>1 DEF Goto
<1> QED
  BY <1>1, <1>5, <1>6, LineVersioned, GoesTold

\* What the header says leaves the response as it is.
LEMMA EffectTold ==
  ASSUME NEW c \in GoodConn, Told(c, FALSE), ~Dropped(c), c.block.state \in Reading,
         NEW u \in Unit
  PROVE  Told(Effect(c, u), FALSE)
<1> DEFINE d == Effect(c, u)
<1>1. c \in Conn /\ c.block \in Block /\ d \in GoodConn
  BY EffectGood DEF GoodConn, Conn
<1>2. /\ d.block.state = c.block.state /\ d.block.left = c.block.left
      /\ d.block.version = c.block.version /\ d.wire = c.wire /\ d.sock = c.sock
      /\ "RESPONSE_CHUNKED" \in d.block.flags <=> "RESPONSE_CHUNKED" \in c.block.flags
  <2>1. CASE u.k = "close"
    BY <1>1, <2>1 DEF Effect, Conn, Block
  <2>2. CASE u.k = "keepalive"
    BY <1>1, <2>2 DEF Effect, Conn, Block
  <2>3. CASE u.k = "length"
    BY <1>1, <2>3 DEF Effect, Conn, Block
  <2>4. CASE u.k = "chunked"
    BY <1>1, <2>4 DEF Effect, Conn, Block
  <2>5. CASE u.k = "multipart"
    <3>1. d = [c EXCEPT !.block.boundary = TRUE, !.heap = @ + 1]
      BY <2>5 DEF Effect
    <3> HIDE DEF d
    <3> QED
      BY <1>1, <3>1 DEF Conn, Block
  <2>6. CASE u.k \notin {"close", "keepalive", "length", "chunked", "multipart"}
    BY <1>1, <2>6 DEF Effect
  <2> QED
    BY <2>1, <2>2, <2>3, <2>4, <2>5, <2>6
<1> HIDE DEF d
<1>3. Told(d, FALSE)
  BY <1>1, <1>2, ReadingTold DEF Is
<1> QED
  BY <1>3 DEF d

LEMMA HeaderLineWired == ASSUME IInv, Kept, Wired, HeaderLine PROVE Wired'
<1> DEFINE d == Effect(conn, buf[1])
<1>1. /\ Parsing(1) /\ buf # <<>> /\ HasLine /\ Consume(LineEnd(buf)) /\ net' = net
      /\ later' = later /\ CallHandler(d, "header") /\ pc = "parse"
  BY DEF HeaderLine, Parsing
<1>2. Told(d, FALSE)
  BY <1>1, HeaderTolds, ParsingFacts, EffectTold
<1>3. conn' = d \/ conn' = [d EXCEPT !.fault = "null_route"]
  BY <1>1 DEF CallHandler, Goto
<1>4. d \in GoodConn /\ d \in Conn
  BY <1>1, HeaderTolds, ParsingFacts, EffectGood DEF GoodConn
<1> HIDE DEF d
<1>5. pc' \in {"handler", "halted"} /\ (pc' = "handler" => conn' = d /\ call'.by = "header")
  BY <1>1 DEF CallHandler, Goto
<1>6. conn'.wire = d.wire
  BY <1>3, <1>4 DEF Conn
<1>7. Clear(conn')
  BY <1>2, <1>6, ToldClear DEF Clear
<1>8. Versioned(Rest')
  BY <1>1, LineVersioned
<1>9. CASE pc' = "handler"
  BY <1>1, <1>2, <1>5, <1>8, <1>9, AsksTold
<1>10. CASE pc' = "halted"
  BY <1>1, <1>7, <1>8, <1>10 DEF Wired
<1> QED
  BY <1>5, <1>9, <1>10

\* A body is handed over, for the contract has no chunked ones.
LEMMA RequestBodyWired == ASSUME IInv, Kept, Wired, RequestBody PROVE Wired'
<1>1. Parsing(2) /\ buf # <<>> /\ pc = "parse"
  BY DEF RequestBody, ChunkBreak, ChunkSize, ChunkReject, ChunkLine, BodyAwait, BodyData, Parsing
<1>2. conn.block.state = REQUEST_BODY
  BY <1>1, KeptReads, ParsingState
<1>3. conn.block.state # REQUEST_BEGIN
  BY <1>2, StatesApart
<1>4. /\ conn \in GoodConn /\ conn \in Conn /\ conn.block.route # NoRoute
      /\ ~Is(conn, "REQUEST_CHUNKED") /\ Expects(conn, FALSE, Rest)
  BY <1>1, <1>3, ParsingFacts DEF Clean, Sound
<1>5. BodyData
  BY <1>4 DEF RequestBody, ChunkBreak, ChunkSize, ChunkReject, ChunkLine, BodyAwait
<1> DEFINE n == Least(Len(buf), Remaining(conn))
           d == [conn EXCEPT !.chunkLen = n]
<1>6. n \in Nat
  <2>1. conn.block.length = Len(Rest) /\ Rest \in Seq(Unit) /\ Len(buf) \in Nat
    BY <1>1, <1>2, <1>4, IInvFacts, RestFacts DEF Expects
  <2>2. Remaining(conn) = conn.block.length
    BY <1>4, <2>1, LengthFacts DEF Remaining
  <2> QED
    BY <2>1, <2>2 DEF Least
<1>7. CallHandler(d, "body") /\ later' = later /\ Rest' = Rest
  BY <1>5 DEF BodyData, Rest
<1> HIDE DEF n
<1>8. d \in GoodConn /\ d.block = conn.block /\ d.wire = conn.wire /\ d.sock = conn.sock
  BY <1>4, <1>6 DEF GoodConn, Conn, Marked
<1> HIDE DEF d
<1>9. Told(d, FALSE)
  BY <1>1, <1>8, OutOfCall, ToldAlike DEF Shut, Dropped
<1>10. conn' = d /\ pc' \in {"handler", "halted"} /\ (pc' = "handler" => call'.by = "body")
  BY <1>4, <1>7, <1>8 DEF CallHandler, Goto
<1> QED
  BY <1>7, <1>9, <1>10, AsksTold DEF Wired

-----------------------------------------------------------------------------
(* The handler's steps and its returns.                                    *)

LEMMA HandlerOpWired == ASSUME Framed, IInv, Kept, Wired, HandlerOp PROVE Wired'
<1>1. /\ pc = "handler" /\ call.ops # <<>> /\ call' = [call EXCEPT !.ops = Tail(@)]
      /\ later' = later /\ Rest' = Rest
  BY DEF HandlerOp, Rest
<1>2. PICK d \in SessionOp(conn, Head(call.ops)) : Goto(d, "handler")
  BY DEF HandlerOp
<1>3. /\ Allowed(conn, call, Len(buf)) /\ call \in Call /\ call.by \in {"body", "response"}
      /\ conn \in GoodConn /\ conn \in Conn
  BY <1>1, CallUnderWay DEF Allowed
<1>4. /\ call'.by = call.by /\ call'.status = call.status /\ call'.ops = Tail(call.ops)
      /\ call.ops \in Seq(Op) /\ call.status \in RouteStatus
  BY <1>1, <1>3 DEF Call
<1>5. conn' = d /\ pc' \in {"handler", "halted"}
  BY <1>2 DEF Goto
<1>6. CASE call.by = "body"
  <2>1. call.ops \in Seq({"recv", "recv1"})
    BY <1>3, <1>6 DEF Allowed
  <2>2. Head(call.ops) \in {"recv", "recv1"}
    BY <1>1, <2>1
  <2>3. PICK len \in Nat : d = HttpRecv(conn, len)
    <3>1. conn.chunkLen \in Nat /\ 1 \in Nat
      BY <1>3 DEF Conn
    <3> QED
      BY <1>2, <2>2, <3>1 DEF SessionOp
  <2>4. d \in GoodConn /\ d.wire = conn.wire /\ d.sock = conn.sock /\ d.block = conn.block
    BY <1>3, <2>3, HttpRecvFacts
  <2>5. Told(conn, FALSE)
    <3>1. Asking = FALSE /\ Told(conn, Asking)
      BY <1>1, <1>6 DEF Wired, Asking
    <3> QED
      BY <3>1
  <2>6. Told(d, FALSE)
    BY <2>4, <2>5, ToldAlike DEF Shut, Dropped
  <2> QED
    BY <1>1, <1>4, <1>5, <1>6, <2>6, AsksTold DEF Wired
<1>7. CASE call.by = "response"
  <2>1. Tells(conn, call.ops, call.status)
    BY <1>1, <1>7 DEF Wired
  <2>2. Tells(d, Tail(call.ops), call.status)
    BY <1>1, <1>2, <1>4, <2>1, SessionOpTells
  <2> QED
    BY <1>1, <1>4, <1>5, <1>7, <2>2, TellsClear DEF Wired
<1> QED
  BY <1>3, <1>6, <1>7

\* The search found a handler.
LEMMA AcceptedWired ==
  ASSUME IInv, IInv', Kept, Wired, Asking, Goto(Accepted(conn), "parse"), Rest' = Rest,
         later' = later
  PROVE  Wired'
<1> DEFINE d == Accepted(conn)
           st == IF conn.block.version = 0 THEN RESPONSE_BEGIN ELSE REQUEST_HEADER
<1>1. conn \in GoodConn /\ conn \in Conn /\ conn.block \in Block
  BY AskingFacts
<1>2. d \in GoodConn
  BY <1>1, AcceptedGood
<1>3. d.block = [conn.block EXCEPT !.state = st] /\ d.wire = conn.wire /\ d.sock = conn.sock
  BY <1>1 DEF Accepted, Conn
<1>4. st \in Reading \cup {RESPONSE_BEGIN}
  BY DEF Reading
<1>5. conn' = d /\ pc' \in {"parse", "halted"}
  BY DEF Goto
<1> HIDE DEF d, st
<1>6. /\ d.block.state = st /\ d.block.left = conn.block.left
      /\ d.block.flags = conn.block.flags /\ d.block.version = conn.block.version
  BY <1>1, <1>3 DEF Block
<1>7. Told(d, FALSE)
  BY <1>2, <1>3, <1>4, <1>6, AskedTold, ReadingTold DEF Is, Reading
<1> QED
  BY <1>5, <1>7, GoesTold DEF Wired

LEMMA ReturnToBeginWired ==
  ASSUME Orderly, IInv, IInv', Kept, Wired, ReturnToBegin PROVE Wired'
<1>1. /\ pc = "handler" /\ call.by = "begin" /\ Asking /\ Rest' = Rest /\ later' = later
  BY DEF ReturnToBegin, Returns, Asking, Rest
<1>2. conn \in GoodConn /\ conn.block.state = REQUEST_BEGIN /\ Told(conn, TRUE)
  BY <1>1, AskingFacts, AskedTold
<1>3. /\ conn.block.route # NoRoute /\ call.status \in RouteStatus
      /\ call.status \in {"FOUND", "NOT_FOUND", "ERROR", "CLOSE", "MORE"}
  BY <1>1, CallUnderWay DEF Allowed, Call
<1>4. ReturnedStatus(conn, call.status) = call.status
  BY <1>2 DEF ReturnedStatus, REQUEST_BEGIN
<1>5. PICK d \in AfterStatus(conn, call.status) :
        CASE call.status = "FOUND" ->
               IF d.block.route = NoRoute THEN Goto(d, "match")
               ELSE Goto(Accepted(d), "parse")
          [] call.status = "NOT_FOUND" -> Goto(NextRoute(d), "match")
          [] OTHER -> ReturnTrue(d)
  BY <1>4 DEF ReturnToBegin
<1>6. d = IF call.status \in {"ERROR", "CLOSE", "MORE"} THEN PendClose(conn) ELSE conn
  BY <1>2, <1>3, <1>5, AfterStatusIdle
<1>7. CASE call.status = "FOUND"
  BY <1>1, <1>3, <1>5, <1>6, <1>7, AcceptedWired
<1>8. CASE call.status = "NOT_FOUND"
  <2>1. /\ conn' = NextRoute(conn) /\ pc' \in {"match", "halted"}
    BY <1>5, <1>6, <1>8 DEF Goto
  <2>2. conn' \in GoodConn
    BY <2>1 DEF IInv, ConnInv
  <2>3. conn' = [conn EXCEPT !.block.route = IF @ < NRoutes THEN @ + 1 ELSE NoRoute]
    BY <1>2, <1>3, <2>1, NextRouteOf
  <2>4. Told(conn', TRUE)
    BY <1>1, <2>2, <2>3, RouteTold
  <2> QED
    BY <1>1, <2>1, <2>4, AsksTold DEF Wired
<1>9. CASE call.status \in {"ERROR", "CLOSE", "MORE"}
  <2>1. d = PendClose(conn) /\ ReturnTrue(d)
    BY <1>5, <1>6, <1>9
  <2>2. Told(d, TRUE)
    BY <1>2, <2>1, PendCloseTold
  <2>3. Told(d, FALSE)
    BY <2>2 DEF Told
  <2>4. conn' = d /\ pc' \in {"select", "done", "halted"}
    BY <2>1 DEF ReturnTrue, Goto
  <2> QED
    BY <1>1, <2>3, <2>4, GoesTold DEF Wired
<1> QED
  BY <1>3, <1>7, <1>8, <1>9

LEMMA ReturnToLastResortWired ==
  ASSUME IInv, IInv', Kept, Wired, ReturnToLastResort PROVE Wired'
<1>1. /\ pc = "handler" /\ call.by = "begin404" /\ Asking /\ Rest' = Rest /\ later' = later
  BY DEF ReturnToLastResort, Returns, Asking, Rest
<1>2. conn.block.state = REQUEST_BEGIN /\ call.status = "FOUND" /\ call.status \in RouteStatus
  BY <1>1, AskingFacts, CallUnderWay DEF Allowed, Call
<1>3. PICK d \in AfterStatus(conn, call.status) : Goto(Accepted(d), "parse")
  BY DEF ReturnToLastResort
<1>4. d = conn
  BY <1>2, <1>3, AfterStatusIdle
<1> QED
  BY <1>1, <1>3, <1>4, AcceptedWired

\* A call about a request that is being read.
LEMMA ReadingCallTold ==
  ASSUME Wired, pc = "handler", call.by \in {"header", "body"} PROVE Told(conn, FALSE)
<1>1. Asking = FALSE /\ Told(conn, Asking)
  BY DEF Wired, Asking
<1> QED
  BY <1>1

LEMMA ReturnToHeaderWired == ASSUME IInv, Kept, Wired, ReturnToHeader PROVE Wired'
<1>1. pc = "handler" /\ call.by = "header" /\ Rest' = Rest /\ later' = later
  BY DEF ReturnToHeader, Returns, Rest
<1>2. conn.block.state = REQUEST_HEADER /\ call.status = "NEXT"
  BY <1>1, CallUnderWay DEF Allowed
<1>3. Goto(conn, "parse")
  BY <1>2, AfterNextReading DEF ReturnToHeader
<1>4. conn' = conn /\ pc' \in {"parse", "halted"}
  BY <1>3 DEF Goto
<1> QED
  BY <1>1, <1>4, ReadingCallTold, GoesTold DEF Wired

LEMMA ReturnToBodyWired == ASSUME IInv, IInv', Kept, Wired, ReturnToBody PROVE Wired'
<1>1. pc = "handler" /\ call.by = "body" /\ net' = net /\ later' = later
  BY DEF ReturnToBody, Returns
<1>2. /\ conn.block.state = REQUEST_BODY /\ call.status = "NEXT"
      /\ Told(conn, FALSE) /\ ~Dropped(conn)
  BY <1>1, CallUnderWay, ReadingCallTold DEF Allowed, Kept, Placed
<1>3. BodyTail(conn)
  BY <1>2, AfterNextReading DEF ReturnToBody
<1>4. /\ conn \in GoodConn /\ conn \in Conn /\ conn.block \in Block
      /\ ~Is(conn, "REQUEST_CHUNKED") /\ Len(buf) \in Nat
  BY <1>1, KeptFacts, IInvFacts DEF Sound
<1>5. conn' \in GoodConn
  <2>1. pc' # "closed"
    BY <1>3 DEF BodyTail, ReturnTrue, Goto
  <2> QED
    BY <2>1 DEF IInv, ConnInv
<1>6. CASE BodyFault(conn) # "none"
  <2>1. conn'.wire = conn.wire /\ pc' = "halted" /\ Rest' = Rest
    BY <1>1, <1>3, <1>4, <1>6 DEF BodyTail, Goto, Conn, Rest
  <2> QED
    BY <1>1, <2>1 DEF Wired, Clear
<1>7. CASE BodyFault(conn) = "none"
  <2> DEFINE n == Read(conn)
             length == conn.block.length - n
             st == IF n = conn.block.length THEN RESPONSE_BEGIN ELSE conn.block.state
             d == Account(conn)
  <2>1. /\ Consume(n) /\ IF n = Len(buf) THEN ReturnTrue(d) ELSE Goto(d, "parse")
    BY <1>3, <1>7 DEF BodyTail
  <2>2. n \in Nat /\ n <= Len(buf)
    BY <1>4, <1>7, ReadRange
  <2>3. d = [conn EXCEPT !.block.length = length, !.block.state = st]
    BY <1>4 DEF Account, Conn, Block
  <2>4. st \in Reading \cup {RESPONSE_BEGIN} /\ st # REQUEST_BEGIN
    BY <1>2, StatesApart DEF Reading, REQUEST_BEGIN, RESPONSE_BEGIN
  <2>5. conn' = d /\ pc' \in {"select", "done", "parse", "halted"}
    BY <2>1 DEF ReturnTrue, Goto
  <2>6. Versioned(Rest')
    BY <1>1, <2>1, <2>2, ConsumeVersioned
  <2> HIDE DEF d, n, length, st
  <2>7. /\ d.block.state = st /\ d.block.left = conn.block.left
        /\ d.block.flags = conn.block.flags /\ d.block.version = conn.block.version
        /\ d.wire = conn.wire /\ d.sock = conn.sock
    BY <1>4, <2>3 DEF Conn, Block
  <2>8. Told(d, FALSE)
    BY <1>2, <1>5, <2>4, <2>5, <2>7, StatesApart, ReadingTold DEF Is, Reading
  <2> QED
    BY <1>1, <2>5, <2>6, <2>8, GoesTold
<1> QED
  BY <1>6, <1>7

LEMMA ReturnToWriteWired == ASSUME Framed, IInv, Kept, Wired, ReturnToWrite PROVE Wired'
<1>1. /\ pc = "handler" /\ call.by = "response" /\ call.ops = <<>>
      /\ Rest' = Rest /\ later' = later
  BY DEF ReturnToWrite, Returns, Rest
<1>2. Tells(conn, <<>>, call.status) /\ call.status \in RouteStatus
  BY <1>1, IInvFacts DEF Wired, Call
<1>3. PICK d \in AfterStatus(conn, call.status) : Goto(d, "select")
  BY DEF ReturnToWrite
<1>4. Told(d, FALSE)
  BY <1>2, <1>3, AfterStatusTold
<1>5. conn' = d /\ pc' \in {"select", "halted"}
  BY <1>3 DEF Goto
<1> QED
  BY <1>1, <1>4, <1>5, GoesTold DEF Wired

-----------------------------------------------------------------------------
(* The peer, and all steps.                                                *)

LEMMA VersionedConcat ==
  ASSUME NEW s \in Seq(Unit), NEW t \in Seq(Unit), Versioned(s), Versioned(t)
  PROVE  Versioned(s \o t)
<1> SUFFICES ASSUME NEW i \in DOMAIN (s \o t), (s \o t)[i].k = "line"
             PROVE  (s \o t)[i].n # 0
  BY DEF Versioned
<1>1. i \in 1..(Len(s) + Len(t))
  OBVIOUS
<1>2. CASE i <= Len(s)
  BY <1>1, <1>2 DEF Versioned
<1>3. CASE i > Len(s)
  <2>1. i - Len(s) \in DOMAIN t /\ (s \o t)[i] = t[i - Len(s)]
    BY <1>1, <1>3
  <2> QED
    BY <2>1 DEF Versioned
<1> QED
  BY <1>1, <1>2, <1>3

LEMMA ConcatThree ==
  ASSUME NEW r \in Seq(Unit), NEW s \in Seq(Unit), NEW t \in Seq(Unit)
  PROVE  r \o (s \o t) = (r \o s) \o t
<1> DEFINE U == Unit
<1>1. r \in Seq(U) /\ s \in Seq(U) /\ t \in Seq(U)
  OBVIOUS
<1> HIDE DEF U
<1> QED
  BY <1>1, ConcatAssociative

LEMMA PeerSendsWired == ASSUME IInv, Wired, PeerSends PROVE Wired'
<1> DEFINE d == [conn EXCEPT !.waiting = TRUE]
<1>1. /\ later # <<>> /\ pc \notin {"closed", "halted"} /\ conn' = d
      /\ net' = net \o Head(later) /\ later' = Tail(later)
      /\ UNCHANGED <<pc, call, buf, bufpos>>
  BY DEF PeerSends
<1>2. /\ conn \in GoodConn /\ conn \in Conn /\ buf \in Seq(Unit)
      /\ net \in Seq(Unit) /\ later \in Seq(Seq(Unit))
  BY <1>1, IInvFacts
<1>3. d \in GoodConn /\ d.block = conn.block /\ d.wire = conn.wire /\ d.sock = conn.sock
  BY <1>2 DEF GoodConn, Conn, Marked
<1> HIDE DEF d
<1>4. /\ Head(later) \in Seq(Unit) /\ Versioned(Head(later))
      /\ \A i \in DOMAIN Tail(later) : Versioned(Tail(later)[i])
  <2>1. \A i \in 1..Len(later) : Versioned(later[i])
    BY <1>2 DEF Wired
  <2>2. 1 \in 1..Len(later) /\ Head(later) = later[1] /\ later[1] \in Seq(Unit)
    BY <1>1, <1>2, EmptySeq
  <2>3. ASSUME NEW i \in DOMAIN Tail(later) PROVE Versioned(Tail(later)[i])
    <3>1. i + 1 \in 1..Len(later) /\ Tail(later)[i] = later[i + 1]
      BY <1>1, <1>2, <2>2
    <3> QED
      BY <2>1, <3>1
  <2> QED
    BY <2>1, <2>2, <2>3
<1>5. Versioned(Rest')
  <2>1. Rest' = Rest \o Head(later)
    <3>1. Rest' = buf \o (net \o Head(later))
      BY <1>1 DEF Rest
    <3>2. buf \o (net \o Head(later)) = (buf \o net) \o Head(later)
      BY <1>2, <1>4, ConcatThree
    <3> QED
      BY <3>1, <3>2 DEF Rest
  <2>2. Rest \in Seq(Unit) /\ Versioned(Rest)
    BY <1>2, RestFacts DEF Wired
  <2> QED
    BY <1>4, <2>1, <2>2, VersionedConcat
<1>6. Clear(d)
  BY <1>3 DEF Wired, Clear
<1>7. CASE pc = "handler" /\ call.by = "response"
  <2>1. Tells(conn, call.ops, call.status)
    BY <1>1, <1>7 DEF Wired
  <2>2. Tells(d, call.ops, call.status)
    BY <1>3, <2>1, TellsAlike
  <2>3. Tells(conn', call'.ops, call'.status)
    BY <1>1, <2>2
  <2> QED
    BY <1>1, <1>4, <1>5, <1>6, <1>7, <2>3 DEF Wired
<1>8. CASE ~(pc = "handler" /\ call.by = "response")
  <2>1. Told(conn, Asking) /\ Asking' = Asking
    BY <1>1, <1>8 DEF Wired, Asking
  <2>2. Told(d, Asking)
    BY <1>3, <2>1, ToldAlike DEF Shut, Dropped
  <2>3. Told(conn', Asking')
    BY <1>1, <2>1, <2>2
  <2> QED
    BY <1>1, <1>4, <1>5, <1>6, <1>8, <2>3 DEF Wired
<1> QED
  BY <1>7, <1>8

LEMMA NextWired ==
  ASSUME Orderly, Framed, IInv, IInv', Kept, Wired, [Next]_vars PROVE Wired'
<1>1. CASE UNCHANGED vars
  <2>1. UNCHANGED <<conn, pc, call, buf, bufpos, net, later>>
    BY <1>1 DEF vars
  <2>2. Rest' = Rest /\ (Told(conn, Asking)' <=> Told(conn, Asking))
    BY <2>1 DEF Asking, Rest
  <2> QED
    BY <2>1, <2>2 DEF Wired, Clear
<1>2. CASE PendingClose \/ IdleTimeout
  BY <1>2, CloseWired DEF PendingClose, IdleTimeout
<1>3. CASE Worker /\ ~PendingClose
  BY <1>3, OnConnectWired, RecvWired, ReadDoneWired, DoWriteWired,
     BeginAwaitWired, BeginRejectWired, BeginLineWired, MatchingWired, HeaderAwaitWired,
     HeaderEndWired, HeaderRejectWired, HeaderLineWired, HeaderNoMemoryWired,
     RequestBodyWired, HandlerOpWired, ReturnToBeginWired, ReturnToLastResortWired,
     ReturnToHeaderWired, ReturnToBodyWired, ReturnToWriteWired
  DEF Worker, RequestBegin, RequestHeader, Handler
<1>4. CASE RecvEnd \/ PeerSends
  BY <1>4, RecvEndWired, PeerSendsWired
<1> QED
  BY <1>1, <1>2, <1>3, <1>4 DEF Next, Environment, Stopped

LEMMA WiredHolds == ASSUME Orderly, Framed PROVE Spec => []Wired
<1>1. Init => Wired
  BY InitWired
<1>2. IInv /\ IInv' /\ Kept /\ Wired /\ [Next]_vars => Wired'
  BY NextWired
<1> QED
  BY <1>1, <1>2, IInvHolds, KeptHolds, PTL DEF Spec

\* The peer can read every response to its end, or to the failed send that closes the
\* connection: http_status, http_header, http_send, http_error, finalize and the blank line
\* of call_handler never send a piece out of place, whatever else goes wrong.
THEOREM AnswersReadable == ASSUME Orderly, Framed PROVE Spec => []WireWellFormed
<1>1. Wired => WireWellFormed
  BY DEF Wired, Clear, WireWellFormed
<1> QED
  BY <1>1, WiredHolds, PTL
=============================================================================
