---------------------------- MODULE ContractProofs ----------------------------
(* Under the contract of Orderly, a session stays in step with its input, for *)
(* every stream of requests, every handler and every failed send it allows.   *)
EXTENDS SessionProofs, Contract

Answering  == {RESPONSE_BEGIN, RESPONSE_HEADER, RESPONSE_BODY}
Dropped(c) == "PEND_CLOSE" \in c.sock
Shut(c)    == "SHUTDOWN" \in c.sock

\* A connection the contract allows.  An answer is on its way to a peer that waits for
\* it, unless its connection is given up; the socket is shut between requests only, or
\* below a send that fails once more; the boundary is the only thing allocated.
Sound(c) ==
  /\ c.block.state \in Answering /\ (~Dropped(c) \/ SendFaults = {})
       => c.waiting /\ c.block.route # NoRoute
  /\ Shut(c) => \/ c.block.state = REQUEST_BEGIN
                \/ /\ c.block.state = RESPONSE_BODY /\ Dropped(c)
                   /\ ~Is(c, "RESPONSE_CHUNKED")
  /\ c.heap = IF c.block.boundary THEN 1 ELSE 0
  /\ c.block.state = REQUEST_BEGIN => ~c.block.boundary
  /\ ~Is(c, "REQUEST_CHUNKED")
  /\ Is(c, "RESPONSE_CHUNKED") => Chunks
  /\ Steady => c.fault = "none"

\* Between requests the version is that of the memset.
Fresh(c) == c.block.state = REQUEST_BEGIN /\ ~Dropped(c) => c.block.version = 0
Clean    == {c \in GoodConn : Sound(c) /\ Fresh(c)}

\* What an operation may leave of a connection.
After(c) == {d \in Clean : /\ d.block.state \in {c.block.state, REQUEST_BEGIN}
                           /\ Dropped(c) => Dropped(d)}

-----------------------------------------------------------------------------
(* The operators of Http.                                                  *)

LEMMA AfterSelf == ASSUME NEW c \in Clean PROVE c \in After(c)
BY DEF After

LEMMA AfterThen ==
  ASSUME NEW c, NEW d \in After(c), NEW e \in After(d) PROVE e \in After(c)
BY DEF After

LEMMA AfterClean == ASSUME NEW c, NEW d \in After(c) PROVE d \in Clean /\ d \in GoodConn
BY DEF After, Clean

\* What no property of a connection depends on: the mark only weakens them.
LEMMA AfterAlike ==
  ASSUME NEW c \in Clean, NEW d \in GoodConn, d.block = c.block, d.heap = c.heap,
         d.waiting = c.waiting, Steady => d.fault = c.fault,
         Shut(d) <=> Shut(c), Dropped(c) => Dropped(d)
  PROVE  d \in After(c)
BY DEF After, Clean, Sound, Fresh, Is

LEMMA PendCloseAfter ==
  ASSUME NEW c \in Clean PROVE PendClose(c) \in After(c) /\ Dropped(PendClose(c))
<1>1. c \in GoodConn /\ c \in Conn
  BY DEF Clean, GoodConn
<1> DEFINE d == PendClose(c)
<1>2. /\ d.block = c.block /\ d.heap = c.heap /\ d.waiting = c.waiting /\ d.fault = c.fault
      /\ d.sock = c.sock \cup {"PEND_CLOSE"}
  BY <1>1 DEF PendClose, Conn
<1> QED
  BY <1>1, <1>2, PendCloseGood, AfterAlike DEF Dropped, Shut

LEMMA SendOkAfter ==
  ASSUME NEW c \in Clean, NEW piece, NEW n \in Nat
  PROVE  SendOk(c, piece, n) \subseteq After(c)
<1> SUFFICES ASSUME NEW d \in SendOk(c, piece, n) PROVE d \in After(c)
  OBVIOUS
<1>1. c \in GoodConn /\ c \in Conn
  BY DEF Clean, GoodConn
<1>2. /\ d.block = c.block /\ d.heap = c.heap /\ d.waiting = c.waiting /\ d.fault = c.fault
      /\ d.sock = c.sock
  BY <1>1 DEF SendOk, Conn
<1> QED
  BY <1>1, <1>2, SendOkGood, AfterAlike DEF Dropped, Shut

\* Every failed send marks the connection, over TLS as well.
LEMMA SendFailAfter ==
  ASSUME Orderly, NEW c \in Clean
  PROVE  /\ SendFail(c) \subseteq After(c)
         /\ \A d \in SendFail(c) : d.block = c.block
         /\ ~Shut(c) => \A d \in SendFail(c) : Dropped(d) /\ SendFaults # {}
<1>1. c \in GoodConn /\ c \in Conn
  BY DEF Clean, GoodConn
<1> SUFFICES ASSUME NEW d \in SendFail(c)
             PROVE  d \in After(c) /\ d.block = c.block
                    /\ (~Shut(c) => Dropped(d) /\ SendFaults # {})
  OBVIOUS
<1>2. CASE Shut(c)
  BY <1>2, AfterSelf DEF Shut, SendFail
<1>3. CASE ~Shut(c)
  <2>1. PICK e \in SendFaults : d = Failed(c, e)
    BY <1>3 DEF Shut, SendFail
  <2>2. ~(Tls /\ e = "again")
    BY <2>1 DEF Orderly
  <2>3. d = PendClose([c EXCEPT !.wire.at = "lost"])
    BY <2>1, <2>2 DEF Failed
  <2>4. /\ d.block = c.block /\ d.heap = c.heap /\ d.waiting = c.waiting
        /\ d.fault = c.fault /\ d.sock = c.sock \cup {"PEND_CLOSE"}
    BY <1>1, <2>3 DEF PendClose, Conn
  <2> QED
    BY <1>1, <1>3, <2>1, <2>4, SendFailGood, AfterAlike DEF Dropped, Shut
<1> QED
  BY <1>2, <1>3

\* The end of finalize frees what is allocated and forgets the request.
LEMMA ReleaseAfter ==
  ASSUME NEW c \in Clean
  PROVE  /\ Release(c) \in After(c) /\ Release(c).block.state = REQUEST_BEGIN
         /\ Shutdown(Release(c)) \in After(c)
         /\ Shutdown(Release(c)).block.state = REQUEST_BEGIN
<1>1. c \in GoodConn /\ c \in Conn /\ c.heap \in Int
  BY DEF Clean, GoodConn, Conn
<1> DEFINE d == Release(c)
           e == Shutdown(d)
<1>2. d \in GoodConn /\ e \in GoodConn
  BY <1>1, ReleaseGood, ShutdownGood
<1>3. /\ d.block = ZeroBlock /\ e.block = ZeroBlock
      /\ d.heap = (IF c.block.boundary THEN c.heap - 1 ELSE c.heap) /\ e.heap = d.heap
      /\ d.fault = c.fault /\ e.fault = c.fault
      /\ d.sock \in {c.sock, c.sock \cup {"SHUTDOWN"}} /\ e.sock = d.sock \cup {"SHUTDOWN"}
  BY <1>1 DEF Release, Shutdown, Conn
<1>4. /\ ZeroBlock.state = REQUEST_BEGIN /\ ZeroBlock.version = 0
      /\ ZeroBlock.flags = {} /\ ~ZeroBlock.boundary
  BY DEF ZeroBlock
<1>5. d.heap = 0
  BY <1>1, <1>3 DEF Clean, Sound
<1> HIDE DEF d, e
<1>6. Sound(d) /\ Sound(e)
  BY <1>3, <1>4, <1>5, StatesApart DEF Sound, Is, Answering, Clean
<1>7. Fresh(d) /\ Fresh(e) /\ (Dropped(c) => Dropped(d) /\ Dropped(e))
  BY <1>3, <1>4 DEF Fresh, Dropped
<1> QED
  BY <1>2, <1>3, <1>4, <1>6, <1>7 DEF After, Clean, d, e

\* finalize ends the request, unless it recurses: for which a chunked answer has to
\* meet a failing send.
LEMMA FinalizeAfter ==
  ASSUME Orderly, NEW c \in Clean
  PROVE  /\ Finalize(c) \subseteq After(c)
         /\ \A d \in Finalize(c) : d.block.state = REQUEST_BEGIN \/ d.fault # "none"
<1> SUFFICES ASSUME NEW d \in Finalize(c)
             PROVE  d \in After(c) /\ (d.block.state = REQUEST_BEGIN \/ d.fault # "none")
  OBVIOUS
<1>1. CASE c.block.state = REQUEST_BEGIN
  BY <1>1, AfterSelf DEF Finalize
<1>2. CASE c.block.state # REQUEST_BEGIN /\ ~(c.block.state = RESPONSE_BODY /\ Is(c, "RESPONSE_CHUNKED"))
  BY <1>2, ReleaseAfter DEF Finalize
<1>3. CASE c.block.state = RESPONSE_BODY /\ Is(c, "RESPONSE_CHUNKED")
  <2>1. ~Shut(c)
    BY <1>3, StatesApart DEF Clean, Sound
  <2>2. CASE \E e \in SendOk(c, "last", 0) : d = Release(e)
    BY <2>2, SendOkAfter, AfterClean, AfterThen, ReleaseAfter
  <2>3. CASE \E f \in SendFail(c) : \E e \in SendOk(f, "last", 0) : d = Shutdown(Release(e))
    BY <2>3, SendFailAfter, SendOkAfter, AfterClean, AfterThen, ReleaseAfter
  <2>4. CASE \E f \in SendFail(c) : d = [f EXCEPT !.fault = "recursion"]
    <3>1. PICK f \in SendFail(c) : d = [f EXCEPT !.fault = "recursion"]
      BY <2>4
    <3>2. f \in Clean /\ f \in After(c) /\ f \in GoodConn /\ f \in Conn /\ SendFaults # {}
      BY <2>1, <3>1, SendFailAfter, AfterClean DEF GoodConn
    <3>3. ~Steady
      BY <1>3, <3>2 DEF Steady, Clean, Sound
    <3>4. d \in GoodConn /\ d.fault = "recursion"
      BY <3>1, <3>2 DEF GoodConn, Conn, Fault, Marked
    <3>5. /\ d.block = f.block /\ d.heap = f.heap /\ d.waiting = f.waiting /\ d.sock = f.sock
      BY <3>1, <3>2 DEF Conn
    <3>6. d \in After(f)
      BY <3>2, <3>3, <3>4, <3>5, AfterAlike DEF Shut, Dropped
    <3> QED
      BY <3>2, <3>4, <3>6, AfterThen
  <2> QED
    BY <1>3, <2>2, <2>3, <2>4, StatesApart DEF Finalize
<1> QED
  BY <1>1, <1>2, <1>3

LEMMA FinalizeAllAfter ==
  ASSUME Orderly, NEW c \in Clean, NEW S \in SUBSET After(c)
  PROVE  FinalizeAll(S) \subseteq After(c)
BY FinalizeAfter, AfterClean, AfterThen DEF FinalizeAll

LEMMA RawSendAfter ==
  ASSUME Orderly, NEW c \in Clean, NEW piece, NEW n \in Nat
  PROVE  RawSend(c, piece, n) \subseteq After(c)
BY SendOkAfter, SendFailAfter, FinalizeAllAfter DEF RawSend

LEMMA RawSendAllAfter ==
  ASSUME Orderly, NEW c \in Clean, NEW S \in SUBSET After(c), NEW piece, NEW n \in Nat
  PROVE  RawSendAll(S, piece, n) \subseteq After(c)
BY RawSendAfter, AfterClean, AfterThen DEF RawSendAll

LEMMA HttpStatusAfter ==
  ASSUME Orderly, NEW c \in Clean PROVE HttpStatus(c) \subseteq After(c)
BY AfterSelf, FinalizeAfter, RawSendAfter DEF HttpStatus

LEMMA HttpErrorAfter ==
  ASSUME Orderly, NEW c \in Clean PROVE HttpError(c) \subseteq After(c)
<1> DEFINE S == RawSendAll(HttpStatus(c), "errhead", 1)
           T == RawSendAll(S, "data", 1)
<1>1. S \in SUBSET After(c)
  BY HttpStatusAfter, RawSendAllAfter
<1> HIDE DEF S
<1>2. T \in SUBSET After(c)
  BY <1>1, RawSendAllAfter
<1> HIDE DEF T
<1>3. FinalizeAll(T) \subseteq After(c)
  BY <1>2, FinalizeAllAfter
<1> QED
  BY <1>3, FinalizeAfter DEF HttpError, S, T

LEMMA HttpHeaderAfter ==
  ASSUME Orderly, NEW c \in Clean, NEW h, h = "chunked" => Chunks
  PROVE  HttpHeader(c, h) \subseteq After(c)
<1> DEFINE flags == CASE h = "close"     -> c.block.flags \ {"KEEPALIVE"}
                      [] h = "keepalive" -> c.block.flags \cup {"KEEPALIVE"}
                      [] h = "chunked"   -> c.block.flags \cup {"RESPONSE_CHUNKED"}
                      [] OTHER           -> c.block.flags
           left == IF h = "length" THEN DeclaredLen ELSE c.block.left
           d == [c EXCEPT !.block.flags = flags, !.block.left = left]
<1>1. CASE c.block.state # RESPONSE_HEADER
  BY <1>1, HttpErrorAfter DEF HttpHeader
<1>2. CASE c.block.state = RESPONSE_HEADER
  <2>1. flags \in SUBSET HttpFlag /\ left \in Nat /\ c \in GoodConn /\ c \in Conn
    BY HttpConstants DEF Clean, GoodConn, Conn, Block, HttpFlag
  <2>2. /\ "REQUEST_CHUNKED" \in flags => "REQUEST_CHUNKED" \in c.block.flags
        /\ "RESPONSE_CHUNKED" \in flags => "RESPONSE_CHUNKED" \in c.block.flags \/ Chunks
    OBVIOUS
  <2> HIDE DEF flags, left
  <2>3. /\ d \in GoodConn /\ d.block.state = c.block.state /\ d.block.route = c.block.route
        /\ d.block.boundary = c.block.boundary /\ d.block.flags = flags
        /\ d.heap = c.heap /\ d.waiting = c.waiting /\ d.fault = c.fault /\ d.sock = c.sock
    BY <2>1 DEF GoodConn, Conn, Block, Marked
  <2>4. Sound(d) /\ Fresh(d)
    <3> HIDE DEF d
    <3> QED
      BY <1>2, <2>2, <2>3, StatesApart DEF Clean, Sound, Fresh, Is, Shut, Dropped
  <2>5. d \in After(c)
    <3> HIDE DEF d
    <3> QED
      BY <2>3, <2>4 DEF After, Clean, Dropped
  <2>6. RawSend(d, h, DeclaredLen) \subseteq After(c)
    <3> HIDE DEF d
    <3> QED
      BY <2>5, RawSendAfter, AfterClean, AfterThen, HttpConstants
  <2> QED
    BY <1>2, <2>6 DEF HttpHeader, flags, left
<1> QED
  BY <1>1, <1>2

LEMMA HttpSendAfter ==
  ASSUME Orderly, NEW c \in Clean PROVE HttpSend(c) \subseteq After(c)
<1>1. CASE c.block.state # RESPONSE_BODY
  BY <1>1, HttpErrorAfter DEF HttpSend
<1>2. CASE c.block.state = RESPONSE_BODY /\ Is(c, "RESPONSE_CHUNKED")
  <2>1. SendOk(c, "frame", 0) \in SUBSET After(c)
    BY SendOkAfter
  <2>2. RawSendAll(SendOk(c, "frame", 0), "data", SendLen) \subseteq After(c)
    BY <2>1, RawSendAllAfter, HttpConstants
  <2>3. FinalizeAll(SendFail(c)) \subseteq After(c)
    BY SendFailAfter, FinalizeAllAfter
  <2> QED
    BY <1>2, <2>2, <2>3 DEF HttpSend
<1>3. CASE c.block.state = RESPONSE_BODY /\ ~Is(c, "RESPONSE_CHUNKED")
  <2> DEFINE left == c.block.left
             len  == IF left > 0 THEN Least(SendLen, left) ELSE SendLen
  <2>1. len \in Nat /\ (left > 0 => left - len \in Nat) /\ left \in Nat
    BY HttpConstants DEF Clean, GoodConn, Conn, Block, Least
  <2> HIDE DEF len
  <2>2. ASSUME NEW e \in SendOk(c, "data", len)
        PROVE  [e EXCEPT !.block.left = IF left > 0 THEN @ - len ELSE @] \in After(c)
    <3> DEFINE d == [e EXCEPT !.block.left = IF left > 0 THEN @ - len ELSE @]
    <3>1. e \in After(c) /\ e \in Clean /\ e \in GoodConn /\ e \in Conn
      BY <2>1, SendOkAfter, AfterClean DEF GoodConn
    <3>2. e.block.left = left
      BY DEF SendOk, Clean, GoodConn, Conn
    <3>3. /\ d \in GoodConn /\ d.block.state = e.block.state /\ d.block.route = e.block.route
          /\ d.block.boundary = e.block.boundary /\ d.block.flags = e.block.flags
          /\ d.block.version = e.block.version
          /\ d.heap = e.heap /\ d.waiting = e.waiting /\ d.fault = e.fault /\ d.sock = e.sock
      BY <2>1, <3>1, <3>2 DEF GoodConn, Conn, Block, Marked
    <3> HIDE DEF d
    <3>4. d \in After(e)
      BY <3>1, <3>3 DEF After, Clean, Sound, Fresh, Is, Shut, Dropped
    <3>5. d \in After(c)
      BY <3>1, <3>4, AfterThen
    <3> QED
      BY <3>5 DEF d
  <2>3. FinalizeAll(SendFail(c)) \subseteq After(c)
    BY SendFailAfter, FinalizeAllAfter
  <2> USE DEF len
  <2> QED
    BY <1>3, <2>2, <2>3 DEF HttpSend
<1> QED
  BY <1>1, <1>2, <1>3

LEMMA HttpRecvAfter ==
  ASSUME NEW c \in Clean, NEW len \in Nat
  PROVE  /\ HttpRecv(c, len) \in After(c)
         /\ HttpRecv(c, len) = [c EXCEPT !.chunkLen = HttpRecv(c, len).chunkLen]
         /\ HttpRecv(c, len).chunkLen \in Nat /\ HttpRecv(c, len).chunkLen <= c.chunkLen
<1> DEFINE d == HttpRecv(c, len)
<1>1. c \in GoodConn /\ c \in Conn /\ d \in GoodConn
  BY HttpRecvGood DEF Clean, GoodConn
<1>2. /\ d.block = c.block /\ d.heap = c.heap /\ d.waiting = c.waiting /\ d.fault = c.fault
      /\ d.sock = c.sock /\ d.chunkLen = c.chunkLen - Least(len, c.chunkLen)
      /\ d = [c EXCEPT !.chunkLen = d.chunkLen]
  BY <1>1 DEF HttpRecv, Conn
<1>3. d.chunkLen \in Nat /\ d.chunkLen <= c.chunkLen
  BY <1>1, <1>2 DEF Conn, Least
<1> QED
  BY <1>1, <1>2, <1>3, AfterAlike DEF Dropped, Shut

LEMMA SessionOpAfter ==
  ASSUME Orderly, NEW c \in Clean, NEW op, op = "chunked" => Chunks
  PROVE  SessionOp(c, op) \subseteq After(c)
<1>1. c.chunkLen \in Nat /\ 1 \in Nat
  BY DEF Clean, GoodConn, Conn
<1>2. HttpRecv(c, c.chunkLen) \in After(c) /\ HttpRecv(c, 1) \in After(c)
  BY <1>1, HttpRecvAfter
<1> QED
  BY <1>2, HttpStatusAfter, HttpErrorAfter, HttpSendAfter, HttpHeaderAfter DEF SessionOp

\* Between requests no operation does anything to a connection that is not given up.
LEMMA SessionOpIdle ==
  ASSUME NEW c \in Clean, c.block.state = REQUEST_BEGIN, ~Dropped(c), NEW op,
         NEW d \in SessionOp(c, op)
  PROVE  d.block = c.block /\ d.waiting = c.waiting /\ d.sock = c.sock
<1>1. c \in Conn /\ c.block.version = 0 /\ Finalize(c) = {c}
  BY DEF Clean, GoodConn, Fresh, Finalize
<1>2. HttpStatus(c) = {c} /\ HttpError(c) = {c}
  BY <1>1 DEF HttpStatus, HttpError
<1>3. HttpSend(c) = {c} /\ \A h : HttpHeader(c, h) = {c}
  BY <1>2, StatesApart DEF HttpSend, HttpHeader
<1>4. \A l : /\ HttpRecv(c, l).block = c.block /\ HttpRecv(c, l).waiting = c.waiting
             /\ HttpRecv(c, l).sock = c.sock
  BY <1>1 DEF HttpRecv, Conn
<1> QED
  BY <1>2, <1>3, <1>4 DEF SessionOp

-----------------------------------------------------------------------------
(* The tail of call_handler.                                               *)

\* A connection that is given up between requests need not be fresh.
LEMMA PendCloseSound ==
  ASSUME NEW c \in GoodConn, Sound(c)
  PROVE  /\ PendClose(c) \in Clean /\ Dropped(PendClose(c))
         /\ PendClose(c).block = c.block
<1>1. c \in Conn /\ PendClose(c) \in GoodConn
  BY PendCloseGood DEF GoodConn
<1> DEFINE d == PendClose(c)
<1>2. /\ d.block = c.block /\ d.heap = c.heap /\ d.waiting = c.waiting /\ d.fault = c.fault
      /\ d.sock = c.sock \cup {"PEND_CLOSE"}
  BY <1>1 DEF PendClose, Conn
<1>3. Sound(d) /\ Fresh(d) /\ Dropped(d)
  <2> HIDE DEF d
  <2> QED
    BY <1>2 DEF Sound, Fresh, Dropped, Shut, Is
<1> QED
  BY <1>1, <1>2, <1>3 DEF Clean

\* Between requests a status leaves the connection alone or gives it up.
LEMMA AfterStatusIdle ==
  ASSUME NEW c, c.block.state = REQUEST_BEGIN, NEW status \in RouteStatus
  PROVE  AfterStatus(c, status) =
           IF status \in {"ERROR", "CLOSE", "MORE"} THEN {PendClose(c)} ELSE {c}
<1>1. ~(c.block.state > REQUEST_BEGIN)
  BY DEF REQUEST_BEGIN
<1>2. c.block.state \notin {RESPONSE_BEGIN, RESPONSE_HEADER, RESPONSE_BODY}
  BY StatesApart
<1>3. Advance(c) = {c} /\ Finalize(c) = {c}
  BY <1>2 DEF Advance, Finalize
<1> QED
  BY <1>1, <1>2, <1>3 DEF AfterStatus, RouteStatus

\* NEXT leaves a request that is being read alone.
LEMMA AfterNextReading ==
  ASSUME NEW c, c.block.state \in {REQUEST_HEADER, REQUEST_BODY}
  PROVE  AfterStatus(c, "NEXT") = {c}
<1>1. c.block.state \notin {RESPONSE_BEGIN, RESPONSE_HEADER, RESPONSE_BODY}
  BY StatesApart
<1>2. Advance(c) = {c}
  BY <1>1 DEF Advance
<1> QED
  BY <1>2 DEF AfterStatus

LEMMA AdvanceClean ==
  ASSUME Orderly, NEW c \in Clean, c.block.state \in Answering, NEW d \in Advance(c)
  PROVE  /\ d \in Clean /\ d.block.state \in Answering \cup {REQUEST_BEGIN}
         /\ Dropped(c) => Dropped(d)
<1>1. c \in GoodConn /\ c \in Conn /\ d \in GoodConn /\ d \in Conn
  BY AdvanceGood DEF Clean, GoodConn
<1>2. CASE c.block.state = RESPONSE_BEGIN
  <2> DEFINE next == [c EXCEPT !.block.state = RESPONSE_HEADER]
             sent == {[e EXCEPT !.block.state = RESPONSE_BODY] : e \in RawSend(c, "blank", 0)}
  <2>1. Advance(c) = CASE c.block.state = RESPONSE_BEGIN  -> {next}
                       [] c.block.state = RESPONSE_HEADER -> sent
                       [] c.block.state = RESPONSE_BODY   -> Finalize(c)
                       [] OTHER                           -> {c}
    BY DEF Advance
  <2>2. d \in {next}
    <3> HIDE DEF next, sent
    <3> QED
      BY <1>2, <2>1, StatesApart DEF RESPONSE_BEGIN, RESPONSE_BODY
  <2>3. /\ d.block = [c.block EXCEPT !.state = RESPONSE_HEADER]
        /\ d.heap = c.heap /\ d.waiting = c.waiting /\ d.fault = c.fault /\ d.sock = c.sock
    BY <1>1, <2>2 DEF Conn
  <2>4. /\ d.block.state = RESPONSE_HEADER /\ d.block.route = c.block.route
        /\ d.block.flags = c.block.flags /\ d.block.boundary = c.block.boundary
    BY <1>1, <2>3 DEF Conn, Block
  <2>5. Sound(d) /\ Fresh(d)
    BY <1>2, <2>3, <2>4, StatesApart
       DEF Clean, Sound, Fresh, Is, Shut, Dropped, Answering, RESPONSE_BEGIN, RESPONSE_BODY
  <2> QED
    BY <1>1, <2>3, <2>4, <2>5 DEF Clean, Answering, Dropped
<1>3. CASE c.block.state = RESPONSE_HEADER
  <2>1. PICK e \in RawSend(c, "blank", 0) : d = [e EXCEPT !.block.state = RESPONSE_BODY]
    BY <1>3, StatesApart DEF Advance
  <2>2. ~Shut(c)
    BY <1>3, StatesApart DEF Clean, Sound
  <2>3. e \in Clean /\ e \in Conn /\ e \in After(c)
    BY <2>1, RawSendAfter, AfterClean DEF GoodConn
  <2>4. /\ d.heap = e.heap /\ d.waiting = e.waiting /\ d.fault = e.fault /\ d.sock = e.sock
        /\ d.block.state = RESPONSE_BODY /\ d.block.route = e.block.route
        /\ d.block.flags = e.block.flags /\ d.block.boundary = e.block.boundary
    BY <2>1, <2>3 DEF Conn, Block
  <2>5. Sound(d)
    <3>1. CASE e \in SendOk(c, "blank", 0)
      <4>1. e.block = c.block /\ e.sock = c.sock
        BY <1>1, <3>1 DEF SendOk, Conn
      <4> QED
        BY <1>3, <2>2, <2>3, <2>4, <4>1, StatesApart
           DEF Clean, Sound, Is, Shut, Dropped, Answering
    <3>2. CASE e \in FinalizeAll(SendFail(c))
      <4>1. PICK f \in SendFail(c) : e \in Finalize(f)
        BY <3>2 DEF FinalizeAll
      <4>2. f \in Clean /\ f.block = c.block /\ Dropped(f) /\ SendFaults # {}
        BY <2>2, <4>1, SendFailAfter, AfterClean
      <4>3. e = Release(f) /\ f \in Conn
        BY <1>3, <4>1, <4>2, StatesApart DEF Finalize, Clean, GoodConn
      <4>4. e.block = ZeroBlock
        BY <4>3 DEF Release, Shutdown, Conn
      <4>5. e.block.flags = {} /\ ~e.block.boundary /\ e.block.state = REQUEST_BEGIN
        BY <4>4 DEF ZeroBlock
      <4>6. Dropped(e)
        BY <4>1, <4>2, FinalizeAfter DEF After
      <4> QED
        BY <2>3, <2>4, <4>2, <4>5, <4>6, StatesApart
           DEF Clean, Sound, Is, Shut, Dropped, Answering
    <3> QED
      BY <2>1, <3>1, <3>2 DEF RawSend
  <2> QED
    BY <1>1, <2>3, <2>4, <2>5, StatesApart DEF Clean, Fresh, After, Dropped, Answering
<1>4. CASE c.block.state = RESPONSE_BODY
  <2>1. d \in Finalize(c)
    BY <1>4, StatesApart DEF Advance, RESPONSE_BEGIN, RESPONSE_BODY
  <2>2. d \in After(c)
    BY <2>1, FinalizeAfter
  <2> QED
    BY <1>4, <2>2 DEF After, Answering
<1> QED
  BY <1>2, <1>3, <1>4 DEF Answering

LEMMA AfterStatusClean ==
  ASSUME Orderly, NEW c \in Clean, c.block.state \in Answering,
         NEW status \in RouteStatus, NEW d \in AfterStatus(c, status)
  PROVE  /\ d \in Clean /\ d.block.state \in Answering \cup {REQUEST_BEGIN}
         /\ Dropped(c) => Dropped(d)
<1>1. c \in After(c) /\ PendClose(c) \in After(c)
  BY AfterSelf, PendCloseAfter
<1>2. HttpError(PendClose(c)) \subseteq After(c) /\ Finalize(PendClose(c)) \subseteq After(c)
  BY <1>1, HttpErrorAfter, FinalizeAfter, AfterClean, AfterThen
<1>3. CASE status = "NEXT"
  BY <1>3, AdvanceClean DEF AfterStatus
<1>4. CASE status # "NEXT"
  <2>1. AfterStatus(c, status) \subseteq After(c)
    BY <1>1, <1>2, <1>4, HttpErrorAfter, FinalizeAfter DEF AfterStatus, RouteStatus
  <2> QED
    BY <2>1 DEF After
<1> QED
  BY <1>3, <1>4

LEMMA RejectAfter ==
  ASSUME Orderly, NEW c \in Clean, NEW d \in Reject(c)
  PROVE  d \in After(c) /\ Dropped(d)
<1>1. PICK e \in HttpError(c) : d = PendClose(e)
  BY DEF Reject
<1>2. e \in After(c) /\ e \in Clean
  BY <1>1, HttpErrorAfter, AfterClean
<1> QED
  BY <1>1, <1>2, PendCloseAfter, AfterThen

-----------------------------------------------------------------------------
(* The input that was sent and not yet parsed.                             *)

Rest == buf \o net
Behind(s, n) == SubSeq(s, n + 1, Len(s))

LEMMA BehindFacts ==
  ASSUME NEW s \in Seq(Unit), NEW n \in Nat, n <= Len(s)
  PROVE  /\ Behind(s, n) \in Seq(Unit) /\ Len(Behind(s, n)) = Len(s) - n
         /\ \A i \in 1..(Len(s) - n) : Behind(s, n)[i] = s[n + i]
<1> DEFINE m == n + 1
<1>1. Len(s) \in Int /\ n \in Int /\ m \in Int
  OBVIOUS
<1>2. \A i \in m..Len(s) : s[i] \in Unit
  OBVIOUS
<1> HIDE DEF m
<1>3. /\ SubSeq(s, m, Len(s)) \in Seq(Unit)
      /\ Len(SubSeq(s, m, Len(s))) = IF m <= Len(s) THEN Len(s) - m + 1 ELSE 0
      /\ \A i \in 1..(Len(s) - m + 1) : SubSeq(s, m, Len(s))[i] = s[m + i - 1]
  BY <1>1, <1>2, SubSeqProperties
<1>4. Len(s) - m + 1 = Len(s) - n
  BY <1>1 DEF m
<1>5. Len(SubSeq(s, m, Len(s))) = Len(s) - n
  BY CutFacts DEF m
<1>6. ASSUME NEW i \in 1..(Len(s) - n) PROVE SubSeq(s, m, Len(s))[i] = s[n + i]
  <2>1. m + i - 1 = n + i
    BY <1>1 DEF m
  <2>2. SubSeq(s, m, Len(s))[i] = s[m + i - 1]
    BY <1>3, <1>4
  <2> QED
    BY <2>1, <2>2
<1> QED
  BY <1>3, <1>5, <1>6 DEF Behind, m

LEMMA RestFacts ==
  ASSUME buf \in Seq(Unit), net \in Seq(Unit)
  PROVE  /\ Rest \in Seq(Unit) /\ Len(Rest) = Len(buf) + Len(net)
         /\ \A i \in 1..Len(buf) : Rest[i] = buf[i]
         /\ \A i \in 1..Len(net) : Rest[Len(buf) + i] = net[i]
         /\ Rest = <<>> <=> buf = <<>> /\ net = <<>>
<1>1. Len(buf) \in Nat /\ Len(net) \in Nat
  OBVIOUS
<1>2. /\ Rest \in Seq(Unit) /\ Len(Rest) = Len(buf) + Len(net)
      /\ \A i \in 1..(Len(buf) + Len(net)) :
           Rest[i] = IF i <= Len(buf) THEN buf[i] ELSE net[i - Len(buf)]
  BY ConcatProperties DEF Rest
<1>3. Rest = <<>> <=> buf = <<>> /\ net = <<>>
  BY <1>1, <1>2, EmptySeq
<1>4. \A i \in 1..Len(buf) : Rest[i] = buf[i]
  BY <1>1, <1>2
<1>5. ASSUME NEW i \in 1..Len(net) PROVE Rest[Len(buf) + i] = net[i]
  <2> DEFINE j == Len(buf) + i
  <2>1. j \in 1..(Len(buf) + Len(net)) /\ ~(j <= Len(buf)) /\ j - Len(buf) = i
    BY <1>1
  <2> HIDE DEF j
  <2>2. Rest[j] = net[j - Len(buf)]
    BY <1>2, <2>1
  <2> QED
    BY <2>1, <2>2 DEF j
<1> QED
  BY <1>2, <1>3, <1>4, <1>5

\* Consuming takes the first units of what is left.
LEMMA ConsumeRest ==
  ASSUME buf \in Seq(Unit), net \in Seq(Unit), bufpos \in Nat, NEW n \in Nat,
         n <= Len(buf), Consume(n), net' = net
  PROVE  /\ buf' \in Seq(Unit) /\ Rest' = Behind(Rest, n)
         /\ n <= Len(Rest) /\ Rest \in Seq(Unit)
<1>1. buf' = Behind(buf, n)
  BY DEF Consume, Behind
<1>2. /\ buf' \in Seq(Unit) /\ Len(buf') = Len(buf) - n
      /\ \A i \in 1..(Len(buf) - n) : buf'[i] = buf[n + i]
  BY <1>1, BehindFacts
<1>3. /\ Rest \in Seq(Unit) /\ Len(Rest) = Len(buf) + Len(net)
      /\ \A i \in 1..Len(buf) : Rest[i] = buf[i]
      /\ \A i \in 1..Len(net) : Rest[Len(buf) + i] = net[i]
  BY RestFacts
<1>4. Len(buf) \in Nat /\ Len(net) \in Nat /\ n <= Len(Rest)
  BY <1>3
<1>5. /\ Behind(Rest, n) \in Seq(Unit) /\ Len(Behind(Rest, n)) = Len(Rest) - n
      /\ \A i \in 1..(Len(Rest) - n) : Behind(Rest, n)[i] = Rest[n + i]
  BY <1>3, <1>4, BehindFacts
<1> DEFINE t == buf' \o net
<1>6. /\ t \in Seq(Unit) /\ Len(t) = Len(buf') + Len(net)
      /\ \A i \in 1..(Len(buf') + Len(net)) :
           t[i] = IF i <= Len(buf') THEN buf'[i] ELSE net[i - Len(buf')]
  BY <1>2, ConcatProperties
<1> HIDE DEF t
<1>7. ASSUME NEW i \in 1..Len(t) PROVE t[i] = Behind(Rest, n)[i]
  <2>1. i \in 1..(Len(Rest) - n) /\ i \in 1..(Len(buf') + Len(net))
    BY <1>2, <1>3, <1>4, <1>6
  <2>2. Behind(Rest, n)[i] = Rest[n + i]
    BY <1>5, <2>1
  <2>3. CASE i <= Len(buf')
    <3>1. i \in 1..(Len(buf) - n) /\ n + i \in 1..Len(buf)
      BY <1>2, <1>4, <2>1, <2>3
    <3>2. t[i] = buf'[i] /\ buf'[i] = buf[n + i] /\ Rest[n + i] = buf[n + i]
      BY <1>2, <1>3, <1>6, <2>1, <2>3, <3>1
    <3> QED
      BY <2>2, <3>2
  <2>4. CASE ~(i <= Len(buf'))
    <3> DEFINE j == i - Len(buf')
    <3>1. j \in 1..Len(net) /\ n + i = Len(buf) + j
      BY <1>2, <1>4, <2>1, <2>4
    <3>2. t[i] = net[j]
      BY <1>6, <2>1, <2>4
    <3> HIDE DEF j
    <3>3. Rest[Len(buf) + j] = net[j]
      BY <1>3, <3>1
    <3> QED
      BY <2>2, <3>1, <3>2, <3>3
  <2> QED
    BY <2>3, <2>4
<1>8. Len(t) = Len(Behind(Rest, n))
  BY <1>2, <1>3, <1>4, <1>5, <1>6
<1>9. t = Behind(Rest, n)
  BY <1>5, <1>6, <1>7, <1>8, SeqEqual
<1> QED
  BY <1>2, <1>3, <1>4, <1>9 DEF Rest, t

\* recv only moves units.
LEMMA RecvRest == ASSUME IInv, Recv PROVE Rest' = Rest
<1>1. bufpos = 0 /\ Len(buf) < BufSize
  BY DEF Recv, Receiving, IInv, Window, Resting
<1>2. PICK n \in 1..Least(Len(net), BufSize - Len(buf)) :
        /\ buf' = buf \o SubSeq(net, 1, n)
        /\ net' = SubSeq(net, n + 1, Len(net))
  BY DEF Recv
<1>3. n \in Nat /\ n <= Len(net) /\ n >= 1
  BY <1>1, IInvFacts, SessionConstants DEF Least
<1> DEFINE a == SubSeq(net, 1, n)
           b == SubSeq(net, n + 1, Len(net))
<1>4. a \in Seq(Unit) /\ b \in Seq(Unit) /\ buf \in Seq(Unit) /\ net \in Seq(Unit)
  BY <1>3, IInvFacts, CutFacts
<1>5. a \o b = net
  <2>1. Len(a) = n /\ Len(b) = Len(net) - n
    BY <1>3, IInvFacts, CutFacts
  <2>2. \A i \in 1..n : a[i] = net[i]
    BY <1>3, <1>4, <2>1
  <2>3. \A i \in 1..(Len(net) - n) : b[i] = net[n + i]
    BY <1>3, <1>4, BehindFacts DEF Behind
  <2> HIDE DEF a, b
  <2>4. /\ a \o b \in Seq(Unit) /\ Len(a \o b) = Len(a) + Len(b)
        /\ \A i \in 1..(Len(a) + Len(b)) :
             (a \o b)[i] = IF i <= Len(a) THEN a[i] ELSE b[i - Len(a)]
    BY <1>4, ConcatProperties
  <2>5. Len(a) + Len(b) = Len(net)
    BY <1>3, <1>4, <2>1
  <2>6. ASSUME NEW i \in 1..Len(net) PROVE (a \o b)[i] = net[i]
    <3>1. CASE i <= n
      BY <1>3, <2>1, <2>2, <2>4, <2>5, <3>1
    <3>2. CASE ~(i <= n)
      <4> DEFINE j == i - n
      <4>1. j \in 1..(Len(net) - n) /\ n + j = i
        BY <1>3, <1>4, <3>2
      <4>2. (a \o b)[i] = b[j]
        BY <2>1, <2>4, <2>5, <3>2
      <4> HIDE DEF j
      <4> QED
        BY <2>3, <4>1, <4>2
    <3> QED
      BY <3>1, <3>2
  <2> QED
    BY <1>4, <2>4, <2>5, <2>6, SeqEqual
<1> HIDE DEF a, b
<1>6. (buf \o a) \o b = buf \o (a \o b)
  BY <1>4, ConcatAssociative
<1> QED
  BY <1>2, <1>5, <1>6 DEF Rest, a, b

\* What LineKind says of the buffer, and so of what is left of the input.
LEMMA LineFacts ==
  ASSUME buf \in Seq(Unit), net \in Seq(Unit), HasLine
  PROVE  /\ LineEnd(buf) \in 1..Len(buf) /\ Rest # <<>>
         /\ LineKind(buf) = "blank" => LineEnd(buf) = 1 /\ Rest[1].k = "crlf"
         /\ LineKind(buf) \notin {"blank", "junk"} =>
              /\ LineEnd(buf) = 2 /\ LineKind(buf) = Rest[1].k /\ buf[1] = Rest[1]
              /\ Len(Rest) >= 2 /\ Rest[2].k = "crlf"
<1>1. Crlfs(buf) # {}
  BY DEF HasLine, LineKind
<1>2. LineEnd(buf) \in 1..Len(buf) /\ buf[LineEnd(buf)].k = "crlf"
  BY <1>1, LineEndRange DEF Crlfs
<1>3. /\ Len(Rest) = Len(buf) + Len(net) /\ Rest # <<>>
      /\ \A i \in 1..Len(buf) : Rest[i] = buf[i]
  BY <1>2, RestFacts
<1>4. 1 \in 1..Len(buf) /\ buf[1] = Rest[1] /\ buf[1].k \in Kind
  BY <1>2, <1>3 DEF Unit
<1>5. LineKind(buf) = IF LineEnd(buf) = 1 THEN "blank"
                      ELSE IF LineEnd(buf) = 2 THEN buf[1].k ELSE "junk"
  BY <1>1 DEF LineKind
<1> QED
  BY <1>2, <1>3, <1>4, <1>5 DEF Kind

-----------------------------------------------------------------------------
(* The shape of a request.                                                 *)

LEMMA HeaderPartStart ==
  ASSUME NEW t \in Seq(Unit), NEW length, NEW boundary, HeaderPart(t, length, boundary)
  PROVE  t # <<>> /\ t[1].k \in {"crlf"} \cup LineStart \cup BadLine
<1>1. PICK m \in 1..Len(t) : Lines(t, m)
  BY DEF HeaderPart
<1> QED
  BY <1>1 DEF Lines

\* At the blank line nothing but the body is left.
LEMMA HeaderPartBlank ==
  ASSUME NEW t \in Seq(Unit), NEW length, NEW boundary, HeaderPart(t, length, boundary),
         t[1].k = "crlf"
  PROVE  Sized(t, 1, length) /\ Len(t) >= 1
<1>1. PICK m \in 1..Len(t) : Lines(t, m) /\ (t[m].k = "crlf" => Sized(t, m, length))
  BY DEF HeaderPart
<1>2. m = 1
  <2> SUFFICES ASSUME m > 1 PROVE FALSE
    OBVIOUS
  <2>1. 1 \in 1..(m - 1)
    OBVIOUS
  <2>2. t[1].k = "crlf" <=> 1 > 1 /\ t[1 - 1].k # "crlf"
    BY <1>1, <2>1 DEF Lines
  <2> QED
    BY <2>2
<1> QED
  BY <1>1, <1>2

\* A header line makes what follows it a header part again.
LEMMA HeaderPartLine ==
  ASSUME NEW t \in Seq(Unit), NEW length \in Nat \cup {SIZE_MAX}, NEW boundary \in BOOLEAN,
         HeaderPart(t, length, boundary), Len(t) >= 2, t[2].k = "crlf",
         t[1].k \notin {"crlf"} \cup BadLine
  PROVE  /\ t[1].k \in LineStart /\ (t[1].k = "multipart" => ~boundary)
         /\ HeaderPart(Behind(t, 2), IF t[1].k = "length" THEN LengthOf(t[1].n) ELSE length,
                       boundary \/ t[1].k = "multipart")
<1>1. PICK m \in 1..Len(t) : /\ Lines(t, m) /\ OneForm(t, m, boundary)
                             /\ t[m].k = "crlf" => Sized(t, m, length)
  BY DEF HeaderPart
<1> DEFINE u == Behind(t, 2)
           k == m - 2
           len == IF t[1].k = "length" THEN LengthOf(t[1].n) ELSE length
           bound == boundary \/ t[1].k = "multipart"
<1>2. u \in Seq(Unit) /\ Len(u) = Len(t) - 2 /\ \A i \in 1..(Len(t) - 2) : u[i] = t[2 + i]
  BY BehindFacts
<1>3. m > 2 /\ m - 1 >= 2
  BY <1>1 DEF Lines
<1>4. k \in 1..Len(u) /\ u[k] = t[m] /\ Len(u) - k = Len(t) - m
  BY <1>2, <1>3
<1>5. ASSUME NEW i \in 1..(k - 1)
      PROVE  u[i] = t[2 + i] /\ 2 + i \in 1..(m - 1) /\ i \in 1..(Len(t) - 2)
  <2>1. i \in 1..(m - 3) /\ m \in 1..Len(t)
    OBVIOUS
  <2>2. i \in 1..(Len(t) - 2) /\ 2 + i \in 1..(m - 1)
    BY <2>1
  <2> HIDE DEF u, k
  <2> QED
    BY <1>2, <2>2
<1>6. t[1].k \in LineStart /\ t[1] \in Unit
  BY <1>1, <1>3 DEF Lines
<1> HIDE DEF u, k
<1>7. Lines(u, k)
  <2>1. k > 1 => u[k - 1].k = "crlf"
    <3> SUFFICES ASSUME k > 1 PROVE u[k - 1].k = "crlf"
      OBVIOUS
    <3>1. k - 1 \in 1..(k - 1) /\ 2 + (k - 1) = m - 1
      BY DEF k
    <3>2. u[k - 1] = t[m - 1]
      BY <1>5, <3>1
    <3> QED
      BY <1>1, <1>3, <3>2 DEF Lines
  <2>2. ASSUME NEW i \in 1..(k - 1)
        PROVE  /\ u[i].k \in {"crlf"} \cup LineStart
               /\ u[i].k = "crlf" <=> i > 1 /\ u[i - 1].k # "crlf"
    <3>1. 2 + i \in 1..(m - 1) /\ u[i] = t[2 + i]
      BY <1>5
    <3>2. /\ t[2 + i].k \in {"crlf"} \cup LineStart
          /\ t[2 + i].k = "crlf" <=> t[(2 + i) - 1].k # "crlf"
      BY <1>1, <3>1 DEF Lines
    <3>3. CASE i = 1
      BY <3>1, <3>2, <3>3
    <3>4. CASE i > 1
      <4>1. i - 1 \in 1..(k - 1) /\ (2 + i) - 1 = 2 + (i - 1)
        BY <3>4 DEF k
      <4>2. u[i - 1] = t[(2 + i) - 1]
        BY <1>5, <4>1
      <4> QED
        BY <3>1, <3>2, <3>4, <4>2
    <3> QED
      BY <3>3, <3>4
  <2> QED
    BY <1>1, <1>4, <2>1, <2>2 DEF Lines
<1>8. OneForm(u, k, bound) /\ (t[1].k = "multipart" => ~boundary)
  <2>1. 1 \in 1..(m - 1)
    BY <1>3
  <2>2. t[1].k = "multipart" => ~boundary
    BY <1>1, <2>1 DEF OneForm
  <2>3. ASSUME NEW i \in 1..(k - 1), u[i].k = "multipart"
        PROVE  ~bound /\ \A j \in 1..(k - 1) : u[j].k = "multipart" => i = j
    <3>1. 2 + i \in 1..(m - 1) /\ t[2 + i].k = "multipart"
      BY <1>5, <2>3
    <3>2. ~boundary /\ \A j \in 1..(m - 1) : t[j].k = "multipart" => 2 + i = j
      BY <1>1, <3>1 DEF OneForm
    <3>3. t[1].k # "multipart"
      BY <2>1, <3>2
    <3>4. ASSUME NEW j \in 1..(k - 1), u[j].k = "multipart" PROVE i = j
      <4>1. 2 + j \in 1..(m - 1) /\ t[2 + j].k = "multipart"
        BY <1>5, <3>4
      <4> QED
        BY <3>2, <4>1
    <3> QED
      BY <3>2, <3>3, <3>4
  <2> QED
    BY <2>2, <2>3 DEF OneForm
<1>9. ASSUME u[k].k = "crlf" PROVE Sized(u, k, len)
  <2>1. Sized(t, m, length)
    BY <1>1, <1>4, <1>9
  <2>2. ASSUME NEW i \in (k + 1)..Len(u) PROVE u[i].k = "data"
    <3>1. i \in 1..(Len(t) - 2) /\ 2 + i \in (m + 1)..Len(t)
      BY <1>2, <1>3, <1>4 DEF k
    <3> QED
      BY <1>2, <2>1, <3>1 DEF Sized
  <2>3. \A i \in 1..(k - 1) : u[i].k = "length" => u[i].n = Len(u) - k
    BY <1>4, <1>5, <2>1 DEF Sized
  <2>4. t[1].k = "length" => len = Len(t) - m /\ len \in Nat
    <3>1. t[1].k = "length" => t[1].n = Len(t) - m
      <4>1. 1 \in 1..(m - 1)
        BY <1>3
      <4> QED
        BY <2>1, <4>1 DEF Sized
    <3> QED
      BY <1>1, <3>1 DEF LengthOf, SizeT
  <2>5. len # SIZE_MAX => len = Len(u) - k
    BY <1>4, <2>1, <2>4 DEF Sized
  <2>6. Len(u) > k => len # SIZE_MAX \/ \E i \in 1..(k - 1) : u[i].k = "length"
    <3> SUFFICES ASSUME Len(u) > k, len = SIZE_MAX
                 PROVE  \E i \in 1..(k - 1) : u[i].k = "length"
      OBVIOUS
    <3>1. t[1].k # "length" /\ length = SIZE_MAX
      BY <2>4 DEF SIZE_MAX
    <3>2. Len(t) > m
      BY <1>2, <1>3, <1>4
    <3>3. PICK i \in 1..(m - 1) : t[i].k = "length"
      BY <2>1, <3>1, <3>2 DEF Sized
    <3>4. i # 1 /\ i # 2
      BY <3>1, <3>3
    <3>5. i - 2 \in 1..(k - 1) /\ 2 + (i - 2) = i
      BY <3>4 DEF k
    <3>6. u[i - 2] = t[i]
      BY <1>5, <3>5
    <3> QED
      BY <3>3, <3>5, <3>6
  <2> QED
    BY <2>2, <2>3, <2>5, <2>6 DEF Sized
<1>10. HeaderPart(u, len, bound)
  BY <1>4, <1>7, <1>8, <1>9 DEF HeaderPart
<1> QED
  BY <1>6, <1>8, <1>10 DEF u

LEMMA RequestStart ==
  ASSUME NEW t \in Seq(Unit), IsRequest(t)
  PROVE  /\ t # <<>> /\ t[1].k \in {"line", "nopath", "badversion", "junk"}
         /\ t[1].k = "line" =>
              /\ Len(t) >= 2
              /\ IF t[1].n = 0 THEN Len(t) = 2 ELSE HeaderPart(Behind(t, 2), SIZE_MAX, FALSE)
<1>1. Behind(t, 2) = SubSeq(t, 3, Len(t))
  BY 2 + 1 = 3 DEF Behind
<1>2. t # <<>> /\ t[1].k \in {"line", "nopath", "badversion", "junk"}
  BY DEF IsRequest
<1>3. ASSUME t[1].k = "line"
      PROVE  /\ Len(t) > 1
             /\ IF t[1].n = 0 THEN Len(t) = 2
                ELSE HeaderPart(SubSeq(t, 3, Len(t)), SIZE_MAX, FALSE)
  BY <1>3 DEF IsRequest
<1>4. ASSUME t[1].k = "line" PROVE Len(t) >= 2
  BY <1>3, <1>4
<1> QED
  BY <1>1, <1>2, <1>3, <1>4

-----------------------------------------------------------------------------
(* The inductive invariant.                                                *)

Live   == pc \notin {"closed", "halted"} /\ ~Dropped(conn)
Asking == pc = "match" \/ (pc = "handler" /\ call.by \in {"begin", "begin404"})

\* What is left of the input is what the state of the connection expects ...
Expects(c, asking, rest) ==
  /\ c.block.state \in Answering => rest = <<>>
  /\ c.block.state = REQUEST_BEGIN =>
       IF ~asking THEN rest = <<>> \/ IsRequest(rest)
       ELSE IF c.block.version = 0 THEN rest = <<>>
       ELSE HeaderPart(rest, c.block.length, c.block.boundary)
  /\ c.block.state = REQUEST_HEADER => HeaderPart(rest, c.block.length, c.block.boundary)
  /\ c.block.state = REQUEST_BODY =>
       c.block.length = Len(rest) /\ \A i \in DOMAIN rest : rest[i].k = "data"

\* ... and whatever is left, or was begun, the peer waits for.
Owed(c, asking, rest) ==
  asking \/ c.block.state # REQUEST_BEGIN \/ rest # <<>> =>
    c.waiting /\ ~Shut(c) /\ (c.block.state # REQUEST_BEGIN => c.block.route # NoRoute)

\* A call of caller k.by is made in its state, with the handler that was polite; n units
\* are in the buffer.
Allowed(c, k, n) ==
  /\ \A i \in DOMAIN k.ops : k.ops[i] = "chunked" => Chunks
  /\ k.by \in {"begin", "begin404"} =>
       /\ c.block.state = REQUEST_BEGIN /\ c.block.route # NoRoute /\ k.ops = <<>>
       /\ k.status \in {"FOUND", "NOT_FOUND", "ERROR", "CLOSE", "MORE"}
       /\ k.by = "begin404" => k.status = "FOUND"
  /\ k.by = "header" =>
       c.block.state = REQUEST_HEADER /\ k.ops = <<>> /\ k.status = "NEXT"
  /\ k.by = "body" =>
       /\ c.block.state = REQUEST_BODY /\ k.ops \in Seq({"recv", "recv1"})
       /\ k.status = "NEXT" /\ c.chunkLen <= Least(n, c.block.length)
  /\ k.by = "response" => c.block.state \in Answering \cup {REQUEST_BEGIN}
  /\ k.by # "none"

Placed ==
  /\ pc \in {"match", "closed"} => conn.block.state = REQUEST_BEGIN
  /\ Dropped(conn) => \/ pc \in {"select", "closed", "halted"}
                      \/ pc = "handler" /\ call.by = "response"
  /\ pc = "handler" => Allowed(conn, call, Len(buf))

Kept ==
  /\ Sound(conn)
  /\ pc \in {"closed", "halted"} \/ Asking \/ Fresh(conn)
  /\ Live => Expects(conn, Asking, Rest) /\ Owed(conn, Asking, Rest)
  /\ conn.block.state \in Answering /\ SendFaults = {} => Rest = <<>>
  /\ Placed
  /\ \A i \in DOMAIN later : IsRequest(later[i])

LEMMA InitKept == ASSUME Orderly, Init PROVE Kept
<1>1. /\ conn.block = ZeroBlock /\ conn.heap = 0 /\ conn.fault = "none"
      /\ conn.sock = {"INUSE"} /\ pc = "accepted" /\ Rest = <<>>
  BY EmptySeq, ConcatEmptySeq DEF Init, Rest
<1>2. /\ ZeroBlock.state = REQUEST_BEGIN /\ ZeroBlock.version = 0
      /\ ZeroBlock.flags = {} /\ ~ZeroBlock.boundary
  BY DEF ZeroBlock
<1>3. Sound(conn) /\ Fresh(conn) /\ ~Dropped(conn) /\ ~Asking
  BY <1>1, <1>2, StatesApart DEF Sound, Fresh, Is, Shut, Dropped, Answering, Asking
<1>4. \A i \in DOMAIN later : IsRequest(later[i])
  BY DEF Init, Orderly
<1>5. Expects(conn, Asking, Rest) /\ Owed(conn, Asking, Rest)
  BY <1>1, <1>2, <1>3, StatesApart DEF Expects, Owed, Answering
<1> QED
  BY <1>1, <1>2, <1>3, <1>4, <1>5, StatesApart DEF Kept, Placed, Answering

-----------------------------------------------------------------------------
(* The kinds of steps.                                                     *)

\* What a step may use of the invariants.
LEMMA KeptFacts ==
  ASSUME IInv, Kept, pc \notin {"closed", "halted"}
  PROVE  /\ conn \in GoodConn /\ conn \in Conn /\ Sound(conn)
         /\ ~Asking => conn \in Clean
         /\ buf \in Seq(Unit) /\ net \in Seq(Unit) /\ bufpos \in Nat
         /\ later \in Seq(Seq(Unit)) /\ call \in Call
         /\ conn.block \in Block
         /\ conn.block.state \in
              {REQUEST_BEGIN, REQUEST_HEADER, REQUEST_BODY} \cup Answering
         /\ Rest \in Seq(Unit)
<1>1. conn \in GoodConn /\ conn \in Conn
  BY IInvFacts DEF GoodConn
<1>2. conn.block \in Block /\ conn.block.state \in SessState
  BY <1>1 DEF Conn, Block
<1> QED
  BY <1>1, <1>2, IInvFacts, RestFacts DEF Kept, Clean, Answering, SessState

\* The connection is given up.
LEMMA GivenUp ==
  ASSUME Kept, NEW d \in Clean, Dropped(d), conn' = d, later' = later,
         pc' \in {"select", "halted"},
         d.block.state \in Answering /\ SendFaults = {} => Rest' = <<>>
  PROVE  Kept'
BY DEF Kept, Clean, Live, Placed, Asking

\* The connection is as it was, and so is what is left of the input.
LEMMA GoesOn ==
  ASSUME IInv, Kept, pc \notin {"closed", "halted"}, ~Asking,
         NEW d \in Clean, d.block = conn.block, d.waiting = conn.waiting,
         Shut(d) <=> Shut(conn), Dropped(d) <=> Dropped(conn),
         conn' = d, Rest' = Rest, later' = later,
         pc' \in {"select", "again", "parse", "done", "halted"},
         Dropped(d) => pc' \in {"select", "halted"}
  PROVE  Kept'
<1>1. Asking' = FALSE /\ (Live' => Live)
  BY DEF Asking, Live
<1>2. Live => Expects(d, FALSE, Rest) /\ Owed(d, FALSE, Rest)
  BY DEF Kept, Expects, Owed
<1>3. Live' => Expects(conn', Asking', Rest') /\ Owed(conn', Asking', Rest')
  BY <1>1, <1>2
<1> QED
  BY <1>3 DEF Kept, Clean, Placed

\* A live connection goes on to another state.
LEMMA MovesOn ==
  ASSUME Kept, NEW d, d \in Clean \/ (Asking' /\ Sound(d)),
         conn' = d, later' = later, ~Dropped(d), Placed',
         Expects(d, Asking', Rest'), Owed(d, Asking', Rest')
  PROVE  Kept'
BY DEF Kept, Clean, Expects

\* Undefined behaviour is the end.
LEMMA HaltKept ==
  ASSUME Kept, NEW d, Sound(d), conn' = d, pc' = "halted", later' = later,
         d.block.state \in Answering => Rest' = <<>>
  PROVE  Kept'
BY DEF Kept, Live, Placed

\* Outside of request_begin, a live connection goes on to another state.
LEMMA GotoKept ==
  ASSUME Kept, NEW d \in Clean, ~Dropped(d), NEW p \in {"parse", "done", "select"},
         Goto(d, p), later' = later, Expects(d, FALSE, Rest'), Owed(d, FALSE, Rest')
  PROVE  Kept'
<1>1. conn' = d /\ pc' \in {p, "halted"} /\ Sound(d)
  BY DEF Goto, Clean
<1>2. CASE pc' = "halted"
  BY <1>1, <1>2, HaltKept DEF Expects
<1>3. CASE pc' = p
  <2>1. Asking' = FALSE /\ Placed'
    BY <1>1, <1>3 DEF Asking, Placed
  <2>2. Expects(d, Asking', Rest') /\ Owed(d, Asking', Rest')
    BY <2>1
  <2> QED
    BY <1>1, <2>1, <2>2, MovesOn
<1> QED
  BY <1>1, <1>2, <1>3

\* In request_begin, the search for a route goes on.
LEMMA MatchKept ==
  ASSUME Kept, NEW d, Sound(d), ~Dropped(d), d.block.state = REQUEST_BEGIN,
         Goto(d, "match"), later' = later, Expects(d, TRUE, Rest'), Owed(d, TRUE, Rest')
  PROVE  Kept'
<1>1. conn' = d /\ pc' \in {"match", "halted"}
  BY DEF Goto
<1>2. CASE pc' = "halted"
  BY <1>1, <1>2, HaltKept DEF Expects
<1>3. CASE pc' = "match"
  <2>1. Asking' = TRUE /\ Placed'
    BY <1>1, <1>3 DEF Asking, Placed
  <2>2. Expects(d, Asking', Rest') /\ Owed(d, Asking', Rest')
    BY <2>1
  <2> QED
    BY <1>1, <2>1, <2>2, MovesOn
<1> QED
  BY <1>1, <1>2, <1>3

LEMMA OnConnectKept == ASSUME IInv, Kept, OnConnect PROVE Kept'
<1> DEFINE d == [conn EXCEPT !.sock = @ \cup {"CONNECTED"}]
<1>1. pc = "accepted" /\ Goto(d, "select") /\ UNCHANGED <<call, buf, bufpos, net, later>>
  BY DEF OnConnect
<1>2. conn \in Clean /\ conn \in Conn /\ ~Asking
  BY <1>1, KeptFacts DEF Asking
<1>3. /\ d.block = conn.block /\ d.heap = conn.heap /\ d.waiting = conn.waiting
      /\ d.fault = conn.fault /\ d.sock = conn.sock \cup {"CONNECTED"}
      /\ d.wire = conn.wire
  BY <1>2 DEF Conn
<1>4. d \in GoodConn
  BY <1>2, <1>3 DEF GoodConn, Conn, SockFlag, Marked, Clean
<1> HIDE DEF d
<1>5. d \in Clean /\ (Shut(d) <=> Shut(conn)) /\ (Dropped(d) <=> Dropped(conn))
  BY <1>2, <1>3, <1>4, AfterAlike, AfterClean DEF Shut, Dropped
<1> QED
  BY <1>1, <1>2, <1>3, <1>5, GoesOn DEF Goto, Rest

LEMMA CloseKept == ASSUME Orderly, IInv, Kept, pc = "select", Close PROVE Kept'
<1>1. PICK d \in Finalize(conn) :
        IF d.fault # "none" THEN Goto(d, "halted")
        ELSE Goto([d EXCEPT !.sock = {}, !.waiting = FALSE], "closed")
  BY DEF Close
<1>2. /\ conn \in Clean /\ d \in After(conn) /\ d \in Clean /\ d \in Conn
      /\ d.block.state = REQUEST_BEGIN \/ d.fault # "none"
  BY KeptFacts, FinalizeAfter, AfterClean DEF Asking, GoodConn
<1>3. UNCHANGED <<call, buf, bufpos, net, later>> /\ Rest' = Rest
  BY DEF Close, Rest
<1>4. CASE d.fault # "none"
  <2>1. conn' = d /\ pc' = "halted"
    BY <1>1, <1>4 DEF Goto
  <2>2. d.block.state \in Answering /\ SendFaults = {} => Rest' = <<>>
    BY <1>2, <1>3, StatesApart DEF Kept, After, Answering
  <2> QED
    BY <1>2, <1>3, <2>1, <2>2 DEF Kept, Clean, Live, Placed, Asking
<1>5. CASE d.fault = "none"
  <2> DEFINE e == [d EXCEPT !.sock = {}, !.waiting = FALSE]
  <2>1. e.block = d.block /\ e.heap = d.heap /\ e.fault = d.fault /\ e.sock = {}
    BY <1>2 DEF Conn
  <2>2. conn' = e /\ pc' = "closed"
    BY <1>1, <1>5, <2>1 DEF Goto
  <2> HIDE DEF e
  <2>3. Sound(e) /\ ~Dropped(e) /\ e.block.state = REQUEST_BEGIN
    BY <1>2, <1>5, <2>1, StatesApart DEF Clean, Sound, Is, Shut, Dropped, Answering
  <2> QED
    BY <1>3, <2>2, <2>3, StatesApart DEF Kept, Live, Placed, Answering
<1> QED
  BY <1>4, <1>5

LEMMA RecvKept == ASSUME IInv, Kept, Recv PROVE Kept'
<1>1. /\ pc \in {"select", "again"} /\ pc' = "parse" /\ UNCHANGED <<conn, later>>
      /\ ~Asking
  BY DEF Recv, Receiving, Asking
<1>2. conn \in Clean /\ ~Dropped(conn)
  <2>1. conn \in Clean
    BY <1>1, KeptFacts
  <2> QED
    BY <1>1, <2>1 DEF Recv, Receiving, Dropped, Kept, Placed
<1>3. Rest' = Rest
  BY RecvRest
<1> QED
  BY <1>1, <1>2, <1>3, GoesOn

LEMMA RecvEndKept == ASSUME IInv, Kept, RecvEnd PROVE Kept'
<1>1. /\ pc \in {"select", "again"} /\ UNCHANGED <<call, buf, bufpos, net, later>>
      /\ ~Asking /\ Goto(PendClose(conn), "select")
  BY DEF RecvEnd, Receiving, Asking
<1>2. conn \in Clean
  BY <1>1, KeptFacts
<1>3. /\ PendClose(conn) \in Clean /\ Dropped(PendClose(conn))
      /\ PendClose(conn).block = conn.block
  BY <1>2, PendCloseSound DEF Clean
<1>4. conn.block.state \in Answering /\ SendFaults = {} => Rest = <<>>
  BY DEF Kept
<1> QED
  BY <1>1, <1>3, <1>4, GivenUp DEF Goto, Rest

LEMMA ReadDoneKept == ASSUME IInv, Kept, ReadDone PROVE Kept'
<1>1. pc \in {"done", "parse"} /\ ~Asking /\ UNCHANGED <<call, buf, net, later>>
  BY DEF ReadDone, Asking
<1>2. conn \in Clean /\ ~Dropped(conn)
  BY <1>1, KeptFacts DEF Kept, Placed
<1>3. CASE Len(buf) = BufSize
  <2>1. /\ PendClose(conn) \in Clean /\ Dropped(PendClose(conn))
        /\ PendClose(conn).block = conn.block
    BY <1>2, PendCloseSound DEF Clean
  <2>2. conn.block.state \in Answering /\ SendFaults = {} => Rest = <<>>
    BY DEF Kept
  <2>3. Goto(PendClose(conn), "select")
    BY <1>3 DEF ReadDone
  <2> QED
    BY <1>1, <2>1, <2>2, <2>3, GivenUp DEF Goto, Rest
<1>4. CASE Len(buf) # BufSize
  <2>1. PICK p \in {"select", "again"} : Goto(conn, p)
    BY <1>4 DEF ReadDone
  <2> QED
    BY <1>1, <1>2, <2>1, GoesOn DEF Goto, Rest
<1> QED
  BY <1>3, <1>4

-----------------------------------------------------------------------------
(* Handlers.                                                               *)

LEMMA BehavioursPolite ==
  ASSUME Orderly, NEW r \in Route, NEW b \in BehavioursOf(r)
  PROVE  /\ b \in Behaviour /\ Polite(b)
         /\ \A i \in DOMAIN b[2] : b[2][i] = "chunked" => Chunks
         /\ r = R404 /\ b[1] = REQUEST_BEGIN => b[3] = "FOUND"
<1>1. b \in Behaviour
  BY BehavioursType
<1>2. CASE r = R404
  <2>1. b \in NotFoundHandler
    BY <1>2 DEF BehavioursOf
  <2>2. /\ b[2] \in {<<>>, <<"error">>}
        /\ b[1] \in {REQUEST_BEGIN, REQUEST_HEADER, REQUEST_BODY} => b[2] = <<>>
        /\ b[1] = REQUEST_BEGIN => b[3] = "FOUND"
        /\ b[1] \in {REQUEST_HEADER, REQUEST_BODY} => b[3] = "NEXT"
    BY <2>1, StatesApart DEF NotFoundHandler
  <2>3. <<>> \in Seq({"recv", "recv1"})
    OBVIOUS
  <2>4. \A i \in DOMAIN b[2] : b[2][i] # "chunked"
    BY <2>2
  <2> QED
    BY <1>1, <2>2, <2>3, <2>4 DEF Polite
<1>3. CASE r # R404
  <2>1. r \in 1..NRoutes /\ b \in Handlers[r]
    BY <1>3, HttpConstants DEF BehavioursOf, Route, R404
  <2> QED
    BY <1>1, <1>3, <2>1 DEF Orderly, Chunks
<1> QED
  BY <1>2, <1>3

\* A call through a route is a polite one.
LEMMA CallFacts ==
  ASSUME Orderly, NEW d \in GoodConn, d.block.route # NoRoute, NEW caller,
         CallHandler(d, caller)
  PROVE  /\ conn' = d /\ pc' \in {"handler", "halted"}
         /\ call'.by = caller /\ call'.ops \in Seq(Op) /\ call'.status \in RouteStatus
         /\ \A i \in DOMAIN call'.ops : call'.ops[i] = "chunked" => Chunks
         /\ Polite(<<d.block.state, call'.ops, call'.status>>)
         /\ d.block.route = R404 /\ d.block.state = REQUEST_BEGIN => call'.status = "FOUND"
<1>1. d.block.route \in Route
  BY HttpConstants DEF GoodConn, Conn, Block, Route, NoRoute, R404
<1>2. PICK b \in BehavioursOf(d.block.route) :
        /\ b[1] = d.block.state
        /\ call' = [by |-> caller, ops |-> b[2], status |-> b[3]]
        /\ Goto(d, "handler")
  BY DEF CallHandler
<1>3. /\ b \in Behaviour /\ Polite(b)
      /\ \A i \in DOMAIN b[2] : b[2][i] = "chunked" => Chunks
      /\ d.block.route = R404 /\ b[1] = REQUEST_BEGIN => b[3] = "FOUND"
  BY <1>1, BehavioursPolite
<1>4. b[2] \in Seq(Op) /\ b[3] \in RouteStatus
  BY <1>3 DEF Behaviour
<1>5. Polite(<<d.block.state, b[2], b[3]>>)
  BY <1>2, <1>3 DEF Polite
<1>6. call'.by = caller /\ call'.ops = b[2] /\ call'.status = b[3]
  BY <1>2
<1> QED
  BY <1>2, <1>3, <1>4, <1>5, <1>6 DEF Goto

\* A handler is called in a state of the request.
LEMMA CallKept ==
  ASSUME Orderly, Kept, NEW d \in GoodConn, Sound(d), ~Dropped(d), d.block.route # NoRoute,
         NEW caller \in {"begin", "begin404", "header", "body"}, CallHandler(d, caller),
         NEW asking, asking <=> caller \in {"begin", "begin404"}, asking \in BOOLEAN,
         asking => d.block.state = REQUEST_BEGIN,
         caller = "begin404" => d.block.route = R404,
         caller = "header" => d.block.state = REQUEST_HEADER,
         caller = "body" => /\ d.block.state = REQUEST_BODY
                            /\ d.chunkLen <= Least(Len(buf'), d.block.length),
         Expects(d, asking, Rest'), Owed(d, asking, Rest'), later' = later
  PROVE  Kept'
<1>1. /\ conn' = d /\ pc' \in {"handler", "halted"} /\ call'.by = caller
      /\ \A i \in DOMAIN call'.ops : call'.ops[i] = "chunked" => Chunks
      /\ Polite(<<d.block.state, call'.ops, call'.status>>)
      /\ d.block.route = R404 /\ d.block.state = REQUEST_BEGIN => call'.status = "FOUND"
  BY CallFacts
<1>2. CASE pc' = "halted"
  BY <1>1, <1>2, HaltKept DEF Expects
<1>3. CASE pc' = "handler"
  <2>1. Asking' = asking
    BY <1>1, <1>3 DEF Asking
  <2>2. /\ d.block.state = REQUEST_BEGIN =>
             /\ call'.ops = <<>>
             /\ call'.status \in {"FOUND", "NOT_FOUND", "ERROR", "CLOSE", "MORE"}
        /\ d.block.state = REQUEST_HEADER => call'.ops = <<>> /\ call'.status = "NEXT"
        /\ d.block.state = REQUEST_BODY =>
             call'.ops \in Seq({"recv", "recv1"}) /\ call'.status = "NEXT"
    BY <1>1 DEF Polite
  <2>3. Allowed(d, call', Len(buf'))
    BY <1>1, <2>2 DEF Allowed
  <2>4. Placed'
    BY <1>1, <1>3, <2>3 DEF Placed
  <2>5. Expects(d, Asking', Rest') /\ Owed(d, Asking', Rest')
    BY <2>1
  <2>6. d \in Clean \/ Asking'
    BY <2>1, StatesApart DEF Clean, Fresh
  <2> QED
    BY <1>1, <2>4, <2>5, <2>6, MovesOn
<1> QED
  BY <1>1, <1>2, <1>3

LEMMA DoWriteKept == ASSUME Orderly, IInv, Kept, DoWrite PROVE Kept'
<1>1. /\ pc = "select" /\ ~Asking /\ ~Dropped(conn) /\ CallHandler(conn, "response")
      /\ UNCHANGED <<buf, bufpos, net, later>>
  BY DEF DoWrite, Asking, Dropped
<1>2. conn \in Clean /\ conn \in GoodConn /\ conn.block.state \in Answering
  <2>1. /\ conn \in Clean /\ conn \in GoodConn
        /\ conn.block.state \in {REQUEST_BEGIN, REQUEST_HEADER, REQUEST_BODY} \cup Answering
    BY <1>1, KeptFacts
  <2>2. conn.block.state \notin {REQUEST_BEGIN, REQUEST_HEADER, REQUEST_BODY}
    BY DEF DoWrite, WantWrite, REQUEST_BEGIN, REQUEST_HEADER, REQUEST_BODY
  <2> QED
    BY <2>1, <2>2
<1>3. conn.block.route # NoRoute
  BY <1>1, <1>2 DEF Clean, Sound
<1>4. /\ conn' = conn /\ pc' \in {"handler", "halted"} /\ call'.by = "response"
      /\ \A i \in DOMAIN call'.ops : call'.ops[i] = "chunked" => Chunks
  BY <1>1, <1>2, <1>3, CallFacts
<1>5. Asking' = FALSE /\ Rest' = Rest /\ Live
  BY <1>1, <1>4 DEF Asking, Rest, Live
<1>6. Placed'
  BY <1>1, <1>2, <1>4 DEF Placed, Allowed
<1>7. Expects(conn, FALSE, Rest) /\ Owed(conn, FALSE, Rest)
  BY <1>1, <1>5 DEF Kept, Expects, Owed
<1>8. Expects(conn, Asking', Rest') /\ Owed(conn, Asking', Rest')
  BY <1>5, <1>7
<1> QED
  BY <1>1, <1>2, <1>4, <1>6, <1>8, MovesOn

-----------------------------------------------------------------------------
(* request_begin                                                           *)

\* What a parser may use: there is input, nobody has begun to answer, and the peer
\* waits.
LEMMA ParsingFacts ==
  ASSUME IInv, Kept, pc = "parse", buf # <<>>
  PROVE  /\ conn \in Clean /\ conn \in GoodConn /\ conn \in Conn /\ ~Dropped(conn)
         /\ Rest # <<>> /\ Rest[1] = buf[1] /\ buf[1] \in Unit
         /\ Expects(conn, FALSE, Rest)
         /\ conn.waiting /\ ~Shut(conn)
         /\ conn.block.state # REQUEST_BEGIN => conn.block.route # NoRoute
         /\ conn.block.state \in {REQUEST_BEGIN, REQUEST_HEADER, REQUEST_BODY}
<1>1. Asking = FALSE /\ ~Dropped(conn) /\ Live
  BY DEF Kept, Placed, Asking, Live
<1>2. /\ conn \in Clean /\ conn \in GoodConn /\ conn \in Conn
      /\ buf \in Seq(Unit) /\ net \in Seq(Unit)
      /\ conn.block.state \in {REQUEST_BEGIN, REQUEST_HEADER, REQUEST_BODY} \cup Answering
  BY <1>1, KeptFacts
<1>3. 1 \in 1..Len(buf)
  BY <1>2, EmptySeq
<1>4. Rest # <<>> /\ Rest[1] = buf[1] /\ buf[1] \in Unit
  BY <1>2, <1>3, RestFacts
<1>5. Expects(conn, FALSE, Rest) /\ Owed(conn, FALSE, Rest)
  BY <1>1 DEF Kept
<1> QED
  BY <1>1, <1>2, <1>4, <1>5 DEF Expects, Owed

LEMMA KeptReads == ASSUME IInv, Kept PROVE ReadsRequests
BY ParsingFacts DEF ReadsRequests

\* A request that is refused.
LEMMA RejectKept ==
  ASSUME Orderly, Kept, NEW c \in Clean,
         c.block.state \in {REQUEST_BEGIN, REQUEST_HEADER, REQUEST_BODY},
         \E d \in Reject(c) : ReturnTrue(d), later' = later
  PROVE  Kept'
<1>1. PICK d \in Reject(c) : ReturnTrue(d)
  OBVIOUS
<1>2. d \in After(c) /\ Dropped(d) /\ d \in Clean
  BY <1>1, RejectAfter, AfterClean
<1>3. conn' = d /\ pc' \in {"select", "halted"}
  BY <1>1, <1>2 DEF ReturnTrue, Goto, Dropped
<1>4. d.block.state \notin Answering
  BY <1>2, StatesApart DEF After, Answering
<1> QED
  BY <1>2, <1>3, <1>4, GivenUp

LEMMA BegunClean ==
  ASSUME IInv, Kept, Parsing(0), buf # <<>>
  PROVE  /\ Begun \in Clean /\ ~Dropped(Begun) /\ ~Shut(Begun) /\ Begun.waiting
         /\ Begun.block = [conn.block EXCEPT !.length = SIZE_MAX]
         /\ conn.block \in Block
         /\ conn.block.state = REQUEST_BEGIN /\ conn.block.version = 0
         /\ Begun.block.state = REQUEST_BEGIN
         /\ Begun = [conn EXCEPT !.block = [conn.block EXCEPT !.length = SIZE_MAX]]
<1>1. pc = "parse"
  BY DEF Parsing
<1>2. /\ conn \in Clean /\ conn \in GoodConn /\ conn \in Conn /\ ~Dropped(conn)
      /\ conn.waiting /\ ~Shut(conn)
  BY <1>1, ParsingFacts
<1>3. conn.block.state = REQUEST_BEGIN
  BY KeptReads, ParsingState
<1>4. Begun \in GoodConn /\ conn.block \in Block /\ conn.block.version = 0
  BY <1>2, <1>3, BegunGood DEF Conn, Clean, Fresh
<1>5. /\ Begun.block = [conn.block EXCEPT !.length = SIZE_MAX]
      /\ Begun.heap = conn.heap /\ Begun.waiting = conn.waiting
      /\ Begun.fault = conn.fault /\ Begun.sock = conn.sock
      /\ Begun = [conn EXCEPT !.block = [conn.block EXCEPT !.length = SIZE_MAX]]
  BY <1>2 DEF Begun, Conn
<1>6. /\ Begun.block.state = conn.block.state /\ Begun.block.route = conn.block.route
      /\ Begun.block.flags = conn.block.flags /\ Begun.block.version = conn.block.version
      /\ Begun.block.boundary = conn.block.boundary
  BY <1>4, <1>5 DEF Block
<1>7. Sound(Begun) /\ Fresh(Begun)
  BY <1>2, <1>5, <1>6 DEF Clean, Sound, Fresh, Is, Shut, Dropped
<1> QED
  BY <1>2, <1>3, <1>4, <1>5, <1>6, <1>7 DEF Clean, Shut, Dropped

LEMMA BeginAwaitKept == ASSUME Orderly, IInv, Kept, BeginAwait PROVE Kept'
<1>1. /\ Parsing(0) /\ pc = "parse" /\ buf # <<>> /\ AwaitLine(Begun)
      /\ UNCHANGED <<call, buf, bufpos, net, later>> /\ Rest' = Rest
  BY DEF BeginAwait, Parsing, AwaitLine, Rest
<1>2. Begun \in Clean /\ ~Dropped(Begun) /\ Begun.block.state = REQUEST_BEGIN
  BY <1>1, BegunClean
<1>3. CASE \E d \in Reject(Begun) : ReturnTrue(d)
  BY <1>1, <1>2, <1>3, RejectKept
<1>4. CASE ReturnTrue(Begun)
  <2>1. conn' = Begun /\ pc' \in {"done", "halted"}
    BY <1>2, <1>4 DEF ReturnTrue, Goto, Dropped
  <2>2. Asking' = FALSE /\ Placed'
    BY <1>2, <2>1 DEF Asking, Placed
  <2>3. Expects(conn, FALSE, Rest) /\ conn.block.state = REQUEST_BEGIN
    BY <1>1, ParsingFacts, BegunClean
  <2>4. Expects(Begun, FALSE, Rest) /\ Owed(Begun, FALSE, Rest)
    BY <1>1, <1>2, <2>3, BegunClean, StatesApart DEF Expects, Owed, Answering
  <2>5. Expects(Begun, Asking', Rest') /\ Owed(Begun, Asking', Rest')
    BY <1>1, <2>2, <2>4
  <2> QED
    BY <1>1, <1>2, <2>1, <2>2, <2>5, MovesOn
<1> QED
  BY <1>1, <1>3, <1>4 DEF AwaitLine

LEMMA BeginLineKept == ASSUME Orderly, IInv, Kept, BeginLine PROVE Kept'
<1>1. /\ Parsing(0) /\ pc = "parse" /\ buf # <<>> /\ HasLine
      /\ LineKind(buf) \in {"line"} \cup HeaderKind
      /\ Consume(LineEnd(buf)) /\ UNCHANGED <<call, net, later>>
  BY DEF BeginLine, Parsing
<1>2. buf \in Seq(Unit) /\ net \in Seq(Unit) /\ bufpos \in Nat /\ Rest \in Seq(Unit)
  BY <1>1, KeptFacts
<1>3. /\ LineEnd(buf) = 2 /\ LineKind(buf) = Rest[1].k /\ buf[1] = Rest[1] /\ 2 <= Len(buf)
      /\ Rest # <<>>
  <2>1. LineKind(buf) \notin {"blank", "junk"}
    BY <1>1 DEF HeaderKind
  <2> QED
    BY <1>1, <1>2, <2>1, LineFacts
<1>4. conn.block.state = REQUEST_BEGIN /\ IsRequest(Rest)
  <2>1. conn.block.state = REQUEST_BEGIN /\ Expects(conn, FALSE, Rest)
    BY <1>1, BegunClean, ParsingFacts
  <2> QED
    BY <1>3, <2>1 DEF Expects
<1>5. /\ LineKind(buf) = "line" /\ Rest[1].k = "line"
      /\ IF Rest[1].n = 0 THEN Len(Rest) = 2 ELSE HeaderPart(Behind(Rest, 2), SIZE_MAX, FALSE)
  BY <1>1, <1>2, <1>3, <1>4, RequestStart DEF HeaderKind
<1>6. Rest' = Behind(Rest, 2) /\ 2 <= Len(Rest)
  BY <1>1, <1>2, <1>3, ConsumeRest
<1> DEFINE v == buf[1].n
           b == [conn.block EXCEPT !.length = SIZE_MAX]
           version == IF v = 0 THEN b.version ELSE v
           flags == IF v = 2 THEN b.flags \cup {"KEEPALIVE"} ELSE b.flags
           route == IF NRoutes > 0 THEN 1 ELSE NoRoute
           d == [Begun EXCEPT !.block.version = version, !.block.flags = flags,
                              !.block.route = route]
<1>7. /\ Begun \in Clean /\ Begun \in Conn /\ conn.block \in Block /\ conn.block.version = 0
      /\ Begun.block = b /\ ~Dropped(Begun) /\ ~Shut(Begun) /\ Begun.waiting
  BY <1>1, BegunClean DEF Clean, GoodConn
<1>8. Goto(d, "match")
  <2>1. Begun.block.version = b.version /\ Begun.block.flags = b.flags
    BY <1>7
  <2> QED
    BY <1>5, <2>1 DEF BeginLine
<1>9. b \in Block /\ b.state = REQUEST_BEGIN /\ b.version = 0 /\ b.length = SIZE_MAX
      /\ b.boundary = conn.block.boundary
  BY <1>4, <1>7 DEF Block
<1> HIDE DEF b
<1>10. version = v /\ v \in 0..2 /\ (v = 0 <=> Rest[1].n = 0)
  <2>1. buf[1] \in Unit /\ buf[1].k = "line"
    BY <1>1, <1>3, <1>5, ParsingFacts
  <2> QED
    BY <1>3, <1>9, <2>1 DEF Unit
<1> HIDE DEF v
<1>11. "REQUEST_CHUNKED" \notin flags
       /\ ("RESPONSE_CHUNKED" \in flags => "RESPONSE_CHUNKED" \in b.flags)
  BY <1>7 DEF Clean, Sound, Is
<1> HIDE DEF version, flags, route
<1>12. /\ d.block.state = REQUEST_BEGIN /\ d.block.version = version
       /\ d.block.length = SIZE_MAX /\ d.block.boundary = b.boundary
       /\ d.block.flags = flags /\ d.heap = Begun.heap /\ d.waiting = Begun.waiting
       /\ d.fault = Begun.fault /\ d.sock = Begun.sock
  BY <1>7, <1>9 DEF Conn, Block
<1> HIDE DEF d
<1>13. Sound(d) /\ ~Dropped(d) /\ ~Shut(d) /\ ~d.block.boundary /\ d.waiting
  BY <1>7, <1>9, <1>11, <1>12, StatesApart DEF Clean, Sound, Is, Shut, Dropped, Answering
<1>14. Behind(Rest, 2) = <<>> \/ v # 0
  <2>1. Behind(Rest, 2) \in Seq(Unit) /\ Len(Behind(Rest, 2)) = Len(Rest) - 2
    BY <1>2, <1>6, BehindFacts
  <2>2. v = 0 => Len(Rest) = 2
    BY <1>5, <1>10
  <2>3. ASSUME v = 0 PROVE Len(Behind(Rest, 2)) = 0
    BY <2>1, <2>2, <2>3, 2 - 2 = 0
  <2> QED
    BY <2>1, <2>3, EmptySeq
<1>15. IF d.block.version = 0 THEN Behind(Rest, 2) = <<>>
       ELSE HeaderPart(Behind(Rest, 2), d.block.length, d.block.boundary)
  <2>1. d.block.boundary = FALSE
    BY <1>7, <1>9, <1>12, <1>13 DEF Block
  <2> QED
    BY <1>5, <1>10, <1>12, <1>14, <2>1
<1>16. Expects(d, TRUE, Behind(Rest, 2)) /\ Owed(d, TRUE, Behind(Rest, 2))
  BY <1>12, <1>13, <1>15, StatesApart DEF Expects, Owed, Answering
<1> QED
  BY <1>1, <1>6, <1>8, <1>12, <1>13, <1>16, MatchKept

LEMMA BeginRejectKept == ASSUME Orderly, IInv, Kept, BeginReject PROVE Kept'
<1>1. Parsing(0) /\ buf # <<>> /\ later' = later /\ \E d \in Reject(Begun) : ReturnTrue(d)
  BY DEF BeginReject, Parsing
<1>2. Begun \in Clean /\ Begun.block.state = REQUEST_BEGIN
  BY <1>1, BegunClean
<1> QED
  BY <1>1, <1>2, RejectKept

LEMMA RequestBeginKept == ASSUME Orderly, IInv, Kept, RequestBegin PROVE Kept'
BY BeginAwaitKept, BeginRejectKept, BeginLineKept DEF RequestBegin

-----------------------------------------------------------------------------
(* The search for a route.                                                 *)

\* What the search may use: the request line was read, and the peer waits.
LEMMA AskingFacts ==
  ASSUME IInv, Kept, Asking
  PROVE  /\ conn \in GoodConn /\ conn \in Conn /\ Sound(conn) /\ ~Dropped(conn)
         /\ conn.block \in Block /\ conn.block.state = REQUEST_BEGIN
         /\ Expects(conn, TRUE, Rest) /\ Owed(conn, TRUE, Rest)
         /\ conn.waiting /\ ~Shut(conn)
<1>1. Asking = TRUE /\ pc \in {"match", "handler"} /\ ~Dropped(conn) /\ Live
  BY DEF Asking, Kept, Placed, Live
<1>2. conn.block.state = REQUEST_BEGIN
  BY DEF Asking, Kept, Placed, Allowed
<1>3. Expects(conn, TRUE, Rest) /\ Owed(conn, TRUE, Rest)
  BY <1>1 DEF Kept
<1>4. conn.waiting /\ ~Shut(conn)
  BY <1>3 DEF Owed
<1> QED
  BY <1>1, <1>2, <1>3, <1>4, KeptFacts

\* The route under consideration says nothing of the request.
LEMMA RouteAlike ==
  ASSUME NEW c \in GoodConn, Sound(c), ~Dropped(c), c.block.state = REQUEST_BEGIN,
         NEW rest, Expects(c, TRUE, rest), Owed(c, TRUE, rest), NEW r \in 0..R404,
         NEW d, d = [c EXCEPT !.block.route = r]
  PROVE  /\ d \in GoodConn /\ Sound(d) /\ ~Dropped(d) /\ d.block.state = REQUEST_BEGIN
         /\ d.block.route = r /\ Expects(d, TRUE, rest) /\ Owed(d, TRUE, rest)
<1>1. c \in Conn /\ c.block \in Block /\ d \in GoodConn
  BY DEF GoodConn, Conn, Block, Marked
<1>2. /\ d.block.state = REQUEST_BEGIN /\ d.block.version = c.block.version
      /\ d.block.length = c.block.length /\ d.block.boundary = c.block.boundary
      /\ d.block.flags = c.block.flags /\ d.block.route = r
      /\ d.heap = c.heap /\ d.waiting = c.waiting /\ d.fault = c.fault /\ d.sock = c.sock
  BY <1>1 DEF Conn, Block
<1>3. Sound(d) /\ ~Dropped(d)
  BY <1>2, StatesApart DEF Sound, Is, Shut, Dropped, Answering
<1>4. Expects(d, TRUE, rest) /\ Owed(d, TRUE, rest)
  BY <1>2, StatesApart DEF Expects, Owed, Shut, Answering
<1> QED
  BY <1>1, <1>2, <1>3, <1>4

LEMMA MatchingKept == ASSUME Orderly, IInv, Kept, Matching PROVE Kept'
<1>1. /\ pc = "match" /\ Asking /\ Rest' = Rest /\ later' = later /\ Len(buf') = Len(buf)
      /\ UNCHANGED <<buf, bufpos, net, later>>
  BY DEF Matching, SkipRoute, TryRoute, LastResort, Asking, Rest
<1>2. /\ conn \in GoodConn /\ conn \in Conn /\ Sound(conn) /\ ~Dropped(conn)
      /\ conn.block \in Block /\ conn.block.state = REQUEST_BEGIN
      /\ Expects(conn, TRUE, Rest) /\ Owed(conn, TRUE, Rest)
  BY <1>1, AskingFacts
<1>3. CASE SkipRoute
  <2> DEFINE r == IF conn.block.route < NRoutes THEN conn.block.route + 1 ELSE NoRoute
             d == [conn EXCEPT !.block.route = r]
  <2>1. r \in 0..R404
    BY <1>2, HttpConstants DEF Block, NoRoute, R404
  <2>2. Goto(d, "match")
    BY <1>3 DEF SkipRoute, NextRoute
  <2> HIDE DEF r
  <2>3. /\ d \in GoodConn /\ Sound(d) /\ ~Dropped(d) /\ d.block.state = REQUEST_BEGIN
        /\ d.block.route = r /\ Expects(d, TRUE, Rest) /\ Owed(d, TRUE, Rest)
    BY <1>2, <2>1, RouteAlike
  <2> HIDE DEF d
  <2>4. Expects(d, TRUE, Rest') /\ Owed(d, TRUE, Rest')
    BY <1>1, <2>3
  <2> QED
    BY <1>1, <2>2, <2>3, <2>4, MatchKept
<1>4. CASE TryRoute
  <2>1. Expects(conn, TRUE, Rest') /\ Owed(conn, TRUE, Rest')
    BY <1>1, <1>2
  <2>2. CallHandler(conn, "begin") /\ conn.block.route # NoRoute
    BY <1>4 DEF TryRoute
  <2> QED
    BY <1>1, <1>2, <2>1, <2>2, CallKept
<1>5. CASE LastResort
  <2> DEFINE d == [conn EXCEPT !.block.route = R404]
  <2>1. CallHandler(d, "begin404")
    BY <1>5 DEF LastResort
  <2>2. R404 \in 0..R404 /\ R404 # NoRoute
    BY HttpConstants DEF R404, NoRoute
  <2>3. /\ d \in GoodConn /\ Sound(d) /\ ~Dropped(d) /\ d.block.state = REQUEST_BEGIN
        /\ d.block.route = R404 /\ Expects(d, TRUE, Rest) /\ Owed(d, TRUE, Rest)
    BY <1>2, <2>2, RouteAlike
  <2> HIDE DEF d
  <2>4. Expects(d, TRUE, Rest') /\ Owed(d, TRUE, Rest')
    BY <1>1, <2>3
  <2> QED
    BY <1>1, <2>1, <2>2, <2>3, <2>4, CallKept
<1> QED
  BY <1>3, <1>4, <1>5 DEF Matching

-----------------------------------------------------------------------------
(* request_header                                                          *)

LEMMA HeaderFacts ==
  ASSUME IInv, Kept, Parsing(1), buf # <<>>
  PROVE  /\ conn \in Clean /\ conn \in GoodConn /\ conn \in Conn /\ ~Dropped(conn)
         /\ conn.block \in Block /\ conn.block.state = REQUEST_HEADER
         /\ HeaderPart(Rest, conn.block.length, conn.block.boundary)
         /\ conn.waiting /\ ~Shut(conn) /\ conn.block.route # NoRoute
         /\ buf \in Seq(Unit) /\ net \in Seq(Unit) /\ bufpos \in Nat /\ Rest \in Seq(Unit)
         /\ buf[1] \in Unit /\ ~Is(conn, "REQUEST_CHUNKED")
<1>1. pc = "parse" /\ conn.block.state = REQUEST_HEADER
  BY KeptReads, ParsingState DEF Parsing
<1>2. conn.block.state # REQUEST_BEGIN
  BY <1>1, StatesApart
<1>3. /\ conn \in Clean /\ conn.waiting /\ ~Shut(conn) /\ conn.block.route # NoRoute
      /\ Expects(conn, FALSE, Rest) /\ buf[1] \in Unit /\ ~Dropped(conn)
  BY <1>1, <1>2, ParsingFacts
<1> QED
  BY <1>1, <1>3, KeptFacts DEF Expects, Clean, Sound

LEMMA HeaderAwaitKept == ASSUME Orderly, IInv, Kept, HeaderAwait PROVE Kept'
<1>1. /\ Parsing(1) /\ buf # <<>> /\ AwaitLine(conn) /\ pc = "parse"
      /\ later' = later /\ Rest' = Rest
  BY DEF HeaderAwait, Parsing, AwaitLine, Rest
<1>2. conn \in Clean /\ ~Dropped(conn) /\ conn.block.state = REQUEST_HEADER
  BY <1>1, HeaderFacts
<1>3. CASE \E d \in Reject(conn) : ReturnTrue(d)
  BY <1>1, <1>2, <1>3, RejectKept
<1>4. CASE ReturnTrue(conn)
  <2>1. Goto(conn, "done")
    BY <1>2, <1>4 DEF ReturnTrue, Dropped
  <2>2. Expects(conn, FALSE, Rest') /\ Owed(conn, FALSE, Rest')
    BY <1>1, ParsingFacts DEF Owed
  <2> QED
    BY <1>1, <1>2, <2>1, <2>2, GotoKept
<1> QED
  BY <1>1, <1>3, <1>4 DEF AwaitLine

\* The blank line: the body follows, as long as it was said to be, or nothing.
LEMMA HeaderEndKept == ASSUME Orderly, IInv, Kept, HeaderEnd PROVE Kept'
<1>1. /\ Parsing(1) /\ buf # <<>> /\ HasLine /\ LineKind(buf) = "blank"
      /\ Consume(LineEnd(buf)) /\ UNCHANGED <<call, net, later>>
  BY DEF HeaderEnd, Parsing
<1>2. /\ conn \in Clean /\ conn \in GoodConn /\ conn \in Conn /\ ~Dropped(conn)
      /\ conn.block \in Block /\ conn.block.state = REQUEST_HEADER
      /\ HeaderPart(Rest, conn.block.length, conn.block.boundary)
      /\ conn.waiting /\ ~Shut(conn) /\ conn.block.route # NoRoute
      /\ buf \in Seq(Unit) /\ net \in Seq(Unit) /\ bufpos \in Nat /\ Rest \in Seq(Unit)
      /\ ~Is(conn, "REQUEST_CHUNKED")
  BY <1>1, HeaderFacts
<1>3. LineEnd(buf) = 1 /\ 1 <= Len(buf) /\ Rest[1].k = "crlf"
  BY <1>1, <1>2, LineFacts
<1>4. Rest' = Behind(Rest, 1) /\ 1 <= Len(Rest)
  BY <1>1, <1>2, <1>3, ConsumeRest
<1>5. Sized(Rest, 1, conn.block.length)
  BY <1>2, <1>3, HeaderPartBlank
<1> DEFINE r == Behind(Rest, 1)
           st == IF conn.block.length # SIZE_MAX THEN REQUEST_BODY ELSE RESPONSE_BEGIN
           d == [conn EXCEPT !.block.state = st]
<1>6. r \in Seq(Unit) /\ Len(r) = Len(Rest) - 1 /\ \A i \in DOMAIN r : r[i].k = "data"
  <2>1. /\ r \in Seq(Unit) /\ Len(r) = Len(Rest) - 1
        /\ \A i \in 1..(Len(Rest) - 1) : r[i] = Rest[1 + i]
    BY <1>2, <1>4, BehindFacts
  <2> HIDE DEF r
  <2>2. ASSUME NEW i \in DOMAIN r PROVE r[i].k = "data"
    <3>1. i \in 1..(Len(Rest) - 1)
      BY <2>1
    <3>2. 1 + i \in (1 + 1)..Len(Rest)
      BY <1>2, <3>1
    <3> QED
      BY <1>5, <2>1, <3>1, <3>2 DEF Sized
  <2> QED
    BY <2>1, <2>2
<1> HIDE DEF r
<1>7. /\ conn.block.length # SIZE_MAX => conn.block.length = Len(r)
      /\ conn.block.length = SIZE_MAX => r = <<>>
  <2>1. conn.block.length = SIZE_MAX => ~(Len(Rest) > 1)
    BY <1>5 DEF Sized
  <2>2. conn.block.length = SIZE_MAX => Len(r) = 0
    BY <1>2, <1>4, <1>6, <2>1
  <2>3. conn.block.length # SIZE_MAX => conn.block.length = Len(Rest) - 1
    BY <1>5 DEF Sized
  <2> QED
    BY <1>6, <2>2, <2>3, EmptySeq
<1>8. Goto(d, "parse")
  BY <1>2 DEF HeaderEnd, Is
<1>9. st \in SessState /\ st \in {REQUEST_BODY, RESPONSE_BEGIN}
  BY DEF SessState
<1>10. /\ conn.block.length # SIZE_MAX => st = REQUEST_BODY
       /\ conn.block.length = SIZE_MAX => st = RESPONSE_BEGIN
  OBVIOUS
<1> HIDE DEF st
<1>11. /\ d \in GoodConn /\ d.block.state = st /\ d.block.length = conn.block.length
       /\ d.block.route = conn.block.route /\ d.block.flags = conn.block.flags
       /\ d.block.boundary = conn.block.boundary /\ d.heap = conn.heap
       /\ d.waiting = conn.waiting /\ d.fault = conn.fault /\ d.sock = conn.sock
  BY <1>2, <1>9 DEF GoodConn, Conn, Block, Marked
<1> HIDE DEF d
<1>12. Sound(d) /\ Fresh(d) /\ ~Dropped(d)
  BY <1>2, <1>9, <1>11, StatesApart DEF Clean, Sound, Fresh, Is, Shut, Dropped
<1>13. Expects(d, FALSE, r)
  <2>1. CASE conn.block.length = SIZE_MAX
    BY <1>7, <1>10, <1>11, <2>1, StatesApart DEF Expects
  <2>2. CASE conn.block.length # SIZE_MAX
    BY <1>6, <1>7, <1>10, <1>11, <2>2, StatesApart DEF Expects, Answering
  <2> QED
    BY <2>1, <2>2
<1>14. Owed(d, FALSE, r)
  BY <1>2, <1>11 DEF Owed, Shut
<1>15. d \in Clean /\ Expects(d, FALSE, Rest') /\ Owed(d, FALSE, Rest')
  BY <1>4, <1>11, <1>12, <1>13, <1>14 DEF Clean, r
<1> QED
  BY <1>1, <1>8, <1>12, <1>15, GotoKept

LEMMA HeaderRejectKept == ASSUME Orderly, IInv, Kept, HeaderReject PROVE Kept'
<1>1. Parsing(1) /\ buf # <<>> /\ later' = later /\ \E d \in Reject(conn) : ReturnTrue(d)
  BY DEF HeaderReject, Parsing
<1> QED
  BY <1>1, HeaderFacts, RejectKept

\* What a header line that announces no chunks does to a request that is read.
LEMMA EffectFacts ==
  ASSUME NEW c \in Clean, c.block.state = REQUEST_HEADER, NEW u \in Unit, u.k \in LineStart,
         u.k = "multipart" => ~c.block.boundary
  PROVE  /\ Effect(c, u) \in GoodConn /\ Sound(Effect(c, u))
         /\ Effect(c, u).block.state = REQUEST_HEADER
         /\ Effect(c, u).block.route = c.block.route
         /\ Effect(c, u).block.length = IF u.k = "length" THEN LengthOf(u.n) ELSE c.block.length
         /\ Effect(c, u).block.boundary = (c.block.boundary \/ u.k = "multipart")
         /\ Effect(c, u).waiting = c.waiting /\ Effect(c, u).sock = c.sock
<1> DEFINE d == Effect(c, u)
<1>1. /\ c \in GoodConn /\ c \in Conn /\ c.block \in Block /\ c.heap \in Int
      /\ c.block.boundary \in BOOLEAN /\ Sound(c) /\ ~Is(c, "REQUEST_CHUNKED")
  BY DEF Clean, Sound, GoodConn, Conn, Block
<1>2. d \in GoodConn
  BY <1>1, EffectGood
<1>3. /\ d.block.state = REQUEST_HEADER /\ d.block.route = c.block.route
      /\ d.block.length = IF u.k = "length" THEN LengthOf(u.n) ELSE c.block.length
      /\ d.block.boundary = (c.block.boundary \/ u.k = "multipart")
      /\ "REQUEST_CHUNKED" \notin d.block.flags
      /\ "RESPONSE_CHUNKED" \in d.block.flags => "RESPONSE_CHUNKED" \in c.block.flags
      /\ d.heap = IF u.k = "multipart" THEN c.heap + 1 ELSE c.heap
      /\ d.waiting = c.waiting /\ d.fault = c.fault /\ d.sock = c.sock
  <2>1. CASE u.k = "close"
    BY <1>1, <2>1 DEF Effect, Is, Conn, Block
  <2>2. CASE u.k = "keepalive"
    BY <1>1, <2>2 DEF Effect, Is, Conn, Block
  <2>3. CASE u.k = "length"
    BY <1>1, <2>3 DEF Effect, Is, Conn, Block
  <2>4. CASE u.k = "multipart"
    <3>1. d = [c EXCEPT !.block.boundary = TRUE, !.heap = @ + 1]
      BY <2>4 DEF Effect
    <3> HIDE DEF d
    <3> QED
      BY <1>1, <2>4, <3>1 DEF Is, Conn, Block
  <2>5. CASE u.k = "header"
    BY <1>1, <2>5 DEF Effect, Is, Conn, Block
  <2> QED
    BY <2>1, <2>2, <2>3, <2>4, <2>5 DEF LineStart
<1> HIDE DEF d
<1>4. Sound(d)
  <2>1. c.heap = IF c.block.boundary THEN 1 ELSE 0
    BY <1>1 DEF Sound
  <2>2. d.heap = IF d.block.boundary THEN 1 ELSE 0
    <3>1. CASE u.k = "multipart"
      <4>1. d.block.boundary = TRUE
        BY <1>3, <3>1
      <4>2. c.heap = 0
        BY <2>1, <3>1
      <4>3. d.heap = c.heap + 1
        BY <1>3, <3>1
      <4> QED
        BY <4>1, <4>2, <4>3
    <3>2. CASE u.k # "multipart"
      BY <1>1, <1>3, <2>1, <3>2
    <3> QED
      BY <3>1, <3>2
  <2>3. ~Shut(d)
    BY <1>1, <1>3, StatesApart DEF Sound, Shut
  <2>4. Is(d, "RESPONSE_CHUNKED") => Chunks
    BY <1>1, <1>3 DEF Sound, Is
  <2>5. Steady => d.fault = "none"
    BY <1>1, <1>3 DEF Sound
  <2> QED
    BY <1>3, <2>2, <2>3, <2>4, <2>5, StatesApart DEF Sound, Is, Answering
<1> QED
  BY <1>2, <1>3, <1>4 DEF d

LEMMA HeaderLineKept == ASSUME Orderly, IInv, Kept, HeaderLine PROVE Kept'
<1>1. /\ Parsing(1) /\ buf # <<>> /\ HasLine /\ LineKind(buf) \in {"multipart"} \cup HeaderKind
      /\ CallHandler(Effect(conn, buf[1]), "header")
      /\ Consume(LineEnd(buf)) /\ UNCHANGED <<net, later>>
  BY DEF HeaderLine, Parsing
<1>2. /\ conn \in Clean /\ conn \in GoodConn /\ conn \in Conn /\ ~Dropped(conn)
      /\ conn.block \in Block /\ conn.block.state = REQUEST_HEADER
      /\ HeaderPart(Rest, conn.block.length, conn.block.boundary)
      /\ conn.waiting /\ ~Shut(conn) /\ conn.block.route # NoRoute
      /\ buf \in Seq(Unit) /\ net \in Seq(Unit) /\ bufpos \in Nat /\ Rest \in Seq(Unit)
      /\ buf[1] \in Unit
  BY <1>1, HeaderFacts
<1>3. /\ LineEnd(buf) = 2 /\ LineKind(buf) = Rest[1].k /\ buf[1] = Rest[1]
      /\ Len(Rest) >= 2 /\ Rest[2].k = "crlf" /\ 2 <= Len(buf)
  <2>1. LineKind(buf) \notin {"blank", "junk"}
    BY <1>1 DEF HeaderKind
  <2> QED
    BY <1>1, <1>2, <2>1, LineFacts
<1>4. Rest' = Behind(Rest, 2)
  BY <1>1, <1>2, <1>3, ConsumeRest
<1> DEFINE u == buf[1]
           length == IF u.k = "length" THEN LengthOf(u.n) ELSE conn.block.length
           boundary == conn.block.boundary \/ u.k = "multipart"
           d == Effect(conn, u)
<1>5. u.k \in LineStart /\ (u.k = "multipart" => ~conn.block.boundary)
      /\ HeaderPart(Behind(Rest, 2), length, boundary)
  <2>1. Rest[1].k \notin {"crlf"} \cup BadLine
    BY <1>1, <1>3 DEF HeaderKind, BadLine
  <2>2. conn.block.length \in Nat \cup {SIZE_MAX} /\ conn.block.boundary \in BOOLEAN
    BY <1>2 DEF Block
  <2> QED
    BY <1>2, <1>3, <2>1, <2>2, HeaderPartLine
<1> HIDE DEF u
<1>6. /\ d \in GoodConn /\ Sound(d) /\ d.block.state = REQUEST_HEADER
      /\ d.block.route = conn.block.route /\ d.block.length = length
      /\ d.block.boundary = boundary /\ d.waiting = conn.waiting /\ d.sock = conn.sock
  BY <1>2, <1>5, EffectFacts DEF u
<1>7. CallHandler(d, "header")
  BY <1>1 DEF u
<1> HIDE DEF length, boundary, d
<1>8. Expects(d, FALSE, Rest') /\ Owed(d, FALSE, Rest')
  <2>1. Expects(d, FALSE, Behind(Rest, 2)) /\ Owed(d, FALSE, Behind(Rest, 2))
    BY <1>2, <1>5, <1>6, StatesApart DEF Expects, Owed, Shut, Answering
  <2> QED
    BY <1>4, <2>1
<1>9. ~Dropped(d) /\ d.block.route # NoRoute
  BY <1>2, <1>6 DEF Dropped
<1> QED
  BY <1>1, <1>6, <1>7, <1>8, <1>9, CallKept

\* A second boundary is none, so what strdup's failure forgets was not there.
LEMMA HeaderNoMemoryKept == ASSUME Orderly, IInv, Kept, HeaderNoMemory PROVE Kept'
<1>1. /\ Parsing(1) /\ buf # <<>> /\ HasLine /\ LineKind(buf) = "multipart" /\ later' = later
      /\ \E d \in Reject([conn EXCEPT !.block.boundary = FALSE]) : ReturnTrue(d)
  BY DEF HeaderNoMemory, Parsing
<1>2. /\ conn \in Clean /\ conn \in Conn /\ conn.block \in Block
      /\ conn.block.state = REQUEST_HEADER
      /\ HeaderPart(Rest, conn.block.length, conn.block.boundary)
      /\ buf \in Seq(Unit) /\ net \in Seq(Unit) /\ Rest \in Seq(Unit)
  BY <1>1, HeaderFacts
<1>3. Rest[1].k = "multipart" /\ Len(Rest) >= 2 /\ Rest[2].k = "crlf"
  BY <1>1, <1>2, LineFacts
<1>4. ~conn.block.boundary
  <2>1. conn.block.length \in Nat \cup {SIZE_MAX} /\ conn.block.boundary \in BOOLEAN
    BY <1>2 DEF Block
  <2> QED
    BY <1>2, <1>3, <2>1, HeaderPartLine DEF BadLine
<1>5. [conn EXCEPT !.block.boundary = FALSE] = conn
  BY <1>2, <1>4 DEF Conn, Block
<1> QED
  BY <1>1, <1>2, <1>5, RejectKept

LEMMA RequestHeaderKept == ASSUME Orderly, IInv, Kept, RequestHeader PROVE Kept'
BY HeaderAwaitKept, HeaderEndKept, HeaderRejectKept, HeaderLineKept, HeaderNoMemoryKept
   DEF RequestHeader

-----------------------------------------------------------------------------
(* request_body                                                            *)

LEMMA LengthFacts ==
  ASSUME NEW c \in Conn, NEW rest \in Seq(Unit), c.block.length = Len(rest)
  PROVE  c.block.length \in Nat /\ c.block.length # SIZE_MAX
BY DEF SIZE_MAX

LEMMA RequestBodyKept == ASSUME Orderly, IInv, Kept, RequestBody PROVE Kept'
<1>1. Parsing(2) /\ buf # <<>> /\ pc = "parse"
  BY DEF RequestBody, ChunkBreak, ChunkSize, ChunkReject, ChunkLine, BodyAwait, BodyData, Parsing
<1>2. conn.block.state = REQUEST_BODY
  BY <1>1, KeptReads, ParsingState
<1>3. conn.block.state # REQUEST_BEGIN
  BY <1>2, StatesApart
<1>4. /\ conn \in Clean /\ conn \in GoodConn /\ conn \in Conn /\ ~Dropped(conn)
      /\ Expects(conn, FALSE, Rest) /\ conn.waiting /\ ~Shut(conn)
      /\ conn.block.route # NoRoute /\ Sound(conn) /\ ~Is(conn, "REQUEST_CHUNKED")
  BY <1>1, <1>3, ParsingFacts DEF Clean, Sound
<1>5. BodyData
  BY <1>4 DEF RequestBody, ChunkBreak, ChunkSize, ChunkReject, ChunkLine, BodyAwait
<1>6. buf \in Seq(Unit) /\ Rest \in Seq(Unit) /\ conn.block.length = Len(Rest)
  BY <1>1, <1>2, <1>4, KeptFacts DEF Expects
<1>7. conn.block.length \in Nat /\ conn.block.length # SIZE_MAX /\ Len(buf) \in Nat
  BY <1>4, <1>6, LengthFacts
<1> DEFINE n == Least(Len(buf), conn.block.length)
           d == [conn EXCEPT !.chunkLen = n]
<1>8. n \in Nat
  BY <1>7 DEF Least
<1>9. Remaining(conn) = conn.block.length
  BY <1>4, <1>7 DEF Remaining
<1>10. /\ CallHandler(d, "body") /\ later' = later /\ Rest' = Rest /\ Len(buf') = Len(buf)
  BY <1>5, <1>9 DEF BodyData, Rest
<1> HIDE DEF n
<1>11. /\ d \in GoodConn /\ d.block = conn.block /\ d.heap = conn.heap /\ d.chunkLen = n
       /\ d.waiting = conn.waiting /\ d.fault = conn.fault /\ d.sock = conn.sock
  BY <1>4, <1>8 DEF GoodConn, Conn, Marked
<1> HIDE DEF d
<1>12. Sound(d) /\ ~Dropped(d)
  BY <1>4, <1>11 DEF Sound, Is, Shut, Dropped
<1>13. Expects(d, FALSE, Rest) /\ Owed(d, FALSE, Rest)
  BY <1>4, <1>11 DEF Expects, Owed, Shut
<1>14. Expects(d, FALSE, Rest') /\ Owed(d, FALSE, Rest')
  BY <1>10, <1>13
<1>15. n <= n
  BY <1>8
<1>16. d.chunkLen <= Least(Len(buf'), d.block.length)
  BY <1>10, <1>11, <1>15 DEF n
<1> QED
  BY <1>2, <1>4, <1>10, <1>11, <1>12, <1>14, <1>16, CallKept

-----------------------------------------------------------------------------
(* The handler's steps and its returns.                                    *)

\* A call is in its state, and its connection sound.
LEMMA CallUnderWay ==
  ASSUME IInv, Kept, pc = "handler"
  PROVE  /\ Allowed(conn, call, Len(buf)) /\ call \in Call
         /\ conn \in GoodConn /\ conn \in Conn /\ Sound(conn)
         /\ call.by \in {"begin", "begin404", "header", "body", "response"}
BY KeptFacts DEF Kept, Placed, Allowed, Call, Caller

\* Only a response is left to its handler's operations, and a body to be received.
LEMMA HandlerOpKept == ASSUME Orderly, IInv, Kept, HandlerOp PROVE Kept'
<1>1. /\ pc = "handler" /\ call.ops # <<>> /\ call' = [call EXCEPT !.ops = Tail(@)]
      /\ UNCHANGED <<buf, bufpos, net, later>> /\ Rest' = Rest /\ Len(buf') = Len(buf)
  BY DEF HandlerOp, Rest
<1>2. PICK d \in SessionOp(conn, Head(call.ops)) : Goto(d, "handler")
  BY DEF HandlerOp
<1>3. /\ Allowed(conn, call, Len(buf)) /\ call \in Call /\ call.by \in {"body", "response"}
      /\ conn \in GoodConn /\ conn \in Conn
  BY <1>1, CallUnderWay DEF Allowed
<1>4. conn \in Clean /\ Asking = FALSE /\ Asking' = FALSE
  <2>1. call'.by = call.by
    BY <1>1, <1>3 DEF Call
  <2>2. Asking = FALSE
    BY <1>1, <1>3 DEF Asking
  <2>3. pc' \in {"handler", "halted"}
    BY <1>2 DEF Goto
  <2>4. Asking' = FALSE
    BY <1>3, <2>1, <2>3 DEF Asking
  <2> QED
    BY <1>1, <2>2, <2>4, KeptFacts
<1>5. call'.by = call.by /\ call'.status = call.status /\ call'.ops = Tail(call.ops)
  BY <1>1, <1>3 DEF Call
<1>6. /\ Head(call.ops) = "chunked" => Chunks
      /\ \A i \in DOMAIN call'.ops : call'.ops[i] = "chunked" => Chunks
  <2>1. call.ops \in Seq(Op) /\ \A i \in 1..Len(call.ops) : call.ops[i] = "chunked" => Chunks
    BY <1>3 DEF Allowed, Call
  <2>2. 1 \in 1..Len(call.ops) /\ Head(call.ops) = call.ops[1]
    BY <1>1, <2>1, EmptySeq
  <2>3. ASSUME NEW i \in DOMAIN Tail(call.ops), Tail(call.ops)[i] = "chunked" PROVE Chunks
    <3>1. i + 1 \in 1..Len(call.ops) /\ Tail(call.ops)[i] = call.ops[i + 1]
      BY <1>1, <2>1, <2>2
    <3> QED
      BY <2>1, <2>3, <3>1
  <2> QED
    BY <1>5, <2>1, <2>2, <2>3
<1>7. d \in After(conn) /\ d \in Clean /\ conn' = d /\ pc' \in {"handler", "halted"}
  BY <1>2, <1>4, <1>6, SessionOpAfter, AfterClean DEF Goto
<1>8. CASE call.by = "body"
  <2>1. /\ conn.block.state = REQUEST_BODY /\ call.ops \in Seq({"recv", "recv1"})
        /\ call.status = "NEXT" /\ conn.chunkLen <= Least(Len(buf), conn.block.length)
    BY <1>3, <1>8 DEF Allowed
  <2>2. Head(call.ops) \in {"recv", "recv1"} /\ Tail(call.ops) \in Seq({"recv", "recv1"})
    BY <1>1, <2>1
  <2>3. PICK len \in Nat : d = HttpRecv(conn, len)
    <3>1. conn.chunkLen \in Nat /\ 1 \in Nat
      BY <1>3 DEF Conn
    <3> QED
      BY <1>2, <2>2, <3>1 DEF SessionOp
  <2>4. /\ d.block = conn.block /\ d.waiting = conn.waiting /\ d.sock = conn.sock
        /\ d.chunkLen \in Nat /\ d.chunkLen <= conn.chunkLen
    BY <1>3, <1>4, <2>3, HttpRecvAfter DEF HttpRecv, Conn
  <2>5. ~Dropped(conn) /\ ~Dropped(d) /\ Live
    BY <1>1, <1>8, <2>4 DEF Kept, Placed, Dropped, Live
  <2>6. Expects(d, FALSE, Rest) /\ Owed(d, FALSE, Rest)
    BY <1>4, <2>4, <2>5 DEF Kept, Expects, Owed, Shut
  <2>7. Expects(d, Asking', Rest') /\ Owed(d, Asking', Rest')
    BY <1>1, <1>4, <2>6
  <2>8. d.chunkLen <= Least(Len(buf), d.block.length)
    <3>1. /\ conn.block.length = Len(Rest) /\ Rest \in Seq(Unit) /\ buf \in Seq(Unit)
          /\ conn.chunkLen \in Nat
      BY <1>1, <1>3, <2>1, <2>4, <2>6, KeptFacts DEF Expects, Conn
    <3> QED
      BY <2>1, <2>4, <3>1 DEF Least
  <2>9. Allowed(d, call', Len(buf))
    BY <1>5, <1>6, <1>8, <2>1, <2>2, <2>4, <2>8 DEF Allowed
  <2>10. Placed'
    BY <1>1, <1>7, <2>5, <2>9 DEF Placed
  <2> QED
    BY <1>1, <1>7, <2>5, <2>7, <2>10, MovesOn
<1>9. CASE call.by = "response"
  <2>1. /\ conn.block.state \in Answering \cup {REQUEST_BEGIN}
        /\ d.block.state \in Answering \cup {REQUEST_BEGIN}
        /\ d.block.state = conn.block.state \/ d.block.state = REQUEST_BEGIN
    BY <1>3, <1>7, <1>9 DEF Allowed, After
  <2>2. Placed'
    BY <1>1, <1>5, <1>6, <1>7, <1>9, <2>1 DEF Placed, Allowed
  <2>3. d.block.state \in Answering /\ SendFaults = {} => Rest' = <<>>
    BY <1>1, <2>1, StatesApart DEF Kept, Answering
  <2>4. CASE Dropped(d)
    BY <1>1, <1>4, <1>7, <2>2, <2>3, <2>4 DEF Kept, Clean, Live
  <2>5. CASE ~Dropped(d)
    <3>1. ~Dropped(conn) /\ Live
      BY <1>1, <1>7, <2>5 DEF After, Live
    <3>2. Expects(conn, FALSE, Rest) /\ Owed(conn, FALSE, Rest)
      BY <1>4, <3>1 DEF Kept
    <3>3. CASE conn.block.state = REQUEST_BEGIN
      <4>1. d.block = conn.block /\ d.waiting = conn.waiting /\ d.sock = conn.sock
        BY <1>2, <1>4, <3>1, <3>3, SessionOpIdle
      <4>2. Expects(d, FALSE, Rest) /\ Owed(d, FALSE, Rest)
        BY <3>2, <4>1 DEF Expects, Owed, Shut
      <4>3. Expects(d, Asking', Rest') /\ Owed(d, Asking', Rest')
        BY <1>1, <1>4, <4>2
      <4> QED
        BY <1>1, <1>7, <2>2, <2>5, <4>3, MovesOn
    <3>4. CASE conn.block.state # REQUEST_BEGIN
      <4>1. Rest = <<>>
        BY <2>1, <3>2, <3>4 DEF Expects
      <4>2. Expects(d, FALSE, Rest)
        BY <2>1, <4>1, StatesApart DEF Expects, Answering
      <4>3. Owed(d, FALSE, Rest)
        BY <1>7, <2>1, <2>5, <4>1, StatesApart DEF Owed, Clean, Sound, Answering
      <4>4. Expects(d, Asking', Rest') /\ Owed(d, Asking', Rest')
        BY <1>1, <1>4, <4>2, <4>3
      <4> QED
        BY <1>1, <1>7, <2>2, <2>5, <4>4, MovesOn
    <3> QED
      BY <3>3, <3>4
  <2> QED
    BY <2>4, <2>5
<1> QED
  BY <1>3, <1>8, <1>9

\* The search found a handler: the headers follow, or for HTTP/0.9 the answer.
LEMMA AcceptedKept ==
  ASSUME IInv, Kept, Asking, conn.block.route # NoRoute, Goto(Accepted(conn), "parse"),
         Rest' = Rest, later' = later
  PROVE  Kept'
<1> DEFINE st == IF conn.block.version = 0 THEN RESPONSE_BEGIN ELSE REQUEST_HEADER
           d == Accepted(conn)
<1>1. /\ conn \in GoodConn /\ conn \in Conn /\ Sound(conn) /\ ~Dropped(conn)
      /\ conn.block \in Block /\ conn.block.state = REQUEST_BEGIN
      /\ Expects(conn, TRUE, Rest) /\ conn.waiting /\ ~Shut(conn)
  BY AskingFacts
<1>2. /\ conn.block.version = 0 => st = RESPONSE_BEGIN /\ Rest = <<>>
      /\ conn.block.version # 0 =>
           st = REQUEST_HEADER /\ HeaderPart(Rest, conn.block.length, conn.block.boundary)
  BY <1>1 DEF Expects
<1>3. st \in {RESPONSE_BEGIN, REQUEST_HEADER}
  OBVIOUS
<1>4. d.block = [conn.block EXCEPT !.state = st] /\ d.heap = conn.heap
      /\ d.waiting = conn.waiting /\ d.fault = conn.fault /\ d.sock = conn.sock
  BY <1>1 DEF Accepted, Conn
<1> HIDE DEF st
<1>5. /\ d.block.state = st /\ d.block.route = conn.block.route
      /\ d.block.flags = conn.block.flags /\ d.block.length = conn.block.length
      /\ d.block.boundary = conn.block.boundary
  BY <1>1, <1>4 DEF Block
<1>6. d \in GoodConn
  BY <1>1, AcceptedGood
<1>7. Goto(d, "parse")
  OBVIOUS
<1> HIDE DEF d
<1>8. Sound(d) /\ Fresh(d) /\ ~Dropped(d)
  BY <1>1, <1>3, <1>4, <1>5, StatesApart DEF Sound, Fresh, Is, Shut, Dropped
<1>9. Expects(d, FALSE, Rest)
  <2>1. CASE conn.block.version = 0
    BY <1>2, <1>5, <2>1, StatesApart DEF Expects
  <2>2. CASE conn.block.version # 0
    BY <1>2, <1>5, <2>2, StatesApart DEF Expects, Answering
  <2> QED
    BY <2>1, <2>2
<1>10. Owed(d, FALSE, Rest)
  BY <1>1, <1>4, <1>5 DEF Owed, Shut
<1>11. d \in Clean /\ Expects(d, FALSE, Rest') /\ Owed(d, FALSE, Rest')
  BY <1>6, <1>8, <1>9, <1>10 DEF Clean
<1> QED
  BY <1>7, <1>8, <1>11, GotoKept

LEMMA ReturnToBeginKept == ASSUME Orderly, IInv, Kept, ReturnToBegin PROVE Kept'
<1>1. /\ pc = "handler" /\ call.by = "begin" /\ Asking /\ Rest' = Rest /\ later' = later
  BY DEF ReturnToBegin, Returns, Asking, Rest
<1>2. /\ conn \in GoodConn /\ conn \in Conn /\ Sound(conn) /\ ~Dropped(conn)
      /\ conn.block \in Block /\ conn.block.state = REQUEST_BEGIN
      /\ Expects(conn, TRUE, Rest) /\ Owed(conn, TRUE, Rest)
  BY <1>1, AskingFacts
<1>3. /\ conn.block.route # NoRoute /\ call.status \in RouteStatus
      /\ call.status \in {"FOUND", "NOT_FOUND", "ERROR", "CLOSE", "MORE"}
  BY <1>1, CallUnderWay DEF Allowed, Call
<1>4. ReturnedStatus(conn, call.status) = call.status
  BY <1>2 DEF ReturnedStatus, REQUEST_BEGIN
<1>5. PICK d \in AfterStatus(conn, call.status) :
        CASE call.status = "FOUND" ->
               IF d.block.route = NoRoute THEN Goto(d, "match")
               ELSE Goto(Accepted(d), "parse")
          [] call.status = "NOT_FOUND" -> Goto(NextRoute(d), "match")
          [] OTHER -> ReturnTrue(d)
  BY <1>4 DEF ReturnToBegin
<1>6. d = IF call.status \in {"ERROR", "CLOSE", "MORE"} THEN PendClose(conn) ELSE conn
  BY <1>2, <1>3, <1>5, AfterStatusIdle
<1>7. CASE call.status = "FOUND"
  BY <1>1, <1>3, <1>5, <1>6, <1>7, AcceptedKept
<1>8. CASE call.status = "NOT_FOUND"
  <2> DEFINE r == IF conn.block.route < NRoutes THEN conn.block.route + 1 ELSE NoRoute
             e == [conn EXCEPT !.block.route = r]
  <2>1. r \in 0..R404
    BY <1>2, HttpConstants DEF Block, NoRoute, R404
  <2>2. Goto(e, "match")
    BY <1>2, <1>3, <1>5, <1>6, <1>8, NextRouteOf
  <2> HIDE DEF r
  <2>3. /\ e \in GoodConn /\ Sound(e) /\ ~Dropped(e) /\ e.block.state = REQUEST_BEGIN
        /\ e.block.route = r /\ Expects(e, TRUE, Rest) /\ Owed(e, TRUE, Rest)
    BY <1>2, <2>1, RouteAlike
  <2> HIDE DEF e
  <2>4. Expects(e, TRUE, Rest') /\ Owed(e, TRUE, Rest')
    BY <1>1, <2>3
  <2> QED
    BY <1>1, <2>2, <2>3, <2>4, MatchKept
<1>9. CASE call.status \in {"ERROR", "CLOSE", "MORE"}
  <2>1. d = PendClose(conn) /\ ReturnTrue(d)
    BY <1>5, <1>6, <1>9
  <2>2. d \in Clean /\ Dropped(d) /\ d.block = conn.block
    BY <1>2, <2>1, PendCloseSound
  <2>3. conn' = d /\ pc' \in {"select", "halted"}
    BY <2>1, <2>2 DEF ReturnTrue, Goto, Dropped
  <2>4. d.block.state \notin Answering
    BY <1>2, <2>2, StatesApart DEF Answering
  <2> QED
    BY <1>1, <2>2, <2>3, <2>4, GivenUp
<1> QED
  BY <1>3, <1>7, <1>8, <1>9

LEMMA ReturnToLastResortKept == ASSUME Orderly, IInv, Kept, ReturnToLastResort PROVE Kept'
<1>1. /\ pc = "handler" /\ call.by = "begin404" /\ Asking /\ Rest' = Rest /\ later' = later
  BY DEF ReturnToLastResort, Returns, Asking, Rest
<1>2. conn.block.state = REQUEST_BEGIN
  BY <1>1, AskingFacts
<1>3. conn.block.route # NoRoute /\ call.status = "FOUND" /\ call.status \in RouteStatus
  BY <1>1, CallUnderWay DEF Allowed, Call
<1>4. PICK d \in AfterStatus(conn, call.status) : Goto(Accepted(d), "parse")
  BY DEF ReturnToLastResort
<1>5. d = conn
  BY <1>2, <1>3, <1>4, AfterStatusIdle
<1> QED
  BY <1>1, <1>3, <1>4, <1>5, AcceptedKept

LEMMA ReturnToHeaderKept == ASSUME Orderly, IInv, Kept, ReturnToHeader PROVE Kept'
<1>1. /\ pc = "handler" /\ call.by = "header" /\ Asking = FALSE /\ Rest' = Rest
      /\ later' = later
  BY DEF ReturnToHeader, Returns, Asking, Rest
<1>2. conn.block.state = REQUEST_HEADER /\ call.status = "NEXT"
  BY <1>1, CallUnderWay DEF Allowed
<1>3. Goto(conn, "parse")
  BY <1>2, AfterNextReading DEF ReturnToHeader
<1>4. conn \in Clean /\ ~Dropped(conn) /\ Live
  <2>1. ~Dropped(conn)
    BY <1>1 DEF Kept, Placed
  <2> QED
    BY <1>1, <2>1, KeptFacts DEF Live
<1>5. Expects(conn, FALSE, Rest') /\ Owed(conn, FALSE, Rest')
  BY <1>1, <1>4 DEF Kept
<1> QED
  BY <1>1, <1>3, <1>4, <1>5, GotoKept

\* What the body's handler read is accounted for in what is left of both the length and
\* the input, and nothing is undefined in it.
LEMMA ReturnToBodyKept == ASSUME Orderly, IInv, Kept, ReturnToBody PROVE Kept'
<1>1. /\ pc = "handler" /\ call.by = "body" /\ Asking = FALSE
      /\ UNCHANGED <<net, later>>
  BY DEF ReturnToBody, Returns, Asking
<1>2. /\ conn.block.state = REQUEST_BODY /\ call.status = "NEXT"
      /\ conn.chunkLen <= Least(Len(buf), conn.block.length)
  BY <1>1, CallUnderWay DEF Allowed
<1>3. BodyTail(conn)
  BY <1>2, AfterNextReading DEF ReturnToBody
<1>4. conn \in Clean /\ ~Dropped(conn) /\ Live
  <2>1. ~Dropped(conn)
    BY <1>1 DEF Kept, Placed
  <2> QED
    BY <1>1, <2>1, KeptFacts DEF Live
<1>5. /\ conn \in GoodConn /\ conn \in Conn /\ conn.block \in Block /\ conn.chunkLen \in Nat
      /\ buf \in Seq(Unit) /\ net \in Seq(Unit) /\ bufpos \in Nat /\ Rest \in Seq(Unit)
      /\ Sound(conn) /\ ~Is(conn, "REQUEST_CHUNKED")
  BY <1>1, <1>4, KeptFacts DEF Clean, Sound, Conn
<1>6. /\ conn.block.length = Len(Rest) /\ \A i \in DOMAIN Rest : Rest[i].k = "data"
      /\ conn.waiting /\ ~Shut(conn) /\ conn.block.route # NoRoute
  <2>1. Expects(conn, FALSE, Rest) /\ Owed(conn, FALSE, Rest)
    BY <1>1, <1>4 DEF Kept
  <2> QED
    BY <1>2, <2>1, StatesApart DEF Expects, Owed
<1>7. conn.block.length \in Nat /\ conn.block.length # SIZE_MAX /\ Len(buf) \in Nat
  BY <1>5, <1>6, LengthFacts
<1> DEFINE n == Read(conn)
<1>8. /\ n = Least(Len(buf), conn.block.length) - conn.chunkLen
      /\ n \in Nat /\ n <= Len(buf) /\ n <= conn.block.length
  <2>1. n = Least(Len(buf), conn.block.length) - conn.chunkLen
    BY <1>5, <1>7 DEF Read, Remaining
  <2> HIDE DEF n
  <2> QED
    BY <1>2, <1>5, <1>7, <2>1 DEF Least
<1>9. BodyFault(conn) = conn.fault
  <2>1. ~(Read(conn) < 0)
    BY <1>8
  <2> QED
    BY <1>5, <1>7, <2>1 DEF BodyFault
<1>10. CASE conn.fault # "none"
  <2>1. /\ Goto([conn EXCEPT !.fault = conn.fault], "halted") /\ UNCHANGED <<buf, bufpos>>
    BY <1>3, <1>9, <1>10 DEF BodyTail
  <2>2. conn' = conn /\ pc' = "halted"
    BY <1>5, <2>1 DEF Goto, Conn
  <2>3. conn.block.state \notin Answering
    BY <1>2, StatesApart DEF Answering
  <2> QED
    BY <1>1, <1>5, <2>2, <2>3, HaltKept
<1>11. CASE conn.fault = "none"
  <2> DEFINE d == Account(conn)
             length == conn.block.length - n
             st == IF n = conn.block.length THEN RESPONSE_BEGIN ELSE conn.block.state
             r == Behind(Rest, n)
  <2>1. /\ Consume(n)
        /\ IF n = Len(buf) THEN ReturnTrue(d) ELSE Goto(d, "parse")
    BY <1>3, <1>9, <1>11 DEF BodyTail
  <2>2. Rest' = r /\ n <= Len(Rest)
    BY <1>1, <1>5, <1>8, <2>1, ConsumeRest
  <2>3. /\ r \in Seq(Unit) /\ Len(r) = Len(Rest) - n
        /\ \A i \in 1..(Len(Rest) - n) : r[i] = Rest[n + i]
    BY <1>5, <1>8, <2>2, BehindFacts
  <2>4. d \in GoodConn
    BY <1>5, <1>7, <1>9, <1>11, AccountGood
  <2>5. d = [conn EXCEPT !.block.length = length, !.block.state = st]
    BY <1>5 DEF Account, Conn, Block
  <2>6. length \in Nat /\ length = Len(r)
    BY <1>6, <1>7, <1>8, <2>3
  <2>7. st \in {RESPONSE_BEGIN, REQUEST_BODY} /\ (st = RESPONSE_BEGIN => length = 0)
    BY <1>2, <1>7, <1>8, StatesApart
  <2> HIDE DEF d, n, length, st, r
  <2>8. /\ d.block.state = st /\ d.block.length = length /\ d.block.route = conn.block.route
        /\ d.block.flags = conn.block.flags /\ d.block.boundary = conn.block.boundary
        /\ d.heap = conn.heap /\ d.waiting = conn.waiting /\ d.fault = conn.fault
        /\ d.sock = conn.sock
    <3>1. d.block = [conn.block EXCEPT !.length = length, !.state = st]
      BY <1>5, <2>5 DEF Conn
    <3>2. /\ d.heap = conn.heap /\ d.waiting = conn.waiting /\ d.fault = conn.fault
          /\ d.sock = conn.sock
      BY <1>5, <2>5 DEF Conn
    <3> QED
      BY <1>5, <3>1, <3>2 DEF Block
  <2>9. Sound(d) /\ Fresh(d) /\ ~Dropped(d)
    BY <1>2, <1>4, <1>5, <1>6, <2>7, <2>8, StatesApart DEF Sound, Fresh, Is, Shut, Dropped
  <2>10. \A i \in DOMAIN r : r[i].k = "data"
    <3> SUFFICES ASSUME NEW i \in DOMAIN r PROVE r[i].k = "data"
      OBVIOUS
    <3>1. i \in 1..(Len(Rest) - n) /\ n + i \in DOMAIN Rest
      BY <1>5, <1>8, <2>3 DEF n
    <3> QED
      BY <1>6, <2>3, <3>1
  <2>11. Expects(d, FALSE, r)
    <3>1. CASE st = RESPONSE_BEGIN
      <4>1. r = <<>>
        BY <2>3, <2>6, <2>7, <3>1, EmptySeq
      <4> QED
        BY <2>8, <3>1, <4>1, StatesApart DEF Expects
    <3>2. CASE st = REQUEST_BODY
      BY <2>6, <2>8, <2>10, <3>2, StatesApart DEF Expects, Answering
    <3> QED
      BY <2>7, <3>1, <3>2
  <2>12. Owed(d, FALSE, r)
    BY <1>6, <2>8 DEF Owed, Shut
  <2>13. d \in Clean /\ Expects(d, FALSE, Rest') /\ Owed(d, FALSE, Rest')
    BY <2>2, <2>4, <2>9, <2>11, <2>12 DEF Clean
  <2>14. Goto(d, "done") \/ Goto(d, "parse")
    BY <2>1, <2>9 DEF ReturnTrue, Dropped
  <2> QED
    BY <1>1, <2>9, <2>13, <2>14, GotoKept
<1> QED
  BY <1>10, <1>11

LEMMA ReturnToWriteKept == ASSUME Orderly, IInv, Kept, ReturnToWrite PROVE Kept'
<1>1. /\ pc = "handler" /\ call.by = "response" /\ Asking = FALSE /\ Rest' = Rest
      /\ UNCHANGED <<buf, bufpos, net, later>>
  BY DEF ReturnToWrite, Returns, Asking, Rest
<1>2. /\ conn \in Clean /\ conn.block.state \in Answering \cup {REQUEST_BEGIN}
      /\ call.status \in RouteStatus
  BY <1>1, KeptFacts, CallUnderWay DEF Allowed, Call
<1>3. PICK d \in AfterStatus(conn, call.status) : Goto(d, "select")
  BY DEF ReturnToWrite
<1>4. conn' = d /\ pc' \in {"select", "halted"}
  BY <1>3 DEF Goto
<1>5. /\ d \in Clean /\ d.block.state \in Answering \cup {REQUEST_BEGIN}
      /\ Dropped(conn) => Dropped(d)
      /\ conn.block.state = REQUEST_BEGIN => d.block = conn.block /\ (d = conn \/ Dropped(d))
  <2>1. CASE conn.block.state \in Answering
    BY <1>2, <1>3, <2>1, AfterStatusClean, StatesApart DEF Answering
  <2>2. CASE conn.block.state = REQUEST_BEGIN
    <3>1. d \in {conn, PendClose(conn)}
      BY <1>2, <1>3, <2>2, AfterStatusIdle
    <3>2. /\ PendClose(conn) \in Clean /\ Dropped(PendClose(conn))
          /\ PendClose(conn).block = conn.block
      BY <1>2, PendCloseSound DEF Clean
    <3> QED
      BY <1>2, <2>2, <3>1, <3>2
  <2> QED
    BY <1>2, <2>1, <2>2
<1>6. d.block.state \in Answering => conn.block.state \in Answering
  BY <1>2, <1>5, StatesApart DEF Answering
<1>7. CASE Dropped(d)
  <2>1. d.block.state \in Answering /\ SendFaults = {} => Rest' = <<>>
    BY <1>1, <1>6 DEF Kept
  <2> QED
    BY <1>1, <1>4, <1>5, <1>7, <2>1, GivenUp
<1>8. CASE ~Dropped(d)
  <2>1. Live
    BY <1>1, <1>5, <1>8 DEF Live
  <2>2. Expects(conn, FALSE, Rest) /\ Owed(conn, FALSE, Rest)
    BY <1>1, <2>1 DEF Kept
  <2>3. Expects(d, FALSE, Rest) /\ Owed(d, FALSE, Rest)
    <3>1. CASE conn.block.state = REQUEST_BEGIN
      BY <1>5, <1>8, <2>2, <3>1
    <3>2. CASE conn.block.state \in Answering
      <4>1. Rest = <<>>
        BY <2>2, <3>2 DEF Expects
      <4>2. Expects(d, FALSE, Rest)
        BY <1>5, <4>1, StatesApart DEF Expects, Answering
      <4>3. Owed(d, FALSE, Rest)
        BY <1>5, <1>8, <4>1, StatesApart DEF Owed, Clean, Sound, Answering
      <4> QED
        BY <4>2, <4>3
    <3> QED
      BY <1>2, <3>1, <3>2
  <2>4. Expects(d, FALSE, Rest') /\ Owed(d, FALSE, Rest')
    BY <1>1, <2>3
  <2> QED
    BY <1>1, <1>3, <1>5, <1>8, <2>4, GotoKept
<1> QED
  BY <1>7, <1>8

LEMMA HandlerKept == ASSUME Orderly, IInv, Kept, Handler PROVE Kept'
BY HandlerOpKept, ReturnToBeginKept, ReturnToLastResortKept, ReturnToHeaderKept,
   ReturnToBodyKept, ReturnToWriteKept DEF Handler

-----------------------------------------------------------------------------
(* The peer, and all steps.                                                *)

\* The peer sends its next request when it has the answer to the one before, so when
\* nothing of that one is left.
LEMMA PeerSendsKept == ASSUME Orderly, IInv, Kept, PeerSends PROVE Kept'
<1> DEFINE d == [conn EXCEPT !.waiting = TRUE]
<1>1. /\ later # <<>> /\ pc \notin {"closed", "halted"} /\ conn' = d
      /\ net' = net \o Head(later) /\ later' = Tail(later)
      /\ UNCHANGED <<pc, call, buf, bufpos>> /\ ~conn.waiting /\ ~Shut(conn)
  BY DEF PeerSends, Orderly, Shut
<1>2. /\ conn \in GoodConn /\ conn \in Conn /\ Sound(conn) /\ buf \in Seq(Unit)
      /\ net \in Seq(Unit) /\ later \in Seq(Seq(Unit))
      /\ conn.block.state \in {REQUEST_BEGIN, REQUEST_HEADER, REQUEST_BODY} \cup Answering
  BY <1>1, KeptFacts
<1>3. /\ d.block = conn.block /\ d.heap = conn.heap /\ d.fault = conn.fault
      /\ d.sock = conn.sock /\ d.chunkLen = conn.chunkLen /\ d.waiting = TRUE
  BY <1>2 DEF Conn
<1> HIDE DEF d
<1>4. Sound(d) /\ (Fresh(conn) => Fresh(d)) /\ (Dropped(d) <=> Dropped(conn)) /\ ~Shut(d)
  BY <1>1, <1>2, <1>3 DEF Sound, Fresh, Is, Shut, Dropped
<1>5. /\ Head(later) \in Seq(Unit) /\ IsRequest(Head(later))
      /\ \A i \in DOMAIN Tail(later) : IsRequest(Tail(later)[i])
  <2>1. \A i \in 1..Len(later) : IsRequest(later[i])
    BY <1>2 DEF Kept
  <2>2. 1 \in 1..Len(later) /\ Head(later) = later[1] /\ later[1] \in Seq(Unit)
    BY <1>1, <1>2, EmptySeq
  <2>3. ASSUME NEW i \in DOMAIN Tail(later) PROVE IsRequest(Tail(later)[i])
    <3>1. i + 1 \in 1..Len(later) /\ Tail(later)[i] = later[i + 1]
      BY <1>1, <1>2, <2>2
    <3> QED
      BY <2>1, <3>1
  <2> QED
    BY <2>1, <2>2, <2>3
<1>6. pc \in {"closed", "halted"} \/ Asking' \/ Fresh(d)
  BY <1>1, <1>4 DEF Kept, Asking
<1>7. Placed'
  <2>1. pc = "handler" => Allowed(conn, call, Len(buf))
    BY DEF Kept, Placed
  <2>2. pc = "handler" => Allowed(d, call, Len(buf))
    BY <1>3, <2>1 DEF Allowed
  <2>3. pc = "handler" => Allowed(d, call', Len(buf'))
    BY <1>1, <2>2
  <2>4. /\ pc \in {"match", "closed"} => conn.block.state = REQUEST_BEGIN
        /\ Dropped(conn) => \/ pc \in {"select", "closed", "halted"}
                            \/ pc = "handler" /\ call.by = "response"
    BY DEF Kept, Placed
  <2> QED
    BY <1>1, <1>3, <1>4, <2>3, <2>4 DEF Placed
<1>8. d.block.state \in Answering /\ SendFaults = {} => Rest' = <<>>
  BY <1>1, <1>2, <1>3 DEF Sound
<1>9. ASSUME Live PROVE Expects(d, Asking', Rest') /\ Owed(d, Asking', Rest')
  <2>1. Owed(conn, Asking, Rest)
    BY <1>9 DEF Kept
  <2>2. Asking = FALSE /\ conn.block.state = REQUEST_BEGIN /\ Rest = <<>>
    BY <1>1, <2>1 DEF Owed, Asking
  <2>3. Asking' = FALSE
    BY <1>1, <2>2 DEF Asking
  <2>4. Rest' = Head(later)
    <3>1. buf = <<>> /\ net = <<>>
      BY <1>2, <2>2, RestFacts
    <3> QED
      BY <1>1, <1>5, <3>1, ConcatEmptySeq DEF Rest
  <2>5. Expects(d, FALSE, Head(later)) /\ Owed(d, FALSE, Head(later))
    BY <1>3, <1>4, <1>5, <2>2, StatesApart DEF Expects, Owed, Answering
  <2> QED
    BY <2>3, <2>4, <2>5
<1>10. Live' => Live
  BY <1>1, <1>4 DEF Live
<1> QED
  BY <1>1, <1>4, <1>5, <1>6, <1>7, <1>8, <1>9, <1>10 DEF Kept

LEMMA NextKept == ASSUME Orderly, IInv, Kept, [Next]_vars PROVE Kept'
<1>1. CASE UNCHANGED vars
  <2>1. UNCHANGED <<conn, pc, call, buf, bufpos, net, later>>
    BY <1>1 DEF vars
  <2>2. (Live' <=> Live) /\ (Asking' <=> Asking) /\ Rest' = Rest /\ (Placed' <=> Placed)
    BY <2>1 DEF Live, Asking, Rest, Placed
  <2>3. Expects(conn, Asking, Rest)' = Expects(conn, Asking, Rest)
        /\ Owed(conn, Asking, Rest)' = Owed(conn, Asking, Rest)
    BY <2>1 DEF Expects, Owed, Asking, Rest
  <2> QED
    BY <2>1, <2>2, <2>3 DEF Kept
<1>2. CASE PendingClose \/ IdleTimeout
  BY <1>2, CloseKept DEF PendingClose, IdleTimeout
<1>3. CASE Worker /\ ~PendingClose
  BY <1>3, OnConnectKept, RecvKept, ReadDoneKept, DoWriteKept, RequestBeginKept,
     MatchingKept, RequestHeaderKept, RequestBodyKept, HandlerKept DEF Worker
<1>4. CASE RecvEnd \/ PeerSends
  BY <1>4, RecvEndKept, PeerSendsKept
<1> QED
  BY <1>1, <1>2, <1>3, <1>4 DEF Next, Environment, Stopped

LEMMA KeptHolds == ASSUME Orderly PROVE Spec => []Kept
<1>1. Init => Kept
  BY InitKept
<1>2. IInv /\ Kept /\ [Next]_vars => Kept'
  BY NextKept
<1> QED
  BY <1>1, <1>2, IInvHolds, PTL DEF Spec

-----------------------------------------------------------------------------
(* What the contract guarantees.                                           *)

LEMMA KeptInStep == IInv /\ Kept => InStep
<1> SUFFICES ASSUME IInv, Kept, pc = "parse", buf # <<>> PROVE InStep
  BY DEF InStep
<1>1. /\ Rest \in Seq(Unit) /\ Head(buf) = Rest[1] /\ Rest # <<>>
      /\ Expects(conn, FALSE, Rest) /\ ~Is(conn, "REQUEST_CHUNKED")
      /\ conn.block.state \in {REQUEST_BEGIN, REQUEST_HEADER, REQUEST_BODY}
  <2>1. pc \notin {"closed", "halted"}
    OBVIOUS
  <2>2. Rest \in Seq(Unit) /\ buf \in Seq(Unit) /\ ~Is(conn, "REQUEST_CHUNKED")
    BY <2>1, KeptFacts DEF Sound
  <2>3. /\ Rest[1] = buf[1] /\ Rest # <<>> /\ Expects(conn, FALSE, Rest)
        /\ conn.block.state \in {REQUEST_BEGIN, REQUEST_HEADER, REQUEST_BODY}
    BY ParsingFacts
  <2>4. Head(buf) = buf[1]
    BY <2>2
  <2> QED
    BY <2>2, <2>3, <2>4
<1>2. CASE conn.block.state = REQUEST_BEGIN
  <2>1. Rest[1].k \in {"line", "nopath", "badversion", "junk"}
    BY <1>1, <1>2, RequestStart DEF Expects
  <2> QED
    BY <1>1, <1>2, <2>1 DEF InStep
<1>3. CASE conn.block.state = REQUEST_HEADER
  <2>1. Rest[1].k \in {"crlf"} \cup LineStart \cup BadLine
    BY <1>1, <1>3, HeaderPartStart DEF Expects
  <2> QED
    BY <1>1, <1>3, <2>1 DEF InStep, LineStart, BadLine, HeaderKind
<1>4. CASE conn.block.state = REQUEST_BODY
  <2>1. 1 \in DOMAIN Rest
    BY <1>1, EmptySeq
  <2>2. Rest[1].k = "data"
    BY <1>1, <1>4, <2>1 DEF Expects
  <2> QED
    BY <1>1, <1>4, <2>2 DEF InStep
<1> QED
  BY <1>1, <1>2, <1>3, <1>4

\* do_read never takes the rest of one request for another element, or for the next
\* request: not after a failed send, a refused request or a handler that reads its body
\* in pieces.
THEOREM StaysInStep == ASSUME Orderly PROVE Spec => []InStep
BY KeptInStep, KeptHolds, IInvHolds, PTL

\* A route that accepted a request is finalized once, and no other is: the conclusion of
\* OwnerHolds, now from what peer and handlers do and not from the parser's being in step.
THEOREM OwnerKept == ASSUME Orderly PROVE Spec => []OwnerIsRoute
BY StaysInStep, OwnerHolds, PTL

\* Every connection under the contract is a dialogue with its handlers.
THEOREM DialogueKept == ASSUME Orderly PROVE Spec => DialogueSpec
BY StaysInStep, KeepsDialogue

\* The answer starts with the request read to its last unit, when no send fails.
THEOREM ReadsWhole == ASSUME Orderly, SendFaults = {} PROVE Spec => []ReadWhole
<1>1. IInv /\ Kept => ReadWhole
  <2> SUFFICES ASSUME IInv, Kept, conn.block.state >= RESPONSE_BEGIN
               PROVE  buf = <<>> /\ net = <<>>
    BY DEF ReadWhole
  <2>1. conn.block.state \in SessState /\ buf \in Seq(Unit) /\ net \in Seq(Unit)
    BY IInvFacts DEF Conn, Block
  <2>2. conn.block.state \in Answering
    BY <2>1 DEF SessState, Answering, REQUEST_BEGIN, REQUEST_HEADER, REQUEST_BODY, RESPONSE_BEGIN
  <2>3. Rest = <<>>
    BY <2>2 DEF Kept
  <2> QED
    BY <2>1, <2>3, RestFacts
<1> QED
  BY <1>1, KeptHolds, IInvHolds, PTL

\* No undefined behaviour is met, unless a send fails in a chunked response.
THEOREM MeetsNoFault == ASSUME Orderly, Steady PROVE Spec => []NoFault
<1>1. Kept => NoFault
  BY DEF Kept, Sound, NoFault
<1> QED
  BY <1>1, KeptHolds, PTL

\* A connection that is gone has freed its boundary, and its handler has heard of it,
\* wherever in the request it ended.
THEOREM LeavesNothing == ASSUME Orderly PROVE Spec => []NothingOutlives
<1>1. Kept /\ OwnerIsRoute => NothingOutlives
  <2> SUFFICES ASSUME Kept, OwnerIsRoute, pc = "closed"
               PROVE  conn.heap = 0 /\ conn.owner = NoRoute
    BY DEF NothingOutlives
  <2>1. conn.block.state = REQUEST_BEGIN
    BY DEF Kept, Placed
  <2> QED
    BY <2>1 DEF Kept, Sound, OwnerIsRoute
<1> QED
  BY <1>1, KeptHolds, OwnerKept, PTL

-----------------------------------------------------------------------------
(* Every callback ends.  The parts of Work decrease in the order of their      *)
(* weight: input, the stage of the callback, the routes and the operations.    *)

LEMMA LessNet ==
  ASSUME Len(net)' < Len(net) PROVE Less(Work', Work)
<1>1. Work'[1] < Work[1]
  BY DEF Work
<1> QED
  BY <1>1 DEF Less

LEMMA LessBuf ==
  ASSUME net' = net, Len(buf)' < Len(buf) PROVE Less(Work', Work)
<1>1. Work'[1] = Work[1] /\ Work'[2] < Work[2]
  BY DEF Work
<1>2. \A j \in 1..(2 - 1) : Work'[j] = Work[j]
  BY <1>1
<1> QED
  BY <1>1, <1>2 DEF Less

LEMMA LessStage ==
  ASSUME net' = net, buf' = buf, Stage' < Stage PROVE Less(Work', Work)
<1>1. Work'[1] = Work[1] /\ Work'[2] = Work[2] /\ Work'[3] < Work[3]
  BY DEF Work
<1>2. \A j \in 1..(3 - 1) : Work'[j] = Work[j]
  BY <1>1
<1> QED
  BY <1>1, <1>2 DEF Less

LEMMA LessRoutes ==
  ASSUME net' = net, buf' = buf, Stage' = Stage,
         \/ RoutesLeft' < RoutesLeft
         \/ RoutesLeft' = RoutesLeft /\ OpsLeft' < OpsLeft
  PROVE  Less(Work', Work)
<1>1. /\ Work'[1] = Work[1] /\ Work'[2] = Work[2] /\ Work'[3] = Work[3]
      /\ Work'[4] = RoutesLeft' /\ Work[4] = RoutesLeft
      /\ Work'[5] = OpsLeft' /\ Work[5] = OpsLeft
  BY DEF Work
<1>2. CASE RoutesLeft' < RoutesLeft
  <2>1. Work'[4] < Work[4] /\ \A j \in 1..(4 - 1) : Work'[j] = Work[j]
    BY <1>1, <1>2
  <2> QED
    BY <2>1 DEF Less
<1>3. CASE RoutesLeft' = RoutesLeft /\ OpsLeft' < OpsLeft
  <2>1. Work'[5] < Work[5] /\ \A j \in 1..(5 - 1) : Work'[j] = Work[j]
    BY <1>1, <1>3
  <2> QED
    BY <2>1 DEF Less
<1> QED
  BY <1>2, <1>3

-----------------------------------------------------------------------------
(* What handlers can do to a request that is being read.                       *)

\* A request that is read, or was ended by its handler ...
HalfRead(c) == c.block.state \in {REQUEST_HEADER, REQUEST_BODY} \/ c.block = ZeroBlock

\* ... and what a call that reads nothing leaves of it.
Unread(c) == {d \in GoodConn : \/ d.block = ZeroBlock
                               \/ d.block = c.block /\ d.chunkLen = c.chunkLen}
Zeroed    == {d \in GoodConn : d.block = ZeroBlock}

LEMMA UnreadFacts ==
  ASSUME NEW c \in GoodConn, HalfRead(c)
  PROVE  /\ c \in Unread(c) /\ Zeroed \subseteq Unread(c)
         /\ \A d \in Unread(c) : /\ d \in GoodConn /\ HalfRead(d)
                                 /\ Unread(d) \subseteq Unread(c)
BY DEF Unread, Zeroed, HalfRead

LEMMA FinalizeZeroes ==
  ASSUME NEW c \in GoodConn, HalfRead(c) PROVE Finalize(c) \subseteq Zeroed
<1>1. ZeroBlock.state = REQUEST_BEGIN
  BY DEF ZeroBlock
<1>2. CASE c.block.state = REQUEST_BEGIN
  <2>1. c.block = ZeroBlock /\ Finalize(c) = {c}
    BY <1>2, StatesApart DEF HalfRead, Finalize
  <2> QED
    BY <2>1 DEF Zeroed
<1>3. CASE c.block.state # REQUEST_BEGIN
  <2>1. Finalize(c) = {Release(c)}
    BY <1>1, <1>3, StatesApart DEF HalfRead, Finalize
  <2>2. Release(c).block = ZeroBlock
    BY DEF Release, Shutdown, GoodConn, Conn
  <2> QED
    BY <2>1, <2>2, ReleaseGood DEF Zeroed
<1> QED
  BY <1>2, <1>3

LEMMA RawSendUnread ==
  ASSUME NEW c \in GoodConn, HalfRead(c), NEW piece, NEW n \in Nat
  PROVE  RawSend(c, piece, n) \subseteq Unread(c)
<1> SUFFICES ASSUME NEW d \in RawSend(c, piece, n) PROVE d \in Unread(c)
  OBVIOUS
<1>1. CASE d \in SendOk(c, piece, n)
  <2>1. d.block = c.block /\ d.chunkLen = c.chunkLen
    BY <1>1 DEF SendOk, GoodConn, Conn
  <2> QED
    BY <1>1, <2>1, SendOkGood DEF Unread
<1>2. CASE d \in FinalizeAll(SendFail(c))
  <2>1. PICK f \in SendFail(c) : d \in Finalize(f)
    BY <1>2 DEF FinalizeAll
  <2>2. f.block = c.block
    BY <2>1 DEF SendFail, Failed, PendClose, GoodConn, Conn
  <2>3. f \in GoodConn /\ HalfRead(f)
    BY <2>1, <2>2, SendFailGood DEF HalfRead
  <2> QED
    BY <2>1, <2>3, FinalizeZeroes, UnreadFacts
<1> QED
  BY <1>1, <1>2 DEF RawSend

LEMMA RawSendAllUnread ==
  ASSUME NEW c \in GoodConn, HalfRead(c), NEW S \in SUBSET Unread(c), NEW piece,
         NEW n \in Nat
  PROVE  RawSendAll(S, piece, n) \subseteq Unread(c)
BY RawSendUnread, UnreadFacts DEF RawSendAll

LEMMA HttpStatusUnread ==
  ASSUME NEW c \in GoodConn, HalfRead(c) PROVE HttpStatus(c) \subseteq Unread(c)
BY UnreadFacts, FinalizeZeroes, RawSendUnread DEF HttpStatus

\* An error ends the request.
LEMMA HttpErrorZeroes ==
  ASSUME NEW c \in GoodConn, HalfRead(c) PROVE HttpError(c) \subseteq Zeroed
<1> DEFINE S == RawSendAll(HttpStatus(c), "errhead", 1)
           T == RawSendAll(S, "data", 1)
<1>1. S \in SUBSET Unread(c)
  BY HttpStatusUnread, RawSendAllUnread
<1> HIDE DEF S
<1>2. T \in SUBSET Unread(c)
  BY <1>1, RawSendAllUnread
<1> HIDE DEF T
<1>3. FinalizeAll(T) \subseteq Zeroed
  BY <1>2, UnreadFacts, FinalizeZeroes DEF FinalizeAll
<1> QED
  BY <1>3, FinalizeZeroes DEF HttpError, S, T

\* Only http_recv reads.
LEMMA SessionOpUnread ==
  ASSUME NEW c \in GoodConn, HalfRead(c), NEW op, op \notin {"recv", "recv1"}
  PROVE  SessionOp(c, op) \subseteq Unread(c)
<1>1. c.block.state \notin {RESPONSE_HEADER, RESPONSE_BODY}
  BY StatesApart DEF HalfRead, ZeroBlock
<1>2. HttpSend(c) = HttpError(c) /\ HttpHeader(c, op) = HttpError(c)
  BY <1>1 DEF HttpSend, HttpHeader
<1> QED
  BY <1>2, HttpStatusUnread, HttpErrorZeroes, UnreadFacts DEF SessionOp

LEMMA SessionOpRecv ==
  ASSUME NEW c \in GoodConn, NEW op \in {"recv", "recv1"}, NEW d \in SessionOp(c, op)
  PROVE  /\ d \in GoodConn /\ d.block = c.block /\ d.chunkLen <= c.chunkLen
         /\ d.chunkLen \in Nat /\ (c.chunkLen > 0 => d.chunkLen < c.chunkLen)
<1>1. c.chunkLen \in Nat
  BY DEF GoodConn, Conn
<1>2. \E n \in {1, c.chunkLen} : d = HttpRecv(c, n)
  BY DEF SessionOp
<1>3. PICK n \in {1, c.chunkLen} : d = HttpRecv(c, n)
  BY <1>2
<1>4. d.block = c.block /\ d.chunkLen = c.chunkLen - Least(n, c.chunkLen)
  BY <1>3 DEF HttpRecv, GoodConn, Conn
<1> QED
  BY <1>1, <1>3, <1>4, SessionOpGood DEF Least

LEMMA AfterStatusUnread ==
  ASSUME NEW c \in GoodConn, HalfRead(c), NEW status \in RouteStatus
  PROVE  AfterStatus(c, status) \subseteq Unread(c)
<1>1. PendClose(c) \in GoodConn /\ PendClose(c) \in Unread(c) /\ HalfRead(PendClose(c))
  <2>1. PendClose(c).block = c.block /\ PendClose(c).chunkLen = c.chunkLen
    BY DEF PendClose, GoodConn, Conn
  <2> QED
    BY <2>1, PendCloseGood DEF Unread, HalfRead
<1>2. /\ HttpError(PendClose(c)) \subseteq Unread(c) /\ HttpError(c) \subseteq Unread(c)
      /\ Finalize(PendClose(c)) \subseteq Unread(c) /\ Finalize(c) \subseteq Unread(c)
  BY <1>1, HttpErrorZeroes, FinalizeZeroes, UnreadFacts
<1>3. c.block.state \notin {RESPONSE_BEGIN, RESPONSE_HEADER, RESPONSE_BODY}
  BY StatesApart DEF HalfRead, ZeroBlock
<1>4. Advance(c) = {c}
  BY <1>3 DEF Advance
<1> QED
  BY <1>1, <1>2, <1>4, UnreadFacts DEF AfterStatus, RouteStatus

-----------------------------------------------------------------------------
(* The steps of a callback, each with less to do than the one before.          *)

\* The handler still has to read what it was handed, has begun to, or was handed
\* nothing.
Drains(c, ops) ==
  \/ c.block = ZeroBlock
  \/ /\ c.block.state = REQUEST_BODY
     /\ c.chunkLen <= Least(Len(buf), Remaining(c))
     /\ \/ Least(Len(buf), Remaining(c)) = 0
        \/ c.chunkLen < Least(Len(buf), Remaining(c))
        \/ \E i \in DOMAIN ops : ops[i] \in {"recv", "recv1"}

InCall(by) == pc = "handler" /\ call.by = by

DrainInv ==
  /\ conn.block.route # R404
  /\ pc = "match" => conn.block.route # NoRoute
  /\ ~InCall("begin404")
  /\ InCall("begin") /\ conn.block.route = NRoutes => call.status # "NOT_FOUND"
  /\ InCall("header") =>
       conn.block = ZeroBlock \/ conn.block.state = REQUEST_HEADER
  /\ InCall("body") => buf # <<>> /\ Drains(conn, call.ops)

Descends == DrainInv' /\ Less(Work', Work)

LEMMA InitDrain == Init => DrainInv
BY HttpConstants DEF Init, ZeroBlock, DrainInv, InCall, NoRoute, R404

LEMMA DrainOn ==
  ASSUME DrainInv, conn'.block.route \in {conn.block.route, NoRoute},
         pc' \notin {"match", "handler"}
  PROVE  DrainInv'
BY HttpConstants DEF DrainInv, InCall, NoRoute, R404

\* The handler called next is one of the list.
LEMMA CallDrain ==
  ASSUME Draining, DrainInv, NEW d \in GoodConn, NEW caller \in Caller,
         CallHandler(d, caller), d.block.route = conn.block.route
  PROVE  /\ conn'.block = d.block /\ conn'.chunkLen = d.chunkLen
         /\ \/ pc' = "halted"
            \/ /\ pc' = "handler" /\ call'.by = caller
               /\ d.block.route \in 1..NRoutes
               /\ \E b \in Handlers[d.block.route] :
                    b[1] = d.block.state /\ call'.ops = b[2] /\ call'.status = b[3]
<1>1. CASE d.block.route = NoRoute
  BY <1>1 DEF CallHandler, Goto, GoodConn, Conn
<1>2. CASE d.block.route # NoRoute
  <2>1. d.block.route \in 1..NRoutes
    BY <1>2, HttpConstants DEF DrainInv, GoodConn, Conn, Block, NoRoute, R404
  <2>2. BehavioursOf(d.block.route) = Handlers[d.block.route]
    BY <2>1, HttpConstants DEF BehavioursOf, R404
  <2>3. PICK b \in Handlers[d.block.route] :
          /\ b[1] = d.block.state
          /\ call' = [by |-> caller, ops |-> b[2], status |-> b[3]]
          /\ Goto(d, "handler")
    BY <1>2, <2>2 DEF CallHandler
  <2> QED
    BY <2>1, <2>3 DEF Goto
<1> QED
  BY <1>1, <1>2

\* Back to the label done, or to the select loop.
LEMMA ReturnDescends ==
  ASSUME DrainInv, pc \in {"parse", "handler"}, NEW d, ReturnTrue(d),
         d.block.route \in {conn.block.route, NoRoute}, UNCHANGED <<buf, net>>
  PROVE  Descends
<1>1. conn' = d /\ pc' \in {"select", "done", "halted"}
  BY DEF ReturnTrue, Goto
<1>2. DrainInv'
  BY <1>1, DrainOn
<1>3. Stage' <= 2 /\ Stage > 2 /\ Stage' \in Nat /\ Stage \in Nat
  BY <1>1 DEF Stage
<1> QED
  BY <1>2, <1>3, LessStage DEF Descends

\* Input is consumed.
LEMMA ConsumeDescends ==
  ASSUME IInv, DrainInv, NEW n \in Nat, n > 0, n <= Len(buf), Consume(n), net' = net,
         conn'.block.route \in {conn.block.route, NoRoute},
         pc' \notin {"match", "handler"}
  PROVE  Descends
<1>1. Len(buf') = Len(buf) - n /\ Len(buf) \in Nat
  BY IInvFacts, ConsumeWindow
<1> QED
  BY <1>1, DrainOn, LessBuf DEF Descends

LEMMA AroundDescends ==
  ASSUME IInv, DrainInv, Recv \/ RecvEnd \/ ReadDone,
         pc \notin {"accepted", "select"}
  PROVE  Descends
<1>1. CASE Recv
  <2>1. PICK n \in 1..Least(Len(net), BufSize - Len(buf)) :
          net' = SubSeq(net, n + 1, Len(net))
    BY <1>1 DEF Recv
  <2>2. n \in Nat /\ n > 0 /\ n <= Len(net) /\ Len(net) \in Nat
    BY <2>1, IInvFacts, SessionConstants DEF Least
  <2>3. Len(net') < Len(net)
    BY <2>1, <2>2, IInvFacts, CutFacts
  <2> QED
    BY <1>1, <2>3, LessNet, DrainOn DEF Recv, Descends
<1>2. CASE RecvEnd
  <2>1. pc = "again" /\ pc' \in {"select", "halted"} /\ UNCHANGED <<buf, net>>
    BY <1>2 DEF RecvEnd, Receiving, Goto
  <2>2. conn'.block = conn.block
    BY <1>2, IInvFacts DEF RecvEnd, Goto, PendClose, Conn
  <2>3. Stage' < Stage
    BY <2>1 DEF Stage
  <2> QED
    BY <2>1, <2>2, <2>3, LessStage, DrainOn DEF Descends
<1>3. CASE ReadDone
  <2>1. pc \in {"done", "parse"} /\ pc' \in {"select", "again", "halted"}
        /\ UNCHANGED <<buf, net>>
    BY <1>3 DEF ReadDone, Goto
  <2>2. conn'.block = conn.block
    BY <1>3, IInvFacts DEF ReadDone, Goto, PendClose, Conn
  <2>3. Stage' < Stage
    BY <2>1 DEF Stage
  <2> QED
    BY <2>1, <2>2, <2>3, LessStage, DrainOn DEF Descends
<1> QED
  BY <1>1, <1>2, <1>3

LEMMA AwaitDescends ==
  ASSUME IInv, DrainInv, OwnerIsRoute, pc = "parse", NEW d \in GoodConn, AwaitLine(d),
         d.owner = conn.owner, d.block.route = conn.block.route,
         d.block.state = conn.block.state
  PROVE  Descends
<1>1. PICK e \in {d} \cup Reject(d) : ReturnTrue(e)
  BY DEF AwaitLine
<1>2. e.block.route \in {conn.block.route, NoRoute}
  BY <1>1, KeepsAlike, RejectKeeps DEF Keeps, KeptRequest, SameRequest, Ended
<1> QED
  BY <1>1, <1>2, ReturnDescends DEF AwaitLine

LEMMA RejectDescends ==
  ASSUME IInv, DrainInv, OwnerIsRoute, pc = "parse", NEW d \in GoodConn, HasLine,
         \E e \in Reject(d) : ReturnTrue(e), Consume(LineEnd(buf)), net' = net,
         d.owner = conn.owner, d.block.route = conn.block.route,
         d.block.state = conn.block.state
  PROVE  Descends
<1>1. PICK e \in Reject(d) : ReturnTrue(e)
  OBVIOUS
<1>2. e.block.route \in {conn.block.route, NoRoute}
  BY <1>1, KeepsAlike, RejectKeeps DEF Keeps, KeptRequest, SameRequest, Ended
<1>3. conn' = e /\ pc' \notin {"match", "handler"}
  BY <1>1 DEF ReturnTrue, Goto
<1>4. LineEnd(buf) \in 1..Len(buf)
  BY IInvFacts, HasLineRange
<1> QED
  BY <1>2, <1>3, <1>4, IInvFacts, ConsumeDescends

LEMMA RequestBeginDescends ==
  ASSUME Draining, IInv, DrainInv, OwnerIsRoute, ReadsRequests, RequestBegin
  PROVE  Descends
<1>1. conn \in GoodConn /\ pc = "parse"
  BY IInvFacts DEF RequestBegin, BeginAwait, BeginReject, BeginLine, Parsing
<1>2. /\ Begun \in GoodConn /\ Begun.owner = conn.owner
      /\ Begun.block.route = conn.block.route /\ Begun.block.state = conn.block.state
  BY <1>1, BegunGood DEF Begun, GoodConn, Conn, Block
<1>3. CASE BeginAwait
  BY <1>1, <1>2, <1>3, AwaitDescends DEF BeginAwait
<1>4. CASE BeginReject
  BY <1>1, <1>2, <1>4, RejectDescends DEF BeginReject
<1>5. CASE BeginLine
  <2>1. conn'.block.route = 1 /\ pc' \in {"match", "halted"} /\ net' = net
    BY <1>2, <1>5 DEF BeginLine, Goto, GoodConn, Conn, Block, Draining
  <2>2. DrainInv'
    BY <2>1, HttpConstants DEF DrainInv, InCall, NoRoute, R404, Draining
  <2>3. LineEnd(buf) \in 1..Len(buf) /\ Consume(LineEnd(buf))
    BY <1>5, IInvFacts, HasLineRange DEF BeginLine
  <2>4. Len(buf') < Len(buf)
    BY <2>3, IInvFacts, ConsumeWindow
  <2> QED
    BY <2>1, <2>2, <2>4, LessBuf DEF Descends
<1> QED
  BY <1>3, <1>4, <1>5 DEF RequestBegin

LEMMA MatchingDescends ==
  ASSUME Draining, IInv, DrainInv, CallInv, Matching PROVE Descends
<1>1. /\ conn \in GoodConn /\ pc = "match" /\ conn.block.state = REQUEST_BEGIN
      /\ conn.block.route \in 1..NRoutes /\ NRoutes \in Nat /\ UNCHANGED <<buf, net>>
  BY IInvFacts, HttpConstants
     DEF CallInv, DrainInv, Matching, SkipRoute, TryRoute, LastResort, GoodConn, Conn,
         Block, NoRoute, R404
<1>2. Stage = 6 /\ RoutesLeft = NRoutes + 2 - conn.block.route
  BY <1>1 DEF Stage, RoutesLeft, NoRoute, R404
<1>3. CASE SkipRoute
  <2>1. conn' = NextRoute(conn) /\ pc' \in {"match", "halted"}
        /\ conn.block.route < NRoutes
    BY <1>1, <1>3 DEF SkipRoute, Goto, Draining
  <2>2. conn'.block.route = conn.block.route + 1
    <3>1. conn' = [conn EXCEPT !.block.route = @ + 1]
      BY <1>1, <1>3, <2>1, NextRouteOf DEF SkipRoute
    <3> QED
      BY <1>1, <3>1 DEF GoodConn, Conn, Block
  <2>3. DrainInv'
    BY <1>1, <2>1, <2>2 DEF DrainInv, InCall, NoRoute, R404
  <2>4. CASE pc' = "halted"
    <3>1. Stage' = 0
      BY <2>4 DEF Stage
    <3> QED
      BY <1>1, <1>2, <2>3, <3>1, LessStage DEF Descends
  <2>5. CASE pc' = "match"
    <3>1. Stage' = 6 /\ RoutesLeft' = NRoutes + 2 - conn'.block.route
      BY <1>1, <2>2, <2>5 DEF Stage, RoutesLeft, NoRoute, R404
    <3> QED
      BY <1>1, <1>2, <2>2, <2>3, <3>1, LessRoutes DEF Descends
  <2> QED
    BY <2>1, <2>4, <2>5
<1>4. CASE TryRoute
  <2>1. /\ conn'.block = conn.block
        /\ \/ pc' = "halted"
           \/ /\ pc' = "handler" /\ call'.by = "begin"
              /\ \E b \in Handlers[conn.block.route] :
                   b[1] = conn.block.state /\ call'.status = b[3]
    BY <1>1, <1>4, CallDrain DEF TryRoute, Caller
  <2>2. CASE pc' = "halted"
    <3>1. Stage' = 0
      BY <2>2 DEF Stage
    <3> QED
      BY <1>1, <1>2, <2>1, <2>2, <3>1, LessStage, DrainOn DEF Descends
  <2>3. CASE pc' = "handler"
    <3>1. call'.by = "begin" /\ (conn.block.route = NRoutes => call'.status # "NOT_FOUND")
      BY <1>1, <2>1, <2>3 DEF Draining
    <3>2. DrainInv'
      BY <1>1, <2>1, <2>3, <3>1 DEF DrainInv, InCall
    <3>3. Stage' = 6 /\ RoutesLeft' = NRoutes + 1 - conn.block.route
      BY <1>1, <2>1, <2>3, <3>1 DEF Stage, RoutesLeft, NoRoute, R404
    <3> QED
      BY <1>1, <1>2, <3>2, <3>3, LessRoutes DEF Descends
  <2> QED
    BY <2>1, <2>2, <2>3
<1> QED
  BY <1>1, <1>3, <1>4 DEF Matching, LastResort, NoRoute

LEMMA RequestHeaderDescends ==
  ASSUME Draining, IInv, DrainInv, OwnerIsRoute, ReadsRequests, RequestHeader
  PROVE  Descends
<1>1. pc = "parse" /\ conn \in GoodConn /\ conn.block.state = REQUEST_HEADER
  BY IInvFacts, ParsingState
  DEF RequestHeader, HeaderAwait, HeaderEnd, HeaderReject, HeaderLine, HeaderNoMemory,
      Parsing
<1>2. CASE HeaderAwait
  BY <1>1, <1>2, AwaitDescends DEF HeaderAwait
<1>3. CASE HeaderReject
  BY <1>1, <1>3, RejectDescends DEF HeaderReject
<1>4. CASE HeaderNoMemory
  <2> DEFINE d == [conn EXCEPT !.block.boundary = FALSE]
  <2>1. /\ d \in GoodConn /\ d.owner = conn.owner
        /\ d.block.state = conn.block.state /\ d.block.route = conn.block.route
    BY <1>1 DEF GoodConn, Conn, Block, Marked
  <2>2. \E e \in Reject(d) : ReturnTrue(e)
    BY <1>4 DEF HeaderNoMemory
  <2> HIDE DEF d
  <2> QED
    BY <1>1, <1>4, <2>1, <2>2, RejectDescends DEF HeaderNoMemory
<1>5. CASE HeaderEnd
  <2>1. conn'.block.route = conn.block.route /\ pc' \notin {"handler", "match"}
    BY <1>1, <1>5 DEF HeaderEnd, Goto, GoodConn, Conn, Block
  <2>2. LineEnd(buf) \in 1..Len(buf) /\ Consume(LineEnd(buf)) /\ net' = net
    BY <1>5, IInvFacts, HasLineRange DEF HeaderEnd
  <2> QED
    BY <2>1, <2>2, IInvFacts, ConsumeDescends
<1>6. CASE HeaderLine
  <2>1. LineEnd(buf) \in 1..Len(buf) /\ Consume(LineEnd(buf)) /\ net' = net
    BY <1>6, IInvFacts, HasLineRange DEF HeaderLine
  <2>2. Effect(conn, buf[1]) \in GoodConn
    BY <1>1, <2>1, IInvFacts, EffectGood
  <2>3. /\ Effect(conn, buf[1]).block.route = conn.block.route
        /\ Effect(conn, buf[1]).block.state = conn.block.state
    BY <1>1 DEF Effect, GoodConn, Conn, Block
  <2>4. CallHandler(Effect(conn, buf[1]), "header") /\ "header" \in Caller
    BY <1>6 DEF HeaderLine, Caller
  <2>5. /\ conn'.block = Effect(conn, buf[1]).block
        /\ pc' = "halted" \/ (pc' = "handler" /\ call'.by = "header")
    BY <2>2, <2>3, <2>4, CallDrain
  <2>6. DrainInv'
    BY <1>1, <2>3, <2>5 DEF DrainInv, InCall
  <2>7. Len(buf') < Len(buf)
    BY <2>1, IInvFacts, ConsumeWindow
  <2> QED
    BY <2>1, <2>6, <2>7, LessBuf DEF Descends
<1> QED
  BY <1>2, <1>3, <1>4, <1>5, <1>6 DEF RequestHeader

\* The handler is handed what there is of the body, and reads of it.
LEMMA BodyDataDescends ==
  ASSUME Draining, IInv, DrainInv, ReadsRequests, BodyData PROVE Descends
<1>1. /\ pc = "parse" /\ conn \in GoodConn /\ conn.block.state = REQUEST_BODY
      /\ buf # <<>> /\ UNCHANGED <<buf, net>>
      /\ ~(Is(conn, "REQUEST_CHUNKED") /\ Is(conn, "REQUEST_CHUNKED_LINE"))
  BY IInvFacts, ParsingState DEF BodyData, ChunkLine, Parsing
<1> DEFINE len == Least(Len(buf), Remaining(conn))
           d == [conn EXCEPT !.chunkLen = len]
<1>2. len \in Nat
  BY <1>1, RemainingNat, IInvFacts DEF Least
<1>3. d \in GoodConn /\ d.block = conn.block /\ d.chunkLen = len
  <2> HIDE DEF len
  <2> QED
    BY <1>1, <1>2 DEF GoodConn, Conn, Marked
<1>4. CallHandler(d, "body") /\ "body" \in Caller
  BY DEF BodyData, Caller
<1> HIDE DEF d
<1>5. /\ conn'.block = conn.block /\ conn'.chunkLen = len
      /\ \/ pc' = "halted"
         \/ /\ pc' = "handler" /\ call'.by = "body"
            /\ conn.block.route \in 1..NRoutes
            /\ \E b \in Handlers[conn.block.route] :
                 b[1] = conn.block.state /\ call'.ops = b[2]
  BY <1>3, <1>4, CallDrain
<1>6. Stage = 5
  BY <1>1 DEF Stage
<1>7. CASE pc' = "halted"
  <2>1. Stage' = 0
    BY <1>7 DEF Stage
  <2> QED
    BY <1>1, <1>5, <1>6, <1>7, <2>1, LessStage, DrainOn DEF Descends
<1>8. CASE pc' = "handler"
  <2>1. \E i \in DOMAIN call'.ops : call'.ops[i] \in {"recv", "recv1"}
    BY <1>1, <1>5, <1>8 DEF Draining
  <2>2. Remaining(conn)' = Remaining(conn)
    BY <1>1, <1>5 DEF Remaining, Is
  <2>3. Drains(conn, call.ops)'
    BY <1>1, <1>2, <1>5, <2>1, <2>2 DEF Drains
  <2>4. DrainInv'
    BY <1>1, <1>5, <1>8, <2>3 DEF DrainInv, InCall
  <2>5. Stage' = 4
    BY <1>5, <1>8 DEF Stage
  <2> QED
    BY <1>1, <1>6, <2>4, <2>5, LessStage DEF Descends
<1> QED
  BY <1>5, <1>7, <1>8

LEMMA RequestBodyDescends ==
  ASSUME Draining, IInv, DrainInv, OwnerIsRoute, ReadsRequests, RequestBody
  PROVE  Descends
<1>1. pc = "parse" /\ conn \in GoodConn /\ conn.block.state = REQUEST_BODY
  BY IInvFacts, ParsingState
  DEF RequestBody, ChunkBreak, ChunkSize, ChunkReject, BodyAwait, BodyData, ChunkLine,
      Parsing
<1>2. CASE ReturnTrue(conn) /\ UNCHANGED <<buf, net>>
  BY <1>1, <1>2, ReturnDescends
<1>3. CASE ChunkBreak
  <2>1. CASE Consume(1) /\ LineKind(buf) = "blank"
             /\ ReturnTrue([conn EXCEPT !.block.state = RESPONSE_BEGIN])
    <3>1. conn'.block.route = conn.block.route /\ pc' \notin {"match", "handler"}
      BY <1>1, <2>1 DEF ReturnTrue, Goto, GoodConn, Conn, Block
    <3>2. 1 <= Len(buf) /\ Len(buf) \in Nat
      BY <2>1, IInvFacts, HasLineRange DEF HasLine
    <3> QED
      BY <1>3, <2>1, <3>1, <3>2, ConsumeDescends DEF ChunkBreak
  <2> QED
    BY <1>2, <1>3, <2>1 DEF ChunkBreak
<1>4. CASE ChunkSize
  <2>1. conn'.block.route = conn.block.route /\ pc' \notin {"handler", "match"}
    BY <1>1, <1>4 DEF ChunkSize, Goto, GoodConn, Conn, Block
  <2>2. LineEnd(buf) \in 1..Len(buf) /\ Consume(LineEnd(buf)) /\ net' = net
    BY <1>4, IInvFacts, HasLineRange DEF ChunkSize
  <2> QED
    BY <2>1, <2>2, IInvFacts, ConsumeDescends
<1>5. CASE ChunkReject
  <2>1. PICK e \in Reject(conn) : ReturnTrue(e)
    BY <1>5 DEF ChunkReject
  <2>2. e.block.route \in {conn.block.route, NoRoute}
    BY <1>1, <2>1, OwnConnFacts, RejectKeeps DEF Keeps, KeptRequest, SameRequest, Ended
  <2> QED
    BY <1>1, <1>5, <2>1, <2>2, ReturnDescends DEF ChunkReject
<1>6. CASE BodyAwait
  BY <1>2, <1>6 DEF BodyAwait
<1> QED
  BY <1>3, <1>4, <1>5, <1>6, BodyDataDescends DEF RequestBody

-----------------------------------------------------------------------------
(* The steps and the returns of a handler.                                     *)

LEMMA TailKeeps ==
  ASSUME NEW s \in Seq(Op), NEW i \in DOMAIN s, i # 1
  PROVE  i - 1 \in DOMAIN Tail(s) /\ Tail(s)[i - 1] = s[i]
<1>1. i \in 2..Len(s) /\ Len(s) \in Nat /\ s # <<>>
  OBVIOUS
<1>2. /\ Tail(s) \in Seq(Op) /\ Len(Tail(s)) = Len(s) - 1
      /\ \A j \in 1..Len(Tail(s)) : Tail(s)[j] = s[j + 1]
  BY <1>1, HeadTailProperties
<1>3. i - 1 \in 1..Len(Tail(s)) /\ (i - 1) + 1 = i
  BY <1>1, <1>2
<1>4. DOMAIN Tail(s) = 1..Len(Tail(s))
  BY <1>2
<1> QED
  BY <1>2, <1>3, <1>4

\* An operation in the middle of a body reads, ends the request, or does neither.
LEMMA DrainsOn ==
  ASSUME IInv, conn \in GoodConn, pc = "handler", call.ops # <<>>, buf' = buf,
         Drains(conn, call.ops), NEW d \in SessionOp(conn, Head(call.ops)),
         conn' = d, call' = [call EXCEPT !.ops = Tail(@)]
  PROVE  Drains(conn, call.ops)'
<1>1. call.ops \in Seq(Op) /\ call'.ops = Tail(call.ops) /\ Len(buf) \in Nat
  BY IInvFacts DEF Call
<1>2. HalfRead(conn)
  BY DEF Drains, HalfRead
<1> DEFINE op == Head(call.ops)
           m == Least(Len(buf), Remaining(conn))
<1>3. m \in Nat
  BY <1>1, RemainingNat DEF Least
<1>4. CASE conn'.block = ZeroBlock
  BY <1>4 DEF Drains
<1>5. CASE conn'.block # ZeroBlock
  <2>1. op \notin {"recv", "recv1"} => d \in Unread(conn)
    BY <1>2, SessionOpUnread
  <2>2. conn'.block = conn.block
    BY <1>5, <2>1, SessionOpRecv DEF Unread
  <2>3. Remaining(conn)' = Remaining(conn)
    BY <2>2 DEF Remaining, Is
  <2>4. /\ conn.block.state = REQUEST_BODY /\ conn.chunkLen <= m
        /\ m = 0 \/ conn.chunkLen < m
           \/ \E i \in DOMAIN call.ops : call.ops[i] \in {"recv", "recv1"}
    BY <1>5, <2>2 DEF Drains
  <2>5. conn.chunkLen \in Nat
    BY DEF GoodConn, Conn
  <2> HIDE DEF m
  <2>6. CASE op \in {"recv", "recv1"}
    <3>1. /\ d.chunkLen \in Nat /\ d.chunkLen <= conn.chunkLen
          /\ conn.chunkLen > 0 => d.chunkLen < conn.chunkLen
      BY <2>6, SessionOpRecv
    <3>2. d.chunkLen <= m /\ (m = 0 \/ d.chunkLen < m)
      BY <1>3, <2>4, <2>5, <3>1
    <3> QED
      BY <2>2, <2>3, <2>4, <3>2 DEF Drains, m
  <2>7. CASE op \notin {"recv", "recv1"}
    <3>1. d.chunkLen = conn.chunkLen
      BY <1>5, <2>1, <2>7 DEF Unread
    <3>2. ASSUME NEW i \in DOMAIN call.ops, call.ops[i] \in {"recv", "recv1"}
          PROVE  \E j \in DOMAIN call'.ops : call'.ops[j] \in {"recv", "recv1"}
      <4>1. i # 1
        BY <1>1, <2>7, <3>2
      <4>2. i - 1 \in DOMAIN call'.ops /\ call'.ops[i - 1] = call.ops[i]
        BY <1>1, <4>1, TailKeeps
      <4> QED
        BY <3>2, <4>2
    <3> QED
      BY <2>2, <2>3, <2>4, <3>1, <3>2 DEF Drains, m
  <2> QED
    BY <2>6, <2>7
<1> QED
  BY <1>4, <1>5

LEMMA HandlerOpDescends ==
  ASSUME IInv, DrainInv, OwnerIsRoute, CallInv, HandlerOp PROVE Descends
<1>1. /\ pc = "handler" /\ conn \in OwnConn /\ conn \in GoodConn /\ call \in Call
      /\ call.ops # <<>> /\ UNCHANGED <<buf, net>>
      /\ call' = [call EXCEPT !.ops = Tail(@)]
  BY OwnConnFacts, IInvFacts DEF HandlerOp
<1>2. PICK d \in SessionOp(conn, Head(call.ops)) : Goto(d, "handler")
  BY DEF HandlerOp
<1>3. d \in Keeps(conn) /\ conn' = d /\ pc' \in {"handler", "halted"}
  BY <1>1, <1>2, SessionOpKeeps DEF Goto
<1>4. /\ call'.by = call.by /\ call'.status = call.status
      /\ call.ops \in Seq(Op) /\ call'.ops = Tail(call.ops)
  BY <1>1 DEF Call
<1>5. \/ conn'.block.route = conn.block.route
      \/ conn'.block.route = NoRoute /\ conn.block.state # REQUEST_BEGIN
  BY <1>3 DEF Keeps, KeptRequest, SameRequest, Ended
<1>6. CASE pc' = "halted"
  <2>1. Stage' = 0 /\ Stage \in {4, 6}
    BY <1>1, <1>6 DEF Stage
  <2> QED
    BY <1>1, <1>5, <1>6, <2>1, LessStage, DrainOn DEF Descends
<1>7. CASE pc' = "handler"
  <2>1. Stage' = Stage
    BY <1>1, <1>4, <1>7 DEF Stage
  <2>2. Len(call'.ops) = Len(call.ops) - 1 /\ Len(call.ops) \in Nat
    BY <1>1, <1>4, EmptySeq
  <2>3. OpsLeft' < OpsLeft
    BY <1>1, <1>7, <2>2 DEF OpsLeft
  <2>4. RoutesLeft' = RoutesLeft \/ RoutesLeft' < RoutesLeft
    BY <1>1, <1>5, <1>7, HttpConstants
       DEF RoutesLeft, GoodConn, Conn, Block, NoRoute, R404
  <2>5. conn'.block.route # R404
    BY <1>5, HttpConstants DEF DrainInv, NoRoute, R404
  <2>6. InCall("begin") => conn'.block.route = conn.block.route
    BY <1>5 DEF CallInv, InCall
  <2>7. ASSUME InCall("header")
        PROVE  conn'.block = ZeroBlock \/ conn'.block.state = REQUEST_HEADER
    <3>1. HalfRead(conn)
      BY <2>7 DEF DrainInv, HalfRead
    <3>2. Head(call.ops) \notin {"recv", "recv1"} => d \in Unread(conn)
      BY <1>1, <3>1, SessionOpUnread
    <3>3. conn'.block \in {ZeroBlock, conn.block}
      BY <1>1, <1>3, <3>2, SessionOpRecv DEF Unread
    <3> QED
      BY <2>7, <3>3 DEF DrainInv
  <2>8. InCall("body") => buf # <<>> /\ Drains(conn, call.ops)'
    BY <1>1, <1>2, <1>3, DrainsOn DEF DrainInv
  <2>9. InCall("begin404")' = InCall("begin404") /\ InCall("begin")' = InCall("begin")
        /\ InCall("header")' = InCall("header") /\ InCall("body")' = InCall("body")
    BY <1>1, <1>4, <1>7 DEF InCall
  <2>10. DrainInv'
    BY <1>1, <1>4, <1>7, <2>5, <2>6, <2>7, <2>8, <2>9 DEF DrainInv
  <2> QED
    BY <1>1, <2>1, <2>3, <2>4, <2>10, LessRoutes DEF Descends
<1> QED
  BY <1>3, <1>6, <1>7

\* What request_body makes of the call: input was read, or the body is over.
LEMMA ReturnToBodyDescends ==
  ASSUME IInv, DrainInv, ReturnToBody PROVE Descends
<1>1. /\ InCall("body") /\ pc = "handler" /\ call.ops = <<>> /\ call.status \in RouteStatus
      /\ net' = net
  BY IInvFacts DEF ReturnToBody, Returns, InCall, Call
<1>2. PICK d \in AfterStatus(conn, call.status) : BodyTail(d)
  BY DEF ReturnToBody
<1>3. conn \in GoodConn /\ Len(buf) \in Nat /\ buf # <<>> /\ Drains(conn, <<>>)
  BY <1>1, IInvFacts DEF DrainInv
<1>4. d \in Unread(conn) /\ d \in GoodConn
  <2>1. HalfRead(conn)
    BY <1>3 DEF Drains, HalfRead
  <2> QED
    BY <1>1, <1>2, <1>3, <2>1, AfterStatusUnread DEF Unread
<1>5. d.block.route \in {conn.block.route, NoRoute}
  BY <1>4 DEF Unread, ZeroBlock
<1>6. Stage = 4
  BY <1>1 DEF Stage, InCall
<1>7. CASE BodyFault(d) # "none"
  <2>1. /\ conn' = [d EXCEPT !.fault = BodyFault(d)] /\ pc' = "halted"
        /\ UNCHANGED <<buf, bufpos>>
    BY <1>2, <1>7 DEF BodyTail, Goto
  <2>2. conn'.block = d.block
    BY <1>4, <2>1 DEF GoodConn, Conn
  <2>3. Stage' = 0
    BY <2>1 DEF Stage
  <2> QED
    BY <1>1, <1>5, <1>6, <2>1, <2>2, <2>3, LessStage, DrainOn DEF Descends
<1>8. CASE BodyFault(d) = "none"
  <2>1. /\ Read(d) \in Nat /\ Read(d) <= Len(buf)
        /\ ~Is(d, "REQUEST_CHUNKED") => d.block.length # SIZE_MAX
    BY <1>3, <1>4, <1>8, ReadRange
  <2>2. Consume(Read(d)) /\ conn' = Account(d) /\ pc' \notin {"match", "handler"}
    BY <1>2, <1>8 DEF BodyTail, ReturnTrue, Goto
  <2>3. conn'.block.route \in {conn.block.route, NoRoute}
    BY <1>4, <1>5, <2>2 DEF Account, GoodConn, Conn, Block
  <2>4. CASE Read(d) > 0
    BY <1>1, <2>1, <2>2, <2>3, <2>4, ConsumeDescends
  <2>5. CASE Read(d) = 0
    <3>1. pc' \in {"parse", "halted"}
      <4>1. Len(buf) # 0
        BY <1>3, IInvFacts, EmptySeq
      <4> QED
        BY <1>2, <1>8, <2>5, <4>1 DEF BodyTail, Goto
    <3>2. buf' = buf
      <4>1. Consume(0) /\ 0 \in Nat /\ 0 <= Len(buf)
        BY <1>3, <2>2, <2>5
      <4>2. buf' = SubSeq(buf, 1, Len(buf))
        BY <4>1 DEF Consume
      <4> QED
        BY <4>2, IInvFacts
    <3>3. \/ d.block = ZeroBlock
          \/ Least(Len(buf), Remaining(d)) = 0
      <4> SUFFICES ASSUME d.block # ZeroBlock PROVE Least(Len(buf), Remaining(d)) = 0
        OBVIOUS
      <4>1. d.block = conn.block /\ d.chunkLen = conn.chunkLen /\ d.chunkLen \in Nat
        BY <1>4 DEF Unread, GoodConn, Conn
      <4>2. Remaining(d) = Remaining(conn)
        BY <4>1 DEF Remaining, Is
      <4>3. \/ Least(Len(buf), Remaining(conn)) = 0
            \/ conn.chunkLen < Least(Len(buf), Remaining(conn))
        BY <1>3, <4>1 DEF Drains
      <4>4. Least(Len(buf), Remaining(d)) \in Nat
        BY <1>3, <1>4, RemainingNat DEF Least
      <4> QED
        BY <2>5, <4>1, <4>2, <4>3, <4>4 DEF Read
    <3>4. ~(/\ conn'.block.state = REQUEST_BODY
            /\ ~(Is(conn', "REQUEST_CHUNKED") /\ Is(conn', "REQUEST_CHUNKED_LINE")))
      <4>1. CASE d.block = ZeroBlock
        <5>1. ~Is(d, "REQUEST_CHUNKED") /\ d.block.length = 0
          BY <4>1 DEF Is, ZeroBlock
        <5>2. conn'.block.state = RESPONSE_BEGIN
          BY <1>4, <2>2, <2>5, <5>1 DEF Account, GoodConn, Conn, Block
        <5> QED
          BY <5>2, StatesApart
      <4>2. CASE d.block # ZeroBlock
        <5>1. Remaining(d) = 0
          <6>1. Len(buf) # 0
            BY <1>3, IInvFacts, EmptySeq
          <6> QED
            BY <1>3, <1>4, <3>3, <4>2, <6>1, RemainingNat DEF Least
        <5>2. CASE Is(d, "REQUEST_CHUNKED")
          <6>1. d.block.chunkPos + Read(d) = d.block.chunkSize
            BY <1>4, <2>5, <5>1, <5>2 DEF Remaining, GoodConn, Conn, Block
          <6>2. conn'.block.flags = d.block.flags \cup {"REQUEST_CHUNKED_LINE"}
            BY <1>4, <2>2, <5>2, <6>1 DEF Account, GoodConn, Conn, Block
          <6> QED
            BY <5>2, <6>2 DEF Is
        <5>3. CASE ~Is(d, "REQUEST_CHUNKED")
          <6>1. Read(d) = d.block.length
            BY <2>1, <2>5, <5>1, <5>3 DEF Remaining
          <6>2. conn'.block.state = RESPONSE_BEGIN
            BY <1>4, <2>2, <5>3, <6>1 DEF Account, GoodConn, Conn, Block
          <6> QED
            BY <6>2, StatesApart
        <5> QED
          BY <5>2, <5>3
      <4> QED
        BY <4>1, <4>2
    <3>5. Stage' \in {0, 3}
      BY <3>1, <3>4 DEF Stage
    <3> QED
      BY <1>1, <1>6, <2>2, <2>3, <3>2, <3>5, LessStage, DrainOn DEF Descends
  <2> QED
    BY <2>1, <2>4, <2>5
<1> QED
  BY <1>7, <1>8

LEMMA ReturnToBeginDescends ==
  ASSUME IInv, DrainInv, OwnerIsRoute, CallInv, ReturnToBegin PROVE Descends
<1>1. /\ InCall("begin") /\ pc = "handler" /\ call.ops = <<>>
      /\ call.status \in RouteStatus /\ UNCHANGED <<buf, net>>
      /\ Returns({"begin", "begin404"})
  BY IInvFacts DEF ReturnToBegin, Returns, InCall, Call
<1>2. conn \in GoodConn /\ conn.block.route \in 1..NRoutes /\ NRoutes \in Nat
  BY <1>1, IInvFacts, HttpConstants
     DEF CallInv, DrainInv, InCall, GoodConn, Conn, Block, NoRoute, R404
<1>3. PICK d \in AfterStatus(conn, call.status) :
        CASE ReturnedStatus(conn, call.status) = "FOUND" ->
               IF d.block.route = NoRoute THEN Goto(d, "match")
               ELSE Goto(Accepted(d), "parse")
          [] ReturnedStatus(conn, call.status) = "NOT_FOUND" -> Goto(NextRoute(d), "match")
          [] OTHER -> ReturnTrue(d)
  BY DEF ReturnToBegin
<1>4. /\ d \in GoodConn /\ d.block.route = conn.block.route
      /\ d.block.state = REQUEST_BEGIN
  <2>1. d \in Moves(conn)
    BY <1>1, <1>3, OwnConnFacts, AfterStatusMoves
  <2> QED
    BY <1>1, <2>1, AskedFacts
<1>5. Stage = 6 /\ RoutesLeft = NRoutes + 1 - conn.block.route /\ OpsLeft = 1
  BY <1>1, <1>2 DEF Stage, RoutesLeft, OpsLeft, InCall, NoRoute, R404
<1>6. CASE Goto(Accepted(d), "parse")
  <2>1. conn'.block.route = conn.block.route /\ pc' \in {"parse", "halted"}
    BY <1>4, <1>6 DEF Accepted, Goto, GoodConn, Conn, Block
  <2>2. Stage' < 6
    BY <2>1 DEF Stage
  <2> QED
    BY <1>1, <1>5, <2>1, <2>2, LessStage, DrainOn DEF Descends
<1>7. CASE ReturnedStatus(conn, call.status) = "NOT_FOUND" /\ Goto(NextRoute(d), "match")
  <2>1. call.status = "NOT_FOUND"
    BY <1>7 DEF ReturnedStatus
  <2>2. conn.block.route < NRoutes
    BY <1>1, <1>2, <2>1 DEF DrainInv
  <2>3. conn'.block.route = conn.block.route + 1 /\ pc' \in {"match", "halted"}
    <3>1. conn' = [d EXCEPT !.block.route = @ + 1] /\ pc' \in {"match", "halted"}
      BY <1>2, <1>4, <1>7, <2>2, NextRouteOf DEF Goto, NoRoute
    <3> QED
      BY <1>4, <3>1 DEF GoodConn, Conn, Block
  <2>4. DrainInv'
    BY <1>2, <2>2, <2>3 DEF DrainInv, InCall, NoRoute, R404
  <2>5. CASE pc' = "halted"
    <3>1. Stage' = 0
      BY <2>5 DEF Stage
    <3> QED
      BY <1>1, <1>5, <2>4, <3>1, LessStage DEF Descends
  <2>6. CASE pc' = "match"
    <3>1. Stage' = 6 /\ RoutesLeft' = NRoutes + 2 - conn'.block.route /\ OpsLeft' = 0
      BY <1>2, <2>3, <2>6 DEF Stage, RoutesLeft, OpsLeft, NoRoute, R404
    <3>2. RoutesLeft' = RoutesLeft /\ OpsLeft' < OpsLeft
      BY <1>2, <1>5, <2>3, <3>1
    <3> QED
      BY <1>1, <1>5, <2>4, <3>1, <3>2, LessRoutes DEF Descends
  <2> QED
    BY <2>3, <2>5, <2>6
<1>8. CASE ReturnTrue(d)
  BY <1>1, <1>4, <1>8, ReturnDescends
<1> QED
  BY <1>2, <1>3, <1>4, <1>6, <1>7, <1>8 DEF NoRoute

LEMMA HandlerDescends ==
  ASSUME IInv, DrainInv, OwnerIsRoute, CallInv, Handler PROVE Descends
<1>1. /\ pc = "handler" /\ call.status \in RouteStatus /\ conn \in GoodConn
  BY IInvFacts DEF Handler, HandlerOp, ReturnToBegin, ReturnToLastResort,
                   ReturnToHeader, ReturnToBody, ReturnToWrite, Returns, Call
<1>2. AfterStatus(conn, call.status) \subseteq Moves(conn)
  BY <1>1, OwnConnFacts, AfterStatusMoves
<1>3. \A d \in Moves(conn) : d.block.route \in {conn.block.route, NoRoute}
  BY DEF Moves, Moved, SameRequest
<1>4. ~ReturnToLastResort
  BY DEF ReturnToLastResort, Returns, DrainInv, InCall
<1>5. CASE ReturnToHeader
  <2>1. PICK d \in AfterStatus(conn, call.status) : Goto(d, "parse")
    BY <1>5 DEF ReturnToHeader
  <2>2. InCall("header") /\ UNCHANGED <<buf, net>>
    BY <1>5 DEF ReturnToHeader, Returns, InCall
  <2>3. HalfRead(conn) /\ conn.block.state # REQUEST_BODY
    BY <2>2, StatesApart DEF DrainInv, HalfRead, ZeroBlock
  <2>4. conn' = d /\ pc' \in {"parse", "halted"} /\ d \in Unread(conn)
    BY <1>1, <2>1, <2>3, AfterStatusUnread DEF Goto
  <2>5. conn'.block.state # REQUEST_BODY
    BY <2>3, <2>4, StatesApart DEF Unread, ZeroBlock
  <2>6. Stage' \in {0, 3} /\ Stage = 4
    BY <2>2, <2>4, <2>5 DEF Stage, InCall
  <2>7. conn'.block.route \in {conn.block.route, NoRoute}
    BY <1>2, <1>3, <2>1, <2>4
  <2> QED
    BY <2>2, <2>4, <2>6, <2>7, LessStage, DrainOn DEF Descends
<1>6. CASE ReturnToWrite
  <2>1. PICK d \in AfterStatus(conn, call.status) : Goto(d, "select")
    BY <1>6 DEF ReturnToWrite
  <2>2. conn' = d /\ pc' \in {"select", "halted"} /\ UNCHANGED <<buf, net>>
    BY <1>6, <2>1 DEF ReturnToWrite, Goto
  <2>3. Stage' = 0 /\ Stage \in {4, 6}
    BY <1>1, <2>2 DEF Stage
  <2> QED
    BY <1>2, <1>3, <2>1, <2>2, <2>3, LessStage, DrainOn DEF Descends
<1> QED
  BY <1>4, <1>5, <1>6, HandlerOpDescends, ReturnToBeginDescends, ReturnToBodyDescends
     DEF Handler

-----------------------------------------------------------------------------
(* The steps from the select loop, and the theorem.                            *)

\* Those of the loop itself, of the peer, and none at all.
LEMMA SelectDrain ==
  ASSUME Draining, IInv, DrainInv, OwnerIsRoute,
         \/ OnConnect \/ PendingClose \/ IdleTimeout \/ DoWrite \/ PeerSends
         \/ UNCHANGED vars
         \/ pc \in {"accepted", "select"} /\ (Recv \/ RecvEnd \/ ReadDone)
  PROVE  DrainInv'
<1>1. CASE OnConnect
  <2>1. conn'.block = conn.block /\ pc' \notin {"match", "handler"}
    BY <1>1, IInvFacts DEF OnConnect, Goto, Conn
  <2> QED
    BY <2>1, DrainOn
<1>2. CASE PendingClose \/ IdleTimeout
  <2>1. pc = "select" /\ Close
    BY <1>2 DEF PendingClose, IdleTimeout
  <2>2. PICK d \in Finalize(conn) :
          IF d.fault # "none" THEN Goto(d, "halted")
          ELSE Goto([d EXCEPT !.sock = {}, !.waiting = FALSE], "closed")
    BY <2>1 DEF Close
  <2>3. d \in Keeps(conn)
    BY <2>1, <2>2, OwnConnFacts, FinalizeKeeps
  <2>4. conn'.block = d.block /\ pc' \notin {"match", "handler"}
    BY <2>2, <2>3 DEF Goto, Keeps, GoodConn, Conn
  <2>5. d.block.route \in {conn.block.route, NoRoute}
    BY <2>3 DEF Keeps, KeptRequest, SameRequest, Ended
  <2> QED
    BY <2>4, <2>5, DrainOn
<1>3. CASE DoWrite
  <2>1. CallHandler(conn, "response") /\ conn \in GoodConn /\ "response" \in Caller
    BY <1>3, IInvFacts DEF DoWrite, Caller
  <2>2. /\ conn'.block = conn.block
        /\ pc' = "halted" \/ (pc' = "handler" /\ call'.by = "response")
    BY <2>1, CallDrain
  <2> QED
    BY <2>2 DEF DrainInv, InCall
<1>4. CASE PeerSends
  <2>1. conn'.block = conn.block /\ conn'.chunkLen = conn.chunkLen
        /\ UNCHANGED <<pc, call, buf>>
    BY <1>4, IInvFacts DEF PeerSends, Conn
  <2>2. Remaining(conn)' = Remaining(conn)
    BY <2>1 DEF Remaining, Is
  <2>3. Drains(conn, call.ops)' = Drains(conn, call.ops)
    BY <2>1, <2>2 DEF Drains
  <2> QED
    BY <2>1, <2>3 DEF DrainInv, InCall
<1>5. CASE UNCHANGED vars
  BY <1>5 DEF vars, DrainInv, InCall, Drains, Remaining, Is
<1>6. CASE Recv \/ RecvEnd \/ ReadDone
  <2>1. conn'.block = conn.block /\ pc' \notin {"match", "handler"}
    BY <1>6, IInvFacts DEF Recv, RecvEnd, ReadDone, Goto, PendClose, Conn
  <2> QED
    BY <2>1, DrainOn
<1> QED
  BY <1>1, <1>2, <1>3, <1>4, <1>5, <1>6

LEMMA NextDescends ==
  ASSUME Draining, IInv, DrainInv, OwnerIsRoute, CallInv, ReadsRequests, [Next]_vars
  PROVE  /\ DrainInv'
         /\ \/ pc = "accepted" \/ pc = "select" \/ PeerSends \/ UNCHANGED vars
            \/ Less(Work', Work)
<1>1. CASE RequestBegin \/ Matching \/ RequestHeader \/ RequestBody \/ Handler
  BY <1>1, RequestBeginDescends, MatchingDescends, RequestHeaderDescends,
     RequestBodyDescends, HandlerDescends DEF Descends
<1>2. CASE (Recv \/ RecvEnd \/ ReadDone) /\ pc \notin {"accepted", "select"}
  BY <1>2, AroundDescends DEF Descends
<1>3. CASE \/ OnConnect \/ PendingClose \/ IdleTimeout \/ DoWrite \/ PeerSends
           \/ UNCHANGED vars
           \/ pc \in {"accepted", "select"} /\ (Recv \/ RecvEnd \/ ReadDone)
  <2>1. DrainInv'
    BY <1>3, SelectDrain
  <2>2. pc = "accepted" \/ pc = "select" \/ PeerSends \/ UNCHANGED vars
    BY <1>3 DEF OnConnect, PendingClose, IdleTimeout, DoWrite
  <2> QED
    BY <2>1, <2>2
<1> QED
  BY <1>1, <1>2, <1>3 DEF Next, Worker, Environment, Stopped

\* Handlers that read of the bodies they are handed get every callback back to the
\* select loop, as long as the parser is in step: none of do_read, request_begin,
\* request_header and request_body loops, chunked bodies and TLS rounds included.
THEOREM CallbacksEnd ==
  ASSUME Draining PROVE Spec /\ []InStep => CallbackEnds
<1>1. InStep => ReadsRequests
  BY DEF InStep, ReadsRequests
<1>2. IInv /\ OwnerIsRoute /\ CallInv /\ InStep /\ DrainInv /\ [Next]_vars
        => /\ OwnerIsRoute' /\ CallInv' /\ DrainInv'
           /\ [pc = "accepted" \/ pc = "select" \/ PeerSends \/ Less(Work', Work)]_vars
  BY <1>1, NextSpoken, NextDescends DEF Spoken
<1> QED
  BY <1>2, InitSpoken, InitDrain, IInvHolds, PTL DEF Spec, CallbackEnds

\* The same from what peer and handlers do alone.
THEOREM CallbacksReturn ==
  ASSUME Orderly, Draining PROVE Spec => CallbackEnds
BY StaysInStep, CallbacksEnd

\* Less as a relation.
WorkOrder == {vw \in [1..5 -> Nat] \X [1..5 -> Nat] : Less(vw[1], vw[2])}

\* There is no end to Less: a callback that takes steps of its own for ever does not
\* exist, for Work is a tuple of five natural numbers in lexicographic order
\* (the loops of do_read, request_begin and request_body of src/http.c).
THEOREM WorkRunsOut ==
  /\ Spec => [](Work \in [1..5 -> Nat])
  /\ IsWellFoundedOn(WorkOrder, [1..5 -> Nat])
<1>1. IInv => Work \in [1..5 -> Nat]
  <2> SUFFICES ASSUME IInv PROVE Work \in [1..5 -> Nat]
    OBVIOUS
  <2>1. Len(net) \in Nat /\ Len(buf) \in Nat /\ Len(call.ops) \in Nat
    BY IInvFacts DEF Call
  <2>2. Stage \in Nat
    BY DEF Stage
  <2>3. RoutesLeft \in Nat
    BY IInvFacts, HttpConstants DEF RoutesLeft, Conn, Block, NoRoute, R404
  <2>4. OpsLeft \in Nat
    BY <2>1 DEF OpsLeft
  <2> QED
    BY <2>1, <2>2, <2>3, <2>4 DEF Work
<1>2. Spec => [](Work \in [1..5 -> Nat])
  BY <1>1, IInvHolds, PTL
<1> DEFINE R == OpToRel(<, Nat)
<1>3. IsWellFoundedOn(LexProductOrdering(R, Nat, 5), [1..5 -> Nat])
  BY NatLessThanWellFounded, WFLexProductOrdering
<1>4. WorkOrder \subseteq LexProductOrdering(R, Nat, 5)
  BY DEF WorkOrder, Less, LexProductOrdering, OpToRel
<1>5. IsWellFoundedOn(WorkOrder, [1..5 -> Nat])
  BY <1>3, <1>4 DEF IsWellFoundedOn
<1> QED
  BY <1>2, <1>5
=============================================================================
