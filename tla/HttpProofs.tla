----------------------------- MODULE HttpProofs -----------------------------
(* The operators of Http keep a connection well formed.                     *)
EXTENDS Http, TLAPS

\* A failed send marks the socket; over TLS, one that would block does not.
Loud == Tls => "again" \notin SendFaults

\* A connection of the right type that is not past the end of its request chunk
\* and, if failed sends mark, is marked to be closed once one has failed.
Marked(c) == Loud /\ c.wire.at = "lost" => "PEND_CLOSE" \in c.sock
GoodConn  == {c \in Conn : c.block.chunkPos <= c.block.chunkSize /\ Marked(c)}

LEMMA PendCloseGood ==
  ASSUME NEW c \in GoodConn PROVE PendClose(c) \in GoodConn
BY DEF GoodConn, Conn, PendClose, SockFlag, Marked

LEMMA ShutdownGood ==
  ASSUME NEW c \in GoodConn PROVE Shutdown(c) \in GoodConn
BY DEF GoodConn, Conn, Shutdown, SockFlag, Marked

LEMMA ZeroBlockType == ZeroBlock \in Block
BY HttpConstants DEF ZeroBlock, Block, SessState, REQUEST_BEGIN, NoRoute, R404

LEMMA WireStepType ==
  ASSUME NEW w \in Wire, NEW piece, NEW n \in Nat
  PROVE  /\ WireStep(w, piece, n) \in Wire
         /\ WireStep(w, piece, n).at = "lost" => w.at = "lost"
BY DEF Wire, WireStep, Unbounded, Chunked

LEMMA SendOkGood ==
  ASSUME NEW c \in GoodConn, NEW piece, NEW n \in Nat
  PROVE  SendOk(c, piece, n) \subseteq GoodConn
<1>1. c.wire \in Wire
  BY DEF GoodConn, Conn
<1>2. /\ WireStep(c.wire, piece, n) \in Wire
      /\ WireStep(c.wire, piece, n).at = "lost" => c.wire.at = "lost"
  BY <1>1, WireStepType
<1> QED
  BY <1>2 DEF SendOk, GoodConn, Conn, Marked

LEMMA SendFailGood ==
  ASSUME NEW c \in GoodConn
  PROVE  SendFail(c) \subseteq GoodConn
<1> DEFINE d == [c EXCEPT !.wire.at = "lost"]
<1>1. d \in Conn /\ d.block = c.block
  BY DEF GoodConn, Conn, Wire
<1>2. PendClose(d) \in GoodConn
  BY <1>1 DEF GoodConn, Conn, PendClose, SockFlag, Marked
<1>3. Tls /\ "again" \in SendFaults => d \in GoodConn
  BY <1>1 DEF GoodConn, Marked, Loud
<1> QED
  BY <1>2, <1>3 DEF SendFail, Failed

LEMMA ReleaseGood ==
  ASSUME NEW c \in GoodConn PROVE Release(c) \in GoodConn
<1> DEFINE heap  == IF c.block.boundary THEN c.heap - 1 ELSE c.heap
           owner == IF c.block.route = NoRoute THEN c.owner
                    ELSE IF c.owner = c.block.route THEN NoRoute ELSE Stray
           d == [c EXCEPT !.block = ZeroBlock, !.heap = heap, !.owner = owner,
                          !.waiting = FALSE]
<1>1. heap \in Int
  BY DEF GoodConn, Conn
<1>2. owner \in 0..Stray
  BY HttpConstants DEF GoodConn, Conn, NoRoute, Stray, R404
<1>3. d \in Conn /\ d.block = ZeroBlock /\ d.wire = c.wire /\ d.sock = c.sock
  <2> HIDE DEF heap, owner
  <2> QED
    BY <1>1, <1>2, ZeroBlockType DEF GoodConn, Conn
<1>4. ZeroBlock.chunkPos <= ZeroBlock.chunkSize
  BY DEF ZeroBlock
<1>5. d \in GoodConn
  <2> HIDE DEF d
  <2> QED
    BY <1>3, <1>4 DEF GoodConn, Marked
<1> QED
  BY <1>5, ShutdownGood DEF Release

LEMMA FinalizeGood ==
  ASSUME NEW c \in GoodConn PROVE Finalize(c) \subseteq GoodConn
<1>1. SendOk(c, "last", 0) \subseteq GoodConn /\ SendFail(c) \subseteq GoodConn
  BY SendOkGood, SendFailGood
<1>2. ASSUME NEW f \in SendFail(c)
      PROVE  /\ SendOk(f, "last", 0) \subseteq GoodConn
             /\ [f EXCEPT !.fault = "recursion"] \in GoodConn
  <2>1. f \in GoodConn
    BY <1>1
  <2>2. [f EXCEPT !.fault = "recursion"] \in GoodConn
    BY <2>1 DEF GoodConn, Conn, Fault, Marked
  <2> QED
    BY <2>1, <2>2, SendOkGood
<1>3. \A d \in GoodConn : Release(d) \in GoodConn /\ Shutdown(Release(d)) \in GoodConn
  BY ReleaseGood, ShutdownGood
<1> QED
  BY <1>1, <1>2, <1>3 DEF Finalize

LEMMA FinalizeAllGood ==
  ASSUME NEW S \in SUBSET GoodConn PROVE FinalizeAll(S) \subseteq GoodConn
BY FinalizeGood DEF FinalizeAll

LEMMA RawSendGood ==
  ASSUME NEW c \in GoodConn, NEW piece, NEW n \in Nat
  PROVE  RawSend(c, piece, n) \subseteq GoodConn
BY SendOkGood, SendFailGood, FinalizeAllGood DEF RawSend

LEMMA RawSendAllGood ==
  ASSUME NEW S \in SUBSET GoodConn, NEW piece, NEW n \in Nat
  PROVE  RawSendAll(S, piece, n) \subseteq GoodConn
BY RawSendGood DEF RawSendAll

-----------------------------------------------------------------------------
(* The session operations.                                                 *)

LEMMA HttpStatusGood ==
  ASSUME NEW c \in GoodConn PROVE HttpStatus(c) \subseteq GoodConn
BY FinalizeGood, RawSendGood DEF HttpStatus

LEMMA HttpErrorGood ==
  ASSUME NEW c \in GoodConn PROVE HttpError(c) \subseteq GoodConn
<1> DEFINE S == RawSendAll(RawSendAll(HttpStatus(c), "errhead", 1), "data", 1)
<1>1. RawSendAll(HttpStatus(c), "errhead", 1) \in SUBSET GoodConn
  BY HttpStatusGood, RawSendAllGood
<1>2. S \in SUBSET GoodConn
  BY <1>1, RawSendAllGood
<1> HIDE DEF S
<1>3. FinalizeAll(S) \subseteq GoodConn
  BY <1>2, FinalizeAllGood
<1> USE DEF S
<1> QED
  BY <1>3, FinalizeGood DEF HttpError

LEMMA HttpHeaderGood ==
  ASSUME NEW c \in GoodConn, NEW h PROVE HttpHeader(c, h) \subseteq GoodConn
<1> DEFINE flags == CASE h = "close"     -> c.block.flags \ {"KEEPALIVE"}
                      [] h = "keepalive" -> c.block.flags \cup {"KEEPALIVE"}
                      [] h = "chunked"   -> c.block.flags \cup {"RESPONSE_CHUNKED"}
                      [] OTHER           -> c.block.flags
           left == IF h = "length" THEN DeclaredLen ELSE c.block.left
           d == [c EXCEPT !.block.flags = flags, !.block.left = left]
<1>1. flags \in SUBSET HttpFlag /\ left \in Nat
  BY HttpConstants DEF GoodConn, Conn, Block, HttpFlag
<1>2. d \in GoodConn
  <2> HIDE DEF flags, left
  <2> QED
    BY <1>1 DEF GoodConn, Conn, Block, Marked
<1>3. RawSend(d, h, DeclaredLen) \subseteq GoodConn
  <2> HIDE DEF d
  <2> QED
    BY <1>2, RawSendGood, HttpConstants
<1> QED
  BY <1>3, HttpErrorGood DEF HttpHeader

LEMMA HttpSendGood ==
  ASSUME NEW c \in GoodConn PROVE HttpSend(c) \subseteq GoodConn
<1>1. CASE c.block.state # RESPONSE_BODY
  BY <1>1, HttpErrorGood DEF HttpSend
<1>2. CASE c.block.state = RESPONSE_BODY /\ Is(c, "RESPONSE_CHUNKED")
  <2>1. SendOk(c, "frame", 0) \in SUBSET GoodConn
    BY SendOkGood
  <2>2. RawSendAll(SendOk(c, "frame", 0), "data", SendLen) \subseteq GoodConn
    BY <2>1, RawSendAllGood, HttpConstants
  <2>3. FinalizeAll(SendFail(c)) \subseteq GoodConn
    BY SendFailGood, FinalizeAllGood
  <2> QED
    BY <1>2, <2>2, <2>3 DEF HttpSend
<1>3. CASE c.block.state = RESPONSE_BODY /\ ~Is(c, "RESPONSE_CHUNKED")
  <2> DEFINE left == c.block.left
             len  == IF left > 0 THEN Least(SendLen, left) ELSE SendLen
             rest == IF left > 0 THEN left - len ELSE left
  <2>1. len \in Nat /\ rest \in Nat
    BY HttpConstants DEF GoodConn, Conn, Block, Least
  <2> HIDE DEF len
  <2>2. \A d \in SendOk(c, "data", len) : d \in GoodConn /\ d.block.left = left
    <3>1. \A d \in SendOk(c, "data", len) : d.block = c.block
      BY DEF SendOk, GoodConn, Conn
    <3> QED
      BY <2>1, <3>1, SendOkGood
  <2>3. \A d \in SendOk(c, "data", len) :
          [d EXCEPT !.block.left = IF left > 0 THEN @ - len ELSE @] \in GoodConn
    BY <2>1, <2>2 DEF GoodConn, Conn, Block, Marked
  <2>4. FinalizeAll(SendFail(c)) \subseteq GoodConn
    BY SendFailGood, FinalizeAllGood
  <2> USE DEF len
  <2> QED
    BY <1>3, <2>3, <2>4 DEF HttpSend
<1> QED
  BY <1>1, <1>2, <1>3

LEMMA HttpRecvGood ==
  ASSUME NEW c \in GoodConn, NEW len \in Nat PROVE HttpRecv(c, len) \in GoodConn
BY DEF HttpRecv, Least, GoodConn, Conn, Marked

LEMMA SessionOpGood ==
  ASSUME NEW c \in GoodConn, NEW op PROVE SessionOp(c, op) \subseteq GoodConn
<1>1. c.chunkLen \in Nat
  BY DEF GoodConn, Conn
<1> QED
  BY <1>1, HttpStatusGood, HttpErrorGood, HttpSendGood, HttpRecvGood, HttpHeaderGood
  DEF SessionOp

-----------------------------------------------------------------------------
(* The tail of call_handler.                                               *)

LEMMA SetStateGood ==
  ASSUME NEW c \in GoodConn, NEW s \in SessState
  PROVE  [c EXCEPT !.block.state = s] \in GoodConn
BY DEF GoodConn, Conn, Block, Marked

LEMMA SetBlockGood ==
  ASSUME NEW c \in GoodConn, NEW b \in Block, b.chunkPos <= b.chunkSize
  PROVE  [c EXCEPT !.block = b] \in GoodConn
<1>1. c \in Conn
  BY DEF GoodConn
<1>2. [c EXCEPT !.block = b] \in Conn
  BY <1>1 DEF Conn
<1> QED
  BY <1>1, <1>2 DEF GoodConn, Conn, Marked

LEMMA AdvanceGood ==
  ASSUME NEW c \in GoodConn PROVE Advance(c) \subseteq GoodConn
<1>1. RESPONSE_HEADER \in SessState /\ RESPONSE_BODY \in SessState
  BY DEF SessState
<1>2. RawSend(c, "blank", 0) \subseteq GoodConn
  BY RawSendGood
<1>3. \A d \in RawSend(c, "blank", 0) :
        [d EXCEPT !.block.state = RESPONSE_BODY] \in GoodConn
  BY <1>1, <1>2, SetStateGood
<1> QED
  BY <1>1, <1>3, SetStateGood, FinalizeGood DEF Advance

LEMMA AfterStatusGood ==
  ASSUME NEW c \in GoodConn, NEW status \in RouteStatus
  PROVE  AfterStatus(c, status) \subseteq GoodConn
<1>1. PendClose(c) \in GoodConn
  BY PendCloseGood
<1> QED
  BY <1>1, HttpErrorGood, FinalizeGood, AdvanceGood DEF AfterStatus, RouteStatus

-----------------------------------------------------------------------------
(* Whose request it is.  Until its FINALIZE, the owner is the route of the  *)
(* block, and nothing but finalize ends a request.                          *)

Owned(c) == c.owner = IF c.block.state = REQUEST_BEGIN THEN NoRoute ELSE c.block.route

SameRequest(c, d) == d.owner = c.owner /\ d.block.route = c.block.route
Ended(d) == d.block.state = REQUEST_BEGIN /\ d.block.route = NoRoute

\* The connections an operation may leave: the request goes on, or has ended.
KeptRequest(c, d) ==
  \/ SameRequest(c, d) /\ d.block.state = c.block.state
  \/ c.block.state # REQUEST_BEGIN /\ Ended(d)
Keeps(c) == {d \in GoodConn : Owned(d) /\ KeptRequest(c, d)}

\* Those that a returned call may leave.
StateMoves == {<<REQUEST_BODY, RESPONSE_BEGIN>>, <<RESPONSE_BEGIN, RESPONSE_HEADER>>,
               <<RESPONSE_HEADER, RESPONSE_BODY>>}
Moved(c, d) ==
  \/ /\ SameRequest(c, d)
     /\ d.block.state = c.block.state \/ <<c.block.state, d.block.state>> \in StateMoves
  \/ /\ c.block.state # REQUEST_BEGIN \/ c.block.route = NoRoute
     /\ d.block.route = NoRoute
Moves(c) == {d \in GoodConn : Owned(d) /\ Moved(c, d)}

OwnConn == {c \in GoodConn : Owned(c)}

LEMMA KeepsSame ==
  ASSUME NEW c \in OwnConn, NEW d \in GoodConn, SameRequest(c, d),
         d.block.state = c.block.state
  PROVE  d \in Keeps(c)
BY DEF OwnConn, Keeps, KeptRequest, Owned, SameRequest

LEMMA KeepsOwn == ASSUME NEW c \in OwnConn, NEW d \in Keeps(c) PROVE d \in OwnConn
BY DEF OwnConn, Keeps

LEMMA KeepsThen ==
  ASSUME NEW c \in OwnConn, NEW d \in Keeps(c), NEW e \in Keeps(d)
  PROVE  e \in Keeps(c)
BY DEF OwnConn, Keeps, KeptRequest, SameRequest, Ended

LEMMA KeepsMoves == ASSUME NEW c \in OwnConn PROVE Keeps(c) \subseteq Moves(c)
BY DEF Keeps, KeptRequest, Moves, Moved, Ended

LEMMA PendCloseKeeps == ASSUME NEW c \in OwnConn PROVE PendClose(c) \in Keeps(c)
<1>1. c \in GoodConn /\ c \in Conn
  BY DEF OwnConn, GoodConn
<1>2. PendClose(c).owner = c.owner /\ PendClose(c).block = c.block
  BY <1>1 DEF PendClose, Conn
<1> QED
  BY <1>1, <1>2, PendCloseGood, KeepsSame DEF SameRequest

LEMMA ShutdownKeeps == ASSUME NEW c \in OwnConn PROVE Shutdown(c) \in Keeps(c)
<1>1. c \in GoodConn /\ c \in Conn
  BY DEF OwnConn, GoodConn
<1>2. Shutdown(c).owner = c.owner /\ Shutdown(c).block = c.block
  BY <1>1 DEF Shutdown, Conn
<1> QED
  BY <1>1, <1>2, ShutdownGood, KeepsSame DEF SameRequest

LEMMA SendOkKeeps ==
  ASSUME NEW c \in OwnConn, NEW piece, NEW n \in Nat
  PROVE  SendOk(c, piece, n) \subseteq Keeps(c)
<1> SUFFICES ASSUME NEW d \in SendOk(c, piece, n) PROVE d \in Keeps(c)
  OBVIOUS
<1>1. c \in GoodConn /\ c \in Conn
  BY DEF OwnConn, GoodConn
<1>2. d.owner = c.owner /\ d.block = c.block
  BY <1>1 DEF SendOk, Conn
<1> QED
  BY <1>1, <1>2, SendOkGood, KeepsSame DEF SameRequest

LEMMA SendFailKeeps == ASSUME NEW c \in OwnConn PROVE SendFail(c) \subseteq Keeps(c)
<1> SUFFICES ASSUME NEW d \in SendFail(c) PROVE d \in Keeps(c)
  OBVIOUS
<1>1. c \in GoodConn /\ c \in Conn
  BY DEF OwnConn, GoodConn
<1>2. d.owner = c.owner /\ d.block = c.block
  BY <1>1 DEF SendFail, Failed, PendClose, Conn
<1> QED
  BY <1>1, <1>2, SendFailGood, KeepsSame DEF SameRequest

\* The end of finalize gives the owner its FINALIZE (http.c:678-689).
LEMMA ReleaseKeeps ==
  ASSUME NEW c \in OwnConn, c.block.state # REQUEST_BEGIN
  PROVE  Release(c) \in Keeps(c) /\ Shutdown(Release(c)) \in Keeps(c)
<1>1. c \in GoodConn /\ c \in Conn /\ c.owner = c.block.route
  BY DEF OwnConn, GoodConn, Owned
<1>2. Release(c) \in GoodConn
  BY <1>1, ReleaseGood
<1>3. Release(c).owner = NoRoute /\ Release(c).block = ZeroBlock
  BY <1>1 DEF Release, Shutdown, Conn
<1>4. ZeroBlock.state = REQUEST_BEGIN /\ ZeroBlock.route = NoRoute
  BY DEF ZeroBlock
<1>5. Release(c) \in Keeps(c)
  BY <1>2, <1>3, <1>4 DEF Keeps, KeptRequest, Owned, Ended
<1> QED
  BY <1>5, KeepsOwn, KeepsThen, ShutdownKeeps

LEMMA FinalizeKeeps == ASSUME NEW c \in OwnConn PROVE Finalize(c) \subseteq Keeps(c)
<1> SUFFICES ASSUME NEW d \in Finalize(c) PROVE d \in Keeps(c)
  OBVIOUS
<1>1. CASE c.block.state = REQUEST_BEGIN
  <2>1. d = c
    BY <1>1 DEF Finalize
  <2> QED
    BY <2>1, KeepsSame DEF SameRequest, OwnConn
<1>2. CASE c.block.state # REQUEST_BEGIN
  <2>1. ASSUME NEW e \in Keeps(c), e.block.state # REQUEST_BEGIN
        PROVE  Release(e) \in Keeps(c) /\ Shutdown(Release(e)) \in Keeps(c)
    BY <2>1, KeepsOwn, KeepsThen, ReleaseKeeps
  <2>2. ASSUME NEW e, e \in SendOk(c, "last", 0) \/ e \in SendFail(c)
                      \/ \E f \in SendFail(c) : e \in SendOk(f, "last", 0)
        PROVE  e \in Keeps(c)
    BY <2>2, SendOkKeeps, SendFailKeeps, KeepsOwn, KeepsThen
  <2>3. ASSUME NEW e, e \in SendOk(c, "last", 0) \/ e \in SendFail(c)
                      \/ \E f \in SendFail(c) : e \in SendOk(f, "last", 0)
        PROVE  e.block = c.block
    <3>1. c \in Conn
      BY DEF OwnConn, GoodConn
    <3>2. \A f \in SendFail(c) : f \in Conn /\ f.block = c.block
      <4>1. \A f \in SendFail(c) : f \in Conn
        BY SendFailGood DEF OwnConn, GoodConn
      <4> QED
        BY <3>1, <4>1 DEF SendFail, Failed, PendClose, Conn
    <3> QED
      BY <2>3, <3>1, <3>2 DEF SendOk, Conn
  <2>4. ASSUME NEW f \in SendFail(c) PROVE [f EXCEPT !.fault = "recursion"] \in Keeps(c)
    <3>1. f \in Keeps(c) /\ f \in OwnConn /\ f \in GoodConn
      BY <2>2, KeepsOwn DEF OwnConn
    <3> DEFINE g == [f EXCEPT !.fault = "recursion"]
    <3>2. g \in GoodConn /\ g.owner = f.owner /\ g.block = f.block
      BY <3>1 DEF GoodConn, Conn, Fault, Marked
    <3> HIDE DEF g
    <3>3. g \in Keeps(f)
      BY <3>1, <3>2, KeepsSame DEF SameRequest
    <3>4. g \in Keeps(c)
      BY <3>1, <3>3, KeepsThen
    <3> QED
      BY <3>4 DEF g
  <2>5. c \in Keeps(c)
    BY KeepsSame DEF SameRequest, OwnConn
  <2> QED
    BY <1>2, <2>1, <2>2, <2>3, <2>4, <2>5 DEF Finalize
<1> QED
  BY <1>1, <1>2

LEMMA FinalizeAllKeeps ==
  ASSUME NEW c \in OwnConn, NEW S \in SUBSET Keeps(c)
  PROVE  FinalizeAll(S) \subseteq Keeps(c)
BY FinalizeKeeps, KeepsOwn, KeepsThen DEF FinalizeAll

LEMMA RawSendKeeps ==
  ASSUME NEW c \in OwnConn, NEW piece, NEW n \in Nat
  PROVE  RawSend(c, piece, n) \subseteq Keeps(c)
BY SendOkKeeps, SendFailKeeps, FinalizeAllKeeps DEF RawSend

LEMMA RawSendAllKeeps ==
  ASSUME NEW c \in OwnConn, NEW S \in SUBSET Keeps(c), NEW piece, NEW n \in Nat
  PROVE  RawSendAll(S, piece, n) \subseteq Keeps(c)
BY RawSendKeeps, KeepsOwn, KeepsThen DEF RawSendAll

LEMMA HttpStatusKeeps == ASSUME NEW c \in OwnConn PROVE HttpStatus(c) \subseteq Keeps(c)
<1>1. c \in Keeps(c)
  BY KeepsSame DEF SameRequest, OwnConn
<1> QED
  BY <1>1, FinalizeKeeps, RawSendKeeps DEF HttpStatus

LEMMA HttpErrorKeeps == ASSUME NEW c \in OwnConn PROVE HttpError(c) \subseteq Keeps(c)
<1> DEFINE S == RawSendAll(HttpStatus(c), "errhead", 1)
           T == RawSendAll(S, "data", 1)
<1>1. S \in SUBSET Keeps(c)
  BY HttpStatusKeeps, RawSendAllKeeps
<1> HIDE DEF S
<1>2. T \in SUBSET Keeps(c)
  BY <1>1, RawSendAllKeeps
<1> HIDE DEF T
<1>3. FinalizeAll(T) \subseteq Keeps(c)
  BY <1>2, FinalizeAllKeeps
<1> QED
  BY <1>3, FinalizeKeeps DEF HttpError, S, T

LEMMA HttpHeaderKeeps ==
  ASSUME NEW c \in OwnConn, NEW h PROVE HttpHeader(c, h) \subseteq Keeps(c)
<1> DEFINE flags == CASE h = "close"     -> c.block.flags \ {"KEEPALIVE"}
                      [] h = "keepalive" -> c.block.flags \cup {"KEEPALIVE"}
                      [] h = "chunked"   -> c.block.flags \cup {"RESPONSE_CHUNKED"}
                      [] OTHER           -> c.block.flags
           left == IF h = "length" THEN DeclaredLen ELSE c.block.left
           d == [c EXCEPT !.block.flags = flags, !.block.left = left]
<1>1. flags \in SUBSET HttpFlag /\ left \in Nat /\ c \in GoodConn
  BY HttpConstants DEF OwnConn, GoodConn, Conn, Block, HttpFlag
<1>2. /\ d \in GoodConn /\ d.owner = c.owner
      /\ d.block.state = c.block.state /\ d.block.route = c.block.route
  <2> HIDE DEF flags, left
  <2> QED
    BY <1>1 DEF GoodConn, Conn, Block, Marked
<1>3. RawSend(d, h, DeclaredLen) \subseteq Keeps(c)
  <2> HIDE DEF d
  <2>1. d \in Keeps(c)
    BY <1>2, KeepsSame DEF SameRequest
  <2> QED
    BY <2>1, KeepsOwn, KeepsThen, RawSendKeeps, HttpConstants
<1> QED
  BY <1>3, HttpErrorKeeps DEF HttpHeader

LEMMA HttpSendKeeps == ASSUME NEW c \in OwnConn PROVE HttpSend(c) \subseteq Keeps(c)
<1>1. CASE c.block.state # RESPONSE_BODY
  BY <1>1, HttpErrorKeeps DEF HttpSend
<1>2. CASE c.block.state = RESPONSE_BODY /\ Is(c, "RESPONSE_CHUNKED")
  <2>1. SendOk(c, "frame", 0) \in SUBSET Keeps(c)
    BY SendOkKeeps
  <2>2. RawSendAll(SendOk(c, "frame", 0), "data", SendLen) \subseteq Keeps(c)
    BY <2>1, RawSendAllKeeps, HttpConstants
  <2>3. FinalizeAll(SendFail(c)) \subseteq Keeps(c)
    BY SendFailKeeps, FinalizeAllKeeps
  <2> QED
    BY <1>2, <2>2, <2>3 DEF HttpSend
<1>3. CASE c.block.state = RESPONSE_BODY /\ ~Is(c, "RESPONSE_CHUNKED")
  <2> DEFINE left == c.block.left
             len  == IF left > 0 THEN Least(SendLen, left) ELSE SendLen
             rest == IF left > 0 THEN left - len ELSE left
  <2>1. len \in Nat /\ rest \in Nat
    BY HttpConstants DEF OwnConn, GoodConn, Conn, Block, Least
  <2> HIDE DEF len
  <2>2. ASSUME NEW d \in SendOk(c, "data", len)
        PROVE  [d EXCEPT !.block.left = IF left > 0 THEN @ - len ELSE @] \in Keeps(c)
    <3> DEFINE e == [d EXCEPT !.block.left = IF left > 0 THEN @ - len ELSE @]
    <3>1. d \in Keeps(c) /\ d \in OwnConn /\ d \in GoodConn
      BY <2>1, SendOkKeeps, KeepsOwn DEF OwnConn
    <3>2. d.block.left = left
      BY DEF SendOk, OwnConn, GoodConn, Conn
    <3>3. /\ e \in GoodConn /\ e.owner = d.owner
          /\ e.block.state = d.block.state /\ e.block.route = d.block.route
      BY <2>1, <3>1, <3>2 DEF GoodConn, Conn, Block, Marked
    <3> HIDE DEF e
    <3>4. e \in Keeps(d)
      BY <3>1, <3>3, KeepsSame DEF SameRequest
    <3>5. e \in Keeps(c)
      BY <3>1, <3>4, KeepsThen
    <3> QED
      BY <3>5 DEF e
  <2>4. FinalizeAll(SendFail(c)) \subseteq Keeps(c)
    BY SendFailKeeps, FinalizeAllKeeps
  <2> USE DEF len
  <2> QED
    BY <1>3, <2>2, <2>4 DEF HttpSend
<1> QED
  BY <1>1, <1>2, <1>3

LEMMA HttpRecvKeeps ==
  ASSUME NEW c \in OwnConn, NEW len \in Nat PROVE HttpRecv(c, len) \in Keeps(c)
<1>1. c \in GoodConn
  BY DEF OwnConn
<1>2. HttpRecv(c, len).owner = c.owner /\ HttpRecv(c, len).block = c.block
  BY <1>1 DEF HttpRecv, GoodConn, Conn
<1> QED
  BY <1>1, <1>2, HttpRecvGood, KeepsSame DEF SameRequest

\* No operation but a finalize inside it ends a request.
LEMMA SessionOpKeeps ==
  ASSUME NEW c \in OwnConn, NEW op PROVE SessionOp(c, op) \subseteq Keeps(c)
<1>1. c.chunkLen \in Nat
  BY DEF OwnConn, GoodConn, Conn
<1> QED
  BY <1>1, HttpStatusKeeps, HttpErrorKeeps, HttpSendKeeps, HttpRecvKeeps, HttpHeaderKeeps
  DEF SessionOp

LEMMA StatesApart ==
  /\ REQUEST_BEGIN # REQUEST_HEADER /\ REQUEST_BEGIN # REQUEST_BODY
  /\ REQUEST_HEADER # REQUEST_BODY
  /\ \A s \in {REQUEST_BEGIN, REQUEST_HEADER, REQUEST_BODY} :
       s \notin {RESPONSE_BEGIN, RESPONSE_HEADER, RESPONSE_BODY}
  /\ RESPONSE_BEGIN # RESPONSE_HEADER /\ RESPONSE_HEADER # RESPONSE_BODY
BY DEF REQUEST_BEGIN, REQUEST_HEADER, REQUEST_BODY, RESPONSE_BEGIN, RESPONSE_HEADER,
   RESPONSE_BODY

\* NEXT moves the response on, in a block that may be ended (http.c:249-264).
LEMMA AdvanceMoves == ASSUME NEW c \in OwnConn PROVE Advance(c) \subseteq Moves(c)
<1> SUFFICES ASSUME NEW d \in Advance(c) PROVE d \in Moves(c)
  OBVIOUS
<1>1. c \in GoodConn /\ c \in Conn /\ d \in GoodConn /\ Owned(c)
  BY AdvanceGood DEF OwnConn, GoodConn
<1>2. CASE c.block.state = RESPONSE_BEGIN
  <2> DEFINE next == [c EXCEPT !.block.state = RESPONSE_HEADER]
             sent == {[e EXCEPT !.block.state = RESPONSE_BODY] : e \in RawSend(c, "blank", 0)}
  <2>3. Advance(c) = CASE c.block.state = RESPONSE_BEGIN  -> {next}
                       [] c.block.state = RESPONSE_HEADER -> sent
                       [] c.block.state = RESPONSE_BODY   -> Finalize(c)
                       [] OTHER                           -> {c}
    BY DEF Advance
  <2> HIDE DEF next, sent
  <2>4. RESPONSE_BEGIN # RESPONSE_HEADER /\ RESPONSE_BEGIN # RESPONSE_BODY
    BY DEF RESPONSE_BEGIN, RESPONSE_HEADER, RESPONSE_BODY
  <2>5. d \in {next}
    BY <1>2, <2>3, <2>4
  <2>1. d = [c EXCEPT !.block.state = RESPONSE_HEADER]
    BY <2>5 DEF next
  <2>2. d.owner = c.owner /\ d.block.route = c.block.route /\ d.block.state = RESPONSE_HEADER
    BY <1>1, <2>1 DEF Conn, Block
  <2> QED
    BY <1>1, <1>2, <2>2, StatesApart DEF Moves, Moved, SameRequest, StateMoves, Owned
<1>3. CASE c.block.state = RESPONSE_HEADER
  <2>1. PICK e \in RawSend(c, "blank", 0) : d = [e EXCEPT !.block.state = RESPONSE_BODY]
    BY <1>3, StatesApart DEF Advance
  <2>2. e \in Keeps(c) /\ e \in Conn
    BY <2>1, RawSendKeeps DEF Keeps, GoodConn
  <2>3. d.owner = e.owner /\ d.block.route = e.block.route /\ d.block.state = RESPONSE_BODY
    BY <2>1, <2>2 DEF Conn, Block
  <2> QED
    BY <1>1, <1>3, <2>2, <2>3, StatesApart
       DEF Keeps, KeptRequest, Ended, Moves, Moved, SameRequest, StateMoves, Owned
<1>4. CASE c.block.state \notin {RESPONSE_BEGIN, RESPONSE_HEADER}
  <2>1. c \in Keeps(c)
    BY KeepsSame DEF SameRequest, OwnConn
  <2>2. d \in Keeps(c)
    BY <1>4, <2>1, FinalizeKeeps DEF Advance
  <2> QED
    BY <2>2, KeepsMoves
<1> QED
  BY <1>2, <1>3, <1>4

LEMMA AfterStatusMoves ==
  ASSUME NEW c \in OwnConn, NEW status \in RouteStatus
  PROVE  AfterStatus(c, status) \subseteq Moves(c)
<1>1. c \in Keeps(c) /\ PendClose(c) \in Keeps(c)
  BY PendCloseKeeps, KeepsSame DEF SameRequest, OwnConn
<1>2. HttpError(PendClose(c)) \subseteq Keeps(c) /\ Finalize(PendClose(c)) \subseteq Keeps(c)
  BY <1>1, HttpErrorKeeps, FinalizeKeeps, KeepsOwn, KeepsThen
<1>3. CASE status = "NEXT"
  BY <1>3, AdvanceMoves DEF AfterStatus
<1>4. CASE status # "NEXT"
  <2>1. AfterStatus(c, status) \subseteq Keeps(c)
    BY <1>1, <1>2, <1>4, HttpErrorKeeps, FinalizeKeeps DEF AfterStatus, RouteStatus
  <2> QED
    BY <2>1, KeepsMoves
<1> QED
  BY <1>3, <1>4
=============================================================================
