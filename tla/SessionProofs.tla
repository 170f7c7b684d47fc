---------------------------- MODULE SessionProofs ----------------------------
(* Session keeps its types, its input window, and its mark on a response    *)
(* with a hole, for every stream of requests, every handler and every       *)
(* failure of the socket; and, while its parser is in step with the input,  *)
(* it implements Dialogue.                                                 *)
EXTENDS Session, HttpProofs, SequenceTheorems, WellFoundedInduction

-----------------------------------------------------------------------------
(* Lines and the buffer.                                                   *)

\* A buffer that holds an end of line has a first one.
LEMMA LineEndRange ==
  ASSUME NEW s \in Seq(Unit), Crlfs(s) # {}
  PROVE  LineEnd(s) \in 1..Len(s) /\ LineEnd(s) \in Crlfs(s)
<1> DEFINE R == {r \in Nat \X Nat : r[1] < r[2]}
<1>1. Crlfs(s) \subseteq Nat /\ Crlfs(s) \subseteq 1..Len(s)
  BY DEF Crlfs
<1>2. PICK i \in Crlfs(s) : \A j \in Crlfs(s) : <<j, i>> \notin R
  <2> HIDE DEF R
  <2>1. IsWellFoundedOn(R, Nat)
    BY NatLessThanWellFounded DEF R, OpToRel
  <2> QED
    BY <1>1, <2>1, WFMin
<1>3. \A j \in Crlfs(s) : i <= j
  <2> SUFFICES ASSUME NEW j \in Crlfs(s), j < i PROVE FALSE
    BY <1>1
  <2>1. <<j, i>> \in Nat \X Nat
    BY <1>1
  <2>2. <<j, i>> \in R
    BY <2>1
  <2> QED
    BY <1>2, <2>2
<1> QED
  BY <1>1, <1>3 DEF LineEnd

LEMMA HasLineRange ==
  ASSUME buf \in Seq(Unit), HasLine PROVE LineEnd(buf) \in 1..Len(buf)
<1>1. Crlfs(buf) # {}
  BY DEF HasLine, LineKind
<1> QED
  BY <1>1, LineEndRange

\* A sequence of units is cut into its first n and the others.
LEMMA CutFacts ==
  ASSUME NEW s \in Seq(Unit), NEW n \in Nat, n <= Len(s)
  PROVE  /\ SubSeq(s, 1, n) \in Seq(Unit) /\ Len(SubSeq(s, 1, n)) = n
         /\ SubSeq(s, n + 1, Len(s)) \in Seq(Unit)
         /\ Len(SubSeq(s, n + 1, Len(s))) = Len(s) - n
<1> DEFINE m == n + 1
<1>1. Len(s) \in Int /\ n \in Int /\ m \in Int /\ 1 \in Int
  OBVIOUS
<1>2. (\A i \in m..Len(s) : s[i] \in Unit) /\ (\A i \in 1..n : s[i] \in Unit)
  OBVIOUS
<1> HIDE DEF m
<1>3. /\ SubSeq(s, m, Len(s)) \in Seq(Unit)
      /\ Len(SubSeq(s, m, Len(s))) = IF m <= Len(s) THEN Len(s) - m + 1 ELSE 0
  BY <1>1, <1>2, SubSeqProperties
<1>4. /\ SubSeq(s, 1, n) \in Seq(Unit)
      /\ Len(SubSeq(s, 1, n)) = IF 1 <= n THEN n - 1 + 1 ELSE 0
  BY <1>1, <1>2, SubSeqProperties
<1>5. Len(SubSeq(s, 1, n)) = n
  BY <1>1, <1>4
<1>6. Len(SubSeq(s, m, Len(s))) = Len(s) - n
  BY <1>1, <1>3 DEF m
<1> QED
  BY <1>3, <1>4, <1>5, <1>6 DEF m

\* Consuming n units moves the window's start, not its end.
LEMMA ConsumeWindow ==
  ASSUME NEW n \in Nat, buf \in Seq(Unit), bufpos \in Nat, n <= Len(buf), Consume(n)
  PROVE  /\ buf' \in Seq(Unit)
         /\ bufpos' \in Nat
         /\ bufpos' + Len(buf') = bufpos + Len(buf)
         /\ Len(buf') = Len(buf) - n
<1>2. /\ SubSeq(buf, n + 1, Len(buf)) \in Seq(Unit)
      /\ Len(SubSeq(buf, n + 1, Len(buf))) = Len(buf) - n
  BY CutFacts
<1>3. buf' \in Seq(Unit) /\ Len(buf') = Len(buf) - n /\ bufpos' = bufpos + n
  BY <1>2 DEF Consume
<1>4. Len(buf) \in Nat
  OBVIOUS
<1> QED
  BY <1>3, <1>4

-----------------------------------------------------------------------------
(* The inductive invariant.                                                *)

\* Where the worker may call recv next without another pass of request_begin,
\* request_header or request_body.
Resting ==
  \/ pc \in {"accepted", "again"}
  \/ pc = "select" /\ "PEND_CLOSE" \notin conn.sock
  \/ pc = "handler" /\ call.by = "response"

ConnInv == pc # "closed" => conn \in GoodConn
Window  == /\ bufpos + Len(buf) <= BufSize
           /\ Resting => bufpos = 0 /\ Len(buf) < BufSize
IInv == TypeOK /\ ConnInv /\ Window

LEMMA InitIInv == Init => IInv
<1> SUFFICES ASSUME Init PROVE IInv
  OBVIOUS
<1>1. conn \in GoodConn
  BY ZeroBlockType, HttpConstants
  DEF Init, GoodConn, Conn, Marked, SockFlag, Wire, Unbounded, NoRoute, Stray,
      R404, Fault, ZeroBlock
<1>2. conn \in Conn
  BY <1>1 DEF GoodConn
<1>3. later \in Seq(Seq(Unit)) /\ buf \in Seq(Unit) /\ net \in Seq(Unit)
  BY SessionConstants DEF Init
<1>4. call \in Call /\ pc \in Pc /\ bufpos \in Nat
  BY DEF Init, Idle, Call, Caller, RouteStatus, Pc
<1>5. bufpos + Len(buf) <= BufSize /\ bufpos = 0 /\ Len(buf) < BufSize
  BY SessionConstants DEF Init
<1> QED
  BY <1>1, <1>2, <1>3, <1>4, <1>5 DEF IInv, TypeOK, ConnInv, Window

\* One step of control from a good connection.
LEMMA GotoGood ==
  ASSUME NEW d \in GoodConn, NEW p \in Pc \ {"closed"}, Goto(d, p)
  PROVE  conn' \in Conn /\ pc' \in Pc /\ ConnInv'
BY DEF Goto, Pc, ConnInv, GoodConn

LEMMA ReturnTrueGood ==
  ASSUME NEW d \in GoodConn, ReturnTrue(d)
  PROVE  conn' \in Conn /\ pc' \in Pc /\ ConnInv' /\ pc' # "handler"
         /\ (pc' = "select" => "PEND_CLOSE" \in conn'.sock)
         /\ pc' \notin {"accepted", "again"}
<1>1. PICK p \in {"select", "done"} :
        Goto(d, p) /\ (p = "select" => "PEND_CLOSE" \in d.sock)
  BY DEF ReturnTrue
<1> QED
  BY <1>1, GotoGood DEF Goto, Pc

LEMMA BehavioursType ==
  ASSUME NEW r \in Route PROVE BehavioursOf(r) \subseteq Behaviour
<1>1. NotFoundHandler \subseteq Behaviour
  <2>1. <<>> \in Seq(Op) /\ <<"error">> \in Seq(Op)
    BY DEF Op
  <2>2. \A s \in SessState, o \in {<<>>, <<"error">>}, t \in RouteStatus :
          <<s, o, t>> \in Behaviour
    BY <2>1 DEF Behaviour
  <2> QED
    BY <2>2 DEF NotFoundHandler, SessState, RouteStatus
<1>2. r # R404 => r \in 1..NRoutes
  BY HttpConstants DEF Route, R404
<1> QED
  BY <1>1, <1>2, SessionConstants DEF BehavioursOf

LEMMA CallHandlerGood ==
  ASSUME NEW d \in GoodConn, NEW caller \in Caller, CallHandler(d, caller),
         call \in Call
  PROVE  /\ conn' \in Conn /\ pc' \in Pc /\ ConnInv' /\ call' \in Call
         /\ pc' \in {"handler", "halted"}
         /\ pc' = "handler" => call'.by = caller
<1>1. CASE d.block.route = NoRoute
  <2>1. [d EXCEPT !.fault = "null_route"] \in GoodConn
    BY DEF GoodConn, Conn, Fault, Marked
  <2>2. Goto([d EXCEPT !.fault = "null_route"], "halted") /\ UNCHANGED call
    BY <1>1 DEF CallHandler
  <2>3. pc' = "halted"
    BY <2>2 DEF Goto
  <2> QED
    BY <2>1, <2>2, <2>3, GotoGood DEF Pc
<1>2. CASE d.block.route # NoRoute
  <2>1. d.block.route \in Route
    BY <1>2, HttpConstants DEF GoodConn, Conn, Block, Route, NoRoute, R404
  <2>2. PICK b \in BehavioursOf(d.block.route) :
          /\ call' = [by |-> caller, ops |-> b[2], status |-> b[3]]
          /\ Goto(d, "handler")
    BY <1>2 DEF CallHandler
  <2>3. b \in Behaviour
    BY <2>1, <2>2, BehavioursType
  <2>4. call' \in Call /\ call'.by = caller
    BY <2>2, <2>3 DEF Call, Behaviour
  <2>5. pc' \in {"handler", "halted"}
    BY <2>2 DEF Goto
  <2> QED
    BY <2>2, <2>4, <2>5, GotoGood DEF Pc
<1> QED
  BY <1>1, <1>2

LEMMA RejectGood ==
  ASSUME NEW c \in GoodConn PROVE Reject(c) \subseteq GoodConn
BY HttpErrorGood, PendCloseGood DEF Reject

-----------------------------------------------------------------------------
(* The steps, in the order of Session.  Each lemma is about one action.     *)

\* What a step from IInv may use.
LEMMA IInvFacts ==
  ASSUME IInv
  PROVE  /\ conn \in Conn /\ call \in Call /\ buf \in Seq(Unit) /\ bufpos \in Nat
         /\ net \in Seq(Unit) /\ later \in Seq(Seq(Unit))
         /\ Len(buf) \in Nat /\ bufpos + Len(buf) <= BufSize
         /\ pc # "closed" => conn \in GoodConn
BY DEF IInv, TypeOK, ConnInv, Window

\* A step that leaves buffer and input alone, to a point where nothing rests.
LEMMA BusyStep ==
  ASSUME IInv, conn' \in Conn, pc' \in Pc, ConnInv', call' \in Call, ~Resting',
         UNCHANGED <<buf, bufpos, net, later>>
  PROVE  IInv'
BY IInvFacts DEF IInv, TypeOK, Window

\* A step that consumes input, to a point where nothing rests.
LEMMA ConsumeStep ==
  ASSUME IInv, conn' \in Conn, pc' \in Pc, ConnInv', call' \in Call, ~Resting',
         UNCHANGED <<net, later>>, NEW n \in Nat, n <= Len(buf), Consume(n)
  PROVE  IInv'
<1>1. /\ buf' \in Seq(Unit) /\ bufpos' \in Nat
      /\ bufpos' + Len(buf') = bufpos + Len(buf)
  BY IInvFacts, ConsumeWindow
<1>2. net' \in Seq(Unit) /\ later' \in Seq(Seq(Unit)) /\ bufpos' + Len(buf') <= BufSize
  BY <1>1, IInvFacts
<1> QED
  BY <1>1, <1>2 DEF IInv, TypeOK, Window

LEMMA OnConnectStep == ASSUME IInv, OnConnect PROVE IInv'
<1>1. [conn EXCEPT !.sock = @ \cup {"CONNECTED"}] \in GoodConn
  BY IInvFacts DEF OnConnect, GoodConn, Conn, SockFlag, Marked
<1>2. conn' \in Conn /\ pc' \in Pc /\ ConnInv'
  BY <1>1, GotoGood DEF OnConnect, Pc
<1>3. bufpos = 0 /\ Len(buf) < BufSize
  BY DEF OnConnect, IInv, Window, Resting
<1> QED
  BY <1>2, <1>3, IInvFacts DEF OnConnect, IInv, TypeOK, Window

LEMMA CloseStep == ASSUME IInv, pc = "select", Close PROVE IInv'
<1>1. PICK d \in Finalize(conn) :
        IF d.fault # "none" THEN Goto(d, "halted")
        ELSE Goto([d EXCEPT !.sock = {}, !.waiting = FALSE], "closed")
  BY DEF Close
<1>2. d \in GoodConn
  BY FinalizeGood, IInvFacts
<1>3. CASE d.fault # "none"
  <2>1. Goto(d, "halted") /\ pc' = "halted"
    BY <1>1, <1>3 DEF Goto
  <2>2. conn' \in Conn /\ pc' \in Pc /\ ConnInv'
    BY <1>2, <2>1, GotoGood DEF Pc
  <2> QED
    BY <2>1, <2>2, IInvFacts, BusyStep DEF Close, Resting
<1>4. CASE d.fault = "none"
  <2>1. [d EXCEPT !.sock = {}, !.waiting = FALSE] \in Conn
    BY <1>2 DEF GoodConn, Conn
  <2>2. conn' \in Conn /\ pc' = "closed"
    BY <1>1, <1>2, <1>4, <2>1 DEF Goto, GoodConn, Conn
  <2> QED
    BY <2>2, IInvFacts, BusyStep DEF Close, Resting, ConnInv, Pc
<1> QED
  BY <1>3, <1>4

LEMMA RecvStep == ASSUME IInv, Recv PROVE IInv'
<1>1. bufpos = 0 /\ Len(buf) < BufSize
  BY DEF Recv, Receiving, IInv, Window, Resting
<1>2. PICK n \in 1..Least(Len(net), BufSize - Len(buf)) :
        /\ buf' = buf \o SubSeq(net, 1, n)
        /\ net' = SubSeq(net, n + 1, Len(net))
  BY DEF Recv
<1>3. n \in Nat /\ n <= Len(net) /\ n <= BufSize - Len(buf)
  BY <1>1, IInvFacts, SessionConstants DEF Least
<1>4. /\ SubSeq(net, 1, n) \in Seq(Unit) /\ Len(SubSeq(net, 1, n)) = n
      /\ SubSeq(net, n + 1, Len(net)) \in Seq(Unit)
  BY <1>3, IInvFacts, CutFacts
<1>5. buf' \in Seq(Unit) /\ Len(buf') = Len(buf) + n /\ net' \in Seq(Unit)
  BY <1>2, <1>4, IInvFacts
<1>6. pc' = "parse" /\ UNCHANGED <<conn, call, bufpos, later>> /\ pc # "closed"
  BY DEF Recv, Receiving
<1>7. bufpos' + Len(buf') <= BufSize
  BY <1>1, <1>3, <1>5, <1>6, IInvFacts, SessionConstants
<1> QED
  BY <1>5, <1>6, <1>7, IInvFacts
  DEF IInv, TypeOK, ConnInv, Window, Resting, Pc

LEMMA RecvEndStep == ASSUME IInv, RecvEnd PROVE IInv'
<1>1. PendClose(conn) \in GoodConn
  BY IInvFacts, PendCloseGood DEF RecvEnd, Receiving
<1>2. conn' \in Conn /\ pc' \in Pc /\ ConnInv'
  BY <1>1, GotoGood DEF RecvEnd, Pc
<1>3. conn' = PendClose(conn) /\ pc' \in {"select", "halted"}
  BY DEF RecvEnd, Goto
<1>4. "PEND_CLOSE" \in conn'.sock
  BY <1>3, IInvFacts DEF PendClose, Conn
<1> QED
  BY <1>2, <1>3, <1>4, IInvFacts, BusyStep DEF RecvEnd, Resting

LEMMA ReadDoneStep == ASSUME IInv, ReadDone PROVE IInv'
<1>1. pc # "closed" /\ conn \in GoodConn
  BY IInvFacts DEF ReadDone
<1>2. CASE Len(buf) = BufSize
  <2>1. Goto(PendClose(conn), "select") /\ UNCHANGED <<call, buf, bufpos, net, later>>
    BY <1>2 DEF ReadDone
  <2>2. conn' \in Conn /\ pc' \in Pc /\ ConnInv'
    BY <1>1, <2>1, PendCloseGood, GotoGood DEF Pc
  <2>3. "PEND_CLOSE" \in conn'.sock /\ pc' \in {"select", "halted"}
    BY <2>1, IInvFacts DEF Goto, PendClose, Conn
  <2> QED
    BY <2>1, <2>2, <2>3, IInvFacts, BusyStep DEF Resting
<1>3. CASE Len(buf) # BufSize
  <2>1. PICK p \in {"select", "again"} : Goto(conn, p)
    BY <1>3 DEF ReadDone
  <2>2. bufpos' = 0 /\ UNCHANGED <<call, buf, net, later>>
    BY <1>3 DEF ReadDone
  <2>3. conn' \in Conn /\ pc' \in Pc /\ ConnInv'
    BY <1>1, <2>1, GotoGood DEF Pc
  <2>4. Len(buf') < BufSize
    BY <1>3, <2>2, IInvFacts, SessionConstants
  <2> QED
    BY <2>2, <2>3, <2>4, IInvFacts, SessionConstants DEF IInv, TypeOK, Window
<1> QED
  BY <1>2, <1>3

LEMMA DoWriteStep == ASSUME IInv, DoWrite PROVE IInv'
<1>1. pc # "closed" /\ conn \in GoodConn
  BY IInvFacts DEF DoWrite
<1>2. /\ conn' \in Conn /\ pc' \in Pc /\ ConnInv' /\ call' \in Call
  BY <1>1, CallHandlerGood, IInvFacts DEF DoWrite, Caller
<1>3. bufpos = 0 /\ Len(buf) < BufSize
  BY DEF DoWrite, IInv, Window, Resting
<1> QED
  BY <1>2, <1>3, IInvFacts DEF DoWrite, IInv, TypeOK, Window

-----------------------------------------------------------------------------
(* request_begin                                                           *)

LEMMA BegunGood == ASSUME conn \in GoodConn PROVE Begun \in GoodConn
BY DEF Begun, GoodConn, Conn, Block, SIZE_MAX, Marked

LEMMA AwaitLineStep ==
  ASSUME IInv, NEW d \in GoodConn, AwaitLine(d) PROVE IInv'
<1>1. PICK e \in (IF bufpos = 0 /\ Len(buf) >= BufSize - 1 THEN Reject(d) ELSE {d}) :
        ReturnTrue(e)
  BY DEF AwaitLine
<1>2. e \in GoodConn
  BY <1>1, RejectGood
<1> QED
  BY <1>1, <1>2, ReturnTrueGood, IInvFacts, BusyStep DEF AwaitLine, Resting

LEMMA RejectStep ==
  ASSUME IInv, NEW d \in GoodConn, \E e \in Reject(d) : ReturnTrue(e), HasLine,
         Consume(LineEnd(buf)), UNCHANGED <<call, net, later>>
  PROVE  IInv'
<1>1. PICK e \in Reject(d) : ReturnTrue(e)
  OBVIOUS
<1>2. e \in GoodConn
  BY RejectGood
<1>3. LineEnd(buf) \in Nat /\ LineEnd(buf) <= Len(buf)
  BY HasLineRange, IInvFacts
<1> QED
  BY <1>1, <1>2, <1>3, ReturnTrueGood, IInvFacts, ConsumeStep DEF Resting

LEMMA BeginLineStep == ASSUME IInv, BeginLine PROVE IInv'
<1> DEFINE v == IF LineKind(buf) = "line" THEN buf[1].n ELSE 0
           b == Begun.block
           version == IF v = 0 THEN b.version ELSE v
           flags == IF v = 2 THEN b.flags \cup {"KEEPALIVE"} ELSE b.flags
           route == IF NRoutes > 0 THEN 1 ELSE NoRoute
           d == [Begun EXCEPT !.block.version = version, !.block.flags = flags,
                              !.block.route = route]
<1>1. pc # "closed" /\ Begun \in GoodConn
  BY IInvFacts, BegunGood DEF BeginLine, Parsing
<1>2. LineEnd(buf) \in 1..Len(buf)
  BY HasLineRange, IInvFacts DEF BeginLine
<1>3. v \in 0..2
  <2>1. buf[1] \in Unit
    BY <1>2, IInvFacts
  <2>2. LineKind(buf) = "line" => buf[1].k = "line"
    BY DEF LineKind
  <2> QED
    BY <2>1, <2>2 DEF Unit
<1>4. d \in GoodConn
  <2> HIDE DEF v
  <2>1. version \in 0..2 /\ flags \in SUBSET HttpFlag /\ route \in 0..R404
    BY <1>1, <1>3, HttpConstants
    DEF GoodConn, Conn, Block, HttpFlag, NoRoute, R404
  <2> HIDE DEF version, flags, route
  <2> QED
    BY <1>1, <2>1 DEF GoodConn, Conn, Block, Marked
<1>5. Goto(d, "match")
  BY <1>1 DEF BeginLine, GoodConn, Conn, Block
<1>6. conn' \in Conn /\ pc' \in Pc /\ ConnInv' /\ pc' \in {"match", "halted"}
  <2> HIDE DEF d
  <2>1. pc' \in {"match", "halted"}
    BY <1>5 DEF Goto
  <2> QED
    BY <1>4, <1>5, <2>1, GotoGood DEF Pc
<1> QED
  BY <1>2, <1>6, IInvFacts, ConsumeStep DEF BeginLine, Resting

LEMMA RequestBeginStep == ASSUME IInv, RequestBegin PROVE IInv'
<1>1. pc # "closed" /\ Begun \in GoodConn
  BY IInvFacts, BegunGood DEF RequestBegin, BeginAwait, BeginReject, BeginLine, Parsing
<1>2. CASE BeginAwait
  BY <1>1, <1>2, AwaitLineStep DEF BeginAwait
<1>3. CASE BeginReject
  BY <1>1, <1>3, RejectStep DEF BeginReject
<1> QED
  BY <1>2, <1>3, BeginLineStep DEF RequestBegin

LEMMA NextRouteGood == ASSUME NEW c \in GoodConn PROVE NextRoute(c) \in GoodConn
<1> DEFINE r == IF c.block.route < NRoutes THEN c.block.route + 1 ELSE NoRoute
           f == IF c.block.route = NoRoute THEN "null_route" ELSE c.fault
<1>1. r \in 0..R404 /\ f \in Fault
  BY HttpConstants DEF GoodConn, Conn, Block, NoRoute, R404, Fault
<1>2. NextRoute(c) = [c EXCEPT !.block.route = r, !.fault = f]
  BY DEF NextRoute, GoodConn, Conn, Block
<1> HIDE DEF r, f
<1>3. [c.block EXCEPT !.route = r] \in Block
  BY <1>1 DEF GoodConn, Conn, Block
<1>4. NextRoute(c) = [c EXCEPT !.block = [c.block EXCEPT !.route = r], !.fault = f]
  BY <1>2 DEF GoodConn, Conn, Block
<1> QED
  BY <1>1, <1>3, <1>4 DEF GoodConn, Conn, Block, Marked

LEMMA NextRouteOf ==
  ASSUME NEW c \in GoodConn, c.block.route # NoRoute
  PROVE  NextRoute(c) =
           [c EXCEPT !.block.route = IF @ < NRoutes THEN @ + 1 ELSE NoRoute]
BY DEF NextRoute, GoodConn, Conn, Block

LEMMA MatchingStep == ASSUME IInv, Matching PROVE IInv'
<1>1. pc = "match" /\ conn \in GoodConn
  BY IInvFacts DEF Matching, SkipRoute, TryRoute, LastResort
<1>2. CASE SkipRoute
  <2>1. conn' \in Conn /\ pc' \in Pc /\ ConnInv'
    BY <1>1, <1>2, NextRouteGood, GotoGood DEF SkipRoute, Pc
  <2>2. pc' \in {"match", "halted"}
    BY <1>2 DEF SkipRoute, Goto
  <2> QED
    BY <1>2, <2>1, <2>2, IInvFacts, BusyStep DEF SkipRoute, Resting
<1>3. CASE TryRoute
  <2>1. /\ conn' \in Conn /\ pc' \in Pc /\ ConnInv' /\ call' \in Call
        /\ pc' \in {"handler", "halted"} /\ (pc' = "handler" => call'.by = "begin")
    BY <1>1, <1>3, IInvFacts, CallHandlerGood DEF TryRoute, Caller
  <2> QED
    BY <1>3, <2>1, BusyStep DEF TryRoute, Resting
<1>4. CASE LastResort
  <2>1. [conn EXCEPT !.block.route = R404] \in GoodConn
    BY <1>1, HttpConstants DEF GoodConn, Conn, Block, R404, Marked
  <2>2. /\ conn' \in Conn /\ pc' \in Pc /\ ConnInv' /\ call' \in Call
        /\ pc' \in {"handler", "halted"} /\ (pc' = "handler" => call'.by = "begin404")
    BY <1>4, <2>1, IInvFacts, CallHandlerGood DEF LastResort, Caller
  <2> QED
    BY <1>4, <2>2, BusyStep DEF LastResort, Resting
<1> QED
  BY <1>2, <1>3, <1>4 DEF Matching

-----------------------------------------------------------------------------
(* request_header                                                          *)

LEMMA EffectGood ==
  ASSUME NEW c \in GoodConn, NEW u \in Unit PROVE Effect(c, u) \in GoodConn
<1>1. /\ c.block.flags \ {"KEEPALIVE"} \in SUBSET HttpFlag
      /\ c.block.flags \cup {"KEEPALIVE"} \in SUBSET HttpFlag
      /\ c.block.flags \cup {"REQUEST_CHUNKED", "REQUEST_CHUNKED_LINE"}
           \in SUBSET HttpFlag
  BY DEF GoodConn, Conn, Block, HttpFlag
<1>2. \A f \in SUBSET HttpFlag : [c EXCEPT !.block.flags = f] \in GoodConn
  BY DEF GoodConn, Conn, Block, Marked
<1>3. \A l \in Nat : [c EXCEPT !.block.length = l] \in GoodConn
  BY DEF GoodConn, Conn, Block, Marked
<1>4. \A f \in SUBSET HttpFlag :
        [c EXCEPT !.block.flags = f, !.block.length = SIZE_MAX] \in GoodConn
  BY DEF GoodConn, Conn, Block, Marked, SIZE_MAX
<1>5. [c EXCEPT !.block.boundary = TRUE, !.heap = @ + 1] \in GoodConn
  <2>1. c.heap + 1 \in Int /\ TRUE \in BOOLEAN
    BY DEF GoodConn, Conn
  <2>2. \A h \in Int, t \in BOOLEAN :
          [c EXCEPT !.block.boundary = t, !.heap = h] \in GoodConn
    BY DEF GoodConn, Conn, Block, Marked
  <2> QED
    BY <2>1, <2>2
<1>6. [c EXCEPT !.block.length = LengthOf(u.n)] \in GoodConn
  <2>1. LengthOf(u.n) \in Nat \/ LengthOf(u.n) = SIZE_MAX
    BY SessionConstants DEF Unit, LengthOf, SizeT
  <2>2. [c EXCEPT !.block.length = SIZE_MAX] \in GoodConn
    BY DEF GoodConn, Conn, Block, Marked, SIZE_MAX
  <2> QED
    BY <1>3, <2>1, <2>2
<1> QED
  BY <1>1, <1>2, <1>3, <1>4, <1>5, <1>6 DEF Effect

LEMMA HeaderEndStep == ASSUME IInv, HeaderEnd PROVE IInv'
<1>1. PICK s \in SessState : Goto([conn EXCEPT !.block.state = s], "parse")
  BY DEF HeaderEnd, SessState
<1>2. [conn EXCEPT !.block.state = s] \in GoodConn
  BY SetStateGood, IInvFacts DEF HeaderEnd, Parsing
<1>3. conn' \in Conn /\ pc' \in Pc /\ ConnInv'
  BY <1>1, <1>2, GotoGood DEF Pc
<1>4. pc' \in {"parse", "halted"}
  BY <1>1 DEF Goto
<1>5. LineEnd(buf) \in Nat /\ LineEnd(buf) <= Len(buf)
  BY HasLineRange, IInvFacts DEF HeaderEnd
<1> QED
  BY <1>3, <1>4, <1>5, IInvFacts, ConsumeStep DEF HeaderEnd, Resting

LEMMA HeaderLineStep == ASSUME IInv, HeaderLine PROVE IInv'
<1>1. LineEnd(buf) \in 1..Len(buf)
  BY HasLineRange, IInvFacts DEF HeaderLine
<1>2. Effect(conn, buf[1]) \in GoodConn
  BY <1>1, IInvFacts, EffectGood DEF HeaderLine, Parsing
<1>3. /\ conn' \in Conn /\ pc' \in Pc /\ ConnInv' /\ call' \in Call
      /\ pc' \in {"handler", "halted"} /\ (pc' = "handler" => call'.by = "header")
  BY <1>2, IInvFacts, CallHandlerGood DEF HeaderLine, Caller
<1> QED
  BY <1>1, <1>3, ConsumeStep DEF HeaderLine, Resting

LEMMA RequestHeaderStep == ASSUME IInv, RequestHeader PROVE IInv'
<1>1. conn \in GoodConn
  BY IInvFacts DEF RequestHeader, HeaderAwait, HeaderEnd, HeaderReject, HeaderLine,
                   HeaderNoMemory, Parsing
<1>2. CASE HeaderAwait
  BY <1>1, <1>2, AwaitLineStep DEF HeaderAwait
<1>3. CASE HeaderReject
  BY <1>1, <1>3, RejectStep DEF HeaderReject
<1>4. CASE HeaderNoMemory
  <2>1. [conn EXCEPT !.block.boundary = FALSE] \in GoodConn
    BY <1>1 DEF GoodConn, Conn, Block, Marked
  <2> QED
    BY <1>4, <2>1, RejectStep DEF HeaderNoMemory
<1> QED
  BY <1>2, <1>3, <1>4, HeaderEndStep, HeaderLineStep DEF RequestHeader
-----------------------------------------------------------------------------
(* request_body                                                            *)

\* What is left to read is a length.
LEMMA RemainingNat ==
  ASSUME NEW c \in GoodConn, Len(buf) \in Nat PROVE Remaining(c) \in Nat
BY DEF Remaining, GoodConn, Conn, Block

LEMMA ChunkBreakStep == ASSUME IInv, ChunkBreak PROVE IInv'
<1>1. conn \in GoodConn
  BY IInvFacts DEF ChunkBreak, ChunkLine, Parsing
<1>2. CASE Consume(1) /\ ReturnTrue([conn EXCEPT !.block.state = RESPONSE_BEGIN])
           /\ LineKind(buf) = "blank"
  <2>1. HasLine
    BY <1>2 DEF HasLine
  <2>2. 1 <= Len(buf)
    BY <2>1, HasLineRange, IInvFacts
  <2>3. [conn EXCEPT !.block.state = RESPONSE_BEGIN] \in GoodConn
    BY <1>1, SetStateGood DEF SessState
  <2> QED
    BY <1>2, <2>2, <2>3, ReturnTrueGood, IInvFacts, ConsumeStep
    DEF ChunkBreak, Resting
<1>3. CASE UNCHANGED <<buf, bufpos>> /\ ReturnTrue(conn)
  BY <1>1, <1>3, ReturnTrueGood, IInvFacts, BusyStep DEF ChunkBreak, Resting
<1> QED
  BY <1>2, <1>3 DEF ChunkBreak

LEMMA ChunkSizeStep == ASSUME IInv, ChunkSize PROVE IInv'
<1> DEFINE size  == SizeT(buf[1].n)
           flags == conn.block.flags \ {"REQUEST_CHUNKED_LINE"}
           d == [conn EXCEPT !.block.chunkSize = size, !.block.chunkPos = 0,
                             !.block.flags = flags]
<1>1. conn \in GoodConn
  BY IInvFacts DEF ChunkSize, ChunkLine, Parsing
<1>2. LineEnd(buf) \in 1..Len(buf)
  BY HasLineRange, IInvFacts DEF ChunkSize
<1>3. size \in Nat /\ flags \in SUBSET HttpFlag
  <2>1. buf[1] \in Unit
    BY <1>2, IInvFacts
  <2> QED
    BY <1>1, <2>1, SessionConstants DEF Unit, SizeT, GoodConn, Conn, Block
<1>4. d \in GoodConn
  <2> HIDE DEF size, flags
  <2> DEFINE b == [conn.block EXCEPT !.chunkSize = size, !.chunkPos = 0]
             e == [b EXCEPT !.flags = flags]
  <2>1. b \in Block /\ b.chunkPos = 0 /\ b.chunkSize = size
    BY <1>1, <1>3 DEF GoodConn, Conn, Block
  <2>2. d = [conn EXCEPT !.block = e]
    BY <1>1 DEF GoodConn, Conn, Block
  <2> HIDE DEF b, d
  <2>3. e \in Block /\ e.chunkPos = 0 /\ e.chunkSize = size
    BY <1>3, <2>1 DEF Block
  <2> HIDE DEF e
  <2>4. e.chunkPos <= e.chunkSize
    BY <1>3, <2>3
  <2> QED
    BY <1>1, <2>2, <2>3, <2>4, SetBlockGood
<1>5. Goto(d, "parse")
  BY DEF ChunkSize
<1>6. conn' \in Conn /\ pc' \in Pc /\ ConnInv' /\ pc' \in {"parse", "halted"}
  <2> HIDE DEF d
  <2>1. pc' \in {"parse", "halted"}
    BY <1>5 DEF Goto
  <2> QED
    BY <1>4, <1>5, <2>1, GotoGood DEF Pc
<1> QED
  BY <1>2, <1>6, IInvFacts, ConsumeStep DEF ChunkSize, Resting

LEMMA BodyDataStep == ASSUME IInv, BodyData PROVE IInv'
<1> DEFINE len == Least(Len(buf), Remaining(conn))
           d == [conn EXCEPT !.chunkLen = len]
<1>1. conn \in GoodConn
  BY IInvFacts DEF BodyData, Parsing
<1>2. len \in Nat
  BY <1>1, RemainingNat, IInvFacts DEF Least
<1>3. d \in GoodConn
  <2> HIDE DEF len
  <2> QED
    BY <1>1, <1>2 DEF GoodConn, Conn, Marked
<1>4. CallHandler(d, "body")
  BY DEF BodyData
<1>5. /\ conn' \in Conn /\ pc' \in Pc /\ ConnInv' /\ call' \in Call
      /\ pc' \in {"handler", "halted"} /\ (pc' = "handler" => call'.by = "body")
  <2> HIDE DEF d
  <2> QED
    BY <1>3, <1>4, IInvFacts, CallHandlerGood DEF Caller
<1> QED
  BY <1>5, BusyStep DEF BodyData, Resting

LEMMA RequestBodyStep == ASSUME IInv, RequestBody PROVE IInv'
<1>1. conn \in GoodConn
  BY IInvFacts DEF RequestBody, ChunkBreak, ChunkSize, ChunkReject, BodyAwait,
                   BodyData, ChunkLine, Parsing
<1>2. CASE ChunkReject
  <2>1. PICK d \in Reject(conn) : ReturnTrue(d)
    BY <1>2 DEF ChunkReject
  <2>2. d \in GoodConn
    BY <1>1, RejectGood
  <2> QED
    BY <1>2, <2>1, <2>2, ReturnTrueGood, IInvFacts, BusyStep DEF ChunkReject, Resting
<1>3. CASE BodyAwait
  BY <1>1, <1>3, ReturnTrueGood, IInvFacts, BusyStep DEF BodyAwait, Resting
<1> QED
  BY <1>2, <1>3, ChunkBreakStep, ChunkSizeStep, BodyDataStep DEF RequestBody

\* Without a fault, the handler read no more than there was.
LEMMA ReadRange ==
  ASSUME NEW c \in GoodConn, Len(buf) \in Nat, BodyFault(c) = "none"
  PROVE  /\ Read(c) \in Nat /\ Read(c) <= Len(buf) /\ Read(c) <= Remaining(c)
         /\ ~Is(c, "REQUEST_CHUNKED") => c.block.length # SIZE_MAX
<1>1. Remaining(c) \in Nat /\ c.chunkLen \in Nat
  BY RemainingNat DEF GoodConn, Conn
<1>2. Read(c) >= 0
  BY <1>1 DEF BodyFault, Read, Least
<1> QED
  BY <1>1, <1>2 DEF BodyFault, Read, Least

LEMMA AccountGood ==
  ASSUME NEW c \in GoodConn, Len(buf) \in Nat, BodyFault(c) = "none"
  PROVE  Account(c) \in GoodConn
<1>1. /\ Read(c) \in Nat /\ Read(c) <= Remaining(c)
      /\ ~Is(c, "REQUEST_CHUNKED") => c.block.length # SIZE_MAX
  BY ReadRange
<1>2. CASE Is(c, "REQUEST_CHUNKED")
  <2> DEFINE pos   == c.block.chunkPos + Read(c)
             flags == IF pos = c.block.chunkSize
                      THEN c.block.flags \cup {"REQUEST_CHUNKED_LINE"}
                      ELSE c.block.flags
  <2>1. pos \in Nat /\ pos <= c.block.chunkSize /\ flags \in SUBSET HttpFlag
    BY <1>1, <1>2 DEF Remaining, GoodConn, Conn, Block, HttpFlag
  <2>2. Account(c) = [c EXCEPT !.block.chunkPos = pos, !.block.flags = flags]
    BY <1>2 DEF Account, GoodConn, Conn, Block
  <2> HIDE DEF pos, flags
  <2>3. \A f \in SUBSET HttpFlag, n \in Nat : n <= c.block.chunkSize =>
          [c EXCEPT !.block.chunkPos = n, !.block.flags = f] \in GoodConn
    BY DEF GoodConn, Conn, Block, Marked
  <2> QED
    BY <2>1, <2>2, <2>3
<1>3. CASE ~Is(c, "REQUEST_CHUNKED")
  <2> DEFINE length == c.block.length - Read(c)
             state  == IF Read(c) = c.block.length THEN RESPONSE_BEGIN
                       ELSE c.block.state
  <2>1. length \in Nat /\ state \in SessState
    BY <1>1, <1>3 DEF Remaining, GoodConn, Conn, Block, SIZE_MAX, SessState
  <2>2. Account(c) = [c EXCEPT !.block.length = length, !.block.state = state]
    BY <1>3 DEF Account, GoodConn, Conn, Block
  <2> HIDE DEF length, state
  <2>3. \A n \in Nat, st \in SessState :
          [c EXCEPT !.block.length = n, !.block.state = st] \in GoodConn
    BY DEF GoodConn, Conn, Block, Marked
  <2> QED
    BY <2>1, <2>2, <2>3
<1> QED
  BY <1>2, <1>3

LEMMA BodyTailStep ==
  ASSUME IInv, NEW d \in GoodConn, BodyTail(d), call' \in Call,
         UNCHANGED <<net, later>>
  PROVE  IInv'
<1>1. CASE BodyFault(d) # "none"
  <2>1. BodyFault(d) \in Fault
    BY DEF BodyFault, Fault, GoodConn, Conn
  <2>2. [d EXCEPT !.fault = BodyFault(d)] \in GoodConn
    BY <2>1 DEF GoodConn, Conn, Marked
  <2>3. /\ Goto([d EXCEPT !.fault = BodyFault(d)], "halted")
        /\ UNCHANGED <<buf, bufpos>>
    BY <1>1 DEF BodyTail
  <2>4. conn' \in Conn /\ pc' \in Pc /\ ConnInv' /\ pc' = "halted"
    <3>1. pc' = "halted"
      BY <2>3 DEF Goto
    <3> QED
      BY <2>2, <2>3, <3>1, GotoGood DEF Pc
  <2> QED
    BY <2>3, <2>4, BusyStep DEF Resting
<1>2. CASE BodyFault(d) = "none"
  <2>1. Read(d) \in Nat /\ Read(d) <= Len(buf) /\ Account(d) \in GoodConn
    BY <1>2, ReadRange, AccountGood, IInvFacts
  <2>2. Consume(Read(d))
    BY <1>2 DEF BodyTail
  <2>3. ReturnTrue(Account(d)) \/ Goto(Account(d), "parse")
    BY <1>2 DEF BodyTail
  <2>4. conn' \in Conn /\ pc' \in Pc /\ ConnInv' /\ ~Resting'
    <3>1. CASE ReturnTrue(Account(d))
      BY <2>1, <3>1, ReturnTrueGood DEF Resting
    <3>2. CASE Goto(Account(d), "parse")
      <4>1. pc' \in {"parse", "halted"}
        BY <3>2 DEF Goto
      <4> QED
        BY <2>1, <3>2, <4>1, GotoGood DEF Pc, Resting
    <3> QED
      BY <2>3, <3>1, <3>2
  <2> QED
    BY <2>1, <2>2, <2>4, ConsumeStep
<1> QED
  BY <1>1, <1>2

-----------------------------------------------------------------------------
(* The handler's steps and its returns.                                    *)

LEMMA HandlerOpStep == ASSUME IInv, HandlerOp PROVE IInv'
<1>1. conn \in GoodConn /\ call \in Call
  BY IInvFacts DEF HandlerOp
<1>2. PICK d \in SessionOp(conn, Head(call.ops)) : Goto(d, "handler")
  BY DEF HandlerOp
<1>3. d \in GoodConn
  BY <1>1, SessionOpGood
<1>4. conn' \in Conn /\ pc' \in Pc /\ ConnInv'
  BY <1>2, <1>3, GotoGood DEF Pc
<1>5. call' \in Call /\ call'.by = call.by
  <2>1. call.ops \in Seq(Op) /\ call.ops # <<>>
    BY <1>1 DEF HandlerOp, Call
  <2>2. Tail(call.ops) \in Seq(Op)
    BY <2>1
  <2> QED
    BY <1>1, <2>2 DEF HandlerOp, Call
<1>6. pc = "handler" /\ pc' \in {"handler", "halted"}
  BY <1>2 DEF HandlerOp, Goto
<1> QED
  BY <1>4, <1>5, <1>6, IInvFacts DEF HandlerOp, IInv, TypeOK, Window, Resting

LEMMA AcceptedGood == ASSUME NEW c \in GoodConn PROVE Accepted(c) \in GoodConn
<1> DEFINE state == IF c.block.version = 0 THEN RESPONSE_BEGIN ELSE REQUEST_HEADER
           owner == IF c.owner = NoRoute THEN c.block.route ELSE Stray
<1>1. state \in SessState /\ owner \in 0..Stray
  BY HttpConstants DEF SessState, GoodConn, Conn, Block, Stray, R404, NoRoute
<1> HIDE DEF state, owner
<1>2. [c EXCEPT !.block.state = state, !.owner = owner] \in GoodConn
  BY <1>1 DEF GoodConn, Conn, Block, Marked
<1> QED
  BY <1>2 DEF Accepted, state, owner

\* The connection call_handler leaves is well formed.
LEMMA ReturnsGood ==
  ASSUME IInv, pc = "handler", NEW d \in AfterStatus(conn, call.status)
  PROVE  d \in GoodConn
BY IInvFacts, AfterStatusGood DEF Call

LEMMA HandlerStep == ASSUME IInv, Handler PROVE IInv'
<1>1. CASE HandlerOp
  BY <1>1, HandlerOpStep
<1>2. Idle \in Call
  BY DEF Idle, Call, Caller, RouteStatus
<1>3. ASSUME NEW x \in GoodConn, NEW p \in {"parse", "match"}, Goto(x, p)
      PROVE  conn' \in Conn /\ pc' \in Pc /\ ConnInv' /\ ~Resting'
  <2>1. pc' \in {"parse", "match", "halted"}
    BY <1>3 DEF Goto
  <2> QED
    BY <1>3, <2>1, GotoGood DEF Pc, Resting
<1>4. CASE ReturnToBegin
  <2>1. PICK d \in AfterStatus(conn, call.status) :
          \/ Goto(Accepted(d), "parse") \/ Goto(d, "match")
          \/ Goto(NextRoute(d), "match") \/ ReturnTrue(d)
    BY <1>4 DEF ReturnToBegin
  <2>2. d \in GoodConn /\ Accepted(d) \in GoodConn /\ NextRoute(d) \in GoodConn
    BY <1>4, ReturnsGood, AcceptedGood, NextRouteGood DEF ReturnToBegin, Returns
  <2>3. ReturnTrue(d) => conn' \in Conn /\ pc' \in Pc /\ ConnInv' /\ ~Resting'
    BY <2>2, ReturnTrueGood DEF Resting
  <2>4. conn' \in Conn /\ pc' \in Pc /\ ConnInv' /\ ~Resting'
    BY <1>3, <2>1, <2>2, <2>3
  <2> QED
    BY <1>2, <1>4, <2>4, BusyStep DEF ReturnToBegin, Returns
<1>5. CASE ReturnToLastResort
  <2>1. PICK d \in AfterStatus(conn, call.status) : Goto(Accepted(d), "parse")
    BY <1>5 DEF ReturnToLastResort
  <2>2. Accepted(d) \in GoodConn
    BY <1>5, ReturnsGood, AcceptedGood DEF ReturnToLastResort, Returns
  <2> QED
    BY <1>2, <1>3, <1>5, <2>1, <2>2, BusyStep DEF ReturnToLastResort, Returns
<1>6. CASE ReturnToHeader
  <2>1. PICK d \in AfterStatus(conn, call.status) : Goto(d, "parse")
    BY <1>6 DEF ReturnToHeader
  <2>2. d \in GoodConn
    BY <1>6, ReturnsGood DEF ReturnToHeader, Returns
  <2> QED
    BY <1>2, <1>3, <1>6, <2>1, <2>2, BusyStep DEF ReturnToHeader, Returns
<1>7. CASE ReturnToBody
  <2>1. PICK d \in AfterStatus(conn, call.status) : BodyTail(d)
    BY <1>7 DEF ReturnToBody
  <2>2. d \in GoodConn
    BY <1>7, ReturnsGood DEF ReturnToBody, Returns
  <2> QED
    BY <1>2, <1>7, <2>1, <2>2, BodyTailStep DEF ReturnToBody, Returns
<1>8. CASE ReturnToWrite
  <2>1. PICK d \in AfterStatus(conn, call.status) : Goto(d, "select")
    BY <1>8 DEF ReturnToWrite
  <2>2. d \in GoodConn
    BY <1>8, ReturnsGood DEF ReturnToWrite, Returns
  <2>3. conn' \in Conn /\ pc' \in Pc /\ ConnInv'
    BY <2>1, <2>2, GotoGood DEF Pc
  <2>4. bufpos = 0 /\ Len(buf) < BufSize
    BY <1>8 DEF ReturnToWrite, Returns, IInv, Window, Resting
  <2> QED
    BY <1>2, <1>8, <2>3, <2>4, IInvFacts
    DEF ReturnToWrite, Returns, IInv, TypeOK, Window
<1> QED
  BY <1>1, <1>4, <1>5, <1>6, <1>7, <1>8 DEF Handler

LEMMA PeerSendsStep == ASSUME IInv, PeerSends PROVE IInv'
<1>1. Head(later) \in Seq(Unit) /\ Tail(later) \in Seq(Seq(Unit))
  BY IInvFacts DEF PeerSends
<1>2. net' \in Seq(Unit) /\ later' \in Seq(Seq(Unit))
  BY <1>1, IInvFacts DEF PeerSends
<1>3. conn' \in GoodConn /\ conn'.sock = conn.sock
  BY IInvFacts DEF PeerSends, GoodConn, Conn, Marked
<1>4. conn' \in Conn
  BY <1>3 DEF GoodConn
<1> QED
  BY <1>2, <1>3, <1>4, IInvFacts DEF PeerSends, IInv, TypeOK, ConnInv, Window, Resting

-----------------------------------------------------------------------------
(* The theorems.                                                           *)

LEMMA NextIInv == IInv /\ [Next]_vars => IInv'
<1> SUFFICES ASSUME IInv, [Next]_vars PROVE IInv'
  OBVIOUS
<1>1. CASE Worker
  <2>1. CASE PendingClose
    BY <2>1, CloseStep DEF PendingClose
  <2> QED
    BY <1>1, <2>1, OnConnectStep, RecvStep, ReadDoneStep, DoWriteStep,
       RequestBeginStep, MatchingStep, RequestHeaderStep, RequestBodyStep, HandlerStep
    DEF Worker
<1>2. CASE Environment
  <2>1. CASE IdleTimeout
    BY <2>1, CloseStep DEF IdleTimeout
  <2> QED
    BY <1>2, <2>1, RecvEndStep, PeerSendsStep DEF Environment
<1>3. CASE UNCHANGED vars
  BY <1>3 DEF vars, IInv, TypeOK, ConnInv, Window, Resting
<1> QED
  BY <1>1, <1>2, <1>3 DEF Next, Stopped

LEMMA IInvHolds == Spec => []IInv
BY InitIInv, NextIInv, PTL DEF Spec

\* The variables keep their types, for every input, handler and failure.  In
\* particular no length of the request body wraps below zero unnoticed: what
\* request_body subtracts is at most what was left, or it has met a fault.
THEOREM TypeCorrect == Spec => []TypeOK
<1>1. IInv => TypeOK
  BY DEF IInv
<1> QED
  BY <1>1, IInvHolds, PTL

\* do_read's window of unread input lies inside data->buf, and every recv has room
\* behind it, whatever the size of the buffer and however input is cut up.
THEOREM WindowSafe == Spec => []WindowInBuffer
<1>1. IInv => WindowInBuffer
  BY DEF IInv, Window, WindowInBuffer, Receiving, Resting
<1> QED
  BY <1>1, IInvHolds, PTL

\* A connection whose response has a hole is marked to be closed, whatever the handlers
\* and http_error go on to do, unless it is a TLS one whose sends would block: their
\* failure leaves no mark (socket.c:34-41, 134-142).
THEOREM LossIsMarked == ASSUME Loud PROVE Spec => []LossCloses
<1>1. IInv => LossCloses
  BY DEF IInv, ConnInv, GoodConn, Marked, LossCloses
<1> QED
  BY <1>1, IInvHolds, PTL

-----------------------------------------------------------------------------
(* What the handlers hear: the refinement of Dialogue.                     *)

\* Whose call is under way, and where its request stands.
CallInv ==
  /\ pc = "match" => conn.block.state = REQUEST_BEGIN
  /\ pc = "handler" =>
       CASE call.by \in {"begin", "begin404"} ->
              conn.block.state = REQUEST_BEGIN /\ conn.block.route # NoRoute
         [] call.by = "header" ->
              conn.block.route = NoRoute \/ conn.block.state = REQUEST_HEADER
         [] call.by = "body" ->
              conn.block.route = NoRoute \/ conn.block.state = REQUEST_BODY
         [] OTHER ->
              \/ conn.block.route = NoRoute
              \/ conn.block.state \in {RESPONSE_BEGIN, RESPONSE_HEADER, RESPONSE_BODY}

\* While a response is due, nothing is parsed: part of InStep.
ReadsRequests ==
  pc = "parse" /\ buf # <<>> =>
    conn.block.state \in {REQUEST_BEGIN, REQUEST_HEADER, REQUEST_BODY}

Spoken ==
  /\ HandlerDialogue!Next \/ UNCHANGED HandlerDialogue!vars
  /\ OwnerIsRoute' /\ CallInv'

LEMMA OwnerFacts ==
  ASSUME OwnerIsRoute
  PROVE  /\ conn.owner = NoRoute =>
              conn.block.state = REQUEST_BEGIN \/ conn.block.route = NoRoute
         /\ conn.owner # NoRoute =>
              conn.block.state # REQUEST_BEGIN /\ conn.block.route = conn.owner
         /\ conn.block.route = NoRoute => conn.owner = NoRoute
BY DEF OwnerIsRoute

\* The stages follow the states.
LEMMA StageMoves ==
  ASSUME NEW s \in SessState, NEW t \in SessState, <<s, t>> \in StateMoves
  PROVE  <<StageOf(s), StageOf(t)>> \in
           HandlerDialogue!Answered
BY DEF StateMoves, StageOf, HandlerDialogue!Answered, REQUEST_BEGIN, REQUEST_HEADER,
   REQUEST_BODY, RESPONSE_BEGIN, RESPONSE_HEADER, RESPONSE_BODY

LEMMA GoOn ==
  ASSUME OwnerIsRoute, OwnerIsRoute', conn \in GoodConn, conn'.block.state \in SessState,
         pc' \notin {"handler", "match"},
         Moved(conn, conn'), pc # "handler" => KeptRequest(conn, conn')
  PROVE  Spoken
<1>1. CallInv'
  BY DEF CallInv
<1>2. CASE conn.owner = NoRoute
  <2>1. conn'.owner = NoRoute
    BY <1>2, OwnerFacts DEF Moved, SameRequest, OwnerIsRoute
  <2>2. CASE pc = "handler" /\ conn.block.route # NoRoute
    <3>1. HandlerDialogue!Decline
      BY <1>2, <2>1, <2>2 DEF HandlerDialogue!Decline
    <3> QED
      BY <1>1, <3>1 DEF Spoken, HandlerDialogue!Next
  <2>3. CASE ~(pc = "handler" /\ conn.block.route # NoRoute)
    <3>1. UNCHANGED HandlerDialogue!vars
      BY <1>2, <2>1, <2>3 DEF HandlerDialogue!vars
    <3> QED
      BY <1>1, <3>1 DEF Spoken
  <2> QED
    BY <2>2, <2>3
<1>3. CASE conn.owner # NoRoute
  <2>1. conn.block.state # REQUEST_BEGIN /\ conn.block.route = conn.owner
    BY <1>3, OwnerFacts
  <2>2. CASE conn'.owner = NoRoute
    <3>1. HandlerDialogue!End
      BY <1>3, <2>2 DEF HandlerDialogue!End
    <3> QED
      BY <1>1, <3>1 DEF Spoken, HandlerDialogue!Next
  <2>3. CASE conn'.owner # NoRoute
    <3>1. conn'.block.route # NoRoute
      BY <2>3 DEF OwnerIsRoute
    <3>2. /\ SameRequest(conn, conn')
          /\ \/ conn'.block.state = conn.block.state
             \/ <<conn.block.state, conn'.block.state>> \in StateMoves
      BY <3>1 DEF Moved
    <3>3. CASE pc = "handler"
      <4>1. \/ StageOf(conn'.block.state) = StageOf(conn.block.state)
            \/ <<StageOf(conn.block.state), StageOf(conn'.block.state)>>
                 \in HandlerDialogue!Answered
        BY <3>2, StageMoves DEF GoodConn, Conn, Block
      <4>2. HandlerDialogue!Return
        BY <1>3, <2>1, <2>3, <3>2, <3>3, <4>1 DEF HandlerDialogue!Return, SameRequest
      <4> QED
        BY <1>1, <4>2 DEF Spoken, HandlerDialogue!Next
    <3>4. CASE pc # "handler"
      <4>1. conn'.block.state = conn.block.state
        BY <3>1, <3>4 DEF KeptRequest, Ended
      <4>2. UNCHANGED HandlerDialogue!vars
        BY <1>3, <2>3, <3>2, <3>4, <4>1 DEF HandlerDialogue!vars, SameRequest
      <4> QED
        BY <1>1, <4>2 DEF Spoken
    <3> QED
      BY <3>3, <3>4
  <2> QED
    BY <2>2, <2>3
<1> QED
  BY <1>2, <1>3

\* GoOn, for the ways the worker has of going on.
LEMMA GoOnTo ==
  ASSUME IInv, OwnerIsRoute, pc # "closed", NEW d \in Moves(conn),
         pc # "handler" => d \in Keeps(conn),
         \/ ReturnTrue(d)
         \/ \E p \in Pc \ {"handler", "match"} : Goto(d, p)
  PROVE  Spoken
<1>1. conn' = d /\ pc' \notin {"handler", "match"}
  BY DEF ReturnTrue, Goto
<1>2. conn \in GoodConn /\ d \in GoodConn /\ OwnerIsRoute' /\ Moved(conn, conn')
  BY <1>1, IInvFacts DEF Moves, Owned, OwnerIsRoute
<1>3. pc # "handler" => KeptRequest(conn, conn')
  BY <1>1 DEF Keeps
<1>4. conn'.block.state \in SessState
  BY <1>1, <1>2 DEF GoodConn, Conn, Block
<1> QED
  BY <1>1, <1>2, <1>3, <1>4, GoOn

LEMMA OwnConnFacts ==
  ASSUME IInv, OwnerIsRoute, pc # "closed"
  PROVE  conn \in OwnConn /\ conn \in Keeps(conn) /\ Keeps(conn) \subseteq Moves(conn)
<1>1. conn \in OwnConn
  BY IInvFacts DEF OwnerIsRoute, OwnConn, Owned
<1> QED
  BY <1>1, KeepsSame, KeepsMoves DEF SameRequest, OwnConn

LEMMA RejectKeeps == ASSUME NEW c \in OwnConn PROVE Reject(c) \subseteq Keeps(c)
BY HttpErrorKeeps, KeepsOwn, KeepsThen, PendCloseKeeps DEF Reject

\* A connection that differs from conn in neither owner, state nor route.
LEMMA KeepsAlike ==
  ASSUME IInv, OwnerIsRoute, pc # "closed", NEW d \in GoodConn,
         d.owner = conn.owner, d.block.route = conn.block.route,
         d.block.state = conn.block.state
  PROVE  d \in Keeps(conn) /\ d \in OwnConn
BY OwnConnFacts, KeepsSame, KeepsOwn DEF SameRequest

\* A step that speaks to no handler.
LEMMA Silent ==
  ASSUME OwnerIsRoute, pc # "handler", pc' # "handler",
         pc' = "match" => conn'.block.state = REQUEST_BEGIN,
         conn'.owner = conn.owner, conn'.block.state = conn.block.state,
         \/ conn'.block.route = conn.block.route
         \/ conn.block.state = REQUEST_BEGIN
  PROVE  Spoken
<1>1. UNCHANGED HandlerDialogue!vars
  BY DEF HandlerDialogue!vars
<1>2. OwnerIsRoute' /\ CallInv'
  BY DEF OwnerIsRoute, CallInv
<1> QED
  BY <1>1, <1>2 DEF Spoken

\* call_handler up to the handler: the owner is called, or a route is asked.
LEMMA CallStep ==
  ASSUME OwnerIsRoute, conn \in GoodConn, pc # "handler",
         NEW d \in GoodConn, NEW caller \in Caller, CallHandler(d, caller),
         d.owner = conn.owner, d.block.state = conn.block.state,
         \/ d.block.route = conn.block.route
         \/ conn.block.state = REQUEST_BEGIN,
         caller \in {"begin", "begin404"} => conn.block.state = REQUEST_BEGIN,
         caller = "header" => conn.block.state = REQUEST_HEADER,
         caller = "body" => conn.block.state = REQUEST_BODY,
         caller \notin {"begin", "begin404", "header", "body"} =>
           conn.block.state \in {RESPONSE_BEGIN, RESPONSE_HEADER, RESPONSE_BODY}
  PROVE  Spoken
<1>1. CASE d.block.route = NoRoute
  <2>1. conn' = [d EXCEPT !.fault = "null_route"] /\ pc' = "halted"
    BY <1>1 DEF CallHandler, Goto
  <2>2. conn'.owner = d.owner /\ conn'.block = d.block
    BY <2>1 DEF GoodConn, Conn
  <2> QED
    BY <2>1, <2>2, Silent
<1>2. CASE d.block.route # NoRoute
  <2>1. PICK b \in BehavioursOf(d.block.route) :
          /\ call' = [by |-> caller, ops |-> b[2], status |-> b[3]]
          /\ Goto(d, "handler")
    BY <1>2 DEF CallHandler
  <2>2. conn' = d /\ call'.by = caller
    BY <2>1 DEF Goto
  <2>3. CASE pc' = "halted"
    BY <2>2, <2>3, Silent
  <2>4. CASE pc' # "halted"
    <3>1. pc' = "handler"
      BY <2>1, <2>4 DEF Goto
    <3>2. OwnerIsRoute'
      BY <2>2 DEF OwnerIsRoute
    <3>3. CallInv'
      BY <1>2, <2>2, <3>1 DEF CallInv
    <3>4. CASE conn.owner = NoRoute
      <4>1. d.block.route \in Route
        BY <1>2, HttpConstants DEF GoodConn, Conn, Block, Route, NoRoute, R404
      <4>2. HandlerDialogue!Ask(d.block.route)
        BY <2>2, <3>1, <3>4 DEF HandlerDialogue!Ask
      <4> QED
        BY <3>2, <3>3, <4>1, <4>2 DEF Spoken, HandlerDialogue!Next
    <3>5. CASE conn.owner # NoRoute
      <4>1. conn.block.state # REQUEST_BEGIN /\ d.block.route = conn.owner
        BY <3>5, OwnerFacts
      <4>2. HandlerDialogue!Call
        BY <2>2, <3>1, <3>5, <4>1 DEF HandlerDialogue!Call
      <4> QED
        BY <3>2, <3>3, <4>2 DEF Spoken, HandlerDialogue!Next
    <3> QED
      BY <3>4, <3>5
  <2> QED
    BY <2>3, <2>4
<1> QED
  BY <1>1, <1>2

\* An operation of the handler, which may finalize the request under it.
LEMMA HandlerOpSpoken == ASSUME IInv, OwnerIsRoute, CallInv, HandlerOp PROVE Spoken
<1>1. pc = "handler" /\ conn \in OwnConn /\ conn \in GoodConn /\ call \in Call
  BY OwnConnFacts, IInvFacts DEF HandlerOp
<1>2. PICK d \in SessionOp(conn, Head(call.ops)) : Goto(d, "handler")
  BY DEF HandlerOp
<1>3. d \in Keeps(conn) /\ conn' = d
  BY <1>1, <1>2, SessionOpKeeps DEF Goto
<1>4. call'.by = call.by
  BY <1>1 DEF HandlerOp, Call
<1>5. CASE pc' # "handler"
  <2>1. Goto(d, "halted") /\ "halted" \in Pc \ {"handler", "match"}
    BY <1>2, <1>5 DEF Goto, Pc
  <2> QED
    BY <1>1, <1>3, <2>1, KeepsMoves, GoOnTo
<1>6. CASE pc' = "handler"
  <2>1. KeptRequest(conn, conn') /\ OwnerIsRoute'
    BY <1>3 DEF Keeps, Owned, OwnerIsRoute
  <2>2. CallInv'
    BY <1>1, <1>4, <1>6, <2>1 DEF CallInv, KeptRequest, SameRequest, Ended
  <2>3. CASE SameRequest(conn, conn') /\ conn'.block.state = conn.block.state
    <3>1. UNCHANGED HandlerDialogue!vars
      BY <1>1, <1>6, <2>3 DEF HandlerDialogue!vars, SameRequest
    <3> QED
      BY <2>1, <2>2, <3>1 DEF Spoken
  <2>4. CASE conn.block.state # REQUEST_BEGIN /\ Ended(conn')
    <3>1. conn'.owner = NoRoute /\ conn'.block.route = NoRoute
      BY <2>1, <2>4 DEF Ended, OwnerIsRoute
    <3>2. CASE conn.owner # NoRoute
      <4>1. HandlerDialogue!End
        BY <3>1, <3>2 DEF HandlerDialogue!End
      <4> QED
        BY <2>1, <2>2, <4>1 DEF Spoken, HandlerDialogue!Next
    <3>3. CASE conn.owner = NoRoute
      <4>1. conn.block.route = NoRoute
        BY <2>4, <3>3 DEF OwnerIsRoute
      <4>2. UNCHANGED HandlerDialogue!vars
        BY <3>1, <3>3, <4>1 DEF HandlerDialogue!vars
      <4> QED
        BY <2>1, <2>2, <4>2 DEF Spoken
    <3> QED
      BY <3>2, <3>3
  <2> QED
    BY <2>1, <2>3, <2>4 DEF KeptRequest
<1> QED
  BY <1>5, <1>6

-----------------------------------------------------------------------------
(* The worker around the callbacks.                                        *)

LEMMA CloseSpoken == ASSUME IInv, OwnerIsRoute, pc = "select", Close PROVE Spoken
<1>1. conn \in OwnConn
  BY OwnConnFacts
<1>2. PICK d \in Finalize(conn) :
        IF d.fault # "none" THEN Goto(d, "halted")
        ELSE Goto([d EXCEPT !.sock = {}, !.waiting = FALSE], "closed")
  BY DEF Close
<1>3. d \in Keeps(conn) /\ d \in GoodConn
  BY <1>1, <1>2, FinalizeKeeps DEF Keeps
<1>4. conn'.owner = d.owner /\ conn'.block = d.block /\ pc' \notin {"handler", "match"}
  BY <1>2, <1>3 DEF Goto, GoodConn, Conn
<1>5. KeptRequest(conn, conn') /\ OwnerIsRoute'
  BY <1>3, <1>4 DEF Keeps, KeptRequest, SameRequest, Ended, Owned, OwnerIsRoute
<1>6. Moved(conn, conn')
  BY <1>5 DEF KeptRequest, Moved, Ended
<1>7. conn'.block.state \in SessState /\ conn \in GoodConn
  BY <1>1, <1>3, <1>4 DEF OwnConn, GoodConn, Conn, Block
<1> QED
  BY <1>4, <1>5, <1>6, <1>7, GoOn

LEMMA AroundSpoken ==
  ASSUME IInv, OwnerIsRoute, CallInv,
         \/ OnConnect \/ Recv \/ RecvEnd \/ ReadDone \/ PeerSends
         \/ UNCHANGED vars
  PROVE  Spoken
<1>1. /\ conn'.owner = conn.owner /\ conn'.block = conn.block
      /\ \/ pc' = pc /\ call' = call
         \/ pc # "handler" /\ pc' \notin {"handler", "match"}
  <2>1. conn \in Conn
    BY IInvFacts
  <2>2. CASE OnConnect
    BY <2>1, <2>2 DEF OnConnect, Goto, Conn
  <2>3. CASE Recv
    BY <2>3 DEF Recv, Receiving
  <2>4. CASE RecvEnd
    BY <2>1, <2>4 DEF RecvEnd, Receiving, Goto, PendClose, Conn
  <2>5. CASE ReadDone
    <3>1. CASE Len(buf) = BufSize
      BY <2>1, <2>5, <3>1 DEF ReadDone, Goto, PendClose, Conn
    <3>2. CASE Len(buf) # BufSize
      BY <2>5, <3>2 DEF ReadDone, Goto
    <3> QED
      BY <3>1, <3>2
  <2>6. CASE PeerSends
    BY <2>1, <2>6 DEF PeerSends, Conn
  <2>7. CASE UNCHANGED vars
    BY <2>7 DEF vars
  <2> QED
    BY <2>2, <2>3, <2>4, <2>5, <2>6, <2>7
<1>2. OwnerIsRoute' /\ CallInv'
  BY <1>1 DEF OwnerIsRoute, CallInv
<1>3. UNCHANGED HandlerDialogue!vars
  BY <1>1 DEF HandlerDialogue!vars
<1> QED
  BY <1>2, <1>3 DEF Spoken

LEMMA DoWriteSpoken == ASSUME IInv, OwnerIsRoute, DoWrite PROVE Spoken
<1>1. pc = "select" /\ conn \in GoodConn /\ CallHandler(conn, "response")
  BY IInvFacts DEF DoWrite
<1>2. conn.block.state \in {RESPONSE_BEGIN, RESPONSE_HEADER, RESPONSE_BODY}
  BY <1>1 DEF DoWrite, WantWrite, GoodConn, Conn, Block, SessState, REQUEST_BEGIN,
     REQUEST_HEADER, REQUEST_BODY, RESPONSE_BEGIN, RESPONSE_HEADER, RESPONSE_BODY
<1> QED
  BY <1>1, <1>2, StatesApart, CallStep DEF Caller

-----------------------------------------------------------------------------
(* request_begin                                                           *)

\* The dispatch table takes the state modulo 16; a state of a request is its own.
LEMMA ParsingState ==
  ASSUME IInv, ReadsRequests
  PROVE  /\ Parsing(0) => conn.block.state = REQUEST_BEGIN
         /\ Parsing(1) => conn.block.state = REQUEST_HEADER
         /\ Parsing(2) => conn.block.state = REQUEST_BODY
BY DEF Parsing, ReadsRequests, REQUEST_BEGIN, REQUEST_HEADER, REQUEST_BODY

LEMMA AwaitLineSpoken ==
  ASSUME IInv, OwnerIsRoute, pc = "parse", NEW d \in GoodConn, AwaitLine(d),
         d.owner = conn.owner, d.block.route = conn.block.route,
         d.block.state = conn.block.state
  PROVE  Spoken
<1>1. d \in Keeps(conn) /\ d \in OwnConn
  BY KeepsAlike
<1>2. PICK e \in (IF bufpos = 0 /\ Len(buf) >= BufSize - 1 THEN Reject(d) ELSE {d}) :
        ReturnTrue(e)
  BY DEF AwaitLine
<1>3. e \in Keeps(conn)
  BY <1>1, <1>2, OwnConnFacts, RejectKeeps, KeepsThen
<1> QED
  BY <1>2, <1>3, OwnConnFacts, GoOnTo

LEMMA RejectSpoken ==
  ASSUME IInv, OwnerIsRoute, pc = "parse", NEW d \in GoodConn,
         \E e \in Reject(d) : ReturnTrue(e),
         d.owner = conn.owner, d.block.route = conn.block.route,
         d.block.state = conn.block.state
  PROVE  Spoken
<1>1. d \in Keeps(conn) /\ d \in OwnConn
  BY KeepsAlike
<1>2. PICK e \in Reject(d) : ReturnTrue(e)
  OBVIOUS
<1>3. e \in Keeps(conn)
  BY <1>1, <1>2, OwnConnFacts, RejectKeeps, KeepsThen
<1> QED
  BY <1>2, <1>3, OwnConnFacts, GoOnTo

LEMMA RequestBeginSpoken ==
  ASSUME IInv, OwnerIsRoute, ReadsRequests, RequestBegin PROVE Spoken
<1>1. pc = "parse" /\ conn \in GoodConn /\ conn.block.state = REQUEST_BEGIN
  BY IInvFacts, ParsingState DEF RequestBegin, BeginAwait, BeginReject, BeginLine, Parsing
<1>2. /\ Begun \in GoodConn /\ Begun.owner = conn.owner
      /\ Begun.block.route = conn.block.route /\ Begun.block.state = conn.block.state
  BY <1>1, BegunGood DEF Begun, GoodConn, Conn, Block
<1>3. CASE BeginAwait
  BY <1>1, <1>2, <1>3, AwaitLineSpoken DEF BeginAwait
<1>4. CASE BeginReject
  BY <1>1, <1>2, <1>4, RejectSpoken DEF BeginReject
<1>5. CASE BeginLine
  <2>1. /\ conn'.owner = Begun.owner /\ conn'.block.state = Begun.block.state
        /\ pc' # "handler"
    BY <1>2, <1>5 DEF BeginLine, Goto, GoodConn, Conn, Block
  <2> QED
    BY <1>1, <1>2, <2>1, Silent
<1> QED
  BY <1>3, <1>4, <1>5 DEF RequestBegin

LEMMA MatchingSpoken ==
  ASSUME IInv, OwnerIsRoute, CallInv, Matching PROVE Spoken
<1>1. pc = "match" /\ conn \in GoodConn /\ conn.block.state = REQUEST_BEGIN
  BY IInvFacts DEF CallInv, Matching, SkipRoute, TryRoute, LastResort
<1>2. CASE SkipRoute
  <2>1. conn' = NextRoute(conn) /\ pc' # "handler"
    BY <1>2 DEF SkipRoute, Goto
  <2>2. conn'.owner = conn.owner /\ conn'.block.state = conn.block.state
    BY <1>1, <2>1 DEF NextRoute, GoodConn, Conn, Block
  <2> QED
    BY <1>1, <2>1, <2>2, Silent
<1>3. CASE TryRoute
  BY <1>1, <1>3, StatesApart, CallStep DEF TryRoute, Caller
<1>4. CASE LastResort
  <2> DEFINE d == [conn EXCEPT !.block.route = R404]
  <2>1. d \in GoodConn /\ d.owner = conn.owner /\ d.block.state = conn.block.state
    BY <1>1, HttpConstants DEF GoodConn, Conn, Block, R404, Marked
  <2>2. CallHandler(d, "begin404")
    BY <1>4 DEF LastResort
  <2> HIDE DEF d
  <2> QED
    BY <1>1, <2>1, <2>2, StatesApart, CallStep DEF Caller
<1> QED
  BY <1>2, <1>3, <1>4 DEF Matching

-----------------------------------------------------------------------------
(* request_header                                                          *)

\* The request is read on: the stage changes between two calls.
LEMMA ReadOnSpoken ==
  ASSUME OwnerIsRoute, pc # "handler", pc' \notin {"handler", "match"},
         conn'.owner = conn.owner, conn'.block.route = conn.block.route,
         <<conn.block.state, conn'.block.state>> \in
           {<<REQUEST_HEADER, REQUEST_BODY>>, <<REQUEST_HEADER, RESPONSE_BEGIN>>,
            <<REQUEST_BODY, RESPONSE_BEGIN>>}
  PROVE  Spoken
<1>1. OwnerIsRoute' /\ CallInv'
  BY StatesApart DEF OwnerIsRoute, CallInv
<1>2. CASE conn.owner = NoRoute
  <2>1. UNCHANGED HandlerDialogue!vars
    BY <1>2 DEF HandlerDialogue!vars
  <2> QED
    BY <1>1, <2>1 DEF Spoken
<1>3. CASE conn.owner # NoRoute
  <2>1. <<StageOf(conn.block.state), StageOf(conn'.block.state)>>
           \in HandlerDialogue!ReadOn
    BY DEF StageOf, HandlerDialogue!ReadOn, REQUEST_BEGIN, REQUEST_HEADER,
       REQUEST_BODY, RESPONSE_BEGIN, RESPONSE_HEADER, RESPONSE_BODY
  <2>2. HandlerDialogue!Proceed
    BY <1>3, <2>1 DEF HandlerDialogue!Proceed
  <2> QED
    BY <1>1, <2>2 DEF Spoken, HandlerDialogue!Next
<1> QED
  BY <1>2, <1>3

LEMMA RequestHeaderSpoken ==
  ASSUME IInv, OwnerIsRoute, ReadsRequests, RequestHeader PROVE Spoken
<1>1. pc = "parse" /\ conn \in GoodConn /\ conn.block.state = REQUEST_HEADER
  BY IInvFacts, ParsingState
  DEF RequestHeader, HeaderAwait, HeaderEnd, HeaderReject, HeaderLine, HeaderNoMemory,
      Parsing
<1>2. CASE HeaderAwait
  BY <1>1, <1>2, AwaitLineSpoken DEF HeaderAwait
<1>3. CASE HeaderReject
  BY <1>1, <1>3, RejectSpoken DEF HeaderReject
<1>4. CASE HeaderNoMemory
  <2> DEFINE d == [conn EXCEPT !.block.boundary = FALSE]
  <2>1. /\ d \in GoodConn /\ d.owner = conn.owner
        /\ d.block.state = conn.block.state /\ d.block.route = conn.block.route
    BY <1>1 DEF GoodConn, Conn, Block, Marked
  <2>2. \E e \in Reject(d) : ReturnTrue(e)
    BY <1>4 DEF HeaderNoMemory
  <2> HIDE DEF d
  <2> QED
    BY <1>1, <2>1, <2>2, RejectSpoken
<1>5. CASE HeaderEnd
  <2>1. /\ conn'.owner = conn.owner /\ conn'.block.route = conn.block.route
        /\ conn'.block.state \in {REQUEST_BODY, RESPONSE_BEGIN}
        /\ pc' \notin {"handler", "match"}
    BY <1>1, <1>5 DEF HeaderEnd, Goto, GoodConn, Conn, Block
  <2> QED
    BY <1>1, <2>1, ReadOnSpoken
<1>6. CASE HeaderLine
  <2>1. buf[1] \in Unit
    BY <1>6, HasLineRange, IInvFacts DEF HeaderLine
  <2>2. Effect(conn, buf[1]) \in GoodConn
    BY <1>1, <2>1, EffectGood
  <2>3. /\ Effect(conn, buf[1]).owner = conn.owner
        /\ Effect(conn, buf[1]).block.route = conn.block.route
        /\ Effect(conn, buf[1]).block.state = conn.block.state
    BY <1>1 DEF Effect, GoodConn, Conn, Block
  <2>4. CallHandler(Effect(conn, buf[1]), "header")
    BY <1>6 DEF HeaderLine
  <2> QED
    BY <1>1, <2>2, <2>3, <2>4, StatesApart, CallStep DEF Caller
<1> QED
  BY <1>2, <1>3, <1>4, <1>5, <1>6 DEF RequestHeader

-----------------------------------------------------------------------------
(* request_body                                                            *)

LEMMA RequestBodySpoken ==
  ASSUME IInv, OwnerIsRoute, ReadsRequests, RequestBody PROVE Spoken
<1>1. pc = "parse" /\ conn \in GoodConn /\ conn.block.state = REQUEST_BODY
  BY IInvFacts, ParsingState
  DEF RequestBody, ChunkBreak, ChunkSize, ChunkReject, BodyAwait, BodyData, ChunkLine,
      Parsing
<1>2. CASE ReturnTrue(conn)
  BY <1>1, <1>2, OwnConnFacts, GoOnTo
<1>3. CASE ReturnTrue([conn EXCEPT !.block.state = RESPONSE_BEGIN])
  <2>1. /\ conn'.owner = conn.owner /\ conn'.block.route = conn.block.route
        /\ conn'.block.state = RESPONSE_BEGIN /\ pc' \notin {"handler", "match"}
    BY <1>1, <1>3 DEF ReturnTrue, Goto, GoodConn, Conn, Block
  <2> QED
    BY <1>1, <2>1, ReadOnSpoken
<1>4. CASE ChunkBreak
  BY <1>2, <1>3, <1>4 DEF ChunkBreak
<1>5. CASE ChunkSize
  <2>1. /\ conn'.owner = conn.owner /\ conn'.block.route = conn.block.route
        /\ conn'.block.state = conn.block.state /\ pc' \notin {"handler", "match"}
    BY <1>1, <1>5 DEF ChunkSize, Goto, GoodConn, Conn, Block
  <2> QED
    BY <1>1, <2>1, Silent
<1>6. CASE ChunkReject
  BY <1>1, <1>6, RejectSpoken DEF ChunkReject
<1>7. CASE BodyAwait
  BY <1>2, <1>7 DEF BodyAwait
<1>8. CASE BodyData
  <2> DEFINE len == Least(Len(buf), Remaining(conn))
             d == [conn EXCEPT !.chunkLen = len]
  <2>1. len \in Nat
    BY <1>1, RemainingNat, IInvFacts DEF Least
  <2>2. /\ d \in GoodConn /\ d.owner = conn.owner
        /\ d.block.state = conn.block.state /\ d.block.route = conn.block.route
    <3> HIDE DEF len
    <3> QED
      BY <1>1, <2>1 DEF GoodConn, Conn, Marked
  <2>3. CallHandler(d, "body")
    BY <1>8 DEF BodyData
  <2> HIDE DEF d
  <2> QED
    BY <1>1, <2>2, <2>3, StatesApart, CallStep DEF Caller
<1> QED
  BY <1>4, <1>5, <1>6, <1>7, <1>8 DEF RequestBody

-----------------------------------------------------------------------------
(* The returns of call_handler.                                            *)

\* A route that accepts takes the request.
LEMMA TakeSpoken ==
  ASSUME pc = "handler", conn.owner = NoRoute, conn.block.route # NoRoute,
         NEW d \in GoodConn, d.owner = NoRoute, d.block.route = conn.block.route,
         Goto(Accepted(d), "parse")
  PROVE  Spoken
<1>1. /\ conn'.owner = d.block.route /\ conn'.block.route = d.block.route
      /\ conn'.block.state \in {REQUEST_HEADER, RESPONSE_BEGIN}
      /\ pc' \notin {"handler", "match"}
  BY DEF Accepted, Goto, GoodConn, Conn, Block
<1>2. OwnerIsRoute' /\ CallInv'
  BY <1>1, StatesApart DEF OwnerIsRoute, CallInv
<1>3. StageOf(conn'.block.state) \in {"request header", "response begin"}
  BY <1>1 DEF StageOf, REQUEST_BEGIN, REQUEST_HEADER, REQUEST_BODY, RESPONSE_BEGIN,
     RESPONSE_HEADER, RESPONSE_BODY
<1>4. HandlerDialogue!Take
  BY <1>1, <1>3 DEF HandlerDialogue!Take
<1> QED
  BY <1>2, <1>4 DEF Spoken, HandlerDialogue!Next

\* What a handler asked at REQUEST_BEGIN leaves: the question is still open.
LEMMA AskedFacts ==
  ASSUME IInv, OwnerIsRoute, CallInv, Returns({"begin", "begin404"}),
         NEW d \in Moves(conn)
  PROVE  /\ pc = "handler" /\ conn.owner = NoRoute /\ conn.block.route # NoRoute
         /\ d \in GoodConn /\ d.owner = NoRoute /\ d.block.route = conn.block.route
         /\ d.block.state = REQUEST_BEGIN
<1>1. pc = "handler" /\ conn.block.state = REQUEST_BEGIN /\ conn.block.route # NoRoute
  BY DEF Returns, CallInv
<1>2. conn.owner = NoRoute
  BY <1>1 DEF OwnerIsRoute
<1> QED
  BY <1>1, <1>2, StatesApart DEF Moves, Moved, SameRequest, StateMoves

LEMMA ReturnToBeginSpoken ==
  ASSUME IInv, OwnerIsRoute, CallInv, ReturnToBegin PROVE Spoken
<1>1. pc = "handler" /\ call.status \in RouteStatus /\ Returns({"begin", "begin404"})
  BY IInvFacts DEF ReturnToBegin, Returns, Call
<1>2. PICK d \in AfterStatus(conn, call.status) :
        \/ Goto(Accepted(d), "parse")
        \/ d.block.route = NoRoute /\ Goto(d, "match")
        \/ Goto(NextRoute(d), "match") \/ ReturnTrue(d)
  BY DEF ReturnToBegin
<1>3. d \in Moves(conn)
  BY <1>1, <1>2, OwnConnFacts, AfterStatusMoves
<1>4. CASE Goto(Accepted(d), "parse")
  BY <1>1, <1>3, <1>4, AskedFacts, TakeSpoken
<1>5. CASE Goto(NextRoute(d), "match")
  <2>1. /\ conn.owner = NoRoute /\ conn.block.route # NoRoute
        /\ d \in GoodConn /\ d.owner = NoRoute /\ d.block.state = REQUEST_BEGIN
    BY <1>1, <1>3, AskedFacts
  <2>2. /\ conn'.owner = NoRoute /\ conn'.block.state = REQUEST_BEGIN
        /\ pc' # "handler"
    BY <1>5, <2>1 DEF Goto, NextRoute, GoodConn, Conn, Block
  <2>3. HandlerDialogue!Decline
    BY <1>1, <2>1, <2>2 DEF HandlerDialogue!Decline
  <2> QED
    BY <2>2, <2>3 DEF Spoken, HandlerDialogue!Next, OwnerIsRoute, CallInv
<1>6. CASE ReturnTrue(d)
  BY <1>1, <1>3, <1>6, GoOnTo
<1>7. d.block.route # NoRoute
  BY <1>1, <1>3, AskedFacts
<1> QED
  BY <1>2, <1>4, <1>5, <1>6, <1>7

LEMMA BodyTailSpoken ==
  ASSUME IInv, OwnerIsRoute, pc = "handler", NEW d \in Moves(conn), BodyTail(d),
         conn.block.route = NoRoute \/ conn.block.state = REQUEST_BODY
  PROVE  Spoken
<1>1. conn \in GoodConn /\ d \in GoodConn /\ Owned(d) /\ Moved(conn, d)
  BY IInvFacts DEF Moves
<1>2. CASE BodyFault(d) # "none"
  <2>1. /\ conn'.owner = d.owner /\ conn'.block = d.block
        /\ pc' \notin {"handler", "match"}
    BY <1>1, <1>2 DEF BodyTail, Goto, GoodConn, Conn
  <2>2. OwnerIsRoute' /\ Moved(conn, conn') /\ conn'.block.state \in SessState
    BY <1>1, <2>1 DEF Owned, OwnerIsRoute, Moved, SameRequest, GoodConn, Conn, Block
  <2> QED
    BY <1>1, <2>1, <2>2, GoOn
<1>3. CASE BodyFault(d) = "none"
  <2>1. ReturnTrue(Account(d)) \/ Goto(Account(d), "parse")
    BY <1>3 DEF BodyTail
  <2>2. Account(d) \in GoodConn
    BY <1>1, <1>3, AccountGood, IInvFacts
  <2>3. /\ Account(d).owner = d.owner /\ Account(d).block.route = d.block.route
        /\ Account(d).block.state \in {d.block.state, RESPONSE_BEGIN}
    BY <1>1 DEF Account, GoodConn, Conn, Block
  <2>4. Moved(conn, Account(d))
    BY <1>1, <2>3, StatesApart DEF Moved, SameRequest, StateMoves
  <2>5. d.block.state = REQUEST_BEGIN => d.block.route = NoRoute
    BY <1>1, StatesApart DEF Moved, SameRequest, StateMoves
  <2>6. Owned(Account(d))
    BY <1>1, <2>3, <2>5, StatesApart DEF Owned
  <2>7. Account(d) \in Moves(conn) /\ "parse" \in Pc \ {"handler", "match"}
    BY <2>2, <2>4, <2>6 DEF Moves, Pc
  <2> QED
    BY <2>1, <2>7, GoOnTo
<1> QED
  BY <1>2, <1>3

LEMMA HandlerSpoken == ASSUME IInv, OwnerIsRoute, CallInv, Handler PROVE Spoken
<1>1. pc = "handler" /\ call.status \in RouteStatus
  BY IInvFacts DEF Handler, HandlerOp, ReturnToBegin, ReturnToLastResort,
                   ReturnToHeader, ReturnToBody, ReturnToWrite, Returns, Call
<1>2. AfterStatus(conn, call.status) \subseteq Moves(conn)
  BY <1>1, OwnConnFacts, AfterStatusMoves
<1>3. "parse" \in Pc \ {"handler", "match"} /\ "select" \in Pc \ {"handler", "match"}
  BY DEF Pc
<1>4. CASE ReturnToLastResort
  <2>1. PICK d \in AfterStatus(conn, call.status) : Goto(Accepted(d), "parse")
    BY <1>4 DEF ReturnToLastResort
  <2>2. Returns({"begin", "begin404"})
    BY <1>4 DEF ReturnToLastResort, Returns
  <2> QED
    BY <1>2, <2>1, <2>2, AskedFacts, TakeSpoken
<1>5. CASE ReturnToHeader
  BY <1>1, <1>2, <1>3, <1>5, GoOnTo DEF ReturnToHeader
<1>6. CASE ReturnToBody
  <2>1. conn.block.route = NoRoute \/ conn.block.state = REQUEST_BODY
    BY <1>6 DEF ReturnToBody, Returns, CallInv
  <2> QED
    BY <1>1, <1>2, <1>6, <2>1, BodyTailSpoken DEF ReturnToBody
<1>7. CASE ReturnToWrite
  BY <1>1, <1>2, <1>3, <1>7, GoOnTo DEF ReturnToWrite
<1> QED
  BY <1>4, <1>5, <1>6, <1>7, HandlerOpSpoken, ReturnToBeginSpoken DEF Handler

-----------------------------------------------------------------------------
(* The refinement.                                                         *)

LEMMA NextSpoken ==
  ASSUME IInv, OwnerIsRoute, CallInv, ReadsRequests, [Next]_vars PROVE Spoken
<1>1. CASE Worker
  <2>1. CASE PendingClose
    BY <2>1, CloseSpoken DEF PendingClose
  <2> QED
    BY <1>1, <2>1, AroundSpoken, DoWriteSpoken, RequestBeginSpoken, MatchingSpoken,
       RequestHeaderSpoken, RequestBodySpoken, HandlerSpoken DEF Worker
<1>2. CASE Environment
  <2>1. CASE IdleTimeout
    BY <2>1, CloseSpoken DEF IdleTimeout
  <2> QED
    BY <1>2, <2>1, AroundSpoken DEF Environment
<1>3. CASE UNCHANGED vars
  BY <1>3, AroundSpoken
<1> QED
  BY <1>1, <1>2, <1>3 DEF Next, Stopped

LEMMA InitSpoken == Init => OwnerIsRoute /\ CallInv /\ HandlerDialogue!Init
BY DEF Init, ZeroBlock, OwnerIsRoute, CallInv, HandlerDialogue!Init

\* As long as the parser is in step with its input, the owner of a request is the
\* route of the block, whatever handlers return and send and whichever send fails.
THEOREM OwnerHolds == Spec /\ []InStep => []OwnerIsRoute
<1>1. InStep => ReadsRequests
  BY DEF InStep, ReadsRequests
<1>2. IInv /\ OwnerIsRoute /\ CallInv /\ InStep /\ [Next]_vars
        => OwnerIsRoute' /\ CallInv'
  BY <1>1, NextSpoken DEF Spoken
<1> QED
  BY <1>2, InitSpoken, IInvHolds, PTL DEF Spec

\* As long as the parser is in step, every behaviour of the connection is a dialogue
\* with its handlers: no order of returns, operations and failed sends makes
\* call_handler or finalize speak to a handler out of turn.
THEOREM KeepsDialogue == Spec /\ []InStep => DialogueSpec
<1>1. InStep => ReadsRequests
  BY DEF InStep, ReadsRequests
<1>2. IInv /\ OwnerIsRoute /\ CallInv /\ InStep /\ [Next]_vars
        => OwnerIsRoute' /\ CallInv' /\ [HandlerDialogue!Next]_(HandlerDialogue!vars)
  BY <1>1, NextSpoken DEF Spoken
<1> QED
  BY <1>2, InitSpoken, IInvHolds, PTL DEF Spec, DialogueSpec, HandlerDialogue!Spec
=============================================================================
