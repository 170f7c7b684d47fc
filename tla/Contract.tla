------------------------------- MODULE Contract -------------------------------
(***************************************************************************)
(* What a connection may rely on to stay in step: what the peer sends and  *)
(* when, and what handlers do while a request is read.  The peer sends one *)
(* request at a time, with no body or one of the length it declares, or a  *)
(* request that is refused; none has a chunked body.                       *)
(***************************************************************************)
EXTENDS Session

LineStart == {"header", "close", "keepalive", "length", "multipart"}
BadLine == {"badheader", "junk"}

\* The units of t up to m are header lines, and at m is the blank line or a line that
\* is refused.
Lines(t, m) ==
  /\ m \in 1..Len(t)
  /\ t[m].k \in {"crlf"} \cup BadLine
  /\ m > 1 => t[m - 1].k = "crlf"
  /\ \A i \in 1..(m - 1) : /\ t[i].k \in {"crlf"} \cup LineStart
                           /\ t[i].k = "crlf" <=> i > 1 /\ t[i - 1].k # "crlf"

\* The body behind the blank line at m is as long as length, the one declared so far,
\* or the header lines still to come say.
Sized(t, m, length) ==
  /\ \A i \in (m + 1)..Len(t) : t[i].k = "data"
  /\ \A i \in 1..(m - 1) : t[i].k = "length" => t[i].n = Len(t) - m
  /\ length # SIZE_MAX => length = Len(t) - m
  /\ Len(t) > m => length # SIZE_MAX \/ \E i \in 1..(m - 1) : t[i].k = "length"

\* There is one boundary at most.
OneForm(t, m, boundary) ==
  \A i \in 1..(m - 1) : t[i].k = "multipart" =>
    ~boundary /\ \A j \in 1..(m - 1) : t[j].k = "multipart" => i = j

\* What follows the lines of a request that were read.
HeaderPart(t, length, boundary) ==
  \E m \in 1..Len(t) :
    /\ Lines(t, m) /\ OneForm(t, m, boundary)
    /\ t[m].k = "crlf" => Sized(t, m, length)

IsRequest(t) ==
  /\ t # <<>>
  /\ \/ t[1].k \in {"nopath", "badversion", "junk"}
     \/ /\ Len(t) > 1 /\ t[1].k = "line" /\ t[2].k = "crlf"
        /\ IF t[1].n = 0 THEN Len(t) = 2
           ELSE HeaderPart(SubSeq(t, 3, Len(t)), SIZE_MAX, FALSE)

\* Handlers answer a question at once, leave a request alone while it is read, and do
\* what they like in the response.
Polite(b) ==
  /\ b[1] = REQUEST_BEGIN =>
       b[2] = <<>> /\ b[3] \in {"FOUND", "NOT_FOUND", "ERROR", "CLOSE", "MORE"}
  /\ b[1] = REQUEST_HEADER => b[2] = <<>> /\ b[3] = "NEXT"
  /\ b[1] = REQUEST_BODY => b[2] \in Seq({"recv", "recv1"}) /\ b[3] = "NEXT"

\* A failed send marks the connection.
Orderly ==
  /\ \A s \in Streams : \A i \in DOMAIN s : IsRequest(s[i])
  /\ \A r \in 1..NRoutes : \A b \in Handlers[r] : Polite(b)
  /\ ~Pipelining
  /\ Tls => "again" \notin SendFaults

\* Every body finds a handler that reads of it: a request is not left to
\* ews_route_404, which reads nothing.
Draining ==
  /\ CatchAll /\ NRoutes > 0
  /\ \A b \in Handlers[NRoutes] : b[1] = REQUEST_BEGIN => b[3] # "NOT_FOUND"
  /\ \A r \in 1..NRoutes : \A b \in Handlers[r] : b[1] = REQUEST_BODY =>
       \E i \in DOMAIN b[2] : b[2][i] \in {"recv", "recv1"}

\* No send fails in a chunked response.
Chunks == \E r \in 1..NRoutes : \E b \in Handlers[r] : \E i \in DOMAIN b[2] : b[2][i] = "chunked"
Steady == SendFaults = {} \/ ~Chunks
-----------------------------------------------------------------------------
(* What handlers owe the peer so that it can read their answers: one status *)
(* line, headers that say how the body ends, and a body that ends that way. *)

Framing == {"length", "chunked", "close"}

\* A response of DeclaredLen takes n sends: with 0 left the length counts as undeclared.
SendsWhole(n) == (n - 1) * SendLen < DeclaredLen /\ DeclaredLen <= n * SendLen

AnswersBegin(ops, status) ==
  \/ ops = <<>> /\ status # "NEXT"
  \/ ops = <<"status">> /\ status \in {"NEXT", "CLOSE"}
  \/ ops # <<>> /\ Head(ops) = "error"

\* The headers of a response that is framed by f.
HeadersOf(f) == {"header", f} \cup (IF f = "close" THEN {} ELSE {"close", "keepalive"})

AnswersHeader(ops, status, f) ==
  /\ ops \in Seq(HeadersOf(f))
  /\ status \in {"NEXT", "MORE", "CLOSE", "ERROR"}
  /\ status = "NEXT" => \E i \in DOMAIN ops : ops[i] = f

AnswersBody(ops, status, f) ==
  /\ ops \in Seq({"send"})
  /\ f = "length" => \/ SendsWhole(Len(ops)) /\ (status # "MORE" \/ ops = <<>>)
                     \/ ops = <<>> /\ status \in {"MORE", "CLOSE", "ERROR"}

Answers(b, f) ==
  /\ b[1] = RESPONSE_BEGIN  => AnswersBegin(b[2], b[3])
  /\ b[1] = RESPONSE_HEADER => AnswersHeader(b[2], b[3], f)
  /\ b[1] = RESPONSE_BODY   => AnswersBody(b[2], b[3], f)

\* The answers of HTTP/0.9 have no head.
Versioned(t) == \A i \in DOMAIN t : t[i].k = "line" => t[i].n # 0

Framed ==
  /\ \A s \in Streams : \A i \in DOMAIN s : Versioned(s[i])
  /\ \A r \in 1..NRoutes : \E f \in Framing : \A b \in Handlers[r] : Answers(b, f)
=============================================================================
