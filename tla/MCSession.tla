------------------------------ MODULE MCSession ------------------------------
(* Instances of Session for TLC: requests, streams of them, and handlers.   *)
EXTENDS Contract

U(kind, num) == [k |-> kind, n |-> num]
Crlf    == <<U("crlf", 0)>>
Line(v) == <<U("line", v)>> \o Crlf
H(kind) == <<U(kind, 0)>> \o Crlf
Length(num) == <<U("length", num)>> \o Crlf
Data(num)   == [i \in 1..num |-> U("data", 0)]

Get   == Line(2) \o H("header") \o Crlf
Get10 == Line(1) \o H("keepalive") \o Crlf
Last  == Line(2) \o H("close") \o Crlf
Post  == Line(2) \o Length(3) \o Crlf \o Data(3)
Form  == Line(2) \o H("multipart") \o Length(1) \o Crlf \o Data(1)

PairsOf(S) == {<<a, b>> : a, b \in S}

\* Handlers that keep to the states' order.  The routes differ in how they end
\* their response body: by length, or by chunks.
Request(body) ==
  ({REQUEST_BEGIN} \X {<<>>} \X {"FOUND", "NOT_FOUND", "ERROR", "CLOSE"})
  \cup {<<REQUEST_HEADER, <<>>, "NEXT">>}
  \cup ({REQUEST_BODY} \X body \X {"NEXT"})
Begin == {<<RESPONSE_BEGIN, <<"status">>, "NEXT">>,
          <<RESPONSE_BEGIN, <<"error">>, "DONE">>,
          <<RESPONSE_BEGIN, <<>>, "ERROR">>,
          <<RESPONSE_BEGIN, <<>>, "CLOSE">>}
ByLength ==
  Request({<<"recv">>}) \cup Begin
  \cup {<<RESPONSE_HEADER, <<"header">>, "MORE">>,
        <<RESPONSE_HEADER, <<"length">>, "NEXT">>,
        <<RESPONSE_HEADER, <<"close", "length">>, "NEXT">>,
        <<RESPONSE_BODY, <<"send">>, "DONE">>,
        <<RESPONSE_BODY, <<"send">>, "NEXT">>}
ByChunks ==
  Request({<<"recv1">>}) \cup Begin
  \cup {<<RESPONSE_HEADER, <<"chunked">>, "NEXT">>,
        <<RESPONSE_HEADER, <<>>, "ERROR">>,
        <<RESPONSE_BODY, <<"send">>, "MORE">>,
        <<RESPONSE_BODY, <<>>, "CLOSE">>,
        <<RESPONSE_BODY, <<"send", "send">>, "DONE">>}

\* Requests that are refused, one per way to refuse them, and an HTTP/0.9 one.
Long      == [i \in 1..6 |-> U("junk", 0)]
Refused   == {<<U("nopath", 0)>> \o Crlf, <<U("badversion", 0)>> \o Crlf,
              Long, Line(2) \o Long, Line(1) \o H("badheader") \o Crlf,
              Line(2) \o H("multipart") \o H("multipart") \o Crlf,
              Line(2) \o H("chunked") \o Crlf \o <<U("junk", 0)>> \o Crlf}
Simple    == Line(0)

\* A request body in chunks of the given sizes.
Chunk(num) == <<U("size", num)>> \o Crlf \o Data(num)
OneChunk   == Line(2) \o H("chunked") \o Length(1) \o Crlf
              \o Chunk(3) \o Crlf \o LastChunk
Empty      == Line(2) \o Length(0) \o Crlf

\* A negative length: the one that reads as no length at all.
MinusOne   == Line(2) \o Length(-1) \o Crlf

MalformedStreams == {<<Get, r>> : r \in Refused} \cup {<<r>> : r \in Refused}
  \cup {<<Simple>>, <<MinusOne, Get>>}
LiveStreams == PairsOf({Get, Last, Post}) \cup {<<Get, OneChunk>>}
  \cup MalformedStreams
LiveHandlers ==
  <<(ByLength \ {<<RESPONSE_HEADER, <<"header">>, "MORE">>})
    \cup {<<REQUEST_BODY, <<"recv1">>, "NEXT">>},
    TestHandler>>

\* Disagreements with the API's documentation.
DoneInBody  == <<Request({}) \cup {<<REQUEST_BODY, <<>>, "DONE">>} \cup Begin>>
LengthHandler == <<ByLength>>
ChunkHandler  == <<TestHandler>>
GetStream     == {<<Get>>}
PostStream    == {<<Post>>}
EmptyStream   == {<<Empty>>}

SerialStreams == PairsOf({Get, Get10, Last, Post, Form})
NoHandlers     == <<>>
FaultStreams   == PairsOf({Get, Get10, Form})
FaultHandlers  == <<ByLength, {b \in ByLength : b[1] # REQUEST_BEGIN \/ b[3] # "FOUND"}>>
SerialHandlers == <<ByLength, ByChunks>>

\* The contract is kept by peers and handlers of these instances, which read, refuse and
\* answer requests of every form it allows.
ASSUME OrderlyInstances ==
  /\ Streams \in {SerialStreams, FaultStreams} => Orderly /\ Framed /\ Steady
  /\ Streams = LiveStreams =>
       Draining /\ \A r \in 1..NRoutes : \A b \in Handlers[r] : Polite(b)
  /\ IsRequest(Simple) /\ IsRequest(Empty)
  /\ \A r \in Refused : IsRequest(r) <=>
       \A i, j \in DOMAIN r : /\ r[i].k # "chunked"
                              /\ r[i].k = "multipart" /\ r[j].k = "multipart" => i = j
  /\ ~IsRequest(OneChunk)
=============================================================================
