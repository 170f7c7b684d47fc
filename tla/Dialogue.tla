------------------------------ MODULE Dialogue -------------------------------
(***************************************************************************)
(* What a connection promises the handlers of its routes: one at a time is *)
(* spoken to.  A route that is asked may take the request; from then on    *)
(* only its handler is called, for the headers, the body and the three     *)
(* parts of the response in this order, until its one FINALIZE.            *)
(***************************************************************************)
CONSTANTS Routes, NoRoute

VARIABLES
  owner,   \* the route that has taken the request
  stage,   \* what its handler is called for
  called   \* the route whose handler is called now

vars == <<owner, stage, called>>

Stages == {"request header", "request body", "response begin", "response header",
           "response body"}

Init == owner = NoRoute /\ stage = "none" /\ called = NoRoute

Ask(r) ==
  /\ owner = NoRoute /\ called = NoRoute
  /\ called' = r
  /\ UNCHANGED <<owner, stage>>

Decline ==
  /\ owner = NoRoute /\ called # NoRoute
  /\ called' = NoRoute
  /\ UNCHANGED <<owner, stage>>

\* An HTTP/0.9 request has neither headers nor a body.
Take ==
  /\ owner = NoRoute /\ called # NoRoute
  /\ owner' = called
  /\ stage' \in {"request header", "response begin"}
  /\ called' = NoRoute

Call ==
  /\ owner # NoRoute /\ called = NoRoute
  /\ called' = owner
  /\ UNCHANGED <<owner, stage>>

\* The stages that can follow a call that returned, and those that can follow when
\* the request has been read on.
Answered == {<<"request body", "response begin">>,
             <<"response begin", "response header">>,
             <<"response header", "response body">>}
ReadOn == {<<"request header", "request body">>,
           <<"request header", "response begin">>,
           <<"request body", "response begin">>}

Return ==
  /\ owner # NoRoute /\ called # NoRoute
  /\ stage' = stage \/ <<stage, stage'>> \in Answered
  /\ called' = NoRoute
  /\ UNCHANGED owner

Proceed ==
  /\ owner # NoRoute /\ called = NoRoute
  /\ <<stage, stage'>> \in ReadOn
  /\ UNCHANGED <<owner, called>>

\* FINALIZE, between two calls or in the middle of one
End ==
  /\ owner # NoRoute
  /\ owner' = NoRoute /\ stage' = "none" /\ called' = NoRoute

Next ==
  (\E r \in Routes : Ask(r)) \/ Decline \/ Take \/ Call \/ Return \/ Proceed \/ End

Spec == Init /\ [][Next]_vars
=============================================================================
