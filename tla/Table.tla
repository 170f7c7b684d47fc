--------------------------------- MODULE Table --------------------------------
(***************************************************************************)
(* What the list of routes promises, in the order of the calls to          *)
(* ews_route_append: a request is offered to the routes one after the      *)
(* other, from the first on, until one takes it or there is no other.  A   *)
(* clear that comes in between ends the promise.                           *)
(***************************************************************************)
EXTENDS Integers, Sequences

CONSTANT Node
VARIABLES
  table,        \* the routes, in order
  offered       \* the place of the route that a request is offered to

tableVars == <<table, offered>>

NoRequest == 0
Refused == -1   \* by every route that there was

Init == table = <<>> /\ offered = NoRequest

Add(n) == table' = Append(table, n) /\ UNCHANGED offered
DropFirst == table # <<>> /\ table' = Tail(table) /\ offered' = NoRequest

PlaceOf(k) == IF k <= Len(table) THEN k ELSE Refused

Offer == offered = NoRequest /\ offered' = PlaceOf(1) /\ UNCHANGED table
Pass  == offered > 0 /\ offered' = PlaceOf(offered + 1) /\ UNCHANGED table
End   == offered # NoRequest /\ offered' = NoRequest /\ UNCHANGED table

Next == (\E n \in Node : Add(n)) \/ DropFirst \/ Offer \/ Pass \/ End

Spec == Init /\ [][Next]_tableVars
=============================================================================
