-------------------------------- MODULE Slots --------------------------------
(***************************************************************************)
(* What the listener, the worker and the handshake threads promise each    *)
(* other about the client slots of ews_t: a slot serves one connection     *)
(* from accept to close, a connection is served once, and nobody takes a   *)
(* slot or closes a connection that is not its own.                        *)
(***************************************************************************)
CONSTANTS Slots, Conns, NoConn

VARIABLES
  owner,     \* the connection each slot serves
  ended      \* the connections that have been served and are closed

vars == <<owner, ended>>

Init ==
  /\ owner = [s \in Slots |-> NoConn]
  /\ ended = {}

Admit(s, c) ==
  /\ owner[s] = NoConn
  /\ c \notin ended
  /\ \A t \in Slots : owner[t] # c
  /\ owner' = [owner EXCEPT ![s] = c]
  /\ UNCHANGED ended

Release(s) ==
  /\ owner[s] # NoConn
  /\ owner' = [owner EXCEPT ![s] = NoConn]
  /\ ended' = ended \cup {owner[s]}

Next == \E s \in Slots : Release(s) \/ \E c \in Conns : Admit(s, c)

Spec == Init /\ [][Next]_vars
=============================================================================
