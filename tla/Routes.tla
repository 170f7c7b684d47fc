-------------------------------- MODULE Routes --------------------------------
(***************************************************************************)
(* The list of routes (src/route.c) and the worker's walk over it          *)
(* (request_begin of src/http.c).  There is no lock.  An application can   *)
(* only append to a server that ews_init has started, so its thread        *)
(* appends and clears while the worker may walk; a handler may, too.       *)
(***************************************************************************)
EXTENDS Integers, Sequences

CONSTANTS
  Nodes,        \* how many nodes are allocated
  Sessions,
  Shared        \* whether two threads may change the list at once

ASSUME RoutesConstants ==
  /\ Nodes \in Nat
  /\ Shared \in BOOLEAN

NULL == 0
Node == 1..Nodes

VARIABLES
  node,         \* the memory of the nodes, in the order of their allocation
  allocated,    \* how many have been
  first, last,  \* route_first, route_last
  call,         \* where each thread is in a call that changes the list
  walk,         \* where the worker is in request_begin
  held,         \* data->block.route of the sessions whose request was accepted
  fault,        \* what the worker used that it must not, or "none"
  table,        \* history: the nodes linked and not freed, in order
  stale         \* history: the sessions during whose request a route was freed

routeVars == <<node, allocated, first, last, call, walk, held, fault, table, stale>>

Thread == {"app", "worker"}
Pointer == {NULL} \cup Node
Empty == [next |-> NULL, pattern |-> FALSE, handler |-> FALSE, live |-> FALSE]
NoCall == [at |-> "none", route |-> NULL]
NoWalk == [at |-> "none", cur |-> NULL, wants |-> {}, sess |-> NULL]

Init ==
  /\ node = [n \in Node |-> Empty]
  /\ allocated = 0
  /\ first = NULL /\ last = NULL
  /\ call = [t \in Thread |-> NoCall]
  /\ walk = NoWalk
  /\ held = [s \in Sessions |-> NULL]
  /\ fault = "none"
  /\ table = <<>>
  /\ stale = {}

\* A handler runs, for the request being walked or for an accepted one.
InHandler == walk.at = "handler" \/ (walk.at = "none" /\ \E s \in Sessions : held[s] # NULL)
InRequest(s) == (walk.at # "none" /\ walk.sess = s) \/ held[s] # NULL

MayCall(t) ==
  /\ t = "worker" => InHandler
  /\ \A u \in Thread : call[u].at = "none" \/ (Shared /\ u # t)
At(t, at) == fault = "none" /\ call[t].at = at
Goes(t, at) == call' = [call EXCEPT ![t].at = at]
Returns(t) == call' = [call EXCEPT ![t] = NoCall]

-----------------------------------------------------------------------------
(* ews_route_vappend, in the order of its statements.                      *)

\* Mutant of Alloc: the node is not set to zero.
Malloc(t) ==
  /\ At(t, "none") /\ MayCall(t)
  /\ allocated < Nodes
  /\ allocated' = allocated + 1
  /\ node' = [node EXCEPT ![allocated'] = [live |-> TRUE]]
  /\ call' = [call EXCEPT ![t] = [at |-> "link", route |-> allocated']]
  /\ UNCHANGED <<first, last, walk, held, fault, table, stale>>

Alloc(t) ==
  /\ At(t, "none") /\ MayCall(t)
  /\ allocated < Nodes
  /\ allocated' = allocated + 1
  /\ node' = [node EXCEPT ![allocated'] = [Empty EXCEPT !.live = TRUE]]
  /\ call' = [call EXCEPT ![t] = [at |-> "link", route |-> allocated']]
  /\ UNCHANGED <<first, last, walk, held, fault, table, stale>>

Link(t) ==
  /\ At(t, "link")
  /\ IF first = NULL THEN first' = call[t].route /\ UNCHANGED node
     ELSE node' = [node EXCEPT ![last].next = call[t].route] /\ UNCHANGED first
  /\ table' = Append(table, call[t].route)
  /\ Goes(t, "last")
  /\ UNCHANGED <<allocated, last, walk, held, fault, stale>>

\* Mutant of SetLast: the end of the list moves with the first route only.
SetLastOnce(t) ==
  /\ At(t, "last")
  /\ last' = IF last = NULL THEN call[t].route ELSE last
  /\ Goes(t, "pattern")
  /\ UNCHANGED <<node, allocated, first, walk, held, fault, table, stale>>

SetLast(t) ==
  /\ At(t, "last")
  /\ last' = call[t].route
  /\ Goes(t, "pattern")
  /\ UNCHANGED <<node, allocated, first, walk, held, fault, table, stale>>

SetPattern(t) ==
  /\ At(t, "pattern")
  /\ node' = [node EXCEPT ![call[t].route].pattern = TRUE]
  /\ Goes(t, "handler")
  /\ UNCHANGED <<allocated, first, last, walk, held, fault, table, stale>>

\* Mutant of SetHandler: the handler is left zero.
NoHandler(t) ==
  /\ At(t, "handler")
  /\ Returns(t)
  /\ UNCHANGED <<node, allocated, first, last, walk, held, fault, table, stale>>

SetHandler(t) ==
  /\ At(t, "handler")
  /\ node' = [node EXCEPT ![call[t].route].handler = TRUE]
  /\ Returns(t)
  /\ UNCHANGED <<allocated, first, last, walk, held, fault, table, stale>>

-----------------------------------------------------------------------------
(* ews_route_clear.                                                        *)

Clear(t) ==
  /\ At(t, "none") /\ MayCall(t)
  /\ call' = [call EXCEPT ![t] = [at |-> "clear", route |-> first]]
  /\ UNCHANGED <<node, allocated, first, last, walk, held, fault, table, stale>>

\* Mutant of Unlink: route_first is not moved.
FreeOnly(t) ==
  LET route == call[t].route IN
  /\ At(t, "clear") /\ route # NULL
  /\ call' = [call EXCEPT ![t].route = node[route].next]
  /\ node' = [node EXCEPT ![route].live = FALSE]
  /\ table' = SubSeq(table, 2, Len(table))
  /\ stale' = {s \in Sessions : InRequest(s)}
  /\ UNCHANGED <<allocated, first, last, walk, held, fault>>

\* One pass of the loop.
Unlink(t) ==
  LET route == call[t].route IN
  /\ At(t, "clear") /\ route # NULL
  /\ call' = [call EXCEPT ![t].route = node[route].next]
  /\ first' = node[route].next
  /\ node' = [node EXCEPT ![route].live = FALSE]
  /\ table' = Tail(table)
  /\ stale' = {s \in Sessions : InRequest(s)}
  /\ UNCHANGED <<allocated, last, walk, held, fault>>

Cleared(t) ==
  /\ At(t, "clear") /\ call[t].route = NULL
  /\ last' = NULL
  /\ Returns(t)
  /\ UNCHANGED <<node, allocated, first, walk, held, fault, table, stale>>

Write(t) ==
  \/ Alloc(t) \/ Link(t) \/ SetLast(t) \/ SetPattern(t) \/ SetHandler(t)
  \/ Clear(t) \/ Unlink(t) \/ Cleared(t)

-----------------------------------------------------------------------------
(* The worker.  A request wants some routes: their patterns match and      *)
(* their handlers take it.  Others may match and refuse it.                *)

\* The worker's thread is not in a call of a handler to the list.
Worker == fault = "none" /\ call["worker"].at = "none"
WalksOn(at, cur) == walk' = [walk EXCEPT !.at = at, !.cur = cur] /\ UNCHANGED <<held, stale>>
ListKept == UNCHANGED <<node, allocated, first, last, call, table>>

\* The worker reads a field of a node, which has been freed or is not set yet, or is.
Uses(n, what, set) ==
  fault' = IF ~node[n].live THEN "freed" ELSE IF ~set THEN what ELSE "none"

Begin(s, wants) ==
  /\ Worker /\ walk.at = "none" /\ held[s] = NULL
  /\ walk' = [at |-> "match", cur |-> first, wants |-> wants, sess |-> s]
  /\ UNCHANGED <<held, fault, stale>>
  /\ ListKept

Match ==
  /\ Worker /\ walk.at = "match" /\ walk.cur # NULL
  /\ Uses(walk.cur, "pattern", node[walk.cur].pattern)
  /\ \/ WalksOn("call", walk.cur)
     \/ walk.cur \notin walk.wants /\ WalksOn("next", walk.cur)
  /\ ListKept

Call ==
  /\ Worker /\ walk.at = "call"
  /\ Uses(walk.cur, "handler", node[walk.cur].handler)
  /\ WalksOn("handler", walk.cur)
  /\ ListKept

\* The handler returns NOT_FOUND.
NotFound ==
  /\ Worker /\ walk.at = "handler" /\ walk.cur \notin walk.wants
  /\ WalksOn("next", walk.cur)
  /\ UNCHANGED fault
  /\ ListKept

\* Mutant of NextRoute: the walk ends with the route that is the last one in route_last.
NextUnlessLast ==
  /\ Worker /\ walk.at = "next"
  /\ Uses(walk.cur, "next", TRUE)
  /\ WalksOn("match", IF walk.cur = last THEN NULL ELSE node[walk.cur].next)
  /\ ListKept

\* data->block.route = data->block.route->next
NextRoute ==
  /\ Worker /\ walk.at = "next"
  /\ Uses(walk.cur, "next", TRUE)
  /\ WalksOn("match", node[walk.cur].next)
  /\ ListKept

\* The handler returns FOUND, and its route serves the rest of the request.
Found ==
  /\ Worker /\ walk.at = "handler" /\ walk.cur \in walk.wants
  /\ held' = [held EXCEPT ![walk.sess] = walk.cur]
  /\ walk' = NoWalk
  /\ UNCHANGED <<fault, stale>>
  /\ ListKept

\* The handler closes the connection, or no route is left but the static one.
GivesUp ==
  /\ Worker /\ (walk.at = "handler" \/ (walk.at = "match" /\ walk.cur = NULL))
  /\ walk' = NoWalk
  /\ stale' = stale \ {walk.sess}
  /\ UNCHANGED <<held, fault>>
  /\ ListKept

\* A later call of the handler, the last of which finalizes the request.
CallHeld(s) ==
  /\ Worker /\ walk.at = "none" /\ held[s] # NULL
  /\ Uses(held[s], "handler", node[held[s]].handler)
  /\ held' = [held EXCEPT ![s] = NULL]
  /\ stale' = stale \ {s}
  /\ UNCHANGED walk
  /\ ListKept

Walk ==
  \/ \E s \in Sessions, wants \in SUBSET Node : Begin(s, wants)
  \/ Match \/ Call \/ NotFound \/ NextRoute \/ Found \/ GivesUp
  \/ \E s \in Sessions : CallHeld(s)

Halted == fault # "none" /\ UNCHANGED routeVars

Next == (\E t \in Thread : Write(t)) \/ Walk \/ Halted

Spec == Init /\ [][Next]_routeVars

-----------------------------------------------------------------------------
(* What the worker may rely on.                                            *)

TypeOK ==
  /\ node \in [Node -> [next : Pointer, pattern : BOOLEAN, handler : BOOLEAN, live : BOOLEAN]]
  /\ allocated \in 0..Nodes
  /\ first \in Pointer /\ last \in Pointer
  /\ call \in [Thread -> [at : {"none", "link", "last", "pattern", "handler", "clear"},
                          route : Pointer]]
  /\ walk \in [at : {"none", "match", "call", "handler", "next"}, cur : Pointer,
               wants : SUBSET Node, sess : Sessions \cup {NULL}]
  /\ held \in [Sessions -> Pointer]
  /\ fault \in {"none", "freed", "pattern", "handler"}
  /\ table \in Seq(Node)
  /\ stale \subseteq Sessions

\* The list in memory holds the routes in the order in which they were linked, none of
\* them freed, at every moment of an append and of a clear (src/route.c:13-63).
ListIsTable ==
  /\ first = IF table = <<>> THEN NULL ELSE table[1]
  /\ \A k \in 1..Len(table) :
       /\ node[table[k]].live
       /\ node[table[k]].next = IF k = Len(table) THEN NULL ELSE table[k + 1]

\* A request meets a freed route only if the route was freed while that request was under
\* way: one that begins between a clear and the next appends, during either, or after
\* both, finds no way to what was freed (src/route.c:51-63, src/http.c:446-458).
FreedUnderIt ==
  [][fault' = "freed" /\ fault = "none" =>
       \E s \in stale : (walk.at # "none" /\ walk.sess = s) \/ held'[s] # held[s]]_routeVars

\* A worker that finds a route without pattern or handler has met one that another
\* thread is just appending: no complete call leaves such a route
\* (src/route.c:21-36, src/http.c:449).
OnlyHalfFilled ==
  fault \in {"pattern", "handler"} =>
    call["app"].at \in {"last", "pattern", "handler"} /\ call["app"].route = walk.cur

\* A request is offered to every route in the order of the appends, those appended
\* during the walk included, as long as none is freed (src/http.c:446-458).
Offered ==
  IF walk.at = "none" \/ walk.sess \in stale THEN 0
  ELSE IF walk.cur = NULL THEN -1
  ELSE CHOOSE k \in 1..Len(table) : table[k] = walk.cur

Abstract == INSTANCE Table WITH offered <- Offered
TableSpec == Abstract!Spec
=============================================================================
