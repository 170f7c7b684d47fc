----------------------------- MODULE RoutesProofs -----------------------------
(* Proofs about Routes, for any number of routes and sessions, when one     *)
(* thread at a time changes the list, whatever requests are under way.      *)
EXTENDS Routes, TLAPS

NodeType == [next : Pointer, pattern : BOOLEAN, handler : BOOLEAN, live : BOOLEAN]
CallType == [at : {"none", "link", "last", "pattern", "handler", "clear"}, route : Pointer]

Busy(t) == call[t].at # "none"
Appending(t) == call[t].at \in {"last", "pattern", "handler"}

\* The routes were linked in the order of their allocation.
Ordered ==
  /\ \A k \in 1..Len(table) : table[k] <= allocated
  /\ \A k, m \in 1..Len(table) : k < m => table[k] < table[m]

\* One thread is in a call, and what it has done by then.
CallInv ==
  /\ \A t, u \in Thread : Busy(t) /\ Busy(u) => t = u
  /\ \A t \in Thread :
       /\ call[t].at = "link" =>
            /\ call[t].route \in Node /\ call[t].route = allocated
            /\ node[call[t].route].live /\ node[call[t].route].next = NULL
            /\ \A k \in 1..Len(table) : table[k] < allocated
       /\ Appending(t) => table # <<>> /\ call[t].route = table[Len(table)]
       /\ call[t].at = "clear" => call[t].route = first

\* route_last is the end of the list but between two statements of a call.
LastInv ==
  (\A t \in Thread : call[t].at \notin {"last", "clear"}) =>
    (table # <<>> => last = table[Len(table)])

\* Whoever appends a route fills it.
Filled ==
  \A k \in 1..Len(table) :
    /\ ~node[table[k]].pattern =>
         \E t \in Thread : call[t].at \in {"last", "pattern"} /\ call[t].route = table[k]
    /\ ~node[table[k]].handler => \E t \in Thread : Appending(t) /\ call[t].route = table[k]

InTable(n) == \E k \in 1..Len(table) : table[k] = n

\* A route that a session's request has come to is in the list or was freed meanwhile.
Reached(n, s) == InTable(n) \/ (s \in stale /\ n <= allocated /\ ~node[n].live)

\* What the worker has come to, complete if its handler was called.
WorkerInv ==
  /\ walk.at # "none" => walk.sess \in Sessions /\ held[walk.sess] = NULL
  /\ walk.at # "none" /\ walk.cur # NULL => Reached(walk.cur, walk.sess)
  /\ walk.at \in {"call", "handler", "next"} => walk.cur # NULL
  /\ walk.at = "handler" => node[walk.cur].handler
  /\ \A s \in Sessions : held[s] # NULL => Reached(held[s], s) /\ node[held[s]].handler
  /\ \A s \in stale : InRequest(s)

ListInv == TypeOK /\ ListIsTable /\ Ordered /\ CallInv /\ LastInv
IInv == ListInv /\ Filled /\ (fault = "none" => WorkerInv) /\ OnlyHalfFilled

Contract == ~Shared

LEMMA Starts == Init => IInv
  BY RoutesConstants
     DEF Init, IInv, ListInv, TypeOK, ListIsTable, Ordered, CallInv, LastInv, Filled, WorkerInv,
         OnlyHalfFilled, Empty, NoCall, NoWalk, Node, NULL, Pointer, Thread, Busy,
         Appending

-----------------------------------------------------------------------------
(* The calls that change the list keep it.                                 *)

LEMMA AllocKeepsList ==
  ASSUME Contract, ListInv, NEW t \in Thread, Alloc(t)
  PROVE  ListInv'
<1> USE DEF ListInv
<1>1. /\ allocated < Nodes /\ allocated' = allocated + 1
      /\ node' = [node EXCEPT ![allocated + 1] = [Empty EXCEPT !.live = TRUE]]
      /\ call' = [call EXCEPT ![t] = [at |-> "link", route |-> allocated + 1]]
      /\ UNCHANGED <<first, last, walk, held, fault, table, stale>>
      /\ \A u \in Thread : ~Busy(u)
  BY DEF Alloc, MayCall, At, Contract, Busy
<1>2. allocated + 1 \in Node
  BY <1>1, RoutesConstants DEF TypeOK, Node
<1>3. \A k \in 1..Len(table) : table[k] \in Node /\ table[k] # allocated + 1
  BY RoutesConstants DEF TypeOK, Ordered, Node
<1>4. TypeOK'
  <2>1. node' \in [Node -> NodeType]
    BY <1>1, <1>2 DEF TypeOK, NodeType, Empty, Pointer
  <2>2. call' \in [Thread -> CallType]
    BY <1>1, <1>2 DEF TypeOK, CallType, Pointer
  <2>3. allocated' \in 0..Nodes
    BY <1>1, RoutesConstants DEF TypeOK
  <2> QED BY <1>1, <2>1, <2>2, <2>3 DEF TypeOK, NodeType, CallType
<1>5. ListIsTable'
  BY <1>1, <1>3 DEF ListIsTable, TypeOK
<1>6. Ordered'
  BY <1>1, <1>3, RoutesConstants DEF Ordered, TypeOK, Node
<1>7. CallInv'
  <2>1. \A k \in 1..Len(table') : table'[k] < allocated'
    BY <1>1, <1>3, RoutesConstants DEF Ordered, TypeOK, Node
  <2> QED BY <1>1, <1>2, <2>1 DEF CallInv, TypeOK, Busy, Appending, Empty, NULL
<1>8. LastInv'
  BY <1>1 DEF LastInv, TypeOK, Busy
<1> QED BY <1>4, <1>5, <1>6, <1>7, <1>8

LEMMA LinkKeepsList ==
  ASSUME Contract, ListInv, NEW t \in Thread, Link(t)
  PROVE  ListInv'
<1> USE DEF ListInv
<1> DEFINE r == call[t].route
<1>1. /\ call[t].at = "link"
      /\ table' = Append(table, r)
      /\ call' = [call EXCEPT ![t].at = "last"]
      /\ IF first = NULL THEN first' = r /\ node' = node
         ELSE node' = [node EXCEPT ![last].next = r] /\ first' = first
      /\ UNCHANGED <<allocated, last, walk, held, fault, stale>>
  BY DEF Link, At, Goes
<1>2. /\ r \in Node /\ r = allocated /\ node[r].live /\ node[r].next = NULL
      /\ \A k \in 1..Len(table) : table[k] < allocated /\ table[k] \in Node
      /\ \A u \in Thread : u # t => ~Busy(u)
  BY <1>1 DEF CallInv, TypeOK, Busy
<1>3. /\ Len(table') = Len(table) + 1 /\ table'[Len(table) + 1] = r /\ table' \in Seq(Node)
      /\ \A k \in 1..Len(table) : table'[k] = table[k]
      /\ table' # <<>>
  BY <1>1, <1>2 DEF TypeOK
<1>4. first # NULL => table # <<>> /\ last = table[Len(table)] /\ last \in Node /\ last # r
  <2>1. first # NULL => table # <<>> /\ Len(table) \in 1..Len(table)
    BY DEF ListIsTable, TypeOK
  <2>2. \A u \in Thread : call[u].at \notin {"last", "clear"}
    BY <1>1, <1>2 DEF Busy
  <2> QED BY <1>2, <2>1, <2>2, RoutesConstants DEF LastInv, TypeOK, Node
<1>5. TypeOK'
  <2>1. node' \in [Node -> NodeType] /\ first' \in Pointer
    <3>1. node \in [Node -> NodeType] /\ first \in Pointer /\ r \in Pointer
      BY <1>2 DEF TypeOK, NodeType, Pointer
    <3>2. CASE first = NULL
      BY <1>1, <3>1, <3>2
    <3>3. CASE first # NULL
      <4>1. node' = [node EXCEPT ![last].next = r] /\ last \in Node /\ node[last] \in NodeType
        BY <1>1, <1>4, <3>1, <3>3
      <4>2. [node[last] EXCEPT !.next = r] \in NodeType
        BY <3>1, <4>1 DEF NodeType
      <4> QED BY <1>1, <3>1, <3>3, <4>1, <4>2
    <3> QED BY <3>2, <3>3
  <2>2. call' \in [Thread -> CallType]
    BY <1>1 DEF TypeOK, CallType
  <2> QED BY <1>1, <1>3, <2>1, <2>2 DEF TypeOK, NodeType, CallType
<1>6. ListIsTable'
  <2>1. first' = table'[1]
    <3>1. CASE first = NULL
      <4>1. table = <<>>
        BY <3>1, RoutesConstants DEF ListIsTable, TypeOK, Node, NULL
      <4> QED BY <1>1, <1>3, <3>1, <4>1
    <3>2. CASE first # NULL
      <4>1. 1 \in 1..Len(table) /\ first' = first /\ first = table[1]
        BY <1>1, <1>4, <3>2 DEF ListIsTable, TypeOK
      <4> QED BY <1>3, <4>1
    <3> QED BY <3>1, <3>2
  <2>2. ASSUME NEW k \in 1..Len(table')
        PROVE  /\ node'[table'[k]].live
               /\ node'[table'[k]].next = IF k = Len(table') THEN NULL ELSE table'[k + 1]
    <3>1. CASE k = Len(table) + 1
      BY <1>1, <1>2, <1>3, <1>4, <3>1 DEF TypeOK
    <3>2. CASE k = Len(table)
      <4>1. first # NULL /\ k \in 1..Len(table)
        BY <1>2, <3>2, <2>2, RoutesConstants DEF ListIsTable, TypeOK, Node, NULL
      <4>2. table'[k] = last /\ node' = [node EXCEPT ![last].next = r] /\ node[last].live
        BY <1>1, <1>3, <1>4, <3>2, <4>1 DEF ListIsTable
      <4> QED BY <1>2, <1>3, <1>4, <3>2, <4>1, <4>2 DEF TypeOK
    <3>3. CASE k < Len(table)
      <4>1. k \in 1..Len(table) /\ k + 1 \in 1..Len(table)
        BY <3>3 DEF TypeOK
      <4>2. first # NULL => table[k] # last
        <5>1. Len(table) \in 1..Len(table) /\ table[k] \in Node /\ table[Len(table)] \in Node
          BY <3>3, <4>1 DEF TypeOK
        <5>2. table[k] < table[Len(table)]
          BY <3>3, <4>1, <5>1 DEF Ordered
        <5> QED BY <1>4, <5>1, <5>2, RoutesConstants DEF Node
      <4>3. node'[table[k]] = node[table[k]]
        BY <1>1, <1>2, <4>1, <4>2 DEF TypeOK
      <4> QED BY <1>3, <3>3, <4>1, <4>3 DEF ListIsTable, TypeOK
    <3> QED BY <1>3, <3>1, <3>2, <3>3 DEF TypeOK
  <2> QED BY <1>3, <2>1, <2>2 DEF ListIsTable
<1>7. Ordered'
  <2>1. \A k \in 1..Len(table') : table'[k] \in Node /\ table'[k] <= allocated'
    BY <1>1, <1>2, <1>3, RoutesConstants DEF TypeOK, Node
  <2>2. ASSUME NEW k \in 1..Len(table'), NEW m \in 1..Len(table'), k < m
        PROVE  table'[k] < table'[m]
    <3>1. k \in 1..Len(table)
      BY <1>3, <2>2 DEF TypeOK
    <3>2. CASE m = Len(table) + 1
      BY <1>2, <1>3, <3>1, <3>2
    <3>3. CASE m \in 1..Len(table)
      BY <1>3, <2>2, <3>1, <3>3 DEF Ordered
    <3> QED BY <1>3, <3>2, <3>3 DEF TypeOK
  <2> QED BY <2>1, <2>2 DEF Ordered
<1>8. CallInv'
  BY <1>1, <1>2, <1>3 DEF CallInv, TypeOK, Busy, Appending
<1>9. LastInv'
  BY <1>1 DEF LastInv, TypeOK
<1> QED BY <1>5, <1>6, <1>7, <1>8, <1>9

LEMMA SetLastKeepsList ==
  ASSUME Contract, ListInv, NEW t \in Thread, SetLast(t)
  PROVE  ListInv'
<1> USE DEF ListInv
<1>1. /\ call[t].at = "last" /\ last' = call[t].route
      /\ call' = [call EXCEPT ![t].at = "pattern"]
      /\ UNCHANGED <<node, allocated, first, walk, held, fault, table, stale>>
      /\ call[t].route = table[Len(table)]
  BY DEF SetLast, At, Goes, CallInv, Appending
<1>2. TypeOK'
  BY <1>1 DEF TypeOK
<1>3. ListIsTable' /\ Ordered'
  BY <1>1 DEF ListIsTable, Ordered
<1>4. CallInv' /\ LastInv'
  BY <1>1 DEF CallInv, LastInv, TypeOK, Busy, Appending
<1> QED BY <1>2, <1>3, <1>4

LEMMA SetFieldKeepsList ==
  ASSUME Contract, ListInv, NEW t \in Thread, SetPattern(t) \/ SetHandler(t)
  PROVE  ListInv'
<1> USE DEF ListInv
<1>1. /\ Appending(t) /\ call[t].at # "last"
      /\ UNCHANGED <<allocated, first, last, walk, held, fault, table, stale>>
      /\ \/ call' = [call EXCEPT ![t].at = "handler"]
         \/ call' = [call EXCEPT ![t] = NoCall]
      /\ \/ node' = [node EXCEPT ![call[t].route].pattern = TRUE]
         \/ node' = [node EXCEPT ![call[t].route].handler = TRUE]
  BY DEF SetPattern, SetHandler, At, Goes, Returns, Appending
<1>2. call[t].route \in Node
  BY <1>1 DEF CallInv, TypeOK
<1>3. TypeOK'
  <2>1. node' \in [Node -> NodeType]
    <3>1. node \in [Node -> NodeType] /\ node[call[t].route] \in NodeType
      BY <1>2 DEF TypeOK, NodeType
    <3>2. CASE node' = [node EXCEPT ![call[t].route].pattern = TRUE]
      BY <1>2, <3>1, <3>2 DEF NodeType
    <3>3. CASE node' = [node EXCEPT ![call[t].route].handler = TRUE]
      BY <1>2, <3>1, <3>3 DEF NodeType
    <3> QED BY <1>1, <3>2, <3>3
  <2>2. call' \in [Thread -> CallType]
    <3>1. call \in [Thread -> CallType] /\ call[t] \in CallType
      BY DEF TypeOK, CallType
    <3>2. CASE call' = [call EXCEPT ![t].at = "handler"]
      BY <3>1, <3>2 DEF CallType
    <3>3. CASE call' = [call EXCEPT ![t] = NoCall]
      BY <3>1, <3>3 DEF CallType, NoCall, Pointer
    <3> QED BY <1>1, <3>2, <3>3
  <2> QED BY <1>1, <2>1, <2>2 DEF TypeOK, NodeType, CallType
<1>4. ASSUME NEW n \in Node PROVE node'[n].live = node[n].live /\ node'[n].next = node[n].next
  <2>1. node \in [Node -> NodeType]
    BY DEF TypeOK, NodeType
  <2>2. CASE node' = [node EXCEPT ![call[t].route].pattern = TRUE]
    BY <1>2, <2>1, <2>2 DEF NodeType
  <2>3. CASE node' = [node EXCEPT ![call[t].route].handler = TRUE]
    BY <1>2, <2>1, <2>3 DEF NodeType
  <2> QED BY <1>1, <2>2, <2>3
<1>5. ListIsTable' /\ Ordered'
  <2>1. \A k \in 1..Len(table) : table[k] \in Node
    BY DEF TypeOK
  <2> QED BY <1>1, <1>4, <2>1 DEF ListIsTable, Ordered
<1>6. CallInv' /\ LastInv'
  <2>1. \A u \in Thread : u # t => ~Busy(u) /\ call'[u] = call[u]
    BY <1>1 DEF CallInv, Busy, Appending, TypeOK
  <2>2. call'[t].at \in {"none", "handler"} /\ (call'[t].at = "handler" => call'[t].route = call[t].route)
    BY <1>1 DEF TypeOK, NoCall
  <2>3. CallInv'
    BY <1>1, <2>1, <2>2 DEF CallInv, Busy, Appending
  <2>4. \A u \in Thread : call[u].at \notin {"last", "clear"}
    BY <1>1, <2>1 DEF Busy, Appending
  <2> QED BY <1>1, <2>3, <2>4 DEF LastInv
<1> QED BY <1>3, <1>5, <1>6

LEMMA ClearKeepsList ==
  ASSUME Contract, ListInv, NEW t \in Thread, Clear(t)
  PROVE  ListInv'
<1> USE DEF ListInv
<1>1. /\ call' = [call EXCEPT ![t] = [at |-> "clear", route |-> first]]
      /\ UNCHANGED <<node, allocated, first, last, walk, held, fault, table, stale>>
      /\ \A u \in Thread : ~Busy(u)
  BY DEF Clear, MayCall, At, Contract, Busy
<1>2. TypeOK' /\ ListIsTable' /\ Ordered'
  BY <1>1 DEF TypeOK, ListIsTable, Ordered
<1>3. CallInv' /\ LastInv'
  BY <1>1 DEF CallInv, LastInv, TypeOK, Busy, Appending
<1> QED BY <1>2, <1>3

LEMMA UnlinkKeepsList ==
  ASSUME Contract, ListInv, NEW t \in Thread, Unlink(t)
  PROVE  ListInv' /\ table # <<>>
<1> USE DEF ListInv
<1>1. /\ call[t].at = "clear" /\ call[t].route = first /\ first # NULL
      /\ call' = [call EXCEPT ![t].route = node[first].next]
      /\ first' = node[first].next
      /\ node' = [node EXCEPT ![first].live = FALSE]
      /\ table' = Tail(table) /\ stale' = {s \in Sessions : InRequest(s)}
      /\ UNCHANGED <<allocated, last, walk, held, fault>>
  BY DEF Unlink, At, CallInv
<1>2. /\ table # <<>> /\ first = table[1] /\ first \in Node /\ Len(table) \in Nat \ {0}
      /\ \A u \in Thread : u # t => ~Busy(u)
  BY <1>1 DEF ListIsTable, TypeOK, CallInv, Busy, Pointer
<1>3. /\ Len(table') = Len(table) - 1 /\ table' \in Seq(Node)
      /\ \A k \in 1..Len(table') : table'[k] = table[k + 1] /\ k + 1 \in 1..Len(table)
  BY <1>1, <1>2 DEF TypeOK
<1>4. TypeOK'
  BY <1>1, <1>2, <1>3 DEF TypeOK
<1>5. Ordered'
  <2>1. \A k \in 1..Len(table') : table'[k] <= allocated'
    BY <1>1, <1>3 DEF Ordered
  <2>2. ASSUME NEW k \in 1..Len(table'), NEW m \in 1..Len(table'), k < m
        PROVE  table'[k] < table'[m]
    <3>1. /\ k + 1 \in 1..Len(table) /\ m + 1 \in 1..Len(table) /\ k + 1 < m + 1
          /\ table'[k] = table[k + 1] /\ table'[m] = table[m + 1]
      BY <1>3, <2>2
    <3> QED BY <3>1 DEF Ordered
  <2> QED BY <2>1, <2>2 DEF Ordered
<1>6. ListIsTable'
  <2>1. first' = IF table' = <<>> THEN NULL ELSE table'[1]
    <3> 1 \in 1..Len(table)
      BY <1>2
    <3>1. CASE Len(table) = 1
      <4>1. table' = <<>> /\ node[first].next = NULL
        BY <1>2, <1>3, <3>1 DEF ListIsTable
      <4> QED BY <1>1, <4>1
    <3>2. CASE Len(table) > 1
      <4>1. node[first].next = table[1 + 1] /\ table' # <<>>
        BY <1>2, <1>3, <3>2 DEF ListIsTable
      <4>2. table'[1] = table[1 + 1]
        BY <1>2, <1>3, <3>2
      <4> QED BY <1>1, <4>1, <4>2
    <3>3. Len(table) = 1 \/ Len(table) > 1
      <4>1. Len(table) \in Nat /\ Len(table) # 0
        BY <1>2
      <4> QED BY <4>1
    <3> QED BY <3>1, <3>2, <3>3
  <2>2. ASSUME NEW k \in 1..Len(table')
        PROVE  /\ node'[table'[k]].live
               /\ node'[table'[k]].next = IF k = Len(table') THEN NULL ELSE table'[k + 1]
    <3>1. table[k + 1] # first /\ table[k + 1] \in Node
      <4>1. 1 \in 1..Len(table) /\ k + 1 \in 1..Len(table) /\ 1 < k + 1
        BY <1>2, <1>3
      <4>2. table[1] < table[k + 1] /\ table[1] \in Node /\ table[k + 1] \in Node
        BY <4>1 DEF Ordered, TypeOK
      <4> QED BY <1>2, <4>2, RoutesConstants DEF Node
    <3>2. node'[table'[k]] = node[table[k + 1]]
      BY <1>1, <1>3, <3>1 DEF TypeOK
    <3>3. k # Len(table') => table'[k + 1] = table[(k + 1) + 1]
      BY <1>3 DEF TypeOK
    <3> QED BY <1>2, <1>3, <3>2, <3>3 DEF ListIsTable, TypeOK
  <2> QED BY <2>1, <2>2 DEF ListIsTable
<1>7. CallInv' /\ LastInv'
  BY <1>1, <1>2 DEF CallInv, LastInv, TypeOK, Busy, Appending
<1> QED BY <1>2, <1>4, <1>5, <1>6, <1>7

LEMMA ClearedKeepsList ==
  ASSUME Contract, ListInv, NEW t \in Thread, Cleared(t)
  PROVE  ListInv'
<1> USE DEF ListInv
<1>1. /\ call[t].at = "clear" /\ first = NULL /\ last' = NULL
      /\ call' = [call EXCEPT ![t] = NoCall]
      /\ UNCHANGED <<node, allocated, first, walk, held, fault, table, stale>>
  BY DEF Cleared, At, Returns, CallInv
<1>2. table = <<>>
  BY <1>1, RoutesConstants DEF ListIsTable, TypeOK, Node, NULL
<1>3. TypeOK' /\ ListIsTable' /\ Ordered'
  BY <1>1 DEF TypeOK, ListIsTable, Ordered, NoCall, Pointer
<1>4. CallInv' /\ LastInv'
  BY <1>1, <1>2 DEF CallInv, LastInv, TypeOK, Busy, Appending, NoCall
<1> QED BY <1>3, <1>4

LEMMA ListKept_Keeps ==
  ASSUME ListInv, ListKept, TypeOK'
  PROVE  ListInv' /\ (Filled => Filled')
<1>1. UNCHANGED <<node, allocated, first, last, call, table>>
  BY DEF ListKept
<1>2. ListIsTable' /\ Ordered' /\ CallInv' /\ LastInv'
  BY <1>1 DEF ListInv, ListIsTable, Ordered, CallInv, LastInv, Busy, Appending
<1>3. Filled => Filled'
  BY <1>1 DEF Filled, Appending
<1> QED BY <1>2, <1>3 DEF ListInv

-----------------------------------------------------------------------------
(* The calls keep what the worker relies on.                               *)

LEMMA WriteLeavesTheWorker ==
  ASSUME NEW t \in Thread, Write(t)
  PROVE  fault = "none" /\ UNCHANGED <<walk, held, fault>>
BY DEF Write, Alloc, Link, SetLast, SetPattern, SetHandler, Clear, Unlink, Cleared, At

LEMMA FaultlessWrite ==
  ASSUME IInv, NEW t \in Thread, Write(t)
  PROVE  WorkerInv
BY WriteLeavesTheWorker DEF IInv

LEMMA WriteKeepsList ==
  ASSUME Contract, ListInv, NEW t \in Thread, Write(t)
  PROVE  ListInv'
BY AllocKeepsList, LinkKeepsList, SetLastKeepsList, SetFieldKeepsList, ClearKeepsList,
   UnlinkKeepsList, ClearedKeepsList DEF Write

\* Routes that stay where they are, and as complete as they were, suit the worker.
LEMMA GrowingKeepsWorker ==
  ASSUME TypeOK, Ordered, WorkerInv, UNCHANGED <<walk, held, fault, stale>>,
         allocated' >= allocated, allocated' \in Nat,
         \A n \in Node : InTable(n) => InTable(n)',
         \A n \in Node : n <= allocated => /\ node[n].handler => node'[n].handler
                                           /\ ~node[n].live => ~node'[n].live
  PROVE  WorkerInv'
<1>1. walk.cur # NULL => walk.cur \in Node
  BY DEF TypeOK, Pointer
<1>2. \A s \in Sessions : held[s] # NULL => held[s] \in Node
  BY DEF TypeOK, Pointer
<1>3. \A n \in Node, s \in Sessions :
        Reached(n, s) => n <= allocated /\ Reached(n, s)' /\ (node[n].handler => node'[n].handler)
  <2> SUFFICES ASSUME NEW n \in Node, NEW s \in Sessions, Reached(n, s)
               PROVE  n <= allocated /\ Reached(n, s)' /\ (node[n].handler => node'[n].handler)
    OBVIOUS
  <2>1. n <= allocated
    BY DEF Reached, InTable, Ordered
  <2>2. n <= allocated'
    BY <2>1, RoutesConstants DEF TypeOK, Node
  <2>3. CASE InTable(n)
    <3>1. InTable(n)'
      BY <2>3
    <3> QED BY <2>1, <3>1 DEF Reached
  <2>4. CASE s \in stale /\ n <= allocated /\ ~node[n].live
    <3>1. s \in stale' /\ ~node'[n].live
      BY <2>4
    <3> QED BY <2>1, <2>2, <3>1 DEF Reached
  <2> QED BY <2>3, <2>4 DEF Reached
<1>4. \A s \in Sessions : InRequest(s)' <=> InRequest(s)
  BY DEF InRequest
<1> QED BY <1>1, <1>2, <1>3, <1>4 DEF WorkerInv, TypeOK

LEMMA AllocKeeps ==
  ASSUME Contract, IInv, NEW t \in Thread, Alloc(t)
  PROVE  Filled' /\ WorkerInv'
<1> USE DEF IInv, ListInv
<1>1. /\ allocated' = allocated + 1 /\ allocated < Nodes
      /\ node' = [node EXCEPT ![allocated + 1] = [Empty EXCEPT !.live = TRUE]]
      /\ call' = [call EXCEPT ![t] = [at |-> "link", route |-> allocated + 1]]
      /\ UNCHANGED <<first, last, walk, held, fault, table, stale>>
      /\ \A u \in Thread : ~Busy(u)
  BY DEF Alloc, MayCall, At, Contract, Busy
<1>2. \A k \in 1..Len(table) : table[k] \in Node /\ node'[table[k]] = node[table[k]]
  BY <1>1, RoutesConstants DEF TypeOK, Ordered, Node
<1>3. Filled'
  BY <1>1, <1>2 DEF Filled, Busy, Appending, TypeOK
<1>5. \A n \in Node : InTable(n) => InTable(n)'
  BY <1>1, <1>2 DEF InTable
<1>6. \A n \in Node : n <= allocated => /\ node[n].handler => node'[n].handler
                                        /\ ~node[n].live => ~node'[n].live
  BY <1>1, RoutesConstants DEF TypeOK, Node
<1>9. WorkerInv /\ allocated' >= allocated /\ allocated' \in Nat
  BY <1>1, FaultlessWrite, RoutesConstants DEF TypeOK, Write
<1> QED BY <1>1, <1>3, <1>5, <1>6, <1>9, GrowingKeepsWorker

LEMMA LinkKeeps ==
  ASSUME Contract, IInv, NEW t \in Thread, Link(t)
  PROVE  Filled' /\ WorkerInv'
<1> USE DEF IInv, ListInv
<1> DEFINE r == call[t].route
<1>1. /\ call[t].at = "link" /\ table' = Append(table, r) /\ r \in Node /\ allocated' = allocated
      /\ call' = [call EXCEPT ![t].at = "last"]
      /\ UNCHANGED <<walk, held, fault, stale>>
      /\ node' = node \/ node' = [node EXCEPT ![last].next = r]
      /\ \A u \in Thread : u # t => ~Busy(u)
  BY DEF Link, At, Goes, CallInv, Busy
<1>2. /\ Len(table') = Len(table) + 1 /\ table'[Len(table) + 1] = r
      /\ \A k \in 1..Len(table) : table'[k] = table[k] /\ table[k] \in Node /\ k \in 1..Len(table')
  BY <1>1 DEF TypeOK
<1>3. \A n \in Node : /\ node'[n].pattern = node[n].pattern /\ node'[n].handler = node[n].handler
                      /\ node'[n].live = node[n].live
  <2>1. node \in [Node -> NodeType]
    BY DEF TypeOK, NodeType
  <2>2. CASE node' = [node EXCEPT ![last].next = r]
    BY <2>1, <2>2 DEF NodeType
  <2> QED BY <1>1, <2>2
<1>4. \A k \in 1..Len(table) : node[table[k]].pattern /\ node[table[k]].handler
  BY <1>1 DEF Filled, Busy, Appending
<1>5. call'[t].at = "last" /\ call'[t].route = r /\ \A u \in Thread : u # t => call'[u] = call[u]
  BY <1>1 DEF TypeOK
<1>6. Filled'
  <2>1. ASSUME NEW k \in 1..Len(table')
        PROVE  table'[k] = r \/ (node'[table'[k]].pattern /\ node'[table'[k]].handler)
    <3>1. CASE k \in 1..Len(table)
      BY <1>2, <1>3, <1>4, <3>1
    <3>2. CASE k = Len(table) + 1
      BY <1>2, <3>2
    <3> QED BY <1>2, <3>1, <3>2 DEF TypeOK
  <2> QED BY <1>5, <2>1 DEF Filled, Appending
<1>7. \A n \in Node : InTable(n) => InTable(n)'
  BY <1>2, <1>3 DEF InTable
<1>8. \A n \in Node : n <= allocated => /\ node[n].handler => node'[n].handler
                                        /\ ~node[n].live => ~node'[n].live
  BY <1>2, <1>3 DEF TypeOK, NodeType
<1>9. WorkerInv /\ allocated' >= allocated /\ allocated' \in Nat
  BY <1>1, FaultlessWrite, RoutesConstants DEF TypeOK, Write
<1> QED BY <1>1, <1>6, <1>7, <1>8, <1>9, GrowingKeepsWorker

LEMMA SetLastKeeps ==
  ASSUME Contract, IInv, NEW t \in Thread, SetLast(t)
  PROVE  Filled' /\ WorkerInv'
<1> USE DEF IInv, ListInv
<1>1. /\ call[t].at = "last"
      /\ call' = [call EXCEPT ![t].at = "pattern"]
      /\ UNCHANGED <<node, allocated, walk, held, fault, table, stale>>
      /\ \A u \in Thread : u # t => ~Busy(u)
  BY DEF SetLast, At, Goes, CallInv, Busy
<1>2. /\ call'[t].at = "pattern" /\ call'[t].route = call[t].route
      /\ \A u \in Thread : u # t => call'[u] = call[u]
  BY <1>1 DEF TypeOK
<1>3. Filled'
  BY <1>1, <1>2 DEF Filled, Appending, Busy
<1>5. \A n \in Node : InTable(n) => InTable(n)'
  BY <1>1 DEF InTable
<1>6. \A n \in Node : n <= allocated => /\ node[n].handler => node'[n].handler
                                        /\ ~node[n].live => ~node'[n].live
  BY <1>1 DEF TypeOK, NodeType
<1>9. WorkerInv /\ allocated' >= allocated /\ allocated' \in Nat
  BY <1>1, FaultlessWrite, RoutesConstants DEF TypeOK, Write
<1> QED BY <1>1, <1>3, <1>5, <1>6, <1>9, GrowingKeepsWorker

LEMMA SetPatternKeeps ==
  ASSUME Contract, IInv, NEW t \in Thread, SetPattern(t)
  PROVE  Filled' /\ WorkerInv'
<1> USE DEF IInv, ListInv
<1> DEFINE r == call[t].route
<1>1. /\ call[t].at = "pattern" /\ r \in Node
      /\ node' = [node EXCEPT ![r].pattern = TRUE]
      /\ call' = [call EXCEPT ![t].at = "handler"]
      /\ UNCHANGED <<allocated, walk, held, fault, table, stale>>
      /\ \A u \in Thread : u # t => ~Busy(u)
  BY DEF SetPattern, At, Goes, CallInv, Busy, Appending, TypeOK
<1>2. /\ call'[t].at = "handler" /\ call'[t].route = r
      /\ \A u \in Thread : u # t => call'[u] = call[u]
  BY <1>1 DEF TypeOK
<1>3. \A n \in Node : /\ node'[n].handler = node[n].handler /\ node'[n].live = node[n].live
                      /\ node'[n].pattern = IF n = r THEN TRUE ELSE node[n].pattern
  <2>1. node \in [Node -> NodeType]
    BY DEF TypeOK, NodeType
  <2> QED BY <1>1, <2>1 DEF NodeType
<1>4. \A k \in 1..Len(table) : table[k] \in Node
  BY DEF TypeOK
<1>5. \A k \in 1..Len(table) : table[k] # r => node[table[k]].pattern /\ node[table[k]].handler
  BY <1>1 DEF Filled, Busy, Appending
<1>6. Filled'
  <2>1. \A k \in 1..Len(table) :
          node'[table[k]].pattern /\ (table[k] # r => node'[table[k]].handler)
    BY <1>3, <1>4, <1>5
  <2> QED BY <1>1, <1>2, <2>1 DEF Filled, Appending
<1>7. \A n \in Node : InTable(n) => InTable(n)'
  BY <1>1, <1>3 DEF InTable
<1>8. \A n \in Node : n <= allocated => /\ node[n].handler => node'[n].handler
                                        /\ ~node[n].live => ~node'[n].live
  BY <1>1, <1>3 DEF TypeOK, NodeType
<1>9. WorkerInv /\ allocated' >= allocated /\ allocated' \in Nat
  BY <1>1, FaultlessWrite, RoutesConstants DEF TypeOK, Write
<1> QED BY <1>1, <1>6, <1>7, <1>8, <1>9, GrowingKeepsWorker

LEMMA SetHandlerKeeps ==
  ASSUME Contract, IInv, NEW t \in Thread, SetHandler(t)
  PROVE  Filled' /\ WorkerInv'
<1> USE DEF IInv, ListInv
<1> DEFINE r == call[t].route
<1>1. /\ call[t].at = "handler" /\ r \in Node
      /\ node' = [node EXCEPT ![r].handler = TRUE]
      /\ call' = [call EXCEPT ![t] = NoCall]
      /\ UNCHANGED <<allocated, walk, held, fault, table, stale>>
      /\ \A u \in Thread : u # t => ~Busy(u)
  BY DEF SetHandler, At, Returns, CallInv, Busy, Appending, TypeOK
<1>3. \A n \in Node : /\ node'[n].pattern = node[n].pattern /\ node'[n].live = node[n].live
                      /\ node'[n].handler = IF n = r THEN TRUE ELSE node[n].handler
  <2>1. node \in [Node -> NodeType]
    BY DEF TypeOK, NodeType
  <2> QED BY <1>1, <2>1 DEF NodeType
<1>4. \A k \in 1..Len(table) : table[k] \in Node
  BY DEF TypeOK
<1>5. \A k \in 1..Len(table) : /\ node[table[k]].pattern
                               /\ table[k] # r => node[table[k]].handler
  BY <1>1 DEF Filled, Busy, Appending
<1>6. Filled'
  <2>1. \A k \in 1..Len(table) : node'[table[k]].pattern /\ node'[table[k]].handler
    <3> HIDE DEF r
    <3> QED BY <1>3, <1>4, <1>5
  <2> QED BY ONLY <1>1, <2>1 DEF Filled
<1>7. \A n \in Node : InTable(n) => InTable(n)'
  BY <1>1, <1>3 DEF InTable
<1>8. \A n \in Node : n <= allocated => /\ node[n].handler => node'[n].handler
                                        /\ ~node[n].live => ~node'[n].live
  BY <1>1, <1>3 DEF TypeOK, NodeType
<1>9. WorkerInv /\ allocated' >= allocated /\ allocated' \in Nat
  BY <1>1, FaultlessWrite, RoutesConstants DEF TypeOK, Write
<1> QED BY <1>1, <1>6, <1>7, <1>8, <1>9, GrowingKeepsWorker

LEMMA ClearKeeps ==
  ASSUME Contract, IInv, NEW t \in Thread, Clear(t)
  PROVE  Filled' /\ WorkerInv'
<1> USE DEF IInv, ListInv
<1>1. /\ UNCHANGED <<node, allocated, walk, held, fault, table, stale>>
      /\ \A u \in Thread : ~Busy(u)
  BY DEF Clear, MayCall, At, Contract, Busy
<1>2. Filled'
  BY <1>1 DEF Filled, Busy, Appending
<1>3. WorkerInv'
  BY <1>1, FaultlessWrite DEF Write, WorkerInv, Reached, InTable, InRequest
<1> QED BY <1>2, <1>3

LEMMA UnlinkKeeps ==
  ASSUME Contract, IInv, NEW t \in Thread, Unlink(t)
  PROVE  Filled' /\ WorkerInv'
<1> USE DEF IInv, ListInv
<1>1. /\ call[t].at = "clear" /\ first # NULL
      /\ node' = [node EXCEPT ![first].live = FALSE]
      /\ table' = Tail(table) /\ stale' = {s \in Sessions : InRequest(s)}
      /\ UNCHANGED <<allocated, walk, held, fault>>
      /\ \A u \in Thread : u # t => ~Busy(u)
  BY DEF Unlink, At, CallInv, Busy
<1>2. \A n \in Node : node'[n].pattern = node[n].pattern /\ node'[n].handler = node[n].handler
  <2>1. node \in [Node -> NodeType]
    BY DEF TypeOK, NodeType
  <2> QED BY <1>1, <2>1 DEF NodeType
<1>3. \A k \in 1..Len(table) : table[k] \in Node /\ node[table[k]].pattern /\ node[table[k]].handler
  <2>1. \A k \in 1..Len(table) : table[k] \in Node
    BY DEF TypeOK
  <2>2. \A u \in Thread : call[u].at \notin {"last", "pattern", "handler"}
    BY <1>1 DEF Busy
  <2> QED BY <2>1, <2>2 DEF Filled, Appending
<1>4. table # <<>>
  BY UnlinkKeepsList
<1>5. \A k \in 1..Len(table') : table'[k] = table[k + 1] /\ k + 1 \in 1..Len(table)
  BY <1>1, <1>4 DEF TypeOK
<1>6. Filled'
  BY <1>2, <1>3, <1>5 DEF Filled
<1>7. \A n \in Node, s \in Sessions : InRequest(s) /\ Reached(n, s) => Reached(n, s)'
  <2> SUFFICES ASSUME NEW n \in Node, NEW s \in Sessions, InRequest(s), Reached(n, s)
               PROVE  Reached(n, s)'
    OBVIOUS
  <2>1. /\ s \in stale' /\ first = table[1] /\ first \in Node
        /\ node'[first].live = FALSE
        /\ ~node[n].live => ~node'[n].live
    BY <1>1, <1>4 DEF ListIsTable, TypeOK, Pointer
  <2>2. CASE ~InTable(n)
    BY <1>1, <2>1, <2>2 DEF Reached
  <2>3. CASE InTable(n)
    <3>1. PICK k \in 1..Len(table) : table[k] = n
      BY <2>3 DEF InTable
    <3>2. n <= allocated
      BY <3>1 DEF Ordered
    <3>3. CASE k = 1
      BY <1>1, <2>1, <3>1, <3>2, <3>3 DEF Reached
    <3>4. CASE k # 1
      <4>1. k - 1 \in 1..Len(table') /\ table'[k - 1] = n
        BY <1>1, <1>4, <3>1, <3>4 DEF TypeOK
      <4> QED BY <4>1 DEF Reached, InTable
    <3> QED BY <3>3, <3>4
  <2> QED BY <2>2, <2>3
<1>8. WorkerInv'
  <2>1. WorkerInv
    BY FaultlessWrite DEF Write
  <2>2. walk.cur # NULL => walk.cur \in Node
    BY DEF TypeOK, Pointer
  <2>3. \A s \in Sessions : held[s] # NULL => held[s] \in Node
    BY DEF TypeOK, Pointer
  <2>4. \A s \in Sessions : InRequest(s)' <=> InRequest(s)
    BY <1>1 DEF InRequest
  <2>5. walk.at # "none" /\ walk.cur # NULL => Reached(walk.cur, walk.sess)'
    BY <1>1, <1>7, <2>1, <2>2 DEF WorkerInv, InRequest, Reached, InTable
  <2>6. \A s \in Sessions : held[s] # NULL => Reached(held[s], s)'
    BY <1>1, <1>7, <2>1, <2>3 DEF WorkerInv, InRequest, Reached, InTable
  <2> QED BY <1>1, <1>2, <2>1, <2>2, <2>3, <2>4, <2>5, <2>6 DEF WorkerInv, Reached, InTable
<1> QED BY <1>6, <1>8

LEMMA ClearedKeeps ==
  ASSUME Contract, IInv, NEW t \in Thread, Cleared(t)
  PROVE  Filled' /\ WorkerInv'
<1> USE DEF IInv, ListInv
<1>1. /\ call[t].at = "clear" /\ first = NULL
      /\ UNCHANGED <<node, allocated, walk, held, fault, table, stale>>
  BY DEF Cleared, At, CallInv
<1>2. table = <<>>
  BY <1>1, RoutesConstants DEF ListIsTable, TypeOK, Node, NULL
<1>3. Filled'
  BY <1>1, <1>2 DEF Filled
<1>4. WorkerInv'
  BY <1>1, FaultlessWrite DEF Write, WorkerInv, Reached, InTable, InRequest
<1> QED BY <1>3, <1>4

LEMMA WriteKeeps ==
  ASSUME Contract, IInv, NEW t \in Thread, Write(t)
  PROVE  IInv'
<1>1. ListInv'
  BY WriteKeepsList DEF IInv
<1>2. Filled' /\ WorkerInv'
  BY AllocKeeps, LinkKeeps, SetLastKeeps, SetPatternKeeps, SetHandlerKeeps, ClearKeeps,
     UnlinkKeeps, ClearedKeeps DEF Write
<1>3. OnlyHalfFilled'
  BY WriteLeavesTheWorker DEF OnlyHalfFilled
<1> QED BY <1>1, <1>2, <1>3 DEF IInv

-----------------------------------------------------------------------------
(* The steps of the worker.                                                *)

LEMMA InListIsLive ==
  ASSUME ListInv, NEW n \in Node, InTable(n)
  PROVE  /\ node[n].live
         /\ node[n].next # NULL => InTable(node[n].next)
         /\ node[n].next \in Pointer
<1>1. PICK k \in 1..Len(table) : table[k] = n
  BY DEF InTable
<1>2. node[n].live /\ node[n].next = IF k = Len(table) THEN NULL ELSE table[k + 1]
  BY <1>1 DEF ListInv, ListIsTable
<1>3. node[n].next \in Pointer
  BY DEF ListInv, TypeOK
<1>4. ASSUME node[n].next # NULL PROVE InTable(node[n].next)
  <2>1. k + 1 \in 1..Len(table) /\ node[n].next = table[k + 1]
    BY <1>1, <1>2, <1>4 DEF ListInv, TypeOK
  <2> QED BY <2>1 DEF InTable
<1> QED BY <1>2, <1>3, <1>4

\* A route in the list that is not complete is the one being appended, by the
\* application's thread when the worker is at its walk.
LEMMA OnlyTheAppHalfFills ==
  ASSUME IInv, Worker, NEW n \in Node, InTable(n), ~node[n].pattern \/ ~node[n].handler
  PROVE  call["app"].at \in {"last", "pattern", "handler"} /\ call["app"].route = n
BY DEF IInv, Filled, InTable, Worker, Appending, Thread

\* What a step of the worker has to show.
LEMMA WalkKeepsBy ==
  ASSUME IInv, ListKept, TypeOK', fault' = "none" => WorkerInv', OnlyHalfFilled'
  PROVE  IInv'
BY ListKept_Keeps DEF IInv

LEMMA BeginKeeps ==
  ASSUME Contract, IInv, NEW s \in Sessions, NEW wants \in SUBSET Node, Begin(s, wants)
  PROVE  IInv'
<1> USE DEF IInv, ListInv
<1>1. /\ walk' = [at |-> "match", cur |-> first, wants |-> wants, sess |-> s]
      /\ walk.at = "none" /\ UNCHANGED <<held, fault, stale>> /\ ListKept /\ fault = "none"
      /\ UNCHANGED <<node, allocated, first, last, call, table>>
  BY DEF Begin, Contract, Worker, ListKept
<1>2. TypeOK'
  BY <1>1 DEF TypeOK
<1>3. first # NULL => InTable(first)
  <2>1. first # NULL => 1 \in 1..Len(table) /\ first = table[1]
    BY DEF ListIsTable, TypeOK
  <2> QED BY <2>1 DEF InTable
<1>4. WorkerInv'
  <2>1. WorkerInv /\ held[s] = NULL
    BY <1>1 DEF Begin
  <2>2. \A q \in Sessions : InRequest(q) => InRequest(q)'
    BY <1>1 DEF InRequest
  <2>3. walk'.at = "match" /\ walk'.sess = s /\ walk'.cur = first
    BY <1>1
  <2>4. first # NULL => InTable(first)'
    BY <1>1, <1>3 DEF InTable
  <2>5. walk'.cur # NULL => Reached(walk.cur, walk.sess)'
    BY <1>1, <2>3, <1>3 DEF Reached, InTable
  <2>6. \A q \in Sessions : held'[q] # NULL => Reached(held[q], q)' /\ node'[held'[q]].handler
    BY <1>1, <2>1 DEF WorkerInv, Reached, InTable
  <2>7. \A q \in stale' : InRequest(q)'
    BY <1>1, <2>1, <2>2 DEF WorkerInv, TypeOK
  <2> QED BY <1>1, <2>1, <2>3, <2>5, <2>6, <2>7 DEF WorkerInv
<1>5. OnlyHalfFilled'
  BY <1>1 DEF OnlyHalfFilled
<1> QED BY <1>1, <1>2, <1>4, <1>5, WalkKeepsBy

LEMMA MatchKeeps ==
  ASSUME Contract, IInv, Match
  PROVE  IInv'
<1> USE DEF IInv, ListInv
<1> DEFINE n == walk.cur
<1>1. /\ walk.at = "match" /\ n # NULL /\ fault = "none" /\ Worker
      /\ UNCHANGED <<held, stale>> /\ ListKept
      /\ UNCHANGED <<node, allocated, first, last, call, table>>
      /\ fault' = IF ~node[n].live THEN "freed" ELSE IF ~node[n].pattern THEN "pattern" ELSE "none"
      /\ \/ walk' = [walk EXCEPT !.at = "call", !.cur = n]
         \/ walk' = [walk EXCEPT !.at = "next", !.cur = n]
  BY DEF Match, Worker, WalksOn, Uses, ListKept
<1>2. n \in Node /\ (node[n].live => InTable(n))
  BY <1>1 DEF WorkerInv, Reached, TypeOK, Pointer
<1>3. TypeOK'
  BY <1>1, <1>2 DEF TypeOK, Pointer
<1>4. walk'.cur = n /\ walk'.at \in {"call", "next"} /\ walk'.sess = walk.sess
  BY <1>1 DEF TypeOK
<1>5. WorkerInv'
  BY <1>1, <1>2, <1>4 DEF WorkerInv, Reached, InTable, InRequest
<1>6. OnlyHalfFilled'
  <2>1. fault' = "pattern" => call["app"].at \in {"last", "pattern", "handler"} /\ call["app"].route = n
    BY <1>1, <1>2, OnlyTheAppHalfFills
  <2> QED BY <1>1, <1>4, <2>1 DEF OnlyHalfFilled
<1> QED BY <1>1, <1>3, <1>5, <1>6, WalkKeepsBy

LEMMA CallKeeps ==
  ASSUME Contract, IInv, Call
  PROVE  IInv'
<1> USE DEF IInv, ListInv
<1> DEFINE n == walk.cur
<1>1. /\ walk.at = "call" /\ fault = "none" /\ Worker
      /\ UNCHANGED <<held, stale>> /\ ListKept
      /\ UNCHANGED <<node, allocated, first, last, call, table>>
      /\ fault' = IF ~node[n].live THEN "freed" ELSE IF ~node[n].handler THEN "handler" ELSE "none"
      /\ walk' = [walk EXCEPT !.at = "handler", !.cur = n]
  BY DEF Call, Worker, WalksOn, Uses, ListKept
<1>2. n # NULL /\ n \in Node /\ (node[n].live => InTable(n))
  BY <1>1 DEF WorkerInv, Reached, TypeOK, Pointer
<1>3. TypeOK'
  BY <1>1, <1>2 DEF TypeOK, Pointer
<1>4. walk'.cur = n /\ walk'.at = "handler" /\ walk'.sess = walk.sess
  BY <1>1 DEF TypeOK
<1>5. fault' = "none" => WorkerInv'
  <2>1. fault' = "none" => node[n].handler
    BY <1>1
  <2> QED BY <1>1, <1>2, <1>4, <2>1 DEF WorkerInv, Reached, InTable, InRequest
<1>6. OnlyHalfFilled'
  <2>1. fault' = "handler" => call["app"].at \in {"last", "pattern", "handler"} /\ call["app"].route = n
    BY <1>1, <1>2, OnlyTheAppHalfFills
  <2> QED BY <1>1, <1>4, <2>1 DEF OnlyHalfFilled
<1> QED BY <1>1, <1>3, <1>5, <1>6, WalkKeepsBy

LEMMA NotFoundKeeps ==
  ASSUME Contract, IInv, NotFound
  PROVE  IInv'
<1> USE DEF IInv, ListInv
<1>1. /\ walk.at = "handler" /\ fault = "none"
      /\ UNCHANGED <<held, fault, stale>> /\ ListKept
      /\ UNCHANGED <<node, allocated, first, last, call, table>>
      /\ walk' = [walk EXCEPT !.at = "next", !.cur = walk.cur]
  BY DEF NotFound, Worker, WalksOn, ListKept
<1>2. TypeOK'
  BY <1>1 DEF TypeOK
<1>3. walk'.cur = walk.cur /\ walk'.at = "next" /\ walk'.sess = walk.sess
  BY <1>1 DEF TypeOK
<1>4. WorkerInv'
  BY <1>1, <1>3 DEF WorkerInv, Reached, InTable, InRequest
<1>5. OnlyHalfFilled'
  BY <1>1 DEF OnlyHalfFilled
<1> QED BY <1>1, <1>2, <1>4, <1>5, WalkKeepsBy

LEMMA NextRouteKeeps ==
  ASSUME Contract, IInv, NextRoute
  PROVE  IInv'
<1> USE DEF IInv, ListInv
<1> DEFINE n == walk.cur
<1>1. /\ walk.at = "next" /\ fault = "none"
      /\ UNCHANGED <<held, stale>> /\ ListKept
      /\ UNCHANGED <<node, allocated, first, last, call, table>>
      /\ fault' = IF ~node[n].live THEN "freed" ELSE "none"
      /\ walk' = [walk EXCEPT !.at = "match", !.cur = node[n].next]
  BY DEF NextRoute, Worker, WalksOn, Uses, ListKept
<1>2. n \in Node /\ (node[n].live => InTable(n))
  BY <1>1 DEF WorkerInv, Reached, TypeOK, Pointer
<1>3. /\ node[n].next \in Pointer
      /\ node[n].live /\ node[n].next # NULL => InTable(node[n].next)
  BY <1>2, InListIsLive DEF TypeOK
<1>4. TypeOK'
  BY <1>1, <1>3 DEF TypeOK
<1>5. walk'.cur = node[n].next /\ walk'.at = "match" /\ walk'.sess = walk.sess
  BY <1>1 DEF TypeOK
<1>6. fault' = "none" => WorkerInv'
  <2>1. fault' = "none" => node[n].live
    BY <1>1
  <2> QED BY <1>1, <1>3, <1>5, <2>1 DEF WorkerInv, Reached, InTable, InRequest
<1>7. OnlyHalfFilled'
  BY <1>1, <1>3 DEF OnlyHalfFilled
<1> QED BY <1>1, <1>4, <1>6, <1>7, WalkKeepsBy

LEMMA FoundKeeps ==
  ASSUME Contract, IInv, Found
  PROVE  IInv'
<1> USE DEF IInv, ListInv
<1> DEFINE n == walk.cur
<1>1. /\ walk.at = "handler" /\ fault = "none" /\ UNCHANGED <<fault, stale>> /\ ListKept
      /\ UNCHANGED <<node, allocated, first, last, call, table>>
      /\ held' = [held EXCEPT ![walk.sess] = n]
      /\ walk' = NoWalk
  BY DEF Found, Worker, ListKept
<1>2. n # NULL /\ n \in Node /\ Reached(n, walk.sess) /\ node[n].handler /\ walk.sess \in Sessions
  BY <1>1 DEF WorkerInv, TypeOK, Pointer
<1>3. TypeOK'
  BY <1>1, <1>2 DEF TypeOK, NoWalk, Pointer
<1>4. \A s \in Sessions : held'[s] = IF s = walk.sess THEN n ELSE held[s]
  BY <1>1 DEF TypeOK
<1>5. WorkerInv'
  <2>1. \A s \in Sessions : held'[s] # NULL => Reached(held'[s], s) /\ node[held'[s]].handler
    BY <1>1, <1>2, <1>4 DEF WorkerInv
  <2>2. \A s \in stale : InRequest(s)'
    BY <1>1, <1>2, <1>4 DEF WorkerInv, InRequest, TypeOK
  <2> QED BY <1>1, <2>1, <2>2 DEF WorkerInv, Reached, InTable, NoWalk
<1>6. OnlyHalfFilled'
  BY <1>1 DEF OnlyHalfFilled
<1> QED BY <1>1, <1>3, <1>5, <1>6, WalkKeepsBy

LEMMA GivesUpKeeps ==
  ASSUME Contract, IInv, GivesUp
  PROVE  IInv'
<1> USE DEF IInv, ListInv
<1>1. /\ fault = "none" /\ UNCHANGED <<held, fault>> /\ ListKept
      /\ UNCHANGED <<node, allocated, first, last, call, table>>
      /\ walk' = NoWalk /\ walk.at # "none" /\ stale' = stale \ {walk.sess}
  BY DEF GivesUp, Worker, ListKept
<1>2. TypeOK'
  BY <1>1 DEF TypeOK, NoWalk, Pointer
<1>3. WorkerInv'
  <2>1. \A s \in stale' : InRequest(s)'
    BY <1>1 DEF WorkerInv, InRequest
  <2>2. held[walk.sess] = NULL
    BY <1>1 DEF WorkerInv
  <2> QED BY <1>1, <2>1, <2>2 DEF WorkerInv, Reached, InTable, NoWalk
<1>4. OnlyHalfFilled'
  BY <1>1 DEF OnlyHalfFilled
<1> QED BY <1>1, <1>2, <1>3, <1>4, WalkKeepsBy

LEMMA CallHeldKeeps ==
  ASSUME Contract, IInv, NEW s \in Sessions, CallHeld(s)
  PROVE  IInv'
<1> USE DEF IInv, ListInv
<1> DEFINE n == held[s]
<1>1. /\ walk.at = "none" /\ n # NULL /\ fault = "none"
      /\ UNCHANGED walk /\ ListKept /\ stale' = stale \ {s}
      /\ UNCHANGED <<node, allocated, first, last, call, table>>
      /\ fault' = IF ~node[n].live THEN "freed" ELSE IF ~node[n].handler THEN "handler" ELSE "none"
      /\ held' = [held EXCEPT ![s] = NULL]
  BY DEF CallHeld, Worker, Uses, ListKept
<1>2. n \in Node /\ node[n].handler
  BY <1>1 DEF WorkerInv, TypeOK, Pointer
<1>3. fault' \in {"none", "freed"}
  BY <1>1, <1>2
<1>4. TypeOK'
  BY <1>1, <1>3 DEF TypeOK, Pointer
<1>5. WorkerInv'
  <2>1. \A r \in Sessions : held'[r] = IF r = s THEN NULL ELSE held[r]
    BY <1>1 DEF TypeOK
  <2> QED BY <1>1, <2>1 DEF WorkerInv, Reached, InTable, InRequest, TypeOK
<1>6. OnlyHalfFilled'
  BY <1>3 DEF OnlyHalfFilled
<1> QED BY <1>1, <1>4, <1>5, <1>6, WalkKeepsBy

LEMMA HaltedKeeps ==
  ASSUME IInv, UNCHANGED routeVars
  PROVE  IInv'
<1>1. UNCHANGED <<node, allocated, first, last, call, walk, held, fault, table, stale>>
  BY DEF routeVars
<1>2. TypeOK' /\ ListIsTable' /\ Ordered'
  BY <1>1 DEF IInv, ListInv, TypeOK, ListIsTable, Ordered
<1>3. CallInv' /\ LastInv' /\ Filled'
  BY <1>1 DEF IInv, ListInv, CallInv, LastInv, Filled, Busy, Appending
<1>4. (fault' = "none" => WorkerInv') /\ OnlyHalfFilled'
  BY <1>1 DEF IInv, WorkerInv, Reached, InTable, InRequest, OnlyHalfFilled
<1> QED BY <1>2, <1>3, <1>4 DEF IInv, ListInv

-----------------------------------------------------------------------------
(* The theorems.                                                           *)

LEMMA NextKeeps ==
  ASSUME Contract, IInv, [Next]_routeVars
  PROVE  IInv'
<1>1. CASE Walk
  BY <1>1, BeginKeeps, MatchKeeps, CallKeeps, NotFoundKeeps, NextRouteKeeps, FoundKeeps,
     GivesUpKeeps, CallHeldKeeps DEF Walk
<1>2. CASE \E t \in Thread : Write(t)
  BY <1>2, WriteKeeps
<1>3. CASE Halted \/ UNCHANGED routeVars
  BY <1>3, HaltedKeeps DEF Halted
<1> QED BY <1>1, <1>2, <1>3 DEF Next

LEMMA Invariance == ASSUME Contract PROVE Spec => []IInv
<1>1. Init => IInv
  BY Starts
<1>2. IInv /\ [Next]_routeVars => IInv'
  BY NextKeeps
<1> QED BY <1>1, <1>2, PTL DEF Spec

\* The list in memory holds the routes in the order of the calls to ews_route_append at
\* every moment, as long as one thread at a time changes it (src/route.c:13-63).
THEOREM ListHoldsTheRoutes == ASSUME Contract PROVE Spec => []ListIsTable
<1>1. IInv => ListIsTable
  BY DEF IInv, ListInv
<1> QED BY <1>1, Invariance, PTL

\* The variables keep their types: every pointer of the list, of a call and of the walk
\* is NULL or a node (src/route.c:13-63).
THEOREM RoutesTypes == ASSUME Contract PROVE Spec => []TypeOK
<1>1. IInv => TypeOK
  BY DEF IInv, ListInv
<1> QED BY <1>1, Invariance, PTL

\* A request meets a freed route only if the route was freed while it was under way
\* (src/route.c:51-63, src/http.c:446-458).
THEOREM FreedOnlyUnderIt == ASSUME Contract PROVE Spec => FreedUnderIt
<1>1. ASSUME IInv, [Next]_routeVars, fault' = "freed", fault = "none"
      PROVE  \E s \in stale : (walk.at # "none" /\ walk.sess = s) \/ held'[s] # held[s]
  <2>1. Walk
    BY <1>1, WriteLeavesTheWorker DEF Next, Halted, routeVars
  <2>2. CASE Match \/ Call \/ NextRoute
    <3>1. walk.at # "none" /\ walk.cur # NULL /\ ~node[walk.cur].live
      BY <1>1, <2>2 DEF Match, Call, NextRoute, Uses, IInv, WorkerInv
    <3>2. walk.cur \in Node
      BY <1>1, <3>1 DEF IInv, ListInv, TypeOK, Pointer
    <3>3. walk.sess \in stale
      BY <1>1, <3>1, <3>2, InListIsLive DEF IInv, WorkerInv, Reached
    <3> QED BY <3>1, <3>3
  <2>3. ASSUME NEW s \in Sessions, CallHeld(s)
        PROVE  s \in stale /\ held'[s] # held[s]
    <3>1. held[s] # NULL /\ ~node[held[s]].live /\ held'[s] = NULL
      BY <1>1, <2>3 DEF CallHeld, Uses, IInv, ListInv, TypeOK
    <3>2. held[s] \in Node
      BY <1>1, <3>1 DEF IInv, ListInv, TypeOK, Pointer
    <3> QED BY <1>1, <3>1, <3>2, InListIsLive DEF IInv, WorkerInv, Reached
  <2> QED BY <1>1, <2>1, <2>2, <2>3 DEF Walk, Begin, NotFound, Found, GivesUp
<1>2. IInv /\ [Next]_routeVars =>
        [fault' = "freed" /\ fault = "none" =>
           \E s \in stale : (walk.at # "none" /\ walk.sess = s) \/ held'[s] # held[s]]_routeVars
  BY <1>1
<1> QED BY <1>2, Invariance, PTL DEF Spec, FreedUnderIt

\* Only a route that the other thread is just appending can lack a pattern or a handler
\* when the worker comes to it (src/route.c:21-36).
THEOREM OnlyTheNewestLacks == ASSUME Contract PROVE Spec => []OnlyHalfFilled
<1>1. IInv => OnlyHalfFilled
  BY DEF IInv
<1> QED BY <1>1, Invariance, PTL

-----------------------------------------------------------------------------
(* The list and the walk implement the table.                              *)

LEMMA PlaceIsUnique ==
  ASSUME NEW tab \in Seq(Node), NEW j \in 1..Len(tab),
         \A k, m \in 1..Len(tab) : k < m => tab[k] < tab[m]
  PROVE  (CHOOSE k \in 1..Len(tab) : tab[k] = tab[j]) = j
<1>1. \A k \in 1..Len(tab) : tab[k] \in Node
  OBVIOUS
<1>2. \A k \in 1..Len(tab) : tab[k] = tab[j] => k = j
  BY <1>1, RoutesConstants DEF Node
<1> QED BY <1>2

\* The abstract place of the walk.
LEMMA Place ==
  ASSUME IInv, NEW k \in 1..Len(table), walk.at # "none", walk.sess \notin stale,
         walk.cur = table[k]
  PROVE  Offered = k
<1>1. walk.cur # NULL
  BY RoutesConstants DEF IInv, ListInv, TypeOK, Node, NULL
<1>2. (CHOOSE m \in 1..Len(table) : table[m] = table[k]) = k
  BY PlaceIsUnique DEF IInv, ListInv, TypeOK, Ordered
<1> QED BY <1>1, <1>2 DEF Offered

LEMMA PlaceAfter ==
  ASSUME IInv', NEW k \in 1..Len(table'), walk'.at # "none", walk'.sess \notin stale',
         walk'.cur = table'[k]
  PROVE  Offered' = k
<1>1. walk'.cur # NULL
  BY RoutesConstants DEF IInv, ListInv, TypeOK, Node, NULL
<1>2. (CHOOSE m \in 1..Len(table') : table'[m] = table'[k]) = k
  BY PlaceIsUnique DEF IInv, ListInv, TypeOK, Ordered
<1> QED BY <1>1, <1>2 DEF Offered

LEMMA WriteMaps ==
  ASSUME Contract, IInv, IInv', NEW t \in Thread, Write(t)
  PROVE  [Abstract!Next]_(Abstract!tableVars)
<1>1. UNCHANGED walk
  BY WriteLeavesTheWorker
<1>2. CASE Link(t)
  <2>1. table' = Append(table, call[t].route) /\ call[t].route \in Node
    BY <1>2 DEF Link, At, IInv, ListInv, CallInv
  <2> stale' = stale /\ fault = "none"
    BY <1>2 DEF Link, At
  <2>2. Offered' = Offered
    <3>1. CASE walk.at = "none" \/ walk.sess \in stale \/ walk.cur = NULL
      BY <1>1, <3>1 DEF Offered
    <3>2. CASE walk.at # "none" /\ walk.sess \notin stale /\ walk.cur # NULL
      <4>1. PICK k \in 1..Len(table) : table[k] = walk.cur
        BY <3>2 DEF IInv, WorkerInv, Reached, InTable
      <4>2. k \in 1..Len(table') /\ table'[k] = walk'.cur
        BY <1>1, <2>1, <4>1 DEF IInv, ListInv, TypeOK
      <4>3. Offered = k
        BY <3>2, <4>1, Place
      <4>4. Offered' = k
        BY <1>1, <3>2, <4>2, PlaceAfter
      <4> QED BY <4>3, <4>4
    <3> QED BY <3>1, <3>2
  <2> QED BY <2>1, <2>2 DEF Abstract!Next, Abstract!Add
<1>3. CASE Unlink(t)
  <2>1. table # <<>> /\ table' = Tail(table)
    BY <1>3, UnlinkKeepsList DEF IInv, Unlink
  <2>2. walk'.at = "none" \/ walk'.sess \in stale'
    BY <1>1, <1>3 DEF Unlink, At, IInv, WorkerInv, InRequest
  <2> QED BY <2>1, <2>2 DEF Abstract!Next, Abstract!DropFirst, Abstract!NoRequest, Offered
<1>4. CASE UNCHANGED <<table, stale>>
  BY <1>1, <1>4 DEF Offered, Abstract!tableVars
<1>5. Link(t) \/ Unlink(t) \/ UNCHANGED <<table, stale>>
  BY DEF Write, Alloc, SetLast, SetPattern, SetHandler, Clear, Cleared
<1> QED BY <1>2, <1>3, <1>4, <1>5

LEMMA BeginMaps ==
  ASSUME IInv, IInv', NEW s \in Sessions, NEW wants \in SUBSET Node, Begin(s, wants)
  PROVE  Abstract!Next
<1>1. /\ UNCHANGED table /\ Offered = 0
      /\ walk'.at = "match" /\ walk'.cur = first /\ walk'.sess \notin stale'
  BY DEF Begin, Worker, ListKept, Offered, IInv, WorkerInv, InRequest
<1>2. CASE table = <<>>
  <2>1. Offered' = -1 /\ Len(table) = 0
    BY <1>1, <1>2 DEF IInv, ListInv, ListIsTable, Offered
  <2> QED BY <1>1, <2>1 DEF Abstract!Next, Abstract!Offer, Abstract!PlaceOf, Abstract!Refused,
                           Abstract!NoRequest
<1>3. CASE table # <<>>
  <2>1. 1 \in 1..Len(table') /\ walk'.cur = table'[1] /\ 1 <= Len(table)
    BY <1>1, <1>3 DEF IInv, ListInv, ListIsTable, TypeOK
  <2>2. Offered' = 1
    BY <1>1, <2>1, PlaceAfter
  <2> QED BY <1>1, <2>1, <2>2 DEF Abstract!Next, Abstract!Offer, Abstract!PlaceOf, Abstract!NoRequest
<1> QED BY <1>2, <1>3

LEMMA NextRouteMaps ==
  ASSUME IInv, IInv', NextRoute
  PROVE  [Abstract!Next]_(Abstract!tableVars)
<1>1. /\ UNCHANGED <<table, stale>> /\ walk.at = "next" /\ walk.cur # NULL /\ WorkerInv
      /\ walk'.at = "match" /\ walk'.cur = node[walk.cur].next /\ walk'.sess = walk.sess
  BY DEF NextRoute, Worker, ListKept, WalksOn, IInv, ListInv, TypeOK, WorkerInv
<1>2. CASE walk.sess \in stale
  BY <1>1, <1>2 DEF Offered, Abstract!tableVars
<1>3. CASE walk.sess \notin stale
  <2>1. PICK k \in 1..Len(table) : table[k] = walk.cur
    BY <1>1, <1>3 DEF WorkerInv, Reached, InTable
  <2>2. Offered = k /\ k > 0
    BY <1>1, <1>3, <2>1, Place
  <2>3. node[walk.cur].next = IF k = Len(table) THEN NULL ELSE table[k + 1]
    BY <2>1 DEF IInv, ListInv, ListIsTable
  <2>4. CASE k = Len(table)
    <3>1. Offered' = -1 /\ ~(k + 1 <= Len(table))
      BY <1>1, <1>3, <2>3, <2>4 DEF Offered
    <3> QED BY <1>1, <2>2, <3>1 DEF Abstract!Next, Abstract!Pass, Abstract!PlaceOf, Abstract!Refused
  <2>5. CASE k # Len(table)
    <3>1. k + 1 \in 1..Len(table') /\ walk'.cur = table'[k + 1] /\ k + 1 <= Len(table)
      BY <1>1, <2>3, <2>5 DEF IInv, ListInv, TypeOK
    <3>2. Offered' = k + 1
      BY <1>1, <1>3, <3>1, PlaceAfter
    <3> QED BY <1>1, <2>2, <3>1, <3>2 DEF Abstract!Next, Abstract!Pass, Abstract!PlaceOf
  <2> QED BY <2>4, <2>5
<1> QED BY <1>2, <1>3

LEMMA EndMaps ==
  ASSUME IInv, Found \/ GivesUp
  PROVE  [Abstract!Next]_(Abstract!tableVars)
<1>1. UNCHANGED table /\ Offered' = 0 /\ walk.at # "none" /\ WorkerInv
  BY DEF Found, GivesUp, Worker, ListKept, Offered, NoWalk, IInv
<1>2. CASE walk.sess \in stale
  BY <1>1, <1>2 DEF Offered, Abstract!tableVars
<1>3. CASE walk.sess \notin stale
  <2>1. Offered # 0
    <3>1. CASE walk.cur = NULL
      BY <1>1, <1>3, <3>1 DEF Offered
    <3>2. CASE walk.cur # NULL
      <4>1. PICK k \in 1..Len(table) : table[k] = walk.cur
        BY <1>1, <1>3, <3>2 DEF WorkerInv, Reached, InTable
      <4> QED BY <1>1, <1>3, <4>1, Place
    <3> QED BY <3>1, <3>2
  <2> QED BY <1>1, <2>1 DEF Abstract!Next, Abstract!End, Abstract!NoRequest
<1> QED BY <1>2, <1>3

LEMMA WalkMaps ==
  ASSUME IInv, IInv', Walk
  PROVE  [Abstract!Next]_(Abstract!tableVars)
<1>1. CASE Match \/ Call \/ NotFound
  <2>1. /\ UNCHANGED <<table, stale>> /\ walk'.cur = walk.cur /\ walk'.sess = walk.sess
        /\ walk'.at # "none" /\ walk.at # "none"
    BY <1>1 DEF Match, Call, NotFound, ListKept, WalksOn, IInv, ListInv, TypeOK
  <2> QED BY <2>1 DEF Offered, Abstract!tableVars
<1>2. CASE \E s \in Sessions : CallHeld(s)
  <2>1. UNCHANGED <<table, walk>> /\ walk.at = "none"
    BY <1>2 DEF CallHeld, ListKept
  <2> QED BY <2>1 DEF Offered, Abstract!tableVars
<1> QED BY <1>1, <1>2, BeginMaps, NextRouteMaps, EndMaps DEF Walk

\* The list and the walk over it are what the application sees: each request is offered
\* to the routes in the order of the appends (src/http.c:442-459, src/route.c:13-63).
THEOREM ListImplementsTable == ASSUME Contract PROVE Spec => TableSpec
<1>1. Init => Abstract!Init
  BY DEF Init, Abstract!Init, Offered, NoWalk, Abstract!NoRequest
<1>2. ASSUME IInv, [Next]_routeVars
      PROVE  [Abstract!Next]_(Abstract!tableVars)
  <2>1. IInv'
    BY <1>2, NextKeeps
  <2>2. CASE Next /\ ~Halted
    BY <1>2, <2>1, <2>2, WriteMaps, WalkMaps DEF Next
  <2>3. CASE Halted \/ UNCHANGED routeVars
    <3>1. UNCHANGED <<table, walk, stale>>
      BY <2>3 DEF Halted, routeVars
    <3> QED BY <3>1 DEF Offered, Abstract!tableVars
  <2> QED BY <1>2, <2>2, <2>3
<1> QED BY <1>1, <1>2, Invariance, PTL DEF Spec, TableSpec, Abstract!Spec
=============================================================================
