---------------------------- MODULE WorkerProofs -----------------------------
(* Worker implements Slots, for any number of slots and connections.  Of    *)
(* time nothing is assumed: callbacks may take as long as they like (up to  *)
(* MaxPass), handshakes may outlive their slot and fail at any moment.      *)
(* Then the types, what a fault needs, when the idle timeout comes, and     *)
(* that a pass serves what select reported and ends.                        *)
EXTENDS Worker, SequenceTheorems, WellFoundedInduction, TLAPS

Shape == [flags : SUBSET {"INUSE", "CONNECTED", "PEND_CLOSE"},
          connect : BOOLEAN, ops : BOOLEAN, evt : BOOLEAN, user : BOOLEAN,
          writes : Int, conn : Conns \cup {NoConn}]

Types ==
  /\ slot \in [Clients -> Shape]
  /\ pos \in Socks
  /\ threads \subseteq [slot : Clients, conn : Conns]
  /\ queue \in [Listeners -> Seq(Conns)]
  /\ away \subseteq Conns
  /\ closed \subseteq Conns

\* A slot that is not in use is zero as far as owners and close go.
SlotInv == \A s \in Clients :
  /\ InUse(s) <=> slot[s].conn # NoConn
  /\ slot[s].evt \/ slot[s].ops => InUse(s)

QueuesApart ==
  \A l, k \in Listeners : \A i \in DOMAIN queue[l] : \A j \in DOMAIN queue[k] :
    queue[l][i] = queue[k][j] => l = k /\ i = j

\* A connection is in one place: not opened, at one place of one queue, in one
\* slot, or closed.
Apart ==
  /\ away \cap closed = {}
  /\ \A s \in Clients : InUse(s) => slot[s].conn \notin away \cup closed
  /\ \A s, t \in Clients : InUse(s) /\ slot[s].conn = slot[t].conn => s = t
  /\ \A l \in Listeners : \A i \in DOMAIN queue[l] :
       /\ queue[l][i] \notin away \cup closed
       /\ \A s \in Clients : slot[s].conn # queue[l][i]
  /\ QueuesApart

IInv == Types /\ SlotInv /\ Apart

Step == OneOwner!Next \/ UNCHANGED OneOwner!vars

-----------------------------------------------------------------------------
(* The constants and the loop.                                             *)

\* The sockets are numbered from 1.
LEMMA SocksNat == Last \in Nat \ {0} /\ Socks \subseteq Nat /\ 1 \in Socks
BY WorkerConstants DEF Last, Socks, HttpsListener

\* The loop stays among the sockets (worker.c:108-122, 136-150).
LEMMA NextSockPos ==
  ASSUME pos \in Socks, NEW first, NEW after, NextSock(first, after)
  PROVE  pos' \in Socks
BY SocksNat DEF NextSock, Socks

\* A set of naturals has a least element.
LEMMA LeastOfNats ==
  ASSUME NEW S \in SUBSET Nat, S # {}
  PROVE  \E n \in S : \A m \in S : n <= m
<1> DEFINE R == {r \in Nat \X Nat : r[1] < r[2]}
<1>1. PICK n \in S : \A m \in S : <<m, n>> \notin R
  <2> HIDE DEF R
  <2>1. IsWellFoundedOn(R, Nat)
    BY NatLessThanWellFounded DEF R, OpToRel
  <2> QED
    BY <2>1, WFMin
<1>2. ASSUME NEW m \in S, m < n PROVE FALSE
  <2>1. <<m, n>> \in R
    BY <1>2
  <2> QED
    BY <1>1, <2>1
<1>3. \A m \in S : n <= m
  BY <1>2
<1> QED
  BY <1>3

\* A listener that finds a free slot takes one of the free ones
\* (listener.c:115-141).
LEMMA FirstFree ==
  ASSUME NEW l, FreeSlots(l) # {}
  PROVE  FirstOf(FreeSlots(l)) \in FreeSlots(l)
<1>1. FreeSlots(l) \in SUBSET Nat
  BY SocksNat DEF FreeSlots, Clients
<1> QED
  BY <1>1, LeastOfNats DEF FirstOf

-----------------------------------------------------------------------------
(* Steps that change no owner.                                             *)

\* A step that changes none of what IInv speaks of but the position.
LEMMA Stays ==
  ASSUME IInv, pos' \in Socks, UNCHANGED <<slot, threads, queue, away, closed>>
  PROVE  IInv' /\ Step
<1>1. \A s \in Clients : InUse(s)' = InUse(s)
  BY DEF InUse
<1>2. IInv'
  BY <1>1 DEF IInv, Types, SlotInv, Apart, QueuesApart
<1>3. UNCHANGED OneOwner!vars
  BY DEF OneOwner!vars, InUse
<1> QED
  BY <1>2, <1>3 DEF Step

\* A step that keeps the owners.
KeepsOwners ==
  /\ slot' \in [Clients -> Shape]
  /\ \A s \in Clients : /\ InUse(s)' <=> InUse(s)
                        /\ slot'[s].conn = slot[s].conn
                        /\ slot'[s].evt \/ slot'[s].ops => InUse(s)

LEMMA KeepsOwner ==
  ASSUME IInv, pos' \in Socks, UNCHANGED <<queue, away, closed>>,
         threads' \subseteq [slot : Clients, conn : Conns], KeepsOwners
  PROVE  IInv' /\ Step
<1>1. \A t \in Clients : /\ InUse(t)' <=> InUse(t)
                         /\ slot'[t].conn = slot[t].conn
                         /\ slot'[t].evt \/ slot'[t].ops => InUse(t)
  BY DEF KeepsOwners
<1>2. Types'
  BY DEF IInv, Types, KeepsOwners
<1>3. SlotInv'
  BY <1>1 DEF IInv, SlotInv
<1>4. Apart'
  BY <1>1 DEF IInv, Apart, QueuesApart
<1>5. UNCHANGED OneOwner!vars
  BY <1>1 DEF OneOwner!vars
<1> QED
  BY <1>2, <1>3, <1>4, <1>5 DEF IInv, Step

\* What close does to an owned slot: Slots' Release (socket.c:84-89, 199-207).
LEMMA Closes ==
  ASSUME IInv, pos' \in Socks, UNCHANGED <<queue, away>>,
         threads' \subseteq [slot : Clients, conn : Conns],
         NEW s \in Clients, InUse(s), Close(s)
  PROVE  IInv' /\ Step
<1>1. Zero \in Shape
  BY DEF Zero, Shape
<1>2. slot' = [slot EXCEPT ![s] = Zero] /\ closed' = closed \cup {slot[s].conn}
  BY DEF Close
<1>3. slot[s].conn \in Conns
  BY DEF IInv, Types, SlotInv, Shape
<1>4. ~InUse(s)' /\ slot'[s] = Zero
  BY <1>2 DEF InUse, IInv, Types, Zero
<1>5. \A t \in Clients \ {s} : slot'[t] = slot[t] /\ (InUse(t)' <=> InUse(t))
  BY <1>2 DEF InUse, IInv, Types
<1>6. Types'
  BY <1>1, <1>2, <1>3 DEF IInv, Types
<1>7. SlotInv'
  BY <1>4, <1>5 DEF IInv, SlotInv, Zero
<1>8. Apart'
  <2>1. NoConn \notin Conns
    BY WorkerConstants
  <2>2. \A l \in Listeners : \A i \in DOMAIN queue[l] : queue[l][i] \in Conns
    BY ElementOfSeq DEF IInv, Types
  <2> QED
    BY <1>2, <1>3, <1>4, <1>5, <2>1, <2>2
       DEF IInv, Apart, QueuesApart, Types, SlotInv, Zero
<1>9. OneOwner!Release(s)
  BY <1>2, <1>3, <1>4, <1>5, WorkerConstants DEF OneOwner!Release, IInv, Types
<1> QED
  BY <1>6, <1>7, <1>8, <1>9 DEF IInv, Step, OneOwner!Next

-----------------------------------------------------------------------------
(* The worker's steps.                                                     *)

\* The steps of the loop that look and move on.
LEMMA LoopSteps ==
  ASSUME IInv,
         \/ LoopBegin \/ PreListener \/ PreUnused \/ PreTimed \/ PreCompare
         \/ PreStay \/ Select \/ SelectFails \/ PostQuiet \/ AcceptNone
  PROVE  IInv' /\ Step
<1>1. pos \in Socks
  BY DEF IInv, Types
<1>2. pos' \in Socks
  BY <1>1, NextSockPos DEF LoopBegin, PreListener, PreUnused, PreTimed, PreCompare,
     PreStay, Test, Select, SelectFails, PostQuiet, AcceptNone, PreNext, PostNext
<1>3. UNCHANGED <<slot, threads, queue, away, closed>>
  BY DEF LoopBegin, PreListener, PreUnused, PreTimed, PreCompare, PreStay, Test,
     Select, SelectFails, PostQuiet, AcceptNone, sockets, peers
<1> QED
  BY <1>2, <1>3, Stays

\* connect gives a socket in use its operations (socket.c:100-121, 250-272).
LEMMA ConnectStep == ASSUME IInv, PreConnect PROVE IInv' /\ Step
<1>1. pos \in Clients /\ InUse(pos) /\ pos' = pos /\ pos' \in Socks
      /\ UNCHANGED <<queue, away, closed>>
  BY DEF PreConnect, AtClient, IInv, Types, peers
<1>2. slot[pos] \in Shape /\ slot[pos].conn \in Conns
  BY <1>1 DEF IInv, Types, SlotInv, Shape
<1>3. CASE ~Here.connect
  <2>1. UNCHANGED <<slot, threads>>
    BY <1>3 DEF PreConnect
  <2> QED
    BY <1>1, <2>1, Stays
<1>4. CASE Here.connect
  <2> DEFINE r == [slot[pos] EXCEPT !.connect = FALSE, !.ops = TRUE, !.evt = ~Tls(pos)]
  <2>3. slot' = [slot EXCEPT ![pos] = r]
    BY <1>1, <1>4 DEF PreConnect, IInv, Types
  <2>4. r.flags = slot[pos].flags /\ r.conn = slot[pos].conn /\ r \in Shape
    BY <1>2 DEF Shape
  <2>1. KeepsOwners
    <3> HIDE DEF r
    <3> QED
      BY <1>1, <2>3, <2>4 DEF KeepsOwners, IInv, Types, SlotInv, InUse
  <2>2. threads' \subseteq [slot : Clients, conn : Conns]
    BY <1>1, <1>2, <1>4 DEF PreConnect, IInv, Types, Here
  <2> QED
    BY <1>1, <2>1, <2>2, KeepsOwner
<1> QED
  BY <1>3, <1>4

\* What pre_select closes is owned (worker.c:39-58).
LEMMA CloseStep == ASSUME IInv, PreClose PROVE IInv' /\ Step
<1>1. pos \in Clients /\ pos \in Socks /\ UNCHANGED <<threads, queue, away>>
  BY DEF PreClose, AtClient, IInv, Types, peers
<1>2. pos' \in Socks
  BY <1>1, NextSockPos DEF PreClose, PreNext
<1>3. CASE UNCHANGED <<slot, age, closed, rest, lag>>
  BY <1>1, <1>2, <1>3, Stays
<1>4. CASE Close(pos) /\ (slot[pos].evt \/ slot[pos].ops)
  <2>1. InUse(pos)
    BY <1>1, <1>4 DEF IInv, SlotInv
  <2> QED
    BY <1>1, <1>2, <1>4, <2>1, Closes DEF IInv, Types
<1> QED
  BY <1>3, <1>4 DEF PreClose, OnClose

\* on_connect marks a socket in use (worker.c:60-77).
LEMMA WatchStep == ASSUME IInv, PreWatch PROVE IInv' /\ Step
<1>1. pos \in Clients /\ pos \in Socks /\ UNCHANGED <<threads, queue, away, closed>>
  BY DEF PreWatch, AtClient, IInv, Types, peers
<1>2. pos' \in Socks
  BY <1>1, NextSockPos DEF PreWatch, PreNext
<1>3. CASE ~Here.evt
  BY <1>1, <1>2, <1>3, Stays DEF PreWatch
<1>4. CASE Here.evt
  <2>1. InUse(pos) /\ slot[pos] \in Shape
    BY <1>1, <1>4 DEF IInv, Types, SlotInv, Here
  <2> DEFINE r == [slot[pos] EXCEPT !.flags = @ \cup {"CONNECTED"}, !.user = TRUE]
  <2>3. slot' = [slot EXCEPT ![pos] = r]
    BY <1>1, <1>4 DEF PreWatch, IInv, Types
  <2>4. ("INUSE" \in r.flags <=> InUse(pos)) /\ r.conn = slot[pos].conn /\ r \in Shape
    BY <2>1 DEF Shape, InUse
  <2>2. KeepsOwners
    <3> HIDE DEF r
    <3> QED
      BY <1>1, <2>1, <2>3, <2>4 DEF KeepsOwners, IInv, Types, SlotInv, InUse
  <2> QED
    BY <1>1, <1>2, <2>2, KeepsOwner DEF IInv, Types
<1> QED
  BY <1>3, <1>4

\* do_read and do_write of a session leave its slot to it (worker.c:80-93).
LEMMA SessionSteps == ASSUME IInv, PostRead \/ PostWrite PROVE IInv' /\ Step
<1>1. pos \in Clients /\ UNCHANGED <<threads, queue, away, closed>>
  BY DEF PostRead, PostWrite, peers
<1>2. pos' \in Socks
  BY NextSockPos DEF PostRead, PostWrite, PostNext, IInv, Types
<1>3. slot[pos] \in Shape /\ slot[pos].writes \in Int
  BY <1>1 DEF IInv, Types, Shape
<1>4. CASE \E n \in Int : slot' = [slot EXCEPT ![pos].writes = n]
  <2>1. PICK n \in Int : slot' = [slot EXCEPT ![pos].writes = n]
    BY <1>4
  <2>2. n \in Int
    OBVIOUS
  <2>3. KeepsOwners
    BY <1>1, <1>3, <2>1, <2>2 DEF KeepsOwners, IInv, Types, SlotInv, Shape, InUse
  <2> QED
    BY <1>1, <1>2, <2>3, KeepsOwner DEF IInv, Types
<1>5. CASE slot' = Mark(pos)
  <2>1. KeepsOwners
    BY <1>1, <1>3, <1>5 DEF Mark, KeepsOwners, IInv, Types, SlotInv, Shape, InUse
  <2> QED
    BY <1>1, <1>2, <2>1, KeepsOwner DEF IInv, Types
<1>6. CASE slot' = slot
  BY <1>1, <1>2, <1>6, Stays
<1>7. CASE slot' = [Mark(pos) EXCEPT ![pos].writes = 0]
  <2> DEFINE r == [slot[pos] EXCEPT !.flags = @ \cup {"PEND_CLOSE"}, !.writes = 0]
  <2>2. slot' = [slot EXCEPT ![pos] = r]
    BY <1>1, <1>7 DEF Mark, IInv, Types
  <2>3. "INUSE" \in r.flags <=> InUse(pos)
    BY <1>3 DEF Shape, InUse
  <2>4. r.conn = slot[pos].conn /\ (r.evt <=> slot[pos].evt) /\ (r.ops <=> slot[pos].ops)
    BY <1>3 DEF Shape
  <2>5. r \in Shape
    <3> DEFINE q == [slot[pos] EXCEPT !.flags = @ \cup {"PEND_CLOSE"}]
    <3>1. q \in Shape
      BY <1>3 DEF Shape
    <3>2. r = [q EXCEPT !.writes = 0]
      BY <1>3 DEF Shape
    <3> HIDE DEF q, r
    <3> QED
      BY <3>1, <3>2 DEF Shape
  <2>1. KeepsOwners
    <3> HIDE DEF r
    <3> QED
      BY <1>1, <2>2, <2>3, <2>4, <2>5 DEF KeepsOwners, IInv, Types, SlotInv, InUse
  <2> QED
    BY <1>1, <1>2, <2>1, KeepsOwner DEF IInv, Types
<1>8. CASE PostRead
  <2>1. \A n \in 0..MaxWrites : n \in Int
    BY WorkerConstants
  <2> QED
    BY <1>4, <1>5, <1>6, <1>8, <2>1 DEF PostRead
<1>9. CASE PostWrite
  <2>1. \A n \in 0..(Here.writes - 1) : n \in Int
    OBVIOUS
  <2> QED
    BY <1>4, <1>7, <1>9, <2>1 DEF PostWrite
<1> QED
  BY <1>8, <1>9

\* The slot of a connection that was just accepted.
LEMMA FreshSlot ==
  ASSUME NEW c \in Conns,
         NEW r, r = [Zero EXCEPT !.flags = {"INUSE"}, !.connect = TRUE, !.conn = c]
  PROVE  r \in Shape /\ r.conn = c /\ "INUSE" \in r.flags /\ ~r.evt /\ ~r.ops
<1> DEFINE p == [Zero EXCEPT !.flags = {"INUSE"}]
           q == [p EXCEPT !.connect = TRUE]
<1>1. Zero \in Shape /\ Zero.evt = FALSE /\ Zero.ops = FALSE
  BY DEF Zero, Shape
<1>4. p \in Shape /\ "INUSE" \in p.flags /\ p.evt = FALSE /\ p.ops = FALSE
  BY <1>1 DEF Shape
<1> HIDE DEF p
<1>2. q \in Shape /\ "INUSE" \in q.flags /\ q.evt = FALSE /\ q.ops = FALSE
  BY <1>4 DEF Shape
<1>3. r = [q EXCEPT !.conn = c]
  BY DEF p
<1> HIDE DEF q
<1> QED
  BY <1>2, <1>3 DEF Shape

\* A listener gives the first connection of its queue a free slot: Slots' Admit.
\* When accept fails the connection may be gone (listener.c:108-171).
LEMMA AcceptStep ==
  ASSUME IInv, AcceptConn \/ AcceptFails, queue' = [queue EXCEPT ![pos] = Tail(@)]
  PROVE  IInv' /\ Step
<1>1. /\ pos \in Listeners
      /\ queue' = [queue EXCEPT ![pos] = Tail(@)]
      /\ UNCHANGED <<threads, away, closed>>
  BY DEF AcceptConn, AcceptFails, Accepting
<1>2. pos' \in Socks
  BY NextSockPos DEF AcceptConn, AcceptFails, PostNext, IInv, Types
<1>3. PICK s \in Clients : s = FirstOf(FreeSlots(pos)) /\ ~InUse(s)
  BY FirstFree DEF AcceptConn, AcceptFails, Accepting, FreeSlots
<1>4. queue[pos] \in Seq(Conns) /\ queue[pos] # <<>>
  BY <1>1 DEF AcceptConn, AcceptFails, IInv, Types
<1>11. PICK c \in Conns : c = Head(queue[pos])
  BY <1>4
<1>5. /\ c = queue[pos][1] /\ 1 \in DOMAIN queue[pos]
      /\ Tail(queue[pos]) \in Seq(Conns)
      /\ \A i \in DOMAIN Tail(queue[pos]) :
           i + 1 \in DOMAIN queue[pos] /\ Tail(queue[pos])[i] = queue[pos][i + 1]
  BY <1>4, <1>11
<1> DEFINE shift(l) == IF l = pos THEN 1 ELSE 0
<1>6. \A l \in Listeners : \A i \in DOMAIN queue'[l] :
        /\ i \in Nat /\ i + shift(l) \in DOMAIN queue[l]
        /\ queue'[l][i] = queue[l][i + shift(l)]
  <2> SUFFICES ASSUME NEW l \in Listeners, NEW i \in DOMAIN queue'[l]
               PROVE  /\ i \in Nat /\ i + shift(l) \in DOMAIN queue[l]
                      /\ queue'[l][i] = queue[l][i + shift(l)]
    OBVIOUS
  <2>1. CASE l = pos
    <3>1. queue'[l] = Tail(queue[pos])
      BY <1>1, <2>1 DEF IInv, Types
    <3>2. i \in Nat
      BY <1>5, <3>1, LenProperties
    <3> QED
      BY <1>5, <2>1, <3>1, <3>2
  <2>2. CASE l # pos
    <3>1. queue'[l] = queue[l] /\ queue[l] \in Seq(Conns)
      BY <1>1, <2>2 DEF IInv, Types
    <3>2. DOMAIN queue[l] = 1..Len(queue[l]) /\ Len(queue[l]) \in Nat
      BY <3>1, LenProperties
    <3>3. i \in Nat
      BY <3>1, <3>2
    <3> QED
      BY <2>2, <3>1, <3>3
  <2> QED
    BY <2>1, <2>2
<1>7. c \notin away \cup closed /\ \A t \in Clients : slot[t].conn # c
  BY <1>1, <1>5 DEF IInv, Apart
<1>8. \A l \in Listeners : \A i \in DOMAIN queue'[l] : queue'[l][i] # c
  <2> SUFFICES ASSUME NEW l \in Listeners, NEW i \in DOMAIN queue'[l], queue'[l][i] = c
               PROVE  FALSE
    OBVIOUS
  <2>1. l = pos /\ i + shift(l) = 1
    BY <1>1, <1>5, <1>6 DEF IInv, Apart, QueuesApart
  <2>2. i # 0
    BY <1>1, <1>5, <2>1 DEF IInv, Types
  <2> QED
    BY <1>6, <2>1, <2>2
<1>9. queue' \in [Listeners -> Seq(Conns)]
  BY <1>1, <1>5 DEF IInv, Types
<1> DEFINE new == [Zero EXCEPT !.flags = {"INUSE"}, !.connect = TRUE, !.conn = c]
<1>10. CASE slot' = [slot EXCEPT ![s] = new]
  <2>1. new \in Shape
    BY FreshSlot
  <2>7. new.conn = c /\ "INUSE" \in new.flags /\ ~new.evt /\ ~new.ops
    BY FreshSlot
  <2> HIDE DEF new, shift
  <2>8. slot'[s] = new /\ \A t \in Clients \ {s} : slot'[t] = slot[t]
    BY <1>3, <1>10 DEF IInv, Types
  <2>2. slot'[s] = new /\ InUse(s)' /\ \A t \in Clients \ {s} :
          slot'[t] = slot[t] /\ (InUse(t)' <=> InUse(t))
    BY <2>7, <2>8 DEF InUse
  <2>3. Types'
    BY <1>1, <1>2, <1>3, <1>9, <1>10, <2>1 DEF IInv, Types
  <2>4. SlotInv'
    BY <1>5, <2>1, <2>2, <2>7, WorkerConstants DEF IInv, SlotInv
  <2>5. Apart'
    <3>1. \A t \in Clients : InUse(t)' => slot'[t].conn \notin away' \cup closed'
      BY <1>1, <1>7, <2>1, <2>2, <2>7 DEF IInv, Apart
    <3>2. \A t, u \in Clients : InUse(t)' /\ slot'[t].conn = slot'[u].conn => t = u
      BY <1>7, <2>1, <2>2, <2>7 DEF IInv, Apart
    <3>3. \A l \in Listeners : \A i \in DOMAIN queue'[l] :
            /\ queue'[l][i] \notin away' \cup closed'
            /\ \A t \in Clients : slot'[t].conn # queue'[l][i]
      BY <1>1, <1>6, <1>8, <2>1, <2>2, <2>7 DEF IInv, Apart
    <3>4. QueuesApart'
      BY <1>6 DEF IInv, Apart, QueuesApart, shift
    <3> QED
      BY <1>1, <3>1, <3>2, <3>3, <3>4 DEF IInv, Apart
  <2>6. OneOwner!Admit(s, c)
    BY <1>1, <1>3, <1>7, <1>10, <2>1, <2>2, <2>7, WorkerConstants
       DEF OneOwner!Admit, IInv, Types, SlotInv
  <2> QED
    BY <1>3, <1>5, <2>3, <2>4, <2>5, <2>6 DEF IInv, Step, OneOwner!Next
<1>12. CASE slot' = [slot EXCEPT ![s] = Zero]
  <2>1. slot[s].conn = NoConn
    BY <1>3 DEF IInv, SlotInv
  <2>2. Zero \in Shape /\ Zero.flags = {} /\ Zero.conn = NoConn /\ ~Zero.evt /\ ~Zero.ops
    BY DEF Zero, Shape
  <2> HIDE DEF shift, new
  <2>3. slot' \in [Clients -> Shape]
    BY <1>12, <2>2 DEF IInv, Types
  <2>4. slot'[s] = Zero /\ \A t \in Clients \ {s} : slot'[t] = slot[t]
    BY <1>3, <1>12 DEF IInv, Types
  <2>5. \A t \in Clients : /\ InUse(t)' <=> InUse(t)
                           /\ slot'[t].conn = slot[t].conn
    BY <1>3, <2>1, <2>2, <2>4 DEF InUse
  <2>6. Types'
    BY <1>1, <1>2, <1>9, <2>3 DEF IInv, Types
  <2>7. SlotInv'
    BY <2>2, <2>4, <2>5 DEF IInv, SlotInv
  <2>8. Apart'
    <3>1. \A l \in Listeners : \A i \in DOMAIN queue'[l] :
            /\ queue'[l][i] \notin away' \cup closed'
            /\ \A t \in Clients : slot'[t].conn # queue'[l][i]
      BY <1>1, <1>6, <2>5 DEF IInv, Apart
    <3>2. QueuesApart'
      BY <1>6 DEF IInv, Apart, QueuesApart, shift
    <3> QED
      BY <1>1, <2>5, <3>1, <3>2 DEF IInv, Apart
  <2>9. UNCHANGED OneOwner!vars
    BY <1>1, <2>5 DEF OneOwner!vars
  <2> QED
    BY <2>6, <2>7, <2>8, <2>9 DEF IInv, Step
<1> QED
  BY <1>3, <1>10, <1>11, <1>12 DEF AcceptConn, AcceptFails

\* When accept fails and leaves the connection queued, the free slot stays free.
LEMMA AcceptLeaves == ASSUME IInv, AcceptFails, queue' = queue PROVE IInv' /\ Step
<1>1. pos' \in Socks /\ UNCHANGED <<threads, away, closed>>
  BY NextSockPos DEF AcceptFails, PostNext, IInv, Types
<1>2. PICK s \in Clients : ~InUse(s) /\ slot' = [slot EXCEPT ![s] = Zero]
  BY FirstFree DEF AcceptFails, Accepting, FreeSlots
<1>3. slot[s].conn = NoConn
  BY <1>2 DEF IInv, SlotInv
<1>4. Zero \in Shape /\ Zero.flags = {} /\ Zero.conn = NoConn /\ ~Zero.evt /\ ~Zero.ops
  BY DEF Zero, Shape
<1>5. slot'[s] = Zero /\ \A t \in Clients \ {s} : slot'[t] = slot[t]
  BY <1>2 DEF IInv, Types
<1>6. KeepsOwners
  BY <1>2, <1>3, <1>4, <1>5 DEF KeepsOwners, InUse, IInv, Types, SlotInv
<1> QED
  BY <1>1, <1>6, KeepsOwner DEF IInv, Types

-----------------------------------------------------------------------------
(* The other threads, the peers and the clock.                             *)

\* A handshake thread whose connection still has the slot publishes http_sock_evt
\* or closes the slot; another one stops the model (socket.c:218-248).
LEMMA ThreadSteps ==
  ASSUME IInv, NEW t \in threads, HandshakeOk(t) \/ HandshakeFails(t)
  PROVE  IInv' /\ Step
<1>1. /\ pos' \in Socks /\ UNCHANGED <<queue, away>>
      /\ threads' \subseteq [slot : Clients, conn : Conns]
  BY DEF HandshakeOk, HandshakeFails, IInv, Types, loop, peers
<1>2. t.slot \in Clients /\ t.conn \in Conns
  BY DEF IInv, Types
<1>3. CASE UNCHANGED <<slot, closed>>
  <2>1. KeepsOwners
    BY <1>3 DEF KeepsOwners, IInv, Types, SlotInv, InUse
  <2> QED
    BY <1>1, <1>3, <2>1, KeepsOwner
<1>4. CASE ~Stale(t)
  <2>1. InUse(t.slot)
    BY <1>2, <1>4, WorkerConstants DEF Stale, IInv, SlotInv
  <2>2. CASE HandshakeOk(t)
    <3> DEFINE r == [slot[t.slot] EXCEPT !.evt = TRUE]
    <3>1. slot' = [slot EXCEPT ![t.slot] = r] /\ UNCHANGED closed
      BY <1>2, <1>4, <2>2 DEF HandshakeOk, IInv, Types
    <3>2. r.flags = slot[t.slot].flags /\ r.conn = slot[t.slot].conn /\ r \in Shape
      BY <1>2 DEF Shape, IInv, Types
    <3>3. KeepsOwners
      <4> HIDE DEF r
      <4> QED
        BY <1>2, <2>1, <3>1, <3>2 DEF KeepsOwners, IInv, Types, SlotInv, InUse
    <3> QED
      BY <1>1, <3>1, <3>3, KeepsOwner
  <2>3. CASE HandshakeFails(t)
    BY <1>1, <1>2, <1>4, <2>1, <2>3, Closes DEF HandshakeFails
  <2> QED
    BY <2>2, <2>3
<1> QED
  BY <1>3, <1>4 DEF HandshakeOk, HandshakeFails

\* A new connection waits behind the others of its queue.
LEMMA DialStep == ASSUME IInv, NEW c \in Conns, Dial(c) PROVE IInv' /\ Step
<1>1. PICK l \in Listeners : queue' = [queue EXCEPT ![l] = Append(@, c)]
  BY DEF Dial
<1>2. /\ c \in away /\ away' = away \ {c}
      /\ UNCHANGED <<slot, threads, closed, pos>>
  BY DEF Dial, sockets, loop
<1>3. \A s \in Clients : slot[s].conn # c
  BY <1>2, WorkerConstants DEF IInv, SlotInv, Apart
<1>4. \A k \in Listeners : \A i \in DOMAIN queue[k] : queue[k][i] # c
  BY <1>2 DEF IInv, Apart
<1>5. \A k \in Listeners : \A i \in DOMAIN queue'[k] :
        \/ i \in DOMAIN queue[k] /\ queue'[k][i] = queue[k][i]
        \/ k = l /\ i = Len(queue[l]) + 1 /\ queue'[k][i] = c
  BY <1>1 DEF IInv, Types
<1>6. Types'
  BY <1>1, <1>2 DEF IInv, Types
<1>7. SlotInv' /\ \A s \in Clients : InUse(s)' <=> InUse(s)
  BY <1>2 DEF IInv, SlotInv, InUse
<1>8. Apart'
  <2>1. \A k \in Listeners : \A i \in DOMAIN queue'[k] :
          /\ queue'[k][i] \notin away' \cup closed'
          /\ \A s \in Clients : slot'[s].conn # queue'[k][i]
    BY <1>2, <1>3, <1>5 DEF IInv, Apart
  <2>2. QueuesApart'
    BY <1>4, <1>5 DEF IInv, Apart, QueuesApart
  <2> QED
    BY <1>2, <1>7, <2>1, <2>2 DEF IInv, Apart
<1>9. UNCHANGED OneOwner!vars
  BY <1>2, <1>7 DEF OneOwner!vars
<1> QED
  BY <1>6, <1>7, <1>8, <1>9 DEF IInv, Step

-----------------------------------------------------------------------------
(* The theorems.                                                           *)

\* Each step keeps a queue that is still to be served in this pass non-empty.
LEMMA ReadyStep ==
  ASSUME IInv, AcceptNeverWaits, [Next]_vars PROVE AcceptNeverWaits'
<1> SUFFICES ASSUME ~shutdown' PROVE AcceptNeverWaits'
  BY DEF AcceptNeverWaits
<1>1. pos \in Nat
  BY SocksNat DEF IInv, Types
<1> USE <1>1 DEF AcceptNeverWaits
<1>2. CASE \/ LoopBegin \/ PreListener \/ PreUnused \/ PreConnect \/ PreTimed
           \/ PreCompare \/ PreStay \/ PreClose \/ PreWatch
  <2>1. at' # "post"
    BY <1>2 DEF LoopBegin, PreListener, PreUnused, PreConnect, PreTimed, PreCompare,
       PreStay, PreClose, PreWatch, Test, PreNext, NextSock
  <2> QED
    BY <2>1
<1>3. CASE Select
  BY <1>3 DEF Select, Readable, peers
<1>9. CASE SelectFails
  BY <1>9 DEF SelectFails
<1>4. CASE PostQuiet \/ PostRead \/ PostWrite \/ AcceptNone
  <2>1. UNCHANGED <<rfds, queue, shutdown>> /\ at = "post" /\ PostNext
    BY <1>4 DEF PostQuiet, PostRead, PostWrite, AcceptNone, peers
  <2>2. at' = "post" => pos' = pos + 1
    BY <2>1 DEF PostNext, NextSock, AfterPass
  <2> SUFFICES ASSUME at' = "post", NEW l \in rfds \cap Listeners, l >= pos'
               PROVE  queue[l] # <<>>
    BY <2>1
  <2>3. l \in Nat
    BY SocksNat DEF Listeners
  <2> QED
    BY <2>1, <2>2, <2>3
<1>5. CASE AcceptConn \/ AcceptFails
  <2>1. /\ at = "post" /\ PostNext /\ UNCHANGED <<rfds, shutdown>>
        /\ queue' \in {queue, [queue EXCEPT ![pos] = Tail(@)]}
    BY <1>5 DEF AcceptConn, AcceptFails, Accepting
  <2>2. at' = "post" => pos' = pos + 1
    BY <2>1 DEF PostNext, NextSock, AfterPass
  <2> SUFFICES ASSUME at' = "post", NEW l \in rfds \cap Listeners, l >= pos'
               PROVE  queue'[l] # <<>>
    BY <2>1
  <2>3. l \in Nat
    BY SocksNat DEF Listeners
  <2>4. l # pos /\ l >= pos
    BY <2>2, <2>3
  <2> QED
    BY <2>1, <2>4 DEF IInv, Types
<1>6. CASE ThreadStep
  BY <1>6 DEF ThreadStep, HandshakeOk, HandshakeFails, loop, peers
<1>7. ASSUME NEW c \in Conns, Dial(c) PROVE AcceptNeverWaits'
  BY <1>7 DEF Dial, loop, IInv, Types
<1>8. CASE \/ Tick \/ AcceptWaits \/ Stopped \/ UNCHANGED vars
           \/ \E c \in Conns : Send(c) \/ Leave(c)
  <2>1. UNCHANGED <<at, pos, rfds, queue, shutdown>>
    BY <1>8 DEF Tick, AcceptWaits, Stopped, vars, Send, Leave, loop, peers
  <2> QED
    BY <2>1
<1> QED
  BY <1>2, <1>3, <1>4, <1>5, <1>6, <1>7, <1>8, <1>9 DEF Next, WorkerStep, PeerStep

LEMMA InvInit == Init => IInv /\ AcceptNeverWaits /\ OneOwner!Init
<1> SUFFICES ASSUME Init PROVE IInv /\ AcceptNeverWaits /\ OneOwner!Init
  OBVIOUS
<1>1. Zero \in Shape /\ "INUSE" \notin Zero.flags /\ Zero.conn = NoConn
      /\ ~Zero.evt /\ ~Zero.ops
  BY DEF Zero, Shape
<1>2. \A s \in Clients : slot[s] = Zero /\ ~InUse(s)
  BY <1>1 DEF Init, InUse
<1>3. \A l \in Listeners : queue[l] = <<>>
  BY DEF Init
<1>4. Types
  BY <1>1, SocksNat DEF Init, Types
<1>5. SlotInv
  BY <1>1, <1>2 DEF SlotInv
<1>6. Apart
  BY <1>2, <1>3 DEF Init, Apart, QueuesApart
<1>7. AcceptNeverWaits
  BY DEF Init, AcceptNeverWaits
<1>8. OneOwner!Init
  BY <1>2 DEF Init, OneOwner!Init
<1> QED
  BY <1>4, <1>5, <1>6, <1>7, <1>8 DEF IInv

LEMMA InvNext == ASSUME IInv, [Next]_vars PROVE IInv' /\ Step
<1>1. CASE WorkerStep
  <2>1. ASSUME AcceptConn \/ AcceptFails PROVE IInv' /\ Step
    BY <2>1, AcceptStep, AcceptLeaves DEF AcceptConn, AcceptFails
  <2> QED
    BY <1>1, <2>1, LoopSteps, ConnectStep, CloseStep, WatchStep, SessionSteps
       DEF WorkerStep
<1>2. CASE ThreadStep
  BY <1>2, ThreadSteps DEF ThreadStep
<1>3. CASE PeerStep
  <2>1. ASSUME NEW c \in Conns, Dial(c) PROVE IInv' /\ Step
    BY <2>1, DialStep
  <2>2. ASSUME NEW c \in Conns, Send(c) \/ Leave(c) PROVE IInv' /\ Step
    <3>1. pos' \in Socks /\ UNCHANGED <<slot, threads, queue, away, closed>>
      BY <2>2 DEF Send, Leave, sockets, loop, IInv, Types
    <3> QED
      BY <3>1, Stays
  <2> QED
    BY <1>3, <2>1, <2>2 DEF PeerStep
<1>4. CASE Tick \/ AcceptWaits \/ Stopped \/ UNCHANGED vars
  <2>1. pos' \in Socks /\ UNCHANGED <<slot, threads, queue, away, closed>>
    BY <1>4 DEF Tick, AcceptWaits, Stopped, vars, sockets, loop, peers, IInv, Types
  <2> QED
    BY <2>1, Stays
<1> QED
  BY <1>1, <1>2, <1>3, <1>4 DEF Next

\* The slots keep the promise of Slots: a slot serves one connection from accept
\* to close, and each connection is served once (listener.c, worker.c, socket.c).
THEOREM SlotsImplemented == Spec => SlotsSpec
<1>1. Init => IInv /\ OneOwner!Init
  BY InvInit
<1>2. IInv /\ [Next]_vars => IInv' /\ [OneOwner!Next]_(OneOwner!vars)
  BY InvNext DEF Step
<1> QED
  BY <1>1, <1>2, PTL DEF Spec, SlotsSpec, OneOwner!Spec

\* A listener's accept, which blocks when no connection is queued, finds one, unless
\* select has failed (worker.c:79-87 and 127-134, listener.c:149).
THEOREM AcceptReady == Spec => []AcceptNeverWaits
<1>1. Init => IInv /\ AcceptNeverWaits
  BY InvInit
<1>2. IInv /\ AcceptNeverWaits /\ [Next]_vars => IInv' /\ AcceptNeverWaits'
  BY InvNext, ReadyStep
<1> QED
  BY <1>1, <1>2, PTL DEF Spec

-----------------------------------------------------------------------------
(* The rest of the invariant: the order in which a slot gets its pointers, *)
(* the times, and what the pass has come to.                               *)

Pre == at = "enter" \/ Visiting

\* A slot that pre_select is at has its operations, or was zeroed meanwhile.  No age
\* is negative before select: only a listener makes one, in post_select.
LoopInv ==
  /\ at \in {"begin", "select", "ended"} => pos = 1
  /\ Visiting => pos \in Clients /\ (torn \/ slot[pos].ops)
  /\ torn => Visiting /\ slot[pos] = Zero
  /\ Pre => \A s \in Clients : 0 <= age[s]
  /\ at = "expired" /\ ~torn => age[pos] > IdleTimeout

\* A slot is accepted, then connected, then has its evt, then its session.
SlotOK(s) ==
  /\ slot[s].user => slot[s].evt
  /\ slot[s].evt => slot[s].ops
  /\ slot[s].ops => InUse(s) /\ ~slot[s].connect
  /\ slot[s].connect => InUse(s)
  /\ InUse(s) => slot[s].connect \/ slot[s].ops
  /\ Connected(s) => slot[s].user
  /\ "PEND_CLOSE" \in slot[s].flags => slot[s].user

\* now - last_active, with the time that it is now.
Time(s) == age[s] + elapsed

\* It is what the slot has rested, and at most the age that `now` had more.
TimeOK(s) ==
  /\ 0 <= Time(s)
  /\ InUse(s) => Capped(Time(s)) <= rest[s] + lag[s]
  /\ slot[s].user \/ lag[s] = 0

\* A handshake is that of the slot's connection, or its connection is closed.
ThreadOK(t) == t.conn \in closed \/ ( /\ slot[t.slot].conn = t.conn
                                      /\ slot[t.slot].ops /\ ~slot[t.slot].evt )
ThreadInv ==
  /\ \A t \in threads : ThreadOK(t)
  /\ \A t, u \in threads : t.conn = u.conn => t = u

\* What is watched is connected, and has been served as far as the pass has come.
Watched == \A s \in (rfds \cup wfds) \cap Clients :
  /\ Connected(s)
  /\ Pre => s < pos
  /\ at = "post" /\ s < pos => s \in served

SlotsOK == \A s \in Clients : SlotOK(s) /\ TimeOK(s)

TimeInv == TypeOK /\ LoopInv /\ ThreadInv /\ Watched /\ SlotsOK

\* The socket numbers and the times are numbers.
LEMMA Numbers ==
  /\ Last \in Nat
  /\ \A s \in Socks : s \in Nat /\ 1 <= s /\ s <= Last
  /\ Clients \subseteq Socks
  /\ IdleTimeout \in Nat /\ Never = IdleTimeout + 1 /\ Never \in Nat
  /\ MaxPass \in Nat
BY WorkerConstants DEF Socks, Clients, Last, HttpsListener, Never

LEMMA Typed ==
  ASSUME TimeInv
  PROVE  /\ pos \in Socks /\ pos \in Nat /\ elapsed \in Nat /\ elapsed <= MaxPass
         /\ \A s \in Clients : /\ slot[s] \in Slot
                               /\ age[s] \in Int /\ age[s] <= Never
                               /\ rest[s] \in Nat /\ rest[s] <= Never
                               /\ lag[s] \in Nat /\ lag[s] <= MaxPass
BY Numbers DEF TimeInv, TypeOK

\* The fields of the zeroed slot.
LEMMA ZeroTyped ==
  /\ Zero \in Slot /\ Zero.flags = {} /\ Zero.connect = FALSE /\ Zero.ops = FALSE
  /\ Zero.evt = FALSE /\ Zero.user = FALSE /\ Zero.conn = NoConn
BY WorkerConstants DEF Zero, Slot

\* A closed slot keeps what is said of slots.
LEMMA ZeroOK ==
  ASSUME NEW s \in Clients, slot'[s] = Zero, age'[s] = Never, lag'[s] = 0,
         elapsed' \in Nat
  PROVE  SlotOK(s)' /\ TimeOK(s)'
<1>1. ~InUse(s)' /\ ~Connected(s)'
  BY ZeroTyped DEF InUse, Connected
<1>2. 0 <= Time(s)'
  <2>1. PICK e \in Nat : e = elapsed'
    OBVIOUS
  <2>2. Time(s)' = Never + e
    BY <2>1 DEF Time
  <2>3. 0 <= Never + e
    BY Numbers
  <2> QED
    BY <2>2, <2>3
<1> QED
  BY <1>1, <1>2, ZeroTyped DEF SlotOK, TimeOK

\* A step at one slot leaves what is said of the others.
LEMMA SlotChange ==
  ASSUME TimeInv, NEW s \in Clients, elapsed' = elapsed,
         \A u \in Clients \ {s} : /\ slot'[u] = slot[u] /\ age'[u] = age[u]
                                  /\ rest'[u] = rest[u] /\ lag'[u] = lag[u],
         SlotOK(s)', TimeOK(s)'
  PROVE  SlotsOK'
<1> SUFFICES ASSUME NEW u \in Clients \ {s} PROVE SlotOK(u)' /\ TimeOK(u)'
  BY DEF SlotsOK
<1>1. SlotOK(u) /\ TimeOK(u)
  BY DEF TimeInv, SlotsOK
<1>2. Time(u)' = Time(u) /\ (InUse(u)' <=> InUse(u)) /\ (Connected(u)' <=> Connected(u))
  BY DEF Time, InUse, Connected
<1> QED
  BY <1>1, <1>2 DEF SlotOK, TimeOK

\* So for the handshakes, of which no new one is started.
LEMMA ThreadsKept ==
  ASSUME TimeInv, threads' \subseteq threads, closed \subseteq closed',
         NEW s \in Clients, \A u \in Clients \ {s} : slot'[u] = slot[u],
         \A t \in threads' : t.slot = s => ThreadOK(t)'
  PROVE  ThreadInv'
<1> SUFFICES ASSUME NEW t \in threads', t.slot # s PROVE ThreadOK(t)'
  BY DEF ThreadInv, TimeInv
<1>1. t \in threads /\ t.slot \in Clients \ {s} /\ ThreadOK(t)
  BY DEF TimeInv, TypeOK, ThreadInv
<1> QED
  BY <1>1 DEF ThreadOK

-----------------------------------------------------------------------------
(* The steps of the loop that change no socket.                            *)

\* The steps that go on to the next socket before select (worker.c:108-122).
LEMMA PreGoesOn ==
  ASSUME TimeInv, Pre, PreNext, \A s \in Clients : 0 <= age'[s]
  PROVE  /\ LoopInv' /\ pos' \in Socks /\ at' \in {"enter", "select"} /\ ~torn'
         /\ served' = served
         /\ \A s \in Clients : Pre' /\ s <= pos => s < pos'
<1>1. pos' \in Socks /\ ~torn' /\ served' = served
  BY NextSockPos, Typed DEF PreNext
<1>2. \/ at' = "enter" /\ pos' = pos + 1
      \/ at' = "select" /\ pos' = 1
  BY DEF PreNext, NextSock
<1>3. \A s \in Clients : s <= pos => s < pos + 1
  BY Typed, Numbers
<1>4. LoopInv'
  BY <1>1, <1>2 DEF LoopInv, Visiting
<1> QED
  BY <1>1, <1>2, <1>3, <1>4 DEF Pre, Visiting

\* What such a step adds to the sets is the socket it was at.
LEMMA WatchedOn ==
  ASSUME TimeInv, Pre, PreNext, \A s \in Clients : 0 <= age'[s],
         \A s \in (rfds' \cup wfds') \cap Clients :
           Connected(s)' /\ (s \in rfds \cup wfds \/ s = pos)
  PROVE  Watched'
<1>1. \A s \in (rfds' \cup wfds') \cap Clients : s <= pos
  BY Typed, Numbers DEF TimeInv, Watched
<1> QED
  BY <1>1, PreGoesOn DEF Watched

\* A step that moves the loop alone.
LEMMA LoopOnly ==
  ASSUME TimeInv, UNCHANGED <<sockets, peers, rest, lag, fault, elapsed>>,
         at' \in {"enter", "timed", "compare", "expired", "pend", "watch", "select",
                  "post", "begin", "ended"},
         pos' \in Socks, rfds' \subseteq Socks, wfds' \subseteq Clients,
         served' \subseteq Clients, torn' \in BOOLEAN, shutdown' \in BOOLEAN,
         LoopInv', Watched'
  PROVE  TimeInv'
<1>1. UNCHANGED <<slot, age, threads, closed, queue, away, unread, left, sends>>
  BY DEF sockets, peers
<1>2. TypeOK'
  BY <1>1 DEF TimeInv, TypeOK
<1>3. ThreadInv'
  BY <1>1 DEF TimeInv, ThreadInv, ThreadOK
<1>4. SlotsOK'
  BY <1>1 DEF TimeInv, SlotsOK, SlotOK, TimeOK, Time, InUse, Connected
<1> QED
  BY <1>2, <1>3, <1>4 DEF TimeInv

\* A listener is watched, a slot that is not in use is passed over (worker.c:27-36).
LEMMA PassOverTime == ASSUME TimeInv, PreListener \/ PreUnused PROVE TimeInv'
<1>1. /\ Pre /\ PreNext
      /\ rfds' \subseteq rfds \cup (Listeners \cap {pos}) /\ wfds' = wfds
      /\ UNCHANGED <<sockets, peers, rest, lag, fault, elapsed, shutdown>>
  BY DEF PreListener, PreUnused, AtClient, Pre
<1>2. UNCHANGED <<slot, age>>
  BY <1>1 DEF sockets
<1>3. \A s \in Clients : 0 <= age'[s]
  BY <1>1, <1>2 DEF TimeInv, LoopInv
<1>4. \A s \in (rfds' \cup wfds') \cap Clients : Connected(s)' /\ s \in rfds \cup wfds
  BY <1>1, <1>2 DEF TimeInv, Watched, Connected, Clients
<1>5. Watched'
  BY <1>1, <1>3, <1>4, WatchedOn
<1>6. /\ rfds' \subseteq Socks /\ wfds' \subseteq Clients /\ served \subseteq Clients
      /\ shutdown \in BOOLEAN
  BY <1>1 DEF TimeInv, TypeOK, Listeners
<1>7. /\ LoopInv' /\ pos' \in Socks /\ at' \in {"enter", "select"} /\ ~torn'
      /\ served' = served
  BY <1>1, <1>3, PreGoesOn
<1>8. torn' \in BOOLEAN
  BY <1>1 DEF PreNext
<1> QED
  BY <1>1, <1>5, <1>6, <1>7, <1>8, LoopOnly

\* The checks of one socket (worker.c:39-51).
LEMMA TestTime == ASSUME TimeInv, PreTimed \/ PreCompare \/ PreStay PROVE TimeInv'
<1>1. /\ Visiting /\ pos \in Clients /\ pos' = pos
      /\ UNCHANGED <<sockets, peers, history, fault, elapsed, rfds, wfds, shutdown>>
  BY DEF PreTimed, PreCompare, PreStay, Test, AtClient, Visiting
<1>2. UNCHANGED <<slot, age, rest, lag, torn, served>>
  BY <1>1 DEF sockets, history
<1>3. at' \in {"compare", "expired", "pend", "watch"} /\ Visiting'
  BY DEF PreTimed, PreCompare, PreStay, Test, Visiting
<1>4. at' = "expired" => at = "compare" /\ IsIdle(pos)
  <2>1. CASE PreTimed \/ PreStay
    BY <2>1 DEF PreTimed, PreStay, Test
  <2>2. CASE PreCompare
    BY <2>2 DEF PreCompare, Test, AtClient
  <2> QED
    BY <2>1, <2>2
<1>5. age[pos] \in Int /\ 0 <= age[pos] /\ (torn \/ slot[pos].ops)
  BY <1>1, Typed DEF TimeInv, LoopInv, Pre
<1>6. at' = "expired" /\ ~torn => age[pos] > IdleTimeout
  BY <1>4, <1>5, Numbers DEF IsIdle
<1>7. LoopInv'
  BY <1>1, <1>2, <1>3, <1>6 DEF TimeInv, LoopInv, Pre, Visiting
<1>8. Watched'
  BY <1>1, <1>2, <1>3 DEF TimeInv, Watched, Pre, Visiting, Connected
<1>9. /\ pos \in Socks /\ rfds \subseteq Socks /\ wfds \subseteq Clients
      /\ served \subseteq Clients /\ torn \in BOOLEAN /\ shutdown \in BOOLEAN
  BY DEF TimeInv, TypeOK
<1> QED
  BY <1>1, <1>2, <1>3, <1>7, <1>8, <1>9, LoopOnly

\* select reports some of what is watched, or fails and leaves the sets as they are
\* (worker.c:125-135).
LEMMA SelectTime == ASSUME TimeInv, Select \/ SelectFails PROVE TimeInv'
<1>1. /\ at = "select" /\ at' \in {"post", "begin"}
      /\ rfds' \subseteq rfds /\ wfds' \subseteq wfds
      /\ pos' = pos /\ pos = 1
      /\ shutdown' \in {shutdown, TRUE}
      /\ UNCHANGED <<sockets, peers, history, fault, elapsed>>
  BY DEF Select, SelectFails, TimeInv, LoopInv
<1>2. UNCHANGED <<slot, age, rest, lag, torn, served>>
  BY <1>1 DEF sockets, history
<1>3. LoopInv'
  BY <1>1, <1>2 DEF TimeInv, LoopInv, Pre, Visiting
<1>4. \A s \in Clients : ~(s < 1)
  BY Numbers
<1>5. Watched'
  BY <1>1, <1>2, <1>4 DEF TimeInv, Watched, Pre, Visiting, Connected
<1>6. /\ pos' \in Socks /\ rfds' \subseteq Socks /\ wfds' \subseteq Clients
      /\ served' \subseteq Clients /\ torn' \in BOOLEAN /\ shutdown' \in BOOLEAN
  BY <1>1, <1>2 DEF TimeInv, TypeOK
<1> QED
  BY <1>1, <1>2, <1>3, <1>5, <1>6, LoopOnly

\* The steps of post_select go on to the next socket, or the pass ends.
LEMMA PostGoesOn ==
  ASSUME TimeInv, at = "post", PostNext, torn' = torn
  PROVE  /\ LoopInv' /\ pos' \in Socks /\ at' \in {"post", "begin", "ended"}
         /\ ~Pre' /\ (at' = "post" => pos' = pos + 1)
<1>1. pos' \in Socks
  BY NextSockPos, Typed DEF PostNext
<1>2. /\ at' \in {"post", "begin", "ended"}
      /\ at' = "post" => pos' = pos + 1
      /\ at' \in {"begin", "ended"} => pos' = 1
  BY DEF PostNext, NextSock, AfterPass
<1>3. ~Pre' /\ ~Visiting' /\ ~torn
  BY <1>2 DEF Pre, Visiting, TimeInv, LoopInv
<1> QED
  BY <1>1, <1>2, <1>3 DEF LoopInv

\* The socket that such a step was at has been served, if it was reported.
LEMMA WatchedPost ==
  ASSUME TimeInv, at = "post", PostNext, torn' = torn, UNCHANGED <<rfds, wfds>>,
         \A s \in (rfds \cup wfds) \cap Clients : Connected(s)',
         served \subseteq served',
         pos \in (rfds \cup wfds) \cap Clients => pos \in served'
  PROVE  Watched'
<1> SUFFICES ASSUME NEW s \in (rfds \cup wfds) \cap Clients, at' = "post", s < pos'
             PROVE  s \in served'
  BY PostGoesOn DEF Watched
<1>1. s < pos \/ s = pos
  BY PostGoesOn, Typed, Numbers
<1> QED
  BY <1>1 DEF TimeInv, Watched

\* A socket that is not reported, and a listener with no slot to give, are passed over.
LEMMA QuietTime == ASSUME TimeInv, PostQuiet \/ AcceptNone PROVE TimeInv'
<1>1. /\ at = "post" /\ PostNext
      /\ UNCHANGED <<sockets, peers, history, fault, elapsed, rfds, wfds, shutdown>>
  BY DEF PostQuiet, AcceptNone
<1>2. UNCHANGED <<slot, age, rest, lag, torn, served>>
  BY <1>1 DEF sockets, history
<1>3. pos \notin (rfds \cup wfds) \cap Clients
  <2>1. ASSUME PostQuiet, pos \in (rfds \cup wfds) \cap Clients PROVE FALSE
    BY <2>1 DEF PostQuiet, Reported, TimeInv, Watched
  <2> QED
    BY <2>1 DEF AcceptNone, Clients
<1>4. Watched'
  BY <1>1, <1>2, <1>3, WatchedPost DEF TimeInv, Watched, Connected
<1>5. /\ LoopInv' /\ pos' \in Socks /\ at' \in {"post", "begin", "ended"}
  BY <1>1, <1>2, PostGoesOn
<1>6. /\ rfds \subseteq Socks /\ wfds \subseteq Clients
      /\ served \subseteq Clients /\ torn \in BOOLEAN /\ shutdown \in BOOLEAN
  BY DEF TimeInv, TypeOK
<1> QED
  BY <1>1, <1>2, <1>4, <1>5, <1>6, LoopOnly

-----------------------------------------------------------------------------
(* The steps that change the times or a slot.                              *)

\* Capping keeps order, and what it cuts off is beyond every timeout.
LEMMA Caps ==
  ASSUME NEW x \in Int, 0 <= x
  PROVE  /\ Capped(x) \in 0..Never /\ Capped(x) <= x
         /\ Capped(Capped(x)) = Capped(x)
         /\ Capped(x + 1) <= Capped(x) + 1
         /\ x >= Never => Capped(x) = Never
BY Numbers DEF Capped

\* The pass takes the time anew.
LEMMA BeginTime == ASSUME TimeInv, LoopBegin PROVE TimeInv'
<1>1. /\ at = "begin" /\ at' = "enter" /\ pos' = pos /\ pos = 1
      /\ age' = [s \in Clients |-> Capped(age[s] + elapsed)]
      /\ elapsed' = 0 /\ rfds' = {} /\ wfds' = {} /\ served' = {}
      /\ UNCHANGED <<slot, threads, closed, shutdown, rest, lag, torn, fault>>
      /\ UNCHANGED <<queue, away, unread, left, sends>>
  BY DEF LoopBegin, TimeInv, LoopInv, peers
<1>2. \A s \in Clients : /\ Time(s) \in Int /\ 0 <= Time(s)
                         /\ age'[s] = Capped(Time(s))
                         /\ SlotOK(s) /\ TimeOK(s)
  BY <1>1, Typed DEF TimeInv, SlotsOK, TimeOK, Time
<1>3. \A s \in Clients : /\ age'[s] \in 0..Never
                         /\ Capped(age'[s]) = age'[s]
  BY <1>2, Caps
<1>4. TypeOK'
  <2>1. age' \in [Clients -> -MaxPass..Never]
    <3>1. \A s \in Clients : Capped(age[s] + elapsed) \in -MaxPass..Never
      BY <1>1, <1>3, Numbers
    <3> QED
      BY <1>1, <3>1
  <2>2. 0 \in 0..MaxPass
    BY Numbers
  <2> QED
    BY <1>1, <2>1, <2>2 DEF TimeInv, TypeOK
<1>5. LoopInv' /\ Watched'
  <2>1. \A s \in Clients : 0 <= age'[s]
    BY <1>3
  <2> QED
    BY <1>1, <2>1 DEF TimeInv, LoopInv, Watched, Visiting
<1>6. ThreadInv'
  BY <1>1 DEF TimeInv, ThreadInv, ThreadOK
<1>7. ASSUME NEW s \in Clients PROVE SlotOK(s)' /\ TimeOK(s)'
  <2>1. age'[s] + 0 = age'[s] /\ 0 <= age'[s] /\ Capped(age'[s]) = age'[s]
    BY <1>3
  <2>2. Time(s)' = age'[s]
    <3>1. Time(s)' = age'[s] + 0
      BY <1>1 DEF Time
    <3> QED
      BY <2>1, <3>1
  <2>3. (InUse(s)' <=> InUse(s)) /\ (Connected(s)' <=> Connected(s))
    BY <1>1 DEF InUse, Connected
  <2>4. SlotOK(s)'
    BY <1>1, <1>2, <2>3 DEF SlotOK
  <2>5. TimeOK(s)'
    BY <1>1, <1>2, <2>1, <2>2, <2>3 DEF TimeOK
  <2> QED
    BY <2>4, <2>5
<1> QED
  BY <1>4, <1>5, <1>6, <1>7 DEF TimeInv, SlotsOK

\* connect: the socket has its operations, and over TLS perhaps a thread
\* (socket.c:100-121, 250-272).
LEMMA ConnectTime ==
  ASSUME IInv, TimeInv, PreConnect, NEW s \in Clients, s = pos PROVE TimeInv'
<1>1. /\ at = "enter" /\ at' = "timed" /\ pos' = s /\ InUse(s)
      /\ UNCHANGED <<age, closed, elapsed, rfds, wfds, shutdown, fault>>
      /\ UNCHANGED <<rest, lag, torn, served>>
      /\ UNCHANGED <<queue, away, unread, left, sends>>
  BY DEF PreConnect, AtClient, peers, history
<1>2. slot[s] \in Slot /\ slot[s].conn \in Conns /\ SlotOK(s) /\ TimeOK(s)
  BY <1>1 DEF TimeInv, TypeOK, SlotsOK, IInv, Types, SlotInv, Shape
<1>3. PICK r \in Slot : /\ slot' = [slot EXCEPT ![s] = r]
                        /\ r.flags = slot[s].flags /\ r.conn = slot[s].conn
                        /\ r.ops /\ ~r.connect /\ (r.user <=> slot[s].user)
                        /\ slot[s].evt => r.evt
                        /\ slot[s].connect => (r.evt <=> ~Tls(s))
                        /\ slot[s].connect \/ r = slot[s]
  <2>1. CASE ~Here.connect
    <3>1. slot' = slot /\ slot[s].ops
      BY <1>1, <1>2, <2>1 DEF PreConnect, SlotOK, Here
    <3>2. slot' = [slot EXCEPT ![s] = slot[s]]
      BY <3>1 DEF TimeInv, TypeOK
    <3> QED
      BY <1>2, <2>1, <3>1, <3>2 DEF Here
  <2>2. CASE Here.connect
    <3> DEFINE r == [slot[s] EXCEPT !.connect = FALSE, !.ops = TRUE, !.evt = ~Tls(s)]
    <3>1. slot' = [slot EXCEPT ![s] = r]
      BY <2>2 DEF PreConnect, TimeInv, TypeOK
    <3>2. /\ r \in Slot /\ r.flags = slot[s].flags /\ r.conn = slot[s].conn
          /\ (r.user <=> slot[s].user) /\ ~r.connect /\ r.ops
          /\ (r.evt <=> ~Tls(s))
      BY <1>2 DEF Slot
    <3>3. ~slot[s].evt /\ slot[s].connect
      BY <1>2, <2>2 DEF SlotOK, Here
    <3> HIDE DEF r
    <3> QED
      BY <3>1, <3>2, <3>3
  <2> QED
    BY <2>1, <2>2
<1>4. slot'[s] = r /\ \A u \in Clients \ {s} : slot'[u] = slot[u]
  BY <1>3 DEF TimeInv, TypeOK
<1>5. \A u \in Clients : (InUse(u)' <=> InUse(u)) /\ (Connected(u)' <=> Connected(u))
  BY <1>3, <1>4 DEF InUse, Connected
<1>6. LoopInv' /\ Watched'
  <2>1. LoopInv'
    BY <1>1, <1>3, <1>4 DEF TimeInv, LoopInv, Pre, Visiting
  <2>2. Watched'
    BY <1>1, <1>5 DEF TimeInv, Watched, Pre, Visiting
  <2> QED
    BY <2>1, <2>2
<1>7. /\ threads' \subseteq threads \cup {[slot |-> s, conn |-> slot[s].conn]}
      /\ threads' \subseteq threads \/ (slot[s].connect /\ ~r.evt)
  <2>1. CASE slot[s].connect /\ Tls(s)
    <3>1. ~r.evt
      BY <1>3, <2>1
    <3> QED
      BY <2>1, <3>1 DEF PreConnect, Here
  <2>2. CASE ~(slot[s].connect /\ Tls(s))
    BY <2>2 DEF PreConnect, Here
  <2> QED
    BY <2>1, <2>2
<1>8. ThreadInv'
  <2>1. ASSUME NEW t \in threads PROVE ThreadOK(t)' /\ (slot[s].connect => t.conn # slot[s].conn)
    <3>1. t.slot \in Clients /\ t.conn \in Conns /\ ThreadOK(t)
      BY DEF TimeInv, TypeOK, ThreadInv
    <3>2. slot[s].connect => t.conn # slot[s].conn
      BY <1>1, <1>2, <3>1 DEF ThreadOK, SlotOK, IInv, Apart
    <3>3. ThreadOK(t)'
      BY <1>1, <1>2, <1>3, <1>4, <3>1 DEF ThreadOK, SlotOK
    <3> QED
      BY <3>2, <3>3
  <2>2. ASSUME NEW t \in threads', t \notin threads
        PROVE  /\ t.slot = s /\ t.conn = slot[s].conn /\ slot[s].connect /\ ThreadOK(t)'
               /\ t = [slot |-> s, conn |-> slot[s].conn]
    <3>1. t = [slot |-> s, conn |-> slot[s].conn] /\ slot[s].connect /\ ~r.evt
      BY <1>7, <2>2
    <3>2. t.slot = s /\ t.conn = slot[s].conn
      BY <3>1
    <3> QED
      BY <1>3, <1>4, <3>1, <3>2 DEF ThreadOK
  <2>3. \A t, u \in threads' : t.conn = u.conn => t = u
    BY <2>1, <2>2 DEF TimeInv, ThreadInv
  <2> QED
    BY <2>1, <2>2, <2>3 DEF ThreadInv
<1>9. TypeOK'
  <2>1. threads' \subseteq [slot : Clients, conn : Conns]
    BY <1>2, <1>7 DEF TimeInv, TypeOK
  <2>2. slot' \in [Clients -> Slot]
    BY <1>3 DEF TimeInv, TypeOK
  <2> QED
    BY <1>1, <2>1, <2>2, Numbers DEF TimeInv, TypeOK
<1>10. SlotOK(s)'
  BY <1>1, <1>2, <1>3, <1>4, <1>5 DEF SlotOK, InUse, Connected
<1>11. TimeOK(s)'
  BY <1>1, <1>2, <1>3, <1>4, <1>5 DEF TimeOK, Time
<1>12. SlotsOK'
  BY <1>1, <1>4, <1>10, <1>11, SlotChange
<1> QED
  BY <1>6, <1>8, <1>9, <1>12 DEF TimeInv

\* The slot that pre_select closes: if its session is missing, the timeout has passed
\* (worker.c:39-58).
LEMMA Expired ==
  ASSUME TimeInv, at = "expired", ~torn
  PROVE  /\ pos \in Clients /\ InUse(pos)
         /\ rest[pos] + lag[pos] > IdleTimeout
         /\ ~slot[pos].user => rest[pos] > IdleTimeout
<1>1. pos \in Clients /\ slot[pos].ops /\ age[pos] > IdleTimeout
  BY DEF TimeInv, LoopInv, Visiting
<1>2. SlotOK(pos) /\ TimeOK(pos) /\ InUse(pos)
  BY <1>1 DEF TimeInv, SlotsOK, SlotOK
<1>3. Time(pos) \in Int /\ Time(pos) >= Never /\ 0 <= Time(pos)
  BY <1>1, Typed, Numbers DEF Time
<1>4. Capped(Time(pos)) = Never
  BY <1>3, Caps
<1>5. rest[pos] + lag[pos] >= Never
  BY <1>2, <1>4 DEF TimeOK
<1>6. rest[pos] \in Nat /\ lag[pos] \in Nat
  BY <1>1, Typed
<1> QED
  BY <1>1, <1>2, <1>5, <1>6, Numbers DEF TimeOK

LEMMA CloseTime ==
  ASSUME IInv, TimeInv, PreClose, NEW s \in Clients, s = pos PROVE TimeInv'
<1>1. /\ Pre /\ PreNext /\ OnClose(s)
      /\ UNCHANGED <<threads, elapsed, rfds, wfds, shutdown>>
      /\ UNCHANGED <<queue, away, unread, left, sends>>
  BY DEF PreClose, AtClient, Pre, Visiting, peers
<1>2. s \notin rfds \cup wfds
  BY <1>1, Numbers DEF TimeInv, Watched
<1>3. \A u \in Clients : 0 <= age[u]
  BY <1>1 DEF TimeInv, LoopInv
<1>4. served' \subseteq Clients /\ served' = served /\ torn' \in BOOLEAN
  BY <1>1 DEF PreNext, TimeInv, TypeOK
<1>5. CASE UNCHANGED <<slot, age, closed, rest, lag>> /\ fault' \in {"null_user", "null_ops"}
  <2>1. LoopInv' /\ pos' \in Socks /\ at' \in {"enter", "select"}
    BY <1>1, <1>3, <1>5, PreGoesOn
  <2>2. Watched'
    BY <1>1, <1>3, <1>5, WatchedOn DEF TimeInv, Watched, Connected
  <2>3. TypeOK'
    BY <1>1, <1>4, <1>5, <2>1 DEF TimeInv, TypeOK
  <2>4. ThreadInv' /\ SlotsOK'
    <3>1. ThreadInv'
      BY <1>1, <1>5 DEF TimeInv, ThreadInv, ThreadOK
    <3>2. SlotsOK'
      BY <1>1, <1>5 DEF TimeInv, SlotsOK, SlotOK, TimeOK, Time, InUse, Connected
    <3> QED
      BY <3>1, <3>2
  <2> QED
    BY <2>1, <2>2, <2>3, <2>4 DEF TimeInv
<1>6. CASE Close(s) /\ UNCHANGED fault /\ (slot[s].evt \/ slot[s].ops)
  <2>1. slot[s].conn \in Conns
    BY <1>6 DEF IInv, Types, SlotInv, Shape
  <2>2. /\ slot'[s] = Zero /\ age'[s] = Never /\ lag'[s] = 0
        /\ \A u \in Clients \ {s} : /\ slot'[u] = slot[u] /\ age'[u] = age[u]
                                    /\ rest'[u] = rest[u] /\ lag'[u] = lag[u]
        /\ closed' = closed \cup {slot[s].conn}
    BY <1>6 DEF Close, TimeInv, TypeOK
  <2>3. \A u \in Clients : 0 <= age'[u]
    BY <1>3, <2>2, Numbers
  <2>4. LoopInv' /\ pos' \in Socks /\ at' \in {"enter", "select"}
    BY <1>1, <2>3, PreGoesOn
  <2>5. Watched'
    BY <1>1, <1>2, <2>2, <2>3, WatchedOn DEF TimeInv, Watched, Connected
  <2>6. ThreadInv'
    <3>1. \A t \in threads' : t.slot = s => ThreadOK(t)'
      BY <1>1, <2>2 DEF TimeInv, ThreadInv, ThreadOK
    <3> QED
      BY <1>1, <2>2, <3>1, ThreadsKept
  <2>7. TypeOK'
    <3>1. /\ slot' \in [Clients -> Slot] /\ age' \in [Clients -> -MaxPass..Never]
          /\ rest' \in [Clients -> 0..Never] /\ lag' \in [Clients -> 0..MaxPass]
      <4>1. Never \in -MaxPass..Never /\ Never \in 0..Never /\ 0 \in 0..MaxPass
        BY Numbers
      <4> QED
        BY <1>6, <4>1, ZeroTyped DEF Close, TimeInv, TypeOK
    <3> QED
      BY <1>1, <1>4, <1>6, <2>1, <2>2, <2>4, <3>1 DEF TimeInv, TypeOK
  <2>8. SlotsOK'
    <3>1. elapsed' \in Nat
      BY <1>1, Typed
    <3> QED
      BY <1>1, <2>2, <3>1, ZeroOK, SlotChange
  <2> QED
    BY <2>4, <2>5, <2>6, <2>7, <2>8 DEF TimeInv
<1> QED
  BY <1>1, <1>5, <1>6 DEF OnClose

\* on_connect the first time, and what the session waits for (worker.c:60-77).
LEMMA WatchTime ==
  ASSUME IInv, TimeInv, PreWatch, NEW s \in Clients, s = pos PROVE TimeInv'
<1>1. /\ at = "watch" /\ PreNext /\ Pre
      /\ UNCHANGED <<age, threads, closed, elapsed, shutdown, rest, lag, fault>>
      /\ UNCHANGED <<queue, away, unread, left, sends>>
  BY DEF PreWatch, AtClient, Pre, Visiting, peers
<1>2. slot[s] \in Slot /\ SlotOK(s) /\ TimeOK(s)
  BY DEF TimeInv, TypeOK, SlotsOK
<1>3. PICK r \in Slot : /\ slot' = [slot EXCEPT ![s] = r]
                        /\ slot[s].flags \subseteq r.flags
                        /\ r.flags \subseteq slot[s].flags \cup {"CONNECTED"}
                        /\ r.conn = slot[s].conn
                        /\ (r.connect <=> slot[s].connect) /\ (r.ops <=> slot[s].ops)
                        /\ (r.evt <=> slot[s].evt)
                        /\ IF slot[s].evt THEN r.user /\ "CONNECTED" \in r.flags
                                         ELSE r = slot[s]
  <2>1. CASE ~Here.evt
    <3>1. slot' = [slot EXCEPT ![s] = slot[s]] /\ ~slot[s].evt
      BY <2>1 DEF PreWatch, Here, TimeInv, TypeOK
    <3> QED
      BY <1>2, <3>1
  <2>2. CASE Here.evt
    <3> DEFINE r == [slot[s] EXCEPT !.flags = @ \cup {"CONNECTED"}, !.user = TRUE]
    <3>1. slot' = [slot EXCEPT ![s] = r] /\ slot[s].evt
      BY <2>2 DEF PreWatch, Here, TimeInv, TypeOK
    <3>2. /\ r \in Slot /\ r.flags = slot[s].flags \cup {"CONNECTED"}
          /\ r.conn = slot[s].conn
          /\ r.user /\ (r.connect <=> slot[s].connect) /\ (r.ops <=> slot[s].ops)
          /\ (r.evt <=> slot[s].evt)
      BY <1>2 DEF Slot
    <3> HIDE DEF r
    <3> QED
      BY <3>1, <3>2
  <2> QED
    BY <2>1, <2>2
<1>4. slot'[s] = r /\ \A u \in Clients \ {s} : slot'[u] = slot[u]
  BY <1>3 DEF TimeInv, TypeOK
<1>5. /\ rfds' \subseteq rfds \cup {s} /\ wfds' \subseteq wfds \cup {s}
      /\ slot[s].evt \/ (rfds' = rfds /\ wfds' = wfds)
  BY DEF PreWatch, Here
<1>6. InUse(s)' <=> InUse(s)
  BY <1>3, <1>4 DEF InUse
<1>7. \A u \in Clients : 0 <= age'[u]
  BY <1>1 DEF TimeInv, LoopInv
<1>8. LoopInv' /\ pos' \in Socks /\ at' \in {"enter", "select"}
  BY <1>1, <1>7, PreGoesOn
<1>9. Watched'
  <2>1. \A u \in (rfds' \cup wfds') \cap Clients :
          Connected(u)' /\ (u \in rfds \cup wfds \/ u = pos)
    BY <1>3, <1>4, <1>5 DEF TimeInv, Watched, Connected
  <2> QED
    BY <1>1, <1>7, <2>1, WatchedOn
<1>10. ThreadInv'
  <2>1. \A t \in threads' : t.slot = s => ThreadOK(t)'
    BY <1>1, <1>3, <1>4 DEF TimeInv, ThreadInv, ThreadOK
  <2> QED
    BY <1>1, <1>4, <2>1, ThreadsKept
<1>11. TypeOK'
  <2>1. rfds' \subseteq Socks /\ wfds' \subseteq Clients
    BY <1>5, Numbers DEF TimeInv, TypeOK
  <2>2. slot' \in [Clients -> Slot]
    BY <1>3 DEF TimeInv, TypeOK
  <2>3. served' \subseteq Clients /\ torn' \in BOOLEAN
    BY <1>1 DEF PreNext, TimeInv, TypeOK
  <2> QED
    BY <1>1, <1>8, <2>1, <2>2, <2>3 DEF TimeInv, TypeOK
<1>12. SlotOK(s)'
  BY <1>2, <1>3, <1>4, <1>6 DEF SlotOK, Connected
<1>13. TimeOK(s)'
  BY <1>1, <1>2, <1>3, <1>4, <1>6 DEF TimeOK, Time
<1>14. SlotsOK'
  BY <1>1, <1>4, <1>12, <1>13, SlotChange
<1> QED
  BY <1>8, <1>9, <1>10, <1>11, <1>14 DEF TimeInv

\* What do_read and do_write do to the slot of a session (worker.c:80-93).
LEMMA ServeTime ==
  ASSUME TimeInv, PostRead \/ PostWrite, NEW s \in Clients, s = pos PROVE TimeInv'
<1>1. /\ at = "post" /\ PostNext /\ Touch(s) /\ Connected(s)
      /\ UNCHANGED <<threads, closed, elapsed, rfds, wfds, shutdown, fault>>
      /\ UNCHANGED <<queue, away, left, sends>>
      /\ unread' \subseteq unread
  BY DEF PostRead, PostWrite, peers
<1>2. slot[s] \in Slot /\ SlotOK(s) /\ slot[s].user
  BY <1>1 DEF TimeInv, TypeOK, SlotsOK, SlotOK
<1>3. PICK r \in Slot : /\ slot' = [slot EXCEPT ![s] = r]
                        /\ slot[s].flags \subseteq r.flags
                        /\ r.flags \subseteq slot[s].flags \cup {"PEND_CLOSE"}
                        /\ r.conn = slot[s].conn /\ (r.user <=> slot[s].user)
                        /\ (r.evt <=> slot[s].evt) /\ (r.ops <=> slot[s].ops)
                        /\ (r.connect <=> slot[s].connect)
  <2>1. CASE \E n \in 0..MaxWrites : slot' = [slot EXCEPT ![s].writes = n]
    <3>1. PICK n \in 0..MaxWrites : slot' = [slot EXCEPT ![s].writes = n]
      BY <2>1
    <3> DEFINE r == [slot[s] EXCEPT !.writes = n]
    <3>2. slot' = [slot EXCEPT ![s] = r]
      BY <3>1 DEF TimeInv, TypeOK
    <3>3. r \in Slot /\ r.flags = slot[s].flags /\ r.conn = slot[s].conn
          /\ (r.user <=> slot[s].user) /\ (r.evt <=> slot[s].evt)
          /\ (r.ops <=> slot[s].ops) /\ (r.connect <=> slot[s].connect)
      BY <1>2 DEF Slot
    <3> HIDE DEF r
    <3> QED
      BY <3>2, <3>3
  <2>2. CASE slot' = Mark(s)
    <3> DEFINE r == [slot[s] EXCEPT !.flags = @ \cup {"PEND_CLOSE"}]
    <3>1. slot' = [slot EXCEPT ![s] = r]
      BY <2>2 DEF Mark, TimeInv, TypeOK
    <3>2. r \in Slot /\ r.flags = slot[s].flags \cup {"PEND_CLOSE"} /\ r.conn = slot[s].conn
          /\ (r.user <=> slot[s].user) /\ (r.evt <=> slot[s].evt)
          /\ (r.ops <=> slot[s].ops) /\ (r.connect <=> slot[s].connect)
      BY <1>2 DEF Slot
    <3> HIDE DEF r
    <3> QED
      BY <3>1, <3>2
  <2>3. CASE slot' = slot
    <3>1. slot' = [slot EXCEPT ![s] = slot[s]]
      BY <2>3 DEF TimeInv, TypeOK
    <3> QED
      BY <1>2, <3>1
  <2>4. CASE slot' = [Mark(s) EXCEPT ![s].writes = 0]
    <3> DEFINE q == [slot[s] EXCEPT !.flags = @ \cup {"PEND_CLOSE"}]
               r == [q EXCEPT !.writes = 0]
    <3>1. slot' = [slot EXCEPT ![s] = r]
      BY <2>4 DEF Mark, TimeInv, TypeOK
    <3>2. q \in Slot /\ q.flags = slot[s].flags \cup {"PEND_CLOSE"} /\ q.conn = slot[s].conn
          /\ (q.user <=> slot[s].user) /\ (q.evt <=> slot[s].evt)
          /\ (q.ops <=> slot[s].ops) /\ (q.connect <=> slot[s].connect)
      BY <1>2 DEF Slot
    <3> HIDE DEF q
    <3>3. r \in Slot /\ r.flags = q.flags /\ r.conn = q.conn
          /\ (r.user <=> q.user) /\ (r.evt <=> q.evt)
          /\ (r.ops <=> q.ops) /\ (r.connect <=> q.connect)
      BY <3>2, WorkerConstants DEF Slot
    <3> HIDE DEF r
    <3> QED
      BY <3>1, <3>2, <3>3
  <2>5. CASE PostRead
    BY <2>1, <2>2, <2>3, <2>5 DEF PostRead
  <2>6. CASE PostWrite
    <3>1. slot[s].writes \in 0..MaxWrites
      BY <1>2 DEF Slot
    <3>2. \A n \in 0..(slot[s].writes - 1) : n \in 0..MaxWrites
      BY <3>1, WorkerConstants
    <3> QED
      BY <2>1, <2>4, <2>6, <3>2 DEF PostWrite, Here
  <2> QED
    BY <2>5, <2>6
<1>4. /\ slot'[s] = r /\ age'[s] = 0 /\ rest'[s] = 0 /\ lag'[s] = elapsed
      /\ \A u \in Clients \ {s} : /\ slot'[u] = slot[u] /\ age'[u] = age[u]
                                  /\ rest'[u] = rest[u] /\ lag'[u] = lag[u]
      /\ torn' = torn /\ served' = served \cup {s}
  BY <1>1, <1>3 DEF Touch, TimeInv, TypeOK
<1>5. \A u \in Clients : (InUse(u)' <=> InUse(u)) /\ (Connected(u)' <=> Connected(u))
  BY <1>3, <1>4 DEF InUse, Connected
<1>6. LoopInv' /\ pos' \in Socks /\ at' \in {"post", "begin", "ended"}
  BY <1>1, <1>4, PostGoesOn
<1>7. Watched'
  BY <1>1, <1>4, <1>5, WatchedPost DEF TimeInv, Watched
<1>8. ThreadInv'
  <2>1. \A t \in threads' : t.slot = s => ThreadOK(t)'
    BY <1>1, <1>3, <1>4 DEF TimeInv, ThreadInv, ThreadOK
  <2> QED
    BY <1>1, <1>4, <2>1, ThreadsKept
<1>9. TypeOK'
  <2>1. age' \in [Clients -> -MaxPass..Never] /\ rest' \in [Clients -> 0..Never]
        /\ lag' \in [Clients -> 0..MaxPass]
    <3>1. 0 \in -MaxPass..Never /\ 0 \in 0..Never /\ elapsed \in 0..MaxPass
      BY Numbers, Typed
    <3> QED
      BY <1>1, <3>1 DEF Touch, TimeInv, TypeOK
  <2>2. slot' \in [Clients -> Slot]
    BY <1>3 DEF TimeInv, TypeOK
  <2> QED
    BY <1>1, <1>4, <1>6, <2>1, <2>2 DEF TimeInv, TypeOK
<1>10. SlotOK(s)'
  BY <1>2, <1>3, <1>4, <1>5 DEF SlotOK, Connected
<1>11. TimeOK(s)'
  <2>1. PICK e \in Nat : e = elapsed
    BY Typed
  <2>2. Time(s)' = e
    <3>1. Time(s)' = 0 + e
      BY <1>1, <1>4, <2>1 DEF Time
    <3> QED
      BY <3>1
  <2>3. Capped(e) <= 0 + e
    BY Caps
  <2> QED
    BY <1>2, <1>3, <1>4, <2>1, <2>2, <2>3 DEF TimeOK
<1>12. SlotsOK'
  BY <1>1, <1>4, <1>10, <1>11, SlotChange
<1> QED
  BY <1>6, <1>7, <1>8, <1>9, <1>12 DEF TimeInv

\* The slot of a connection that was just accepted, as the types go.
LEMMA FreshTyped ==
  ASSUME NEW c \in Conns,
         NEW r, r = [Zero EXCEPT !.flags = {"INUSE"}, !.connect = TRUE, !.conn = c]
  PROVE  /\ r \in Slot /\ r.flags = {"INUSE"} /\ r.connect = TRUE
         /\ r.user = FALSE /\ r.evt = FALSE /\ r.ops = FALSE
<1> DEFINE p == [Zero EXCEPT !.flags = {"INUSE"}]
           q == [p EXCEPT !.connect = TRUE]
<1>1. Zero \in Slot /\ Zero.evt = FALSE /\ Zero.ops = FALSE /\ Zero.user = FALSE
  BY ZeroTyped
<1>2. p \in Slot /\ p.flags = {"INUSE"} /\ p.evt = FALSE /\ p.ops = FALSE /\ p.user = FALSE
  BY <1>1 DEF Slot
<1> HIDE DEF p
<1>3. /\ q \in Slot /\ q.flags = {"INUSE"} /\ q.connect = TRUE
      /\ q.evt = FALSE /\ q.ops = FALSE /\ q.user = FALSE
  BY <1>2 DEF Slot
<1>4. r = [q EXCEPT !.conn = c]
  BY DEF p
<1> HIDE DEF q
<1> QED
  BY <1>3, <1>4 DEF Slot

\* An accepted connection is of this moment, later than the `now` of the pass; a slot
\* whose accept failed stays free (listener.c:115-171).
LEMMA AcceptTime ==
  ASSUME TimeInv, AcceptConn \/ AcceptFails PROVE TimeInv'
<1>1. /\ at = "post" /\ PostNext /\ pos \in rfds \cap Listeners /\ pos \notin Clients
      /\ UNCHANGED <<threads, closed, elapsed, rfds, wfds, shutdown, fault>>
      /\ UNCHANGED <<away, unread, left, sends, lag, torn, served>>
  BY DEF AcceptConn, AcceptFails, Accepting, history, Clients
<1>2. PICK s \in Clients : s = FirstOf(FreeSlots(pos)) /\ ~InUse(s)
  BY FirstFree DEF AcceptConn, AcceptFails, Accepting, FreeSlots
<1>3. SlotOK(s) /\ TimeOK(s)
  BY DEF TimeInv, SlotsOK
<1>4. ~slot[s].user /\ ~slot[s].ops /\ lag[s] = 0 /\ ~Connected(s)
  BY <1>2, <1>3 DEF SlotOK, TimeOK
<1>5. queue' \in [Listeners -> Seq(Conns)] /\ queue[pos] \in Seq(Conns) /\ queue[pos] # <<>>
  <2>1. queue[pos] \in Seq(Conns) /\ queue[pos] # <<>>
    BY <1>1 DEF AcceptConn, AcceptFails, TimeInv, TypeOK
  <2>2. Tail(queue[pos]) \in Seq(Conns)
    BY <2>1
  <2> QED
    BY <2>1, <2>2 DEF AcceptConn, AcceptFails, TimeInv, TypeOK
<1>6. PICK c \in Conns : c = Head(queue[pos])
  BY <1>5
<1> DEFINE new == [Zero EXCEPT !.flags = {"INUSE"}, !.connect = TRUE, !.conn = c]
<1>7. new \in Slot /\ new.flags = {"INUSE"} /\ new.connect = TRUE
      /\ new.user = FALSE /\ new.evt = FALSE /\ new.ops = FALSE
  BY FreshTyped
<1> HIDE DEF new
<1>8. PICK r \in Slot, a \in -MaxPass..Never, h \in 0..Never :
         /\ slot' = [slot EXCEPT ![s] = r] /\ age' = [age EXCEPT ![s] = a]
         /\ rest' = [rest EXCEPT ![s] = h]
         /\ \/ r = new /\ a = -elapsed /\ h = 0
            \/ r = Zero /\ a = Never
  <2>1. CASE AcceptConn
    <3>1. -elapsed \in -MaxPass..Never /\ 0 \in 0..Never
      BY Numbers, Typed
    <3> QED
      BY <1>2, <1>6, <1>7, <2>1, <3>1 DEF AcceptConn, AcceptAge, new
  <2>2. CASE AcceptFails
    <3>1. rest' = [rest EXCEPT ![s] = rest[s]] /\ rest[s] \in 0..Never
      BY <2>2 DEF AcceptFails, history, TimeInv, TypeOK
    <3>2. Never \in -MaxPass..Never
      BY Numbers
    <3> QED
      BY <1>2, <2>2, <3>1, <3>2, ZeroTyped DEF AcceptFails
  <2> QED
    BY <2>1, <2>2
<1>9. /\ slot'[s] = r /\ age'[s] = a /\ rest'[s] = h /\ lag'[s] = 0
      /\ \A u \in Clients \ {s} : /\ slot'[u] = slot[u] /\ age'[u] = age[u]
                                  /\ rest'[u] = rest[u] /\ lag'[u] = lag[u]
  BY <1>1, <1>4, <1>8 DEF TimeInv, TypeOK
<1>10. LoopInv' /\ pos' \in Socks /\ at' \in {"post", "begin", "ended"}
  BY <1>1, PostGoesOn
<1>11. Watched'
  <2>1. \A u \in (rfds \cup wfds) \cap Clients : Connected(u)'
    BY <1>4, <1>9 DEF TimeInv, Watched, Connected
  <2> QED
    BY <1>1, <2>1, WatchedPost
<1>12. ThreadInv'
  <2>1. \A t \in threads' : t.slot = s => ThreadOK(t)'
    BY <1>1, <1>4 DEF TimeInv, ThreadInv, ThreadOK
  <2> QED
    BY <1>1, <1>9, <2>1, ThreadsKept
<1>13. TypeOK'
  <2>1. /\ slot' \in [Clients -> Slot] /\ age' \in [Clients -> -MaxPass..Never]
        /\ rest' \in [Clients -> 0..Never]
    BY <1>8 DEF TimeInv, TypeOK
  <2> QED
    BY <1>1, <1>5, <1>10, <2>1 DEF TimeInv, TypeOK
<1>14. SlotOK(s)' /\ TimeOK(s)'
  <2>1. CASE r = new /\ a = -elapsed /\ h = 0
    <3>1. InUse(s)' /\ ~Connected(s)'
      BY <1>7, <1>9, <2>1 DEF InUse, Connected
    <3>2. SlotOK(s)'
      BY <1>7, <1>9, <2>1, <3>1 DEF SlotOK
    <3>3. Time(s)' = 0
      <4>1. PICK e \in Nat : e = elapsed
        BY Typed
      <4>2. Time(s)' = -e + e
        BY <1>1, <1>9, <2>1, <4>1 DEF Time
      <4> QED
        BY <4>2
    <3>4. Capped(0) <= 0 + 0
      BY Numbers DEF Capped
    <3>5. TimeOK(s)'
      BY <1>9, <2>1, <3>3, <3>4 DEF TimeOK
    <3> QED
      BY <3>2, <3>5
  <2>2. CASE r = Zero /\ a = Never
    <3>1. elapsed' \in Nat
      BY <1>1, Typed
    <3> QED
      BY <1>9, <2>2, <3>1, ZeroOK
  <2> QED
    BY <1>8, <2>1, <2>2
<1>15. SlotsOK'
  BY <1>1, <1>9, <1>14, SlotChange
<1> QED
  BY <1>10, <1>11, <1>12, <1>13, <1>15 DEF TimeInv

\* A handshake thread gives the slot its session or closes it, or finds it taken
\* (socket.c:218-248).
LEMMA HandshakeTime ==
  ASSUME IInv, TimeInv, NEW t \in threads, HandshakeOk(t) \/ HandshakeFails(t),
         NEW s \in Clients, s = t.slot
  PROVE  TimeInv'
<1>1. /\ threads' = threads \ {t}
      /\ UNCHANGED <<elapsed, at, pos, rfds, wfds, shutdown, served>>
      /\ UNCHANGED <<queue, away, unread, left, sends>>
  BY DEF HandshakeOk, HandshakeFails, loop, peers, history
<1>2. t.conn \in Conns /\ threads' \subseteq threads
  BY <1>1 DEF TimeInv, TypeOK
<1>3. CASE fault' = "stale_thread" /\ UNCHANGED <<slot, age, closed, rest, lag, torn>>
  <2>1. LoopInv' /\ Watched'
    BY <1>1, <1>3 DEF TimeInv, LoopInv, Watched, Pre, Visiting, Connected
  <2>2. ThreadInv'
    BY <1>2, <1>3 DEF TimeInv, ThreadInv, ThreadOK
  <2>3. SlotsOK'
    BY <1>1, <1>3 DEF TimeInv, SlotsOK, SlotOK, TimeOK, Time, InUse, Connected
  <2>4. TypeOK'
    BY <1>1, <1>2, <1>3 DEF TimeInv, TypeOK
  <2> QED
    BY <2>1, <2>2, <2>3, <2>4 DEF TimeInv
<1>4. CASE ~Stale(t)
  <2>1. slot[s].conn = t.conn /\ slot[s] \in Slot /\ SlotOK(s) /\ TimeOK(s) /\ ThreadOK(t)
    BY <1>4 DEF Stale, TimeInv, TypeOK, SlotsOK, ThreadInv
  <2>2. InUse(s) /\ t.conn \notin closed
    BY <1>2, <2>1, WorkerConstants DEF IInv, SlotInv, Apart
  <2>3. slot[s].ops /\ ~slot[s].evt /\ ~slot[s].user /\ ~Connected(s)
    BY <2>1, <2>2 DEF ThreadOK, SlotOK
  <2>4. ASSUME NEW v \in threads' PROVE v.slot = s => v.conn \in closed
    <3>1. v \in threads /\ v # t /\ ThreadOK(v)
      BY <1>1, <2>4 DEF TimeInv, ThreadInv
    <3> QED
      BY <2>1, <3>1 DEF ThreadOK, TimeInv, ThreadInv
  <2>5. CASE HandshakeOk(t)
    <3> DEFINE r == [slot[s] EXCEPT !.evt = TRUE]
    <3>1. /\ slot' = [slot EXCEPT ![s] = r]
          /\ UNCHANGED <<fault, age, closed, rest, lag, torn>>
      BY <1>4, <2>5 DEF HandshakeOk, history, TimeInv, TypeOK
    <3>2. /\ r \in Slot /\ r.flags = slot[s].flags /\ r.conn = slot[s].conn /\ r.evt
          /\ (r.user <=> slot[s].user) /\ (r.ops <=> slot[s].ops)
          /\ (r.connect <=> slot[s].connect)
      BY <2>1 DEF Slot
    <3> HIDE DEF r
    <3>3. slot'[s] = r /\ \A u \in Clients \ {s} : slot'[u] = slot[u]
      BY <3>1 DEF TimeInv, TypeOK
    <3>4. \A u \in Clients : (InUse(u)' <=> InUse(u)) /\ (Connected(u)' <=> Connected(u))
      BY <3>2, <3>3 DEF InUse, Connected
    <3>5. LoopInv'
      <4>1. ~(torn /\ pos = s)
        BY <2>3, ZeroTyped DEF TimeInv, LoopInv
      <4>2. ASSUME torn PROVE slot'[pos] = slot[pos]
        BY <3>3, <4>1, <4>2 DEF TimeInv, LoopInv
      <4>3. \A u \in Clients : slot'[u].ops <=> slot[u].ops
        BY <3>2, <3>3
      <4> QED
        BY <1>1, <3>1, <4>2, <4>3 DEF TimeInv, LoopInv, Pre, Visiting
    <3>6. Watched'
      BY <1>1, <3>4 DEF TimeInv, Watched, Pre, Visiting
    <3>7. ThreadInv'
      <4>1. \A v \in threads' : v.slot = s => ThreadOK(v)'
        BY <2>4, <3>1 DEF ThreadOK
      <4> QED
        BY <1>2, <3>1, <3>3, <4>1, ThreadsKept
    <3>8. TypeOK'
      <4>1. slot' \in [Clients -> Slot]
        BY <3>1, <3>2 DEF TimeInv, TypeOK
      <4> QED
        BY <1>1, <1>2, <3>1, <4>1 DEF TimeInv, TypeOK
    <3>9. SlotOK(s)' /\ TimeOK(s)'
      <4>1. SlotOK(s)'
        BY <2>1, <2>3, <3>2, <3>3, <3>4 DEF SlotOK
      <4>2. TimeOK(s)'
        BY <1>1, <2>1, <3>1, <3>2, <3>3, <3>4 DEF TimeOK, Time
      <4> QED
        BY <4>1, <4>2
    <3>10. SlotsOK'
      BY <1>1, <3>1, <3>3, <3>9, SlotChange
    <3> QED
      BY <3>5, <3>6, <3>7, <3>8, <3>10 DEF TimeInv
  <2>6. CASE HandshakeFails(t)
    <3>1. Close(s) /\ UNCHANGED fault /\ torn' = (torn \/ (Visiting /\ s = pos))
      BY <1>4, <2>6 DEF HandshakeFails
    <3>2. /\ slot'[s] = Zero /\ age'[s] = Never /\ lag'[s] = 0
          /\ \A u \in Clients \ {s} : /\ slot'[u] = slot[u] /\ age'[u] = age[u]
                                      /\ rest'[u] = rest[u] /\ lag'[u] = lag[u]
          /\ closed' = closed \cup {slot[s].conn}
      BY <3>1 DEF Close, TimeInv, TypeOK
    <3>3. LoopInv'
      <4>1. \A u \in Clients : 0 <= age[u] => 0 <= age'[u]
        BY <3>2, Numbers
      <4>2. Visiting => pos \in Clients
        BY DEF TimeInv, LoopInv
      <4>3. torn' => Visiting /\ slot'[pos] = Zero
        BY <3>1, <3>2, <4>2 DEF TimeInv, LoopInv
      <4>4. Visiting /\ ~torn' => ~torn /\ slot'[pos] = slot[pos] /\ age'[pos] = age[pos]
        BY <3>1, <3>2, <4>2
      <4>5. Visiting' = Visiting /\ Pre' = Pre
        BY <1>1 DEF Visiting, Pre
      <4> QED
        BY <1>1, <4>1, <4>2, <4>3, <4>4, <4>5 DEF TimeInv, LoopInv, Visiting
    <3>4. Watched'
      <4>1. \A u \in (rfds \cup wfds) \cap Clients : Connected(u)'
        BY <2>3, <3>2 DEF TimeInv, Watched, Connected
      <4> QED
        BY <1>1, <4>1 DEF TimeInv, Watched, Pre, Visiting
    <3>5. ThreadInv'
      <4>1. \A v \in threads' : v.slot = s => ThreadOK(v)'
        BY <2>4, <3>2 DEF ThreadOK
      <4> QED
        BY <1>2, <3>2, <4>1, ThreadsKept
    <3>6. TypeOK'
      <4>1. /\ slot' \in [Clients -> Slot] /\ age' \in [Clients -> -MaxPass..Never]
            /\ rest' \in [Clients -> 0..Never] /\ lag' \in [Clients -> 0..MaxPass]
        <5>1. Never \in -MaxPass..Never /\ Never \in 0..Never /\ 0 \in 0..MaxPass
          BY Numbers
        <5> QED
          BY <3>1, <5>1, ZeroTyped DEF Close, TimeInv, TypeOK
      <4>2. closed' \subseteq Conns /\ torn' \in BOOLEAN
        BY <1>2, <2>1, <3>1, <3>2 DEF TimeInv, TypeOK
      <4> QED
        BY <1>1, <1>2, <3>1, <4>1, <4>2 DEF TimeInv, TypeOK
    <3>7. SlotsOK'
      <4>1. elapsed' \in Nat
        BY <1>1, Typed
      <4> QED
        BY <1>1, <3>2, <4>1, ZeroOK, SlotChange
    <3> QED
      BY <3>3, <3>4, <3>5, <3>6, <3>7 DEF TimeInv
  <2> QED
    BY <2>5, <2>6
<1> QED
  BY <1>3, <1>4 DEF HandshakeOk, HandshakeFails, history

\* What the peers do is not seen before the next select, and takes no time.
LEMMA PeerTime ==
  ASSUME TimeInv, NEW c \in Conns, Dial(c) \/ Send(c) \/ Leave(c) PROVE TimeInv'
<1>1. /\ UNCHANGED <<slot, age, threads, closed, elapsed, at, pos, rfds, wfds, fault>>
      /\ UNCHANGED <<shutdown, rest, lag, torn, served>>
  BY DEF Dial, Send, Leave, sockets, loop, history
<1>2. TypeOK'
  <2>1. CASE Dial(c)
    <3>1. PICK l \in Listeners : queue' = [queue EXCEPT ![l] = Append(@, c)]
      BY <2>1 DEF Dial
    <3>2. queue' \in [Listeners -> Seq(Conns)]
      BY <3>1 DEF TimeInv, TypeOK
    <3> QED
      BY <1>1, <2>1, <3>2 DEF Dial, TimeInv, TypeOK
  <2>2. CASE Send(c)
    <3>1. sends[c] + 1 \in 0..MaxSends
      BY <2>2, WorkerConstants DEF Send, TimeInv, TypeOK
    <3>2. sends' \in [Conns -> 0..MaxSends]
      BY <2>2, <3>1 DEF Send, TimeInv, TypeOK
    <3> QED
      BY <1>1, <2>2, <3>2 DEF Send, TimeInv, TypeOK
  <2>3. CASE Leave(c)
    BY <1>1, <2>3 DEF Leave, TimeInv, TypeOK
  <2> QED
    BY <2>1, <2>2, <2>3
<1>3. LoopInv' /\ Watched'
  BY <1>1 DEF TimeInv, LoopInv, Watched, Pre, Visiting, Connected
<1>4. ThreadInv'
  BY <1>1 DEF TimeInv, ThreadInv, ThreadOK
<1>5. SlotsOK'
  BY <1>1 DEF TimeInv, SlotsOK, SlotOK, TimeOK, Time, InUse, Connected
<1> QED
  BY <1>2, <1>3, <1>4, <1>5 DEF TimeInv

\* Time passes wherever the worker is.
LEMMA TickTime == ASSUME TimeInv, Tick PROVE TimeInv'
<1>1. /\ elapsed' = elapsed + 1 /\ elapsed < MaxPass
      /\ rest' = [s \in Clients |-> Capped(rest[s] + 1)]
      /\ UNCHANGED <<slot, age, threads, closed, at, pos, rfds, wfds, shutdown, fault>>
      /\ UNCHANGED <<queue, away, unread, left, sends, lag, torn, served>>
  BY DEF Tick, sockets, peers
<1>2. \A s \in Clients : /\ rest'[s] = Capped(rest[s] + 1) /\ rest'[s] \in 0..Never
                         /\ rest'[s] = rest[s] + 1 \/ rest'[s] = Never
  BY <1>1, Typed, Numbers DEF Capped
<1>3. TypeOK'
  <2>1. rest' \in [Clients -> 0..Never]
    BY <1>1, <1>2
  <2>2. elapsed' \in 0..MaxPass
    BY <1>1, Typed, Numbers
  <2> QED
    BY <1>1, <2>1, <2>2 DEF TimeInv, TypeOK
<1>4. LoopInv' /\ Watched'
  BY <1>1 DEF TimeInv, LoopInv, Watched, Pre, Visiting, Connected
<1>5. ThreadInv'
  BY <1>1 DEF TimeInv, ThreadInv, ThreadOK
<1>6. ASSUME NEW s \in Clients PROVE SlotOK(s)' /\ TimeOK(s)'
  <2>1. SlotOK(s) /\ TimeOK(s)
    BY DEF TimeInv, SlotsOK
  <2>2. (InUse(s)' <=> InUse(s)) /\ (Connected(s)' <=> Connected(s))
    BY <1>1 DEF InUse, Connected
  <2>3. Time(s) \in Int /\ 0 <= Time(s)
    BY <2>1, Typed DEF TimeOK, Time
  <2>4. Time(s)' = Time(s) + 1
    <3>1. PICK e \in Nat, a \in Int : e = elapsed /\ a = age[s]
      BY Typed
    <3>2. Time(s)' = a + (e + 1) /\ Time(s) = a + e
      BY <1>1, <3>1 DEF Time
    <3> QED
      BY <3>2
  <2>5. /\ Capped(Time(s) + 1) <= Capped(Time(s)) + 1 /\ Capped(Time(s)) \in Nat
        /\ Capped(Time(s) + 1) <= Never /\ Capped(Time(s) + 1) \in Int
    BY <2>3, Caps, Numbers DEF Capped
  <2>6. InUse(s) => Capped(Time(s) + 1) <= rest'[s] + lag[s]
    <3> SUFFICES ASSUME InUse(s) PROVE Capped(Time(s) + 1) <= rest'[s] + lag[s]
      OBVIOUS
    <3>1. Capped(Time(s)) <= rest[s] + lag[s]
      BY <2>1 DEF TimeOK
    <3>2. PICK x \in Int, y \in Nat : x = Capped(Time(s) + 1) /\ y = Capped(Time(s))
      BY <2>5
    <3>3. rest[s] \in Nat /\ lag[s] \in Nat /\ (rest'[s] = rest[s] + 1 \/ rest'[s] = Never)
      BY <1>2, Typed
    <3>4. x <= y + 1 /\ x <= Never /\ y <= rest[s] + lag[s]
      BY <2>5, <3>1, <3>2
    <3>5. x <= rest'[s] + lag[s]
      BY <3>3, <3>4, Numbers
    <3> QED
      BY <3>2, <3>5
  <2>7. SlotOK(s)'
    BY <1>1, <2>1, <2>2 DEF SlotOK
  <2>8. 0 <= Time(s)'
    BY <2>3, <2>4
  <2>9. TimeOK(s)'
    BY <1>1, <2>1, <2>2, <2>4, <2>6, <2>8 DEF TimeOK
  <2> QED
    BY <2>7, <2>9
<1> QED
  BY <1>3, <1>4, <1>5, <1>6 DEF TimeInv, SlotsOK

LEMMA TimeInit == Init => TimeInv
<1> SUFFICES ASSUME Init PROVE TimeInv
  OBVIOUS
<1>1. /\ at = "begin" /\ pos = 1 /\ elapsed = 0 /\ rfds = {} /\ wfds = {} /\ threads = {}
      /\ ~torn
      /\ \A s \in Clients : /\ slot[s] = Zero /\ age[s] = Never /\ rest[s] = Never
                            /\ lag[s] = 0
  BY DEF Init
<1>2. TypeOK
  <2>1. \A l \in Listeners : queue[l] = <<>>
    BY DEF Init
  <2>2. /\ slot \in [Clients -> Slot] /\ age \in [Clients -> -MaxPass..Never]
        /\ rest \in [Clients -> 0..Never] /\ lag \in [Clients -> 0..MaxPass]
        /\ queue \in [Listeners -> Seq(Conns)]
        /\ sends \in [Conns -> 0..MaxSends]
    BY Numbers, ZeroTyped, WorkerConstants DEF Init
  <2>3. /\ shutdown = FALSE /\ served = {} /\ unread = {} /\ left = {} /\ closed = {}
        /\ torn = FALSE /\ away = Conns /\ fault = "none" /\ 0 \in 0..MaxPass
    BY Numbers DEF Init
  <2>4. /\ elapsed \in 0..MaxPass /\ pos \in Socks /\ rfds \subseteq Socks
        /\ wfds \subseteq Clients /\ threads \subseteq [slot : Clients, conn : Conns]
        /\ at = "begin" /\ shutdown \in BOOLEAN /\ torn \in BOOLEAN
        /\ away \subseteq Conns /\ unread \subseteq Conns /\ left \subseteq Conns
        /\ closed \subseteq Conns /\ served \subseteq Clients /\ fault = "none"
    BY <1>1, <2>3, SocksNat
  <2> QED
    BY <2>2, <2>4 DEF TypeOK
<1>3. LoopInv /\ ThreadInv /\ Watched
  BY <1>1 DEF LoopInv, ThreadInv, Watched, Pre, Visiting
<1>4. ASSUME NEW s \in Clients PROVE SlotOK(s) /\ TimeOK(s)
  <2>1. ~InUse(s) /\ ~Connected(s)
    BY <1>1, ZeroTyped DEF InUse, Connected
  <2>2. 0 <= Time(s)
    BY <1>1, Numbers DEF Time
  <2> QED
    BY <1>1, <2>1, <2>2, ZeroTyped DEF SlotOK, TimeOK
<1> QED
  BY <1>2, <1>3, <1>4 DEF TimeInv, SlotsOK

LEMMA TimeNext == ASSUME IInv, TimeInv, [Next]_vars PROVE TimeInv'
<1>1. CASE LoopBegin \/ PreListener \/ PreUnused \/ PreTimed \/ PreCompare \/ PreStay
           \/ Select \/ SelectFails \/ PostQuiet \/ AcceptNone
  BY <1>1, BeginTime, PassOverTime, TestTime, SelectTime, QuietTime
<1>2. CASE PreConnect
  BY <1>2, ConnectTime DEF PreConnect, AtClient
<1>3. CASE PreClose
  BY <1>3, CloseTime DEF PreClose, AtClient
<1>4. CASE PreWatch
  BY <1>4, WatchTime DEF PreWatch, AtClient
<1>5. CASE PostRead \/ PostWrite
  BY <1>5, ServeTime DEF PostRead, PostWrite
<1>6. CASE AcceptConn \/ AcceptFails
  BY <1>6, AcceptTime
<1>7. CASE ThreadStep
  <2>1. PICK t \in threads : HandshakeOk(t) \/ HandshakeFails(t)
    BY <1>7 DEF ThreadStep
  <2>2. t.slot \in Clients
    BY DEF TimeInv, TypeOK
  <2> QED
    BY <2>1, <2>2, HandshakeTime
<1>8. CASE PeerStep
  BY <1>8, PeerTime DEF PeerStep
<1>9. CASE Tick
  BY <1>9, TickTime
<1>10. CASE AcceptWaits \/ Stopped \/ UNCHANGED vars
  <2>1. /\ UNCHANGED <<sockets, peers, rest, lag, torn, served, fault, elapsed, at, pos>>
        /\ UNCHANGED <<rfds, wfds, shutdown, slot, age>>
    BY <1>10 DEF AcceptWaits, Stopped, vars, loop, history, sockets
  <2>2. LoopInv' /\ Watched'
    BY <2>1 DEF TimeInv, LoopInv, Watched, Pre, Visiting, Connected
  <2>3. /\ pos' \in Socks /\ rfds' \subseteq Socks /\ wfds' \subseteq Clients
        /\ served' \subseteq Clients /\ torn' \in BOOLEAN /\ shutdown' \in BOOLEAN
        /\ at' \in {"enter", "timed", "compare", "expired", "pend", "watch", "select",
                    "post", "begin", "ended"}
    BY <2>1 DEF TimeInv, TypeOK
  <2> QED
    BY <2>1, <2>2, <2>3, LoopOnly
<1> QED
  BY <1>1, <1>2, <1>3, <1>4, <1>5, <1>6, <1>7, <1>8, <1>9, <1>10 DEF Next, WorkerStep

LEMMA Always == Spec => [](IInv /\ TimeInv)
<1>1. Init => IInv /\ TimeInv
  BY InvInit, TimeInit
<1>2. IInv /\ TimeInv /\ [Next]_vars => IInv' /\ TimeInv'
  BY InvNext, TimeNext
<1> QED
  BY <1>1, <1>2, PTL DEF Spec

\* The state keeps its types: no age, no lag and no queue leaves its range, with time
\* passing anywhere and handshakes of any length (worker.c, listener.c, socket.c).
THEOREM TypesKept == Spec => []TypeOK
<1>1. TimeInv => TypeOK
  BY DEF TimeInv
<1> QED
  BY <1>1, Always, PTL

\* Of the connections not about to be closed anyway, the idle timeout closes only those
\* that were idle that long, up to the time that the pass which served them last had
\* taken by then: for passes, callbacks and handshakes of any length, and although
\* accept makes last_active later than the `now` of the pass (worker.c:39-50, 84,
\* listener.c:168).
THEOREM OnlyIdleTimesOut == Spec => TimeoutMeansIdle
<1>1. TimeInv =>
        (at = "expired" /\ at' # "expired" /\ InUse(pos) /\ "PEND_CLOSE" \notin Here.flags
           => rest[pos] + lag[pos] > IdleTimeout)
  <2> SUFFICES ASSUME TimeInv, at = "expired", InUse(pos)
               PROVE  rest[pos] + lag[pos] > IdleTimeout
    OBVIOUS
  <2>1. ~torn
    BY ZeroTyped DEF TimeInv, LoopInv, InUse
  <2> QED
    BY <2>1, Expired
<1> QED
  BY <1>1, Always, PTL DEF TimeoutMeansIdle

-----------------------------------------------------------------------------
(* What a fault needs.                                                     *)

\* OnClose finds a pointer missing only in a slot whose timeout has passed without a
\* session, or that a handshake has zeroed (worker.c:39-58).
LEMMA CloseFault ==
  ASSUME TimeInv, PreClose, fault' # fault
  PROVE  \/ fault' = "null_user" /\ rest[pos] > IdleTimeout
         \/ fault' = "null_ops" /\ torn
<1>1. /\ pos \in Clients /\ Visiting /\ OnClose(pos)
      /\ at = "expired" \/ (at = "pend" /\ "PEND_CLOSE" \in slot[pos].flags)
  BY DEF PreClose, AtClient, Visiting, Here
<1>2. SlotOK(pos) /\ (torn => slot[pos] = Zero) /\ (torn \/ slot[pos].ops)
  BY <1>1 DEF TimeInv, SlotsOK, LoopInv
<1>3. CASE slot[pos].evt /\ ~slot[pos].user
  <2>1. fault' = "null_user" /\ ~torn /\ at = "expired"
    BY <1>1, <1>2, <1>3, ZeroTyped DEF OnClose, SlotOK
  <2> QED
    BY <1>3, <2>1, Expired
<1>4. CASE ~slot[pos].evt /\ ~slot[pos].ops
  BY <1>1, <1>2, <1>4 DEF OnClose
<1> QED
  BY <1>1, <1>3, <1>4 DEF OnClose

\* A connection that pre_select closes under its handshake has timed out.
LEMMA CloseUnderHandshake ==
  ASSUME IInv, TimeInv, PreClose, NEW t \in threads, t.conn \in closed' \ closed
  PROVE  at = "expired" /\ t.slot = pos /\ rest[pos] > IdleTimeout
<1>1. /\ pos \in Clients /\ OnClose(pos)
      /\ at = "expired" \/ (at = "pend" /\ "PEND_CLOSE" \in slot[pos].flags)
  BY DEF PreClose, AtClient, Here
<1>2. t.conn = slot[pos].conn /\ t.slot \in Clients /\ t.conn \in Conns
  BY <1>1 DEF OnClose, Close, TimeInv, TypeOK
<1>3. slot[t.slot].conn = t.conn /\ slot[t.slot].ops /\ ~slot[t.slot].evt
  BY DEF TimeInv, ThreadInv, ThreadOK
<1>4. InUse(pos) /\ t.slot = pos
  BY <1>1, <1>2, <1>3, WorkerConstants DEF IInv, SlotInv, Apart
<1>5. SlotOK(pos) /\ ~slot[pos].user /\ at = "expired"
  BY <1>1, <1>3, <1>4 DEF TimeInv, SlotsOK, SlotOK
<1>6. ~torn
  BY <1>4, ZeroTyped DEF TimeInv, LoopInv, InUse
<1> QED
  BY <1>4, <1>5, <1>6, Expired

FaultStep ==
  /\ fault' # fault => CASE fault' = "null_user" -> rest[pos] > IdleTimeout
                         [] fault' = "null_ops"  -> torn
                         [] OTHER -> \E t \in threads : Stale(t) /\ t.conn \in closed
  /\ \A t \in threads' : t.conn \in closed' \ closed
       => at = "expired" /\ t.slot = pos /\ rest[pos] > IdleTimeout

LEMMA FaultsNext == ASSUME IInv, TimeInv, [Next]_vars PROVE FaultStep
<1>1. CASE UNCHANGED <<fault, closed>>
  BY <1>1 DEF FaultStep
<1>2. CASE PreClose
  <2>1. threads' = threads
    BY <1>2 DEF PreClose
  <2> QED
    BY <1>2, <2>1, CloseFault, CloseUnderHandshake DEF FaultStep
<1>3. ASSUME NEW t \in threads, HandshakeOk(t) \/ HandshakeFails(t) PROVE FaultStep
  <2>1. threads' = threads \ {t} /\ ThreadOK(t)
    BY <1>3 DEF HandshakeOk, HandshakeFails, TimeInv, ThreadInv
  <2>2. CASE Stale(t)
    <3>1. fault' = "stale_thread" /\ UNCHANGED closed
      BY <1>3, <2>2 DEF HandshakeOk, HandshakeFails
    <3>2. t.conn \in closed
      BY <2>1, <2>2 DEF ThreadOK, Stale
    <3> QED
      BY <2>2, <3>1, <3>2 DEF FaultStep
  <2>3. CASE ~Stale(t)
    <3>1. UNCHANGED fault /\ closed' \subseteq closed \cup {t.conn}
      BY <1>3, <2>3 DEF HandshakeOk, HandshakeFails, Close, Stale
    <3>2. \A v \in threads' : v.conn # t.conn
      BY <2>1 DEF TimeInv, ThreadInv
    <3> QED
      BY <3>1, <3>2 DEF FaultStep
  <2> QED
    BY <2>2, <2>3
<1>4. CASE WorkerStep /\ ~PreClose
  <2>1. UNCHANGED <<fault, closed>>
    BY <1>4 DEF WorkerStep, LoopBegin, PreListener, PreUnused, PreConnect, PreTimed,
       PreCompare, PreStay, Test, PreWatch, Select, SelectFails, PostQuiet, PostRead,
       PostWrite, AcceptNone, AcceptConn, AcceptFails, sockets
  <2> QED
    BY <1>1, <2>1
<1>5. CASE PeerStep \/ Tick \/ AcceptWaits \/ Stopped \/ UNCHANGED vars
  <2>1. UNCHANGED <<fault, closed>>
    BY <1>5 DEF PeerStep, Dial, Send, Leave, Tick, AcceptWaits, Stopped, vars, sockets
  <2> QED
    BY <1>1, <2>1
<1> QED
  BY <1>2, <1>3, <1>4, <1>5 DEF Next, ThreadStep

\* A NULL pointer is called, or a handshake thread touches a slot it has lost, only after
\* an idle timeout that came before on_connect or before the end of a handshake, or a
\* handshake that failed while pre_select was at its slot (worker.c:27-60,
\* socket.c:218-248).
THEOREM OnlyTheseFaults == Spec => FaultsHaveCause
<1>1. IInv /\ TimeInv /\ [Next]_vars => FaultStep
  BY FaultsNext
<1> QED
  BY <1>1, Always, PTL DEF Spec, FaultsHaveCause, FaultStep

-----------------------------------------------------------------------------
(* What a pass serves.                                                     *)

\* The last step of a pass leaves no reported socket unserved.
LEMMA PassEnds ==
  ASSUME TimeInv, [Next]_vars, at = "post", at' # "post"
  PROVE  (rfds \cup wfds) \cap Clients \subseteq served'
<1> SUFFICES ASSUME NEW s \in (rfds \cup wfds) \cap Clients PROVE s \in served'
  OBVIOUS
<1>1. Connected(s) /\ (s < pos => s \in served)
  BY DEF TimeInv, Watched
<1>2. CASE \/ PostQuiet \/ PostRead \/ PostWrite \/ AcceptNone \/ AcceptConn \/ AcceptFails
  <2>1. PostNext /\ served \subseteq served'
    BY <1>2 DEF PostQuiet, PostRead, PostWrite, AcceptNone, AcceptConn, AcceptFails,
       history, Touch
  <2>2. s <= pos
    BY <2>1, Typed, Numbers DEF PostNext, NextSock
  <2>3. CASE s < pos
    BY <1>1, <2>1, <2>3
  <2>4. CASE s = pos
    BY <1>1, <1>2, <2>4 DEF PostQuiet, PostRead, PostWrite, AcceptNone, AcceptConn,
       AcceptFails, Accepting, Reported, Touch, Clients
  <2> QED
    BY <2>2, <2>3, <2>4, Typed, Numbers
<1>3. CASE ThreadStep \/ PeerStep \/ Tick \/ AcceptWaits \/ Stopped \/ UNCHANGED vars
  <2>1. UNCHANGED at
    BY <1>3 DEF ThreadStep, HandshakeOk, HandshakeFails, PeerStep, Dial, Send, Leave,
       Tick, AcceptWaits, Stopped, vars, loop
  <2> QED
    BY <2>1
<1>4. CASE \/ LoopBegin \/ PreListener \/ PreUnused \/ PreConnect \/ PreTimed
           \/ PreCompare \/ PreStay \/ PreClose \/ PreWatch \/ Select \/ SelectFails
  BY <1>4 DEF LoopBegin, PreListener, PreUnused, PreConnect, PreTimed, PreCompare,
     PreStay, Test, PreClose, PreWatch, Select, SelectFails, AtClient
<1> QED
  BY <1>2, <1>3, <1>4 DEF Next, WorkerStep

\* A pass serves every socket select reported before the next one begins, wherever in
\* the pass sockets were accepted or closed, and when select failed every socket that is
\* watched (worker.c:79-93, 127-150).
THEOREM PassServesAll == Spec => ReportedIsServed
<1>1. IInv /\ TimeInv /\ [Next]_vars =>
        (at = "post" /\ at' # "post" => (rfds \cup wfds) \cap Clients \subseteq served')
  BY PassEnds
<1> QED
  BY <1>1, Always, PTL DEF Spec, ReportedIsServed

-----------------------------------------------------------------------------
(* A pass ends, however long callbacks take and handshakes live.            *)

\* How many steps of its own the worker has left in the pass: at most five for each
\* socket before select, and one for each after it.
Ahead ==
  CASE at = "enter" -> 5
    [] at = "timed" -> 4
    [] at = "compare" -> 3
    [] at \in {"expired", "pend"} -> 2
    [] OTHER -> 1
PassLeft ==
  CASE at \in {"begin", "ended"} -> 0
    [] at = "post" -> Last - pos + 1
    [] at = "select" -> Last + 1
    [] OTHER -> Last + 1 + 5 * (Last - pos) + Ahead

LEMMA PassLeftNat == ASSUME pos \in Socks 
  PROVE  PassLeft \in Nat /\ (at \notin {"begin", "ended"} => PassLeft > 0)
<1>1. Ahead \in 1..5
  BY DEF Ahead
<1>2. pos \in Nat /\ Last \in Nat /\ Last - pos \in Nat
  BY SocksNat DEF Socks
<1> QED
  BY <1>1, <1>2 DEF PassLeft

\* Going on to the next socket, or out of the loop, leaves less (worker.c:108-122, 136-150).
LEMMA NextSockLess ==
  ASSUME pos \in Socks, at \notin {"begin", "ended", "select"},
         \/ at # "post" /\ NextSock("enter", "select")
         \/ at = "post" /\ PostNext
  PROVE  PassLeft' < PassLeft
<1>1. Ahead \in 1..5
  BY DEF Ahead
<1>2. pos \in Nat /\ Last \in Nat /\ pos >= 1 /\ pos <= Last
  BY SocksNat DEF Socks
<1>3. CASE at = "post"
  <2>1. \/ pos < Last /\ at' = "post" /\ pos' = pos + 1
        \/ at' \in {"begin", "ended"}
    BY <1>3 DEF PostNext, NextSock, AfterPass
  <2> QED
    BY <1>2, <1>3, <2>1 DEF PassLeft
<1>4. CASE at # "post"
  <2>1. PassLeft = Last + 1 + 5 * (Last - pos) + Ahead
    BY <1>4 DEF PassLeft
  <2>2. CASE pos < Last
    <3>1. at' = "enter" /\ pos' = pos + 1
      BY <1>4, <2>2 DEF NextSock
    <3>2. Ahead' = 5
      BY <3>1 DEF Ahead
    <3>3. PassLeft' = Last + 1 + 5 * (Last - (pos + 1)) + 5
      BY <3>1, <3>2 DEF PassLeft
    <3> QED
      BY <1>1, <1>2, <2>1, <3>3
  <2>3. CASE ~(pos < Last)
    <3>1. at' = "select"
      BY <1>4, <2>3 DEF NextSock
    <3>2. PassLeft' = Last + 1
      BY <3>1 DEF PassLeft
    <3> QED
      BY <1>1, <1>2, <2>1, <3>2
  <2> QED
    BY <2>2, <2>3
<1> QED
  BY <1>3, <1>4

\* So does the next step at the same socket of pre_select.
LEMMA SameSockLess ==
  ASSUME pos \in Socks, pos' = pos,
         \/ at = "enter" /\ at' = "timed"
         \/ at = "timed" /\ at' \in {"compare", "pend"}
         \/ at = "compare" /\ at' \in {"expired", "pend"}
         \/ at = "pend" /\ at' = "watch"
  PROVE  PassLeft' < PassLeft
<1>1. Ahead \in Nat /\ Ahead' \in Nat /\ Ahead' < Ahead
  BY DEF Ahead
<1>2. /\ PassLeft = Last + 1 + 5 * (Last - pos) + Ahead
      /\ PassLeft' = Last + 1 + 5 * (Last - pos) + Ahead'
  BY DEF PassLeft
<1>3. Last + 1 + 5 * (Last - pos) \in Int
  BY SocksNat DEF Socks
<1> QED
  BY ONLY <1>1, <1>2, <1>3, SMT

LEMMA StepLess ==
  ASSUME pos \in Socks, WorkerStep, at # "begin" PROVE PassLeft' < PassLeft
<1>1. CASE PreListener \/ PreUnused \/ PreClose \/ PreWatch
  <2>1. at \in {"enter", "expired", "pend", "watch"} /\ NextSock("enter", "select")
    BY <1>1 DEF PreListener, PreUnused, PreClose, PreWatch, PreNext, AtClient
  <2> QED
    BY <2>1, NextSockLess
<1>2. CASE PreConnect
  BY <1>2, SameSockLess DEF PreConnect, AtClient
<1>3. CASE PreTimed \/ PreCompare
  BY <1>3, SameSockLess DEF PreTimed, PreCompare, Test, AtClient
<1>4. CASE PreStay
  BY <1>4, SameSockLess DEF PreStay, Test, AtClient
<1>5. CASE Select \/ SelectFails
  <2>1. pos' = pos /\ at = "select" /\ at' \in {"post", "begin"}
    BY <1>5 DEF Select, SelectFails
  <2>2. pos \in Nat /\ Last \in Nat /\ pos >= 1
    BY SocksNat DEF Socks
  <2>3. PassLeft = Last + 1
    BY <2>1 DEF PassLeft
  <2>4. PassLeft' \in {0, Last - pos + 1}
    BY <2>1 DEF PassLeft
  <2> QED
    BY <2>2, <2>3, <2>4
<1>6. CASE PostQuiet \/ PostRead \/ PostWrite \/ AcceptNone \/ AcceptConn \/ AcceptFails
  BY <1>6, NextSockLess DEF PostQuiet, PostRead, PostWrite, AcceptNone, AcceptConn,
     AcceptFails, Accepting
<1>7. CASE LoopBegin
  BY <1>7 DEF LoopBegin
<1> QED
  BY <1>1, <1>2, <1>3, <1>4, <1>5, <1>6, <1>7 DEF WorkerStep

\* Every step of the worker begins a pass or brings it nearer to its end, and no handshake
\* thread, peer or tick takes it back, also when a thread zeroes the slot that pre_select is
\* at or select fails: no pass goes on for ever (worker.c:95-152).
THEOREM PassRunsOut ==
  Spec => /\ [](PassLeft \in Nat /\ (PassLeft = 0 <=> at \in {"begin", "ended"}))
          /\ [][WorkerStep => at = "begin" \/ PassLeft' < PassLeft]_vars
          /\ [][WorkerStep \/ UNCHANGED PassLeft]_vars
<1>1. IInv => PassLeft \in Nat /\ (PassLeft = 0 <=> at \in {"begin", "ended"})
  BY PassLeftNat DEF IInv, Types, PassLeft
<1>2. IInv /\ [Next]_vars => [WorkerStep => at = "begin" \/ PassLeft' < PassLeft]_vars
  BY StepLess DEF IInv, Types
<1>3. IInv /\ [Next]_vars => [WorkerStep \/ UNCHANGED PassLeft]_vars
  <2> SUFFICES ASSUME Next PROVE WorkerStep \/ UNCHANGED PassLeft
    BY Zenon
  <2>1. CASE ThreadStep \/ PeerStep \/ Tick \/ AcceptWaits \/ Stopped
    <3>1. UNCHANGED <<at, pos>>
      BY <2>1 DEF ThreadStep, HandshakeOk, HandshakeFails, PeerStep, Dial, Send, Leave,
         Tick, AcceptWaits, Stopped, vars, loop
    <3> QED
      BY <3>1 DEF PassLeft, Ahead
  <2> QED
    BY <2>1 DEF Next
<1> QED
  BY <1>1, <1>2, <1>3, Always, PTL DEF Spec
=============================================================================
