------------------------------- MODULE Worker --------------------------------
(***************************************************************************)
(* The worker thread over all sockets: worker_loop with its pre_select and *)
(* post_select (src/worker.c), the listeners' do_read (src/listener.c),    *)
(* and the connecting and closing of client sockets (src/socket.c), with   *)
(* the threads that do the TLS handshakes, the peers, and the clock.       *)
(*                                                                         *)
(* A session is reduced to whether it awaits input or has `writes` calls   *)
(* of do_write to make; Session has the rest.  Sockets are numbered in the *)
(* order worker_loop visits them.  Time passes at any moment, and nothing  *)
(* is assumed of how long a callback or a handshake takes.                 *)
(***************************************************************************)
EXTENDS Integers, Sequences

CONSTANTS
  HttpClients,   \* CONFIG_EWS_HTTP_CLIENTS
  HttpsClients,  \* CONFIG_EWS_HTTPS_CLIENTS
  Conns,         \* the connections that peers open, each once
  NoConn,
  IdleTimeout,   \* config.idle_timeout, in ticks of at least 100 ms
  MaxPass,       \* bound: ticks in one pass of the loop
  MaxSends,      \* bound: how often a peer sends
  MaxWrites,     \* bound: calls of do_write per response
  Failures       \* what can fail: "accept", "thread", "select"

HttpListener == 1
HttpsListener == HttpClients + 2
Last == IF HttpsClients = 0 THEN HttpClients + 1 ELSE HttpsListener + HttpsClients
Socks == 1..Last
Listeners == {HttpListener, HttpsListener} \cap Socks
Clients == Socks \ Listeners
Tls(s) == s >= HttpsListener

ASSUME WorkerConstants ==
  /\ HttpClients \in Nat \ {0}
  /\ HttpsClients \in Nat
  /\ NoConn \notin Conns
  /\ IdleTimeout \in Nat \ {0}
  /\ MaxPass \in Nat \ {0}
  /\ MaxSends \in Nat
  /\ MaxWrites \in Nat
  /\ Failures \subseteq {"accept", "thread", "select"}

VARIABLES
  slot,      \* the sockets of http_client and https_client
  age,       \* now - last_active, with the `now` of the pass
  elapsed,   \* the time since `now` was taken
  at, pos,   \* the step of worker_loop, and the socket it is at
  rfds, wfds,
  shutdown,  \* worker->shutdown, as a failed select sets it
  threads,   \* the handshakes under way
  queue,     \* per listener, the connections not accepted yet
  away,      \* connections not opened yet
  unread,    \* connections with input to receive
  left,      \* connections whose peer has closed its side
  closed,    \* connections the server has closed
  sends,     \* how often each peer has sent
  fault,     \* undefined behaviour reached
  rest,      \* history: the time since a slot was last active
  lag,       \* history: how old `now` was when it became a slot's last_active
  torn,      \* history: the slot was zeroed while pre_select is at it
  served     \* history: the clients that were active since select

sockets == <<slot, age, threads, closed>>
loop == <<elapsed, at, pos, rfds, wfds, shutdown>>
peers == <<queue, away, unread, left, sends>>
history == <<rest, lag, torn, served>>
vars == <<sockets, loop, peers, fault, history>>

Slot == [flags : SUBSET {"INUSE", "CONNECTED", "PEND_CLOSE"},
         connect : BOOLEAN, ops : BOOLEAN, evt : BOOLEAN, user : BOOLEAN,
         writes : 0..MaxWrites, conn : Conns \cup {NoConn}]
Zero == [flags |-> {}, connect |-> FALSE, ops |-> FALSE, evt |-> FALSE,
         user |-> FALSE, writes |-> 0, conn |-> NoConn]
Never == IdleTimeout + 1   \* the age of last_active = 0, and of all that is older
Capped(time) == IF time > Never THEN Never ELSE time

\* The type invariant.
TypeOK ==
  /\ slot \in [Clients -> Slot]
  /\ age \in [Clients -> -MaxPass..Never]
  /\ elapsed \in 0..MaxPass
  /\ at \in {"begin", "enter", "timed", "compare", "expired", "pend", "watch",
             "select", "post", "ended"}
  /\ pos \in Socks
  /\ rfds \subseteq Socks
  /\ wfds \subseteq Clients
  /\ shutdown \in BOOLEAN
  /\ threads \subseteq [slot : Clients, conn : Conns]
  /\ queue \in [Listeners -> Seq(Conns)]
  /\ away \subseteq Conns /\ unread \subseteq Conns /\ left \subseteq Conns
  /\ closed \subseteq Conns
  /\ sends \in [Conns -> 0..MaxSends]
  /\ rest \in [Clients -> 0..Never]
  /\ lag \in [Clients -> 0..MaxPass]
  /\ torn \in BOOLEAN
  /\ served \subseteq Clients
  /\ fault \in {"none", "null_user", "null_ops", "stale_thread"}

Init ==
  /\ slot = [s \in Clients |-> Zero]
  /\ age = [s \in Clients |-> Never]
  /\ elapsed = 0
  /\ at = "begin"
  /\ pos = 1
  /\ rfds = {}
  /\ wfds = {}
  /\ shutdown = FALSE
  /\ threads = {}
  /\ queue = [l \in Listeners |-> <<>>]
  /\ away = Conns
  /\ unread = {}
  /\ left = {}
  /\ closed = {}
  /\ sends = [c \in Conns |-> 0]
  /\ rest = [s \in Clients |-> Never]
  /\ lag = [s \in Clients |-> 0]
  /\ torn = FALSE
  /\ served = {}
  /\ fault = "none"

-----------------------------------------------------------------------------
(* Helpers.                                                                *)

Here == slot[pos]
InUse(s) == "INUSE" \in slot[s].flags
Connected(s) == "CONNECTED" \in slot[s].flags
Mark(s) == [slot EXCEPT ![s].flags = @ \cup {"PEND_CLOSE"}]

\* The worker is at step a, of a client's socket.
AtClient(a) == at = a /\ pos \in Clients

\* The loop goes on to the next socket, or out to what follows.
NextSock(first, after) ==
  IF pos < Last THEN at' = first /\ pos' = pos + 1
                ELSE at' = after /\ pos' = 1
PreNext == NextSock("enter", "select") /\ torn' = FALSE /\ UNCHANGED served

\* Where worker_task goes when worker_loop returns.
AfterPass == IF shutdown THEN "ended" ELSE "begin"

\* Mutant of PostNext: the pass ends with the first socket that was served.
PostFirst ==
  IF pos \in rfds \cup wfds THEN at' = AfterPass /\ pos' = 1
                           ELSE NextSock("post", AfterPass)

PostNext == NextSock("post", AfterPass)

\* ews_sock_close, ews_sock_close_tls: close the descriptor, zero the socket.
Close(s) ==
  /\ slot' = [slot EXCEPT ![s] = Zero]
  /\ age' = [age EXCEPT ![s] = Never]
  /\ closed' = closed \cup {slot[s].conn}
  /\ rest' = [rest EXCEPT ![s] = Never]
  /\ lag' = [lag EXCEPT ![s] = 0]

\* on_close of the session if there is one, else the socket's own close
OnClose(s) ==
  IF slot[s].evt /\ ~slot[s].user
  THEN fault' = "null_user" /\ UNCHANGED <<slot, age, closed, rest, lag>>
  ELSE IF ~slot[s].evt /\ ~slot[s].ops
       THEN fault' = "null_ops" /\ UNCHANGED <<slot, age, closed, rest, lag>>
       ELSE Close(s) /\ UNCHANGED fault

\* Mutant of IsIdle: only connected sockets time out.
IsIdleConnected(s) == Connected(s) /\ age[s] \notin 0..IdleTimeout

\* Whether the idle timeout has passed; the subtraction is unsigned.
IsIdle(s) == age[s] \notin 0..(IF slot[s].ops THEN IdleTimeout ELSE 0)

-----------------------------------------------------------------------------
(* worker_loop up to select.                                               *)

LoopBegin ==
  /\ at = "begin"
  /\ age' = [s \in Clients |-> Capped(age[s] + elapsed)]
  /\ elapsed' = 0
  /\ rfds' = {}
  /\ wfds' = {}
  /\ served' = {}
  /\ at' = "enter"
  /\ UNCHANGED <<slot, threads, closed, pos, shutdown, peers, rest, lag, torn, fault>>

\* Mutant of PreListener: it is put into the set of the writers too.
PreListenerWrites ==
  /\ at = "enter" /\ pos \in Listeners
  /\ rfds' = rfds \cup {pos}
  /\ wfds' = wfds \cup {pos}
  /\ PreNext
  /\ UNCHANGED <<sockets, elapsed, shutdown, peers, rest, lag, fault>>

\* A listener is in use, connected, and always wants to read.
PreListener ==
  /\ at = "enter" /\ pos \in Listeners
  /\ rfds' = rfds \cup {pos}
  /\ PreNext
  /\ UNCHANGED <<sockets, elapsed, wfds, shutdown, peers, rest, lag, fault>>

PreUnused ==
  /\ AtClient("enter") /\ ~InUse(pos)
  /\ PreNext
  /\ UNCHANGED <<sockets, elapsed, rfds, wfds, shutdown, peers, rest, lag, fault>>

\* Mutant of PreConnect: its pointer is not reset.
PreConnectAgain ==
  /\ AtClient("enter") /\ InUse(pos)
  /\ IF ~Here.connect THEN UNCHANGED <<slot, threads>>
     ELSE /\ slot' = [slot EXCEPT ![pos].ops = TRUE, ![pos].evt = ~Tls(pos)]
          /\ IF Tls(pos)
             THEN \/ threads' = threads \cup {[slot |-> pos, conn |-> Here.conn]}
                  \/ "thread" \in Failures /\ UNCHANGED threads
             ELSE UNCHANGED threads
  /\ at' = "timed"
  /\ UNCHANGED <<age, closed, elapsed, pos, rfds, wfds, shutdown, peers, fault, history>>

\* ews_connect, ews_connect_tls, and their pointer is reset
PreConnect ==
  /\ AtClient("enter") /\ InUse(pos)
  /\ IF ~Here.connect THEN UNCHANGED <<slot, threads>>
     ELSE /\ slot' = [slot EXCEPT ![pos].connect = FALSE, ![pos].ops = TRUE,
                                  ![pos].evt = ~Tls(pos)]
          /\ IF Tls(pos)
             THEN \/ threads' = threads \cup {[slot |-> pos, conn |-> Here.conn]}
                  \/ "thread" \in Failures /\ UNCHANGED threads
             ELSE UNCHANGED threads
  /\ at' = "timed"
  /\ UNCHANGED <<age, closed, elapsed, pos, rfds, wfds, shutdown, peers, fault, history>>

Test(a, condition, yes, no) ==
  /\ AtClient(a)
  /\ at' = IF condition THEN yes ELSE no
  /\ UNCHANGED <<sockets, elapsed, pos, rfds, wfds, shutdown, peers, fault, history>>

\* idle_timeout > 0; it is set together with ops
PreTimed == Test("timed", Here.ops, "compare", "pend")
PreCompare == Test("compare", IsIdle(pos), "expired", "pend")
PreStay ==
  AtClient("pend") /\ "PEND_CLOSE" \notin Here.flags /\ Test("pend", TRUE, "watch", "pend")

PreClose ==
  /\ \/ AtClient("expired")
     \/ AtClient("pend") /\ "PEND_CLOSE" \in Here.flags
  /\ OnClose(pos)
  /\ PreNext
  /\ UNCHANGED <<threads, elapsed, rfds, wfds, shutdown, peers>>

WantRead(s) == slot[s].writes = 0
WantWrite(s) == slot[s].writes > 0

\* on_connect of the session the first time, want_read, want_write
PreWatch ==
  /\ AtClient("watch")
  /\ IF Here.evt
     THEN /\ slot' = [slot EXCEPT ![pos].flags = @ \cup {"CONNECTED"},
                                  ![pos].user = TRUE]
          /\ rfds' = IF WantRead(pos) THEN rfds \cup {pos} ELSE rfds
          /\ wfds' = IF WantWrite(pos) THEN wfds \cup {pos} ELSE wfds
     ELSE UNCHANGED <<slot, rfds, wfds>>
  /\ PreNext
  /\ UNCHANGED <<age, threads, closed, elapsed, shutdown, peers, rest, lag, fault>>

-----------------------------------------------------------------------------
(* select, and post_select.                                                *)

Readable(s) ==
  IF s \in Listeners THEN queue[s] # <<>> ELSE slot[s].conn \in unread \cup left

\* A peer that does not read makes its socket unwritable, one that left does not.
Select ==
  /\ at = "select"
  /\ rfds' = {s \in rfds : Readable(s)}
  /\ wfds' \in SUBSET wfds
  /\ {s \in wfds : slot[s].conn \in left} \subseteq wfds'
  /\ IF rfds' \cup wfds' # {} THEN at' = "post"
                             ELSE elapsed > 0 /\ at' = "begin"
  /\ UNCHANGED <<sockets, elapsed, pos, shutdown, peers, fault, history>>

\* A failed select leaves the sets as they were, and they are served all the same.
SelectFails ==
  /\ at = "select" /\ "select" \in Failures
  /\ shutdown' = TRUE
  /\ at' = "post"
  /\ UNCHANGED <<sockets, elapsed, pos, rfds, wfds, peers, fault, history>>

Reported(s) == s \in rfds \cup wfds /\ (s \in Clients => Connected(s))

PostQuiet ==
  /\ at = "post" /\ ~Reported(pos)
  /\ PostNext
  /\ UNCHANGED <<sockets, elapsed, rfds, wfds, shutdown, peers, fault, history>>

\* Mutant of Touch: last_active is not set.
TouchNot(s) ==
  /\ rest' = [rest EXCEPT ![s] = 0]
  /\ lag' = [lag EXCEPT ![s] = elapsed]
  /\ served' = served \cup {s}
  /\ UNCHANGED <<age, torn>>

\* last_active = now, the one of the pass
Touch(s) ==
  /\ age' = [age EXCEPT ![s] = 0]
  /\ rest' = [rest EXCEPT ![s] = 0]
  /\ lag' = [lag EXCEPT ![s] = elapsed]
  /\ served' = served \cup {s}
  /\ UNCHANGED torn

\* do_read of a session: more input is wanted, a response is due, or the
\* connection is to be closed, as it is when the peer has left.  When there is
\* nothing to receive, which only a failed select leads to, nothing happens: the
\* socket does not block.
PostRead ==
  /\ at = "post" /\ pos \in rfds \cap Clients /\ Connected(pos)
  /\ IF Here.conn \in unread
     THEN \/ \E n \in 0..MaxWrites : slot' = [slot EXCEPT ![pos].writes = n]
          \/ slot' = Mark(pos)
     ELSE slot' = IF Here.conn \in left THEN Mark(pos) ELSE slot
  /\ unread' = unread \ {Here.conn}
  /\ Touch(pos)
  /\ PostNext
  /\ UNCHANGED <<threads, closed, elapsed, rfds, wfds, shutdown, queue, away, left,
                 sends, fault>>

\* do_write of a session: the response goes on, ends, or fails.
PostWrite ==
  /\ at = "post" /\ pos \in wfds \cap Clients /\ Connected(pos)
  /\ \/ \E n \in 0..(Here.writes - 1) : slot' = [slot EXCEPT ![pos].writes = n]
     \/ slot' = [Mark(pos) EXCEPT ![pos].writes = 0]
  /\ Touch(pos)
  /\ PostNext
  /\ UNCHANGED <<threads, closed, elapsed, rfds, wfds, shutdown, peers, fault>>

\* Mutant of FreeSlots: a slot is free until it is connected.
FreeSlotsConnected(l) == {s \in Clients : Tls(s) = Tls(l) /\ ~Connected(s)}

FreeSlots(l) == {s \in Clients : Tls(s) = Tls(l) /\ ~InUse(s)}

\* last_active is the time of the accept, later than the `now` of the pass.
AcceptAge == -elapsed
FirstOf(S) == CHOOSE s \in S : \A t \in S : s <= t

\* do_read of a listener when every slot is taken: the peer is left to wait.
AcceptNone ==
  /\ at = "post" /\ pos \in rfds \cap Listeners /\ FreeSlots(pos) = {}
  /\ PostNext
  /\ UNCHANGED <<sockets, elapsed, rfds, wfds, shutdown, peers, fault, history>>

\* do_read of a listener with a free slot, which is zeroed, up to accept
Accepting == at = "post" /\ pos \in rfds \cap Listeners /\ FreeSlots(pos) # {}

\* Mutant of AcceptConn: the listener goes on while there are free slots.
AcceptMore ==
  /\ Accepting /\ queue[pos] # <<>>
  /\ LET s == FirstOf(FreeSlots(pos))
     IN /\ slot' = [slot EXCEPT ![s] = [Zero EXCEPT !.flags = {"INUSE"}, !.connect = TRUE,
                                                    !.conn = Head(queue[pos])]]
        /\ age' = [age EXCEPT ![s] = AcceptAge]
        /\ rest' = [rest EXCEPT ![s] = 0]
  /\ queue' = [queue EXCEPT ![pos] = Tail(@)]
  /\ UNCHANGED <<threads, closed, loop, away, unread, left, sends, fault, lag, torn, served>>

\* The first free slot gets the connection.
AcceptConn ==
  /\ Accepting /\ queue[pos] # <<>>
  /\ LET s == FirstOf(FreeSlots(pos))
     IN /\ slot' = [slot EXCEPT ![s] = [Zero EXCEPT !.flags = {"INUSE"}, !.connect = TRUE,
                                                    !.conn = Head(queue[pos])]]
        /\ age' = [age EXCEPT ![s] = AcceptAge]
        /\ rest' = [rest EXCEPT ![s] = 0]
  /\ queue' = [queue EXCEPT ![pos] = Tail(@)]
  /\ PostNext
  /\ UNCHANGED <<threads, closed, elapsed, rfds, wfds, shutdown, away, unread, left,
                 sends, fault, lag, torn, served>>

\* accept fails: the connection is gone, or is still queued when what lacked was a
\* descriptor.
AcceptFails ==
  /\ Accepting /\ queue[pos] # <<>> /\ "accept" \in Failures
  /\ LET s == FirstOf(FreeSlots(pos))
     IN /\ slot' = [slot EXCEPT ![s] = Zero]
        /\ age' = [age EXCEPT ![s] = Never]
  /\ queue' \in {queue, [queue EXCEPT ![pos] = Tail(@)]}
  /\ PostNext
  /\ UNCHANGED <<threads, closed, elapsed, rfds, wfds, shutdown, away, unread, left,
                 sends, fault, history>>

\* accept waits for a connection, and the worker with it.
AcceptWaits == Accepting /\ queue[pos] = <<>> /\ UNCHANGED vars

WorkerStep ==
  /\ fault = "none"
  /\ \/ LoopBegin \/ PreListener \/ PreUnused \/ PreConnect \/ PreTimed
     \/ PreCompare \/ PreStay \/ PreClose \/ PreWatch \/ Select \/ SelectFails
     \/ PostQuiet \/ PostRead \/ PostWrite \/ AcceptNone \/ AcceptConn
     \/ AcceptFails

-----------------------------------------------------------------------------
(* ews_connect_tls_task: it writes to the slot it was started for, whoever *)
(* has the slot by then.                                                   *)

Stale(t) == slot[t.slot].conn # t.conn

\* pre_select has found the slot in use and is not done with it.
Visiting == at \in {"timed", "compare", "expired", "pend", "watch"}

HandshakeOk(t) ==
  /\ IF Stale(t) THEN fault' = "stale_thread" /\ UNCHANGED slot
     ELSE slot' = [slot EXCEPT ![t.slot].evt = TRUE] /\ UNCHANGED fault
  /\ threads' = threads \ {t}
  /\ UNCHANGED <<age, closed, loop, peers, history>>

HandshakeFails(t) ==
  /\ IF Stale(t) THEN /\ fault' = "stale_thread"
                      /\ UNCHANGED <<slot, age, closed, rest, lag, torn>>
     ELSE /\ Close(t.slot)
          /\ torn' = (torn \/ (Visiting /\ t.slot = pos))
          /\ UNCHANGED fault
  /\ threads' = threads \ {t}
  /\ UNCHANGED <<loop, peers, served>>

ThreadStep ==
  /\ fault = "none"
  /\ \E t \in threads : HandshakeOk(t) \/ HandshakeFails(t)

-----------------------------------------------------------------------------
(* The peers and the clock.                                                *)

Dial(c) ==
  /\ c \in away
  /\ away' = away \ {c}
  /\ \E l \in Listeners : queue' = [queue EXCEPT ![l] = Append(@, c)]
  /\ UNCHANGED <<sockets, loop, unread, left, sends, fault, history>>

Present(c) == c \notin away \cup left \cup closed

Send(c) ==
  /\ Present(c) /\ c \notin unread /\ sends[c] < MaxSends
  /\ unread' = unread \cup {c}
  /\ sends' = [sends EXCEPT ![c] = @ + 1]
  /\ UNCHANGED <<sockets, loop, queue, away, left, fault, history>>

Leave(c) ==
  /\ Present(c)
  /\ left' = left \cup {c}
  /\ UNCHANGED <<sockets, loop, queue, away, unread, sends, fault, history>>

PeerStep == fault = "none" /\ \E c \in Conns : Dial(c) \/ Send(c) \/ Leave(c)

Tick ==
  /\ fault = "none"
  /\ elapsed < MaxPass
  /\ elapsed' = elapsed + 1
  /\ rest' = [s \in Clients |-> Capped(rest[s] + 1)]
  /\ UNCHANGED <<sockets, at, pos, rfds, wfds, shutdown, peers, fault, lag, torn, served>>

\* The program has crashed, or the worker has left its loop.
Stopped == (fault # "none" \/ at = "ended") /\ UNCHANGED vars

Next == WorkerStep \/ ThreadStep \/ PeerStep \/ Tick \/ AcceptWaits \/ Stopped

Spec == Init /\ [][Next]_vars

\* The worker goes on, and time passes, though a pass that finds work at once may
\* take less than a tick.  A handshake may never end.
Fairness == WF_vars(WorkerStep) /\ SF_vars(Tick)

FairSpec == Spec /\ Fairness

-----------------------------------------------------------------------------
(* Properties.                                                             *)

\* A callback is reached through a NULL pointer, or a handshake thread touches a slot
\* that no longer serves its connection, only when the idle timeout came before
\* on_connect or before the end of a handshake, or a handshake failed while pre_select
\* was at its slot: nothing else the worker, the listeners and the peers do leads there
\* (src/worker.c:27-60, src/socket.c:218-248).
FaultsHaveCause ==
  [][/\ fault' # fault => CASE fault' = "null_user" -> rest[pos] > IdleTimeout
                            [] fault' = "null_ops"  -> torn
                            [] OTHER -> \E t \in threads : Stale(t) /\ t.conn \in closed
     /\ \A t \in threads' : t.conn \in closed' \ closed
          => at = "expired" /\ t.slot = pos /\ rest[pos] > IdleTimeout]_vars

\* accept never waits, unless select has failed: a listener that is still to be served
\* in this pass has a connection queued, since select reported it and nobody else
\* takes one (src/worker.c:127-150, src/listener.c:149).
AcceptNeverWaits == at = "post" /\ ~shutdown =>
  \A l \in rfds \cap Listeners : l >= pos => queue[l] # <<>>

\* A slot serves one connection from accept to close and a connection is served
\* once, whatever the worker, the listeners and the handshake threads do when.
OneOwner == INSTANCE Slots WITH
  Slots <- Clients,
  owner <- [s \in Clients |-> IF InUse(s) THEN slot[s].conn ELSE NoConn],
  ended <- closed
SlotsSpec == OneOwner!Spec

\* Of the connections not about to be closed anyway, the idle timeout closes only
\* those that were idle that long.  It may come early by as much as the pass in which
\* the connection was last served had taken by then: last_active is the `now` of that
\* pass (src/worker.c:39-50 and 84, include/ews.h:24).
TimeoutMeansIdle ==
  [][at = "expired" /\ at' # "expired" /\ InUse(pos) /\ "PEND_CLOSE" \notin Here.flags
       => rest[pos] + lag[pos] > IdleTimeout]_vars

\* Who waits for a slot gets one, or is refused, as long as accept does not fail for
\* ever: the slots of peers that do nothing, and of handshakes that never end, are
\* taken back.  (A crash and a failed select end the worker.)
Queued(c) == \E l \in Listeners : \E i \in DOMAIN queue[l] : queue[l][i] = c
Admitted ==
  <>[][~AcceptFails]_vars =>
    \A c \in Conns : Queued(c) ~> ~Queued(c) \/ fault # "none" \/ shutdown

\* What select reports is served in the same pass: when the pass ends, every socket
\* reported has been active since (src/worker.c:79-93).
ReportedIsServed ==
  [][at = "post" /\ at' # "post" => (rfds \cup wfds) \cap Clients \subseteq served']_vars
=============================================================================
