# A verification of ACEWS

TLA+ modules, TLC configurations and TLAPS proofs for ACEWS, an embedded web
server in C (`src/src`, `src/include`).  A single worker thread serves every
connection: it selects on the sockets, feeds what it receives to a request
parser, and calls the handlers of the application, which answer through
operations that send at once.  Nothing is queued, and no function is undone
when one of the functions it called has ended the request: most of what is hard
about this code is what the callers do next.  Around that thread there are a few
others (TLS handshakes, the application, the reaper's timer), and almost no lock.

## The system

| component | state | operations | talks to | modules |
|---|---|---|---|---|
| HTTP session (`http.c`, `http.h`) | `ews_http_data_t`: input buffer `buf/bufpos/buflen`, `block` (version, route, state, flags, lengths), reset by `finalize` | `on_connect`, `on_close`, `want_read`, `want_write`, `do_read` (parsers `request_begin`, `request_header`, `request_body`), `do_write`, `call_handler`, the six `ews_sess_ops` | called by the worker; calls handlers and socket operations; handlers call it back | `Http`, `Session`, `Contract`, `Dialogue` |
| Sockets (`socket.c`) | `ews_sock_t`: fd, flags, `ops`, `evt`, activity time | `send`, `recv`, `avail`, `shutdown`, `close`, plain and over mbedtls; `ews_connect`, `ews_connect_tls` and its handshake thread | the session; the handshake thread publishes `evt` to the worker | `Http`, `Session`, `Worker` |
| Worker (`worker.c`) | `fd_set`s, the shutdown flag, a timer | `worker_loop` = `pre_select`, `select`, `post_select` over the listeners and slots; `worker_task`; `ews_worker_destroy`; the reaper | every socket | `Worker`, `Slots`, `Server` |
| Listener (`listener.c`) | a listening socket | `listener_init`; `do_read`: find a free slot, zero it, `accept`, set `connect` | the slots of `ews_t`, its mutex | `Worker`, `Server` |
| Server (`server.c`) | `ews_t` | `ews_init`, `ews_destroy`, `ews_add_client_cert` | starts and stops the worker | `Server` |
| Routes (`route.c`) | a linked list, appended to by any thread | `ews_route_append`, `ews_route_clear`, the 404 and test handlers | walked by `request_begin` without a lock | `Routes`, `Table`, `Session` |
| Utilities (`utils.c`) | none | `fnmatch`, `find`, `findp` | the session | `Find`, `Match` |
| Path decoding (`parse_path` of `http.c`) | `sess->data`, a union nobody resets | in place, with two pointers | `request_begin` | `ParsePath` |
| Ports (`ews_port_linux.h`, `ews_port_freertos.h`) | none | mutexes, semaphores, threads, timers | worker, server, TLS | `Server` |

What makes each correct, and where that is hard:

* *Session*: the parser state fits the input; a route that accepted a request
  gets its one `FINALIZE`; the response stream is readable; sizes do not wrap;
  every request is answered or the connection closed.  Hard: handlers may end the
  request inside any call, sends fail inside any operation, input comes in
  pieces and ahead of time, the peer or the clock ends the connection between
  any two calls, and the block is reused by the next request.
* *Sockets*: a lost send leads to a close; the slot of a closed socket is not
  used.  Hard: the TLS handshake runs on a thread of its own on a slot that the
  worker may close and the listener hand out again.
* *Worker, listener*: no socket starves, no callback of a closed socket is
  called, a slot has one owner, only idle connections time out.  Hard: callbacks and
  handshakes take any time, and `select` may fail.
* *Server*: what was stopped ends, and nothing is used after it is freed.  Hard:
  `ews_destroy` does not wait for the worker, and frees what it uses.
* *Routes*: the walk meets the routes in their order, complete and not freed.  Hard:
  nothing keeps an append or a clear away from the walk.
* *Utilities, path decoding*: `find` returns the first place, `fnmatch` agrees with
  globs, a path keeps its segments, nothing unread is overwritten, and every call
  returns.

The complete list, with lines, is `hazards` in `PROJECT.json`.

## The modules

| module | about | proofs |
|---|---|---|
| `Http` | the connection record; send and the session operations as operators | `HttpProofs` |
| `Session` | one connection: worker, parsers, handler calls, peer | `SessionProofs` |
| `Contract` | what a session may rely on: the peer's requests, the handlers' behaviour | `ContractProofs`, `WireProofs` |
| `Dialogue` | abstract: what a connection promises handlers | implemented by `Session` |
| `Worker` | the select loop over all slots, listeners, handshake threads, clock | `WorkerProofs` |
| `Slots` | abstract: a slot has one owner | implemented by `Worker` |
| `Server` | start, stop, the worker's thread, the reaper | `ServerProofs` |
| `Routes` | the list of routes, statement by statement, and the walk | `RoutesProofs` |
| `Table` | abstract: the sequence of routes a request is offered in order | implemented by `Routes` |
| `Find`, `Match`, `ParsePath` | `find`/`findp`, `fnmatch`, `parse_path` | `TextProofs` |
| `MCSession`, `MCText` | requests, handlers and arguments for TLC | |

### Session

`Http` defines the connection record and, as pure operators on it, the socket's
send and the session operations of `http.c`.  A send may fail, so an operation
maps a connection to the *set* of connections it can leave: `RawSend(c, piece,
n)` is `http_raw_send`, which on failure ends in `finalize`.  Composition of the
C functions is composition of these sets (`HttpError`, `Advance`,
`AfterStatus`), which keeps every early return and every statement executed
after a callee has already reset the block.

`Session` is the state machine of one connection.  `pc` says where the worker
is: in the select, in a parser (`parse`, dispatched on `conn.block.state % 16`
as in `do_read`), in the walk over the routes (`match`), in a handler, or at
the label `done` of `do_read`.  A handler is any sequence of session operations
followed by a status, chosen from the set the constant `Handlers` gives for its
route (`ews_route_404`'s and the test handler are the ones of `route.c`); each
operation is a step, and `ReturnTo...` is what the caller does with the status.

| code | model |
|---|---|
| `data->block` | `conn.block`; `request->length` is `length` (with `SIZE_MAX`), `response.length` is `left` |
| `data->buf[bufpos .. bufpos+buflen)` | `buf`, `bufpos` |
| `sock->flags` | `conn.sock` |
| `sess->data.chunk_len` | `conn.chunkLen` |
| the peer's bytes not received, and to come | `net`, `later` |
| `find`, `request->buf[...]` | `LineKind`, `LineEnd`: what the first line is |
| `while (buflen > 0)`, `return true`, `goto done` | `pc = "parse"`, `ReturnTrue`, `ReadDone` |
| undefined behaviour: a NULL route, unbounded recursion, a size that wraps, an uninitialized `len` | `conn.fault`, after which the model stops (`pc = "halted"`) |

Four more fields of `conn` are history: `wire` (how the peer reads the response
stream), `owner` (the route that is due a `FINALIZE`), `heap` (boundaries
allocated and not freed) and `waiting` (the peer is owed an answer).  No guard
of the program's actions reads them.

Input is in *units*, not bytes: a request or header line is one unit and its end
another, a body is a sequence of `data` units, and `recv` delivers any prefix of
what was sent.  A unit carries what the parser makes of it (version, declared
length, chunk size).  `junk` is a run of input with no line end, and, before one,
a line no parser accepts; a chunk-size line longer than eight digits is junk,
and one that is short but no number is a `size` of 0.

`Dialogue` is what this comes to for the application: a route that is asked may
take the request; from then on only its handler is called, for the headers, the
body and the three parts of the response in this order, until one `FINALIZE`.
Under the mapping, `owner` is the history variable, `stage` the state of the
block, and `called` the route in `call_handler`; so `DialogueSpec` holds only if the
block, which `finalize` may reset under any caller, and the route that is due a
`FINALIZE` never come apart.

Left out: the method, `prev_state` and `state_count` (nothing reads them), the
`MULTIPART` flag (nothing reads it), short writes, `EAGAIN` on `recv` (nothing
changes), the operations a handler might call inside `FINALIZE`, and `free` of the
session itself.

### Worker

`Worker` is the machine of the worker thread over all sockets; `at` and `pos` are
where `worker_loop` is, with a step for each read of `pre_select` that a handshake
thread can come between (`timed`, `compare`, `expired`, `pend`, `watch`).  The
callbacks of a session are one step each and know only whether input is wanted
(`writes = 0`) or how many calls of `do_write` are left.

| code | model |
|---|---|
| `http_client[i].sock`, `https_client[i].sock` | `slot[s]`; `ops` stands for `ops` and `idle_timeout`, set together; `conn` is the descriptor |
| `now - last_active` | `age[s]`, in ticks of at least the 100 ms of `select`, relative to the `now` of the pass; `elapsed` is the time since |
| `rfds`, `wfds` | the same, filled by `pre_select` and reduced by `Select` |
| the kernel's queue of a listener | `queue[l]` |
| `ews_connect_tls_task` | an element of `threads`, `HandshakeOk`, `HandshakeFails` |
| a NULL `user` or `ops` used, a thread on a slot that is not its own any more | `fault`, after which the model stops |

Time passes at any moment (`Tick`), up to `MaxPass` ticks in one pass: a callback may take
longer than the idle timeout, and a handshake may fail while the worker is at its slot or
outlive it.  When `select` fails, `shutdown` is set and the callbacks are called for the sets
that `pre_select` left (`SelectFails`); `accept` then may have nothing to accept and blocks
(`AcceptWaits`), a receive on a session's socket finds nothing, and the worker leaves its
loop after the pass.  When `accept` fails, the connection may be gone or still be queued.

`rest`, `lag`, `torn` and `served` are history.  Left out: the mutex of the listener, which
is recursive and which only the worker takes, and the backlog's length.  The flag as
`ews_destroy` sets it is in `Server`.

### Server

The application calls `ews_init` and `ews_destroy` in turn; `app` is where it is in
them, with a step between any two statements that the worker or the timer can see.
`memory[b]` is what the worker finds in the server's block of the heap, its shutdown flag
and its timer, and `owner` is the server the block belongs to.  `Free` gives it up, and
`Calloc` may hand it out at once.  Every step of the worker, the timer task and the
reaper that touches the block needs it to be its own server's (`Own`); when it is not, what
happens is undefined, and the model records a `fault` and stops (`Stray`).  The other
faults are what FreeRTOS leaves undefined: a stop without a timer (`StopsNothing`, after
a failed `select`), a start of a deleted timer (`StartsDeleted`), and `vTaskDelete` of a task
that has ended (`KillsTwice`).

| code | model |
|---|---|
| `timer_settime`, `timer_delete` (Linux) | done at once, in `timer[n]` |
| `xTimerStart`, `xTimerStop`, `xTimerDelete` (FreeRTOS) | put into `queue[n]`; `Obey` is the timer task that carries them out, in the order of each sender |
| `task_reaper` on Linux | a thread of its own; `pthread_exit` ends that thread and nothing else (`ReaperExits`) |
| `task_reaper` on FreeRTOS | runs in the timer task; `vTaskDelete` ends the worker (`ReaperKills`), then the timer's deletion is queued |

Nothing is assumed of priorities: the reaper can be called after the worker has asked
for the stop of its timer, and meets the fault.

### Routes

Each thread's call of `ews_route_append` or `ews_route_clear` goes statement by
statement (`call[t].at`), and so does the walk of `request_begin` (`walk`); `held[s]`
is the route of a session whose request was accepted.  A handler may append and clear, too
(`InHandler`).  Clears come at any time, so the worker may use what was freed (`Uses`
records it, and the model stops).  History: `table`, the routes linked and not freed, and
`stale`, the sessions during whose request a route was freed.

### Text

`Find`, `Match` and `ParsePath` are the loops of `find`, `findp`, `fnmatch` and
`parse_path`, one pass per step, with the C code's indices.  Their references are
definitions without an algorithm: a place where the needle is (`IsAt`), pieces of
the string given to the characters of the pattern (`Glob`), the segments a target
names (`Meaning`).  `Session` uses `find` by what it returns for whole lines, and for
`fnmatch` any answer.

## The runs

| run | shows |
|---|---|
| `session_serial` | Pairs of GET, HTTP/1.0, closing, POST and multipart requests; two routes using all statuses, one with a declared length and one with chunks.  `DialogueSpec`: no handler is called out of turn.  `OwnerIsRoute`: `FINALIZE` goes once to the accepting route.  `InStep`: no piece of a request is read as another.  `ReadWhole`: the answer begins at the end of the request.  `WireWellFormed`: the peer can read the stream.  `WindowInBuffer`, `TypeOK`. |
| `session_faults` | The same with sends that fail (`again`, `reset`) and `strdup` that fails.  `DialogueSpec`, `NoFault`, `LossCloses`, and `NothingOutlives`: a closed connection has freed its boundary and finalized its request. |
| `session_live` | TLS; bodies with a length and in one chunk, refusals in every parser, HTTP/0.9, handlers reading all or one unit.  `InStep`, `WindowInBuffer`; `CallbackEnds`: every step between two selects leaves less to do before the next; and `Served`: every request is answered or its connection closed. |
| `worker` | A plain slot and a TLS slot, two connections; accepts, threads, handshakes and `select` fail, and passes take any time.  `SlotsSpec`; `FaultsHaveCause`: a NULL pointer or a foreign slot is met only after a timeout or a failed handshake at one of three moments; `AcceptNeverWaits`: unless `select` has failed, the blocking `accept` finds a connection; `TimeoutMeansIdle`, up to the length of a pass; `ReportedIsServed`: a pass serves all that `select` reported; `Admitted`: who is queued is accepted or refused, since idle slots are taken back. |
| `server` | Two servers one after the other, on both ports; sockets, threads, timers and `select` are refused or fail; freed memory is handed out at once.  Until something undefined happens, `TimerToDelete`: the worker finds a timer to stop and delete; `NoTimerLeft`: whoever ends a worker sees to its timer. |
| `routes` | Four nodes, two sessions, appends and clears at any time.  `TableSpec`, `ListIsTable`: the list is the sequence of appends at every statement; `FreedUnderIt`: only a request under way at a clear meets a freed route; `OnlyHalfFilled`: only the newest route can lack a pattern or handler when the worker comes to it. |
| `text` | One call of each function on every argument of a few characters.  `FirstFound`, `ReadsInside`; `OnlyGlobs`, `PlainGlobs`; `UnreadIntact`; `SameSegments`: what `fnmatch` is given has the segments of the target, and behind them those of the bytes that decoding left there; `Returns`: every call ends. |

| run (violation) | disagreement |
|---|---|
| `done_in_body` | `DONE` in `REQUEST_BODY` zeroes the block, and `request_body` counts back from a length of 0: `MIN(buflen, 0) - chunk_len` wraps |
| `chunked_send_fails` | `finalize` and `http_raw_send` recurse |
| `length_zero` | `Content-Length: 0` is never answered |
| `body_to_404` | a body for the 404 handler makes the worker spin |
| `stop` | `ews_destroy` returns before the server has ended: its worker is alive, on freed memory, and its ports stay bound |

### Bounds

* *Session*: a buffer of five units, so that a request never fits at once, a
  request line with its end does, and `Long` fills it; streams of at most two
  requests, because all that one request can pass to the next is the block, the
  buffer and the socket's flags, and the second shows it; two routes, so that one
  can decline and the next be tried; a declared response length smaller than what a
  handler sends, so that clamping happens.
* *Worker*: two connections on one plain and one TLS slot are enough for both slots to be
  active, for one connection to wait for the other's slot, and for a slot to be reused
  under a thread; a timeout of one tick and passes of up to two (`MaxPass`) let a pass be
  shorter than, as long as, and longer than the timeout; each peer sends at most once
  (`MaxSends`), each response takes at most one `do_write` (`MaxWrites`).
* *Server*: `Starts = 2` servers and two blocks: the second server either has fresh
  memory or that of the first.  `stop` needs one of each.
* *Routes*: `Nodes = 4`, so that a clear can free two and two can follow; two
  sessions, so that one holds a route while the other walks.
* *Text*: buffers, patterns and strings of up to four characters over alphabets that
  hold every case the code tells apart; needles that begin again in themselves (the
  case in which a search that does not go back fails); targets of up to six
  characters; `path_len` left at 0 or 3 by an earlier request.

### Contracts

The session runs keep to a contract, and the violations show that it is needed.
`Contract` states it as formulas over the constants `Streams`, `Handlers`,
`SendFaults`, `Pipelining` and `Tls`, which the theorems assume:

* `Orderly`, to stay in step.  The peer waits for each answer and sends requests with no
  body or one of the declared length, or requests the parser refuses; there is at most
  one multipart header, and no chunked request body.  Handlers call no operation in
  `REQUEST_BEGIN` and `REQUEST_HEADER`, only `recv` in `REQUEST_BODY`, and return `NEXT`
  from the last two; in the response they do what they like.  No send over TLS
  would block.
* `Steady`: no send fails in a chunked response (else `finalize` recurses:
  `chunked_send_fails`).
* `Draining`, to come back to the select: the last route takes whatever the others
  decline, so that `ews_route_404`, which reads nothing, is never given a body, and whatever
  else a handler does when it is handed one, it receives something of it (else
  `request_body` calls it for ever: `body_to_404`).
* `Framed`, for a readable answer: handlers send one status line or `http_error`'s, then
  headers that frame the response, always the same way per route (a length, chunks, or
  the close), then a body of that length; and no HTTP/0.9, whose answers have no head.

TLC evaluates all but `Draining` for the instances of `session_serial` and `session_faults`
(`OrderlyInstances`, an assumption of `MCSession`), so that they are not empty: those
streams have every form of request but the refused ones, which the assumption adds from
`session_live` (all but those with two boundaries or chunks); one route ends its bodies
by length and the other by chunks.  It evaluates `Draining` for `session_live`, whose
handlers keep to `Orderly`, too.

`session_live` goes beyond: refused requests, and a body in one chunk as the
connection's last request.  There the handlers read something in each `REQUEST_BODY`, a
body has at least one byte, and no send fails, because all its requests must be answered.

Of the other modules one has such an assumption, the constant `Shared = FALSE` of `Routes`:
one thread at a time changes the list (else two appends lose a route, and TLC finds
`ListIsTable` violated).  Nothing in the code ensures it; no document promises otherwise.

### What follows from the same code and has no run of its own

* A request received while the response is being written is given to `request_begin`
  in a response state (`http.c:758`): with `Pipelining = TRUE`, TLC finds `InStep`,
  `OwnerIsRoute` and `DialogueSpec` violated.
* After `ERROR` in `REQUEST_HEADER` the other header lines are taken for requests
  (`http.c:567`).
* `ERROR` in `RESPONSE_BEGIN` after the status line puts a second one on the wire
  (`ReturnedStatus`; `http.c:227`).
* Of the end of a chunked body only the line end is consumed (`ChunkBreak`;
  `http.c:592-593`), so the last chunk is parsed as the next request, which is why a
  chunked body comes last in `session_live`; a second chunk is never read.
* A request refused with 400, 414 or 505 before its version is known gets no answer, only
  the close, because `finalize` resets the version to 0.9 and `http_error` sends nothing
  then (`HttpError`, `BeginReject`).
* `Content-Length: -1` is read as no length at all, and other negative lengths as ones of
  nearly `SIZE_MAX` (`LengthOf`; `http.c:531`, `SizeRange` is the number of values a
  `size_t` has).
* A second multipart header overwrites the first boundary, which is never freed
  (`HeaderLine`; `http.c:555`).
* The close that a late `http_status` asks for is ORed into the wrong, eight-bit flags
  and lost (`http.c:142`).
* After a pass with slow callbacks, connections just served are closed as idle
  (`worker.c:85`): `TimeoutMeansIdle` without `lag`.  A connection accepted in one can time
  out before `on_connect`, and `on_close` uses a NULL `user` (`worker.c:40`).
* A TLS handshake that outlives the idle timeout writes to a slot that is not its
  connection's any more; one that fails while `pre_select` is at its slot makes the worker
  call `close` through a NULL `ops` (`socket.c:218-248`).  `FaultsHaveCause` names these
  cases and excludes all others.
* After a `select` that failed the worker may block in `accept` (`worker.c:131`,
  `listener.c:149`): `AcceptNeverWaits` without its premise.
* A worker that hangs outlives the reaper on Linux, where `ews_thread_destroy` ends the
  thread that calls it (`ews_port_linux.h:254-271`).
* A clear during a request makes the worker use a freed route (`route.c:59`).
* `/..` is never collapsed (`http.c:309-320` compares the character plus 3):
  `SameSegments` takes `..` for an ordinary segment.
* `fnmatch` with a star inside the pattern misses matches that overlap a failed
  attempt: `*ab` does not match `aab` (`utils.c:35`).
* Without a query nothing ends the decoded path: `/./x` is matched against the routes
  as `/x/x`, and `path_len` counts on from what an earlier request left there
  (`http.c:288-340`, `include/ews.h:176`).
* `pthread_create` reports a failure by a positive number and the test is for a
  negative one, so that a server without a worker is handed out
  (`ews_port_linux.h:243`; `ThreadRefused`).
* When `accept` fails, the listener returns with its mutex taken; the mutex is
  recursive and only the worker takes it.

### Fairness and deadlock

`FairSpec` of `Session` asks weak fairness of `Worker` only: the worker thread
always takes another step on the connection if it has one.  The code justifies
it for one connection: `worker_loop` visits every slot on each pass, `select`
reports a socket that can be read or written, and no callback blocks.  The peer,
the idle timer and the end of the stream (`Environment`) are not assumed to act:
`Served` does not rely on the time-out to get rid of a stuck request.

`Worker` asks weak fairness of the worker and strong fairness of `Tick`: a pass that finds
work at once may be over before a tick, but time passes.  Nothing is asked of the peers and
of the handshake threads, which may never end; `Admitted` supposes that from some time
on `accept` does not fail.

`MCText` asks weak fairness of the loop's next pass:
a function that is called runs.

`Dialogue`, `Slots`, `Table`, `Server` and `Routes` state none: only safety is asked of them.

*Deadlock* is checked in every run but `text`, where a behaviour is one call that
ends.  A closed or halted connection, a worker that has left its loop or waits in `accept`,
an idle application, and whatever has come to a fault stutter.

## The proofs

All theorems hold for every value of the constants that the named assumptions of the
modules allow (`HttpConstants`, `SessionConstants`, `WorkerConstants`,
`ServerConstants`, `RoutesConstants`, `FindConstants`, `MatchConstants` and
`ParsePathConstants`: the types of the constants); a theorem that needs a contract has
it as an assumption.

### Session (`HttpProofs`, `SessionProofs`)

For every buffer size of at least two, every set of streams, every handlers'
behaviour (also those that break the contract above), with pipelining, failing
sends, failing `strdup`, plain or TLS:

* `TypeCorrect`: `Spec => []TypeOK`;
* `WindowSafe`: `Spec => []WindowInBuffer`;
* `LossIsMarked`: `Spec => []LossCloses`, unless the socket is a TLS one whose sends
  may block (not `Loud`): then the statement is false, as `ews_sock_send_tls` returns
  without a mark.

They follow from one inductive invariant, `IInv`, of three parts:

* `TypeOK` alone is not inductive: that `chunked_size - chunked_pos` is a length
  needs `chunkPos <= chunkSize`, and that the window stays inside the buffer
  needs its end;
* `ConnInv`: the connection is in `GoodConn`, the connections that are typed, are
  not past the end of their chunk, and are marked if a send has failed.
  `HttpProofs` shows that every operator of `Http` maps `GoodConn` into sets of
  `GoodConn`, one lemma per C function, in the order of the calls;
* `Window`: `bufpos + buflen <= BufSize`, and at the points from which `recv` can
  be reached without a parser running first (`Resting`: the select of an unmarked
  socket, a handler called by `do_write`, and the `again` of TLS) the window is at
  the front and leaves room.

Each action has a lemma `IInv /\ action => IInv'`; two of them, `BusyStep` and
`ConsumeStep`, cover the actions that leave the buffer alone or consume a line.
`LineEndRange` (a buffer with a line end has a first one) uses that `<` on the
naturals is well-founded.

Two more theorems hold for every handler and every failed send, too, but only while
the parser is in step, which handlers and peers can break:

* `OwnerHolds`: `Spec /\ []InStep => []OwnerIsRoute`;
* `KeepsDialogue`: `Spec /\ []InStep => DialogueSpec`, the refinement of `Dialogue`.

Of `InStep` they use that nothing is parsed while a response is due
(`ReadsRequests`).  The second part of `HttpProofs` says what an operation can do to
the request: it goes on in the same state and with the same route and owner, or it has
ended, with a zeroed block and the owner's `FINALIZE` given (`Keeps`); a status can
also move the state on, or leave a NULL route (`Moves`).  `CallInv` ties the caller of
`call_handler` to the state: in a call the route is NULL or the state is the caller's.
Every action is then one of a few steps of `Dialogue`: `GoOn`,
`CallStep`, `TakeSpoken`, `ReadOnSpoken`, `Silent`.

### The session under its contract (`ContractProofs`, `WireProofs`)

For every buffer size, every stream and every handler that is `Orderly`, whatever sends
fail, and wherever input is cut up:

* `StaysInStep`: `Spec => []InStep`, no piece of a request is read as another;
* `OwnerKept`, `DialogueKept`: the two theorems above without their premise;
* `LeavesNothing`: `Spec => []NothingOutlives`;
* `MeetsNoFault`: `Spec => []NoFault`, if also `Steady`;
* `ReadsWhole`: `Spec => []ReadWhole`, if no send fails (a failed one ends a request
  whose rest is unread; the connection is then given up);
* `AnswersReadable`: `Spec => []WireWellFormed`, if also `Framed`;
* `CallbacksReturn`: `Spec => CallbackEnds`, if also `Draining`.

The invariant of the first six is `Kept`, beside `IInv`.  `InStep` speaks of the parser's
next unit only and is not inductive: it needs the whole rest of the input
(`Rest`, what is in the buffer and on the network), which must be what the state of the
block expects (`Expects`): nothing while a response is due, a request or nothing
between requests, in the header the lines and the blank line of `HeaderPart`, whose body
has the length declared so far or by a line still to come, and in the body as many
units as `length` says.  Input may be missing only if the peer still waits for an
answer (`Owed`).  `Sound` and `Fresh` are what the operators of `Http` must keep for
this, also where they go on after a callee has ended the request: a block in a response
state has a route, unless the socket is marked; a socket is shut only between requests;
the boundary is all that is allocated; a new request starts with no version.  `After(c)`
is where an operator may take a connection `c`: to one that is `Sound`, in the same
state or with the request ended, and never unmarked; one lemma per operator puts
its results there.  `Allowed` says which call a handler is in, `Placed` where a marked
connection can be.  Consuming input is a few lemmas about sequences
(`ConsumeRest`, `HeaderPartLine`); most of the work is in `HeaderLine`, where each
header leaves a shorter `HeaderPart`.

`WireProofs` adds `Wired`.  A wire is `Clear` when nothing in it is garbled.  On a
connection that is `Quiet` (shut, or with a hole in the response) no send can change
that, which settles all that `http_error`, `finalize` and the handler do after a failure;
`Over` adds the responses that have ended.  Otherwise the invariant says what the
handler has still to send for the response to be what its head announces: `Tells(c, ops,
status)` inside a call, with the operations and the status to come, `Told` between
calls.  Each operation has a lemma that takes its first operation off `Tells`, and
the caller's part, `AfterStatus`, one that takes `Tells(c, <<>>, status)` to `Told`.

`CallbackEnds` is about the loops of a callback (`do_read`, the walk over the routes, the
rounds over the body, the rounds of TLS).  `Work` is five numbers: the units on the network,
the units in the buffer, the stage on the way back to the select, the routes to try, the
operations of the handler to come.  A step that is neither in the select nor the peer's
makes it smaller in lexicographic order.  That needs `InStep` only, and not the rest of the
contract: `CallbacksEnd` is `Spec /\ []InStep => CallbackEnds` from `Draining` alone, also
for chunked bodies and whatever sends fail; `CallbacksReturn` takes the premise from
`StaysInStep`.  Its invariant `DrainInv` says that a handler which is handed a body still
has a receive to make, has made one, or has ended the request, so that after its return the
buffer holds less than at the call; one lemma per action (`...Descends`) finds the number
that went down.
`WorkRunsOut` shows that `Work` consists of natural numbers and its order has no infinite
descent.  So the part of `Served` that a proof can reach is proved: no callback spins.  That
each request meets its end is left to TLC.

TLC checked both `Kept` and `Wired` as invariants of the session's runs before they were
proved.

### Worker (`WorkerProofs`)

For every number of slots and connections, whatever fails and however long anything
takes:

* `SlotsImplemented`: `Spec => SlotsSpec`, the refinement of `Slots`;
* `AcceptReady`: `Spec => []AcceptNeverWaits`;
* `TypesKept`: `Spec => []TypeOK`;
* `OnlyTheseFaults`: `Spec => FaultsHaveCause`;
* `OnlyIdleTimesOut`: `Spec => TimeoutMeansIdle`;
* `PassServesAll`: `Spec => ReportedIsServed`;
* `PassRunsOut`: every step of the worker begins a pass of `worker_loop` or leaves fewer of
  its steps to the end of it (`PassLeft`), and no thread, peer or tick adds one.

The invariant of the first two, `IInv`, says that a slot not in use is zero as far as
`close` can tell (`SlotInv`) and that a connection is in one place: not opened, at one place
of one queue, in one slot, or closed (`Apart`).  `KeepsOwner` and `Closes` are the two ways
to change a slot in use; `AcceptStep` is the only `Admit`.

`TimeInv` is the invariant of the others.  The time since `last_active` is never negative
and at most `rest + lag` (`TimeOK`); where the worker is in `pre_select` tells what the slot
has, unless a handshake has zeroed it (`LoopInv`); a slot is accepted, then connected, then
has its `evt`, then its `user` (`SlotOK`); a handshake is that of its slot's connection, or
its connection is closed (`ThreadInv`); and what is watched is connected, and of what
`select` reported the sockets before `pos` are `served` (`Watched`).  `FaultStep` reads the
three causes off it.

### Server (`ServerProofs`)

`ServerTypes`, `WorkerFindsTimer` and `TimerIsSeenTo` are `TypeOK`, `TimerToDelete` and
`NoTimerLeft` for any number of servers and blocks, on both ports, without an assumption
on the allocator.  The invariant: memory belongs to the server that the application is at
or to none (`OwnInv`); what its calls have done by each point, in particular that the flag
is set after the timer was started (`AppInv`); and that a timer goes when its worker goes
(`EndInv`).  After `Free` a server's worker has no step left but `Stray`, so nothing
has to be said of what it would find.

### Routes (`RoutesProofs`), assuming `~Shared`

`ListHoldsTheRoutes`, `FreedOnlyUnderIt`, `OnlyTheNewestLacks` and
`ListImplementsTable` are `ListIsTable`, `FreedUnderIt`, `OnlyHalfFilled` and the
refinement `TableSpec`; `RoutesTypes` is `TypeOK`.  The invariant: the table is in the
order of allocation (`Ordered`), so no route is in it twice and the list has no
cycle; what an append has done by each statement (`CallInv`, `LastInv`); which routes
are complete (`Filled`); and what the worker holds is in the table unless its session is
`stale` (`WorkerInv`).

### Text (`TextProofs`)

For strings of every length: `FirstPlace` and `NothingBehind` (`find` and `findp`
return the first place; `find` reads inside the window), `AcceptsOnlyGlobs` (`fnmatch`
says yes to globs only: at each pass what was consumed of the string is given to what
was consumed of the pattern), `PlainRoutesMatch` (`PlainGlobs`: a pattern without a star
before its end refuses nothing it matches, as there is nothing to go back to),
and `NeverOvertakes` (the writing pointer of `parse_path` stays behind the reading one, and
everything from it on is what the peer sent).

Three action properties are the core of `Returns`: `FindPassesShrink` (a pass returns, goes
on to a later place or compares one more byte at this one), `MatchPassesShrink` (a pass
decides or consumes a character of the path, which is never given back) and
`PathPassesShrink` (a pass ends or reads on in the target), each with a number, for `find`
two, that is natural and gets smaller.

### Only model-checked

* `Served`, `Admitted` and `Returns` are liveness, which is out of the prover's
  reach.  That the loops they depend on leave less to do at every step is proved
  (`CallbacksEnd`, `PassRunsOut`, the three theorems on text); that the worker takes the
  steps, and what they come to, is TLC's.
* `SameSegments` compares with the segments of the whole target: what a loop computes for
  every string needs induction over data, which the prover does not do with the
  operators at hand.
* What `session_live` checks of chunked request bodies: `Orderly` excludes them, as the
  code reads a single chunk only.

## Not modelled

* `ews_add_client_cert`, which changes the mbedtls configuration while handshake
  threads read it: what mbedtls does then is not in this repository.
* The order of the mbedtls calls; semaphores (nothing uses them); mutexes (only one
  thread takes the server's); a `calloc` that fails before anything else has happened.
* The listener's `on_close`, which nothing reaches: no listener has a timeout or is
  marked.
* Short writes of `send`: nothing in the code looks at the amount sent.
* The size of the buffers that formatted sends are printed into (`http_sendf`,
  `http_raw_sendf`), and `path_len` as handlers read it.
* What a program does after it has used freed memory or called through a NULL pointer: the
  models stop there.
* The method, logging, the configuration header, the build.

## Plan

1. (done) `Http`, `Session`, `MCSession`: the session, and its proofs.
2. (done) `Slots`, `Worker`: the worker over several sockets; the refinement and the
   proofs about time, which is not bounded but by the length of a pass.
3. (done) `Server`: start, stop, the reaper, both ports' timers, freed memory.
4. (done) `Routes`, `Table`: append and clear at any time against the walk; the refinement.
5. (done) `Find`, `Match`, `ParsePath` against reference definitions.
6. (done) `Dialogue`: what a session promises an application; the refinement.
7. (done) `Contract`: the session's safety from a contract on peers and handlers, with
   its proofs up to readable answers.
   (done) The loops: what each step of a callback, a pass of the worker and a pass over a
   text leaves less of.
8. (left) `Contract` for a chunked request body that comes last; short writes; the
   client certificates.
