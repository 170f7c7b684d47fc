----------------------------- MODULE ServerProofs -----------------------------
(* Proofs about Server, for both ports, any number of servers started one   *)
(* after the other, and an allocator that may hand out a block as soon as   *)
(* it is freed.                                                             *)
EXTENDS Server, TLAPS

\* Memory belongs to the server that the application is at, or to none.
OwnInv ==
  /\ \A b \in Blocks : memory[b].owner # None =>
       memory[b].owner = run /\ app # "idle" /\ home[run] = b
  /\ app # "idle" => run \in Run /\ Own(run)

Early == app \in {"http", "crypto", "https", "thread", "fail"}
Stopping == app \in {"arm", "flag", "free"}
Unarmed(n) == timer[n] # "armed" /\ "start" \notin queue[n] /\ reaper[n] = "idle"
Untouched(n) == timer[n] = "none" /\ queue[n] = {} /\ reaper[n] = "idle"

\* What ews_init and ews_destroy have done by then.
AppInv ==
  /\ \A n \in Run : n > run => thread[n] = "none" /\ Untouched(n)
  /\ Early => thread[run] = "none" /\ ~Mine.shutdown
  /\ Early \/ app = "running" => Untouched(run) /\ Mine.timer = None
  /\ app = "arm" => Unarmed(run)
  /\ run \notin refused /\ app \in {"running", "arm", "flag"} => ~Mine.shutdown
  /\ run \notin refused /\ Stopping => HasTimer(run) /\ timer[run] # "none"

\* The flag is seen once the timer is there, and the timer goes when the worker goes.
EndInv ==
  \A n \in Run \ refused :
    /\ Own(n) /\ thread[n] \in {"stop", "delete", "exit"} => app = "free"
    /\ reaper[n] = "delete" => thread[n] = "gone" /\ platform = "freertos"
    /\ Deleted(n) => thread[n] \in {"exit", "gone"}
    /\ platform = "freertos" /\ timer[n] = "deleted" => queue[n] \subseteq {"delete"}
    /\ thread[n] = "exit" => Deleted(n)
    /\ thread[n] = "gone" => Deleted(n) \/ reaper[n] = "delete"

IInv == TypeOK /\ OwnInv /\ AppInv /\ EndInv

LEMMA RunIsNotNone == /\ None \notin Run /\ Run \subseteq Nat
                      /\ \A n \in Nat : n < Starts => n + 1 \in Run
BY ServerConstants DEF None, Run

LEMMA OnlyRunOwns ==
  ASSUME TypeOK, OwnInv, NEW n \in Run, Own(n)
  PROVE  n = run /\ app # "idle"
BY RunIsNotNone DEF TypeOK, OwnInv, Own

LEMMA Starting == Init => IInv
<1> SUFFICES ASSUME Init PROVE IInv
  OBVIOUS
<1>1. TypeOK
  BY DEF Init, TypeOK, AppAt, ThreadAt, TimerAt, ReaperAt, Memory, Zeroed
<1>2. OwnInv /\ AppInv
  BY RunIsNotNone DEF Init, OwnInv, AppInv, Early, Stopping, Unarmed, Untouched, Zeroed, None
<1>3. EndInv
  BY DEF Init, EndInv, Deleted
<1> QED BY <1>1, <1>2, <1>3 DEF IInv

-----------------------------------------------------------------------------
(* The calls of the application.                                           *)

LEMMA CallocKeeps ==
  ASSUME IInv, NEW b \in Blocks, Calloc(b)
  PROVE  IInv'
<1> USE DEF IInv
<1>1. /\ app = "idle" /\ app' = "http" /\ run < Starts /\ run' = run + 1
      /\ home' = [home EXCEPT ![run + 1] = b]
      /\ memory' = [memory EXCEPT ![b] = [Zeroed EXCEPT !.owner = run + 1]]
      /\ UNCHANGED <<platform, thread, timer, queue, reaper, bound, refused, fault>>
  BY DEF Calloc, AppGoes, timerVars
<1>2. run \in Nat /\ run' \in Run /\ run' # None
  BY <1>1, RunIsNotNone DEF TypeOK, None
<1>3. memory'[b] = [owner |-> run', shutdown |-> FALSE, timer |-> None] /\ home'[run'] = b
  BY <1>1, <1>2 DEF TypeOK, Zeroed
<1>4. \A c \in Blocks \ {b} : memory'[c] = memory[c] /\ memory[c].owner = None
  BY <1>1 DEF TypeOK, OwnInv
<1>5. \A n \in Run \ {run'} : home'[n] = home[n]
  BY <1>1 DEF TypeOK
<1>6. TypeOK'
  <2>1. memory' \in [Blocks -> Memory]
    BY <1>1, <1>2 DEF TypeOK, Memory, Zeroed
  <2>2. home' \in [Run -> Blocks]
    BY <1>1 DEF TypeOK
  <2> QED BY <1>1, <1>2, <2>1, <2>2 DEF TypeOK, AppAt
<1>7. OwnInv'
  BY <1>1, <1>2, <1>3, <1>4 DEF OwnInv, Own
<1>8. AppInv'
  <2>1. thread[run'] = "none" /\ Untouched(run)'
    <3>1. run' > run
      BY <1>1, <1>2
    <3> QED BY <1>1, <1>2, <3>1 DEF AppInv, Untouched
  <2>2. \A n \in Run : n > run' => n > run
    BY <1>1, <1>2, RunIsNotNone
  <2> QED BY <1>1, <1>2, <1>3, <2>1, <2>2 DEF AppInv, Early, Stopping, Unarmed, Untouched, Mine
<1>9. EndInv'
  <2>1. thread[run'] = "none"
    <3>1. run' > run
      BY <1>1, <1>2
    <3> QED BY <1>1, <1>2, <3>1 DEF AppInv
  <2>2. \A n \in Run \ {run'} : ~Own(n)'
    BY <1>1, <1>2, <1>3, <1>4, RunIsNotNone DEF Own, TypeOK
  <2> QED BY <1>1, <1>2, <2>1, <2>2 DEF EndInv, Deleted
<1> QED BY <1>6, <1>7, <1>8, <1>9

\* Steps that change at most where the application is, what is bound and what is refused.
LEMMA ListenKeeps ==
  ASSUME IInv, ListenHttp \/ ListenHttps \/ Crypto \/ ThreadRefused
  PROVE  IInv'
<1> USE DEF IInv
<1>1. /\ Early /\ app # "fail" /\ app' \in {"crypto", "https", "thread", "fail", "running"}
      /\ app' = "running" => run \in refused'
      /\ refused' \in {refused, refused \cup {run}}
      /\ UNCHANGED <<platform, run, home, memory, thread, timer, queue, reaper, fault>>
  BY DEF ListenHttp, ListenHttps, Crypto, ThreadRefused, AppGoes, Listen, Early, timerVars, Refused
<1>2. run \in Run
  BY <1>1 DEF OwnInv, Early
<1>3. bound' \in [Protocol -> {None} \cup Run]
  <2>1. \/ bound' = bound
        \/ \E proto \in Protocol : bound' = [bound EXCEPT ![proto] = run]
    BY DEF ListenHttp, ListenHttps, Crypto, ThreadRefused, Listen, Protocol
  <2> QED BY <2>1, <1>2 DEF TypeOK
<1>4. TypeOK'
  BY <1>1, <1>2, <1>3 DEF TypeOK, AppAt
<1>5. OwnInv' /\ AppInv'
  BY <1>1, <1>2 DEF OwnInv, Own, AppInv, Early, Stopping, Unarmed, Untouched, HasTimer, Mine
<1>6. EndInv'
  <2>1. \A n \in Run : Own(n) => thread[n] = "none"
    BY <1>1, OnlyRunOwns DEF AppInv
  <2> QED BY <1>1, <2>1 DEF EndInv, Deleted, Own
<1> QED BY <1>4, <1>5, <1>6

LEMMA ThreadStartsKeeps ==
  ASSUME IInv, ThreadStarts
  PROVE  IInv'
<1> USE DEF IInv
<1>1. /\ app = "thread" /\ app' = "running"
      /\ thread' = [thread EXCEPT ![run] = "loop"]
      /\ UNCHANGED <<platform, run, home, memory, timer, queue, reaper, bound, refused, fault>>
  BY DEF ThreadStarts, AppGoes, timerVars
<1>2. run \in Run /\ thread'[run] = "loop" /\ \A n \in Run \ {run} : thread'[n] = thread[n]
  BY <1>1 DEF OwnInv, TypeOK
<1>3. Untouched(run) /\ ~Mine.shutdown
  BY <1>1 DEF AppInv, Early
<1>4. TypeOK'
  BY <1>1 DEF TypeOK, AppAt, ThreadAt
<1>5. OwnInv' /\ AppInv'
  BY <1>1, <1>2, <1>3, RunIsNotNone DEF OwnInv, Own, AppInv, Early, Stopping, Unarmed, Untouched, Mine
<1>6. EndInv'
  BY <1>1, <1>2, <1>3 DEF EndInv, Deleted, Own, OwnInv, Untouched
<1> QED BY <1>4, <1>5, <1>6

\* Memory that is given back is no one's.
LEMMA FreeKeeps ==
  ASSUME IInv, Fail \/ Free
  PROVE  IInv'
<1> USE DEF IInv
<1>1. /\ app \in {"fail", "free"} /\ app' = "idle"
      /\ memory' = [memory EXCEPT ![home[run]].owner = None]
      /\ UNCHANGED <<platform, run, home, thread, timer, queue, reaper, bound, refused, fault>>
  BY DEF Fail, Free, AppGoes, timerVars
<1>2. run \in Run /\ home[run] \in Blocks
  BY <1>1 DEF OwnInv, TypeOK
<1>3. \A b \in Blocks : memory'[b].owner = None
  BY <1>1, <1>2 DEF OwnInv, TypeOK, Memory
<1>4. memory' \in [Blocks -> Memory]
  BY <1>1, <1>2 DEF TypeOK, Memory
<1>5. TypeOK'
  BY <1>1, <1>4 DEF TypeOK, AppAt
<1>6. OwnInv' /\ AppInv'
  BY <1>1, <1>3 DEF OwnInv, AppInv, Early, Stopping, Unarmed, Untouched
<1>7. EndInv'
  <2>1. \A n \in Run : ~Own(n)'
    BY <1>1, <1>3, RunIsNotNone DEF Own, TypeOK
  <2> QED BY <1>1, <2>1 DEF EndInv, Deleted
<1> QED BY <1>5, <1>6, <1>7

\* Steps of ews_destroy.
LEMMA TimerInitKeeps ==
  ASSUME IInv, TimerInit
  PROVE  IInv'
<1> USE DEF IInv
<1>1. /\ app = "running" /\ app' = "arm"
      /\ memory' = [memory EXCEPT ![home[run]].timer = run]
      /\ timer' = [timer EXCEPT ![run] = "created"]
      /\ UNCHANGED <<platform, run, home, thread, queue, reaper, bound, refused, fault>>
  BY DEF TimerInit, AppGoes
<1>2. run \in Run /\ home[run] \in Blocks
  BY <1>1 DEF OwnInv, TypeOK
<1>3. /\ \A b \in Blocks : /\ memory'[b].owner = memory[b].owner
                          /\ memory'[b].shutdown = memory[b].shutdown
      /\ memory'[home[run]].timer = run
  BY <1>1, <1>2 DEF TypeOK, Memory
<1>4. timer'[run] = "created" /\ \A n \in Run \ {run} : timer'[n] = timer[n]
  BY <1>1, <1>2 DEF TypeOK
<1>5. TypeOK'
  <2>1. memory' \in [Blocks -> Memory]
    BY <1>1, <1>2 DEF TypeOK, Memory
  <2>2. timer' \in [Run -> TimerAt]
    BY <1>1 DEF TypeOK, TimerAt
  <2> QED BY <1>1, <2>1, <2>2 DEF TypeOK, AppAt
<1>6. OwnInv'
  BY <1>1, <1>2, <1>3 DEF OwnInv, Own
<1>7. AppInv'
  BY <1>1, <1>2, <1>3, <1>4, RunIsNotNone
  DEF AppInv, Early, Stopping, Unarmed, Untouched, HasTimer, Mine, None
<1>8. EndInv'
  <2> SUFFICES ASSUME NEW n \in Run \ refused PROVE EndInv!(n)'
    BY <1>1 DEF EndInv
  <2>1. Own(n)' <=> Own(n)
    BY <1>1, <1>3 DEF Own, TypeOK
  <2>2. Own(n) => thread[n] \notin {"stop", "delete", "exit"}
    BY <1>1 DEF EndInv
  <2>3. n = run => thread[n] \notin {"exit", "gone"} /\ Untouched(n)
    BY <1>1 DEF EndInv, AppInv, Deleted, Untouched
  <2> QED BY <1>1, <1>4, <2>1, <2>2, <2>3 DEF EndInv, Deleted, Untouched
<1> QED BY <1>5, <1>6, <1>7, <1>8

LEMMA TimerRefusedKeeps ==
  ASSUME IInv, TimerRefused
  PROVE  IInv'
<1> USE DEF IInv
<1>1. /\ app = "running" /\ app' = "arm" /\ refused' = refused \cup {run}
      /\ UNCHANGED <<platform, run, home, memory, thread, timer, queue, reaper, bound, fault>>
  BY DEF TimerRefused, AppGoes, timerVars, Refused
<1>2. run \in Run
  BY <1>1 DEF OwnInv
<1>3. TypeOK'
  BY <1>1, <1>2 DEF TypeOK, AppAt
<1>4. OwnInv' /\ AppInv'
  BY <1>1, <1>2 DEF OwnInv, Own, AppInv, Early, Stopping, Unarmed, Untouched
<1>5. EndInv'
  <2>1. \A n \in Run \ refused' : ~Own(n)
    BY <1>1, OnlyRunOwns
  <2> QED BY <1>1, <2>1 DEF EndInv, Deleted, Own
<1> QED BY <1>3, <1>4, <1>5

LEMMA TimerStartKeeps ==
  ASSUME IInv, TimerStart
  PROVE  IInv'
<1> USE DEF IInv
<1>1. /\ app = "arm" /\ app' = "flag" /\ ~Deleted(run)
      /\ timer' \in {timer, [timer EXCEPT ![run] = "armed"]}
      /\ queue' \in {queue, [queue EXCEPT ![run] = {"start"}]}
      /\ UNCHANGED <<platform, run, home, memory, thread, reaper, bound, refused, fault>>
  BY DEF TimerStart, AppGoes
<1>2. run \in Run
  BY <1>1 DEF OwnInv
<1>3. /\ timer'[run] \in {timer[run], "armed"} /\ queue'[run] \in {queue[run], {"start"}}
      /\ \A n \in Run \ {run} : timer'[n] = timer[n] /\ queue'[n] = queue[n]
  BY <1>1, <1>2 DEF TypeOK
<1>4. TypeOK'
  <2>1. timer' \in [Run -> TimerAt]
    BY <1>1 DEF TypeOK, TimerAt
  <2>2. queue' \in [Run -> SUBSET Command]
    BY <1>1 DEF TypeOK, Command
  <2> QED BY <1>1, <2>1, <2>2 DEF TypeOK, AppAt
<1>5. OwnInv'
  BY <1>1 DEF OwnInv, Own
<1>6. AppInv'
  BY <1>1, <1>2, <1>3, RunIsNotNone DEF AppInv, Early, Stopping, Unarmed, Untouched, HasTimer, Mine
<1>7. EndInv'
  <2> SUFFICES ASSUME NEW n \in Run \ refused PROVE EndInv!(n)'
    BY <1>1 DEF EndInv
  <2>1. CASE n = run
    <3>1. Own(n)
      BY <1>1, <2>1 DEF OwnInv
    <3>2. thread[n] \notin {"stop", "delete", "exit", "gone"} /\ reaper[n] # "delete"
      BY <1>1, <2>1, <3>1 DEF EndInv, AppInv, Unarmed
    <3>3. ~Deleted(n)'
      BY <1>1, <1>3, <2>1 DEF Deleted
    <3> QED BY <1>1, <3>2, <3>3 DEF Deleted
  <2>2. CASE n # run
    <3>1. Own(n)' <=> Own(n)
      BY <1>1 DEF Own
    <3>2. ~Own(n)
      BY <2>2, OnlyRunOwns
    <3> QED BY <1>1, <1>3, <2>2, <3>1, <3>2 DEF EndInv, Deleted
  <2> QED BY <2>1, <2>2
<1> QED BY <1>4, <1>5, <1>6, <1>7

LEMMA SetShutdownKeeps ==
  ASSUME IInv, SetShutdown
  PROVE  IInv'
<1> USE DEF IInv
<1>1. /\ app = "flag" /\ app' = "free"
      /\ memory' = [memory EXCEPT ![home[run]].shutdown = TRUE]
      /\ UNCHANGED <<platform, run, home, thread, timer, queue, reaper, bound, refused, fault>>
  BY DEF SetShutdown, AppGoes, timerVars
<1>2. run \in Run /\ home[run] \in Blocks
  BY <1>1 DEF OwnInv, TypeOK
<1>3. \A b \in Blocks : memory'[b].owner = memory[b].owner /\ memory'[b].timer = memory[b].timer
  BY <1>1, <1>2 DEF TypeOK, Memory
<1>4. TypeOK'
  <2>1. memory' \in [Blocks -> Memory]
    BY <1>1, <1>2 DEF TypeOK, Memory
  <2> QED BY <1>1, <2>1 DEF TypeOK, AppAt
<1>5. OwnInv' /\ AppInv'
  BY <1>1, <1>2, <1>3 DEF OwnInv, Own, AppInv, Early, Stopping, Unarmed, Untouched, HasTimer
<1>6. EndInv'
  <2>1. \A n \in Run : Own(n)' <=> Own(n)
    BY <1>1, <1>3 DEF Own, TypeOK
  <2> QED BY <1>1, <2>1 DEF EndInv, Deleted
<1> QED BY <1>4, <1>5, <1>6

-----------------------------------------------------------------------------
(* The worker.                                                             *)

\* What a step of the worker leaves alone.
LEMMA WorkerFrame ==
  ASSUME IInv, NEW n \in Run, NEW from, NEW to \in ThreadAt \ {"none"}, from # "none",
         WorkerGoes(n, from, to)
  PROVE  /\ run \in Nat /\ n <= run /\ (n = run => ~Early)
         /\ thread[n] = from /\ thread'[n] = to
         /\ \A m \in Run \ {n} : thread'[m] = thread[m]
         /\ thread' \in [Run -> ThreadAt]
         /\ UNCHANGED <<platform, app, run, home, bound, fault>>
<1>1. thread[n] = from /\ thread' = [thread EXCEPT ![n] = to]
  BY DEF WorkerGoes
<1>2. run \in Nat
  BY RunIsNotNone DEF IInv, TypeOK
<1>3. n <= run /\ (n = run => ~Early)
  BY <1>1, <1>2, RunIsNotNone DEF IInv, AppInv
<1> QED BY <1>1, <1>2, <1>3 DEF WorkerGoes, IInv, TypeOK, appVars

\* Steps of the worker before it has seen the flag.
LEMMA WorkingKeeps ==
  ASSUME IInv, NEW n \in Run,
         CheckFlag(n) \/ SelectTimesOut(n) \/ SelectReturns(n) \/ Callbacks(n)
  PROVE  IInv'
<1> USE DEF IInv
<1>1. PICK from \in {"loop", "select", "post"}, to \in {"loop", "select", "post", "stop"} :
        /\ WorkerGoes(n, from, to)
        /\ to = "stop" => Own(n) /\ memory[home[n]].shutdown
  BY DEF CheckFlag, SelectTimesOut, SelectReturns, Callbacks
<1>2. UNCHANGED <<memory, timer, queue, reaper, refused>>
  BY DEF CheckFlag, SelectTimesOut, SelectReturns, Callbacks, timerVars
<1>3. /\ run \in Nat /\ n <= run /\ (n = run => ~Early)
      /\ thread[n] = from /\ thread'[n] = to
      /\ \A m \in Run \ {n} : thread'[m] = thread[m]
      /\ thread' \in [Run -> ThreadAt]
      /\ UNCHANGED <<platform, app, run, home, bound, fault>>
  BY <1>1, WorkerFrame DEF ThreadAt
<1>4. TypeOK'
  BY <1>2, <1>3 DEF TypeOK
<1>5. OwnInv' /\ AppInv'
  BY <1>2, <1>3, RunIsNotNone
  DEF OwnInv, Own, AppInv, Early, Stopping, Unarmed, Untouched, HasTimer, Mine
<1>6. EndInv'
  <2> SUFFICES ASSUME NEW m \in Run \ refused PROVE EndInv!(m)'
    BY <1>2 DEF EndInv
  <2>1. Own(m)' <=> Own(m)
    BY <1>2, <1>3 DEF Own
  <2>2. m = n /\ to = "stop" => app = "free"
    BY <1>1, OnlyRunOwns DEF AppInv, Mine, Early, TypeOK, AppAt
  <2> QED BY <1>1, <1>2, <1>3, <2>1, <2>2 DEF EndInv, Deleted
<1> QED BY <1>4, <1>5, <1>6

LEMMA SelectFailsKeeps ==
  ASSUME IInv, NEW n \in Run, SelectFails(n)
  PROVE  IInv'
<1> USE DEF IInv
<1>1. /\ Own(n) /\ WorkerGoes(n, "select", "post")
      /\ memory' = [memory EXCEPT ![home[n]].shutdown = TRUE]
      /\ refused' = refused \cup {n}
      /\ UNCHANGED <<timer, queue, reaper>>
  BY DEF SelectFails, timerVars, Refused
<1>2. /\ run \in Nat /\ n <= run /\ (n = run => ~Early)
      /\ thread[n] = "select" /\ thread'[n] = "post"
      /\ \A m \in Run \ {n} : thread'[m] = thread[m]
      /\ thread' \in [Run -> ThreadAt]
      /\ UNCHANGED <<platform, app, run, home, bound, fault>>
  BY <1>1, WorkerFrame DEF ThreadAt
<1>3. n = run /\ home[n] \in Blocks
  BY <1>1, OnlyRunOwns DEF TypeOK
<1>4. \A b \in Blocks : memory'[b].owner = memory[b].owner /\ memory'[b].timer = memory[b].timer
  BY <1>1, <1>3 DEF TypeOK, Memory
<1>5. TypeOK'
  <2>1. [memory[home[n]] EXCEPT !.shutdown = TRUE] \in Memory
    BY <1>3 DEF TypeOK, Memory
  <2>2. memory' \in [Blocks -> Memory]
    BY <1>1, <2>1 DEF TypeOK
  <2> QED BY <1>1, <1>2, <1>3, <2>2 DEF TypeOK
<1>6. OwnInv'
  BY <1>2, <1>4 DEF OwnInv, Own, TypeOK
<1>7. AppInv'
  BY <1>1, <1>2, <1>3, <1>4, RunIsNotNone
  DEF AppInv, Early, Stopping, Unarmed, Untouched, HasTimer, Mine
<1>8. EndInv'
  <2> SUFFICES ASSUME NEW m \in Run \ refused, m # n PROVE EndInv!(m)'
    BY <1>1 DEF EndInv
  <2>1. Own(m)' <=> Own(m)
    BY <1>2, <1>4 DEF Own, TypeOK
  <2> QED BY <1>1, <1>2, <2>1 DEF EndInv, Deleted
<1> QED BY <1>5, <1>6, <1>7, <1>8

LEMMA TimerStopKeeps ==
  ASSUME IInv, NEW n \in Run, TimerStop(n)
  PROVE  IInv'
<1> USE DEF IInv
<1>1. /\ Own(n) /\ WorkerGoes(n, "stop", "delete")
      /\ \/ timer' = timer
         \/ timer[n] = "armed" /\ timer' = [timer EXCEPT ![n] = "stopped"]
      /\ \/ queue' = queue
         \/ HasTimer(n) /\ queue' = [queue EXCEPT ![n] = @ \cup {"stop"}]
      /\ UNCHANGED <<memory, reaper, refused>>
  BY DEF TimerStop
<1>2. /\ run \in Nat /\ n <= run /\ (n = run => ~Early)
      /\ thread[n] = "stop" /\ thread'[n] = "delete"
      /\ \A m \in Run \ {n} : thread'[m] = thread[m]
      /\ thread' \in [Run -> ThreadAt]
      /\ UNCHANGED <<platform, app, run, home, bound, fault>>
  BY <1>1, WorkerFrame DEF ThreadAt
<1>3. n = run
  BY <1>1, OnlyRunOwns
<1>4. /\ timer'[n] = timer[n] \/ (timer[n] = "armed" /\ timer'[n] = "stopped")
      /\ queue'[n] = queue[n] \/ (HasTimer(n) /\ queue'[n] = queue[n] \cup {"stop"})
      /\ \A m \in Run \ {n} : timer'[m] = timer[m] /\ queue'[m] = queue[m]
  BY <1>1 DEF TypeOK
<1>5. TypeOK'
  <2>1. timer' \in [Run -> TimerAt]
    BY <1>1 DEF TypeOK, TimerAt
  <2>2. queue' \in [Run -> SUBSET Command]
    BY <1>1 DEF TypeOK, Command
  <2> QED BY <1>1, <1>2, <2>1, <2>2 DEF TypeOK
<1>6. OwnInv'
  BY <1>1, <1>2 DEF OwnInv, Own
<1>7. AppInv'
  BY <1>1, <1>2, <1>3, <1>4, RunIsNotNone
  DEF AppInv, Early, Stopping, Unarmed, Untouched, HasTimer, Mine
<1>8. EndInv'
  <2> SUFFICES ASSUME NEW m \in Run \ refused PROVE EndInv!(m)'
    BY <1>1 DEF EndInv
  <2>1. Own(m)' <=> Own(m)
    BY <1>1, <1>2 DEF Own
  <2>2. CASE m = n
    <3>1. app = "free" /\ ~Deleted(n) /\ reaper[n] # "delete"
      BY <1>1, <1>2, <2>2 DEF EndInv
    <3>2. ~Deleted(n)'
      BY <1>4, <3>1 DEF Deleted
    <3> QED BY <1>1, <1>2, <2>2, <3>1, <3>2 DEF Deleted
  <2>3. CASE m # n
    BY <1>1, <1>2, <1>4, <2>1, <2>3 DEF EndInv, Deleted
  <2> QED BY <2>2, <2>3
<1> QED BY <1>5, <1>6, <1>7, <1>8

LEMMA TimerDestroyKeeps ==
  ASSUME IInv, NEW n \in Run, TimerDestroy(n)
  PROVE  IInv'
<1> USE DEF IInv
<1>1. /\ Own(n) /\ WorkerGoes(n, "delete", "exit")
      /\ \/ timer' = timer
         \/ HasTimer(n) /\ timer' = [timer EXCEPT ![n] = "deleted"]
      /\ platform = "freertos" => timer' = timer
      /\ \/ queue' = queue
         \/ HasTimer(n) /\ queue' = [queue EXCEPT ![n] = @ \cup {"delete"}]
      /\ UNCHANGED <<memory, reaper, refused>>
      /\ HasTimer(n) => Deleted(n)'
  BY ServerConstants DEF TimerDestroy, Deleted, TypeOK
<1>2. /\ run \in Nat /\ n <= run /\ (n = run => ~Early)
      /\ thread[n] = "delete" /\ thread'[n] = "exit"
      /\ \A m \in Run \ {n} : thread'[m] = thread[m]
      /\ thread' \in [Run -> ThreadAt]
      /\ UNCHANGED <<platform, app, run, home, bound, fault>>
  BY <1>1, WorkerFrame DEF ThreadAt
<1>3. n = run
  BY <1>1, OnlyRunOwns
<1>4. /\ timer'[n] = timer[n] \/ (HasTimer(n) /\ timer'[n] = "deleted")
      /\ platform = "freertos" => timer'[n] = timer[n]
      /\ queue'[n] = queue[n] \/ (HasTimer(n) /\ queue'[n] = queue[n] \cup {"delete"})
      /\ \A m \in Run \ {n} : timer'[m] = timer[m] /\ queue'[m] = queue[m]
  BY <1>1 DEF TypeOK
<1>5. TypeOK'
  <2>1. timer' \in [Run -> TimerAt]
    BY <1>1 DEF TypeOK, TimerAt
  <2>2. queue' \in [Run -> SUBSET Command]
    BY <1>1 DEF TypeOK, Command
  <2> QED BY <1>1, <1>2, <2>1, <2>2 DEF TypeOK
<1>6. OwnInv'
  BY <1>1, <1>2 DEF OwnInv, Own
<1>7. AppInv'
  BY <1>1, <1>2, <1>3, <1>4, RunIsNotNone
  DEF AppInv, Early, Stopping, Unarmed, Untouched, HasTimer, Mine
<1>8. EndInv'
  <2> SUFFICES ASSUME NEW m \in Run \ refused PROVE EndInv!(m)'
    BY <1>1 DEF EndInv
  <2>1. Own(m)' <=> Own(m)
    BY <1>1, <1>2 DEF Own
  <2>2. CASE m = n
    <3>1. app = "free" /\ ~Deleted(n) /\ reaper[n] # "delete" /\ HasTimer(n)
      BY <1>1, <1>2, <1>3, <2>2 DEF EndInv, AppInv, Stopping
    <3>2. platform = "freertos" => timer'[n] # "deleted"
      BY <1>4, <3>1 DEF Deleted
    <3> QED BY <1>1, <1>2, <2>2, <3>1, <3>2
  <2>3. CASE m # n
    BY <1>1, <1>2, <1>4, <2>1, <2>3 DEF EndInv, Deleted
  <2> QED BY <2>2, <2>3
<1> QED BY <1>5, <1>6, <1>7, <1>8

LEMMA ExitKeeps ==
  ASSUME IInv, NEW n \in Run, Exit(n)
  PROVE  IInv'
<1> USE DEF IInv
<1>1. WorkerGoes(n, "exit", "gone") /\ UNCHANGED <<memory, timer, queue, reaper, refused>>
  BY DEF Exit, timerVars
<1>2. /\ run \in Nat /\ n <= run /\ (n = run => ~Early)
      /\ thread[n] = "exit" /\ thread'[n] = "gone"
      /\ \A m \in Run \ {n} : thread'[m] = thread[m]
      /\ thread' \in [Run -> ThreadAt]
      /\ UNCHANGED <<platform, app, run, home, bound, fault>>
  BY <1>1, WorkerFrame DEF ThreadAt
<1>3. TypeOK'
  BY <1>1, <1>2 DEF TypeOK
<1>4. OwnInv' /\ AppInv'
  BY <1>1, <1>2, RunIsNotNone
  DEF OwnInv, Own, AppInv, Early, Stopping, Unarmed, Untouched, HasTimer, Mine
<1>5. EndInv'
  BY <1>1, <1>2 DEF EndInv, Deleted, Own
<1> QED BY <1>3, <1>4, <1>5

-----------------------------------------------------------------------------
(* The timer and the reaper.                                               *)

LEMMA ObeyKeeps ==
  ASSUME IInv, NEW n \in Run, NEW command \in Command, Obey(n, command)
  PROVE  IInv'
<1> USE DEF IInv
<1>1. /\ platform = "freertos" /\ Own(n)
      /\ command \in queue[n] /\ queue[n] \cap Earlier(command) = {}
      /\ queue' = [queue EXCEPT ![n] = @ \ {command}]
      /\ UNCHANGED <<platform, app, run, home, bound, memory, thread, reaper, refused, fault>>
  BY DEF Obey, appVars
<1>2. /\ queue'[n] = queue[n] \ {command}
      /\ \A m \in Run \ {n} : queue'[m] = queue[m] /\ timer'[m] = timer[m]
      /\ command = "start" => timer'[n] = "armed"
      /\ command = "stop" => timer'[n] \in {timer[n], "stopped"}
      /\ command = "delete" => timer'[n] = "deleted"
      /\ timer' \in [Run -> TimerAt]
  <2>1. CASE command = "start"
    BY <1>1, <2>1 DEF Obey, TypeOK, TimerAt
  <2>2. CASE command = "stop"
    BY <1>1, <2>2 DEF Obey, TypeOK, TimerAt
  <2>3. CASE command = "delete"
    BY <1>1, <2>3 DEF Obey, TypeOK, TimerAt
  <2> QED BY <2>1, <2>2, <2>3 DEF Command
<1>3. n = run
  BY <1>1, OnlyRunOwns
<1>4. TypeOK'
  BY <1>1, <1>2 DEF TypeOK, Command
<1>5. OwnInv'
  BY <1>1 DEF OwnInv, Own
<1>6. AppInv'
  <2>1. app = "arm" => command # "start"
    BY <1>1, <1>3 DEF AppInv, Unarmed
  <2>2. ~Early /\ app # "running"
    BY <1>1, <1>3 DEF AppInv, Untouched
  <2>3. timer[n] # "none" => timer'[n] # "none"
    BY <1>2 DEF Command
  <2>4. app = "arm" => Unarmed(run)'
    BY <1>1, <1>2, <1>3, <2>1 DEF AppInv, Unarmed, Command
  <2>5. \A m \in Run : m > run => m # n
    BY <1>3, RunIsNotNone DEF TypeOK
  <2> QED BY <1>1, <1>2, <1>3, <2>2, <2>3, <2>4, <2>5
      DEF AppInv, Early, Stopping, Untouched, HasTimer, Mine
<1>7. EndInv'
  <2> SUFFICES ASSUME NEW m \in Run \ refused PROVE EndInv!(m)'
    BY <1>1 DEF EndInv
  <2>1. Own(m)' <=> Own(m)
    BY <1>1 DEF Own
  <2>2. CASE m # n
    BY <1>1, <1>2, <2>1, <2>2 DEF EndInv, Deleted
  <2>3. CASE m = n
    <3>1. Deleted(n)' <=> Deleted(n)
      BY <1>1, <1>2, <2>3 DEF EndInv, Deleted, Command
    <3>2. timer'[n] = "deleted" => queue'[n] \subseteq {"delete"}
      BY <1>1, <1>2, <2>3 DEF EndInv, Command, Earlier, TypeOK
    <3> QED BY <1>1, <2>1, <2>3, <3>1, <3>2 DEF EndInv
  <2> QED BY <2>2, <2>3
<1> QED BY <1>4, <1>5, <1>6, <1>7

LEMMA RunsOutKeeps ==
  ASSUME IInv, NEW n \in Run, RunsOut(n)
  PROVE  IInv'
<1> USE DEF IInv
<1>1. /\ timer[n] = "armed" /\ (platform = "freertos" => TimerTaskFree /\ Own(n))
      /\ timer' = [timer EXCEPT ![n] = "expired"]
      /\ reaper' = [reaper EXCEPT ![n] = "called"]
      /\ UNCHANGED <<platform, app, run, home, bound, memory, thread, queue, refused, fault>>
  BY DEF RunsOut, appVars
<1>2. /\ timer'[n] = "expired" /\ reaper'[n] = "called"
      /\ \A m \in Run \ {n} : timer'[m] = timer[m] /\ reaper'[m] = reaper[m]
  BY <1>1 DEF TypeOK
<1>3. TypeOK'
  BY <1>1 DEF TypeOK, TimerAt, ReaperAt
<1>4. OwnInv'
  BY <1>1 DEF OwnInv, Own
<1>5. AppInv'
  <2>1. n <= run /\ (n = run => ~Early /\ app \notin {"running", "arm"})
    BY <1>1, RunIsNotNone DEF AppInv, Untouched, Unarmed, TypeOK
  <2> QED BY <1>1, <1>2, <2>1, RunIsNotNone
      DEF AppInv, Early, Stopping, Unarmed, Untouched, HasTimer, Mine
<1>6. EndInv'
  <2> SUFFICES ASSUME NEW m \in Run \ refused PROVE EndInv!(m)'
    BY <1>1 DEF EndInv
  <2>1. Own(m)' <=> Own(m)
    BY <1>1 DEF Own
  <2>2. CASE m # n
    BY <1>1, <1>2, <2>1, <2>2 DEF EndInv, Deleted
  <2>3. CASE m = n
    <3>1. reaper[n] # "delete"
      BY <1>1, <2>3 DEF EndInv, TimerTaskFree
    <3> QED BY <1>1, <1>2, <2>1, <2>3, <3>1 DEF EndInv, Deleted
  <2> QED BY <2>2, <2>3
<1> QED BY <1>3, <1>4, <1>5, <1>6

LEMMA ReaperKeeps ==
  ASSUME IInv, NEW n \in Run, Reaper(n)
  PROVE  IInv'
<1> USE DEF IInv
<1>1. /\ reaper[n] # "idle" /\ Own(n)
      /\ UNCHANGED <<platform, app, run, home, bound, memory, timer, refused, fault>>
  BY DEF Reaper, ReaperExits, ReaperKills, ReaperDeletes, appVars
<1>2. n = run
  BY <1>1, OnlyRunOwns
<1>3. ~Early /\ app \notin {"running", "arm"}
  BY <1>1, <1>2 DEF AppInv, Untouched, Unarmed
<1>4. CASE ReaperExits(n)
  <2>1. /\ platform = "linux" /\ reaper' = [reaper EXCEPT ![n] = "idle"]
        /\ UNCHANGED <<thread, queue>>
    BY <1>4 DEF ReaperExits
  <2>2. TypeOK' /\ OwnInv'
    BY <1>1, <2>1 DEF TypeOK, ReaperAt, OwnInv, Own
  <2>3. AppInv'
    BY <1>1, <1>2, <1>3, <2>1 DEF AppInv, Early, Stopping, Untouched, HasTimer, Mine, TypeOK
  <2>4. EndInv'
    BY <1>1, <2>1 DEF EndInv, Deleted, Own, TypeOK
  <2> QED BY <2>2, <2>3, <2>4
<1>5. CASE ReaperKills(n)
  <2>1. /\ platform = "freertos" /\ reaper' = [reaper EXCEPT ![n] = "delete"]
        /\ thread' = [thread EXCEPT ![n] = "gone"]
        /\ UNCHANGED queue
    BY <1>5 DEF ReaperKills
  <2>2. TypeOK' /\ OwnInv'
    BY <1>1, <2>1 DEF TypeOK, ReaperAt, ThreadAt, OwnInv, Own
  <2>3. AppInv'
    BY <1>1, <1>2, <1>3, <2>1, RunIsNotNone
    DEF AppInv, Early, Stopping, Untouched, HasTimer, Mine, TypeOK
  <2>4. EndInv'
    BY <1>1, <2>1 DEF EndInv, Deleted, Own, TypeOK
  <2> QED BY <2>2, <2>3, <2>4
<1>6. CASE ReaperDeletes(n)
  <2>1. /\ reaper[n] = "delete" /\ reaper' = [reaper EXCEPT ![n] = "idle"]
        /\ queue' = [queue EXCEPT ![n] = @ \cup {"delete"}]
        /\ UNCHANGED thread
    BY <1>6 DEF ReaperDeletes
  <2>2. TypeOK' /\ OwnInv'
    BY <1>1, <2>1 DEF TypeOK, ReaperAt, Command, OwnInv, Own
  <2>3. AppInv'
    BY <1>1, <1>2, <1>3, <2>1, RunIsNotNone
    DEF AppInv, Early, Stopping, Untouched, HasTimer, Mine, TypeOK
  <2>4. EndInv'
    BY <1>1, <2>1 DEF EndInv, Deleted, Own, TypeOK
  <2> QED BY <2>2, <2>3, <2>4
<1> QED BY <1>4, <1>5, <1>6 DEF Reaper

-----------------------------------------------------------------------------
(* All steps.                                                              *)

LEMMA UndefinedKeeps ==
  ASSUME IInv, StartsDeleted \/ \E n \in Run : Undefined(n)
  PROVE  IInv'
<1>1. /\ fault' \in {"stray", "no_timer", "timer_gone", "task_gone"}
      /\ UNCHANGED <<platform, app, run, home, bound, memory, thread, timer, queue, reaper,
                     refused>>
  BY DEF StartsDeleted, Undefined, Stray, StopsNothing, KillsTwice, Faults, appVars, timerVars
<1> QED BY <1>1 DEF IInv, TypeOK, OwnInv, Own, AppInv, Early, Stopping, Unarmed, Untouched,
                    HasTimer, Mine, EndInv, Deleted

LEMMA Stepping == IInv /\ [Next]_serverVars => IInv'
<1> SUFFICES ASSUME IInv, [Next]_serverVars PROVE IInv'
  OBVIOUS
<1>1. CASE UNCHANGED serverVars
  BY <1>1 DEF serverVars, IInv, TypeOK, OwnInv, Own, AppInv, Early, Stopping, Unarmed,
              Untouched, HasTimer, Mine, EndInv, Deleted
<1>2. CASE Application
  BY <1>2, CallocKeeps, ListenKeeps, ThreadStartsKeeps, FreeKeeps, TimerInitKeeps,
     TimerRefusedKeeps, TimerStartKeeps, SetShutdownKeeps DEF Application
<1>3. ASSUME NEW n \in Run, WorkerTask(n) PROVE IInv'
  BY <1>3, WorkingKeeps, SelectFailsKeeps, TimerStopKeeps, TimerDestroyKeeps, ExitKeeps
  DEF WorkerTask
<1>4. ASSUME NEW n \in Run, TimerTask(n) PROVE IInv'
  BY <1>4, ObeyKeeps, RunsOutKeeps DEF TimerTask
<1> QED BY <1>1, <1>2, <1>3, <1>4, ReaperKeeps, UndefinedKeeps DEF Next, Idle

-----------------------------------------------------------------------------
(* Theorems.                                                               *)

LEMMA Always == Spec => []IInv
<1> QED BY Starting, Stepping, PTL DEF Spec

\* Every variable keeps its type, however often servers are started and stopped.
THEOREM ServerTypes == Spec => []TypeOK
<1>1. IInv => TypeOK
  BY DEF IInv
<1> QED BY <1>1, Always, PTL

\* As long as the memory is its server's, a worker that has seen the flag finds a timer that
\* no one has deleted: ews_worker_destroy creates it before it sets the flag.
THEOREM WorkerFindsTimer == Spec => []TimerToDelete
<1>1. IInv => TimerToDelete
  <2> SUFFICES ASSUME IInv, NEW n \in Run \ refused, thread[n] \in {"stop", "delete"}, Own(n)
               PROVE  /\ HasTimer(n)
                      /\ timer[n] \notin {"none", "deleted"}
                      /\ "delete" \notin queue[n]
    BY DEF TimerToDelete
  <2>1. n = run /\ app = "free"
    BY OnlyRunOwns DEF IInv, EndInv
  <2>2. ~Deleted(n)
    BY DEF IInv, EndInv
  <2> QED BY <2>1, <2>2 DEF IInv, AppInv, Stopping, Deleted
<1> QED BY <1>1, Always, PTL

\* Worker and reaper between them see to the end of the timer, on either port.
THEOREM TimerIsSeenTo == Spec => []NoTimerLeft
<1>1. IInv => NoTimerLeft
  BY DEF IInv, EndInv, NoTimerLeft, Deleted
<1> QED BY <1>1, Always, PTL
=============================================================================
