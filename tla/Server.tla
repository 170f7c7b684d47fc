-------------------------------- MODULE Server --------------------------------
(***************************************************************************)
(* How a server starts and ends: ews_init and ews_destroy of src/server.c, *)
(* called in turn by the application, the life of the worker's thread in   *)
(* src/worker.c, and the timer that ews_destroy starts to end a worker     *)
(* that does not end by itself, on both ports.                             *)
(*                                                                         *)
(* ews_destroy does not wait for the worker: it frees the memory in which  *)
(* the worker finds its flag and its timer, and calloc may hand it to the  *)
(* next server at once.  What happens when the worker, the timer or the    *)
(* reaper uses memory that is no longer its server's is undefined: the     *)
(* model records the fault and stops there.                                *)
(***************************************************************************)
EXTENDS Naturals

CONSTANTS
  Platforms,    \* the ports: of "linux" and "freertos"
  Starts,       \* how often the application may call ews_init
  Blocks        \* the memory that calloc has

ASSUME ServerConstants ==
  /\ Platforms \subseteq {"linux", "freertos"}
  /\ Starts \in Nat

Run == 1..Starts
None == 0       \* a handle that calloc has set to zero, and no server
Protocol == {"http", "https"}

VARIABLES
  platform,
  app,          \* where the application is in its calls
  run,          \* how many servers it has started
  home,         \* the memory each server was given
  memory,       \* what is in each block, and whose it is
  thread,       \* each server's worker
  timer,        \* each server's timer
  queue,        \* the commands that FreeRTOS's timer task has yet to carry out
  reaper,       \* where task_reaper is, for each server's timer
  bound,        \* which server's listener is bound to the port of a protocol
  refused,      \* history: the servers of which the system has refused a call
  fault

serverVars == <<platform, app, run, home, memory, thread, timer, queue, reaper, bound,
                refused, fault>>
appVars   == <<app, run, home, bound>>
timerVars == <<timer, queue, reaper>>

AppAt == {"idle", "http", "crypto", "https", "thread", "fail", "running",
          "arm", "flag", "free"}
ThreadAt == {"none", "loop", "select", "post", "stop", "delete", "exit", "gone"}
TimerAt == {"none", "created", "armed", "stopped", "expired", "deleted"}
ReaperAt == {"idle", "called", "delete"}
Command == {"start", "stop", "delete"}

Memory == [owner : {None} \cup Run, shutdown : BOOLEAN, timer : {None} \cup Run]
Zeroed == [owner |-> None, shutdown |-> FALSE, timer |-> None]

Init ==
  /\ platform \in Platforms
  /\ app = "idle"
  /\ run = 0
  /\ home \in [Run -> Blocks]
  /\ memory = [b \in Blocks |-> Zeroed]
  /\ thread = [n \in Run |-> "none"]
  /\ timer = [n \in Run |-> "none"]
  /\ queue = [n \in Run |-> {}]
  /\ reaper = [n \in Run |-> "idle"]
  /\ bound = [proto \in Protocol |-> None]
  /\ refused = {}
  /\ fault = "none"

AppGoes(from, to) == app = from /\ app' = to

Alive(n) == thread[n] \notin {"none", "gone"}
Refused(n) == refused' = refused \cup {n}
Own(n) == memory[home[n]].owner = n
Mine == memory[home[run]]       \* the memory of the application's server

-----------------------------------------------------------------------------
(* ews_init.                                                               *)

\* Mutant of Calloc: nothing is set to zero.
Malloc(b) ==
  /\ AppGoes("idle", "http")
  /\ run < Starts
  /\ memory[b].owner = None
  /\ run' = run + 1
  /\ home' = [home EXCEPT ![run + 1] = b]
  /\ memory' = [memory EXCEPT ![b] = [owner |-> run + 1]]
  /\ UNCHANGED <<platform, thread, timerVars, bound, refused, fault>>

Calloc(b) ==
  /\ AppGoes("idle", "http")
  /\ run < Starts
  /\ memory[b].owner = None
  /\ run' = run + 1
  /\ home' = [home EXCEPT ![run + 1] = b]
  /\ memory' = [memory EXCEPT ![b] = [Zeroed EXCEPT !.owner = run + 1]]
  /\ UNCHANGED <<platform, thread, timerVars, bound, refused, fault>>

\* socket and listen may fail; bind does while another socket listens on the port.
\* listener_init then closes the descriptor, and ews_init goes on without.
Listen(proto) ==
  /\ \/ bound[proto] = None /\ bound' = [bound EXCEPT ![proto] = run]
     \/ UNCHANGED bound
  /\ UNCHANGED <<platform, run, home, memory, thread, timerVars, refused, fault>>

ListenHttp  == AppGoes("http", "crypto") /\ Listen("http")
ListenHttps == AppGoes("https", "thread") /\ Listen("https")

\* There may be no certificate, or one of the calls that prepare mbedtls may fail.
Crypto ==
  /\ \E to \in {"https", "thread", "fail"} : AppGoes("crypto", to)
  /\ UNCHANGED <<platform, run, home, memory, thread, timerVars, bound, refused, fault>>

Fail ==
  /\ AppGoes("fail", "idle")
  /\ memory' = [memory EXCEPT ![home[run]].owner = None]
  /\ UNCHANGED <<platform, run, home, thread, timerVars, bound, refused, fault>>

ThreadStarts ==
  /\ AppGoes("thread", "running")
  /\ thread' = [thread EXCEPT ![run] = "loop"]
  /\ UNCHANGED <<platform, run, home, memory, timerVars, bound, refused, fault>>

\* pthread_create returns a positive number when it fails, which is not < 0.
ThreadRefused ==
  /\ AppGoes("thread", IF platform = "linux" THEN "running" ELSE "fail")
  /\ Refused(run)
  /\ UNCHANGED <<platform, run, home, memory, thread, timerVars, bound, fault>>

-----------------------------------------------------------------------------
(* ews_destroy.                                                            *)

\* Mutant of TimerInit: the flag is set first, and then the timer created.
TimerInitLate ==
  \/ /\ app = "running" /\ ~Mine.shutdown
     /\ memory' = [memory EXCEPT ![home[run]].shutdown = TRUE]
     /\ UNCHANGED <<platform, appVars, thread, timerVars, refused, fault>>
  \/ /\ AppGoes("running", "arm") /\ Mine.shutdown
     /\ memory' = [memory EXCEPT ![home[run]].timer = run]
     /\ timer' = [timer EXCEPT ![run] = "created"]
     /\ UNCHANGED <<platform, run, home, thread, queue, reaper, bound, refused, fault>>

\* What ews_timer_init returns is not looked at.
TimerInit ==
  /\ AppGoes("running", "arm")
  /\ memory' = [memory EXCEPT ![home[run]].timer = run]
  /\ timer' = [timer EXCEPT ![run] = "created"]
  /\ UNCHANGED <<platform, run, home, thread, queue, reaper, bound, refused, fault>>

TimerRefused ==
  /\ platform = "linux"
  /\ AppGoes("running", "arm")
  /\ Refused(run)
  /\ UNCHANGED <<platform, run, home, memory, thread, timerVars, bound, fault>>

Deleted(n) == timer[n] = "deleted" \/ "delete" \in queue[n]

\* A stop of a worker whose select failed, if it comes first, has nothing to stop.
TimerStart ==
  /\ AppGoes("arm", "flag")
  /\ ~Deleted(run)
  /\ IF platform = "linux" /\ timer[run] # "none"
     THEN timer' = [timer EXCEPT ![run] = "armed"] ELSE UNCHANGED timer
  /\ IF platform = "freertos"
     THEN queue' = [queue EXCEPT ![run] = {"start"}] ELSE UNCHANGED queue
  /\ UNCHANGED <<platform, run, home, memory, thread, reaper, bound, refused, fault>>

SetShutdown ==
  /\ AppGoes("flag", "free")
  /\ memory' = [memory EXCEPT ![home[run]].shutdown = TRUE]
  /\ UNCHANGED <<platform, run, home, thread, timerVars, bound, refused, fault>>

\* The listeners' descriptors are not closed.
Free ==
  /\ AppGoes("free", "idle")
  /\ memory' = [memory EXCEPT ![home[run]].owner = None]
  /\ UNCHANGED <<platform, run, home, thread, timerVars, bound, refused, fault>>

Application ==
  \/ \E b \in Blocks : Calloc(b)
  \/ ListenHttp \/ Crypto \/ ListenHttps \/ ThreadStarts \/ ThreadRefused \/ Fail
  \/ TimerInit \/ TimerRefused \/ TimerStart \/ SetShutdown \/ Free

-----------------------------------------------------------------------------
(* worker_task, on the n-th thread, in memory that is still its server's.  *)

WorkerGoes(n, from, to) ==
  /\ thread[n] = from
  /\ thread' = [thread EXCEPT ![n] = to]
  /\ UNCHANGED <<platform, appVars, fault>>

CheckFlag(n) ==
  /\ Own(n)
  /\ WorkerGoes(n, "loop", IF memory[home[n]].shutdown THEN "stop" ELSE "select")
  /\ UNCHANGED <<memory, timerVars, refused>>

SelectTimesOut(n) ==
  /\ WorkerGoes(n, "select", "loop")
  /\ UNCHANGED <<memory, timerVars, refused>>

SelectReturns(n) ==
  /\ WorkerGoes(n, "select", "post")
  /\ UNCHANGED <<memory, timerVars, refused>>

SelectFails(n) ==
  /\ Own(n)
  /\ WorkerGoes(n, "select", "post")
  /\ memory' = [memory EXCEPT ![home[n]].shutdown = TRUE]
  /\ Refused(n)
  /\ UNCHANGED timerVars

\* The callbacks of post_select, which may take any time.
Callbacks(n) ==
  /\ Own(n)
  /\ WorkerGoes(n, "post", "loop")
  /\ UNCHANGED <<memory, timerVars, refused>>

\* Mutant of TimerStop: the worker returns, and leaves its end to thread_wrapper.
WorkerLeaves(n) ==
  /\ Own(n)
  /\ WorkerGoes(n, "stop", "gone")
  /\ UNCHANGED <<memory, timerVars, refused>>

\* After a failed select the handle is zero: on Linux it names no timer of the server.
HasTimer(n) == memory[home[n]].timer # None

\* On Linux what is asked of a timer is done at once; FreeRTOS queues it for its timer
\* task.
TimerStop(n) ==
  /\ Own(n) /\ (platform = "linux" \/ HasTimer(n))
  /\ WorkerGoes(n, "stop", "delete")
  /\ IF platform = "linux" /\ HasTimer(n) /\ timer[n] = "armed"
     THEN timer' = [timer EXCEPT ![n] = "stopped"] ELSE UNCHANGED timer
  /\ IF platform = "freertos"
     THEN queue' = [queue EXCEPT ![n] = @ \cup {"stop"}] ELSE UNCHANGED queue
  /\ UNCHANGED <<memory, reaper, refused>>

TimerDestroy(n) ==
  /\ Own(n) /\ (platform = "linux" \/ HasTimer(n))
  /\ WorkerGoes(n, "delete", "exit")
  /\ IF platform = "linux" /\ HasTimer(n)
     THEN timer' = [timer EXCEPT ![n] = "deleted"] ELSE UNCHANGED timer
  /\ IF platform = "freertos"
     THEN queue' = [queue EXCEPT ![n] = @ \cup {"delete"}] ELSE UNCHANGED queue
  /\ UNCHANGED <<memory, reaper, refused>>

\* ews_thread_destroy of the worker's own thread.
Exit(n) ==
  /\ Own(n)
  /\ WorkerGoes(n, "exit", "gone")
  /\ UNCHANGED <<memory, timerVars, refused>>

WorkerTask(n) ==
  \/ CheckFlag(n) \/ SelectTimesOut(n) \/ SelectReturns(n) \/ SelectFails(n)
  \/ Callbacks(n) \/ TimerStop(n) \/ TimerDestroy(n) \/ Exit(n)

-----------------------------------------------------------------------------
(* The timer task of FreeRTOS, and task_reaper when the n-th timer runs    *)
(* out: a thread of its own on Linux, in the timer task on FreeRTOS.       *)

TimerTaskFree == \A n \in Run : reaper[n] = "idle"

\* One sender's commands come in the order in which it asked for them.
Earlier(command) ==
  CASE command = "start" -> {}
    [] command = "stop" -> {"start"}
    [] command = "delete" -> {"start", "stop"}

Obey(n, command) ==
  /\ platform = "freertos" /\ TimerTaskFree /\ Own(n)
  /\ command \in queue[n] /\ queue[n] \cap Earlier(command) = {}
  /\ queue' = [queue EXCEPT ![n] = @ \ {command}]
  /\ timer' = [timer EXCEPT ![n] =
       CASE command = "start" -> "armed"
         [] command = "stop" -> IF @ = "armed" THEN "stopped" ELSE @
         [] command = "delete" -> "deleted"]
  /\ UNCHANGED <<platform, appVars, memory, thread, reaper, refused, fault>>

RunsOut(n) ==
  /\ timer[n] = "armed"
  /\ platform = "freertos" => TimerTaskFree /\ Own(n)
  /\ timer' = [timer EXCEPT ![n] = "expired"]
  /\ reaper' = [reaper EXCEPT ![n] = "called"]
  /\ UNCHANGED <<platform, appVars, memory, thread, queue, refused, fault>>

\* pthread_exit ends the thread that calls it, which is the timer's own.
ReaperExits(n) ==
  /\ platform = "linux" /\ reaper[n] = "called" /\ Own(n)
  /\ reaper' = [reaper EXCEPT ![n] = "idle"]
  /\ UNCHANGED <<platform, appVars, memory, thread, timer, queue, refused, fault>>

\* vTaskDelete ends the task it is given.
ReaperKills(n) ==
  /\ platform = "freertos" /\ reaper[n] = "called" /\ Own(n) /\ Alive(n)
  /\ thread' = [thread EXCEPT ![n] = "gone"]
  /\ reaper' = [reaper EXCEPT ![n] = "delete"]
  /\ UNCHANGED <<platform, appVars, memory, timer, queue, refused, fault>>

ReaperDeletes(n) ==
  /\ reaper[n] = "delete" /\ Own(n)
  /\ queue' = [queue EXCEPT ![n] = @ \cup {"delete"}]
  /\ reaper' = [reaper EXCEPT ![n] = "idle"]
  /\ UNCHANGED <<platform, appVars, memory, thread, timer, refused, fault>>

Reaper(n) == ReaperExits(n) \/ ReaperKills(n) \/ ReaperDeletes(n)

TimerTask(n) == (\E command \in Command : Obey(n, command)) \/ RunsOut(n)

-----------------------------------------------------------------------------
(* What is undefined.                                                      *)

Faults(why) == fault' = why /\ UNCHANGED <<platform, appVars, memory, thread, timerVars, refused>>

\* Memory that has been freed is used: by the worker, by the reaper, or by the timer task,
\* whose timer is part of it.
Stray(n) ==
  /\ ~Own(n)
  /\ \/ Alive(n)
     \/ reaper[n] # "idle"
     \/ platform = "freertos" /\ (queue[n] # {} \/ timer[n] = "armed")
  /\ Faults("stray")

\* xTimerStop is given no timer.
StopsNothing(n) ==
  /\ platform = "freertos" /\ Own(n) /\ thread[n] = "stop" /\ ~HasTimer(n)
  /\ Faults("no_timer")

\* A timer is started that a worker whose select failed has deleted.
StartsDeleted ==
  /\ app = "arm" /\ Deleted(run)
  /\ Faults("timer_gone")

\* vTaskDelete is given a task that has ended.
KillsTwice(n) ==
  /\ platform = "freertos" /\ Own(n) /\ reaper[n] = "called" /\ ~Alive(n)
  /\ Faults("task_gone")

Undefined(n) == Stray(n) \/ StopsNothing(n) \/ KillsTwice(n)

Idle == (app = "idle" \/ fault # "none") /\ UNCHANGED serverVars

Next ==
  \/ /\ fault = "none"
     /\ \/ Application \/ StartsDeleted
        \/ \E n \in Run : WorkerTask(n) \/ TimerTask(n) \/ Reaper(n) \/ Undefined(n)
  \/ Idle

Spec == Init /\ [][Next]_serverVars

-----------------------------------------------------------------------------
(* What holds until something undefined happens.                           *)

TypeOK ==
  /\ platform \in Platforms
  /\ app \in AppAt
  /\ run \in {0} \cup Run
  /\ home \in [Run -> Blocks]
  /\ memory \in [Blocks -> Memory]
  /\ thread \in [Run -> ThreadAt]
  /\ timer \in [Run -> TimerAt]
  /\ queue \in [Run -> SUBSET Command]
  /\ reaper \in [Run -> ReaperAt]
  /\ bound \in [Protocol -> {None} \cup Run]
  /\ refused \subseteq Run
  /\ fault \in {"none", "stray", "no_timer", "timer_gone", "task_gone"}

\* A worker that has seen the flag finds, as long as the memory is its server's, a timer
\* that has been created and that no one has deleted or asked to delete, although the
\* application, the timer task and the reaper go on meanwhile; unless its select or
\* timer_create failed (src/worker.c:22-24, 161-162, 166-172).
TimerToDelete ==
  \A n \in Run \ refused : thread[n] \in {"stop", "delete"} /\ Own(n) =>
    /\ HasTimer(n)
    /\ timer[n] \notin {"none", "deleted"}
    /\ "delete" \notin queue[n]

\* Whoever ends a worker, itself or the reaper, also sees to the end of its timer: none is
\* left to run the reaper for a worker that is no more, except after a failed select or
\* timer_create (src/worker.c:161-163, 170-171).
NoTimerLeft ==
  \A n \in Run \ refused : thread[n] = "gone" =>
    timer[n] = "deleted" \/ "delete" \in queue[n] \/ reaper[n] = "delete"

\* A server that ews_destroy has stopped is stopped: its worker has ended, and its ports
\* are free (include/ews.h:59).
StopCleansUp ==
  app = "idle" =>
    \A n \in Run : thread[n] # "none" =>
      ~Alive(n) /\ \A proto \in Protocol : bound[proto] # n
=============================================================================
