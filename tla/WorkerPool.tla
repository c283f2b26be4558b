----------------------------- MODULE WorkerPool -----------------------------
(***************************************************************************)
(* The threads of skynet_start.c: how idle workers sleep, how the timer    *)
(* and socket threads wake them, and how all threads stop when the last    *)
(* context is gone.                                                        *)
(*                                                                         *)
(* skynet_context_message_dispatch is taken from outside (ServiceDispatch  *)
(* has its steps): a call takes a queue from the global queue or not, and  *)
(* its callbacks schedule other queues and start and end services.         *)
(***************************************************************************)
EXTENDS Naturals, FiniteSets

CONSTANTS
  Worker,
  None,
  MaxWork,      \* bound: queues in the global queue
  MaxTotal      \* bound: contexts

ASSUME PoolAssumption ==
  /\ IsFiniteSet(Worker) /\ Worker # {}
  /\ None \notin Worker
  /\ MaxWork \in Nat /\ MaxTotal \in Nat \ {0, 1}

VARIABLES
  work,         \* number of queues in the global queue
  total,        \* G_NODE.total, the number of contexts
  sleep,        \* m->sleep
  mutex,        \* the worker that holds m->mutex
  doing,           \* where each worker is
  has,          \* has[w]: q # NULL in _worker
  timer, socket, monitor, \* where the other threads are
  socketExit    \* skynet_socket_exit was called

threadVars == <<timer, socket, monitor, socketExit>>
poolVars == <<work, total, sleep, mutex, doing, has, timer, socket, monitor, socketExit>>

\* _start, with the logger and the bootstrap service launched.
PoolInit ==
  /\ work \in 0..MaxWork
  /\ total = 2
  /\ sleep = 0 /\ mutex = None
  /\ doing = [w \in Worker |-> "dispatch"]
  /\ has = [w \in Worker |-> FALSE]
  /\ timer = "update" /\ socket = "poll" /\ monitor = "run"
  /\ socketExit = FALSE

Goto(w, place) == doing' = [doing EXCEPT ![w] = place]

-----------------------------------------------------------------------------
(* skynet_context_message_dispatch                                         *)

\* The worker has a queue: it grabs the context and runs callbacks, or finds
\* the context gone and drops the messages.
Serve(w) == \E place \in {"drop"} \cup IF total > 0 THEN {"callback"} ELSE {} : Goto(w, place)

\* skynet_globalmq_pop, called without a queue in hand, gives one.
TakeQueue(w) ==
  /\ doing[w] = "dispatch" /\ ~ has[w] /\ work > 0
  /\ work' = work - 1
  /\ has' = [has EXCEPT ![w] = TRUE]
  /\ Serve(w)
  /\ UNCHANGED <<total, sleep, mutex, threadVars>>

\* skynet_globalmq_pop gives NULL: there is no queue, or another thread is in
\* the middle of a push or a pop (GlobalMQ).
TakeNothing(w) ==
  /\ doing[w] = "dispatch" /\ ~ has[w]
  /\ Goto(w, "lock")
  /\ UNCHANGED <<work, total, sleep, mutex, has, threadVars>>

\* With a queue left from the last call.
TakeAgain(w) ==
  /\ doing[w] = "dispatch" /\ has[w]
  /\ Serve(w)
  /\ UNCHANGED <<work, total, sleep, mutex, has, threadVars>>

\* The callbacks of the batch send and launch; dropped messages are answered
\* with errors.
Schedules(w) ==
  /\ doing[w] \in {"callback", "drop"} /\ total > 0 /\ work < MaxWork
  /\ work' = work + 1
  /\ UNCHANGED <<total, sleep, mutex, doing, has, threadVars>>

CallbackLaunches(w) ==
  /\ doing[w] = "callback" /\ 0 < total /\ total < MaxTotal
  /\ total' = total + 1
  /\ UNCHANGED <<work, sleep, mutex, doing, has, threadVars>>

\* A context is deleted: one without messages, or the worker's own at the end
\* of the batch; the other workers hold a reference to theirs.
ServiceEnds(w) ==
  /\ doing[w] = "callback"
  /\ total > Cardinality({v \in Worker \ {w} : doing[v] = "callback"})
  /\ total' = total - 1
  /\ UNCHANGED <<work, sleep, mutex, doing, has, threadVars>>

\* The call returns the same queue, or puts it back and returns the next one.
ReturnQueue(w) ==
  /\ doing[w] = "callback"
  /\ Goto(w, "check")
  /\ UNCHANGED <<work, total, sleep, mutex, has, threadVars>>

\* The queue was found empty, or dropped: the call returns the result of a
\* skynet_globalmq_pop.
ReturnNext(w) ==
  /\ doing[w] \in {"callback", "drop"} /\ work > 0
  /\ work' = work - 1
  /\ Goto(w, "check")
  /\ UNCHANGED <<total, sleep, mutex, has, threadVars>>

ReturnNull(w) ==
  /\ doing[w] \in {"callback", "drop"}
  /\ has' = [has EXCEPT ![w] = FALSE]
  /\ Goto(w, "lock")
  /\ UNCHANGED <<work, total, sleep, mutex, threadVars>>

-----------------------------------------------------------------------------
(* _worker, after a call that returned NULL                                *)

Lock(w) ==
  /\ doing[w] = "lock" /\ mutex = None
  /\ mutex' = w
  /\ Goto(w, "count")
  /\ UNCHANGED <<work, total, sleep, has, threadVars>>

Count(w) ==
  /\ doing[w] = "count"
  /\ sleep' = sleep + 1
  /\ Goto(w, "wait")
  /\ UNCHANGED <<work, total, mutex, has, threadVars>>

\* pthread_cond_wait releases the mutex and waits, atomically.
Wait(w) ==
  /\ doing[w] = "wait"
  /\ mutex' = None
  /\ Goto(w, "waiting")
  /\ UNCHANGED <<work, total, sleep, has, threadVars>>

\* A waiting thread may wake without a signal.
SpuriousWakeup(w) ==
  /\ doing[w] = "waiting"
  /\ Goto(w, "relock")
  /\ UNCHANGED <<work, total, sleep, mutex, has, threadVars>>

Relock(w) ==
  /\ doing[w] = "relock" /\ mutex = None
  /\ mutex' = w
  /\ Goto(w, "awake")
  /\ UNCHANGED <<work, total, sleep, has, threadVars>>

\* Mutant of Awake: the sleeper is not taken off the count.
AwakeUncounted(w) ==
  /\ doing[w] = "awake"
  /\ mutex' = None /\ Goto(w, "check")
  /\ UNCHANGED <<work, total, sleep, has, threadVars>>

\* -- m->sleep, unlock
Awake(w) ==
  /\ doing[w] = "awake"
  /\ sleep' = sleep - 1
  /\ mutex' = None
  /\ Goto(w, "check")
  /\ UNCHANGED <<work, total, has, threadVars>>

\* CHECK_ABORT
Check(w) ==
  /\ doing[w] = "check"
  /\ Goto(w, IF total = 0 THEN "exited" ELSE "dispatch")
  /\ UNCHANGED <<work, total, sleep, mutex, has, threadVars>>

-----------------------------------------------------------------------------
(* wakeup(m, busy), in two steps: the count is read without the mutex.     *)

Enough(busy) == sleep >= Cardinality(Worker) - busy

\* pthread_cond_signal wakes one of the waiting threads, if there is one.
Signal ==
  IF \E w \in Worker : doing[w] = "waiting"
  THEN \E w \in Worker : doing[w] = "waiting" /\ Goto(w, "relock")
  ELSE UNCHANGED doing

-----------------------------------------------------------------------------
(* _timer                                                                  *)

\* skynet_updatetime: expired timeouts become messages.
TimerPosts ==
  /\ timer = "update"
  /\ timer' = "check"
  /\ work' \in {work} \cup IF work < MaxWork /\ total > 0 THEN {work + 1} ELSE {}
  /\ UNCHANGED <<total, sleep, mutex, doing, has, socket, monitor, socketExit>>

\* Mutant of TimerCheck: the timer thread does not look for the end.
TimerNeverStops ==
  /\ timer = "check" /\ timer' = "wakeup"
  /\ UNCHANGED <<work, total, sleep, mutex, doing, has, socket, monitor, socketExit>>

TimerCheck ==
  /\ timer = "check"
  /\ timer' = IF total = 0 THEN "socket_exit" ELSE "wakeup"
  /\ UNCHANGED <<work, total, sleep, mutex, doing, has, socket, monitor, socketExit>>

\* Mutant of TimerWakeup: asks that all workers sleep, as the socket thread does.
TimerWakeupAll ==
  /\ timer = "wakeup"
  /\ timer' = IF Enough(0) THEN "signal" ELSE "update"
  /\ UNCHANGED <<work, total, sleep, mutex, doing, has, socket, monitor, socketExit>>

\* wakeup(m, m->count - 1): one sleeper is enough.
TimerWakeup ==
  /\ timer = "wakeup"
  /\ timer' = IF Enough(Cardinality(Worker) - 1) THEN "signal" ELSE "update"
  /\ UNCHANGED <<work, total, sleep, mutex, doing, has, socket, monitor, socketExit>>

TimerSignal ==
  /\ timer = "signal"
  /\ timer' = "update"
  /\ Signal
  /\ UNCHANGED <<work, total, sleep, mutex, has, socket, monitor, socketExit>>

TimerSocketExit ==
  /\ timer = "socket_exit"
  /\ timer' = "broadcast" /\ socketExit' = TRUE
  /\ UNCHANGED <<work, total, sleep, mutex, doing, has, socket, monitor>>

\* pthread_cond_broadcast wakes the threads that wait at this moment.
TimerBroadcast ==
  /\ timer = "broadcast"
  /\ timer' = "exited"
  /\ doing' = [w \in Worker |-> IF doing[w] = "waiting" THEN "relock" ELSE doing[w]]
  /\ UNCHANGED <<work, total, sleep, mutex, has, socket, monitor, socketExit>>

-----------------------------------------------------------------------------
(* _socket and _monitor                                                    *)

\* skynet_socket_poll forwarded the last event of a batch and returned 1, with
\* others to come it returned -1.
SocketEvent ==
  /\ socket = "poll"
  /\ work' \in {work} \cup IF work < MaxWork /\ total > 0 THEN {work + 1} ELSE {}
  /\ socket' \in {"wakeup", "check"}
  /\ UNCHANGED <<total, sleep, mutex, doing, has, timer, monitor, socketExit>>

\* It returned 0.
SocketExit ==
  /\ socket = "poll" /\ socketExit
  /\ socket' = "exited"
  /\ UNCHANGED <<work, total, sleep, mutex, doing, has, timer, monitor, socketExit>>

SocketCheck ==
  /\ socket = "check"
  /\ socket' = IF total = 0 THEN "exited" ELSE "poll"
  /\ UNCHANGED <<work, total, sleep, mutex, doing, has, timer, monitor, socketExit>>

\* wakeup(m, 0): only when all workers sleep.
SocketWakeup ==
  /\ socket = "wakeup"
  /\ socket' = IF Enough(0) THEN "signal" ELSE "poll"
  /\ UNCHANGED <<work, total, sleep, mutex, doing, has, timer, monitor, socketExit>>

SocketSignal ==
  /\ socket = "signal"
  /\ socket' = "poll"
  /\ Signal
  /\ UNCHANGED <<work, total, sleep, mutex, has, timer, monitor, socketExit>>

MonitorExit ==
  /\ monitor = "run" /\ total = 0
  /\ monitor' = "exited"
  /\ UNCHANGED <<work, total, sleep, mutex, doing, has, timer, socket, socketExit>>

-----------------------------------------------------------------------------
\* The steps of _worker outside callbacks.
WorkerStep(w) ==
  \/ TakeQueue(w) \/ TakeNothing(w) \/ TakeAgain(w)
  \/ Lock(w) \/ Count(w) \/ Wait(w) \/ Relock(w) \/ Awake(w) \/ Check(w)

\* The end of a call.
CallReturns(w) == ReturnQueue(w) \/ ReturnNext(w) \/ ReturnNull(w)

TimerStep ==
  \/ TimerPosts \/ TimerCheck \/ TimerWakeup \/ TimerSignal
  \/ TimerSocketExit \/ TimerBroadcast

SocketStep == SocketExit \/ SocketCheck \/ SocketWakeup \/ SocketSignal

PoolNext ==
  \/ \E w \in Worker :
       \/ WorkerStep(w) \/ CallReturns(w) \/ SpuriousWakeup(w)
       \/ Schedules(w) \/ CallbackLaunches(w) \/ ServiceEnds(w)
  \/ TimerStep \/ SocketEvent \/ SocketStep \/ MonitorExit

PoolSpec == PoolInit /\ [][PoolNext]_poolVars

\* Every thread goes on running; a callback may run for ever, socket events
\* need not happen, and wake-ups without a signal cannot be relied on.  The
\* exit command is taken before the events that come after it, hence SF.
ThreadFairness ==
  /\ \A w \in Worker : WF_poolVars(WorkerStep(w))
  /\ WF_poolVars(TimerStep) /\ WF_poolVars(SocketStep) /\ SF_poolVars(SocketExit)
  /\ WF_poolVars(MonitorExit)

PoolFairSpec == PoolSpec /\ ThreadFairness

-----------------------------------------------------------------------------
\* Type invariant.
PoolTypeOK ==
  /\ work \in 0..MaxWork /\ total \in 0..MaxTotal
  /\ sleep \in Nat
  /\ mutex \in Worker \cup {None}
  /\ doing \in [Worker -> {"dispatch", "callback", "drop", "lock", "count", "wait",
                           "waiting", "relock", "awake", "check", "exited"}]
  /\ has \in [Worker -> BOOLEAN]
  /\ timer \in {"update", "check", "wakeup", "signal", "socket_exit", "broadcast", "exited"}
  /\ socket \in {"poll", "wakeup", "signal", "check", "exited"}
  /\ monitor \in {"run", "exited"}
  /\ socketExit \in BOOLEAN

\* m->sleep, which wakeup reads without the mutex, counts the workers between
\* their increment and their decrement: no wake-up is withheld for good.
SleepCounted ==
  sleep = Cardinality({w \in Worker : doing[w] \in {"wait", "waiting", "relock", "awake"}})

\* Signals may be lost, because wakeup does not take the mutex, but not for
\* ever: while the program runs, a worker that waits when there is work is
\* woken, even when every other worker is stuck in a callback.
SleeperWoken ==
  \A w \in Worker :
    doing[w] = "waiting" /\ work > 0
      ~> work = 0 \/ total = 0 \/ \E v \in Worker : doing[v] = "relock"

\* When the last context is gone the threads that drive the workers stop.
DriversStop == total = 0 ~> timer = "exited" /\ socket = "exited" /\ monitor = "exited"
=============================================================================
