-------------------------- MODULE ServiceDispatch --------------------------
(***************************************************************************)
(* The core of skynet: services (skynet_context), their message queues,    *)
(* the global queue of queues and the threads that work on them.           *)
(*                                                                         *)
(* Worker threads run skynet_context_message_dispatch in a loop: take a    *)
(* queue from the global queue, grab its context by handle, pop and        *)
(* dispatch a batch, pass the queue on.  A callback may send, kill and     *)
(* launch services.  The other threads (timer, socket) only send.  A       *)
(* context is reference counted; the thread that drops the last reference  *)
(* deletes it, and the queue outlives its context until a worker drops it. *)
(*                                                                         *)
(* One action is one atomic step of the code: an atomic instruction or a   *)
(* section under the lock of the queue or of the handle table.  The global *)
(* queue is an atomic FIFO here (GlobalMQ has its steps); handles are not  *)
(* reused (HandleStorage has the table), so a service is its handle; a     *)
(* message is its source, all that drop_message looks at.                  *)
(***************************************************************************)
EXTENDS Naturals, Sequences, FiniteSets

CONSTANTS
  Worker,      \* the worker threads
  Sender,      \* the timer and socket threads
  Service,     \* all services that may ever exist
  Initial,     \* those launched before the workers start
  Share,       \* Share[w]: worker w takes 1/Share[w] of a queue per turn, that
               \* is 2 to its weight in start.c; 0 stands for weight -1, one
               \* message per turn
  None,        \* no service: a NULL pointer, or source 0
  MaxSends     \* bound: callbacks and senders send that many messages

ASSUME DispatchAssumption ==
  /\ IsFiniteSet(Worker) /\ IsFiniteSet(Sender)
  /\ Worker \cap Sender = {}
  /\ Initial \subseteq Service
  /\ None \notin Service
  /\ Share \in [Worker -> Nat]
  /\ MaxSends \in Nat

Thread == Worker \cup Sender
Maybe  == Service \cup {None}

VARIABLES
  slot,        \* slot[s]: s is registered, skynet_handle_grab finds it
  ctx,         \* ctx[s]: none, live or freed memory of the context
  ref,         \* ctx->ref
  init,        \* ctx->init
  mq,          \* mq[s]: none, live or freed memory of the queue
  queue,       \* the messages in the queue
  in_global,   \* q->in_global
  release,     \* q->release
  globalmq,    \* the global queue
  pc,          \* where the worker is in the dispatch function
  q,           \* the queue the worker owns
  nq,          \* the next queue it popped at the end of a batch
  held,        \* the context it grabbed for dispatching
  left,        \* the iterations of the batch loop after the current one
  call, dst, src, \* the skynet_send in progress, its destination and source
  lpc, new,    \* the skynet_context_new in progress and its service
  del,         \* the context the thread must delete: it dropped the last ref
  sends        \* number of messages sent so far, for the bound only

ctxVars == <<slot, ctx, ref, init>>
mqVars == <<mq, queue, in_global, release, globalmq>>
loopVars == <<pc, q, nq, held, left>>
sendVars == <<call, dst, src>>
launchVars == <<lpc, new>>
vars == <<slot, ctx, ref, init, mq, queue, in_global, release, globalmq,
          pc, q, nq, held, left, call, dst, src, lpc, new, del, sends>>

\* The state after start-up: the initial services are launched, and the workers
\* have found their queues empty once.
Init ==
  /\ slot = [s \in Service |-> s \in Initial]
  /\ ctx = [s \in Service |-> IF s \in Initial THEN "live" ELSE "none"]
  /\ ref = [s \in Service |-> IF s \in Initial THEN 1 ELSE 0]
  /\ init = [s \in Service |-> s \in Initial]
  /\ mq = [s \in Service |-> IF s \in Initial THEN "live" ELSE "none"]
  /\ queue = [s \in Service |-> <<>>]
  /\ in_global = [s \in Service |-> FALSE]
  /\ release = [s \in Service |-> FALSE]
  /\ globalmq = <<>>
  /\ pc = [t \in Thread |-> "idle"]
  /\ q = [t \in Thread |-> None]
  /\ nq = [t \in Thread |-> None]
  /\ held = [t \in Thread |-> None]
  /\ left = [t \in Thread |-> 0]
  /\ call = [t \in Thread |-> "none"]
  /\ dst = [t \in Thread |-> None]
  /\ src = [t \in Thread |-> None]
  /\ lpc = [t \in Thread |-> "none"]
  /\ new = [t \in Thread |-> None]
  /\ del = [t \in Thread |-> None]
  /\ sends = 0

-----------------------------------------------------------------------------
(* Helpers: the pieces of code that several handlers call.                 *)

\* The thread is not inside skynet_send or delete_context.
Settled(t) == call[t] = "none" /\ del[t] = None

\* The worker is in the dispatch function itself, at the given place.
At(t, place) == Settled(t) /\ lpc[t] = "none" /\ pc[t] = place

\* The thread is inside a launch, at the given place.
Launching(t, place) == Settled(t) /\ lpc[t] = place

Goto(t, place) == pc' = [pc EXCEPT ![t] = place]
LaunchGoto(t, place) == lpc' = [lpc EXCEPT ![t] = place]

\* Mutant of Grab: the table hands out contexts without counting.
GrabUncounted(s) == UNCHANGED ref

\* skynet_context_grab, called by skynet_handle_grab under the read lock.
Grab(s) == ref' = [ref EXCEPT ![s] = @ + 1]

\* skynet_context_release: the thread that takes the count to 0 will delete
\* the context before it does anything else.
Release(t, s) ==
  /\ ref' = [ref EXCEPT ![s] = @ - 1]
  /\ del' = IF ref[s] = 1 THEN [del EXCEPT ![t] = s] ELSE del

\* skynet_handle_retire under the write lock: the table gives up its reference.
Retire(t, s) ==
  IF slot[s]
  THEN Release(t, s) /\ slot' = [slot EXCEPT ![s] = FALSE]
  ELSE UNCHANGED <<slot, ref, del>>

\* Start of skynet_send to service d.
BeginSend(t, d, from) ==
  /\ call' = [call EXCEPT ![t] = "grab"]
  /\ dst' = [dst EXCEPT ![t] = d]
  /\ src' = [src EXCEPT ![t] = from]

\* Mutant of CreateQueue: in_global starts clear.
CreateQueueIdle(s) == mq' = [mq EXCEPT ![s] = "live"] /\ UNCHANGED in_global

\* The part of skynet_mq_create that the other threads can see: senders do not
\* schedule the queue of a service that is still being launched.
CreateQueue(s) ==
  /\ mq' = [mq EXCEPT ![s] = "live"]
  /\ in_global' = [in_global EXCEPT ![s] = TRUE]

\* Mutants of Schedule: pushes whatever in_global says; never pushes.
ScheduleAgain(s) == globalmq' = Append(globalmq, s)
ScheduleNever(s) == UNCHANGED globalmq

\* skynet_mq_push and skynet_mq_mark_release push the queue on the global queue
\* when it is not there and nobody dispatches it.
Schedule(s) ==
  globalmq' = IF in_global[s] THEN globalmq ELSE Append(globalmq, s)

\* Mutant of MayDrop: the owner is gone, so its queue is dropped at once.
MayDropNow(s) == TRUE

\* skynet_mq_release: a queue marked for release is dropped by the caller ...
MayDrop(s) == release[s]

\* Mutant of Reschedule: forgets the queue.
RescheduleNever(s) == UNCHANGED globalmq

\* ... and any other goes back to the global queue.
Reschedule(s) ==
  globalmq' = IF MayDrop(s) THEN globalmq ELSE Append(globalmq, s)

\* One iteration of _drop_queue: the source of each message gets an error
\* message; source 0 gets none.
DropMessage(t, s) ==
  /\ queue[s] # <<>>
  /\ queue' = [queue EXCEPT ![s] = Tail(@)]
  /\ IF Head(queue[s]) # None
     THEN BeginSend(t, Head(queue[s]), s)
     ELSE UNCHANGED sendVars

\* The end of _drop_queue: the last pop clears in_global, _release frees.
FreeQueue(s) ==
  /\ queue[s] = <<>>
  /\ in_global' = [in_global EXCEPT ![s] = FALSE]
  /\ mq' = [mq EXCEPT ![s] = "freed"]

-----------------------------------------------------------------------------
(* skynet_context_message_dispatch.                                        *)

\* skynet_globalmq_pop for a worker without a queue.
TakeQueue(t) ==
  /\ At(t, "idle") /\ globalmq # <<>>
  /\ q' = [q EXCEPT ![t] = Head(globalmq)]
  /\ globalmq' = Tail(globalmq)
  /\ Goto(t, "grab")
  /\ UNCHANGED <<ctxVars, mq, queue, in_global, release, nq, held, left,
                 sendVars, launchVars, del, sends>>

\* skynet_handle_grab of the owner of the queue.
GrabOwner(t) ==
  /\ At(t, "grab")
  /\ IF slot[q[t]]
     THEN /\ Grab(q[t])
          /\ held' = [held EXCEPT ![t] = q[t]]
          /\ Goto(t, "first")
     ELSE /\ Goto(t, "dead")
          /\ UNCHANGED <<ref, held>>
  /\ UNCHANGED <<slot, ctx, init, mqVars, q, nq, left, sendVars, launchVars,
                 del, sends>>

\* The owner is gone: skynet_mq_release.
QueueOfDead(t) ==
  /\ At(t, "dead")
  /\ Reschedule(q[t])
  /\ IF MayDrop(q[t])
     THEN Goto(t, "drop") /\ UNCHANGED q
     ELSE Goto(t, "idle") /\ q' = [q EXCEPT ![t] = None]
  /\ UNCHANGED <<ctxVars, mq, queue, in_global, release, nq, held, left,
                 sendVars, launchVars, del, sends>>

\* _drop_queue in a worker.
DropOne(t) ==
  /\ At(t, "drop")
  /\ DropMessage(t, q[t])
  /\ UNCHANGED <<ctxVars, mq, in_global, release, globalmq, loopVars,
                 launchVars, del, sends>>

DropDone(t) ==
  /\ At(t, "drop")
  /\ FreeQueue(q[t])
  /\ q' = [q EXCEPT ![t] = None]
  /\ Goto(t, "idle")
  /\ UNCHANGED <<ctxVars, queue, release, globalmq, nq, held, left, sendVars,
                 launchVars, del, sends>>

\* A successful skynet_mq_pop.  After the first pop of a batch a worker of
\* weight >= 0 reads the queue length to size the batch.
PopMessage(t) ==
  /\ At(t, "first") \/ At(t, "pop")
  /\ queue[q[t]] # <<>>
  /\ queue' = [queue EXCEPT ![q[t]] = Tail(@)]
  /\ IF pc[t] = "first"
     THEN /\ Goto(t, IF Share[t] > 0 THEN "length" ELSE "run")
          /\ left' = [left EXCEPT ![t] = 0]
     ELSE /\ Goto(t, "run")
          /\ left' = [left EXCEPT ![t] = @ - 1]
  /\ UNCHANGED <<ctxVars, mq, in_global, release, globalmq, q, nq, held,
                 sendVars, launchVars, del, sends>>

\* skynet_mq_pop on an empty queue: the worker gives the queue up.
PopEmpty(t) ==
  /\ At(t, "first") \/ At(t, "pop")
  /\ queue[q[t]] = <<>>
  /\ in_global' = [in_global EXCEPT ![q[t]] = FALSE]
  /\ q' = [q EXCEPT ![t] = None]
  /\ Goto(t, "release")
  /\ UNCHANGED <<ctxVars, mq, queue, release, globalmq, nq, held, left,
                 sendVars, launchVars, del, sends>>

\* n = skynet_mq_length(q) >> weight; one of the n iterations is under way.
BatchSize(t) ==
  /\ At(t, "length")
  /\ LET n == Len(queue[q[t]]) \div Share[t]
     IN left' = [left EXCEPT ![t] = IF n > 0 THEN n - 1 ELSE 0]
  /\ Goto(t, "run")
  /\ UNCHANGED <<ctxVars, mqVars, q, nq, held, sendVars, launchVars, del,
                 sends>>

\* The callback returns (or there was none: cb = NULL frees the message).
CallbackReturns(t) ==
  /\ At(t, "run")
  /\ Goto(t, IF left[t] > 0 THEN "pop" ELSE "next")
  /\ UNCHANGED <<ctxVars, mqVars, q, nq, held, left, sendVars, launchVars,
                 del, sends>>

\* skynet_globalmq_pop at the end of a batch, with a result.
NextQueue(t) ==
  /\ At(t, "next") /\ globalmq # <<>>
  /\ nq' = [nq EXCEPT ![t] = Head(globalmq)]
  /\ globalmq' = Tail(globalmq)
  /\ Goto(t, "pushback")
  /\ UNCHANGED <<ctxVars, mq, queue, in_global, release, q, held, left,
                 sendVars, launchVars, del, sends>>

\* skynet_globalmq_pop returned NULL (the queue is empty, or another thread is
\* in the middle of a push or a pop): the worker keeps its queue.
KeepQueue(t) ==
  /\ At(t, "next")
  /\ Goto(t, "release")
  /\ UNCHANGED <<ctxVars, mqVars, q, nq, held, left, sendVars, launchVars,
                 del, sends>>

\* The old queue goes back to the global queue, the new one is served next.
PushBack(t) ==
  /\ At(t, "pushback")
  /\ globalmq' = Append(globalmq, q[t])
  /\ q' = [q EXCEPT ![t] = nq[t]]
  /\ nq' = [nq EXCEPT ![t] = None]
  /\ Goto(t, "release")
  /\ UNCHANGED <<ctxVars, mq, queue, in_global, release, held, left, sendVars,
                 launchVars, del, sends>>

\* skynet_context_release at both exits of the function; with no queue left
\* the next call starts with skynet_globalmq_pop.
ReleaseOwner(t) ==
  /\ At(t, "release")
  /\ Release(t, held[t])
  /\ held' = [held EXCEPT ![t] = None]
  /\ Goto(t, IF q[t] = None THEN "idle" ELSE "grab")
  /\ UNCHANGED <<slot, ctx, init, mqVars, q, nq, left, sendVars, launchVars,
                 sends>>

-----------------------------------------------------------------------------
(* What a callback does: the service's own callback, or the init function   *)
(* of a service that is being launched.                                    *)

InCallback(t) == At(t, "run") \/ Launching(t, "init")

\* skynet_send from a callback to any handle, known or stale.  The source is
\* the service itself, the one it redirects for, or the one it is about to kill
\* (handle_exit tells the monitor, G_NODE.monitor_exit).
CallbackSends(t, d) ==
  /\ InCallback(t) /\ sends < MaxSends
  /\ \E from \in Service : BeginSend(t, d, from)
  /\ sends' = sends + 1
  /\ UNCHANGED <<ctxVars, mqVars, loopVars, launchVars, del>>

\* The commands EXIT, KILL and (one service at a time) ABORT.
CallbackKills(t, s) ==
  /\ InCallback(t) /\ slot[s]
  /\ Retire(t, s)
  /\ UNCHANGED <<ctx, init, mqVars, loopVars, sendVars, launchVars, sends>>

\* The command LAUNCH: skynet_context_new up to the call of the module's init.
\* The context is registered with two references, its queue is created with
\* in_global set so that senders do not schedule it.
BeginLaunch(t, s) ==
  /\ At(t, "run") /\ ctx[s] = "none"
  /\ ctx' = [ctx EXCEPT ![s] = "live"]
  /\ ref' = [ref EXCEPT ![s] = 2]
  /\ slot' = [slot EXCEPT ![s] = TRUE]
  /\ CreateQueue(s)
  /\ new' = [new EXCEPT ![t] = s]
  /\ LaunchGoto(t, "init")
  /\ UNCHANGED <<init, queue, release, globalmq, loopVars, sendVars, del,
                 sends>>

-----------------------------------------------------------------------------
(* The rest of skynet_context_new.                                         *)

\* The init function succeeds: the launcher's reference is released.
InitSucceeds(t) ==
  /\ Launching(t, "init")
  /\ Release(t, new[t])
  /\ LaunchGoto(t, IF ref[new[t]] = 1 THEN "push" ELSE "ready")
  /\ UNCHANGED <<slot, ctx, init, mqVars, loopVars, sendVars, new, sends>>

\* ctx->init = true, if the service was not killed meanwhile.
SetInit(t) ==
  /\ Launching(t, "ready")
  /\ init' = [init EXCEPT ![new[t]] = TRUE]
  /\ LaunchGoto(t, "push")
  /\ UNCHANGED <<slot, ctx, ref, mqVars, loopVars, sendVars, new, del, sends>>

\* Only now do the workers get the queue, killed or not.
PushNew(t) ==
  /\ Launching(t, "push")
  /\ globalmq' = Append(globalmq, new[t])
  /\ new' = [new EXCEPT ![t] = None]
  /\ LaunchGoto(t, "none")
  /\ UNCHANGED <<ctxVars, mq, queue, in_global, release, loopVars, sendVars,
                 del, sends>>

\* The init function fails: the launcher's reference is released ...
InitFails(t) ==
  /\ Launching(t, "init")
  /\ Release(t, new[t])
  /\ LaunchGoto(t, "retire")
  /\ UNCHANGED <<slot, ctx, init, mqVars, loopVars, sendVars, new, sends>>

\* ... the handle is retired ...
RetireFailed(t) ==
  /\ Launching(t, "retire")
  /\ Retire(t, new[t])
  /\ LaunchGoto(t, "mq_release")
  /\ UNCHANGED <<ctx, init, mqVars, loopVars, sendVars, new, sends>>

\* ... and the queue dropped here, or by a worker when a sender still holds
\* the context.
QueueOfFailed(t) ==
  /\ Launching(t, "mq_release")
  /\ Reschedule(new[t])
  /\ IF MayDrop(new[t])
     THEN LaunchGoto(t, "drop") /\ UNCHANGED new
     ELSE LaunchGoto(t, "none") /\ new' = [new EXCEPT ![t] = None]
  /\ UNCHANGED <<ctxVars, mq, queue, in_global, release, loopVars, sendVars,
                 del, sends>>

DropFailed(t) ==
  /\ Launching(t, "drop")
  /\ DropMessage(t, new[t])
  /\ UNCHANGED <<ctxVars, mq, in_global, release, globalmq, loopVars,
                 launchVars, del, sends>>

DropFailedDone(t) ==
  /\ Launching(t, "drop")
  /\ FreeQueue(new[t])
  /\ new' = [new EXCEPT ![t] = None]
  /\ LaunchGoto(t, "none")
  /\ UNCHANGED <<ctxVars, queue, release, globalmq, loopVars, sendVars, del,
                 sends>>

-----------------------------------------------------------------------------
(* skynet_send / skynet_context_push, by any thread.                       *)

\* A timer or socket message, which has source 0.
ExternalSends(t, d) ==
  /\ t \in Sender /\ Settled(t) /\ sends < MaxSends
  /\ BeginSend(t, d, None)
  /\ sends' = sends + 1
  /\ UNCHANGED <<ctxVars, mqVars, loopVars, launchVars, del>>

\* skynet_handle_grab of the destination; the send fails when it is gone.
GrabDestination(t) ==
  /\ call[t] = "grab" /\ del[t] = None
  /\ IF slot[dst[t]]
     THEN Grab(dst[t]) /\ call' = [call EXCEPT ![t] = "push"] /\ UNCHANGED <<dst, src>>
     ELSE /\ call' = [call EXCEPT ![t] = "none"]
          /\ dst' = [dst EXCEPT ![t] = None]
          /\ src' = [src EXCEPT ![t] = None]
          /\ UNCHANGED ref
  /\ UNCHANGED <<slot, ctx, init, mqVars, loopVars, launchVars, del, sends>>

\* skynet_mq_push: the queue is scheduled when nobody has it.
PushMessage(t) ==
  /\ call[t] = "push" /\ del[t] = None
  /\ queue' = [queue EXCEPT ![dst[t]] = Append(@, src[t])]
  /\ in_global' = [in_global EXCEPT ![dst[t]] = TRUE]
  /\ Schedule(dst[t])
  /\ call' = [call EXCEPT ![t] = "release"]
  /\ UNCHANGED <<ctxVars, mq, release, loopVars, dst, src, launchVars, del,
                 sends>>

\* skynet_context_release of the destination.
ReleaseDestination(t) ==
  /\ call[t] = "release" /\ del[t] = None
  /\ Release(t, dst[t])
  /\ call' = [call EXCEPT ![t] = "none"]
  /\ dst' = [dst EXCEPT ![t] = None]
  /\ src' = [src EXCEPT ![t] = None]
  /\ UNCHANGED <<slot, ctx, init, mqVars, loopVars, launchVars, sends>>

\* delete_context: skynet_mq_mark_release, which schedules the queue when it
\* is not in the global queue so that a worker drops it, then skynet_free.
DeleteContext(t) ==
  /\ del[t] # None
  /\ ctx' = [ctx EXCEPT ![del[t]] = "freed"]
  /\ release' = [release EXCEPT ![del[t]] = TRUE]
  /\ Schedule(del[t])
  /\ del' = [del EXCEPT ![t] = None]
  /\ UNCHANGED <<slot, ref, init, mq, queue, in_global, loopVars, sendVars,
                 launchVars, sends>>

-----------------------------------------------------------------------------
\* The steps of a thread that its code takes without waiting for anything.
Dispatch(t) ==
  \/ TakeQueue(t) \/ GrabOwner(t) \/ QueueOfDead(t) \/ DropOne(t) \/ DropDone(t)
  \/ PopMessage(t) \/ PopEmpty(t) \/ BatchSize(t) \/ CallbackReturns(t)
  \/ NextQueue(t) \/ KeepQueue(t) \/ PushBack(t) \/ ReleaseOwner(t)

Callback(t) ==
  \E s \in Service : CallbackSends(t, s) \/ CallbackKills(t, s) \/ BeginLaunch(t, s)

Launch(t) ==
  \/ InitSucceeds(t) \/ SetInit(t) \/ PushNew(t)
  \/ InitFails(t) \/ RetireFailed(t) \/ QueueOfFailed(t)
  \/ DropFailed(t) \/ DropFailedDone(t)

SendStep(t) ==
  GrabDestination(t) \/ PushMessage(t) \/ ReleaseDestination(t) \/ DeleteContext(t)

Next ==
  \/ \E t \in Worker : Dispatch(t) \/ Callback(t) \/ Launch(t)
  \/ \E t \in Sender, s \in Service : ExternalSends(t, s)
  \/ \E t \in Thread : SendStep(t)

Spec == Init /\ [][Next]_vars

\* Fairness: no thread stops for ever between two steps, and callbacks return.
\* A callback may do nothing else, so sends, kills and launches are not fair.
Progress(t) ==
  SendStep(t) \/ (t \in Worker /\ (Dispatch(t) \/ Launch(t)))

FairSpec == Spec /\ \A t \in Thread : WF_vars(Progress(t))

-----------------------------------------------------------------------------
\* Type invariant.
TypeOK ==
  /\ slot \in [Service -> BOOLEAN]
  /\ ctx \in [Service -> {"none", "live", "freed"}]
  /\ ref \in [Service -> Nat]
  /\ init \in [Service -> BOOLEAN]
  /\ mq \in [Service -> {"none", "live", "freed"}]
  /\ queue \in [Service -> Seq(Maybe)]
  /\ in_global \in [Service -> BOOLEAN]
  /\ release \in [Service -> BOOLEAN]
  /\ globalmq \in Seq(Service)
  /\ pc \in [Thread -> {"idle", "grab", "dead", "drop", "first", "length",
                        "pop", "run", "next", "pushback", "release"}]
  /\ q \in [Thread -> Maybe] /\ nq \in [Thread -> Maybe]
  /\ held \in [Thread -> Maybe]
  /\ left \in [Thread -> Nat]
  /\ call \in [Thread -> {"none", "grab", "push", "release"}]
  /\ dst \in [Thread -> Maybe] /\ src \in [Thread -> Maybe]
  /\ lpc \in [Thread -> {"none", "init", "ready", "push", "retire",
                         "mq_release", "drop"}]
  /\ new \in [Thread -> Maybe] /\ del \in [Thread -> Maybe]
  /\ sends \in Nat

\* The thread keeps queue s out of everybody else's reach: it is dispatching
\* it, is about to, or is still launching the service.
Owns(t, s) == q[t] = s \/ nq[t] = s \/ new[t] = s

Queued(s) == \E i \in DOMAIN globalmq : globalmq[i] = s

NoRepeat == \A i, j \in DOMAIN globalmq : globalmq[i] = globalmq[j] => i = j

\* Queue s is in the global queue at most once, and never while a thread owns
\* it; no two threads own it (the comment on in_global, skynet_mq.c:14).
ScheduledOnce ==
  /\ NoRepeat
  /\ \A t \in Thread, s \in Service : Owns(t, s) => ~ Queued(s)
  /\ \A t, u \in Thread, s \in Service : Owns(t, s) /\ Owns(u, s) => t = u
  /\ \A t \in Thread :
       /\ nq[t] # None => nq[t] # q[t]
       /\ new[t] # None => new[t] # q[t]

\* The flags of queue s say that a worker will look at it.
Announced(s) == mq[s] = "live" /\ (in_global[s] \/ release[s])

\* A worker will look at queue s.
Scheduled(s) == Queued(s) \/ \E t \in Thread : Owns(t, s)

\* No wake-up is lost: a queue with messages, or without its context, is queued
\* or owned, and a queue is so exactly when its flags say it.
NoLostQueue ==
  \A s \in Service :
    /\ queue[s] # <<>> => Announced(s)
    /\ Announced(s) <=> Scheduled(s)

\* Code of service s, its callback or its init function, runs in thread t.
Runs(t, s) ==
  \/ pc[t] = "run" /\ held[t] = s
  \/ lpc[t] = "init" /\ new[t] = s

\* The code of a service never runs in two threads at once: the assertion
\* CHECKCALLING_BEGIN of skynet_server.c:24.
NotReentrant ==
  \A s \in Service, t, u \in Thread : Runs(t, s) /\ Runs(u, s) => t = u

\* assert(ctx->init) of dispatch_message: no message is dispatched before the
\* launch of its service has succeeded.
InitBeforeDispatch ==
  \A t \in Worker : pc[t] = "run" => init[held[t]]

\* The references to s that threads and the handle table hold.
DispatchRefs(s) == {t \in Thread : held[t] = s}
SendRefs(s) == {t \in Thread : call[t] \in {"push", "release"} /\ dst[t] = s}
LaunchRefs(s) == {t \in Thread : lpc[t] = "init" /\ new[t] = s}

RefsOf(s) ==
  (IF slot[s] THEN 1 ELSE 0) + Cardinality(DispatchRefs(s))
    + Cardinality(SendRefs(s)) + Cardinality(LaunchRefs(s))

\* ctx->ref counts exactly the references held, and the context lives as long
\* as there is one or its deletion is under way (skynet_context_release).
RefCounted ==
  \A s \in Service :
    /\ ref[s] = RefsOf(s)
    /\ ref[s] > 0 => ctx[s] = "live"
    /\ ctx[s] = "live" => ref[s] > 0 \/ \E t \in Thread : del[t] = s

\* Each context is deleted once and its queue marked once: the assertion on
\* release in skynet_mq_mark_release (skynet_mq.c:254).
DeletedOnce ==
  \A t, u \in Thread, s \in Service :
    /\ del[t] = s => ctx[s] = "live" /\ ref[s] = 0 /\ ~ release[s]
    /\ del[t] = s /\ del[u] = s => t = u

\* No thread works on a freed queue, and the global queue holds none.
NoFreedQueue ==
  \A s \in Service :
    /\ Queued(s) \/ (\E t \in Thread : Owns(t, s)) => mq[s] = "live"
    /\ SendRefs(s) # {} => mq[s] = "live"
    /\ mq[s] = "freed" => ctx[s] = "freed"

\* Every message gets out of its queue: it is dispatched or dropped
\* (skynet_mq_push schedules the queue, and no worker loses it).
MessagesLeave ==
  \A s \in Service : queue[s] # <<>> ~> queue[s] = <<>>

\* A retired service is reclaimed: its context is deleted by the last thread
\* that uses it, and a worker then drops and frees its queue.
RetiredReclaimed ==
  \A s \in Service : ctx[s] # "none" /\ ~ slot[s] ~> mq[s] = "freed"
=============================================================================
