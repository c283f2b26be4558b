------------------------------ MODULE GlobalMQ ------------------------------
(***************************************************************************)
(* The lock-free global queue of skynet_mq.c.  It hands out tickets (head  *)
(* and tail) for the slots of a fixed array; a push that finds its slot    *)
(* still taken saves its queue in a list, from where a later pop pushes it *)
(* again.  Each action is one access to shared memory: an atomic           *)
(* instruction or the read of a shared word.                               *)
(*                                                                         *)
(* ServiceDispatch uses the queue under the discipline modelled here: a    *)
(* thread pushes only queues it took out itself, or idle ones that it      *)
(* schedules under the queue's lock (skynet_mq_push, in_global).           *)
(***************************************************************************)
EXTENDS Naturals, FiniteSets

CONSTANTS
  Worker,        \* the worker threads, which pop and push
  Sender,        \* the timer and socket threads, which only push
  Queue,         \* the message queues
  NULL,
  MAX_GLOBAL_MQ, \* slots of the array
  Tame,          \* TRUE: with several workers the array does not come near
                 \* full (see Room)
  MaxTicket      \* bound: tickets 0..MaxTicket-1 are handed out.  The 32-bit
                 \* counters are taken not to wrap around

ASSUME GlobalAssumption ==
  /\ IsFiniteSet(Worker) /\ IsFiniteSet(Queue) /\ NULL \notin Queue
  /\ MAX_GLOBAL_MQ \in Nat \ {0}
  /\ Tame \in BOOLEAN
  /\ MaxTicket \in Nat

Thread == Worker \cup Sender
MaybeQueue == Queue \cup {NULL}

VARIABLES
  crew,          \* the workers that _start has launched (config.thread)
  head, tail,    \* q->head and q->tail
  slots,         \* q->queue
  list,          \* q->list
  next,          \* queue->next
  idle,          \* the queues with in_global = 0: nobody has them
  held,          \* held[t]: the queues thread t took out and has not pushed
  pc,            \* where the thread is; "out" of both functions
  pushing,       \* the argument of the skynet_globalmq_push under way
  reload,        \* that push is the nested one, inside a pop
  ticket,        \* its tail
  seen,          \* the head that the pop under way has read
  last,          \* what it, or the push, has read from q->list
  newhead, mq    \* the locals of the pop

queueVars == <<head, tail, slots, list, next>>
pushVars == <<pushing, reload, ticket>>
popVars == <<seen, newhead, mq>>
vars == <<crew, head, tail, slots, list, next, idle, held, pc, pushing, reload,
          ticket, seen, last, newhead, mq>>

\* skynet_mq_init; all queues are idle, as after start-up.
Init ==
  /\ crew \in SUBSET Worker \ {{}}
  /\ head = 0 /\ tail = 0
  /\ slots = [i \in 0..(MAX_GLOBAL_MQ - 1) |-> NULL]
  /\ list = NULL
  /\ next = [x \in Queue |-> NULL]
  /\ idle = Queue
  /\ held = [t \in Thread |-> {}]
  /\ pc = [t \in Thread |-> "out"]
  /\ pushing = [t \in Thread |-> NULL]
  /\ reload = [t \in Thread |-> FALSE]
  /\ ticket = [t \in Thread |-> 0]
  /\ seen = [t \in Thread |-> 0]
  /\ last = [t \in Thread |-> NULL]
  /\ newhead = [t \in Thread |-> NULL]
  /\ mq = [t \in Thread |-> NULL]

GP(n) == n % MAX_GLOBAL_MQ

Goto(t, place) == pc' = [pc EXCEPT ![t] = place]

-----------------------------------------------------------------------------
(* skynet_globalmq_push                                                    *)

\* The array is in no danger of overflowing where several workers pop: a single
\* worker, or FALSE for Tame, lets it overflow.
Roomy == Tame /\ Cardinality(crew) > 1

\* With Roomy, the next ticket's slot is free and no push is late for it.  The
\* code's 65536 slots make this the normal case: it fails only when more
\* queues than that are queued, or a thread stops between two instructions of
\* a push or a pop while the others push 65536 times.
Room ==
  Roomy => /\ slots[GP(tail)] = NULL
           /\ \A t \in Thread : pc[t] = "p_slot" => GP(ticket[t]) # GP(tail)

\* tail = GP(__sync_fetch_and_add(&q->tail, 1))
TakeTicket(t, x) ==
  /\ tail < MaxTicket /\ Room
  /\ tail' = tail + 1
  /\ ticket' = [ticket EXCEPT ![t] = tail]
  /\ pushing' = [pushing EXCEPT ![t] = x]
  /\ Goto(t, "p_slot")
  /\ UNCHANGED <<head, slots, list, next, popVars>>

\* The push returns, to its caller or to the pop it is nested in.
PushReturns(t) ==
  /\ Goto(t, IF reload[t] THEN "g_slot" ELSE "out")
  /\ pushing' = [pushing EXCEPT ![t] = NULL]
  /\ reload' = [reload EXCEPT ![t] = FALSE]
  /\ ticket' = [ticket EXCEPT ![t] = 0]
  /\ last' = [last EXCEPT ![t] = NULL]

\* The compare-and-swap on the slot; with the slot taken the queue goes to the
\* list.
FillSlot(t) ==
  /\ pc[t] = "p_slot"
  /\ IF slots[GP(ticket[t])] = NULL
     THEN /\ slots' = [slots EXCEPT ![GP(ticket[t])] = pushing[t]]
          /\ PushReturns(t)
     ELSE /\ Goto(t, "p_read")
          /\ UNCHANGED <<slots, last, pushVars>>
  /\ UNCHANGED <<head, tail, list, next, idle, held, popVars>>

ReadList(t) ==
  /\ pc[t] = "p_read"
  /\ last' = [last EXCEPT ![t] = list]
  /\ Goto(t, "p_next")
  /\ UNCHANGED <<queueVars, idle, held, pushVars, popVars>>

SetNext(t) ==
  /\ pc[t] = "p_next"
  /\ next' = [next EXCEPT ![pushing[t]] = last[t]]
  /\ Goto(t, "p_list")
  /\ UNCHANGED <<head, tail, slots, list, idle, held, pushVars, last, popVars>>

PushList(t) ==
  /\ pc[t] = "p_list"
  /\ IF list = last[t]
     THEN list' = pushing[t] /\ PushReturns(t)
     ELSE Goto(t, "p_read") /\ UNCHANGED <<list, last, pushVars>>
  /\ UNCHANGED <<head, tail, slots, next, idle, held, popVars>>

-----------------------------------------------------------------------------
(* skynet_globalmq_pop                                                     *)

\* The pop returns the given set: one queue, or nothing for NULL.
PopReturns(t, result) ==
  /\ Goto(t, "out")
  /\ held' = [held EXCEPT ![t] = @ \cup result]
  /\ seen' = [seen EXCEPT ![t] = 0]
  /\ last' = [last EXCEPT ![t] = NULL]
  /\ newhead' = [newhead EXCEPT ![t] = NULL]
  /\ mq' = [mq EXCEPT ![t] = NULL]

\* head = q->head.  A worker pops with no queue, or with one in hand.
ReadHead(t) ==
  /\ t \in crew /\ pc[t] = "out" /\ Cardinality(held[t]) <= 1
  /\ seen' = [seen EXCEPT ![t] = head]
  /\ Goto(t, "g_tail")
  /\ UNCHANGED <<queueVars, idle, held, pushVars, last, newhead, mq>>

\* if (head == q->tail) return NULL
ReadTail(t) ==
  /\ pc[t] = "g_tail"
  /\ IF seen[t] = tail
     THEN PopReturns(t, {})
     ELSE Goto(t, "g_list") /\ UNCHANGED <<held, last, popVars>>
  /\ UNCHANGED <<queueVars, idle, pushVars>>

\* list = q->list
LookAtList(t) ==
  /\ pc[t] = "g_list"
  /\ last' = [last EXCEPT ![t] = list]
  /\ Goto(t, IF list = NULL THEN "g_slot" ELSE "g_next")
  /\ UNCHANGED <<queueVars, idle, held, pushVars, popVars>>

\* newhead = list->next
ReadNext(t) ==
  /\ pc[t] = "g_next"
  /\ newhead' = [newhead EXCEPT ![t] = next[last[t]]]
  /\ Goto(t, "g_unlist")
  /\ UNCHANGED <<queueVars, idle, held, pushVars, seen, last, mq>>

\* The compare-and-swap that takes the first queue off the list, tried once.
TakeFromList(t) ==
  /\ pc[t] = "g_unlist"
  /\ IF list = last[t]
     THEN list' = newhead[t] /\ Goto(t, "g_clear")
     ELSE list' = list /\ Goto(t, "g_slot")
  /\ UNCHANGED <<head, tail, slots, next, idle, held, pushVars, last, popVars>>

\* list->next = NULL
ClearNext(t) ==
  /\ pc[t] = "g_clear"
  /\ next' = [next EXCEPT ![last[t]] = NULL]
  /\ Goto(t, "g_push")
  /\ UNCHANGED <<head, tail, slots, list, idle, held, pushVars, last, popVars>>

\* The nested skynet_globalmq_push.
PushLoaded(t) ==
  /\ pc[t] = "g_push"
  /\ TakeTicket(t, last[t])
  /\ reload' = [reload EXCEPT ![t] = TRUE]
  /\ last' = [last EXCEPT ![t] = NULL]
  /\ UNCHANGED <<idle, held>>

\* mq = q->queue[head_ptr]
ReadSlot(t) ==
  /\ pc[t] = "g_slot"
  /\ LET x == slots[GP(seen[t])]
     IN IF x = NULL
        THEN PopReturns(t, {})
        ELSE /\ mq' = [mq EXCEPT ![t] = x]
             /\ Goto(t, "g_head")
             /\ UNCHANGED <<held, seen, last, newhead>>
  /\ UNCHANGED <<queueVars, idle, pushVars>>

\* Mutant of AdvanceHead: a plain increment instead of the compare-and-swap.
AdvanceHeadAlways(t) ==
  /\ pc[t] = "g_head"
  /\ head' = head + 1 /\ Goto(t, "g_take")
  /\ UNCHANGED <<tail, slots, list, next, idle, held, last, pushVars, popVars>>

\* The compare-and-swap on q->head.
AdvanceHead(t) ==
  /\ pc[t] = "g_head"
  /\ IF head = seen[t]
     THEN head' = head + 1 /\ Goto(t, "g_take") /\ UNCHANGED <<held, last, popVars>>
     ELSE head' = head /\ PopReturns(t, {})
  /\ UNCHANGED <<tail, slots, list, next, idle, pushVars>>

\* Mutant of EmptySlot: the slot is not cleared.
EmptySlotKeeps(t) ==
  /\ pc[t] = "g_take" /\ PopReturns(t, {mq[t]})
  /\ UNCHANGED <<queueVars, idle, pushVars>>

\* The compare-and-swap that empties the slot.
EmptySlot(t) ==
  /\ pc[t] = "g_take"
  /\ IF slots[GP(seen[t])] = mq[t]
     THEN slots' = [slots EXCEPT ![GP(seen[t])] = NULL] /\ PopReturns(t, {mq[t]})
     ELSE slots' = slots /\ PopReturns(t, {})
  /\ UNCHANGED <<head, tail, list, next, idle, pushVars>>

-----------------------------------------------------------------------------
(* The callers                                                             *)

\* skynet_mq_push or skynet_mq_mark_release, under the lock of the queue.
Schedule(t, x) ==
  /\ t \in crew \cup Sender /\ pc[t] = "out" /\ x \in idle
  /\ idle' = idle \ {x}
  /\ TakeTicket(t, x)
  /\ UNCHANGED <<held, reload, last>>

\* The worker is done with a queue that still has messages.
PushBack(t, x) ==
  /\ pc[t] = "out" /\ x \in held[t]
  /\ held' = [held EXCEPT ![t] = @ \ {x}]
  /\ TakeTicket(t, x)
  /\ UNCHANGED <<idle, reload, last>>

\* skynet_mq_pop found it empty.
PutAside(t, x) ==
  /\ pc[t] = "out" /\ held[t] = {x}
  /\ held' = [held EXCEPT ![t] = {}]
  /\ idle' = idle \cup {x}
  /\ UNCHANGED <<queueVars, pc, pushVars, last, popVars>>

-----------------------------------------------------------------------------
\* The steps inside the two functions.
PushStep(t) ==
  FillSlot(t) \/ ReadList(t) \/ SetNext(t) \/ PushList(t)

PopStep(t) ==
  \/ ReadTail(t) \/ LookAtList(t) \/ ReadNext(t) \/ TakeFromList(t)
  \/ ClearNext(t) \/ PushLoaded(t) \/ ReadSlot(t) \/ AdvanceHead(t) \/ EmptySlot(t)

Next ==
  \E t \in Thread :
    /\ \/ PushStep(t) \/ PopStep(t) \/ ReadHead(t)
       \/ \E x \in Queue : Schedule(t, x) \/ PushBack(t, x) \/ PutAside(t, x)
    /\ UNCHANGED crew

Spec == Init /\ [][Next]_vars

-----------------------------------------------------------------------------
\* Type invariant.
TypeOK ==
  /\ crew \subseteq Worker
  /\ head \in Nat /\ tail \in Nat
  /\ slots \in [0..(MAX_GLOBAL_MQ - 1) -> MaybeQueue]
  /\ list \in MaybeQueue
  /\ next \in [Queue -> MaybeQueue]
  /\ idle \subseteq Queue
  /\ held \in [Thread -> SUBSET Queue]
  /\ pc \in [Thread -> {"out", "p_slot", "p_read", "p_next", "p_list", "g_tail",
                        "g_list", "g_next", "g_unlist", "g_clear", "g_push",
                        "g_slot", "g_head", "g_take"}]
  /\ pushing \in [Thread -> MaybeQueue]
  /\ reload \in [Thread -> BOOLEAN]
  /\ ticket \in [Thread -> Nat] /\ seen \in [Thread -> Nat]
  /\ last \in [Thread -> MaybeQueue]
  /\ newhead \in [Thread -> MaybeQueue] /\ mq \in [Thread -> MaybeQueue]

\* The queues on the list, followed at most Cardinality(Queue) links.
Listed ==
  LET reach[n \in Nat] ==
        IF n = 0 THEN {list}
        ELSE reach[n - 1] \cup {next[x] : x \in reach[n - 1] \ {NULL}}
  IN reach[Cardinality(Queue)] \ {NULL}

\* The places where queue x is.
Places(x) ==
  (IF x \in idle THEN {<<"idle", NULL>>} ELSE {})
    \cup (IF x \in Listed THEN {<<"list", NULL>>} ELSE {})
    \cup {<<"slot", i>> : i \in {i \in DOMAIN slots : slots[i] = x}}
    \cup {<<"held", t>> : t \in {t \in Thread : x \in held[t]}}
    \cup {<<"push", t>> : t \in {t \in Thread : pushing[t] = x}}
    \cup {<<"load", t>> : t \in {t \in Thread : pc[t] \in {"g_clear", "g_push"} /\ last[t] = x}}

\* A queue is in one place: no two threads get the same queue, and none is
\* lost (the compare-and-swaps of push and pop).
OnePlace == \A x \in Queue : Cardinality(Places(x)) = 1

\* "globalmq push not complete", skynet_mq.c:95: when the slot at the head is
\* empty, the push that has its ticket is under way.  (In a full array the push
\* may have gone to the list, so this is for an array with room.)
EmptyMeansPushing ==
  Roomy /\ head # tail /\ slots[GP(head)] = NULL
    => \E t \in Thread : pc[t] = "p_slot" /\ ticket[t] = head
=============================================================================
