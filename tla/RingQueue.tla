----------------------------- MODULE RingQueue -----------------------------
(***************************************************************************)
(* One message_queue of skynet_mq.c: a ring buffer that doubles when it is *)
(* full, its in_global flag, and the overload alarm.  Every operation runs *)
(* under the queue's spin lock, so each is one action.  skynet_mq_pop is   *)
(* called only by the worker that owns the queue, which is possible only   *)
(* while in_global is set (ServiceDispatch shows why); who owns the queue  *)
(* is not represented here.                                                *)
(***************************************************************************)
EXTENDS Naturals, Sequences

CONSTANTS
  Message,            \* the messages that are sent
  Garbage,            \* content of a slot that skynet_malloc left unwritten
  DEFAULT_QUEUE_SIZE, \* capacity of a new ring
  MQ_OVERLOAD,        \* length above which the first alarm is raised
  MaxLength           \* bound: no push when the queue holds that many

ASSUME RingAssumption ==
  /\ Garbage \notin Message
  /\ DEFAULT_QUEUE_SIZE \in Nat \ {0}
  /\ MQ_OVERLOAD \in Nat \ {0}
  /\ MaxLength \in Nat

VARIABLES
  buf,                \* q->queue: the slots 0..cap-1
  cap, head, tail,    \* ring geometry
  in_global,          \* q->in_global
  overload,           \* q->overload: alarm not yet reported, 0 if none
  threshold,          \* q->overload_threshold
  reported            \* what skynet_error last printed since the queue was
                      \* last found empty, 0 if nothing

ringVars == <<buf, cap, head, tail, in_global, overload, threshold, reported>>

\* skynet_mq_create
RingInit ==
  /\ cap = DEFAULT_QUEUE_SIZE
  /\ buf = [i \in 0..(cap - 1) |-> Garbage]
  /\ head = 0 /\ tail = 0
  /\ in_global = TRUE
  /\ overload = 0 /\ threshold = MQ_OVERLOAD
  /\ reported = 0

\* The length of a ring with the given geometry: skynet_mq_length, and the
\* same computation inside skynet_mq_pop.
RingLength(h, t, c) == IF h <= t THEN t - h ELSE t + c - h

Length == RingLength(head, tail, cap)

\* The slot after slot i.
NextSlot(i) == IF i + 1 >= cap THEN 0 ELSE i + 1

\* Mutant of Unrolled: copies from slot 0 instead of from head.
UnrolledFromZero(b) ==
  [i \in 0..(2 * cap - 1) |-> IF i < cap THEN b[i] ELSE Garbage]

\* The ring as expand_queue copies it: oldest message in slot 0.
Unrolled(b) ==
  [i \in 0..(2 * cap - 1) |-> IF i < cap THEN b[(head + i) % cap] ELSE Garbage]

\* skynet_mq_push: write at tail, wrap, expand when the ring became full, and
\* schedule the queue when nobody has it.
Push(m) ==
  LET written == [buf EXCEPT ![tail] = m]
      next    == NextSlot(tail)
  IN /\ Length < MaxLength
     /\ IF next = head
        THEN /\ buf' = Unrolled(written)
             /\ head' = 0 /\ tail' = cap /\ cap' = 2 * cap
        ELSE /\ buf' = written
             /\ tail' = next
             /\ UNCHANGED <<head, cap>>
     /\ in_global' = TRUE
     /\ UNCHANGED <<overload, threshold, reported>>

\* Doubled(len)[th]: threshold th doubled until a length of len no longer
\* exceeds it.
Doubled(len) ==
  LET raise[th \in Nat] == IF th > 0 /\ len > th THEN raise[2 * th] ELSE th
  IN raise

\* Mutant of RaisedThreshold: the alarm does not move the threshold.
FixedThreshold(len) == threshold

\* The loop at the end of a successful pop.
RaisedThreshold(len) == Doubled(len)[threshold]

\* skynet_mq_pop on a queue with messages.  The worker reports the alarm of one
\* pop before it pops again (skynet_context_message_dispatch), hence the guard
\* on overload.  The pops of _drop_queue, after which the queue is freed and
\* nobody reads the alarm, are those of ServiceDispatch.
PopMessage ==
  LET next == NextSlot(head)
      len  == RingLength(next, tail, cap)
  IN /\ in_global /\ overload = 0
     /\ head # tail
     /\ head' = next
     /\ overload' = IF len > threshold THEN len ELSE overload
     /\ threshold' = RaisedThreshold(len)
     /\ UNCHANGED <<buf, cap, tail, in_global, reported>>

\* skynet_mq_pop on an empty queue: the alarm is rearmed and the queue leaves
\* the global queue.
PopEmpty ==
  /\ in_global /\ overload = 0
  /\ head = tail
  /\ threshold' = MQ_OVERLOAD
  /\ in_global' = FALSE
  /\ reported' = 0
  /\ UNCHANGED <<buf, cap, head, tail, overload>>

\* skynet_mq_overload, called by the dispatcher after each message it popped;
\* an alarm it returns is printed.
ReportOverload ==
  /\ in_global
  /\ overload # 0
  /\ overload' = 0
  /\ reported' = overload
  /\ UNCHANGED <<buf, cap, head, tail, in_global, threshold>>

RingNext ==
  \/ \E m \in Message : Push(m)
  \/ PopMessage
  \/ PopEmpty
  \/ ReportOverload

RingSpec == RingInit /\ [][RingNext]_ringVars

-----------------------------------------------------------------------------
\* The message a successful pop hands out.
Oldest == buf[head]

\* The content of the ring, oldest message first.
Content == [i \in 1..Length |-> buf[(head + i - 1) % cap]]

-----------------------------------------------------------------------------
\* Type invariant of the ring.
RingTypeOK ==
  /\ cap \in Nat \ {0}
  /\ buf \in [0..(cap - 1) -> Message \cup {Garbage}]
  /\ head \in 0..(cap - 1) /\ tail \in 0..(cap - 1)
  /\ in_global \in BOOLEAN
  /\ overload \in Nat /\ threshold \in Nat /\ reported \in Nat

\* The ring, whatever its head, its wrap-arounds and its expansions, is the
\* FIFO of module Mailbox: no message is lost, duplicated, reordered or read
\* from an uninitialised slot, and a queue with messages is always scheduled
\* (push, pop and expand_queue of skynet_mq.c).
Abstract == INSTANCE Mailbox WITH msgs <- Content, scheduled <- in_global
ImplementsMailbox == Abstract!Spec

\* The alarm state is coherent: the threshold is above its default exactly
\* when an alarm was raised since the queue was last empty, and it is then at
\* least the length that raised it and less than twice it (skynet_mq.c:187).
AlarmCoherent ==
  LET last == IF overload # 0 THEN overload ELSE reported
  IN IF last = 0 THEN threshold = MQ_OVERLOAD
     ELSE threshold > MQ_OVERLOAD /\ last <= threshold /\ threshold < 2 * last

\* A busy queue does not repeat its alarm: until it is found empty, each
\* printed length is larger than the one printed before.
AlarmsEscalate ==
  [][reported' # reported => reported' = 0 \/ reported' > reported]_ringVars
=============================================================================
