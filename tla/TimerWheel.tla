----------------------------- MODULE TimerWheel -----------------------------
(***************************************************************************)
(* The timer of skynet_timer.c: one thread turns a hierarchical timing     *)
(* wheel, all others add timeouts.  T->lock is held in every action but    *)
(* Dispatch, which is the part of timer_execute that runs without it, and  *)
(* UpdateTime, which touches only what belongs to the timer thread.        *)
(***************************************************************************)
EXTENDS Naturals, Sequences

CONSTANTS
  Node,               \* the timer_nodes, reused after they are freed
  TIME_NEAR,          \* 2^8 in the code
  TIME_LEVEL,         \* 2^6 in the code
  MaxLag              \* bound: centiseconds between two readings of the clock

ASSUME TimerAssumption ==
  /\ TIME_NEAR \in Nat \ {0, 1} /\ TIME_LEVEL \in Nat \ {0, 1}
  /\ MaxLag \in Nat \ {0}

Top == 3              \* the highest level of T->t
Near == Top + 1       \* stands for T->near among the levels

\* Ticks that one slot of a level spans.
Span[i \in 0..(Top + 1)] == IF i = 0 THEN TIME_NEAR ELSE TIME_LEVEL * Span[i - 1]

\* The values of T->time: with the sizes of the code all of uint32_t.
Ticks == Span[Top + 1]

\* The lists: near[0..TIME_NEAR-1] and t[0..3][0..TIME_LEVEL-1].
Slot == ({Near} \X (0..(TIME_NEAR - 1))) \cup ((0..Top) \X (0..(TIME_LEVEL - 1)))

VARIABLES
  time,               \* T->time
  list,               \* the nodes of each list
  expire,             \* node->expire
  pc,                 \* where skynet_updatetime is
  firing,             \* what dispatch_list has still to dispatch
  current,            \* TI->current
  left,               \* the turns its loop still makes
  order               \* ghost: the nodes that were not dispatched, oldest first

Waiting == {order[i] : i \in DOMAIN order}
Fired == {firing[i] : i \in DOMAIN firing}

vars == <<time, list, expire, pc, firing, current, left, order>>

\* timer_create_timer; TI->current counts from the start here.
Init ==
  /\ time = 0
  /\ list = [s \in Slot |-> <<>>]
  /\ expire = [n \in Node |-> 0]
  /\ pc = "idle" /\ firing = <<>>
  /\ current = 0 /\ left = 0
  /\ order = <<>>

-----------------------------------------------------------------------------
(* add_node                                                                *)

\* The first level above whose bits x and now agree, or the highest.
Level(x, now) ==
  CHOOSE i \in 0..Top :
    /\ i = Top \/ x \div Span[i + 1] = now \div Span[i + 1]
    /\ \A k \in 0..(i - 1) : x \div Span[k + 1] # now \div Span[k + 1]

\* The list for a node that expires at x.
Place(x, now) ==
  IF x \div TIME_NEAR = now \div TIME_NEAR
  THEN <<Near, x % TIME_NEAR>>
  ELSE LET i == Level(x, now) IN <<i, (x \div Span[i]) % TIME_LEVEL>>

\* The lists when add_node has been called for some nodes in turn.
Added(lists, nodes, exp, now) ==
  LET link[k \in 0..Len(nodes)] ==
        IF k = 0 THEN lists
        ELSE [link[k - 1] EXCEPT ![Place(exp[nodes[k]], now)] = Append(@, nodes[k])]
  IN link[Len(nodes)]

\* timer_add: any thread, whenever nobody has the lock.  A delay is a positive
\* int.
TimerAdd(n, delay) ==
  /\ n \notin Waiting
  /\ expire' = [expire EXCEPT ![n] = (time + delay) % Ticks]
  /\ list' = Added(list, <<n>>, expire', time)
  /\ order' = Append(order, n)
  /\ UNCHANGED <<time, pc, firing, current, left>>

-----------------------------------------------------------------------------
(* skynet_updatetime and timer_update                                      *)

\* The clock went on by diff since it was last read.
UpdateTime(diff) ==
  /\ pc = "idle" /\ left = 0
  /\ current' = (current + diff) % Ticks
  /\ left' = diff
  /\ UNCHANGED <<time, list, expire, pc, firing, order>>

\* One turn of the loop is one timer_update.
TimerUpdate ==
  /\ pc = "idle" /\ left > 0
  /\ pc' = "try"
  /\ UNCHANGED <<time, list, expire, firing, current, left, order>>

Now == <<Near, time % TIME_NEAR>>

\* timer_execute with nodes in the current list: the list is taken whole.
TakeList ==
  /\ pc \in {"try", "execute"} /\ firing = <<>> /\ list[Now] # <<>>
  /\ firing' = list[Now]
  /\ list' = [list EXCEPT ![Now] = <<>>]
  /\ UNCHANGED <<time, expire, pc, current, left, order>>

\* dispatch_list, one node: its response is pushed and it is freed (what a
\* freed node holds is not read; 0 stands for it).
Dispatch ==
  /\ firing # <<>>
  /\ firing' = Tail(firing)
  /\ LET oldest == CHOOSE i \in DOMAIN order : order[i] = Head(firing)
     IN order' = [i \in 1..(Len(order) - 1) |->
                    IF i < oldest THEN order[i] ELSE order[i + 1]]
  /\ expire' = [expire EXCEPT ![Head(firing)] = 0]
  /\ UNCHANGED <<time, list, pc, current, left>>

\* The list to be moved when the clock shows ct, if any: that of the lowest
\* level whose index is not 0, if all bits below are.
Cascade(ct) ==
  IF ct = 0 THEN {<<Top, 0>>}
  ELSE {<<i, (ct \div Span[i]) % TIME_LEVEL>> :
          i \in {k \in 0..Top : ct % Span[k] = 0 /\ (ct \div Span[k]) % TIME_LEVEL # 0}}

\* Mutant of Moved: the highest level is forgotten when the clock wraps.
MovedNotAtWrap(ct) ==
  IF ct = 0 THEN list
  ELSE LET from  == Cascade(ct)
           kept  == [s \in Slot |-> IF s \in from THEN <<>> ELSE list[s]]
       IN IF from = {} THEN list
          ELSE Added(kept, list[CHOOSE s \in from : TRUE], expire, ct)

\* The lists after move_list.
Moved(ct) ==
  LET from  == Cascade(ct)
      kept  == [s \in Slot |-> IF s \in from THEN <<>> ELSE list[s]]
  IN IF from = {} THEN list
     ELSE Added(kept, list[CHOOSE s \in from : TRUE], expire, ct)

\* timer_execute found the list empty: timer_shift in the first call,
\* the end of timer_update in the second.
TimerShift ==
  /\ pc = "try" /\ firing = <<>> /\ list[Now] = <<>>
  /\ time' = (time + 1) % Ticks
  /\ list' = Moved(time')
  /\ pc' = "execute"
  /\ UNCHANGED <<expire, firing, current, left, order>>

EndUpdate ==
  /\ pc = "execute" /\ firing = <<>> /\ list[Now] = <<>>
  /\ pc' = "idle"
  /\ left' = left - 1
  /\ UNCHANGED <<time, list, expire, firing, current, order>>

TimerThread ==
  \/ \E diff \in 1..MaxLag : UpdateTime(diff)
  \/ TimerUpdate \/ TakeList \/ Dispatch \/ TimerShift \/ EndUpdate

Next ==
  \/ TimerThread
  \/ \E n \in Node, delay \in 1..(Ticks \div 2 - 1) : TimerAdd(n, delay)

Spec == Init /\ [][Next]_vars

\* The clock goes on, and the timer thread with it: it waits for nothing but
\* the spin lock.
FairSpec == Spec /\ WF_vars(TimerThread)

-----------------------------------------------------------------------------
\* Type invariant.
TypeOK ==
  /\ time \in 0..(Ticks - 1) /\ current \in 0..(Ticks - 1)
  /\ list \in [Slot -> Seq(Node)] /\ firing \in Seq(Node) /\ order \in Seq(Node)
  /\ expire \in [Node -> 0..(Ticks - 1)]
  /\ pc \in {"idle", "try", "execute"}
  /\ left \in 0..MaxLag

\* Every node is in exactly one place: in the list in which add_node would put
\* it now, or among those that are being dispatched.  Cascading when the
\* bits of a level roll over is what keeps it so (timer_shift, move_list).
WellPlaced ==
  \A s \in Slot :
    {list[s][i] : i \in DOMAIN list[s]} =
      {n \in Waiting \ Fired : s = Place(expire[n], time)}

\* TI->current, which services read, and T->time, from which they count their
\* timeouts, differ by the turns that skynet_updatetime still has to make.
ClockCoherent == (time + left) % Ticks = (current + IF pc = "execute" THEN 1 ELSE 0) % Ticks

\* No timeout is lost, early, late or out of order, over cascades, overflow of
\* the clock and additions in the middle of a dispatch: the wheel is a clock of
\* module AlarmClock, in which moreover every alarm rings.
Clock == INSTANCE AlarmClock
           WITH Alarm <- Node, now <- time, due <- expire, pending <- order
ImplementsClock == Clock!Spec
=============================================================================
