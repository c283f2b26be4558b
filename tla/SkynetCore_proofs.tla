------------------------- MODULE SkynetCore_proofs -------------------------
(***************************************************************************)
(* Proofs about the small parts of skynet-src: the readers-writer lock     *)
(* (RwLock), the ring of a message queue (RingQueue), the threads         *)
(* (RwLock), the ring of a message queue (RingQueue), the threads          *)
(* workers, messages, capacities and sizes of the wheel.                   *)
(***************************************************************************)
EXTENDS RwLock, RingQueue, WorkerPool, TimerWheel, Integers, FiniteSetTheorems,
        WellFoundedInduction, TLAPS

-----------------------------------------------------------------------------
(* The readers-writer lock, for any finite set of threads                  *)

\* The threads that lock->read counts.
Readers == {t \in Thread : at[t] \in Counted}

\* The flag write says that there is exactly one writer past its test-and-set.
FlagHeld ==
  /\ write <=> \E t \in Thread : at[t] \in Writer
  /\ \A t, u \in Thread : at[t] \in Writer /\ at[u] \in Writer => t = u

\* A writer that got in has seen the last reader go.
Drained == \A t, u \in Thread : at[t] = "writing" => at[u] # "reading"

LockInv == LockTypeOK /\ ReadersCounted /\ FlagHeld /\ Drained

-----------------------------------------------------------------------------
\* The counted threads form a finite set, so read is a natural number.
LEMMA ReadersFinite == IsFiniteSet(Readers) /\ Cardinality(Readers) \in Nat
  <1>1. Readers \subseteq Thread
    BY DEF Readers
  <1> QED BY <1>1, ThreadAssumption, FS_Subset, FS_CardinalityType

\* What a step of one thread does to the program counters.
LEMMA Moves ==
  ASSUME LockTypeOK, NEW t \in Thread, NEW from, NEW to, Step(t, from, to)
  PROVE  /\ at[t] = from /\ at'[t] = to
         /\ \A u \in Thread : u # t => at'[u] = at[u]
  BY DEF LockTypeOK, Step

\* A thread that becomes counted adds one to the number of readers.
LEMMA ReaderComes ==
  ASSUME LockTypeOK, NEW t \in Thread, at[t] \notin Counted, at'[t] \in Counted,
         \A u \in Thread : u # t => at'[u] = at[u]
  PROVE  Cardinality(Readers') = Cardinality(Readers) + 1
  <1>1. Readers' = Readers \cup {t} /\ t \notin Readers
    BY DEF Readers
  <1> QED BY <1>1, ReadersFinite, FS_AddElement

\* A counted thread that leaves takes one from it.
LEMMA ReaderGoes ==
  ASSUME LockTypeOK, NEW t \in Thread, at[t] \in Counted, at'[t] \notin Counted,
         \A u \in Thread : u # t => at'[u] = at[u]
  PROVE  /\ Cardinality(Readers') = Cardinality(Readers) - 1
         /\ Cardinality(Readers) > 0
  <1>1. Readers' = Readers \ {t} /\ t \in Readers
    BY DEF Readers
  <1>2. Readers # {}
    BY <1>1
  <1>3. Cardinality(Readers) \in Nat /\ Cardinality(Readers) # 0
    BY <1>2, ReadersFinite, FS_EmptySet
  <1>4. Cardinality(Readers \ {t}) = Cardinality(Readers) - 1
    BY <1>1, ReadersFinite, FS_RemoveElement
  <1>5. Cardinality(Readers) > 0
    BY <1>3
  <1> QED BY <1>1, <1>4, <1>5

\* Any other step leaves the number of readers alone.
LEMMA ReadersStay ==
  ASSUME LockTypeOK, NEW t \in Thread, at'[t] \in Counted <=> at[t] \in Counted,
         \A u \in Thread : u # t => at'[u] = at[u]
  PROVE  Readers' = Readers
  BY DEF Readers

-----------------------------------------------------------------------------
\* The invariant holds initially.
LEMMA LockBegins == LockInit => LockInv
  <1> SUFFICES ASSUME LockInit PROVE LockInv
    OBVIOUS
  <1>1. \A t \in Thread : at[t] = "idle"
    BY DEF LockInit
  <1>2. {t \in Thread : at[t] \in Counted} = {}
    BY <1>1 DEF Counted
  <1> QED BY <1>1, <1>2, FS_EmptySet
          DEF LockInit, LockInv, LockTypeOK, ReadersCounted, FlagHeld, Drained, Writer

\* Every step preserves the invariant.
LEMMA LockSteps == LockInv /\ [LockNext]_lockVars => LockInv'
  <1> SUFFICES ASSUME LockInv, [LockNext]_lockVars PROVE LockInv'
    OBVIOUS
  <1> USE DEF LockInv
  <1>0. ReadersCounted <=> read = Cardinality(Readers)
    BY DEF ReadersCounted, Readers
  <1>00. ReadersCounted' <=> read' = Cardinality(Readers')
    BY DEF ReadersCounted, Readers
  <1>1. ASSUME NEW t \in Thread,
               StartRead(t) \/ ReadSpin(t) \/ StartWrite(t)
        PROVE  LockInv'
    <2>1. /\ at[t] \in {"idle", "r_spin"} /\ at'[t] \in {"r_spin", "r_enter", "w_try"}
          /\ \A u \in Thread : u # t => at'[u] = at[u]
          /\ UNCHANGED <<read, write>>
      BY <1>1, Moves DEF StartRead, ReadSpin, StartWrite
    <2>2. Readers' = Readers
      BY <2>1, ReadersStay DEF Counted
    <2>3. LockTypeOK'
      BY <1>1 DEF LockTypeOK, StartRead, ReadSpin, StartWrite, Step
    <2> QED BY <2>1, <2>2, <2>3, <1>0, <1>00 DEF FlagHeld, Drained, Writer
  <1>2. ASSUME NEW t \in Thread, ReadEnter(t)
        PROVE  LockInv'
    <2>1. /\ at[t] = "r_enter" /\ at'[t] = "r_check"
          /\ \A u \in Thread : u # t => at'[u] = at[u]
          /\ read' = read + 1 /\ write' = write
      BY <1>2, Moves DEF ReadEnter
    <2>2. Cardinality(Readers') = Cardinality(Readers) + 1
      BY <2>1, ReaderComes DEF Counted
    <2>3. LockTypeOK'
      BY <1>2 DEF LockTypeOK, ReadEnter, Step
    <2> QED BY <2>1, <2>2, <2>3, <1>0, <1>00 DEF FlagHeld, Drained, Writer
  <1>3. ASSUME NEW t \in Thread, ReadCheck(t)
        PROVE  LockInv'
    <2>1. /\ at[t] = "r_check" /\ at'[t] = IF write THEN "r_back" ELSE "reading"
          /\ \A u \in Thread : u # t => at'[u] = at[u]
          /\ UNCHANGED <<read, write>>
      BY <1>3, Moves DEF ReadCheck
    <2>2. Readers' = Readers
      BY <2>1, ReadersStay DEF Counted
    <2>3. LockTypeOK'
      BY <1>3 DEF LockTypeOK, ReadCheck, Step
    <2>4. Drained'
      BY <2>1 DEF FlagHeld, Drained, Writer
    <2> QED BY <2>1, <2>2, <2>3, <2>4, <1>0, <1>00 DEF FlagHeld, Writer
  <1>4. ASSUME NEW t \in Thread, ReadBack(t) \/ ReadUnlock(t)
        PROVE  LockInv'
    <2>1. /\ at[t] \in {"r_back", "reading"} /\ at'[t] \in {"r_spin", "idle"}
          /\ \A u \in Thread : u # t => at'[u] = at[u]
          /\ read' = read - 1 /\ write' = write
      BY <1>4, Moves DEF ReadBack, ReadUnlock
    <2>2. /\ Cardinality(Readers') = Cardinality(Readers) - 1
          /\ Cardinality(Readers) > 0
      BY <2>1, ReaderGoes DEF Counted
    <2>3. read - 1 \in Nat
      BY <2>2, <1>0 DEF LockTypeOK
    <2>4. LockTypeOK'
      BY <1>4, <2>1, <2>3 DEF LockTypeOK, ReadBack, ReadUnlock, Step
    <2> QED BY <2>1, <2>2, <2>4, <1>0, <1>00 DEF FlagHeld, Drained, Writer
  <1>5. ASSUME NEW t \in Thread, WriteTry(t)
        PROVE  LockInv'
    <2>1. /\ at[t] = "w_try" /\ at'[t] = "w_drain"
          /\ \A u \in Thread : u # t => at'[u] = at[u]
          /\ read' = read /\ ~ write /\ write' = TRUE
      BY <1>5, Moves DEF WriteTry
    <2>2. Readers' = Readers
      BY <2>1, ReadersStay DEF Counted
    <2>3. LockTypeOK'
      BY <1>5 DEF LockTypeOK, WriteTry, Step
    <2> QED BY <2>1, <2>2, <2>3, <1>0, <1>00 DEF FlagHeld, Drained, Writer
  <1>6. ASSUME NEW t \in Thread, WriteDrain(t)
        PROVE  LockInv'
    <2>1. /\ at[t] = "w_drain" /\ at'[t] = "writing"
          /\ \A u \in Thread : u # t => at'[u] = at[u]
          /\ UNCHANGED <<read, write>> /\ read = 0
      BY <1>6, Moves DEF WriteDrain
    <2>2. Readers' = Readers
      BY <2>1, ReadersStay DEF Counted
    <2>3. Readers = {}
      BY <2>1, <1>0, ReadersFinite, FS_EmptySet
    <2>4. \A u \in Thread : at[u] # "reading"
      BY <2>3 DEF Readers, Counted
    <2>5. Drained'
      BY <2>1, <2>4 DEF Drained
    <2>6. LockTypeOK'
      BY <1>6 DEF LockTypeOK, WriteDrain, Step
    <2> QED BY <2>1, <2>2, <2>5, <2>6, <1>0, <1>00 DEF FlagHeld, Writer
  <1>7. ASSUME NEW t \in Thread, WriteUnlock(t)
        PROVE  LockInv'
    <2>1. /\ at[t] = "writing" /\ at'[t] = "idle"
          /\ \A u \in Thread : u # t => at'[u] = at[u]
          /\ read' = read /\ write' = FALSE
      BY <1>7, Moves DEF WriteUnlock
    <2>2. Readers' = Readers
      BY <2>1, ReadersStay DEF Counted
    <2>3. LockTypeOK'
      BY <1>7 DEF LockTypeOK, WriteUnlock, Step
    <2> QED BY <2>1, <2>2, <2>3, <1>0, <1>00 DEF FlagHeld, Drained, Writer
  <1>8. CASE UNCHANGED lockVars
    BY <1>8 DEF lockVars, LockTypeOK, ReadersCounted, FlagHeld, Drained
  <1> QED BY <1>1, <1>2, <1>3, <1>4, <1>5, <1>6, <1>7, <1>8 DEF LockNext, Progress

\* The inductive invariant is an invariant of the lock.
THEOREM LockInvariance == LockSpec => []LockInv
  BY LockBegins, LockSteps, PTL DEF LockSpec

\* Mutual exclusion: a writer shares its section with nobody, for any number
\* of threads (rwlock.h).
THEOREM MutualExclusion == LockSpec => []Exclusion
  <1>1. LockInv => Exclusion
    BY DEF LockInv, FlagHeld, Drained, Writer, Exclusion
  <1> QED BY <1>1, LockInvariance, PTL

\* lock->read counts the readers inside and backing off, so it never goes
\* below zero and a writer cannot miss a reader.
THEOREM ReadCount == LockSpec => []ReadersCounted
  <1>1. LockInv => ReadersCounted
    BY DEF LockInv
  <1> QED BY <1>1, LockInvariance, PTL

-----------------------------------------------------------------------------
(* The loop that doubles the threshold                                     *)

\* Induction over the natural numbers, for a set instead of a predicate.
LEMMA SetInduction ==
  ASSUME NEW S, 0 \in S, \A n \in Nat : n \in S => n + 1 \in S
  PROVE  Nat \subseteq S
  <1> DEFINE T == Nat \ S
             R == OpToRel(<, Nat)
  <1>1. SUFFICES ASSUME T # {} PROVE FALSE
    OBVIOUS
  <1>2. \A x, y \in Nat : x < y => <<x, y>> \in R
    BY DEF OpToRel
  <1>3. IsWellFoundedOn(R, Nat)
    BY NatLessThanWellFounded
  <1>4. T \subseteq Nat
    OBVIOUS
  <1> HIDE DEF R, T
  <1>5. PICK x \in T : \A y \in T : <<y, x>> \notin R
    BY <1>1, <1>3, <1>4, WFMin
  <1> USE DEF T
  <1>6. x \in Nat /\ x # 0
    BY <1>5
  <1>7. x - 1 \in Nat /\ x - 1 < x
    BY <1>6
  <1>8. x - 1 \in S
    BY <1>2, <1>5, <1>6, <1>7
  <1> QED BY <1>5, <1>6, <1>7, <1>8

\* One turn of the loop on a threshold th.
Turn(f, len, th) == IF th > 0 /\ len > th THEN f[2 * th] ELSE th

\* The loop ends for every length and threshold: its result is defined.
LEMMA LoopEnds ==
  ASSUME NEW len \in Nat
  PROVE  \E f \in [Nat -> Nat] : \A th \in Nat : f[th] = Turn(f, len, th)
  <1> DEFINE Grown(n) == {th \in Nat : th = 0 \/ th + n >= len}
             S == {n \in Nat : \E f \in [Nat -> Nat] : \A th \in Grown(n) : f[th] = Turn(f, len, th)}
  <1>1. 0 \in S
    <2>1. [th \in Nat |-> th] \in [Nat -> Nat]
      OBVIOUS
    <2>2. \A th \in Grown(0) : [x \in Nat |-> x][th] = Turn([x \in Nat |-> x], len, th)
      BY DEF Turn
    <2> QED BY <2>1, <2>2
  <1>2. ASSUME NEW n \in Nat, n \in S PROVE n + 1 \in S
    <2>1. PICK f \in [Nat -> Nat] : \A th \in Grown(n) : f[th] = Turn(f, len, th)
      BY <1>2
    <2>2. CASE n + 1 < len
      <3> DEFINE new == len - (n + 1)
                 g == [f EXCEPT ![new] = f[2 * new]]
      <3>1. new \in Nat /\ new > 0 /\ len > new /\ 2 * new \in Nat /\ 2 * new # new
        BY <2>2
      <3>2. g \in [Nat -> Nat]
        BY <3>1
      <3>3. g[new] = Turn(g, len, new)
        BY <3>1 DEF Turn
      <3>4. ASSUME NEW th \in Grown(n + 1), th # new PROVE g[th] = Turn(g, len, th)
        <4>1. th \in Grown(n)
          BY <3>4
        <4>2. th > 0 /\ len > th => 2 * th # new /\ 2 * th \in Nat
          BY <4>1, <2>2
        <4> QED BY <2>1, <3>4, <4>1, <4>2 DEF Turn
      <3>5. \A th \in Grown(n + 1) : g[th] = Turn(g, len, th)
        BY <3>3, <3>4
      <3> HIDE DEF g
      <3> QED BY <3>2, <3>5
    <2>3. CASE n + 1 >= len
      <3>1. \A th \in Grown(n + 1) : th \notin Grown(n) => th = 0 \/ th + n + 1 = len
        OBVIOUS
      <3>2. \A th \in Grown(n + 1) : th \in Grown(n)
        BY <2>3, <3>1
      <3> QED BY <2>1, <3>2
    <2> QED BY <2>2, <2>3
  <1> HIDE DEF S
  <1>3. Nat \subseteq S
    BY <1>1, <1>2, SetInduction
  <1>4. PICK f \in [Nat -> Nat] : \A th \in Grown(len) : f[th] = Turn(f, len, th)
    BY <1>3 DEF S
  <1>5. \A th \in Nat : th \in Grown(len)
    OBVIOUS
  <1> QED BY <1>4, <1>5

\* Doubled(len) is that result.
LEMMA DoubledIs ==
  ASSUME NEW len \in Nat
  PROVE  \A th \in Nat : Doubled(len)[th] = Turn(Doubled(len), len, th)
  <1>1. PICK f \in [Nat -> Nat] : \A th \in Nat : f[th] = Turn(f, len, th)
    BY LoopEnds
  <1>2. f = [th \in Nat |-> IF th > 0 /\ len > th THEN f[2 * th] ELSE th]
    BY <1>1 DEF Turn
  <1> DEFINE P(g) == g = [th \in Nat |-> IF th > 0 /\ len > th THEN g[2 * th] ELSE th]
  <1>3. Doubled(len) = CHOOSE g : P(g)
    BY DEF Doubled
  <1>4. P(f)
    BY <1>2
  <1>5. P(CHOOSE g : P(g))
    <2> HIDE DEF P
    <2> QED BY <1>4
  <1>6. P(Doubled(len))
    BY <1>3, <1>5
  <1> QED BY <1>6 DEF Turn

\* A threshold that was exceeded ends at least at the length, below its double;
\* the other ones stay.
LEMMA DoubledBounds ==
  ASSUME NEW len \in Nat, NEW th \in Nat \ {0}
  PROVE  IF len > th
         THEN Doubled(len)[th] \in Nat /\ len <= Doubled(len)[th] /\ Doubled(len)[th] < 2 * len
         ELSE Doubled(len)[th] = th
  <1> DEFINE f == Doubled(len)
             Good(x) == f[x] \in Nat /\ len <= f[x] /\ f[x] < 2 * len
             S == {n \in Nat : \A x \in Nat \ {0} : len > x /\ x + n >= len => Good(x)}
  <1>1. \A x \in Nat : f[x] = Turn(f, len, x)
    BY DoubledIs
  <1>2. CASE ~ len > th
    BY <1>1, <1>2 DEF Turn
  <1>3. CASE len > th
    <2> HIDE DEF f
    <2>1. 0 \in S
      OBVIOUS
    <2>2. ASSUME NEW n \in Nat, n \in S PROVE n + 1 \in S
      <3>1. SUFFICES ASSUME NEW x \in Nat \ {0}, len > x, x + n + 1 >= len PROVE Good(x)
        OBVIOUS
      <3>2. 2 * x \in Nat \ {0} /\ f[x] = f[2 * x]
        BY <1>1, <3>1 DEF Turn
      <3>3. CASE len > 2 * x
        BY <2>2, <3>1, <3>2, <3>3
      <3>4. CASE ~ len > 2 * x
        BY <1>1, <3>1, <3>2, <3>4 DEF Turn
      <3> QED BY <3>3, <3>4
    <2> HIDE DEF S
    <2>3. Nat \subseteq S
      BY <2>1, <2>2, SetInduction
    <2>4. Good(th)
      BY <2>3, <1>3 DEF S
    <2> QED BY <2>4, <1>3 DEF f
  <1> QED BY <1>2, <1>3

-----------------------------------------------------------------------------
(* Type correctness                                                        *)

\* A threshold stays a positive number.
RingInv == RingTypeOK /\ threshold > 0

LEMMA RingBegins == RingInit => RingInv
  BY RingAssumption DEF RingInit, RingInv, RingTypeOK

LEMMA PushTypes ==
  ASSUME RingInv, NEW m \in Message, Push(m)
  PROVE  RingInv'
  <1> DEFINE written == [buf EXCEPT ![tail] = m]
  <1>1. written \in [0..(cap - 1) -> Message \cup {Garbage}]
    BY DEF RingInv, RingTypeOK
  <1>2. cap \in Nat \ {0} /\ head \in 0..(cap - 1) /\ tail \in 0..(cap - 1)
    BY DEF RingInv, RingTypeOK
  <1>3. CASE NextSlot(tail) = head
    <2>1. /\ buf' = Unrolled(written) /\ head' = 0 /\ tail' = cap /\ cap' = 2 * cap
      BY <1>3 DEF Push
    <2>2. \A i \in 0..(cap - 1) : (head + i) % cap \in 0..(cap - 1)
      BY <1>2
    <2>3. Unrolled(written) \in [0..(2 * cap - 1) -> Message \cup {Garbage}]
      BY <1>1, <1>2, <2>2 DEF Unrolled
    <2>4. /\ 2 * cap \in Nat \ {0} /\ 0 \in 0..(2 * cap - 1) /\ cap \in 0..(2 * cap - 1)
      BY <1>2
    <2> QED BY <2>1, <2>3, <2>4 DEF Push, RingInv, RingTypeOK
  <1>4. CASE NextSlot(tail) # head
    <2>1. buf' = written /\ tail' = NextSlot(tail) /\ UNCHANGED <<head, cap>>
      BY <1>4 DEF Push
    <2>2. NextSlot(tail) \in 0..(cap - 1)
      BY <1>2 DEF NextSlot
    <2> QED BY <1>1, <2>1, <2>2 DEF Push, RingInv, RingTypeOK
  <1> QED BY <1>3, <1>4

\* The length of a ring is a number below its capacity.
LEMMA LengthType ==
  ASSUME NEW c \in Nat, NEW h \in 0..(c - 1), NEW t \in 0..(c - 1)
  PROVE  RingLength(h, t, c) \in 0..(c - 1)
  BY DEF RingLength

LEMMA PopTypes ==
  ASSUME RingInv, PopMessage
  PROVE  RingInv'
  <1> DEFINE len == RingLength(NextSlot(head), tail, cap)
  <1>1. cap \in Nat \ {0} /\ head \in 0..(cap - 1) /\ tail \in 0..(cap - 1)
    BY DEF RingInv, RingTypeOK
  <1>2. NextSlot(head) \in 0..(cap - 1)
    BY <1>1 DEF NextSlot
  <1>3. len \in Nat
    BY <1>1, <1>2, LengthType
  <1>4. threshold \in Nat \ {0} /\ overload \in Nat
    BY DEF RingInv, RingTypeOK
  <1>5. threshold' = Doubled(len)[threshold]
    BY DEF PopMessage, RaisedThreshold
  <1>6. threshold' \in Nat /\ threshold' > 0
    <2> HIDE DEF len
    <2> QED BY <1>3, <1>4, <1>5, DoubledBounds
  <1>7. /\ head' = NextSlot(head) /\ overload' \in {len, overload}
        /\ UNCHANGED <<buf, cap, tail, in_global, reported>>
    BY DEF PopMessage
  <1> QED BY <1>2, <1>3, <1>4, <1>6, <1>7 DEF RingInv, RingTypeOK

LEMMA RingSteps == RingInv /\ [RingNext]_ringVars => RingInv'
  <1> SUFFICES ASSUME RingInv, [RingNext]_ringVars PROVE RingInv'
    OBVIOUS
  <1>1. CASE \E m \in Message : Push(m)
    BY <1>1, PushTypes
  <1>2. CASE PopMessage
    BY <1>2, PopTypes
  <1>3. CASE PopEmpty
    <2>1. /\ threshold' = MQ_OVERLOAD /\ in_global' = FALSE /\ reported' = 0
          /\ UNCHANGED <<buf, cap, head, tail, overload>>
      BY <1>3 DEF PopEmpty
    <2>2. MQ_OVERLOAD \in Nat /\ MQ_OVERLOAD > 0
      BY RingAssumption
    <2> QED BY <2>1, <2>2 DEF RingInv, RingTypeOK
  <1>4. CASE ReportOverload
    BY <1>4 DEF ReportOverload, RingInv, RingTypeOK
  <1>5. CASE UNCHANGED ringVars
    BY <1>5 DEF ringVars, RingInv, RingTypeOK
  <1> QED BY <1>1, <1>2, <1>3, <1>4, <1>5 DEF RingNext

\* The ring keeps its types, and its head and tail stay inside it, whatever is
\* pushed and popped and however often it doubles.
THEOREM RingTypes == RingSpec => []RingTypeOK
  <1>1. RingSpec => []RingInv
    BY RingBegins, RingSteps, PTL DEF RingSpec
  <1>2. RingInv => RingTypeOK
    BY DEF RingInv
  <1> QED BY <1>1, <1>2, PTL

-----------------------------------------------------------------------------
(* The alarm                                                               *)

\* An alarm that waits to be printed is higher than the last one printed.
Escalating == overload # 0 => overload > reported

AlarmInv == RingInv /\ AlarmCoherent /\ Escalating

LEMMA AlarmInit == RingInit => AlarmInv
  <1>1. RingInit => AlarmCoherent /\ Escalating
    BY DEF RingInit, AlarmCoherent, Escalating
  <1> QED BY <1>1, RingBegins DEF AlarmInv

LEMMA AlarmStep == AlarmInv /\ [RingNext]_ringVars => AlarmInv'
  <1> SUFFICES ASSUME AlarmInv, [RingNext]_ringVars PROVE AlarmInv'
    OBVIOUS
  <1>1. RingInv'
    BY RingSteps DEF AlarmInv
  <1>2. AlarmCoherent /\ Escalating
    BY DEF AlarmInv
  <1>3. /\ overload \in Nat /\ threshold \in Nat \ {0} /\ reported \in Nat
        /\ MQ_OVERLOAD \in Nat \ {0}
    BY RingAssumption DEF AlarmInv, RingInv, RingTypeOK
  <1>4. AlarmCoherent' /\ Escalating'
    <2>1. CASE \E m \in Message : Push(m)
      BY <1>2, <2>1 DEF Push, AlarmCoherent, Escalating
    <2>2. CASE PopMessage
      <3> DEFINE len == RingLength(NextSlot(head), tail, cap)
      <3>1. cap \in Nat \ {0} /\ head \in 0..(cap - 1) /\ tail \in 0..(cap - 1)
        BY DEF AlarmInv, RingInv, RingTypeOK
      <3>2. NextSlot(head) \in 0..(cap - 1)
        BY <3>1 DEF NextSlot
      <3>3. len \in Nat
        BY <3>1, <3>2, LengthType
      <3>4. /\ overload = 0 /\ threshold' = Doubled(len)[threshold] /\ reported' = reported
            /\ overload' = IF len > threshold THEN len ELSE overload
        BY <2>2 DEF PopMessage, RaisedThreshold
      <3> HIDE DEF len
      <3>5. CASE len > threshold
        <4>1. /\ overload' = len /\ overload' \in Nat
              /\ len <= threshold' /\ threshold' < 2 * len /\ threshold' \in Nat
          BY <1>3, <3>3, <3>4, <3>5, DoubledBounds
        <4>2. IF reported = 0 THEN threshold = MQ_OVERLOAD
              ELSE threshold > MQ_OVERLOAD /\ reported <= threshold
          BY <1>2, <3>4 DEF AlarmCoherent
        <4>3. len > reported /\ len > MQ_OVERLOAD /\ len # 0
          BY <1>3, <3>3, <3>5, <4>2
        <4> QED BY <1>3, <3>3, <3>4, <4>1, <4>3 DEF AlarmCoherent, Escalating
      <3>6. CASE ~ len > threshold
        <4>1. threshold' = threshold /\ overload' = 0
          BY <1>3, <3>3, <3>4, <3>6, DoubledBounds
        <4> QED BY <1>2, <3>4, <4>1 DEF AlarmCoherent, Escalating
      <3> QED BY <3>5, <3>6
    <2>3. CASE PopEmpty
      BY <2>3 DEF PopEmpty, AlarmCoherent, Escalating
    <2>4. CASE ReportOverload
      BY <1>2, <2>4 DEF ReportOverload, AlarmCoherent, Escalating
    <2>5. CASE UNCHANGED ringVars
      BY <1>2, <2>5 DEF ringVars, AlarmCoherent, Escalating
    <2> QED BY <2>1, <2>2, <2>3, <2>4, <2>5 DEF RingNext
  <1> QED BY <1>1, <1>4 DEF AlarmInv

\* The threshold and the alarms agree: the loop of skynet_mq_pop leaves a
\* threshold of at least the length that raised it and less than its double.
THEOREM AlarmAgrees == RingSpec => []AlarmCoherent
  <1>1. RingSpec => []AlarmInv
    BY AlarmInit, AlarmStep, PTL DEF RingSpec
  <1>2. AlarmInv => AlarmCoherent
    BY DEF AlarmInv
  <1> QED BY <1>1, <1>2, PTL

\* A busy queue never prints the same or a smaller length twice in a row.
THEOREM AlarmsRise == RingSpec => AlarmsEscalate
  <1>1. RingSpec => []AlarmInv
    BY AlarmInit, AlarmStep, PTL DEF RingSpec
  <1>2. AlarmInv /\ [RingNext]_ringVars => [reported' # reported => reported' = 0 \/ reported' > reported]_ringVars
    <2> SUFFICES ASSUME AlarmInv, RingNext, reported' # reported
                 PROVE  reported' = 0 \/ reported' > reported
      BY DEF ringVars
    <2>1. CASE PopEmpty
      BY <2>1 DEF PopEmpty
    <2>2. CASE ReportOverload
      BY <2>2 DEF ReportOverload, AlarmInv, Escalating
    <2>3. ~ PopMessage /\ ~ \E m \in Message : Push(m)
      BY DEF Push, PopMessage
    <2> QED BY <2>1, <2>2, <2>3 DEF RingNext
  <1> QED BY <1>1, <1>2, PTL DEF RingSpec, AlarmsEscalate

-----------------------------------------------------------------------------
(* The mailbox                                                             *)

\* Indexes of a ring of capacity c wrap at most once.
LEMMA Wrap ==
  ASSUME NEW c \in Nat \ {0}, NEW x \in 0..(2 * c - 1)
  PROVE  x % c = IF x < c THEN x ELSE x - c
  OBVIOUS

\* The slot of the i-th oldest message.
At(h, c, i) == IF h + i - 1 < c THEN h + i - 1 ELSE h + i - 1 - c

\* The content in terms of those slots.
ContentShape ==
  /\ Length \in 0..(cap - 1)
  /\ Content = [i \in 1..Length |-> buf[At(head, cap, i)]]
  /\ Content \in Seq(Message \cup {Garbage}) /\ Len(Content) = Length

LEMMA ContentIs == ASSUME RingInv PROVE ContentShape
  <1>1. cap \in Nat \ {0} /\ head \in 0..(cap - 1) /\ tail \in 0..(cap - 1)
    BY DEF RingInv, RingTypeOK
  <1>2. Length \in 0..(cap - 1)
    BY <1>1, LengthType DEF Length
  <1>3. ASSUME NEW i \in 1..Length PROVE (head + i - 1) % cap = At(head, cap, i)
    <2>1. head + i - 1 \in 0..(2 * cap - 1)
      BY <1>1, <1>2
    <2>2. PICK x \in 0..(2 * cap - 1) : x = head + i - 1
      BY <2>1
    <2>3. x % cap = IF x < cap THEN x ELSE x - cap
      BY <1>1, Wrap
    <2> QED BY <1>1, <2>2, <2>3 DEF At
  <1>4. Content = [i \in 1..Length |-> buf[At(head, cap, i)]]
    BY <1>3 DEF Content
  <1>5. \A i \in 1..Length : At(head, cap, i) \in 0..(cap - 1)
    BY <1>1, <1>2 DEF At
  <1>6. \A i \in 1..Length : buf[At(head, cap, i)] \in Message \cup {Garbage}
    BY <1>5 DEF RingInv, RingTypeOK
  <1> HIDE DEF At
  <1>7. Content \in [1..Length -> Message \cup {Garbage}]
    BY <1>4, <1>6
  <1> QED BY <1>2, <1>4, <1>7 DEF ContentShape

\* The same in the next state.
LEMMA ContentNext ==
  RingInv' => /\ Length' \in 0..(cap' - 1)
           /\ Content' = [i \in 1..Length' |-> buf'[At(head', cap', i)]]
           /\ Content' \in Seq(Message \cup {Garbage}) /\ Len(Content') = Length'
  <1>1. RingInv => ContentShape
    BY ContentIs
  <1>2. RingInv' => ContentShape'
    BY <1>1, PTL
  <1> QED BY <1>2 DEF ContentShape, At

\* A pushed message comes after all others, in a ring of any shape.
LEMMA PushSends ==
  ASSUME RingInv, NEW m \in Message, Push(m)
  PROVE  Content' = Append(Content, m) /\ in_global' = TRUE
  <1> DEFINE written == [buf EXCEPT ![tail] = m]
  <1>1. /\ cap \in Nat \ {0} /\ head \in 0..(cap - 1) /\ tail \in 0..(cap - 1)
        /\ buf \in [0..(cap - 1) -> Message \cup {Garbage}]
    BY DEF RingInv, RingTypeOK
  <1>2. RingInv'
    BY PushTypes
  <1>3. /\ Length \in 0..(cap - 1)
        /\ Content = [i \in 1..Length |-> buf[At(head, cap, i)]]
        /\ Content \in Seq(Message \cup {Garbage}) /\ Len(Content) = Length
    BY ContentIs DEF ContentShape
  <1>4. /\ Length' \in 0..(cap' - 1)
        /\ Content' = [i \in 1..Length' |-> buf'[At(head', cap', i)]]
    BY <1>2, ContentNext
  <1>5. At(head, cap, Length + 1) = tail
    BY <1>1, <1>3 DEF At, Length, RingLength
  <1>6. ASSUME NEW i \in 1..Length
        PROVE  At(head, cap, i) \in 0..(cap - 1) /\ At(head, cap, i) # tail
    BY <1>1, <1>3 DEF At, Length, RingLength
  <1>7. /\ \A i \in 1..Length : written[At(head, cap, i)] = buf[At(head, cap, i)]
        /\ written[At(head, cap, Length + 1)] = m
    BY <1>1, <1>5, <1>6
  <1>8. /\ Length' = Length + 1
        /\ \A i \in 1..(Length + 1) : buf'[At(head', cap', i)] = written[At(head, cap, i)]
    <2>1. CASE NextSlot(tail) = head
      <3>1. /\ buf' = Unrolled(written) /\ head' = 0 /\ tail' = cap /\ cap' = 2 * cap
        BY <2>1 DEF Push
      <3>2. Length = cap - 1
        BY <1>1, <2>1 DEF NextSlot, Length, RingLength
      <3>3. Length' = cap
        BY <1>1, <3>1 DEF Length, RingLength
      <3>4. ASSUME NEW i \in 1..cap
            PROVE  buf'[At(head', cap', i)] = written[At(head, cap, i)]
        <4>1. At(head', cap', i) = i - 1
          BY <1>1, <3>1 DEF At
        <4>2. PICK x \in 0..(2 * cap - 1) : x = head + (i - 1)
          BY <1>1
        <4>3. x % cap = IF x < cap THEN x ELSE x - cap
          BY <1>1, Wrap
        <4>4. (head + (i - 1)) % cap = At(head, cap, i)
          BY <1>1, <4>2, <4>3 DEF At
        <4>5. Unrolled(written)[i - 1] = written[(head + (i - 1)) % cap]
          BY <1>1 DEF Unrolled
        <4> QED BY <3>1, <4>1, <4>4, <4>5
      <3> QED BY <1>1, <3>2, <3>3, <3>4
    <2>2. CASE NextSlot(tail) # head
      <3>1. buf' = written /\ tail' = NextSlot(tail) /\ head' = head /\ cap' = cap
        BY <2>2 DEF Push
      <3>2. Length' = Length + 1
        BY <1>1, <2>2, <3>1 DEF NextSlot, Length, RingLength
      <3> QED BY <3>1, <3>2
    <2> QED BY <2>1, <2>2
  <1>9. Append(Content, m) = [i \in 1..(Length + 1) |-> IF i <= Length THEN Content[i] ELSE m]
    BY <1>3
  <1>10. ASSUME NEW i \in 1..(Length + 1)
         PROVE  buf'[At(head', cap', i)] = IF i <= Length THEN Content[i] ELSE m
    <2>1. CASE i <= Length
      <3>1. i \in 1..Length
        BY <1>3, <2>1
      <3>2. Content[i] = buf[At(head, cap, i)]
        BY <1>3, <3>1
      <3> QED BY <1>7, <1>8, <2>1, <3>1, <3>2
    <2>2. CASE ~ i <= Length
      <3>1. i = Length + 1
        BY <1>3, <2>2
      <3> QED BY <1>7, <1>8, <2>2, <3>1
    <2> QED BY <2>1, <2>2
  <1>11. Content' = Append(Content, m)
    BY <1>4, <1>8, <1>9, <1>10
  <1> QED BY <1>11 DEF Push

\* A pop takes the oldest message off, and only when there is one.
LEMMA PopReceives ==
  ASSUME RingInv, PopMessage
  PROVE  /\ in_global /\ Content # <<>> /\ in_global' = in_global
         /\ Content' = Tail(Content)
  <1>1. cap \in Nat \ {0} /\ head \in 0..(cap - 1) /\ tail \in 0..(cap - 1)
    BY DEF RingInv, RingTypeOK
  <1>2. /\ in_global /\ head # tail /\ head' = NextSlot(head)
        /\ UNCHANGED <<buf, cap, tail, in_global>>
    BY DEF PopMessage
  <1>3. /\ Length \in 0..(cap - 1)
        /\ Content = [i \in 1..Length |-> buf[At(head, cap, i)]]
        /\ Content \in Seq(Message \cup {Garbage}) /\ Len(Content) = Length
    BY ContentIs DEF ContentShape
  <1>4. /\ Length' \in 0..(cap' - 1)
        /\ Content' = [i \in 1..Length' |-> buf'[At(head', cap', i)]]
    BY PopTypes, ContentNext
  <1>5. Length > 0 /\ Length' = Length - 1
    BY <1>1, <1>2 DEF NextSlot, Length, RingLength
  <1>6. \A i \in 1..(Length - 1) : At(head', cap', i) = At(head, cap, i + 1)
    BY <1>1, <1>2, <1>3 DEF NextSlot, At, Length, RingLength
  <1>7. Content # <<>>
    BY <1>3, <1>5
  <1>8. Tail(Content) = [i \in 1..(Length - 1) |-> Content[i + 1]]
    BY <1>3, <1>7
  <1>9. \A i \in 1..(Length - 1) : Content[i + 1] = buf[At(head, cap, i + 1)]
    BY <1>3
  <1>10. \A i \in 1..(Length - 1) : buf'[At(head', cap', i)] = Content[i + 1]
    BY <1>2, <1>6, <1>9
  <1>11. Content' = Tail(Content)
    BY <1>4, <1>5, <1>8, <1>10
  <1> QED BY <1>2, <1>7, <1>11

\* A pop that finds nothing leaves nothing: the ring is empty exactly when head
\* and tail meet.
LEMMA EmptyParks ==
  ASSUME RingInv, PopEmpty
  PROVE  /\ in_global /\ Content = <<>> /\ in_global' = FALSE /\ Content' = Content
  <1>1. cap \in Nat \ {0} /\ head \in 0..(cap - 1) /\ tail \in 0..(cap - 1)
    BY DEF RingInv, RingTypeOK
  <1>2. /\ in_global /\ head = tail /\ in_global' = FALSE
        /\ UNCHANGED <<buf, cap, head, tail>>
    BY DEF PopEmpty
  <1>3. Length = 0
    BY <1>1, <1>2 DEF Length, RingLength
  <1>4. Content \in Seq(Message \cup {Garbage}) /\ Len(Content) = 0
    BY <1>3, ContentIs DEF ContentShape
  <1>5. Content = <<>>
    BY <1>4
  <1>6. Content' = Content
    BY <1>2 DEF Content, Length
  <1> QED BY <1>2, <1>5, <1>6

\* Every step of the ring is a step of the mailbox or leaves it as it is.
LEMMA StepSimulates == RingInv /\ [RingNext]_ringVars => [Abstract!Next]_<<Content, in_global>>
  <1> SUFFICES ASSUME RingInv, [RingNext]_ringVars
               PROVE  Abstract!Next \/ (Content' = Content /\ in_global' = in_global)
    OBVIOUS
  <1>1. CASE \E m \in Message : Push(m)
    BY <1>1, PushSends DEF Abstract!Next, Abstract!Send
  <1>2. CASE PopMessage
    BY <1>2, PopReceives DEF Abstract!Next, Abstract!Receive
  <1>3. CASE PopEmpty
    BY <1>3, EmptyParks DEF Abstract!Next, Abstract!Park
  <1>4. CASE ReportOverload
    BY <1>4 DEF ReportOverload, Content, Length
  <1>5. CASE UNCHANGED ringVars
    BY <1>5 DEF ringVars, Content, Length
  <1> QED BY <1>1, <1>2, <1>3, <1>4, <1>5 DEF RingNext

\* A new ring is an empty mailbox.
LEMMA InitSimulates == RingInit => Abstract!Init
  <1> SUFFICES ASSUME RingInit PROVE Content = <<>> /\ in_global = TRUE
    BY DEF Abstract!Init
  <1>1. Length = 0
    BY RingAssumption DEF RingInit, Length, RingLength
  <1>2. Content \in Seq(Message \cup {Garbage}) /\ Len(Content) = 0
    BY <1>1, RingBegins, ContentIs DEF ContentShape
  <1> QED BY <1>2 DEF RingInit

\* The ring, whatever its head, its wrap-arounds and its expansions, is a FIFO
\* that loses, repeats and reorders nothing, and is scheduled whenever it holds
\* a message (push, pop and expand_queue of skynet_mq.c).
THEOREM RingIsMailbox == RingSpec => ImplementsMailbox
  <1>1. RingSpec => []RingInv
    BY RingBegins, RingSteps, PTL DEF RingSpec
  <1> QED BY <1>1, InitSimulates, StepSimulates, PTL
          DEF RingSpec, ImplementsMailbox, Abstract!Spec, Abstract!mailboxVars

-----------------------------------------------------------------------------
(* The threads, for any number of workers                                  *)

Asleep == {"wait", "waiting", "relock", "awake"}

\* The workers that m->sleep counts.
Sleepers == {w \in Worker : doing[w] \in Asleep}

\* A worker is between lock and unlock of m->mutex, and not in the middle of
\* pthread_cond_wait, exactly when it holds it.
MutexHeld == \A w \in Worker : doing[w] \in {"count", "wait", "awake"} <=> mutex = w

\* No thread ends, and nothing is told to end, while there is a context.
EndsLast ==
  total > 0 =>
    /\ \A w \in Worker : doing[w] # "exited"
    /\ timer \notin {"socket_exit", "broadcast", "exited"}
    /\ socket # "exited" /\ monitor # "exited" /\ ~ socketExit

PoolInv == PoolTypeOK /\ SleepCounted /\ MutexHeld /\ EndsLast

LEMMA SleepersFinite ==
  /\ \A S \in SUBSET Worker : IsFiniteSet(S) /\ Cardinality(S) \in Nat
  /\ IsFiniteSet(Sleepers) /\ Cardinality(Sleepers) \in Nat
  <1>1. \A S \in SUBSET Worker : IsFiniteSet(S) /\ Cardinality(S) \in Nat
    BY PoolAssumption, FS_Subset, FS_CardinalityType
  <1>2. Sleepers \in SUBSET Worker
    BY DEF Sleepers
  <1> QED BY <1>1, <1>2

\* What Goto does to the places of the workers.
LEMMA Goes ==
  ASSUME PoolTypeOK, NEW w \in Worker, NEW place, Goto(w, place)
  PROVE  doing'[w] = place /\ \A v \in Worker : v # w => doing'[v] = doing[v]
  BY DEF PoolTypeOK, Goto

\* A step that neither puts a worker to sleep nor ends its sleep.
LEMMA SleepKept ==
  ASSUME SleepCounted, sleep' = sleep,
         \A w \in Worker : doing'[w] \in Asleep <=> doing[w] \in Asleep
  PROVE  SleepCounted'
  <1>1. Sleepers' = Sleepers
    BY DEF Sleepers
  <1> QED BY <1>1 DEF SleepCounted, Sleepers, Asleep

\* A worker counts itself, and later takes itself off the count.
LEMMA SleepGrows ==
  ASSUME SleepCounted, NEW w \in Worker, doing[w] \notin Asleep, doing'[w] \in Asleep,
         \A v \in Worker : v # w => doing'[v] = doing[v], sleep' = sleep + 1
  PROVE  SleepCounted'
  <1>1. Sleepers' = Sleepers \cup {w} /\ w \notin Sleepers
    BY DEF Sleepers
  <1>2. Cardinality(Sleepers') = Cardinality(Sleepers) + 1
    BY <1>1, SleepersFinite, FS_AddElement
  <1> QED BY <1>2 DEF SleepCounted, Sleepers, Asleep

LEMMA SleepShrinks ==
  ASSUME SleepCounted, NEW w \in Worker, doing[w] \in Asleep, doing'[w] \notin Asleep,
         \A v \in Worker : v # w => doing'[v] = doing[v], sleep' = sleep - 1
  PROVE  SleepCounted' /\ sleep' \in Nat
  <1>1. Sleepers' = Sleepers \ {w} /\ w \in Sleepers
    BY DEF Sleepers
  <1>2. Cardinality(Sleepers') = Cardinality(Sleepers) - 1
    BY <1>1, SleepersFinite, FS_RemoveElement
  <1>3. Sleepers' \in SUBSET Worker
    BY DEF Sleepers
  <1>4. Cardinality(Sleepers') \in Nat
    BY <1>3, SleepersFinite
  <1> QED BY <1>2, <1>4 DEF SleepCounted, Sleepers, Asleep

LEMMA PoolBegins == PoolInit => PoolInv
  <1> SUFFICES ASSUME PoolInit PROVE PoolInv
    OBVIOUS
  <1>1. \A w \in Worker : doing[w] = "dispatch"
    BY DEF PoolInit
  <1>2. {w \in Worker : doing[w] \in {"wait", "waiting", "relock", "awake"}} = {}
    BY <1>1
  <1>3. SleepCounted
    BY <1>2, FS_EmptySet DEF PoolInit, SleepCounted
  <1>4. total = 2 /\ 2 \in 0..MaxTotal
    BY PoolAssumption DEF PoolInit
  <1>5. PoolTypeOK
    BY <1>4, PoolAssumption DEF PoolInit, PoolTypeOK
  <1> QED BY <1>1, <1>3, <1>5, PoolAssumption DEF PoolInit, PoolInv, MutexHeld, EndsLast

\* Steps of a worker that leave the count, the mutex and the other threads alone.
LEMMA WorkerMoves ==
  ASSUME PoolInv, NEW w \in Worker, NEW place, doing' = [doing EXCEPT ![w] = place],
         UNCHANGED <<sleep, mutex, threadVars>>,
         work' \in 0..MaxWork, total' = total, has' \in [Worker -> BOOLEAN],
         \/ /\ doing[w] \in {"dispatch", "callback", "drop", "check"}
            /\ place \in {"dispatch", "callback", "drop", "lock", "check"} \cup
                         (IF total = 0 THEN {"exited"} ELSE {})
         \/ doing[w] = "waiting" /\ place = "relock"
  PROVE  PoolInv'
  <1>0. PoolTypeOK /\ SleepCounted /\ MutexHeld /\ EndsLast
    BY DEF PoolInv
  <1>1. doing'[w] = place /\ \A v \in Worker : v # w => doing'[v] = doing[v]
    BY <1>0, Goes DEF Goto
  <1>2. place \in {"dispatch", "callback", "drop", "lock", "check", "exited", "relock"}
        /\ (place = "exited" => total = 0) /\ total \in Nat
    BY <1>0 DEF PoolTypeOK
  <1>3. doing' \in [Worker -> {"dispatch", "callback", "drop", "lock", "count", "wait",
                               "waiting", "relock", "awake", "check", "exited"}]
    BY <1>0, <1>2 DEF PoolTypeOK
  <1>4. PoolTypeOK'
    BY <1>0, <1>3 DEF PoolTypeOK, threadVars
  <1>5. SleepCounted'
    <2>1. \A v \in Worker : doing'[v] \in Asleep <=> doing[v] \in Asleep
      BY <1>1, <1>2 DEF Asleep
    <2> QED BY <1>0, <2>1, SleepKept
  <1>6. MutexHeld'
    BY <1>0, <1>1, <1>2 DEF MutexHeld
  <1>7. EndsLast'
    BY <1>0, <1>1, <1>2 DEF EndsLast, threadVars
  <1> QED BY <1>4, <1>5, <1>6, <1>7 DEF PoolInv

LEMMA DispatchSteps ==
  ASSUME PoolInv, NEW w \in Worker,
         \/ TakeQueue(w) \/ TakeNothing(w) \/ TakeAgain(w) \/ CallReturns(w)
         \/ SpuriousWakeup(w) \/ Check(w)
  PROVE  PoolInv'
  <1>0. /\ work \in 0..MaxWork /\ has \in [Worker -> BOOLEAN] /\ MaxWork \in Nat
        /\ has' \in [Worker -> BOOLEAN]
        /\ doing[w] = "dispatch" \/ doing[w] # "dispatch"
    BY PoolAssumption DEF PoolInv, PoolTypeOK, TakeQueue, TakeNothing, TakeAgain, CallReturns,
       SpuriousWakeup, Check, ReturnQueue, ReturnNext, ReturnNull
  <1>1. /\ UNCHANGED <<sleep, mutex, threadVars>> /\ total' = total
    BY DEF TakeQueue, TakeNothing, TakeAgain, CallReturns,
       SpuriousWakeup, Check, ReturnQueue, ReturnNext, ReturnNull
  <1>2. work' = work \/ (work > 0 /\ work' = work - 1)
    BY DEF TakeQueue, TakeNothing, TakeAgain, CallReturns,
       SpuriousWakeup, Check, ReturnQueue, ReturnNext, ReturnNull
  <1>3. work' \in 0..MaxWork
    BY <1>0, <1>2
  <1>4. CASE TakeQueue(w) \/ TakeAgain(w)
    <2> PICK place \in {"drop"} \cup IF total > 0 THEN {"callback"} ELSE {} : Goto(w, place)
      BY <1>4 DEF TakeQueue, TakeAgain, Serve
    <2>1. doing[w] = "dispatch" /\ place \in {"dispatch", "callback", "drop", "lock", "check"}
      BY <1>4 DEF TakeQueue, TakeAgain
    <2> QED BY <1>0, <1>1, <1>3, <2>1, WorkerMoves DEF Goto
  <1>5. CASE TakeNothing(w) \/ ReturnQueue(w) \/ ReturnNext(w) \/ ReturnNull(w)
    <2> PICK place \in {"lock", "check"} : Goto(w, place)
      BY <1>5 DEF TakeNothing, ReturnQueue, ReturnNext, ReturnNull
    <2>1. doing[w] \in {"dispatch", "callback", "drop"}
      BY <1>5 DEF TakeNothing, ReturnQueue, ReturnNext, ReturnNull
    <2> QED BY <1>0, <1>1, <1>3, <2>1, WorkerMoves DEF Goto
  <1>6. CASE SpuriousWakeup(w)
    BY <1>0, <1>1, <1>3, <1>6, WorkerMoves DEF SpuriousWakeup, Goto
  <1>7. CASE Check(w)
    <2> PICK place : place = IF total = 0 THEN "exited" ELSE "dispatch"
      OBVIOUS
    <2>1. doing' = [doing EXCEPT ![w] = place] /\ doing[w] = "check"
      BY <1>7 DEF Check, Goto
    <2>2. place \in {"dispatch", "callback", "drop", "lock", "check"} \cup
                    (IF total = 0 THEN {"exited"} ELSE {})
      OBVIOUS
    <2> QED BY <1>0, <1>1, <1>3, <2>1, <2>2, WorkerMoves
  <1> QED BY <1>4, <1>5, <1>6, <1>7 DEF CallReturns

\* The callbacks of a worker.
LEMMA CallbackSteps ==
  ASSUME PoolInv, NEW w \in Worker,
         Schedules(w) \/ CallbackLaunches(w) \/ ServiceEnds(w)
  PROVE  PoolInv'
  <1>0. PoolTypeOK /\ SleepCounted /\ MutexHeld /\ EndsLast
    BY DEF PoolInv
  <1>1. UNCHANGED <<sleep, mutex, doing, has, threadVars>>
    BY DEF Schedules, CallbackLaunches, ServiceEnds
  <1>2. work' \in 0..MaxWork
    BY <1>0, PoolAssumption DEF PoolTypeOK, Schedules, CallbackLaunches, ServiceEnds
  <1>3. total' \in 0..MaxTotal /\ (total' > 0 => total > 0)
    <2>1. CASE Schedules(w) \/ CallbackLaunches(w)
      BY <1>0, <2>1, PoolAssumption DEF PoolTypeOK, Schedules, CallbackLaunches
    <2>2. CASE ServiceEnds(w)
      <3>1. {v \in Worker \ {w} : doing[v] = "callback"} \in SUBSET Worker
        OBVIOUS
      <3>2. Cardinality({v \in Worker \ {w} : doing[v] = "callback"}) \in Nat
        BY <3>1, SleepersFinite
      <3> QED BY <1>0, <2>2, <3>2, PoolAssumption DEF PoolTypeOK, ServiceEnds
    <2> QED BY <2>1, <2>2
  <1>4. PoolTypeOK' /\ MutexHeld' /\ EndsLast'
    BY <1>0, <1>1, <1>2, <1>3 DEF PoolTypeOK, MutexHeld, EndsLast, threadVars
  <1>5. SleepCounted'
    BY <1>0, <1>1, SleepKept
  <1> QED BY <1>4, <1>5 DEF PoolInv

\* Going to sleep and waking up, between lock and unlock.
LEMMA SleepSteps ==
  ASSUME PoolInv, NEW w \in Worker, Lock(w) \/ Count(w) \/ Wait(w) \/ Relock(w) \/ Awake(w)
  PROVE  PoolInv'
  <1>0. PoolTypeOK /\ SleepCounted /\ MutexHeld /\ EndsLast
    BY DEF PoolInv
  <1>1. UNCHANGED <<work, total, has, threadVars>>
    BY DEF Lock, Count, Wait, Relock, Awake
  <1> PICK place \in {"count", "wait", "waiting", "awake", "check"} : Goto(w, place)
    BY DEF Lock, Count, Wait, Relock, Awake
  <1>2. doing'[w] = place /\ \A v \in Worker : v # w => doing'[v] = doing[v]
    BY <1>0, Goes
  <1>3. doing' \in [Worker -> {"dispatch", "callback", "drop", "lock", "count", "wait",
                               "waiting", "relock", "awake", "check", "exited"}]
    BY <1>0 DEF PoolTypeOK, Goto
  <1>4. SleepCounted' /\ sleep' \in Nat
    <2>1. CASE Lock(w) \/ Wait(w) \/ Relock(w)
      <3>1. \A v \in Worker : doing'[v] \in Asleep <=> doing[v] \in Asleep
        BY <1>0, <1>2, <2>1, Goes DEF Lock, Wait, Relock, Asleep
      <3>2. sleep' = sleep
        BY <2>1 DEF Lock, Wait, Relock
      <3> QED BY <1>0, <3>1, <3>2, SleepKept DEF PoolTypeOK
    <2>2. CASE Count(w)
      <3>1. doing[w] \notin Asleep /\ doing'[w] \in Asleep /\ sleep' = sleep + 1
        BY <1>0, <2>2, Goes DEF Count, Asleep
      <3> QED BY <1>0, <1>2, <3>1, SleepGrows DEF PoolTypeOK
    <2>3. CASE Awake(w)
      <3>1. doing[w] \in Asleep /\ doing'[w] \notin Asleep /\ sleep' = sleep - 1
        BY <1>0, <2>3, Goes DEF Awake, Asleep
      <3> QED BY <1>0, <1>2, <3>1, SleepShrinks
    <2> QED BY <2>1, <2>2, <2>3
  <1>5. mutex' \in Worker \cup {None}
    BY <1>0 DEF PoolTypeOK, Lock, Count, Wait, Relock, Awake
  <1>6. PoolTypeOK'
    BY <1>0, <1>1, <1>3, <1>4, <1>5 DEF PoolTypeOK, threadVars
  <1>7. MutexHeld'
    <2>1. CASE Lock(w) \/ Relock(w)
      <3>1. mutex = None /\ mutex' = w /\ doing'[w] \in {"count", "awake"}
        BY <1>0, <2>1, Goes DEF Lock, Relock
      <3>2. None \notin Worker
        BY PoolAssumption
      <3> QED BY <1>0, <1>2, <3>1, <3>2 DEF MutexHeld
    <2>2. CASE Count(w)
      <3>1. doing[w] = "count" /\ mutex' = mutex /\ doing'[w] = "wait"
        BY <1>0, <2>2, Goes DEF Count
      <3> QED BY <1>0, <1>2, <3>1 DEF MutexHeld
    <2>3. CASE Wait(w) \/ Awake(w)
      <3>1. doing[w] \in {"wait", "awake"} /\ mutex' = None /\ doing'[w] \in {"waiting", "check"}
        BY <1>0, <2>3, Goes DEF Wait, Awake
      <3>2. None \notin Worker
        BY PoolAssumption
      <3> QED BY <1>0, <1>2, <3>1, <3>2 DEF MutexHeld
    <2> QED BY <2>1, <2>2, <2>3
  <1>8. EndsLast'
    BY <1>0, <1>1, <1>2 DEF EndsLast, threadVars
  <1> QED BY <1>4, <1>6, <1>7, <1>8 DEF PoolInv

\* The other threads wake workers, at most.
LEMMA DriverSteps ==
  ASSUME PoolInv, TimerStep \/ SocketEvent \/ SocketStep \/ MonitorExit
  PROVE  PoolInv'
  <1>0. PoolTypeOK /\ SleepCounted /\ MutexHeld /\ EndsLast
    BY DEF PoolInv
  <1> USE DEF TimerStep, SocketStep, TimerPosts, TimerCheck, TimerWakeup, TimerSignal,
          TimerSocketExit, TimerBroadcast, SocketEvent, SocketExit, SocketCheck,
          SocketWakeup, SocketSignal, MonitorExit
  <1>1. UNCHANGED <<total, sleep, mutex, has>>
    OBVIOUS
  <1>2. work' \in 0..MaxWork
    BY <1>0, PoolAssumption DEF PoolTypeOK
  <1>3. /\ doing' \in [Worker -> {"dispatch", "callback", "drop", "lock", "count", "wait",
                                  "waiting", "relock", "awake", "check", "exited"}]
        /\ \A w \in Worker : doing'[w] = doing[w] \/ (doing[w] = "waiting" /\ doing'[w] = "relock")
    <2>1. CASE doing' = doing
      BY <1>0, <2>1 DEF PoolTypeOK
    <2>2. CASE Signal
      <3>1. CASE \E w \in Worker : doing[w] = "waiting" /\ Goto(w, "relock")
        <4> PICK w \in Worker : doing[w] = "waiting" /\ Goto(w, "relock")
          BY <3>1
        <4>1. doing'[w] = "relock" /\ \A v \in Worker : v # w => doing'[v] = doing[v]
          BY <1>0, Goes
        <4>2. doing' = [doing EXCEPT ![w] = "relock"]
          BY DEF Goto
        <4> QED BY <1>0, <4>1, <4>2 DEF PoolTypeOK
      <3>2. CASE doing' = doing
        BY <2>1, <3>2
      <3> QED BY <2>2, <3>1, <3>2 DEF Signal
    <2>3. CASE TimerBroadcast
      BY <1>0, <2>3 DEF PoolTypeOK
    <2> QED BY <2>1, <2>2, <2>3
  <1>4. /\ timer' \in {"update", "check", "wakeup", "signal", "socket_exit", "broadcast", "exited"}
        /\ socket' \in {"poll", "wakeup", "signal", "check", "exited"}
        /\ monitor' \in {"run", "exited"} /\ socketExit' \in BOOLEAN
    BY <1>0 DEF PoolTypeOK
  <1>5. PoolTypeOK'
    BY <1>0, <1>1, <1>2, <1>3, <1>4 DEF PoolTypeOK
  <1>6. SleepCounted'
    <2>1. \A w \in Worker : doing'[w] \in Asleep <=> doing[w] \in Asleep
      BY <1>3 DEF Asleep
    <2> QED BY <1>0, <1>1, <2>1, SleepKept
  <1>7. MutexHeld'
    BY <1>0, <1>1, <1>3 DEF MutexHeld
  <1>8. EndsLast'
    <2> SUFFICES ASSUME total > 0
                 PROVE  /\ \A w \in Worker : doing'[w] # "exited"
                        /\ timer' \notin {"socket_exit", "broadcast", "exited"}
                        /\ socket' # "exited" /\ monitor' # "exited" /\ ~ socketExit'
      BY <1>1 DEF EndsLast
    <2>1. total # 0
      BY <1>0 DEF PoolTypeOK
    <2>2. \A w \in Worker : doing'[w] # "exited"
      BY <1>0, <1>3 DEF EndsLast
    <2> QED BY <1>0, <2>1, <2>2 DEF EndsLast
  <1> QED BY <1>5, <1>6, <1>7, <1>8 DEF PoolInv

\* The inductive invariant of the threads.
THEOREM PoolInvariance == PoolSpec => []PoolInv
  <1>1. ASSUME PoolInv, [PoolNext]_poolVars PROVE PoolInv'
    <2>1. CASE UNCHANGED poolVars
      BY <1>1, <2>1 DEF PoolInv, PoolTypeOK, SleepCounted, MutexHeld, EndsLast, poolVars
    <2>2. ASSUME NEW w \in Worker,
                 \/ WorkerStep(w) \/ CallReturns(w) \/ SpuriousWakeup(w)
                 \/ Schedules(w) \/ CallbackLaunches(w) \/ ServiceEnds(w)
          PROVE  PoolInv'
      BY <1>1, <2>2, DispatchSteps, CallbackSteps, SleepSteps DEF WorkerStep
    <2>3. CASE TimerStep \/ SocketEvent \/ SocketStep \/ MonitorExit
      BY <1>1, <2>3, DriverSteps
    <2> QED BY <1>1, <2>1, <2>2, <2>3 DEF PoolNext
  <1> QED BY <1>1, PoolBegins, PTL DEF PoolSpec

\* m->sleep counts the workers between their increment and their decrement
\* exactly (_worker and wakeup of skynet_start.c), for any number of workers: a
\* thread that reads it without the mutex never sees a sleeper that is gone for
\* good, nor misses one.
THEOREM SleepersCounted == PoolSpec => []SleepCounted
  <1>1. PoolInv => SleepCounted
    BY DEF PoolInv
  <1> QED BY <1>1, PoolInvariance, PTL

Locked == {"count", "wait", "awake"}     \* between lock and unlock of m->mutex
OneLocked == \A v, w \in Worker : doing[v] \in Locked /\ doing[w] \in Locked => v = w

\* Between lock and unlock of m->mutex there is one worker at most, and none
\* that waits for the condition, so that m->sleep is changed by one at a time.
THEOREM MutexExcludes == PoolSpec => []OneLocked
  <1>1. PoolInv => OneLocked
    BY DEF PoolInv, MutexHeld, OneLocked, Locked
  <1> QED BY <1>1, PoolInvariance, PTL

\* No thread of skynet_start.c ends, and the socket thread is not told to,
\* while a context is alive.
THEOREM ThreadsOutliveServices == PoolSpec => []EndsLast
  <1>1. PoolInv => EndsLast
    BY DEF PoolInv
  <1> QED BY <1>1, PoolInvariance, PTL
-----------------------------------------------------------------------------
(* The timing wheel: the arithmetic of its levels                          *)

LEMMA Dividing ==
  ASSUME NEW c \in Nat \ {0}, NEW x \in Nat
  PROVE  /\ x % c \in 0..(c - 1) /\ x \div c \in Nat
         /\ x = (x \div c) * c + (x % c)
  OBVIOUS

LEMMA QuotientIs ==
  ASSUME NEW c \in Nat \ {0}, NEW q \in Nat, NEW r \in 0..(c - 1)
  PROVE  (q * c + r) \div c = q /\ (q * c + r) % c = r
  OBVIOUS

\* The quotient grows by one where the remainder becomes zero.
LEMMA NextQuotient ==
  ASSUME NEW c \in Nat \ {0}, NEW x \in Nat
  PROVE  (x + 1) \div c = (x \div c) + (IF (x + 1) % c = 0 THEN 1 ELSE 0)
  <1>1. PICK q \in Nat, r \in 0..(c - 1) : q = x \div c /\ r = x % c /\ x = q * c + r
    BY Dividing
  <1>2. CASE r = c - 1
    <2>1. x + 1 = (q + 1) * c + 0 /\ q + 1 \in Nat /\ 0 \in 0..(c - 1)
      <3>1. (q + 1) * c = q * c + c
        OBVIOUS
      <3>2. q * c \in Nat
        OBVIOUS
      <3> QED BY <1>1, <1>2, <3>1, <3>2
    <2>2. (x + 1) \div c = q + 1 /\ (x + 1) % c = 0
      <3>1. PICK p \in Nat : p = q + 1
        OBVIOUS
      <3>2. (p * c + 0) \div c = p /\ (p * c + 0) % c = 0
        BY <2>1, QuotientIs
      <3> QED BY <2>1, <3>1, <3>2
    <2> QED BY <1>1, <2>2
  <1>3. CASE r # c - 1
    <2>1. PICK s \in 0..(c - 1) : s = r + 1
      BY <1>3
    <2>2. q * c \in Nat
      OBVIOUS
    <2>3. x + 1 = q * c + s
      BY <1>1, <2>1, <2>2
    <2>4. (x + 1) \div c = q /\ (x + 1) % c = s /\ s # 0
      BY <2>1, <2>3, QuotientIs
    <2> QED BY <1>1, <2>4
  <1> QED BY <1>2, <1>3

\* Division by a product is division by one factor after the other.
LEMMA NestedQuotient ==
  ASSUME NEW b \in Nat \ {0}, NEW c \in Nat \ {0}, NEW x \in Nat
  PROVE  /\ c * b \in Nat \ {0}
         /\ x \div (c * b) = (x \div b) \div c
         /\ x % (c * b) = (((x \div b) % c) * b) + (x % b)
  <1>1. PICK q \in Nat, r \in 0..(b - 1) : q = x \div b /\ r = x % b /\ x = q * b + r
    BY Dividing
  <1>2. PICK p \in Nat, d \in 0..(c - 1) : p = q \div c /\ d = q % c /\ q = p * c + d
    BY Dividing
  <1>3. PICK m \in Nat \ {0} : m = c * b
    <2>1. c * b \in Nat /\ c * b # 0
      OBVIOUS
    <2> QED BY <2>1
  <1>4. PICK s \in Nat : s = d * b + r
    <2>1. d * b \in Nat
      OBVIOUS
    <2> QED BY <2>1
  <1>5. s < m
    <2>1. d * b + b = (d + 1) * b
      OBVIOUS
    <2>2. (d + 1) * b <= c * b
      <3>1. PICK e \in Nat : c = (d + 1) + e
        <4>1. c - (d + 1) \in Nat
          OBVIOUS
        <4> QED BY <4>1
      <3>2. c * b = (d + 1) * b + e * b /\ e * b \in Nat /\ (d + 1) * b \in Nat
        BY <3>1
      <3> QED BY <3>2
    <2>3. d * b \in Nat
      OBVIOUS
    <2> QED BY <1>3, <1>4, <2>1, <2>2, <2>3
  <1>6. x = p * m + s
    <2>1. q * b = (p * c) * b + d * b
      <3>1. PICK h \in Nat : h = p * c
        OBVIOUS
      <3>2. (h + d) * b = h * b + d * b
        OBVIOUS
      <3>3. q = h + d
        BY <1>2, <3>1
      <3> QED BY <3>1, <3>2, <3>3
    <2>2. (p * c) * b = p * (c * b)
      OBVIOUS
    <2>3. PICK u \in Nat, v \in Nat : u = p * m /\ v = d * b
      <3>1. p * m \in Nat /\ d * b \in Nat
        OBVIOUS
      <3> QED BY <3>1
    <2>4. p * (c * b) = u
      BY <1>3, <2>3
    <2>5. q * b = u + v
      BY <2>1, <2>2, <2>3, <2>4
    <2> QED BY <1>1, <1>4, <2>3, <2>5
  <1>7. x \div m = p /\ x % m = s
    BY <1>5, <1>6, QuotientIs
  <1> QED BY <1>1, <1>2, <1>3, <1>4, <1>7

\* The spans of the levels: the lowest is TIME_NEAR, and each is TIME_LEVEL
\* times the one below.
LEMMA Spans ==
  /\ Span[0] = TIME_NEAR
  /\ \A i \in 0..Top : Span[i + 1] = TIME_LEVEL * Span[i]
  /\ \A i \in 0..(Top + 1) : Span[i] \in Nat \ {0}
  /\ TIME_LEVEL \in Nat \ {0} /\ TIME_LEVEL >= 2 /\ TIME_NEAR \in Nat \ {0}
  <1> DEFINE F(f) == [i \in 0..4 |-> IF i = 0 THEN TIME_NEAR ELSE TIME_LEVEL * f[i - 1]]
             P(f) == f = F(f)
  <1>1. PICK g1 : g1 = TIME_LEVEL * TIME_NEAR
    OBVIOUS
  <1>2. PICK g2 : g2 = TIME_LEVEL * g1
    OBVIOUS
  <1>3. PICK g3 : g3 = TIME_LEVEL * g2
    OBVIOUS
  <1>4. PICK g4 : g4 = TIME_LEVEL * g3
    OBVIOUS
  <1> DEFINE g == [i \in 0..4 |-> IF i = 0 THEN TIME_NEAR ELSE IF i = 1 THEN g1
                                  ELSE IF i = 2 THEN g2 ELSE IF i = 3 THEN g3 ELSE g4]
  <1>5. P(g)
    <2>1. ASSUME NEW i \in 0..4
          PROVE  g[i] = IF i = 0 THEN TIME_NEAR ELSE TIME_LEVEL * g[i - 1]
      <3>1. i = 0 \/ i = 1 \/ i = 2 \/ i = 3 \/ i = 4
        OBVIOUS
      <3> QED BY <3>1, <1>1, <1>2, <1>3, <1>4
    <2> QED BY <2>1
  <1>6. Span = CHOOSE f : P(f)
    BY DEF Span, Top
  <1> HIDE DEF g, P
  <1>7. P(Span)
    BY <1>5, <1>6
  <1>8. \A i \in 0..4 : Span[i] = IF i = 0 THEN TIME_NEAR ELSE TIME_LEVEL * Span[i - 1]
    BY <1>7 DEF P
  <1> HIDE DEF F
  <1>9. \A i \in 0..3 : Span[i + 1] = TIME_LEVEL * Span[i]
    <2>1. ASSUME NEW i \in 0..3 PROVE Span[i + 1] = TIME_LEVEL * Span[i]
      <3>1. i + 1 \in 0..4 /\ i + 1 # 0 /\ (i + 1) - 1 = i
        OBVIOUS
      <3> QED BY <1>8, <3>1
    <2> QED BY <2>1
  <1>10. TIME_LEVEL \in Nat \ {0} /\ TIME_LEVEL >= 2 /\ TIME_NEAR \in Nat \ {0}
    BY TimerAssumption
  <1>11. Span[0] \in Nat \ {0}
    BY <1>8, <1>10
  <1>12. \A i \in 0..3 : Span[i] \in Nat \ {0} => Span[i + 1] \in Nat \ {0}
    <2>1. ASSUME NEW i \in 0..3, Span[i] \in Nat \ {0} PROVE Span[i + 1] \in Nat \ {0}
      BY <1>9, <1>10, <2>1, NestedQuotient
    <2> QED BY <2>1
  <1>13. Span[1] \in Nat \ {0} /\ Span[2] \in Nat \ {0}
    BY <1>11, <1>12
  <1>14. Span[3] \in Nat \ {0} /\ Span[4] \in Nat \ {0}
    BY <1>13, <1>12
  <1>15. \A i \in 0..4 : Span[i] \in Nat \ {0}
    BY <1>11, <1>13, <1>14
  <1> QED BY <1>8, <1>9, <1>10, <1>15 DEF Top

\* The clock without the bits below a level, and the index at that level.
Quot(x, i) == x \div Span[i]
Index(x, i) == Quot(x, i) % TIME_LEVEL

\* All bits below a level are 0.
Round(x, i) == x % Span[i] = 0

\* What the proofs need of this arithmetic, without multiplication.
LEMMA Quots ==
  ASSUME NEW x \in Nat, NEW i \in 0..(Top + 1)
  PROVE  /\ Quot(x, i) \in Nat /\ Index(x, i) \in 0..(TIME_LEVEL - 1)
         /\ Quot(x + 1, i) = Quot(x, i) + (IF Round(x + 1, i) THEN 1 ELSE 0)
  <1>1. x \div Span[i] \in Nat
    BY Spans, Dividing
  <1>2. Index(x, i) \in 0..(TIME_LEVEL - 1)
    BY <1>1, Spans, Dividing DEF Index, Quot
  <1>3. Quot(x + 1, i) = Quot(x, i) + (IF Round(x + 1, i) THEN 1 ELSE 0)
    BY Spans, NextQuotient DEF Quot, Round
  <1> QED BY <1>1, <1>2, <1>3 DEF Quot

LEMMA NextLevel ==
  ASSUME NEW x \in Nat, NEW i \in 0..Top
  PROVE  /\ Quot(x, i + 1) = Quot(x, i) \div TIME_LEVEL
         /\ Round(x, i + 1) <=> Round(x, i) /\ Index(x, i) = 0
  <1>1. i \in 0..(Top + 1) /\ i + 1 \in 0..(Top + 1)
    BY DEF Top
  <1>2. PICK b \in Nat \ {0} : b = Span[i]
    BY <1>1, Spans
  <1>3. PICK c \in Nat \ {0} : c = TIME_LEVEL
    BY Spans
  <1>4. Span[i + 1] = c * b
    BY <1>2, <1>3, Spans
  <1>5. x \div (c * b) = (x \div b) \div c /\ x % (c * b) = (((x \div b) % c) * b) + (x % b)
    BY NestedQuotient
  <1>6. PICK d \in Nat, r \in Nat : d = (x \div b) % c /\ r = x % b
    <2>1. x \div b \in Nat /\ x % b \in Nat
      OBVIOUS
    <2>2. (x \div b) % c \in Nat
      BY <2>1, Dividing
    <2> QED BY <2>1, <2>2
  <1>7. (d * b) + r = 0 <=> d = 0 /\ r = 0
    OBVIOUS
  <1>8. x % Span[i + 1] = (d * b) + r
    BY <1>4, <1>5, <1>6
  <1> QED BY <1>2, <1>3, <1>4, <1>5, <1>6, <1>7, <1>8 DEF Quot, Round, Index

\* Numbers with the same quotient at a level are close to each other.
LEMMA SameSlot ==
  ASSUME NEW x \in Nat, NEW y \in Nat, NEW i \in 0..(Top + 1), Quot(x, i) = Quot(y, i)
  PROVE  /\ y - x < Span[i]
         /\ x % Span[i] = y % Span[i] => x = y
  <1>1. PICK b \in Nat \ {0} : b = Span[i]
    BY Spans
  <1>2. PICK q \in Nat, r \in 0..(b - 1) : q = x \div b /\ r = x % b /\ x = (q * b) + r
    BY Dividing
  <1>3. PICK p \in Nat, s \in 0..(b - 1) : p = y \div b /\ s = y % b /\ y = (p * b) + s
    BY Dividing
  <1>4. q = p
    BY <1>1, <1>2, <1>3 DEF Quot
  <1>5. PICK m \in Nat : m = q * b
    OBVIOUS
  <1>6. x = m + r /\ y = m + s
    BY <1>2, <1>3, <1>4, <1>5
  <1>7. y - x < b /\ (r = s => x = y)
    BY <1>6
  <1> QED BY <1>1, <1>2, <1>3, <1>7

\* They are told apart by their indices, level by level.
LEMMA SameIndex ==
  ASSUME NEW x \in Nat, NEW y \in Nat, NEW i \in 0..Top, Quot(x, i + 1) = Quot(y, i + 1)
  PROVE  Quot(x, i) = Quot(y, i) <=> Index(x, i) = Index(y, i)
  <1>1. PICK c \in Nat \ {0} : c = TIME_LEVEL
    BY Spans
  <1>2. i \in 0..(Top + 1)
    BY DEF Top
  <1>3. PICK q \in Nat, p \in Nat : q = Quot(x, i) /\ p = Quot(y, i)
    BY <1>2, Quots
  <1>4. q \div c = p \div c
    BY <1>1, <1>3, NextLevel
  <1>5. q = ((q \div c) * c) + (q % c) /\ p = ((p \div c) * c) + (p % c)
    BY Dividing
  <1>6. q % c = p % c => q = p
    BY <1>4, <1>5
  <1> QED BY <1>1, <1>3, <1>6 DEF Index

\* The highest level has one slot for each quotient, and half of the ticks are
\* never fewer than one of its slots.
LEMMA TopLevel ==
  /\ Ticks \in Nat \ {0} /\ Ticks \div 2 \in Nat /\ 2 * (Ticks \div 2) <= Ticks
  /\ \A i \in 0..Top : 2 * Span[i] <= Ticks
  /\ \A x \in 0..(Ticks - 1) :
       Quot(x, Top + 1) = 0 /\ Index(x, Top) = Quot(x, Top) /\ (Round(x, Top + 1) <=> x = 0)
  <1>1. Ticks \in Nat \ {0} /\ Ticks = Span[4]
    BY Spans DEF Ticks, Top
  <1>2. Ticks \div 2 \in Nat /\ 2 * (Ticks \div 2) <= Ticks
    BY <1>1
  <1>3. ASSUME NEW i \in 0..3 PROVE 2 * Span[i] <= Span[i + 1]
    <2>1. PICK b \in Nat : b = Span[i]
      BY Spans DEF Top
    <2>2. PICK e \in Nat : TIME_LEVEL = 2 + e
      <3>1. TIME_LEVEL - 2 \in Nat
        BY Spans
      <3> QED BY <3>1, Spans
    <2>3. Span[i + 1] = (2 + e) * b
      BY <2>1, <2>2, Spans DEF Top
    <2>4. (2 + e) * b = (2 * b) + (e * b) /\ e * b \in Nat
      OBVIOUS
    <2> QED BY <2>1, <2>3, <2>4
  <1>4. \A i \in 0..3 : 2 * Span[i] <= Ticks
    <2>1. 2 * Span[3] <= Span[4] /\ 2 * Span[2] <= Span[3] /\ 2 * Span[1] <= Span[2]
          /\ 2 * Span[0] <= Span[1]
      <3>1. 0 \in 0..3 /\ 1 \in 0..3 /\ 2 \in 0..3 /\ 3 \in 0..3
        OBVIOUS
      <3>2. 2 * Span[0] <= Span[0 + 1] /\ 2 * Span[1] <= Span[1 + 1]
            /\ 2 * Span[2] <= Span[2 + 1] /\ 2 * Span[3] <= Span[3 + 1]
        BY <1>3, <3>1
      <3> QED BY <3>2
    <2>2. Span[0] \in Nat /\ Span[1] \in Nat /\ Span[2] \in Nat /\ Span[3] \in Nat
      BY Spans DEF Top
    <2>3. 2 * Span[0] <= Span[4] /\ 2 * Span[1] <= Span[4] /\ 2 * Span[2] <= Span[4]
      BY <1>1, <2>1, <2>2
    <2>4. ASSUME NEW i \in 0..3 PROVE 2 * Span[i] <= Ticks
      <3>1. i = 0 \/ i = 1 \/ i = 2 \/ i = 3
        OBVIOUS
      <3> QED BY <1>1, <2>1, <2>3, <3>1
    <2> QED BY <2>4
  <1>5. ASSUME NEW x \in 0..(Ticks - 1)
        PROVE  Quot(x, 4) = 0 /\ Index(x, 3) = Quot(x, 3) /\ (Round(x, 4) <=> x = 0)
    <2>1. PICK t \in Nat \ {0} : t = Ticks
      BY <1>1
    <2>2. x \in Nat /\ x \in 0..(t - 1) /\ 0 \in Nat
      BY <2>1
    <2>3. ((0 * t) + x) \div t = 0 /\ ((0 * t) + x) % t = x
      BY <2>2, QuotientIs
    <2>4. (0 * t) + x = x
      BY <2>2
    <2>5. x \div t = 0 /\ x % t = x
      BY <2>3, <2>4
    <2>6. Quot(x, 4) = 0 /\ (Round(x, 4) <=> x = 0)
      BY <1>1, <2>1, <2>5 DEF Quot, Round
    <2>7. PICK c \in Nat \ {0} : c = TIME_LEVEL
      BY Spans
    <2>8. PICK q \in Nat : q = Quot(x, 3)
      BY <2>2, Quots DEF Top
    <2>9. q \div c = 0
      <3>1. Quot(x, 3 + 1) = Quot(x, 3) \div TIME_LEVEL
        BY <2>2, NextLevel DEF Top
      <3> QED BY <2>6, <2>7, <2>8, <3>1
    <2>10. q = ((q \div c) * c) + (q % c) /\ q % c \in Nat
      BY Dividing
    <2>11. q = q % c
      BY <2>9, <2>10
    <2> QED BY <2>6, <2>7, <2>8, <2>11 DEF Index
  <1> QED BY <1>1, <1>2, <1>4, <1>5 DEF Top

-----------------------------------------------------------------------------
(* The timing wheel: where add_node puts a node                            *)

\* i is the level for x: the bits at it differ, those above do not.
IsLevel(i, x, now) ==
  /\ i = Top \/ Quot(x, i + 1) = Quot(now, i + 1)
  /\ \A k \in 0..i : Quot(x, k) # Quot(now, k)

LEMMA LevelIs ==
  ASSUME NEW x \in Nat, NEW now \in Nat, NEW i \in 0..Top, IsLevel(i, x, now)
  PROVE  Place(x, now) = <<i, Index(x, i)>>
  <1> DEFINE P(j) == /\ j = Top \/ x \div Span[j + 1] = now \div Span[j + 1]
                     /\ \A k \in 0..(j - 1) : x \div Span[k + 1] # now \div Span[k + 1]
  <1>1. P(i)
    <2>1. ASSUME NEW k \in 0..(i - 1) PROVE x \div Span[k + 1] # now \div Span[k + 1]
      <3>1. k + 1 \in 0..i
        BY DEF Top
      <3> QED BY <3>1 DEF IsLevel, Quot
    <2> QED BY <2>1 DEF IsLevel, Quot
  <1>2. ASSUME NEW j \in 0..Top, P(j) PROVE j = i
    <2>1. CASE j < i
      <3>1. j \in 0..(i - 1) /\ j # Top
        BY <2>1 DEF Top
      <3> QED BY <1>1, <1>2, <3>1
    <2>2. CASE i < j
      <3>1. i \in 0..(j - 1) /\ i # Top
        BY <2>2 DEF Top
      <3> QED BY <1>1, <1>2, <3>1
    <2> QED BY <2>1, <2>2 DEF Top
  <1>3. Level(x, now) = CHOOSE j \in 0..Top : P(j)
    BY DEF Level
  <1> HIDE DEF P
  <1>4. Level(x, now) = i
    BY <1>1, <1>2, <1>3
  <1>5. x \div TIME_NEAR # now \div TIME_NEAR
    <2>1. 0 \in 0..i
      BY DEF Top
    <2> QED BY <2>1, Spans DEF IsLevel, Quot
  <1> QED BY <1>4, <1>5 DEF Place, Index, Quot

\* Every node has a level, if it is not among the near ones.
LEMMA LevelExists ==
  ASSUME NEW x \in Nat, NEW now \in Nat, Quot(x, 0) # Quot(now, 0)
  PROVE  \E i \in 0..Top : IsLevel(i, x, now)
  <1> DEFINE D(k) == Quot(x, k) # Quot(now, k)
  <1>1. CASE ~ D(1)
    <2>1. \A k \in 0..0 : k = 0
      OBVIOUS
    <2> QED BY <1>1, <2>1 DEF IsLevel, Top
  <1>2. CASE D(1) /\ ~ D(2)
    <2>1. \A k \in 0..1 : k = 0 \/ k = 1
      OBVIOUS
    <2> QED BY <1>2, <2>1 DEF IsLevel, Top
  <1>3. CASE D(1) /\ D(2) /\ ~ D(3)
    <2>1. \A k \in 0..2 : k = 0 \/ k = 1 \/ k = 2
      OBVIOUS
    <2> QED BY <1>3, <2>1 DEF IsLevel, Top
  <1>4. CASE D(1) /\ D(2) /\ D(3)
    <2>1. \A k \in 0..3 : k = 0 \/ k = 1 \/ k = 2 \/ k = 3
      OBVIOUS
    <2> QED BY <1>4, <2>1 DEF IsLevel, Top
  <1> QED BY <1>1, <1>2, <1>3, <1>4

LEMMA NearPlace ==
  ASSUME NEW x \in Nat, NEW now \in Nat, Quot(x, 0) = Quot(now, 0)
  PROVE  Place(x, now) = <<Near, x % TIME_NEAR>>
  BY Spans DEF Place, Quot

LEMMA PlaceIsSlot ==
  ASSUME NEW x \in Nat, NEW now \in Nat
  PROVE  Place(x, now) \in Slot
  <1>1. CASE Quot(x, 0) = Quot(now, 0)
    <2>1. x % TIME_NEAR \in 0..(TIME_NEAR - 1)
      BY Spans, Dividing
    <2> QED BY <1>1, <2>1, NearPlace DEF Slot
  <1>2. CASE Quot(x, 0) # Quot(now, 0)
    <2>1. PICK i \in 0..Top : IsLevel(i, x, now)
      BY <1>2, LevelExists
    <2>2. i \in 0..(Top + 1)
      BY DEF Top
    <2>3. Index(x, i) \in 0..(TIME_LEVEL - 1)
      BY <2>2, Quots
    <2> QED BY <2>1, <2>3, LevelIs DEF Slot
  <1> QED BY <1>1, <1>2

\* The list that timer_execute takes is that of the nodes that expire now.
LEMMA PlaceNow ==
  ASSUME NEW x \in Nat, NEW now \in Nat
  PROVE  Place(x, now) = <<Near, now % TIME_NEAR>> <=> x = now
  <1>1. CASE Quot(x, 0) = Quot(now, 0)
    <2>1. x % TIME_NEAR = now % TIME_NEAR => x = now
      BY <1>1, SameSlot, Spans DEF Top
    <2> QED BY <1>1, <2>1, NearPlace
  <1>2. CASE Quot(x, 0) # Quot(now, 0)
    <2>1. PICK i \in 0..Top : IsLevel(i, x, now)
      BY <1>2, LevelExists
    <2>2. Place(x, now) = <<i, Index(x, i)>>
      BY <2>1, LevelIs
    <2>3. i # Near
      BY DEF Near, Top
    <2> QED BY <1>2, <2>2, <2>3
  <1> QED BY <1>1, <1>2

\* Only what bits a node shares with the clock decides where it is.
LEMMA SamePlace ==
  ASSUME NEW x \in Nat, NEW t \in Nat, NEW u \in Nat,
         \A k \in 0..Top : Quot(x, k) = Quot(t, k) <=> Quot(x, k) = Quot(u, k)
  PROVE  Place(x, t) = Place(x, u)
  <1>1. CASE Quot(x, 0) = Quot(t, 0)
    BY <1>1, NearPlace DEF Top
  <1>2. CASE Quot(x, 0) # Quot(t, 0)
    <2>1. PICK i \in 0..Top : IsLevel(i, x, t)
      BY <1>2, LevelExists
    <2>2. IsLevel(i, x, u)
      <3>1. \A k \in 0..i : k \in 0..Top
        BY DEF Top
      <3>2. i # Top => i + 1 \in 0..Top
        BY DEF Top
      <3> QED BY <2>1, <3>1, <3>2 DEF IsLevel
    <2> QED BY <2>1, <2>2, LevelIs
  <1> QED BY <1>1, <1>2

-----------------------------------------------------------------------------
(* The timing wheel: what timer_shift has to move                          *)

\* Numbers that agree from a level on agree above it.
LEMMA SameAbove ==
  ASSUME NEW x \in Nat, NEW y \in Nat, NEW k \in 0..(Top + 1), NEW j \in 0..(Top + 1),
         k <= j, Quot(x, k) = Quot(y, k)
  PROVE  Quot(x, j) = Quot(y, j)
  <1> DEFINE S(i) == Quot(x, i) = Quot(y, i)
  <1>1. \A i \in 0..3 : S(i) => S(i + 1)
    BY NextLevel DEF Top
  <1>2. (S(0) => S(1)) /\ (S(1) => S(2)) /\ (S(2) => S(3)) /\ (S(3) => S(4))
    <2>1. 0 \in 0..3 /\ 1 \in 0..3 /\ 2 \in 0..3 /\ 3 \in 0..3
      OBVIOUS
    <2>2. (S(0) => S(0 + 1)) /\ (S(1) => S(1 + 1)) /\ (S(2) => S(2 + 1)) /\ (S(3) => S(3 + 1))
      BY <1>1, <2>1
    <2> QED BY <2>2
  <1>3. (k = 0 \/ k = 1 \/ k = 2 \/ k = 3 \/ k = 4) /\ (j = 0 \/ j = 1 \/ j = 2 \/ j = 3 \/ j = 4)
    BY DEF Top
  <1>4. S(k)
    OBVIOUS
  <1> HIDE DEF S
  <1>5. S(j)
    BY <1>2, <1>3, <1>4
  <1> QED BY <1>5 DEF S

\* Later numbers do not have smaller quotients.
LEMMA LaterQuot ==
  ASSUME NEW x \in Nat, NEW y \in Nat, NEW k \in 0..(Top + 1), y <= x
  PROVE  Quot(y, k) <= Quot(x, k)
  <1>1. PICK b \in Nat \ {0} : b = Span[k]
    BY Spans
  <1>2. PICK q \in Nat, r \in 0..(b - 1) : q = x \div b /\ r = x % b /\ x = (q * b) + r
    BY Dividing
  <1>3. PICK p \in Nat, s \in 0..(b - 1) : p = y \div b /\ s = y % b /\ y = (p * b) + s
    BY Dividing
  <1>4. ASSUME q < p PROVE FALSE
    <2>1. PICK e \in Nat : p = (q + 1) + e
      <3>1. p - (q + 1) \in Nat
        BY <1>4
      <3> QED BY <3>1
    <2>2. p * b = (q * b) + b + (e * b)
      <3>1. ((q + 1) + e) * b = (q * b) + b + (e * b)
        OBVIOUS
      <3> QED BY <2>1, <3>1
    <2>3. PICK m \in Nat, n \in Nat : m = q * b /\ n = e * b
      <3>1. q * b \in Nat /\ e * b \in Nat
        OBVIOUS
      <3> QED BY <3>1
    <2>4. p * b = m + b + n
      BY <2>2, <2>3
    <2> QED BY <1>2, <1>3, <2>3, <2>4
  <1> QED BY <1>1, <1>2, <1>3, <1>4 DEF Quot

\* x lies less than half of the circle of ticks ahead of the clock.
Soon(x, t) == IF x >= t THEN x - t < Ticks \div 2 ELSE x + Ticks - t < Ticks \div 2

\* If x comes after the overflow, it shares no bits with the clock.
LEMMA BeyondOverflow ==
  ASSUME NEW t \in 0..(Ticks - 1), NEW x \in 0..(Ticks - 1), x < t, Soon(x, t),
         NEW k \in 0..Top
  PROVE  Quot(x, k) # Quot(t, k)
  <1>1. SUFFICES ASSUME Quot(x, k) = Quot(t, k) PROVE FALSE
    OBVIOUS
  <1>2. PICK b \in Nat : b = Span[k]
    BY Spans DEF Top
  <1>3. PICK T \in Nat, h \in Nat : T = Ticks /\ h = Ticks \div 2 /\ 2 * h <= T /\ 2 * b <= T
    BY <1>2, TopLevel
  <1>4. x \in Nat /\ t \in Nat /\ k \in 0..(Top + 1)
    BY TopLevel DEF Top
  <1>5. t - x < b
    BY <1>1, <1>2, <1>4, SameSlot
  <1>6. x + T - t < h
    BY <1>3, <1>4 DEF Soon
  <1> QED BY <1>3, <1>4, <1>5, <1>6

\* The next tick.
LEMMA NextTick ==
  ASSUME NEW t \in 0..(Ticks - 1)
  PROVE  (t + 1) % Ticks = IF t = Ticks - 1 THEN 0 ELSE t + 1
  <1>1. PICK T \in Nat \ {0} : T = Ticks
    BY TopLevel
  <1>2. CASE t = T - 1
    <2>1. t + 1 = (1 * T) + 0 /\ 0 \in 0..(T - 1)
      BY <1>1, <1>2
    <2>2. (t + 1) % T = 0
      BY <2>1, QuotientIs
    <2> QED BY <1>1, <1>2, <2>2
  <1>3. CASE t # T - 1
    <2>1. PICK u \in 0..(T - 1) : u = t + 1
      BY <1>1, <1>3
    <2>2. (0 * T) + u = u
      OBVIOUS
    <2>3. u % T = u
      BY <2>2, QuotientIs
    <2> QED BY <1>1, <1>3, <2>1, <2>3
  <1> QED BY <1>1, <1>2, <1>3

\* Nothing is moved unless the near ticks roll over.
LEMMA CascadesNothing ==
  ASSUME NEW u \in Nat, u # 0, ~ Round(u, 0)
  PROVE  Cascade(u) = {} /\ \A k \in 0..(Top + 1) : ~ Round(u, k)
  <1>1. \A i \in 0..3 : Round(u, i + 1) => Round(u, i)
    BY NextLevel DEF Top
  <1>2. ~ Round(u, 1) /\ ~ Round(u, 2) /\ ~ Round(u, 3) /\ ~ Round(u, 4)
    <2>1. 0 \in 0..3 /\ 1 \in 0..3 /\ 2 \in 0..3 /\ 3 \in 0..3
      OBVIOUS
    <2>2. /\ Round(u, 0 + 1) => Round(u, 0)
          /\ Round(u, 1 + 1) => Round(u, 1)
          /\ Round(u, 2 + 1) => Round(u, 2)
          /\ Round(u, 3 + 1) => Round(u, 3)
      BY <1>1, <2>1
    <2> QED BY <2>2
  <1>3. ASSUME NEW k \in 0..4 PROVE ~ Round(u, k)
    <2>1. k = 0 \/ k = 1 \/ k = 2 \/ k = 3 \/ k = 4
      OBVIOUS
    <2> QED BY <1>2, <2>1
  <1> QED BY <1>3 DEF Cascade, Round, Top

\* If they do, one list is moved: that of the highest level whose lower bits
\* are all 0.
LEMMA CascadesOne ==
  ASSUME NEW u \in 1..(Ticks - 1), Round(u, 0)
  PROVE  \E j \in 0..Top :
           /\ Cascade(u) = {<<j, Index(u, j)>>} /\ Index(u, j) # 0
           /\ \A k \in 0..(Top + 1) : Round(u, k) <=> k <= j
  <1>1. u \in Nat /\ u \in 0..(Ticks - 1) /\ u # 0
    BY TopLevel
  <1> DEFINE R(k) == Round(u, k)
             Z(k) == Index(u, k) = 0
  <1>2. ~ R(4)
    BY <1>1, TopLevel DEF Top
  <1>3. (R(1) <=> R(0) /\ Z(0)) /\ (R(2) <=> R(1) /\ Z(1)) /\ (R(3) <=> R(2) /\ Z(2))
        /\ (R(4) <=> R(3) /\ Z(3))
    <2>1. 0 \in 0..3 /\ 1 \in 0..3 /\ 2 \in 0..3 /\ 3 \in 0..3
      OBVIOUS
    <2>2. \A i \in 0..3 : R(i + 1) <=> R(i) /\ Z(i)
      BY <1>1, NextLevel DEF Top
    <2>3. (R(0 + 1) <=> R(0) /\ Z(0)) /\ (R(1 + 1) <=> R(1) /\ Z(1))
          /\ (R(2 + 1) <=> R(2) /\ Z(2)) /\ (R(3 + 1) <=> R(3) /\ Z(3))
      BY <2>1, <2>2
    <2> QED BY <2>3
  <1>4. R(0)
    OBVIOUS
  <1>5. Cascade(u) = {<<i, Index(u, i)>> : i \in {k \in 0..3 : R(k) /\ ~ Z(k)}}
    BY <1>1 DEF Cascade, Round, Index, Quot, Top
  <1> HIDE DEF R, Z
  <1>6. PICK j \in 0..3 : R(j) /\ ~ Z(j) /\ \A k \in 0..4 : (R(k) <=> k <= j) /\ (k < j => Z(k))
    <2>1. \A k \in 0..4 : k = 0 \/ k = 1 \/ k = 2 \/ k = 3 \/ k = 4
      OBVIOUS
    <2>2. CASE ~ Z(0)
      <3>1. \A k \in 0..4 : (R(k) <=> k <= 0) /\ (k < 0 => Z(k))
        BY <1>2, <1>3, <1>4, <2>1, <2>2
      <3> QED BY <1>4, <2>2, <3>1
    <2>3. CASE Z(0) /\ ~ Z(1)
      <3>1. \A k \in 0..4 : (R(k) <=> k <= 1) /\ (k < 1 => Z(k))
        BY <1>2, <1>3, <1>4, <2>1, <2>3
      <3> QED BY <1>3, <1>4, <2>3, <3>1
    <2>4. CASE Z(0) /\ Z(1) /\ ~ Z(2)
      <3>1. \A k \in 0..4 : (R(k) <=> k <= 2) /\ (k < 2 => Z(k))
        BY <1>2, <1>3, <1>4, <2>1, <2>4
      <3> QED BY <1>3, <1>4, <2>4, <3>1
    <2>5. CASE Z(0) /\ Z(1) /\ Z(2)
      <3>1. ~ Z(3)
        BY <1>2, <1>3, <1>4, <2>5
      <3>2. \A k \in 0..4 : (R(k) <=> k <= 3) /\ (k < 3 => Z(k))
        BY <1>2, <1>3, <1>4, <2>1, <2>5
      <3> QED BY <1>3, <1>4, <2>5, <3>1, <3>2
    <2> QED BY <2>2, <2>3, <2>4, <2>5
  <1>7. \A k \in 0..3 : R(k) /\ ~ Z(k) <=> k = j
    <2>1. \A k \in 0..3 : k \in 0..4
      OBVIOUS
    <2> QED BY <1>6, <2>1
  <1>8. Cascade(u) = {<<j, Index(u, j)>>}
    BY <1>5, <1>7
  <1> QED BY <1>6, <1>8 DEF R, Z, Top

\* A node that is not moved when the clock goes from t to u is where it would
\* be put now.
LEMMA StaysPlaced ==
  ASSUME NEW t \in 0..(Ticks - 1), NEW x \in 0..(Ticks - 1), x # t, Soon(x, t),
         NEW u, u = (t + 1) % Ticks, Place(x, t) \notin Cascade(u)
  PROVE  Place(x, u) = Place(x, t)
  <1>1. t \in Nat /\ x \in Nat /\ t <= Ticks - 1 /\ x <= Ticks - 1 /\ Ticks \in Nat \ {0}
    BY TopLevel
  <1>2. CASE t = Ticks - 1
    <2>1. u = 0
      BY <1>2, NextTick
    <2>2. x < t
      BY <1>1, <1>2
    <2>3. \A k \in 0..Top : Quot(x, k) # Quot(t, k)
      BY <2>2, BeyondOverflow
    <2>4. IsLevel(Top, x, t) /\ Top \in 0..Top
      BY <2>3 DEF IsLevel, Top
    <2>5. Place(x, t) = <<Top, Index(x, Top)>>
      BY <1>1, <2>4, LevelIs
    <2>6. Quot(x, Top) # 0
      BY <2>1, <2>5, TopLevel DEF Cascade
    <2>7. Quot(0, Top) = 0
      <3>1. 0 \in 0..(Ticks - 1)
        BY <1>1
      <3>2. Index(0, Top) = Quot(0, Top) /\ Quot(0, Top + 1) = 0 /\ Round(0, Top + 1)
        BY <3>1, TopLevel
      <3>3. Index(0, Top) = 0
        BY <3>2, NextLevel, <2>4
      <3> QED BY <3>2, <3>3
    <2>8. \A k \in 0..Top : Quot(x, k) # Quot(0, k)
      <3>1. ASSUME NEW k \in 0..Top, Quot(x, k) = Quot(0, k) PROVE FALSE
        <4>1. k \in 0..(Top + 1) /\ Top \in 0..(Top + 1) /\ k <= Top
          BY DEF Top
        <4>2. Quot(x, Top) = Quot(0, Top)
          BY <1>1, <3>1, <4>1, SameAbove
        <4> QED BY <2>6, <2>7, <4>2
      <3> QED BY <3>1
    <2>9. IsLevel(Top, x, 0)
      BY <2>8 DEF IsLevel
    <2> QED BY <1>1, <2>1, <2>4, <2>5, <2>9, LevelIs
  <1>3. CASE t # Ticks - 1
    <2>1. u = t + 1 /\ u \in 1..(Ticks - 1) /\ u \in Nat /\ u # 0 /\ u \in 0..(Ticks - 1)
      BY <1>1, <1>3, NextTick
    <2>2. \A k \in 0..(Top + 1) : Quot(u, k) = Quot(t, k) + (IF Round(u, k) THEN 1 ELSE 0)
      BY <1>1, <2>1, Quots
    <2>3. \A k \in 0..(Top + 1) : Quot(u, k) \in Nat /\ Quot(t, k) \in Nat /\ Quot(x, k) \in Nat
      BY <1>1, <2>1, Quots
    <2>4. \A k \in 0..Top : k \in 0..(Top + 1)
      BY DEF Top
    <2>5. CASE ~ Round(u, 0)
      <3>1. \A k \in 0..Top : Quot(u, k) = Quot(t, k)
        BY <2>1, <2>2, <2>3, <2>4, <2>5, CascadesNothing
      <3> QED BY <1>1, <2>1, <3>1, SamePlace
    <2>6. CASE Round(u, 0)
      <3>1. PICK j \in 0..Top :
              /\ Cascade(u) = {<<j, Index(u, j)>>} /\ Index(u, j) # 0
              /\ \A k \in 0..(Top + 1) : Round(u, k) <=> k <= j
        BY <2>1, <2>6, CascadesOne
      <3>2. j \in 0..(Top + 1) /\ j + 1 \in 0..(Top + 1)
        BY DEF Top
      <3>3. \A k \in 0..(Top + 1) : k <= j => Quot(u, k) = Quot(t, k) + 1
        BY <2>2, <3>1
      <3>4. \A k \in 0..(Top + 1) : k > j => Quot(u, k) = Quot(t, k)
        <4>1. ASSUME NEW k \in 0..(Top + 1), k > j PROVE Quot(u, k) = Quot(t, k)
          <5>1. ~ Round(u, k)
            BY <3>1, <4>1 DEF Top
          <5> QED BY <2>2, <2>3, <5>1
        <4> QED BY <4>1
      <3>5. ASSUME NEW m \in 0..(Top + 1), Quot(x, m) # Quot(t, m), Quot(x, m) # Quot(u, m),
                   m >= j
            PROVE  Place(x, t) = Place(x, u)
        <4>1. ASSUME NEW k \in 0..Top
              PROVE  Quot(x, k) = Quot(t, k) <=> Quot(x, k) = Quot(u, k)
          <5>1. CASE k <= m
            BY <1>1, <2>1, <2>4, <3>5, <5>1, SameAbove
          <5>2. CASE k > m
            <6>1. k > j
              BY <3>5, <5>2 DEF Top
            <6> QED BY <2>4, <3>4, <6>1
          <5> QED BY <5>1, <5>2 DEF Top
        <4> QED BY <1>1, <2>1, <4>1, SamePlace
      <3>6. CASE Quot(x, j + 1) # Quot(u, j + 1)
        <4>1. Quot(u, j + 1) = Quot(t, j + 1) /\ j + 1 >= j
          BY <3>2, <3>4 DEF Top
        <4> QED BY <3>2, <3>5, <3>6, <4>1
      <3>7. CASE Quot(x, j + 1) = Quot(u, j + 1) /\ Quot(x, j) = Quot(u, j)
        <4>1. Quot(x, j) # Quot(t, j)
          BY <2>3, <3>2, <3>3, <3>7 DEF Top
        <4>2. \A k \in 0..j : Quot(x, k) # Quot(t, k)
          <5>1. \A k \in 0..j : k \in 0..(Top + 1) /\ k <= j
            BY DEF Top
          <5> QED BY <1>1, <3>2, <4>1, <5>1, SameAbove
        <4>3. Quot(x, j + 1) = Quot(t, j + 1)
          BY <3>2, <3>4, <3>7 DEF Top
        <4>4. IsLevel(j, x, t)
          BY <4>2, <4>3 DEF IsLevel
        <4>5. Place(x, t) = <<j, Index(x, j)>>
          BY <1>1, <4>4, LevelIs
        <4>6. Index(x, j) = Index(u, j)
          BY <3>7 DEF Index
        <4> QED BY <3>1, <4>5, <4>6
      <3>8. CASE Quot(x, j) # Quot(u, j)
        <4>1. CASE x < t
          <5>1. Quot(x, j) # Quot(t, j)
            BY <4>1, BeyondOverflow
          <5> QED BY <3>2, <3>5, <3>8, <5>1
        <4>2. CASE ~ x < t
          <5>1. u <= x
            BY <1>1, <2>1, <4>2
          <5>2. Quot(u, j) <= Quot(x, j)
            BY <1>1, <2>1, <3>2, <5>1, LaterQuot
          <5>3. Quot(u, j) = Quot(t, j) + 1
            BY <3>2, <3>3 DEF Top
          <5>4. Quot(x, j) # Quot(t, j)
            BY <2>3, <3>2, <5>2, <5>3
          <5> QED BY <3>2, <3>5, <3>8, <5>4 DEF Top
        <4> QED BY <4>1, <4>2
      <3> QED BY <3>6, <3>7, <3>8
    <2> QED BY <2>5, <2>6
  <1> QED BY <1>2, <1>3

\* At most one list is moved, and it is one of the lists.
LEMMA CascadeIsSlot ==
  ASSUME NEW u \in 0..(Ticks - 1)
  PROVE  Cascade(u) = {} \/ \E s \in Slot : Cascade(u) = {s}
  <1>1. u \in Nat /\ Ticks \in Nat \ {0}
    BY TopLevel
  <1>2. CASE u = 0
    <2>1. <<Top, 0>> \in Slot
      BY Spans DEF Slot, Top
    <2> QED BY <1>2, <2>1 DEF Cascade
  <1>3. CASE u # 0 /\ ~ Round(u, 0)
    BY <1>1, <1>3, CascadesNothing
  <1>4. CASE u # 0 /\ Round(u, 0)
    <2>1. u \in 1..(Ticks - 1)
      BY <1>1, <1>4
    <2>2. PICK j \in 0..Top : Cascade(u) = {<<j, Index(u, j)>>}
      BY <1>4, <2>1, CascadesOne
    <2>3. j \in 0..(Top + 1)
      BY DEF Top
    <2>4. Index(u, j) \in 0..(TIME_LEVEL - 1)
      BY <1>1, <2>3, Quots
    <2> QED BY <2>2, <2>4 DEF Slot
  <1> QED BY <1>2, <1>3, <1>4

-----------------------------------------------------------------------------
(* The timing wheel: adding nodes to the lists                             *)

\* One turn of the loop of move_list.
LinkTurn(f, lists, nodes, exp, now, k) ==
  IF k = 0 THEN lists
  ELSE [f[k - 1] EXCEPT ![Place(exp[nodes[k]], now)] = Append(@, nodes[k])]

\* f is the lists after each turn, up to the n-th.
LinkLoop(f, lists, nodes, exp, now, n) ==
  f = [k \in 0..n |-> LinkTurn(f, lists, nodes, exp, now, k)]

\* The loop ends, whatever the lists are.
LEMMA LinkEnds ==
  ASSUME NEW lists, NEW nodes, NEW exp, NEW now, NEW n \in Nat
  PROVE  \E f : LinkLoop(f, lists, nodes, exp, now, n)
  <1> DEFINE P(m) == \E f : LinkLoop(f, lists, nodes, exp, now, m)
             S == {m \in Nat : P(m)}
  <1>1. 0 \in S
    <2> DEFINE f == [k \in 0..0 |-> lists]
    <2>1. f = [k \in 0..0 |-> LinkTurn(f, lists, nodes, exp, now, k)]
      <3>1. \A k \in 0..0 : k = 0
        OBVIOUS
      <3> QED BY <3>1 DEF LinkTurn
    <2> HIDE DEF f
    <2> QED BY <2>1 DEF LinkLoop
  <1>2. ASSUME NEW m \in Nat, m \in S PROVE m + 1 \in S
    <2>1. PICK f : LinkLoop(f, lists, nodes, exp, now, m)
      BY <1>2
    <2> DEFINE g == [k \in 0..(m + 1) |-> IF k = m + 1 THEN LinkTurn(f, lists, nodes, exp, now, k)
                                          ELSE f[k]]
    <2>2. ASSUME NEW k \in 0..(m + 1) PROVE g[k] = LinkTurn(g, lists, nodes, exp, now, k)
      <3>1. k # 0 => k - 1 \in 0..m /\ g[k - 1] = f[k - 1]
        OBVIOUS
      <3>2. LinkTurn(g, lists, nodes, exp, now, k) = LinkTurn(f, lists, nodes, exp, now, k)
        <4> HIDE DEF g
        <4> QED BY <3>1 DEF LinkTurn
      <3>3. CASE k = m + 1
        BY <3>2, <3>3
      <3>4. CASE k # m + 1
        <4>1. k \in 0..m
          BY <3>4
        <4>2. f[k] = LinkTurn(f, lists, nodes, exp, now, k)
          BY <2>1, <4>1 DEF LinkLoop
        <4> QED BY <3>2, <3>4, <4>2
      <3> QED BY <3>3, <3>4
    <2>3. g = [k \in 0..(m + 1) |-> LinkTurn(g, lists, nodes, exp, now, k)]
      BY <2>2
    <2> HIDE DEF g
    <2>4. P(m + 1)
      BY <2>3 DEF LinkLoop
    <2> QED BY <2>4
  <1> HIDE DEF P
  <1>3. Nat \subseteq S
    BY <1>1, <1>2, SetInduction
  <1>4. P(n)
    BY <1>3
  <1> QED BY <1>4 DEF P

\* Added is what the loop makes of the lists in the end.
LinkResult(f, lists, nodes, exp, now) ==
  /\ Added(lists, nodes, exp, now) = f[Len(nodes)]
  /\ f[0] = lists
  /\ \A k \in 1..Len(nodes) : f[k] = LinkTurn(f, lists, nodes, exp, now, k)

LEMMA AddedIs ==
  ASSUME NEW lists, NEW nodes \in Seq(Node), NEW exp, NEW now
  PROVE  \E f : LinkResult(f, lists, nodes, exp, now)
  <1>1. PICK n \in Nat : n = Len(nodes)
    OBVIOUS
  <1>2. PICK f : LinkLoop(f, lists, nodes, exp, now, n)
    BY <1>1, LinkEnds
  <1> DEFINE P(g) == g = [k \in 0..n |->
                            IF k = 0 THEN lists
                            ELSE [g[k - 1] EXCEPT ![Place(exp[nodes[k]], now)] = Append(@, nodes[k])]]
             c == CHOOSE g : P(g)
  <1>3. P(f)
    BY <1>2 DEF LinkLoop, LinkTurn
  <1>4. Added(lists, nodes, exp, now) = c[n]
    BY <1>1, Zenon DEF Added
  <1> HIDE DEF P
  <1>5. P(c)
    BY <1>3
  <1>6. c = [k \in 0..n |-> LinkTurn(c, lists, nodes, exp, now, k)]
    BY <1>5 DEF P, LinkTurn
  <1> HIDE DEF c
  <1>7. c[0] = LinkTurn(c, lists, nodes, exp, now, 0)
    BY <1>1, <1>6
  <1>8. \A k \in 1..n : c[k] = LinkTurn(c, lists, nodes, exp, now, k)
    <2>1. \A k \in 1..n : k \in 0..n
      BY <1>1
    <2> QED BY <1>6, <2>1
  <1>9. LinkResult(c, lists, nodes, exp, now)
    BY <1>1, <1>4, <1>7, <1>8 DEF LinkTurn, LinkResult
  <1> QED BY <1>9

Items(q) == {q[i] : i \in DOMAIN q}

\* The nodes of which the first m are for list s.
For(s, nodes, exp, now, m) == {nodes[k] : k \in {j \in 1..m : Place(exp[nodes[j]], now) = s}}

\* Every pair of items of a list stands in the order R.
Follows(q, R) == \A i, k \in DOMAIN q : i < k => <<q[i], q[k]>> \in R

\* link appends a node to one list.
Linked(l, p, n) == [l EXCEPT ![p] = Append(@, n)]

LEMMA LinkStep ==
  ASSUME NEW l \in [Slot -> Seq(Node)], NEW n \in Node, NEW p \in Slot, NEW R,
         Follows(l[p], R), \A m \in Items(l[p]) : <<m, n>> \in R
  PROVE  /\ Linked(l, p, n) \in [Slot -> Seq(Node)]
         /\ \A s \in Slot : s # p => Linked(l, p, n)[s] = l[s]
         /\ Items(Linked(l, p, n)[p]) = Items(l[p]) \cup {n}
         /\ Follows(Linked(l, p, n)[p], R)
  <1> DEFINE l2 == Linked(l, p, n)
             q == l[p]
             r == Append(q, n)
  <1>1. q \in Seq(Node)
    OBVIOUS
  <1> HIDE DEF q
  <1>2. /\ r \in Seq(Node) /\ Len(r) = Len(q) + 1 /\ r[Len(q) + 1] = n
        /\ \A i \in 1..Len(q) : r[i] = q[i]
    BY <1>1
  <1>3. DOMAIN q = 1..Len(q) /\ DOMAIN r = 1..(Len(q) + 1) /\ Len(q) \in Nat
    BY <1>1, <1>2
  <1>4. l2[p] = r /\ l2 \in [Slot -> Seq(Node)] /\ \A s \in Slot : s # p => l2[s] = l[s]
    BY <1>1, <1>2 DEF q, Linked
  <1> HIDE DEF r, l2
  <1>5. Items(r) = Items(q) \cup {n}
    <2>1. \A i \in 1..(Len(q) + 1) : i \in 1..Len(q) \/ i = Len(q) + 1
      BY <1>3
    <2>2. \A i \in 1..Len(q) : i \in 1..(Len(q) + 1)
      BY <1>3
    <2>3. Len(q) + 1 \in 1..(Len(q) + 1)
      BY <1>3
    <2> QED BY <1>2, <1>3, <2>1, <2>2, <2>3 DEF Items
  <1>6. ASSUME Follows(q, R), \A m \in Items(q) : <<m, n>> \in R PROVE Follows(r, R)
    <2>1. ASSUME NEW i \in 1..(Len(q) + 1), NEW k \in 1..(Len(q) + 1), i < k
          PROVE  <<r[i], r[k]>> \in R
      <3>1. i \in 1..Len(q)
        BY <1>3, <2>1
      <3>2. r[i] = q[i] /\ q[i] \in Items(q)
        BY <1>2, <1>3, <3>1 DEF Items
      <3>3. CASE k = Len(q) + 1
        BY <1>2, <1>6, <3>2, <3>3
      <3>4. CASE k # Len(q) + 1
        <4>1. k \in 1..Len(q)
          BY <1>3, <3>4
        <4> QED BY <1>2, <1>3, <1>6, <2>1, <3>1, <4>1 DEF Follows
      <3> QED BY <3>3, <3>4
    <2> QED BY <1>3, <2>1 DEF Follows
  <1> QED BY <1>4, <1>5, <1>6 DEF q, l2

\* What add_node makes of the lists: each gets the nodes that are for it, and
\* they stay in an order R in which the nodes come and which they have to what
\* is in the lists.
Addable(lists, nodes, exp, now, R) ==
  /\ lists \in [Slot -> Seq(Node)] /\ nodes \in Seq(Node)
  /\ exp \in [Node -> Nat] /\ now \in Nat
  /\ Follows(nodes, R) /\ \A s \in Slot : Follows(lists[s], R)
  /\ \A s \in Slot : \A m \in Items(lists[s]) :
       \A n \in For(s, nodes, exp, now, Len(nodes)) : <<m, n>> \in R

AddedRight(result, lists, nodes, exp, now, R) ==
  /\ result \in [Slot -> Seq(Node)]
  /\ \A s \in Slot :
       /\ Items(result[s]) = Items(lists[s]) \cup For(s, nodes, exp, now, Len(nodes))
       /\ Follows(result[s], R)

LEMMA AddedLists ==
  ASSUME NEW lists, NEW nodes, NEW exp, NEW now, NEW R, Addable(lists, nodes, exp, now, R)
  PROVE  AddedRight(Added(lists, nodes, exp, now), lists, nodes, exp, now, R)
  <1>a. /\ lists \in [Slot -> Seq(Node)] /\ nodes \in Seq(Node)
        /\ exp \in [Node -> Nat] /\ now \in Nat
        /\ Follows(nodes, R) /\ \A s \in Slot : Follows(lists[s], R)
        /\ \A s \in Slot : \A m \in Items(lists[s]) :
             \A n \in For(s, nodes, exp, now, Len(nodes)) : <<m, n>> \in R
    BY DEF Addable
  <1> USE <1>a
  <1>0. PICK f : LinkResult(f, lists, nodes, exp, now)
    BY AddedIs
  <1>1. /\ Added(lists, nodes, exp, now) = f[Len(nodes)]
        /\ f[0] = lists
        /\ \A k \in 1..Len(nodes) : f[k] = LinkTurn(f, lists, nodes, exp, now, k)
    BY <1>0 DEF LinkResult
  <1>2. PICK n \in Nat : n = Len(nodes) /\ DOMAIN nodes = 1..n
    OBVIOUS
  <1>3. \A k \in 1..n : nodes[k] \in Node
    BY <1>2
  <1> DEFINE M(m) == /\ f[m] \in [Slot -> Seq(Node)]
                     /\ \A s \in Slot : /\ Items(f[m][s])
                                             = Items(lists[s]) \cup For(s, nodes, exp, now, m)
                                        /\ Follows(f[m][s], R)
             S == {m \in Nat : m <= n => M(m)}
  <1>4. M(0)
    <2>1. \A s \in Slot : For(s, nodes, exp, now, 0) = {}
      <3>1. 1..0 = {}
        OBVIOUS
      <3> QED BY <3>1 DEF For
    <2> QED BY <1>1, <2>1
  <1>5. ASSUME NEW m \in Nat, m \in S PROVE m + 1 \in S
    <2>1. SUFFICES ASSUME m + 1 <= n PROVE M(m + 1)
      OBVIOUS
    <2> DEFINE x == nodes[m + 1]
               p == Place(exp[x], now)
    <2>2. M(m) /\ m + 1 \in 1..n
      BY <1>5, <2>1
    <2>3. x \in Node /\ exp[x] \in Nat
      BY <1>3, <2>2
    <2>4. p \in Slot
      BY <2>3, PlaceIsSlot
    <2>5. f[m + 1] = [f[m] EXCEPT ![p] = Append(@, x)]
      <3>1. f[m + 1] = LinkTurn(f, lists, nodes, exp, now, m + 1)
        BY <1>1, <1>2, <2>2
      <3>2. (m + 1) - 1 = m /\ m + 1 # 0
        OBVIOUS
      <3> QED BY <3>1, <3>2 DEF LinkTurn
    <2>6. ASSUME NEW s \in Slot
          PROVE  For(s, nodes, exp, now, m + 1)
                   = For(s, nodes, exp, now, m) \cup (IF s = p THEN {x} ELSE {})
      <3>1. \A j : j \in 1..(m + 1) <=> j \in 1..m \/ j = m + 1
        OBVIOUS
      <3> QED BY <3>1 DEF For
    <2> HIDE DEF x, p, S
    <2>7. \A y \in Items(f[m][p]) : <<y, x>> \in R
      <3>1. ASSUME NEW y \in Items(lists[p]) PROVE <<y, x>> \in R
        <4>1. x \in For(p, nodes, exp, now, Len(nodes))
          BY <1>2, <2>2 DEF For, x, p
        <4> QED BY <2>4, <3>1, <4>1
      <3>2. ASSUME NEW y \in For(p, nodes, exp, now, m) PROVE <<y, x>> \in R
        <4>1. PICK j \in 1..m : y = nodes[j]
          BY <3>2 DEF For
        <4>2. j \in 1..n /\ j < m + 1
          BY <2>1, <4>1
        <4> QED BY <1>2, <2>2, <4>1, <4>2 DEF Follows, x
      <3> QED BY <2>2, <2>4, <3>1, <3>2
    <2>8. /\ f[m + 1] \in [Slot -> Seq(Node)]
          /\ \A s \in Slot : s # p => f[m + 1][s] = f[m][s]
          /\ Items(f[m + 1][p]) = Items(f[m][p]) \cup {x}
          /\ Follows(f[m + 1][p], R)
      <3>1. PICK l \in [Slot -> Seq(Node)] : l = f[m]
        BY <2>2
      <3>2. f[m + 1] = Linked(l, p, x)
        BY <2>5, <3>1 DEF Linked
      <3>3. Follows(l[p], R)
        BY <2>2, <2>4, <3>1
      <3>4. \A y \in Items(l[p]) : <<y, x>> \in R
        BY <2>7, <3>1
      <3>5. /\ Linked(l, p, x) \in [Slot -> Seq(Node)]
            /\ \A s \in Slot : s # p => Linked(l, p, x)[s] = l[s]
            /\ Items(Linked(l, p, x)[p]) = Items(l[p]) \cup {x}
            /\ Follows(Linked(l, p, x)[p], R)
        BY <2>3, <2>4, <3>3, <3>4, LinkStep
      <3> QED BY <3>1, <3>2, <3>5
    <2>9. ASSUME NEW s \in Slot
          PROVE  /\ Items(f[m + 1][s]) = Items(lists[s]) \cup For(s, nodes, exp, now, m + 1)
                 /\ Follows(f[m + 1][s], R)
      <3>1. CASE s = p
        BY <2>2, <2>6, <2>8, <3>1
      <3>2. CASE s # p
        BY <2>2, <2>6, <2>8, <3>2
      <3> QED BY <3>1, <3>2
    <2> QED BY <2>8, <2>9
  <1>6. 0 \in S
    BY <1>4
  <1> HIDE DEF M
  <1>7. Nat \subseteq S
    <2> HIDE DEF S
    <2> QED BY <1>5, <1>6, SetInduction
  <1>8. M(n)
    BY <1>2, <1>7
  <1> QED BY <1>1, <1>2, <1>8 DEF M, AddedRight

-----------------------------------------------------------------------------
(* The timing wheel: its invariant                                         *)

\* m was set before n.
Precedes(q, m, n) == \A i, k \in DOMAIN q : q[i] = m /\ q[k] = n => i < k

\* Pairs that may stand in this order in a list.
Earlier ==
  {e \in Node \X Node : expire[e[1]] = expire[e[2]] => Precedes(order, e[1], e[2])}

\* What waits for the same tick stands in the order in which it was set.
InOrder == Follows(firing, Earlier) /\ \A s \in Slot : Follows(list[s], Earlier)

\* A node waits once, and for a tick in the nearer half of the circle.
WaitsOnce == \A i, k \in DOMAIN order : order[i] = order[k] => i = k
WaitsSoon == \A n \in Waiting : Soon(expire[n], time)

\* What is being dispatched is all that is due.
FiringDue ==
  /\ \A n \in Fired : n \in Waiting /\ expire[n] = time
  /\ firing # <<>> => pc # "idle" /\ \A n \in Waiting : expire[n] = time => n \in Fired

Turning == pc # "idle" => left > 0

WheelInv == TypeOK /\ WellPlaced /\ InOrder /\ WaitsOnce /\ WaitsSoon /\ FiringDue /\ Turning

-----------------------------------------------------------------------------
\* The types, as the proofs use them.
LEMMA WheelTypes ==
  ASSUME TypeOK
  PROVE  /\ Ticks \in Nat \ {0} /\ time \in Nat /\ time < Ticks
         /\ \A n \in Node : expire[n] \in Nat /\ expire[n] < Ticks
         /\ expire \in [Node -> Nat]
         /\ Waiting \subseteq Node /\ Fired \subseteq Node
         /\ \A s \in Slot : list[s] \in Seq(Node)
         /\ Now \in Slot
  <1>1. PICK T \in Nat \ {0} : T = Ticks
    BY TopLevel
  <1>2. time \in Nat /\ time < T /\ expire \in [Node -> 0..(T - 1)]
    BY <1>1 DEF TypeOK
  <1>3. \A n \in Node : expire[n] \in Nat /\ expire[n] < T
    <2>1. ASSUME NEW n \in Node PROVE expire[n] \in Nat /\ expire[n] < T
      <3>1. expire[n] \in 0..(T - 1)
        BY <1>2
      <3> QED BY <3>1
    <2> QED BY <2>1
  <1>4. expire \in [Node -> Nat]
    <2>1. expire = [n \in Node |-> expire[n]]
      BY <1>2
    <2> QED BY <1>3, <2>1
  <1>5. Waiting \subseteq Node /\ Fired \subseteq Node /\ \A s \in Slot : list[s] \in Seq(Node)
    BY DEF TypeOK, Waiting, Fired
  <1>6. Now \in Slot
    <2>1. time % TIME_NEAR \in 0..(TIME_NEAR - 1)
      BY <1>2, Spans, Dividing
    <2> QED BY <2>1 DEF Now, Slot
  <1> QED BY <1>1, <1>2, <1>3, <1>4, <1>5, <1>6

\* The content of a list.
LEMMA Placed ==
  ASSUME WellPlaced, NEW s \in Slot
  PROVE  Items(list[s]) = {n \in Waiting \ Fired : s = Place(expire[n], time)}
  BY DEF WellPlaced, Items

\* The current list is what waits for this tick.
LEMMA NowHolds ==
  ASSUME TypeOK, WellPlaced
  PROVE  Items(list[Now]) = {n \in Waiting \ Fired : expire[n] = time}
  <1>1. \A n \in Waiting : Place(expire[n], time) = Now <=> expire[n] = time
    <2>1. ASSUME NEW n \in Waiting PROVE Place(expire[n], time) = Now <=> expire[n] = time
      <3>1. expire[n] \in Nat /\ time \in Nat
        BY WheelTypes
      <3> QED BY <3>1, PlaceNow DEF Now
    <2> QED BY <2>1
  <1>2. Now \in Slot
    BY WheelTypes
  <1> QED BY <1>1, <1>2, Placed

\* Nothing is in an empty list.
LEMMA NoItems ==
  ASSUME NEW q \in Seq(Node)
  PROVE  (q = <<>>) <=> (Items(q) = {})
  <1>1. CASE q = <<>>
    BY <1>1 DEF Items
  <1>2. CASE q # <<>>
    <2>1. 1 \in DOMAIN q
      BY <1>2
    <2> QED BY <1>2, <2>1 DEF Items
  <1> QED BY <1>1, <1>2

\* A sum on the circle of ticks.
LEMMA Around ==
  ASSUME NEW t \in 0..(Ticks - 1), NEW d \in 0..(Ticks - 1)
  PROVE  (t + d) % Ticks = IF t + d < Ticks THEN t + d ELSE t + d - Ticks
  <1>1. PICK T \in Nat \ {0} : T = Ticks
    BY TopLevel
  <1>2. t \in Nat /\ d \in Nat /\ t < T /\ d < T
    BY <1>1
  <1>3. CASE t + d < T
    <2>1. PICK u \in 0..(T - 1) : u = t + d
      BY <1>2, <1>3
    <2>2. (0 * T) + u = u
      OBVIOUS
    <2>3. u % T = u
      BY <2>2, QuotientIs
    <2> QED BY <1>1, <1>3, <2>1, <2>3
  <1>4. CASE ~ (t + d < T)
    <2>1. PICK u \in 0..(T - 1) : u = t + d - T
      BY <1>2, <1>4
    <2>2. t + d = (1 * T) + u
      BY <1>2, <2>1
    <2>3. (t + d) % T = u
      BY <2>2, QuotientIs
    <2> QED BY <1>1, <1>4, <2>1, <2>3
  <1> QED BY <1>3, <1>4, <1>1

LEMMA WheelInit == Init => WheelInv
  <1>1. SUFFICES ASSUME Init PROVE WheelInv
    OBVIOUS
  <1>2. Waiting = {} /\ Fired = {} /\ DOMAIN order = {}
    BY <1>1 DEF Init, Waiting, Fired
  <1>3. TypeOK
    <2>1. PICK T \in Nat \ {0} : T = Ticks
      BY TopLevel
    <2>2. 0 \in 0..(T - 1) /\ <<>> \in Seq(Node) /\ 0 \in 0..MaxLag
      BY TimerAssumption
    <2> QED BY <1>1, <2>1, <2>2 DEF Init, TypeOK
  <1>4. \A s \in Slot : list[s] = <<>>
    BY <1>1 DEF Init
  <1>5. WellPlaced
    BY <1>2, <1>4 DEF WellPlaced
  <1>6. InOrder
    BY <1>1, <1>4 DEF InOrder, Follows, Init
  <1>7. WaitsOnce /\ WaitsSoon /\ FiringDue /\ Turning
    BY <1>1, <1>2 DEF WaitsOnce, WaitsSoon, FiringDue, Turning, Init
  <1> QED BY <1>3, <1>5, <1>6, <1>7 DEF WheelInv

\* What is said of the nodes does not depend on where skynet_updatetime is.
LEMMA NodesUntouched ==
  ASSUME UNCHANGED <<time, list, expire, firing, order>>
  PROVE  /\ WellPlaced' = WellPlaced /\ InOrder' = InOrder
         /\ WaitsOnce' = WaitsOnce /\ WaitsSoon' = WaitsSoon
         /\ Waiting' = Waiting /\ Fired' = Fired
  BY DEF WellPlaced, InOrder, WaitsOnce, WaitsSoon, Waiting, Fired, Earlier

\* The steps of the loop of skynet_updatetime.
LEMMA QuietStep ==
  ASSUME WheelInv, (\E diff \in 1..MaxLag : UpdateTime(diff)) \/ TimerUpdate \/ EndUpdate
  PROVE  WheelInv'
  <1>1. UNCHANGED <<time, list, expire, firing, order>>
    BY DEF UpdateTime, TimerUpdate, EndUpdate
  <1>2. WellPlaced' /\ InOrder' /\ WaitsOnce' /\ WaitsSoon'
    BY <1>1, NodesUntouched DEF WheelInv
  <1>3. Waiting' = Waiting /\ Fired' = Fired
    BY <1>1, NodesUntouched
  <1>4. TypeOK' /\ Turning'
    <2>1. CASE \E diff \in 1..MaxLag : UpdateTime(diff)
      <3>1. PICK diff \in 1..MaxLag : UpdateTime(diff)
        BY <2>1
      <3>2. PICK T \in Nat \ {0} : T = Ticks
        BY TopLevel
      <3>3. (current + diff) % T \in 0..(T - 1)
        <4>1. current \in Nat /\ diff \in Nat
          BY <3>2 DEF WheelInv, TypeOK
        <4>2. current + diff \in Nat
          BY <4>1
        <4> QED BY <4>2, Dividing
      <3>4. diff \in 0..MaxLag
        BY TimerAssumption
      <3> QED BY <1>1, <3>1, <3>2, <3>3, <3>4 DEF WheelInv, TypeOK, Turning, UpdateTime
    <2>2. CASE TimerUpdate
      BY <2>2 DEF WheelInv, TypeOK, Turning, TimerUpdate
    <2>3. CASE EndUpdate
      <3>1. left > 0 /\ left \in 0..MaxLag
        BY <2>3 DEF WheelInv, TypeOK, Turning, EndUpdate
      <3>2. left - 1 \in 0..MaxLag
        BY <3>1, TimerAssumption
      <3> QED BY <2>3, <3>2 DEF WheelInv, TypeOK, Turning, EndUpdate
    <2> QED BY <2>1, <2>2, <2>3
  <1>5. FiringDue'
    <2>1. firing # <<>> => pc' # "idle"
      BY DEF WheelInv, FiringDue, UpdateTime, TimerUpdate, EndUpdate
    <2> QED BY <1>1, <1>3, <2>1 DEF WheelInv, FiringDue
  <1> QED BY <1>2, <1>4, <1>5 DEF WheelInv

\* timer_execute takes the current list.
LEMMA TakeStep == ASSUME WheelInv, TakeList PROVE WheelInv'
  <1>1. /\ firing = <<>> /\ firing' = list[Now] /\ list' = [list EXCEPT ![Now] = <<>>]
        /\ UNCHANGED <<time, expire, pc, current, left, order>> /\ pc # "idle"
    BY DEF TakeList
  <1>2. TypeOK /\ WellPlaced /\ Now \in Slot /\ list[Now] \in Seq(Node)
    BY WheelTypes DEF WheelInv
  <1>3. Waiting' = Waiting /\ Fired = {} /\ Fired' = Items(list[Now])
    BY <1>1 DEF Waiting, Fired, Items
  <1>4. Fired' = {n \in Waiting : expire[n] = time}
    BY <1>2, <1>3, NowHolds
  <1>5. TypeOK'
    BY <1>1, <1>2 DEF TypeOK
  <1>6. \A s \in Slot : list'[s] = IF s = Now THEN <<>> ELSE list[s]
    BY <1>1, <1>2 DEF TypeOK
  <1>7. WellPlaced'
    <2>1. ASSUME NEW s \in Slot
          PROVE  Items(list'[s]) = {n \in Waiting \ Fired' : s = Place(expire[n], time)}
      <3>1. \A n \in Waiting : expire[n] = time <=> Place(expire[n], time) = Now
        <4>1. ASSUME NEW n \in Waiting PROVE expire[n] = time <=> Place(expire[n], time) = Now
          <5>1. expire[n] \in Nat /\ time \in Nat
            BY <1>2, WheelTypes
          <5> QED BY <5>1, PlaceNow DEF Now
        <4> QED BY <4>1
      <3>2. CASE s = Now
        <4>1. Items(list'[s]) = {}
          BY <1>6, <3>2 DEF Items
        <4> QED BY <1>4, <3>1, <3>2, <4>1
      <3>3. CASE s # Now
        <4>1. Items(list'[s]) = {n \in Waiting : s = Place(expire[n], time)}
          BY <1>2, <1>3, <1>6, <3>3, Placed
        <4> QED BY <1>4, <3>1, <3>3, <4>1
      <3> QED BY <3>2, <3>3
    <2> QED BY <1>1, <1>3, <2>1 DEF WellPlaced, Items
  <1>8. InOrder'
    <2>1. Earlier' = Earlier
      BY <1>1 DEF Earlier
    <2>2. Follows(list[Now], Earlier) /\ \A s \in Slot : Follows(list[s], Earlier)
      BY <1>2 DEF WheelInv, InOrder
    <2>3. Follows(<<>>, Earlier)
      BY DEF Follows
    <2>4. \A s \in Slot : Follows(list'[s], Earlier)
      BY <1>6, <2>2, <2>3
    <2> QED BY <1>1, <2>1, <2>2, <2>4 DEF InOrder
  <1>9. WaitsOnce' /\ WaitsSoon' /\ Turning'
    BY <1>1, <1>3 DEF WheelInv, WaitsOnce, WaitsSoon, Turning
  <1>10. FiringDue'
    BY <1>1, <1>3, <1>4 DEF FiringDue
  <1> QED BY <1>5, <1>7, <1>8, <1>9, <1>10 DEF WheelInv

\* timer_add.
LEMMA AddStep ==
  ASSUME WheelInv, NEW n \in Node, NEW delay \in 1..(Ticks \div 2 - 1), TimerAdd(n, delay)
  PROVE  /\ WheelInv'
         /\ Waiting' = Waiting \cup {n} /\ expire'[n] # time
  <1>1. /\ n \notin Waiting /\ order' = Append(order, n)
        /\ expire' = [expire EXCEPT ![n] = (time + delay) % Ticks]
        /\ list' = Added(list, <<n>>, expire', time)
        /\ UNCHANGED <<time, pc, firing, current, left>>
    BY DEF TimerAdd
  <1>2. TypeOK /\ time \in 0..(Ticks - 1) /\ expire \in [Node -> 0..(Ticks - 1)]
        /\ order \in Seq(Node) /\ list \in [Slot -> Seq(Node)]
    BY DEF WheelInv, TypeOK
  <1> DEFINE x == (time + delay) % Ticks
  <1>3. x \in 0..(Ticks - 1) /\ x # time /\ Soon(x, time)
    <2>1. PICK T \in Nat \ {0}, h \in Nat : T = Ticks /\ h = Ticks \div 2 /\ 2 * h <= T
      BY TopLevel
    <2>2. time \in Nat /\ time < T /\ delay \in Nat /\ 1 <= delay /\ delay < h
      BY <1>2, <2>1
    <2>3. delay \in 0..(Ticks - 1)
      BY <2>1, <2>2
    <2>4. x = IF time + delay < T THEN time + delay ELSE time + delay - T
      BY <1>2, <2>1, <2>3, Around
    <2> HIDE DEF x
    <2>5. x \in Nat /\ x < T /\ x # time
      BY <2>1, <2>2, <2>4
    <2>6. IF x >= time THEN x - time < h ELSE x + T - time < h
      BY <2>1, <2>2, <2>4
    <2> QED BY <2>1, <2>5, <2>6 DEF Soon
  <1> HIDE DEF x
  <1>4. expire' = [expire EXCEPT ![n] = x]
    BY <1>1 DEF x
  <1>5. expire' \in [Node -> 0..(Ticks - 1)] /\ expire'[n] = x
        /\ \A m \in Node : m # n => expire'[m] = expire[m]
    BY <1>2, <1>3, <1>4
  <1>6. expire' \in [Node -> Nat] /\ time \in Nat
    <2>1. 0..(Ticks - 1) \subseteq Nat
      BY TopLevel
    <2> QED BY <1>2, <1>5, <2>1
  <1>7. /\ order' \in Seq(Node) /\ Len(order') = Len(order) + 1 /\ Len(order) \in Nat
        /\ DOMAIN order = 1..Len(order) /\ DOMAIN order' = 1..(Len(order) + 1)
        /\ order'[Len(order) + 1] = n /\ \A i \in 1..Len(order) : order'[i] = order[i]
    BY <1>1, <1>2
  <1>8. Waiting' = Waiting \cup {n}
    <2>1. \A i : i \in 1..(Len(order) + 1) <=> i \in 1..Len(order) \/ i = Len(order) + 1
      BY <1>7
    <2> QED BY <1>7, <2>1 DEF Waiting
  <1>9. Fired' = Fired /\ Fired \subseteq Waiting
    BY <1>1 DEF Fired, WheelInv, FiringDue
  <1>10. ASSUME NEW a \in Waiting, NEW b \in Waiting \cup {n}, b = n \/ <<a, b>> \in Earlier
         PROVE  <<a, b>> \in Earlier'
    <2>1. a \in Node /\ b \in Node /\ a # n
      BY <1>1, <1>2, WheelTypes
    <2>2. SUFFICES ASSUME expire'[a] = expire'[b] PROVE Precedes(order', a, b)
      BY <2>1 DEF Earlier
    <2>3. SUFFICES ASSUME NEW i \in DOMAIN order', NEW k \in DOMAIN order',
                          order'[i] = a, order'[k] = b
                   PROVE  i < k
      BY DEF Precedes
    <2>4. i \in 1..Len(order) /\ order[i] = a
      BY <1>7, <2>1, <2>3
    <2>5. CASE b = n
      <3>1. k = Len(order) + 1
        <4>1. ASSUME k \in 1..Len(order) PROVE FALSE
          BY <1>1, <1>7, <2>3, <2>5, <4>1 DEF Waiting
        <4> QED BY <1>7, <2>3, <4>1
      <3> QED BY <1>7, <2>4, <3>1
    <2>6. CASE b # n
      <3>1. k \in 1..Len(order) /\ order[k] = b
        BY <1>7, <2>3, <2>6
      <3>2. expire[a] = expire[b]
        BY <1>5, <2>1, <2>2, <2>6
      <3>3. Precedes(order, a, b)
        BY <1>10, <2>1, <2>6, <3>2 DEF Earlier
      <3> QED BY <1>7, <2>4, <3>1, <3>3 DEF Precedes
    <2> QED BY <2>5, <2>6
  <1>11. ASSUME NEW s \in Slot PROVE Items(list[s]) \subseteq Waiting /\ Follows(list[s], Earlier')
    <2>1. Items(list[s]) \subseteq Waiting
      BY Placed DEF WheelInv
    <2>2. Follows(list[s], Earlier)
      BY DEF WheelInv, InOrder
    <2> QED BY <1>10, <2>1, <2>2 DEF Follows, Items
  <1> DEFINE q == <<n>>
  <1>12. q \in Seq(Node) /\ Len(q) = 1 /\ DOMAIN q = 1..1 /\ q[1] = n
    OBVIOUS
  <1>13. \A s \in Slot : For(s, q, expire', time, Len(q)) = IF s = Place(x, time) THEN {n} ELSE {}
    <2>1. \A j : j \in 1..1 <=> j = 1
      OBVIOUS
    <2> QED BY <1>5, <1>12, <2>1 DEF For
  <1>14. Follows(q, Earlier')
    <2> HIDE DEF q
    <2>1. ASSUME NEW i \in 1..1, NEW k \in 1..1 PROVE ~ (i < k)
      BY <2>1
    <2> QED BY <1>12, <2>1 DEF Follows
  <1> HIDE DEF q
  <1>15. \A s \in Slot : \A m \in Items(list[s]) : \A k \in For(s, q, expire', time, Len(q)) :
           <<m, k>> \in Earlier'
    <2>1. ASSUME NEW s \in Slot, NEW m \in Items(list[s]),
                 NEW k \in For(s, q, expire', time, Len(q))
          PROVE  <<m, k>> \in Earlier'
      <3>1. m \in Waiting
        BY <1>11
      <3>2. k = n
        BY <1>13
      <3> QED BY <1>10, <3>1, <3>2
    <2> QED BY <2>1
  <1>16. list' = Added(list, q, expire', time)
    BY <1>1 DEF q
  <1>17. /\ list' \in [Slot -> Seq(Node)]
         /\ \A s \in Slot : /\ Items(list'[s]) = Items(list[s]) \cup For(s, q, expire', time, Len(q))
                            /\ Follows(list'[s], Earlier')
    <2>1. \A s \in Slot : Follows(list[s], Earlier')
      BY <1>11
    <2>2. Addable(list, q, expire', time, Earlier')
      BY <1>2, <1>6, <1>12, <1>14, <1>15, <2>1 DEF Addable
    <2>3. AddedRight(list', list, q, expire', time, Earlier')
      BY <1>16, <2>2, AddedLists
    <2> QED BY <2>3 DEF AddedRight
  <1>18. TypeOK'
    BY <1>1, <1>2, <1>5, <1>7, <1>17 DEF TypeOK
  <1>19. WellPlaced'
    <2>1. ASSUME NEW s \in Slot
          PROVE  Items(list'[s]) = {m \in Waiting' \ Fired' : s = Place(expire'[m], time)}
      <3>1. Items(list[s]) = {m \in Waiting \ Fired : s = Place(expire[m], time)}
        BY Placed DEF WheelInv
      <3>2. \A m \in Waiting : m # n /\ m \in Node
        BY <1>1, <1>2, WheelTypes
      <3>3. Items(list[s]) = {m \in Waiting \ Fired : s = Place(expire'[m], time)}
        BY <1>5, <3>1, <3>2
      <3>4. Items(list'[s]) = Items(list[s]) \cup (IF s = Place(x, time) THEN {n} ELSE {})
        BY <1>13, <1>17
      <3>5. Waiting' \ Fired' = (Waiting \ Fired) \cup {n} /\ expire'[n] = x
        BY <1>1, <1>5, <1>8, <1>9
      <3> QED BY <3>3, <3>4, <3>5
    <2> QED BY <1>1, <2>1 DEF WellPlaced, Items
  <1>20. InOrder'
    <2>1. Follows(firing, Earlier)
      BY DEF WheelInv, InOrder
    <2>2. Follows(firing, Earlier')
      BY <1>9, <1>10, <2>1 DEF Follows, Fired
    <2> QED BY <1>1, <1>17, <2>2 DEF InOrder
  <1>21. WaitsOnce'
    <2>1. ASSUME NEW i \in DOMAIN order', NEW k \in DOMAIN order', order'[i] = order'[k]
          PROVE  i = k
      <3>1. \A j \in 1..Len(order) : order[j] # n
        BY <1>1, <1>7 DEF Waiting
      <3>2. CASE i \in 1..Len(order) /\ k \in 1..Len(order)
        BY <1>7, <2>1, <3>2 DEF WheelInv, WaitsOnce
      <3>3. CASE i \in 1..Len(order) /\ k = Len(order) + 1
        BY <1>7, <2>1, <3>1, <3>3
      <3>4. CASE i = Len(order) + 1 /\ k \in 1..Len(order)
        BY <1>7, <2>1, <3>1, <3>4
      <3> QED BY <1>7, <2>1, <3>2, <3>3, <3>4
    <2> QED BY <2>1 DEF WaitsOnce
  <1>22. WaitsSoon'
    <2>1. \A m \in Waiting : expire'[m] = expire[m]
      BY <1>1, <1>2, <1>5, WheelTypes
    <2>2. \A m \in Waiting' : Soon(expire'[m], time)
      BY <1>3, <1>5, <1>8, <2>1 DEF WheelInv, WaitsSoon
    <2> QED BY <1>1, <2>2 DEF WaitsSoon, Soon
  <1>23. FiringDue' /\ Turning'
    <2>1. \A m \in Waiting : expire'[m] = expire[m]
      BY <1>1, <1>2, <1>5, WheelTypes
    <2> QED BY <1>1, <1>3, <1>5, <1>8, <1>9, <2>1 DEF WheelInv, FiringDue, Turning
  <1> QED BY <1>3, <1>5, <1>8, <1>18, <1>19, <1>20, <1>21, <1>22, <1>23 DEF WheelInv

\* A sequence without its p-th item.
Without(q, p) == [i \in 1..(Len(q) - 1) |-> IF i < p THEN q[i] ELSE q[i + 1]]

LEMMA WithoutOne ==
  ASSUME NEW q \in Seq(Node), \A i, k \in DOMAIN q : q[i] = q[k] => i = k, NEW p \in DOMAIN q
  PROVE  /\ Without(q, p) \in Seq(Node)
         /\ Items(Without(q, p)) = Items(q) \ {q[p]}
         /\ \A i, k \in DOMAIN Without(q, p) : Without(q, p)[i] = Without(q, p)[k] => i = k
         /\ \A a, b \in Node : Precedes(q, a, b) => Precedes(Without(q, p), a, b)
  <1> DEFINE r == Without(q, p)
             old(i) == IF i < p THEN i ELSE i + 1
  <1>1. PICK n \in Nat : n = Len(q) - 1 /\ DOMAIN q = 1..(n + 1) /\ p \in 1..(n + 1)
    <2>1. Len(q) \in Nat /\ DOMAIN q = 1..Len(q) /\ Len(q) >= 1
      OBVIOUS
    <2>2. Len(q) - 1 \in Nat /\ (Len(q) - 1) + 1 = Len(q)
      BY <2>1
    <2> QED BY <2>1, <2>2
  <1>2. \A i \in 1..n : old(i) \in 1..(n + 1) /\ old(i) # p
    BY <1>1
  <1>3. \A i, k \in 1..n : i < k <=> old(i) < old(k)
    OBVIOUS
  <1>4. \A j \in 1..(n + 1) : j # p => \E i \in 1..n : old(i) = j
    <2>1. ASSUME NEW j \in 1..(n + 1), j # p PROVE \E i \in 1..n : old(i) = j
      <3>1. CASE j < p
        <4>1. j \in 1..n /\ old(j) = j
          BY <1>1, <3>1
        <4> QED BY <4>1
      <3>2. CASE ~ j < p
        <4>1. j - 1 \in 1..n /\ old(j - 1) = j
          BY <1>1, <2>1, <3>2
        <4> QED BY <4>1
      <3> QED BY <3>1, <3>2
    <2> QED BY <2>1
  <1>5. r = [i \in 1..n |-> q[old(i)]]
    BY <1>1 DEF Without
  <1>6. \A i \in 1..n : r[i] = q[old(i)] /\ r[i] \in Node
    <2>1. \A j \in 1..(n + 1) : q[j] \in Node
      BY <1>1
    <2> HIDE DEF r
    <2>2. \A i \in 1..n : r[i] = q[old(i)]
      BY <1>5
    <2> QED BY <1>2, <2>1, <2>2
  <1> HIDE DEF old
  <1>7. DOMAIN r = 1..n
    BY <1>5
  <1>8. r \in Seq(Node)
    <2> HIDE DEF r
    <2>1. r = [i \in 1..n |-> r[i]]
      BY <1>5
    <2>2. r \in [1..n -> Node]
      BY <1>6, <2>1
    <2> QED BY <2>2
  <1> HIDE DEF r
  <1>9. Items(r) = Items(q) \ {q[p]}
    <2>1. ASSUME NEW x \in Items(r) PROVE x \in Items(q) /\ x # q[p]
      <3>1. PICK i \in 1..n : x = r[i]
        BY <1>7 DEF Items
      <3> QED BY <1>1, <1>2, <1>6, <3>1 DEF Items
    <2>2. ASSUME NEW x \in Items(q), x # q[p] PROVE x \in Items(r)
      <3>1. PICK j \in 1..(n + 1) : x = q[j]
        BY <1>1 DEF Items
      <3>2. PICK i \in 1..n : old(i) = j
        BY <1>4, <2>2, <3>1
      <3> QED BY <1>6, <1>7, <3>1, <3>2 DEF Items
    <2> QED BY <2>1, <2>2
  <1>10. ASSUME NEW i \in 1..n, NEW k \in 1..n, r[i] = r[k] PROVE i = k
    <2>1. old(i) = old(k)
      BY <1>1, <1>2, <1>6, <1>10
    <2>2. ~ (i < k) /\ ~ (k < i)
      <3>1. old(i) \in 1..(n + 1)
        BY <1>2
      <3> QED BY <1>3, <2>1, <3>1
    <2> QED BY <2>2
  <1>11. ASSUME NEW a \in Node, NEW b \in Node, Precedes(q, a, b) PROVE Precedes(r, a, b)
    <2>1. ASSUME NEW i \in 1..n, NEW k \in 1..n, r[i] = a, r[k] = b PROVE i < k
      <3>1. old(i) < old(k)
        BY <1>1, <1>2, <1>6, <1>11, <2>1 DEF Precedes
      <3> QED BY <1>3, <3>1
    <2> QED BY <1>7, <2>1 DEF Precedes
  <1> QED BY <1>7, <1>8, <1>9, <1>10, <1>11 DEF r

\* dispatch_list, one node.
LEMMA DispatchStep ==
  ASSUME WheelInv, Dispatch
  PROVE  /\ WheelInv'
         /\ \E p \in DOMAIN order :
              /\ order[p] = Head(firing) /\ order' = Without(order, p)
              /\ \A i \in 1..(p - 1) : expire[order[i]] # time
  <1> DEFINE h == Head(firing)
  <1>1. /\ firing # <<>> /\ firing' = Tail(firing)
        /\ expire' = [expire EXCEPT ![h] = 0]
        /\ UNCHANGED <<time, list, pc, current, left>>
    BY DEF Dispatch
  <1>2. TypeOK /\ order \in Seq(Node) /\ firing \in Seq(Node) /\ expire \in [Node -> 0..(Ticks - 1)]
    BY DEF WheelInv, TypeOK
  <1>3. PICK n \in Nat : Len(firing) = n + 1 /\ DOMAIN firing = 1..(n + 1) /\ h = firing[1]
                         /\ Len(firing') = n /\ DOMAIN firing' = 1..n /\ firing' \in Seq(Node)
                         /\ \A i \in 1..n : firing'[i] = firing[i + 1]
    <2>1. Len(firing) \in Nat /\ Len(firing) >= 1
      BY <1>1, <1>2
    <2>2. PICK m \in Nat : m = Len(firing) - 1
      BY <2>1
    <2>3. Len(firing) = m + 1
      BY <2>1, <2>2
    <2> QED BY <1>1, <1>2, <2>3
  <1> HIDE DEF h
  <1>4. h \in Fired /\ h \in Waiting /\ h \in Node /\ expire[h] = time
    <2>1. h \in Fired
      BY <1>3 DEF Fired
    <2> QED BY <1>2, <2>1, WheelTypes DEF WheelInv, FiringDue
  <1>5. PICK p \in DOMAIN order : order[p] = h
    BY <1>4 DEF Waiting
  <1>6. \A i \in DOMAIN order : order[i] = h => i = p
    BY <1>5 DEF WheelInv, WaitsOnce
  <1>7. order' = Without(order, p)
    <2>1. p = CHOOSE i \in DOMAIN order : order[i] = h
      BY <1>5, <1>6
    <2> QED BY <2>1 DEF Dispatch, Without, h
  <1>8. /\ order' \in Seq(Node) /\ Waiting' = Waiting \ {h}
        /\ WaitsOnce'
        /\ \A a, b \in Node : Precedes(order, a, b) => Precedes(order', a, b)
    <2>1. \A i, k \in DOMAIN order : order[i] = order[k] => i = k
      BY DEF WheelInv, WaitsOnce
    <2>2. PICK q \in Seq(Node) : q = order
      BY <1>2
    <2>3. /\ Without(q, p) \in Seq(Node)
          /\ Items(Without(q, p)) = Items(q) \ {q[p]}
          /\ \A i, k \in DOMAIN Without(q, p) : Without(q, p)[i] = Without(q, p)[k] => i = k
          /\ \A a, b \in Node : Precedes(q, a, b) => Precedes(Without(q, p), a, b)
      BY <2>1, <2>2, WithoutOne
    <2>4. order' = Without(q, p) /\ q[p] = h
      BY <1>5, <1>7, <2>2
    <2>5. /\ order' \in Seq(Node) /\ Items(order') = Items(q) \ {h}
          /\ \A i, k \in DOMAIN order' : order'[i] = order'[k] => i = k
          /\ \A a, b \in Node : Precedes(q, a, b) => Precedes(order', a, b)
      BY <2>3, <2>4
    <2>6. Waiting' = Waiting \ {h}
      BY <2>2, <2>5 DEF Items, Waiting
    <2>7. WaitsOnce'
      BY <2>5 DEF WaitsOnce
    <2> QED BY <2>2, <2>5, <2>6, <2>7
  <1>9. /\ expire' \in [Node -> 0..(Ticks - 1)]
        /\ \A m \in Node : m # h => expire'[m] = expire[m]
    <2>1. 0 \in 0..(Ticks - 1)
      BY TopLevel
    <2> QED BY <1>1, <1>2, <1>4, <2>1
  <1>10. \A i, k \in 1..(n + 1) : i < k => <<firing[i], firing[k]>> \in Earlier
    <2>1. Follows(firing, Earlier)
      BY DEF WheelInv, InOrder
    <2> QED BY <1>3, <2>1 DEF Follows
  <1>11. \A i, k \in 1..(n + 1) : i < k => Precedes(order, firing[i], firing[k])
    <2>1. \A i \in 1..(n + 1) : firing[i] \in Fired /\ firing[i] \in Node /\ expire[firing[i]] = time
      <3>1. \A i \in 1..(n + 1) : firing[i] \in Fired
        BY <1>3 DEF Fired
      <3> QED BY <1>2, <3>1, WheelTypes DEF WheelInv, FiringDue
    <2>2. ASSUME NEW i \in 1..(n + 1), NEW k \in 1..(n + 1), i < k
          PROVE  Precedes(order, firing[i], firing[k])
      BY <1>10, <2>1, <2>2 DEF Earlier
    <2> QED BY <2>2
  <1>12. \A i \in 1..(n + 1) : i # 1 => firing[i] # h
    <2>1. ASSUME NEW i \in 1..(n + 1), i # 1, firing[i] = h PROVE FALSE
      <3>1. 1 \in 1..(n + 1) /\ 1 < i
        BY <2>1
      <3>2. Precedes(order, h, h)
        BY <1>3, <1>11, <2>1, <3>1
      <3>3. p < p /\ p \in Nat
        BY <1>2, <1>5, <3>2 DEF Precedes
      <3> QED BY <3>3
    <2> QED BY <2>1
  <1>13. Fired' = Fired \ {h}
    <2>1. \A i \in 1..n : i + 1 \in 1..(n + 1) /\ i + 1 # 1
      OBVIOUS
    <2>2. \A i \in 1..(n + 1) : i # 1 => i - 1 \in 1..n /\ (i - 1) + 1 = i
      OBVIOUS
    <2>3. Fired = {firing[i] : i \in 1..(n + 1)} /\ Fired' = {firing'[i] : i \in 1..n}
      BY <1>3 DEF Fired
    <2>4. ASSUME NEW m \in Fired' PROVE m \in Fired \ {h}
      <3>1. PICK i \in 1..n : m = firing'[i]
        BY <2>3
      <3> QED BY <1>3, <1>12, <2>1, <2>3, <3>1
    <2>5. ASSUME NEW m \in Fired \ {h} PROVE m \in Fired'
      <3>1. PICK i \in 1..(n + 1) : m = firing[i]
        BY <2>3
      <3>2. i # 1
        BY <1>3, <2>5, <3>1
      <3>3. m = firing'[i - 1] /\ i - 1 \in 1..n
        BY <1>3, <2>2, <3>1, <3>2
      <3> QED BY <2>3, <3>3
    <2> QED BY <2>4, <2>5
  <1>14. ASSUME NEW a \in Node, NEW b \in Node, a # h, b # h, <<a, b>> \in Earlier
         PROVE  <<a, b>> \in Earlier'
    BY <1>8, <1>9, <1>14 DEF Earlier
  <1>15. \A s \in Slot : Items(list[s]) \subseteq Waiting \ Fired
    BY Placed DEF WheelInv
  <1>16. TypeOK'
    BY <1>1, <1>2, <1>3, <1>8, <1>9 DEF TypeOK
  <1>17. WellPlaced'
    <2>1. ASSUME NEW s \in Slot
          PROVE  Items(list'[s]) = {m \in Waiting' \ Fired' : s = Place(expire'[m], time)}
      <3>1. Items(list[s]) = {m \in Waiting \ Fired : s = Place(expire[m], time)}
        BY Placed DEF WheelInv
      <3>2. Waiting' \ Fired' = Waiting \ Fired
        BY <1>4, <1>8, <1>13
      <3>3. \A m \in Waiting \ Fired : expire'[m] = expire[m]
        BY <1>2, <1>4, <1>9, WheelTypes
      <3> QED BY <1>1, <3>1, <3>2, <3>3
    <2> QED BY <1>1, <2>1 DEF WellPlaced, Items
  <1>18. InOrder'
    <2>1. ASSUME NEW s \in Slot, NEW i \in DOMAIN list[s], NEW k \in DOMAIN list[s], i < k
          PROVE  <<list[s][i], list[s][k]>> \in Earlier'
      <3>1. list[s][i] \in Waiting \ Fired /\ list[s][k] \in Waiting \ Fired
        BY <1>15 DEF Items
      <3>2. <<list[s][i], list[s][k]>> \in Earlier
        BY <2>1 DEF WheelInv, InOrder, Follows
      <3> QED BY <1>2, <1>4, <1>14, <3>1, <3>2, WheelTypes
    <2>2. ASSUME NEW i \in 1..n, NEW k \in 1..n, i < k
          PROVE  <<firing'[i], firing'[k]>> \in Earlier'
      <3>1. i + 1 \in 1..(n + 1) /\ k + 1 \in 1..(n + 1) /\ i + 1 < k + 1 /\ i + 1 # 1 /\ k + 1 # 1
        BY <2>2
      <3>2. firing[i + 1] \in Node /\ firing[k + 1] \in Node
        BY <1>2, <1>3, <3>1
      <3> QED BY <1>3, <1>10, <1>12, <1>14, <3>1, <3>2
    <2> QED BY <1>1, <1>3, <2>1, <2>2 DEF InOrder, Follows
  <1>19. WaitsSoon' /\ FiringDue' /\ Turning'
    <2>1. \A m \in Waiting' : m \in Waiting /\ expire'[m] = expire[m]
      BY <1>2, <1>8, <1>9, WheelTypes
    <2>2. \A m \in Waiting' : Soon(expire'[m], time)
      BY <2>1 DEF WheelInv, WaitsSoon
    <2>3. \A m \in Fired' : m \in Waiting' /\ expire'[m] = time
      BY <1>8, <1>13, <2>1 DEF WheelInv, FiringDue
    <2>4. \A m \in Waiting' : expire'[m] = time => m \in Fired'
      BY <1>1, <1>8, <1>13, <2>1 DEF WheelInv, FiringDue
    <2>5. WaitsSoon'
      BY <1>1, <2>2 DEF WaitsSoon, Soon
    <2>6. FiringDue'
      BY <1>1, <2>3, <2>4 DEF WheelInv, FiringDue
    <2> QED BY <1>1, <2>5, <2>6 DEF WheelInv, Turning
  <1>20. ASSUME NEW i \in 1..(p - 1), expire[order[i]] = time PROVE FALSE
    <2>1. i \in DOMAIN order /\ i < p /\ i \in Nat /\ p \in Nat
      BY <1>2, <1>5
    <2>2. order[i] \in Waiting
      BY <2>1 DEF Waiting
    <2>3. order[i] \in Fired
      BY <1>1, <1>20, <2>2 DEF WheelInv, FiringDue
    <2>4. PICK k \in 1..(n + 1) : order[i] = firing[k]
      BY <1>3, <2>3 DEF Fired
    <2>5. k # 1
      BY <1>3, <1>6, <2>1, <2>4
    <2>6. Precedes(order, h, order[i])
      <3>1. 1 \in 1..(n + 1) /\ 1 < k
        BY <2>5
      <3> QED BY <1>3, <1>11, <2>4, <3>1
    <2>7. p < i
      BY <1>5, <2>1, <2>6 DEF Precedes
    <2> QED BY <2>1, <2>7
  <1> QED BY <1>5, <1>7, <1>8, <1>16, <1>17, <1>18, <1>19, <1>20 DEF WheelInv, h

\* timer_shift and the end of the turn that comes before it.
LEMMA ShiftStep ==
  ASSUME WheelInv, TimerShift
  PROVE  WheelInv' /\ \A n \in Waiting : expire[n] # time
  <1> DEFINE u == (time + 1) % Ticks
  <1>1. /\ pc = "try" /\ firing = <<>> /\ list[Now] = <<>> /\ pc' = "execute"
        /\ time' = u /\ list' = Moved(u)
        /\ UNCHANGED <<expire, firing, current, left, order>>
    BY DEF TimerShift
  <1>2. /\ TypeOK /\ WellPlaced /\ time \in 0..(Ticks - 1) /\ expire \in [Node -> 0..(Ticks - 1)]
        /\ list \in [Slot -> Seq(Node)]
    BY DEF WheelInv, TypeOK
  <1>3. u = IF time = Ticks - 1 THEN 0 ELSE time + 1
    BY <1>2, NextTick
  <1>4. u \in 0..(Ticks - 1) /\ u \in Nat /\ expire \in [Node -> Nat]
    BY <1>2, <1>3, TopLevel, WheelTypes
  <1> HIDE DEF u
  <1>5. Fired = {} /\ Fired' = {} /\ Waiting' = Waiting /\ Waiting \subseteq Node /\ Earlier' = Earlier
    BY <1>1, <1>2, WheelTypes DEF Fired, Waiting, Earlier
  <1>6. ASSUME NEW n \in Waiting PROVE expire[n] # time
    <2>1. Items(list[Now]) = {}
      BY <1>1 DEF Items
    <2> QED BY <1>2, <1>5, <2>1, NowHolds
  <1>7. ASSUME NEW n \in Waiting, Place(expire[n], time) \notin Cascade(u)
        PROVE  Place(expire[n], u) = Place(expire[n], time)
    <2>1. expire[n] \in 0..(Ticks - 1) /\ expire[n] # time /\ Soon(expire[n], time)
      BY <1>2, <1>5, <1>6 DEF WheelInv, WaitsSoon
    <2> QED BY <1>2, <1>7, <2>1, StaysPlaced DEF u
  <1>8. \A s \in Slot : /\ Items(list[s]) = {n \in Waiting : s = Place(expire[n], time)}
                        /\ Follows(list[s], Earlier)
    BY <1>2, <1>5, Placed DEF WheelInv, InOrder
  <1>9. /\ list' \in [Slot -> Seq(Node)]
        /\ \A s \in Slot : /\ Items(list'[s]) = {n \in Waiting : s = Place(expire[n], u)}
                           /\ Follows(list'[s], Earlier)
    <2>1. CASE Cascade(u) = {}
      <3>1. list' = list
        BY <1>1, <2>1 DEF Moved
      <3>2. \A n \in Waiting : Place(expire[n], u) = Place(expire[n], time)
        BY <1>7, <2>1
      <3> QED BY <1>2, <1>8, <3>1, <3>2
    <2>2. CASE Cascade(u) # {}
      <3>1. PICK f \in Slot : Cascade(u) = {f}
        BY <1>4, <2>2, CascadeIsSlot
      <3> DEFINE kept == [s \in Slot |-> IF s \in {f} THEN <<>> ELSE list[s]]
                 nodes == list[f]
                 fill(s) == For(s, nodes, expire, u, Len(nodes))
      <3>2. list' = Added(kept, nodes, expire, u)
        <4>1. (CHOOSE s \in {f} : TRUE) = f
          OBVIOUS
        <4> QED BY <1>1, <2>2, <3>1, <4>1 DEF Moved
      <3>3. nodes \in Seq(Node) /\ kept \in [Slot -> Seq(Node)]
        <4>1. <<>> \in Seq(Node) /\ \A s \in Slot : list[s] \in Seq(Node)
          BY <1>2
        <4> QED BY <4>1
      <3>4. \A s \in Slot : kept[s] = IF s = f THEN <<>> ELSE list[s]
        OBVIOUS
      <3>5. \A s \in Slot : fill(s) = {n \in Waiting : f = Place(expire[n], time)
                                                       /\ s = Place(expire[n], u)}
        <4>1. ASSUME NEW s \in Slot
              PROVE  fill(s) = {n \in Items(nodes) : s = Place(expire[n], u)}
          <5>1. DOMAIN nodes = 1..Len(nodes)
            BY <3>3
          <5> HIDE DEF nodes
          <5> QED BY <5>1 DEF For, Items
        <4>2. Items(nodes) = {n \in Waiting : f = Place(expire[n], time)}
          BY <1>8
        <4> HIDE DEF fill, nodes
        <4> QED BY <4>1, <4>2
      <3>6. \A s \in Slot : /\ Items(kept[s]) = {n \in Waiting : s = Place(expire[n], time) /\ s # f}
                            /\ Follows(kept[s], Earlier)
        <4> HIDE DEF kept
        <4>1. Items(<<>>) = {} /\ Follows(<<>>, Earlier)
          BY DEF Items, Follows
        <4> QED BY <1>8, <3>4, <4>1
      <3>7. Follows(nodes, Earlier)
        BY <1>8
      <3> HIDE DEF kept, nodes, fill
      <3>8. ASSUME NEW s \in Slot, NEW m \in Items(kept[s]), NEW n \in fill(s)
            PROVE  <<m, n>> \in Earlier
        <4>1. m \in Waiting /\ n \in Waiting /\ Place(expire[m], time) # Place(expire[n], time)
          BY <3>5, <3>6
        <4>2. expire[m] # expire[n] /\ m \in Node /\ n \in Node
          BY <1>5, <4>1
        <4> QED BY <4>2 DEF Earlier
      <3>9. Addable(kept, nodes, expire, u, Earlier)
        BY <1>4, <3>3, <3>6, <3>7, <3>8 DEF Addable, fill
      <3>10. AddedRight(list', kept, nodes, expire, u, Earlier)
        BY <3>2, <3>9, AddedLists
      <3>11. ASSUME NEW s \in Slot
             PROVE  Items(list'[s]) = {n \in Waiting : s = Place(expire[n], u)}
        <4>1. Items(list'[s]) = Items(kept[s]) \cup fill(s)
          BY <3>10 DEF AddedRight, fill
        <4>2. \A n \in Waiting : Place(expire[n], time) # f
                                   => Place(expire[n], u) = Place(expire[n], time)
          BY <1>7, <3>1
        <4> QED BY <3>5, <3>6, <4>1, <4>2
      <3> QED BY <3>10, <3>11 DEF AddedRight
    <2> QED BY <2>1, <2>2
  <1>10. TypeOK'
    BY <1>1, <1>2, <1>4, <1>9 DEF TypeOK
  <1>11. WellPlaced'
    BY <1>1, <1>5, <1>9 DEF WellPlaced, Items
  <1>12. InOrder'
    BY <1>1, <1>5, <1>9 DEF WheelInv, InOrder
  <1>13. ASSUME NEW n \in Waiting PROVE Soon(expire[n], u)
    <2>1. PICK T \in Nat \ {0}, h \in Nat : T = Ticks /\ h = Ticks \div 2 /\ 2 * h <= T
      BY TopLevel
    <2>2. time \in Nat /\ time < T /\ expire[n] \in Nat /\ expire[n] < T /\ expire[n] # time
      BY <1>2, <1>5, <1>6, <2>1, WheelTypes
    <2>3. IF expire[n] >= time THEN expire[n] - time < h ELSE expire[n] + T - time < h
      BY <2>1 DEF WheelInv, WaitsSoon, Soon
    <2>4. u = IF time = T - 1 THEN 0 ELSE time + 1
      BY <1>3, <2>1
    <2>5. PICK x \in Nat, t \in Nat : x = expire[n] /\ t = time
      BY <2>2
    <2>6. IF x >= u THEN x - u < h ELSE x + T - u < h
      BY <2>1, <2>2, <2>3, <2>4, <2>5
    <2> QED BY <2>1, <2>5, <2>6 DEF Soon
  <1>14. WaitsOnce' /\ WaitsSoon' /\ FiringDue' /\ Turning'
    <2>1. WaitsSoon'
      BY <1>1, <1>5, <1>13 DEF WaitsSoon, Soon
    <2>2. WaitsOnce'
      BY <1>1 DEF WheelInv, WaitsOnce
    <2>3. FiringDue' /\ Turning'
      BY <1>1, <1>5 DEF WheelInv, FiringDue, Turning
    <2> QED BY <2>1, <2>2, <2>3
  <1> QED BY <1>6, <1>10, <1>11, <1>12, <1>14 DEF WheelInv

LEMMA WheelStep == WheelInv /\ [Next]_vars => WheelInv'
  <1>1. SUFFICES ASSUME WheelInv, [Next]_vars PROVE WheelInv'
    OBVIOUS
  <1>2. CASE TimerThread
    <2>1. CASE TakeList
      BY <1>1, <2>1, TakeStep
    <2>2. CASE Dispatch
      BY <1>1, <2>2, DispatchStep
    <2>3. CASE TimerShift
      BY <1>1, <2>3, ShiftStep
    <2>4. CASE (\E diff \in 1..MaxLag : UpdateTime(diff)) \/ TimerUpdate \/ EndUpdate
      BY <1>1, <2>4, QuietStep
    <2> QED BY <1>2, <2>1, <2>2, <2>3, <2>4 DEF TimerThread
  <1>3. CASE \E n \in Node, delay \in 1..(Ticks \div 2 - 1) : TimerAdd(n, delay)
    BY <1>1, <1>3, AddStep
  <1>4. CASE UNCHANGED vars
    <2>1. UNCHANGED <<time, list, expire, firing, order>> /\ UNCHANGED <<pc, current, left>>
      BY <1>4 DEF vars
    <2>2. WellPlaced' /\ InOrder' /\ WaitsOnce' /\ WaitsSoon' /\ Waiting' = Waiting /\ Fired' = Fired
      BY <1>1, <2>1, NodesUntouched DEF WheelInv
    <2> QED BY <1>1, <2>1, <2>2 DEF WheelInv, TypeOK, FiringDue, Turning
  <1> QED BY <1>1, <1>2, <1>3, <1>4 DEF Next

\* The invariant of the wheel, for any number of timeouts, any sizes of its
\* levels and any lag: what timer_add and move_list do to the lists is right.
THEOREM WheelInvariance == Spec => []WheelInv
  <1> QED BY WheelInit, WheelStep, PTL DEF Spec

\* Types: in particular no node is ever in a list that does not exist.
THEOREM WheelTyped == Spec => []TypeOK
  <1>1. WheelInv => TypeOK
    BY DEF WheelInv
  <1> QED BY <1>1, WheelInvariance, PTL

\* Every node that waits is in the one list in which add_node would put it
\* now: timer_shift moves what has to be moved, and at the right time.
THEOREM WheelWellPlaced == Spec => []WellPlaced
  <1>1. WheelInv => WellPlaced
    BY DEF WheelInv
  <1> QED BY <1>1, WheelInvariance, PTL

-----------------------------------------------------------------------------
(* The timing wheel: the two clocks                                        *)

LEMMA ModOfSum ==
  ASSUME NEW T \in Nat \ {0}, NEW a \in Nat, NEW d \in Nat
  PROVE  ((a % T) + d) % T = (a + d) % T /\ a % T \in Nat /\ (a + T) % T = a % T
  <1>1. PICK q \in Nat, r \in 0..(T - 1) : r = a % T /\ a = (q * T) + r
    BY Dividing
  <1>2. PICK p \in Nat, s \in 0..(T - 1) : s = (r + d) % T /\ r + d = (p * T) + s
    <2>1. r + d \in Nat
      BY <1>1
    <2> QED BY <2>1, Dividing
  <1>3. PICK u \in Nat, v \in Nat : u = q * T /\ v = p * T
    <2>1. q * T \in Nat /\ p * T \in Nat
      OBVIOUS
    <2> QED BY <2>1
  <1>4. a = u + r /\ r + d = v + s
    BY <1>1, <1>2, <1>3
  <1>5. (a + d) % T = s
    <2>1. PICK k \in Nat : k = q + p
      OBVIOUS
    <2>2. k * T = u + v
      <3>1. (q + p) * T = (q * T) + (p * T)
        OBVIOUS
      <3> QED BY <1>3, <2>1, <3>1
    <2>3. a + d = (u + v) + s
      BY <1>4
    <2>4. a + d = (k * T) + s
      BY <2>2, <2>3
    <2> QED BY <2>4, QuotientIs
  <1>6. (a + T) % T = r
    <2>1. PICK k \in Nat : k = q + 1
      OBVIOUS
    <2>2. k * T = u + T
      <3>1. (q + 1) * T = (q * T) + T
        OBVIOUS
      <3> QED BY <1>3, <2>1, <3>1
    <2>3. a + T = (u + T) + r
      BY <1>4
    <2>4. a + T = (k * T) + r
      BY <2>2, <2>3
    <2> QED BY <2>4, QuotientIs
  <1>7. (a % T) + d = r + d /\ a % T \in Nat
    BY <1>1
  <1>8. ((a % T) + d) % T = s
    BY <1>2, <1>7
  <1> QED BY <1>1, <1>5, <1>6, <1>7, <1>8

\* Numbers that T does not tell apart, and the same with d more.
Congruent(T, a, b) == a % T = b % T

LEMMA ModPlus ==
  ASSUME NEW T \in Nat \ {0}, NEW a \in Nat, NEW b \in Nat, NEW d \in Nat, Congruent(T, a, b)
  PROVE  Congruent(T, a + d, b + d)
  <1>1. ((a % T) + d) % T = (a + d) % T
    BY ModOfSum
  <1>2. ((b % T) + d) % T = (b + d) % T
    BY ModOfSum
  <1> QED BY <1>1, <1>2 DEF Congruent

LEMMA ModCancel ==
  ASSUME NEW T \in Nat \ {0}, NEW a \in Nat, NEW b \in Nat, Congruent(T, a + 1, b + 1)
  PROVE  Congruent(T, a, b)
  <1>1. T - 1 \in Nat /\ a + 1 \in Nat /\ b + 1 \in Nat
    OBVIOUS
  <1>2. Congruent(T, (a + 1) + (T - 1), (b + 1) + (T - 1))
    BY <1>1, ModPlus, Zenon
  <1>3. (a + 1) + (T - 1) = a + T /\ (b + 1) + (T - 1) = b + T
    OBVIOUS
  <1>4. Congruent(T, a + T, b + T)
    BY <1>2, <1>3, Zenon
  <1>5. (a + T) % T = a % T
    BY ModOfSum
  <1>6. (b + T) % T = b % T
    BY ModOfSum
  <1> QED BY <1>4, <1>5, <1>6 DEF Congruent

LEMMA ClockInit == Init => ClockCoherent
  BY DEF Init, ClockCoherent

LEMMA ClockStep == TypeOK /\ Turning /\ ClockCoherent /\ [Next]_vars => ClockCoherent'
  <1>1. SUFFICES ASSUME TypeOK, Turning, ClockCoherent, [Next]_vars PROVE ClockCoherent'
    OBVIOUS
  <1>2. PICK T \in Nat \ {0} : T = Ticks
    BY TopLevel
  <1>3. time \in Nat /\ current \in Nat /\ left \in Nat
    BY <1>1, <1>2, TimerAssumption DEF TypeOK
  <1>4. PICK t \in Nat, c \in Nat, l \in Nat : t = time /\ c = current /\ l = left
    BY <1>3
  <1>5. (t + l) % T = (c + IF pc = "execute" THEN 1 ELSE 0) % T
    BY <1>1, <1>2, <1>4 DEF ClockCoherent
  <1>6. CASE \E diff \in 1..MaxLag : UpdateTime(diff)
    <2>1. PICK diff \in 1..MaxLag : UpdateTime(diff)
      BY <1>6
    <2>2. diff \in Nat
      BY TimerAssumption
    <2>3. t % T = c % T
      BY <1>4, <1>5, <2>1 DEF UpdateTime
    <2>4. (t + diff) % T = (c + diff) % T
      <3>1. Congruent(T, t, c)
        BY <2>3 DEF Congruent
      <3>2. Congruent(T, t + diff, c + diff)
        BY <2>2, <3>1, ModPlus, Zenon
      <3> QED BY <3>2 DEF Congruent
    <2>5. ((c + diff) % T) % T = (c + diff) % T
      <3>1. c + diff \in Nat
        BY <2>2
      <3>2. (((c + diff) % T) + 0) % T = ((c + diff) + 0) % T /\ (c + diff) % T \in Nat
        BY <3>1, ModOfSum
      <3> QED BY <3>1, <3>2
    <2>6. time' = t /\ left' = diff /\ current' = (c + diff) % T /\ pc' = "idle"
      BY <1>2, <1>4, <2>1 DEF UpdateTime
    <2>7. ((c + diff) % T) + 0 = (c + diff) % T
      <3>1. c + diff \in Nat
        BY <2>2
      <3>2. (c + diff) % T \in Nat
        BY <3>1, ModOfSum
      <3> QED BY <3>2
    <2> QED BY <1>2, <2>4, <2>5, <2>6, <2>7 DEF ClockCoherent
  <1>7. CASE TimerShift
    <2>1. time' = (t + 1) % T /\ left' = l /\ current' = c /\ pc = "try" /\ pc' = "execute"
      BY <1>2, <1>4, <1>7 DEF TimerShift
    <2>2. (t + l) % T = c % T
      BY <1>5, <2>1
    <2>3. PICK k \in Nat : k = t + l
      OBVIOUS
    <2>4. (k + 1) % T = (c + 1) % T
      <3>1. Congruent(T, k, c)
        BY <2>2, <2>3, Zenon DEF Congruent
      <3>2. 1 \in Nat
        OBVIOUS
      <3>3. Congruent(T, k + 1, c + 1)
        BY <3>1, <3>2, ModPlus, Zenon
      <3> QED BY <3>3 DEF Congruent
    <2>5. (((t + 1) % T) + l) % T = ((t + 1) + l) % T
      <3>1. t + 1 \in Nat
        OBVIOUS
      <3> QED BY <3>1, ModOfSum
    <2>6. (t + 1) + l = k + 1
      BY <2>3
    <2>7. (((t + 1) % T) + l) % T = (c + 1) % T
      BY <2>4, <2>5, <2>6
    <2> QED BY <1>2, <2>1, <2>7 DEF ClockCoherent
  <1>8. CASE EndUpdate
    <2>1. time' = t /\ current' = c /\ left' = l - 1 /\ pc = "execute" /\ pc' = "idle" /\ l > 0
      BY <1>1, <1>4, <1>8 DEF EndUpdate, Turning
    <2>2. PICK m \in Nat : l = m + 1 /\ left' = m
      BY <2>1
    <2>3. ((t + m) + 1) % T = (c + 1) % T
      <3>1. t + l = (t + m) + 1
        BY <2>2
      <3> QED BY <1>5, <2>1, <3>1
    <2>4. (t + m) % T = c % T
      <3>1. t + m \in Nat
        OBVIOUS
      <3>2. Congruent(T, (t + m) + 1, c + 1)
        BY <2>3 DEF Congruent
      <3>3. Congruent(T, t + m, c)
        BY <3>1, <3>2, ModCancel, Zenon
      <3> QED BY <3>3 DEF Congruent
    <2> QED BY <1>2, <2>1, <2>2, <2>4 DEF ClockCoherent
  <1>9. CASE TimerUpdate
    BY <1>1, <1>9 DEF TimerUpdate, ClockCoherent
  <1>10. ASSUME UNCHANGED <<time, left, current, pc>> PROVE ClockCoherent'
    BY <1>1, <1>10 DEF ClockCoherent
  <1>11. TakeList \/ Dispatch \/ (\E n \in Node, d \in 1..(Ticks \div 2 - 1) : TimerAdd(n, d))
           \/ UNCHANGED vars => UNCHANGED <<time, left, current, pc>>
    BY DEF TakeList, Dispatch, TimerAdd, vars
  <1> QED BY <1>1, <1>6, <1>7, <1>8, <1>9, <1>10, <1>11 DEF Next, TimerThread

\* TI->current is ahead of T->time by the turns that skynet_updatetime still
\* has to make, also when both wrap around.
THEOREM ClocksAgree == Spec => []ClockCoherent
  <1>1. WheelInv => TypeOK /\ Turning
    BY DEF WheelInv
  <1> QED BY <1>1, ClockInit, ClockStep, WheelInvariance, PTL DEF Spec

-----------------------------------------------------------------------------
(* The timing wheel is an alarm clock                                      *)

\* timer_add sets an alarm.
LEMMA AddSets ==
  ASSUME WheelInv, NEW n \in Node, NEW delay \in 1..(Ticks \div 2 - 1), TimerAdd(n, delay)
  PROVE  Clock!Set(n)
  <1>1. n \notin Clock!Pending
    BY DEF TimerAdd, Waiting, Clock!Pending
  <1> QED BY <1>1 DEF TimerAdd, Clock!Set

\* What dispatch_list sends is the oldest alarm that is due.
LEMMA DispatchRings == ASSUME WheelInv, Dispatch PROVE \E n \in Node : Clock!Ring(n)
  <1>1. PICK p \in DOMAIN order : /\ order[p] = Head(firing) /\ order' = Without(order, p)
                                  /\ \A i \in 1..(p - 1) : expire[order[i]] # time
    BY DispatchStep
  <1>2. PICK h \in Node : h = Head(firing) /\ h \in Fired
    <2>1. firing \in Seq(Node) /\ firing # <<>>
      BY DEF WheelInv, TypeOK, Dispatch
    <2>2. Head(firing) = firing[1] /\ 1 \in DOMAIN firing /\ firing[1] \in Node
      BY <2>1
    <2> QED BY <2>2 DEF Fired
  <1>3. h \in Waiting /\ expire[h] = time
    BY <1>2 DEF WheelInv, FiringDue
  <1>4. order \in Seq(Node) /\ DOMAIN order \subseteq Nat /\ p \in Nat
    BY DEF WheelInv, TypeOK
  <1> DEFINE P(i) == expire[order[i]] = time /\ \A k \in 1..(i - 1) : expire[order[k]] # time
  <1>5. P(p)
    BY <1>1, <1>2, <1>3
  <1>6. ASSUME NEW i \in DOMAIN order, P(i) PROVE i = p
    <2>1. i \in Nat /\ i >= 1 /\ p >= 1
      BY <1>4
    <2>2. ~ (i < p)
      <3>1. i < p => i \in 1..(p - 1)
        BY <1>4, <2>1
      <3> QED BY <1>1, <1>6, <3>1
    <2>3. ~ (p < i)
      <3>1. p < i => p \in 1..(i - 1)
        BY <1>4, <2>1
      <3> QED BY <1>5, <1>6, <3>1
    <2> QED BY <1>4, <2>1, <2>2, <2>3
  <1> HIDE DEF P
  <1>7. p = CHOOSE i \in DOMAIN order : P(i)
    BY <1>5, <1>6
  <1>8. Clock!Ring(h)
    <2>1. h \in Clock!Pending
      BY <1>3 DEF Waiting, Clock!Pending
    <2>2. expire' = [expire EXCEPT ![h] = 0] /\ time' = time
      BY <1>2 DEF Dispatch
    <2>3. p = CHOOSE i \in DOMAIN order :
                expire[order[i]] = time /\ \A k \in 1..(i - 1) : expire[order[k]] # time
      BY <1>7 DEF P
    <2>4. order' = [i \in 1..(Len(order) - 1) |-> IF i < p THEN order[i] ELSE order[i + 1]]
      BY <1>1 DEF Without
    <2>5. order[p] = h
      BY <1>1, <1>2
    <2> QED BY <1>3, <2>1, <2>2, <2>3, <2>4, <2>5 DEF Clock!Ring
  <1> QED BY <1>8

\* The clock shows the next tick only when no alarm of this one is left.
LEMMA ShiftTicks == ASSUME WheelInv, TimerShift PROVE Clock!Tick
  <1>1. \A n \in Waiting : expire[n] # time
    BY ShiftStep
  <1>2. \A n \in Clock!Pending : expire[n] # time
    BY <1>1 DEF Waiting, Clock!Pending
  <1> QED BY <1>2 DEF TimerShift, Clock!Tick

LEMMA WheelSimulates == WheelInv /\ [Next]_vars => [Clock!Next]_<<time, expire, order>>
  <1> SUFFICES ASSUME WheelInv, [Next]_vars
               PROVE  Clock!Next \/ UNCHANGED <<time, expire, order>>
    OBVIOUS
  <1>1. CASE \E n \in Node, delay \in 1..(Ticks \div 2 - 1) : TimerAdd(n, delay)
    BY <1>1, AddSets DEF Clock!Next
  <1>2. CASE Dispatch
    BY <1>2, DispatchRings DEF Clock!Next
  <1>3. CASE TimerShift
    BY <1>3, ShiftTicks DEF Clock!Next
  <1>4. CASE (\E diff \in 1..MaxLag : UpdateTime(diff)) \/ TimerUpdate \/ TakeList \/ EndUpdate
    BY <1>4 DEF UpdateTime, TimerUpdate, TakeList, EndUpdate
  <1>5. CASE UNCHANGED vars
    BY <1>5 DEF vars
  <1> QED BY <1>1, <1>2, <1>3, <1>4, <1>5 DEF Next, TimerThread

LEMMA WheelStarts == Init => Clock!Init
  BY DEF Init, Clock!Init

\* No timeout is lost, early, late or out of order, whatever the cascades, the
\* overflow of the clock and additions during a dispatch: the wheel is an alarm
\* clock (that every alarm rings needs fairness and is left to TLC).
THEOREM WheelIsClock == Spec => Clock!Timely
  <1> QED BY WheelStarts, WheelSimulates, WheelInvariance, PTL
          DEF Spec, Clock!Timely, Clock!clockVars
=============================================================================
