----------------------- MODULE ServiceDispatch_proofs -----------------------
(***************************************************************************)
(* Proofs about ServiceDispatch, for any sets of threads and services: the *)
(* inductive invariant IInv and the safety properties it implies.          *)
(***************************************************************************)
EXTENDS ServiceDispatch, FiniteSetTheorems, TLAPS

-----------------------------------------------------------------------------
(* The inductive invariant.                                                *)

Batch == {"first", "length", "pop", "run", "next", "pushback"}

\* What the program counters say about the local variables of a thread.
Shape ==
  \A t \in Thread :
    /\ pc[t] \in Batch \cup {"grab", "dead", "drop"} => q[t] \in Service
    /\ pc[t] = "idle" => q[t] = None
    /\ nq[t] # None <=> pc[t] = "pushback"
    /\ held[t] # None <=> pc[t] \in Batch \cup {"release"}
    /\ pc[t] \in Batch => held[t] = q[t]
    /\ pc[t] = "pop" => left[t] > 0
    /\ pc[t] = "length" => Share[t] > 0
    /\ new[t] # None <=> lpc[t] # "none"
    /\ lpc[t] # "none" => pc[t] = "run"
    /\ dst[t] # None <=> call[t] # "none"
    /\ t \notin Worker => pc[t] = "idle"
    /\ del[t] # None => call[t] = "none"

\* The life of a service: not launched, live, context freed, queue freed.
Lives ==
  \A s \in Service :
    /\ ctx[s] = "none" => /\ ~ slot[s] /\ ref[s] = 0 /\ mq[s] = "none"
                          /\ ~ in_global[s] /\ ~ release[s] /\ queue[s] = <<>>
    /\ mq[s] = "none" => ctx[s] = "none"
    /\ release[s] <=> ctx[s] = "freed"
    /\ mq[s] = "freed" => ctx[s] = "freed"
    /\ mq[s] # "live" => queue[s] = <<>>

\* A registered service has been initialised or is being launched.
Launched ==
  \A s \in Service :
    slot[s] => init[s] \/ \E t \in Thread : new[t] = s /\ lpc[t] \in {"init", "ready", "retire"}

\* What the dispatcher knows of the queue it owns.
Dispatching ==
  \A t \in Thread :
    /\ pc[t] = "dead" => ~ slot[q[t]] /\ ctx[q[t]] # "none"
    /\ pc[t] = "drop" => release[q[t]]
    /\ lpc[t] = "drop" => release[new[t]]
    /\ lpc[t] = "mq_release" => ~ slot[new[t]]
    /\ held[t] # None => init[held[t]]

IInv ==
  /\ TypeOK /\ Shape /\ Lives /\ Launched /\ Dispatching
  /\ ScheduledOnce /\ NoLostQueue /\ RefCounted /\ DeletedOnce

-----------------------------------------------------------------------------
(* Counting references.                                                    *)

LEMMA ThreadsFinite == IsFiniteSet(Thread)
  BY DispatchAssumption, FS_Union DEF Thread

\* The three sets of reference holders are finite sets of threads.
LEMMA RefsFinite ==
  ASSUME NEW s
  PROVE  /\ IsFiniteSet(DispatchRefs(s)) /\ Cardinality(DispatchRefs(s)) \in Nat
         /\ IsFiniteSet(SendRefs(s)) /\ Cardinality(SendRefs(s)) \in Nat
         /\ IsFiniteSet(LaunchRefs(s)) /\ Cardinality(LaunchRefs(s)) \in Nat
  <1>1. /\ DispatchRefs(s) \subseteq Thread /\ SendRefs(s) \subseteq Thread
        /\ LaunchRefs(s) \subseteq Thread
    BY DEF DispatchRefs, SendRefs, LaunchRefs
  <1> QED BY <1>1, ThreadsFinite, FS_Subset, FS_CardinalityType

\* A set with an element has a positive cardinality.
LEMMA Inhabited ==
  ASSUME NEW S, IsFiniteSet(S), NEW x \in S
  PROVE  Cardinality(S) \in Nat /\ Cardinality(S) > 0
  BY FS_EmptySet, FS_CardinalityType

\* Whoever holds a reference to a service sees its context and queue alive.
LEMMA Referenced ==
  ASSUME IInv, NEW s \in Service,
         slot[s] \/ DispatchRefs(s) # {} \/ SendRefs(s) # {} \/ LaunchRefs(s) # {}
  PROVE  ref[s] > 0 /\ ctx[s] = "live" /\ mq[s] = "live" /\ ~ release[s]
  <1>1. ref[s] > 0
    <2> DEFINE table == IF slot[s] THEN 1 ELSE 0
               d == Cardinality(DispatchRefs(s))
               e == Cardinality(SendRefs(s))
               l == Cardinality(LaunchRefs(s))
    <2>1. d \in Nat /\ e \in Nat /\ l \in Nat /\ table \in Nat
      BY RefsFinite
    <2>2. table > 0 \/ d > 0 \/ e > 0 \/ l > 0
      <3>1. DispatchRefs(s) # {} => d > 0
        BY RefsFinite, FS_EmptySet, <2>1
      <3>2. SendRefs(s) # {} => e > 0
        BY RefsFinite, FS_EmptySet, <2>1
      <3>3. LaunchRefs(s) # {} => l > 0
        BY RefsFinite, FS_EmptySet, <2>1
      <3> QED BY <3>1, <3>2, <3>3
    <2>3. ref[s] = table + d + e + l
      BY DEF IInv, RefCounted, RefsOf
    <2> HIDE DEF table, d, e, l
    <2> QED BY <2>1, <2>2, <2>3
  <1>2. ctx[s] = "live"
    BY <1>1 DEF IInv, RefCounted
  <1>3. ~ release[s] /\ mq[s] # "none" /\ mq[s] # "freed"
    BY <1>2 DEF IInv, Lives
  <1> QED BY <1>1, <1>2, <1>3 DEF IInv, TypeOK

-----------------------------------------------------------------------------
(* What the helpers of the specification do to their variables.            *)

\* The local variables that a program counter makes meaningful.
LEMMA Locals ==
  ASSUME IInv, NEW t \in Thread
  PROVE  /\ pc[t] \in Batch \cup {"grab", "dead", "drop"} => q[t] \in Service
         /\ pc[t] \in Batch \cup {"release"} => held[t] \in Service
         /\ pc[t] = "pushback" => nq[t] \in Service
         /\ lpc[t] # "none" => new[t] \in Service
         /\ call[t] # "none" => dst[t] \in Service
         /\ del[t] # None => del[t] \in Service
  BY DEF IInv, TypeOK, Shape, Maybe

LEMMA GrabType ==
  ASSUME TypeOK, NEW s \in Service, Grab(s)
  PROVE  ref' \in [Service -> Nat]
  <1>1. ref[s] + 1 \in Nat
    BY DEF TypeOK
  <1> QED BY <1>1 DEF TypeOK, Grab

LEMMA ReleaseType ==
  ASSUME TypeOK, NEW t \in Thread, NEW s \in Service, ref[s] > 0, Release(t, s)
  PROVE  ref' \in [Service -> Nat] /\ del' \in [Thread -> Maybe]
  <1>1. ref[s] - 1 \in Nat
    BY DEF TypeOK
  <1>2. ref' \in [Service -> Nat]
    BY <1>1 DEF TypeOK, Release
  <1>3. del' \in [Thread -> Maybe]
    BY DEF TypeOK, Release, Maybe
  <1> QED BY <1>2, <1>3

LEMMA RetireType ==
  ASSUME IInv, NEW t \in Thread, NEW s \in Service, Retire(t, s)
  PROVE  /\ ref' \in [Service -> Nat] /\ del' \in [Thread -> Maybe]
         /\ slot' \in [Service -> BOOLEAN]
  <1>1. CASE slot[s]
    BY <1>1, Referenced, ReleaseType DEF Retire, IInv, TypeOK
  <1>2. CASE ~ slot[s]
    BY <1>2 DEF Retire, IInv, TypeOK
  <1> QED BY <1>1, <1>2

LEMMA ScheduleType ==
  ASSUME TypeOK, NEW s \in Service, Schedule(s) \/ Reschedule(s)
  PROVE  globalmq' \in Seq(Service)
  <1>1. globalmq \in Seq(Service) /\ Append(globalmq, s) \in Seq(Service)
    BY DEF TypeOK
  <1>2. globalmq' = globalmq \/ globalmq' = Append(globalmq, s)
    BY DEF Schedule, Reschedule
  <1> QED BY <1>1, <1>2

LEMMA BeginSendType ==
  ASSUME TypeOK, NEW t \in Thread, NEW d \in Service, NEW f \in Maybe,
         BeginSend(t, d, f)
  PROVE  /\ call' \in [Thread -> {"none", "grab", "push", "release"}]
         /\ dst' \in [Thread -> Maybe] /\ src' \in [Thread -> Maybe]
  BY DEF TypeOK, BeginSend, Maybe

LEMMA DropMessageType ==
  ASSUME TypeOK, NEW t \in Thread, NEW s \in Service, DropMessage(t, s)
  PROVE  /\ queue' \in [Service -> Seq(Maybe)]
         /\ call' \in [Thread -> {"none", "grab", "push", "release"}]
         /\ dst' \in [Thread -> Maybe] /\ src' \in [Thread -> Maybe]
  <1>1. queue[s] \in Seq(Maybe) /\ queue[s] # <<>>
    BY DEF TypeOK, DropMessage
  <1>2. Head(queue[s]) \in Maybe /\ Tail(queue[s]) \in Seq(Maybe)
    BY <1>1
  <1>3. queue' \in [Service -> Seq(Maybe)]
    BY <1>2 DEF TypeOK, DropMessage
  <1>4. CASE Head(queue[s]) # None
    BY <1>2, <1>3, <1>4, BeginSendType DEF DropMessage, Maybe
  <1>5. CASE Head(queue[s]) = None
    BY <1>3, <1>5 DEF DropMessage, TypeOK, sendVars
  <1> QED BY <1>4, <1>5

LEMMA Quotient == \A a \in Nat, b \in Nat \ {0} : a \div b \in Nat
  OBVIOUS

-----------------------------------------------------------------------------
(* One lemma per conjunct of the inductive invariant.                       *)

LEMMA StepType ==
  ASSUME IInv, Next
  PROVE  TypeOK'
  <1>1. ASSUME NEW t \in Worker, TakeQueue(t)
        PROVE  TypeOK'
    BY <1>1 DEF IInv, TypeOK, Shape, Maybe, Thread, TakeQueue, Goto, At,
           Settled, ctxVars, sendVars, launchVars
  <1>2. ASSUME NEW t \in Worker, GrabOwner(t)
        PROVE  TypeOK'
    <2>1. q[t] \in Service /\ t \in Thread
      BY <1>2, Locals DEF GrabOwner, At, Settled, Batch, Thread
    <2>2. ref' \in [Service -> Nat]
      BY <1>2, <2>1, GrabType DEF GrabOwner, IInv, TypeOK
    <2>3. held' \in [Thread -> Maybe]
      BY <1>2, <2>1 DEF GrabOwner, IInv, TypeOK, Maybe
    <2>4. pc' = [pc EXCEPT ![t] = "first"] \/ pc' = [pc EXCEPT ![t] = "dead"]
      BY <1>2 DEF GrabOwner, Goto
    <2> QED BY <1>2, <2>1, <2>2, <2>3, <2>4 DEF IInv, TypeOK, Thread, Maybe, GrabOwner,
           Goto, At, Settled, mqVars, sendVars, launchVars
  <1>3. ASSUME NEW t \in Worker, QueueOfDead(t)
        PROVE  TypeOK'
    <2>1. q[t] \in Service /\ t \in Thread
      BY <1>3, Locals DEF QueueOfDead, At, Settled, Batch, Thread
    <2>2. globalmq' \in Seq(Service)
      BY <1>3, <2>1, ScheduleType DEF QueueOfDead, IInv
    <2> QED BY <1>3, <2>1, <2>2 DEF IInv, TypeOK, Thread, Maybe, QueueOfDead,
           Goto, At, Settled, ctxVars, sendVars, launchVars
  <1>4. ASSUME NEW t \in Worker, DropOne(t)
        PROVE  TypeOK'
    <2>1. q[t] \in Service /\ t \in Thread
      BY <1>4, Locals DEF DropOne, At, Settled, Batch, Thread
    <2>2. /\ queue' \in [Service -> Seq(Maybe)]
            /\ call' \in [Thread -> {"none", "grab", "push", "release"}]
            /\ dst' \in [Thread -> Maybe] /\ src' \in [Thread -> Maybe]
      BY <1>4, <2>1, DropMessageType DEF DropOne, IInv
    <2> QED BY <1>4, <2>1, <2>2 DEF IInv, TypeOK, Thread, Maybe, DropOne,
           sendVars, At, Settled, ctxVars, loopVars, launchVars
  <1>5. ASSUME NEW t \in Worker, DropDone(t)
        PROVE  TypeOK'
    BY <1>5 DEF IInv, TypeOK, Shape, Maybe, Thread, DropDone, Goto, FreeQueue,
           At, Settled, ctxVars, sendVars, launchVars
  <1>6. ASSUME NEW t \in Worker, PopMessage(t)
        PROVE  TypeOK'
    <2>1. q[t] \in Service /\ t \in Thread
      BY <1>6, Locals DEF PopMessage, At, Settled, Batch, Thread
    <2>2. left[t] \in Nat /\ (pc[t] # "first" => left[t] > 0)
      BY <1>6, <2>1 DEF IInv, TypeOK, Shape, PopMessage, At
    <2>3. left' \in [Thread -> Nat]
      <3>1. pc[t] # "first" => left[t] - 1 \in Nat
        BY <2>2
      <3> QED BY <1>6, <2>1, <3>1 DEF IInv, TypeOK, PopMessage
    <2>4. queue' \in [Service -> Seq(Maybe)]
      BY <1>6, <2>1 DEF IInv, TypeOK, PopMessage
    <2> QED BY <1>6, <2>1, <2>2, <2>3, <2>4 DEF IInv, TypeOK, Thread, Maybe,
           PopMessage, Goto, At, Settled, ctxVars, sendVars, launchVars
  <1>7. ASSUME NEW t \in Worker, PopEmpty(t)
        PROVE  TypeOK'
    BY <1>7 DEF IInv, TypeOK, Shape, Maybe, Thread, PopEmpty, Goto, At,
           Settled, ctxVars, sendVars, launchVars
  <1>8. ASSUME NEW t \in Worker, BatchSize(t)
        PROVE  TypeOK'
    <2>1. q[t] \in Service /\ t \in Thread
      BY <1>8, Locals DEF BatchSize, At, Settled, Batch, Thread
    <2>2. Share[t] \in Nat \ {0} /\ Len(queue[q[t]]) \in Nat
      BY <1>8, <2>1, DispatchAssumption DEF IInv, TypeOK, Shape, BatchSize, At
    <2>3. Len(queue[q[t]]) \div Share[t] \in Nat
      BY <1>8, <2>2, Quotient
    <2>4. left' \in [Thread -> Nat]
      BY <1>8, <2>1, <2>3 DEF IInv, TypeOK, BatchSize
    <2> QED BY <1>8, <2>1, <2>2, <2>3, <2>4 DEF IInv, TypeOK, Thread, Maybe,
           BatchSize, Goto, At, Settled, ctxVars, mqVars, sendVars, launchVars
  <1>9. ASSUME NEW t \in Worker, CallbackReturns(t)
        PROVE  TypeOK'
    BY <1>9 DEF IInv, TypeOK, Shape, Maybe, Thread, CallbackReturns, Goto, At,
           Settled, ctxVars, mqVars, sendVars, launchVars
  <1>10. ASSUME NEW t \in Worker, NextQueue(t)
        PROVE  TypeOK'
    BY <1>10 DEF IInv, TypeOK, Shape, Maybe, Thread, NextQueue, Goto, At,
           Settled, ctxVars, sendVars, launchVars
  <1>11. ASSUME NEW t \in Worker, KeepQueue(t)
        PROVE  TypeOK'
    BY <1>11 DEF IInv, TypeOK, Shape, Maybe, Thread, KeepQueue, Goto, At,
           Settled, ctxVars, mqVars, sendVars, launchVars
  <1>12. ASSUME NEW t \in Worker, PushBack(t)
        PROVE  TypeOK'
    <2>1. q[t] \in Service /\ t \in Thread
      BY <1>12, Locals DEF PushBack, At, Settled, Batch, Thread
    <2>2. globalmq' \in Seq(Service)
      BY <1>12, <2>1 DEF IInv, TypeOK, PushBack
    <2> QED BY <1>12, <2>1, <2>2 DEF IInv, TypeOK, Thread, Maybe, PushBack,
           Goto, At, Settled, ctxVars, sendVars, launchVars
  <1>13. ASSUME NEW t \in Worker, ReleaseOwner(t)
        PROVE  TypeOK'
    <2>1. held[t] \in Service /\ t \in Thread
      BY <1>13, Locals DEF ReleaseOwner, At, Settled, Batch, Thread
    <2>2. ref[held[t]] > 0
      BY <1>13, <2>1, Referenced DEF DispatchRefs
    <2>3. ref' \in [Service -> Nat] /\ del' \in [Thread -> Maybe]
      BY <1>13, <2>1, <2>2, ReleaseType DEF ReleaseOwner, IInv
    <2> QED BY <1>13, <2>1, <2>2, <2>3 DEF IInv, TypeOK, Thread, Maybe,
           ReleaseOwner, Goto, At, Settled, mqVars, sendVars, launchVars
  <1>14. ASSUME NEW t \in Worker, NEW s \in Service, CallbackSends(t, s)
        PROVE  TypeOK'
    BY <1>14 DEF IInv, TypeOK, Shape, Maybe, Thread, CallbackSends, BeginSend,
           InCallback, At, Settled, Launching, ctxVars, mqVars,
           loopVars, launchVars
  <1>15. ASSUME NEW t \in Worker, NEW s \in Service, CallbackKills(t, s)
        PROVE  TypeOK'
    <2>1. /\ ref' \in [Service -> Nat] /\ del' \in [Thread -> Maybe]
            /\ slot' \in [Service -> BOOLEAN]
      BY <1>15, RetireType DEF CallbackKills, Thread
    <2> QED BY <1>15, <2>1 DEF IInv, TypeOK, Thread, Maybe, CallbackKills, At,
           Settled, Launching, mqVars, loopVars, sendVars, launchVars
  <1>16. ASSUME NEW t \in Worker, NEW s \in Service, BeginLaunch(t, s)
        PROVE  TypeOK'
    BY <1>16 DEF IInv, TypeOK, Shape, Maybe, Thread, BeginLaunch, LaunchGoto,
           CreateQueue, At, Settled, loopVars, sendVars
  <1>17. ASSUME NEW t \in Worker, InitSucceeds(t)
        PROVE  TypeOK'
    <2>1. new[t] \in Service /\ t \in Thread
      BY <1>17, Locals DEF InitSucceeds, Launching, Settled, Batch, Thread
    <2>2. ref[new[t]] > 0
      BY <1>17, <2>1, Referenced DEF LaunchRefs, InitSucceeds, Launching
    <2>3. ref' \in [Service -> Nat] /\ del' \in [Thread -> Maybe]
      BY <1>17, <2>1, <2>2, ReleaseType DEF InitSucceeds, IInv
    <2> QED BY <1>17, <2>1, <2>2, <2>3 DEF IInv, TypeOK, Thread, Maybe,
           InitSucceeds, LaunchGoto, Launching, Settled, mqVars, loopVars,
           sendVars
  <1>18. ASSUME NEW t \in Worker, SetInit(t)
        PROVE  TypeOK'
    BY <1>18 DEF IInv, TypeOK, Shape, Maybe, Thread, SetInit, LaunchGoto,
           Launching, Settled, mqVars, loopVars, sendVars
  <1>19. ASSUME NEW t \in Worker, PushNew(t)
        PROVE  TypeOK'
    BY <1>19 DEF IInv, TypeOK, Shape, Maybe, Thread, PushNew, LaunchGoto,
           Launching, Settled, ctxVars, loopVars, sendVars
  <1>20. ASSUME NEW t \in Worker, InitFails(t)
        PROVE  TypeOK'
    <2>1. new[t] \in Service /\ t \in Thread
      BY <1>20, Locals DEF InitFails, Launching, Settled, Batch, Thread
    <2>2. ref[new[t]] > 0
      BY <1>20, <2>1, Referenced DEF LaunchRefs, InitFails, Launching
    <2>3. ref' \in [Service -> Nat] /\ del' \in [Thread -> Maybe]
      BY <1>20, <2>1, <2>2, ReleaseType DEF InitFails, IInv
    <2> QED BY <1>20, <2>1, <2>2, <2>3 DEF IInv, TypeOK, Thread, Maybe,
           InitFails, LaunchGoto, Launching, Settled, mqVars, loopVars,
           sendVars
  <1>21. ASSUME NEW t \in Worker, RetireFailed(t)
        PROVE  TypeOK'
    <2>1. new[t] \in Service /\ t \in Thread
      BY <1>21, Locals DEF RetireFailed, Launching, Settled, Batch, Thread
    <2>2. /\ ref' \in [Service -> Nat] /\ del' \in [Thread -> Maybe]
            /\ slot' \in [Service -> BOOLEAN]
      BY <1>21, <2>1, RetireType DEF RetireFailed
    <2> QED BY <1>21, <2>1, <2>2 DEF IInv, TypeOK, Thread, Maybe,
           RetireFailed, LaunchGoto, Launching, Settled, mqVars, loopVars,
           sendVars
  <1>22. ASSUME NEW t \in Worker, QueueOfFailed(t)
        PROVE  TypeOK'
    <2>1. new[t] \in Service /\ t \in Thread
      BY <1>22, Locals DEF QueueOfFailed, Launching, Settled, Batch, Thread
    <2>2. globalmq' \in Seq(Service)
      BY <1>22, <2>1, ScheduleType DEF QueueOfFailed, IInv
    <2> QED BY <1>22, <2>1, <2>2 DEF IInv, TypeOK, Thread, Maybe,
           QueueOfFailed, LaunchGoto, Launching, Settled, ctxVars, loopVars,
           sendVars
  <1>23. ASSUME NEW t \in Worker, DropFailed(t)
        PROVE  TypeOK'
    <2>1. new[t] \in Service /\ t \in Thread
      BY <1>23, Locals DEF DropFailed, Launching, Settled, Batch, Thread
    <2>2. /\ queue' \in [Service -> Seq(Maybe)]
            /\ call' \in [Thread -> {"none", "grab", "push", "release"}]
            /\ dst' \in [Thread -> Maybe] /\ src' \in [Thread -> Maybe]
      BY <1>23, <2>1, DropMessageType DEF DropFailed, IInv
    <2> QED BY <1>23, <2>1, <2>2 DEF IInv, TypeOK, Thread, Maybe, DropFailed,
           sendVars, Launching, Settled, ctxVars, loopVars, launchVars
  <1>24. ASSUME NEW t \in Worker, DropFailedDone(t)
        PROVE  TypeOK'
    BY <1>24 DEF IInv, TypeOK, Shape, Maybe, Thread, DropFailedDone,
           LaunchGoto, FreeQueue, Launching, Settled, ctxVars, loopVars,
           sendVars
  <1>25. ASSUME NEW t \in Sender, NEW s \in Service, ExternalSends(t, s)
        PROVE  TypeOK'
    BY <1>25 DEF IInv, TypeOK, Shape, Maybe, Thread, ExternalSends, BeginSend,
           Settled, ctxVars, mqVars, loopVars, launchVars
  <1>26. ASSUME NEW t \in Thread, GrabDestination(t)
        PROVE  TypeOK'
    <2>1. dst[t] \in Service /\ t \in Thread
      BY <1>26, Locals DEF GrabDestination, Batch, Thread
    <2>2. ref' \in [Service -> Nat]
      BY <1>26, <2>1, GrabType DEF GrabDestination, IInv, TypeOK
    <2>3. call' \in [Thread -> {"none", "grab", "push", "release"}]
      <3>1. \/ call' = [call EXCEPT ![t] = "push"]
            \/ call' = [call EXCEPT ![t] = "none"]
        BY <1>26 DEF GrabDestination
      <3> QED BY <3>1 DEF IInv, TypeOK
    <2>4. dst' \in [Thread -> Maybe] /\ src' \in [Thread -> Maybe]
      BY <1>26, <2>1 DEF GrabDestination, IInv, TypeOK, Maybe
    <2> QED BY <1>26, <2>1, <2>2, <2>3, <2>4 DEF IInv, TypeOK, Thread, Maybe,
           GrabDestination, mqVars, loopVars, launchVars
  <1>27. ASSUME NEW t \in Thread, PushMessage(t)
        PROVE  TypeOK'
    <2>1. dst[t] \in Service /\ t \in Thread
      BY <1>27, Locals DEF PushMessage, Batch, Thread
    <2>2. globalmq' \in Seq(Service)
      BY <1>27, <2>1, ScheduleType DEF PushMessage, IInv
    <2> QED BY <1>27, <2>1, <2>2 DEF IInv, TypeOK, Thread, Maybe, PushMessage,
           ctxVars, loopVars, launchVars
  <1>28. ASSUME NEW t \in Thread, ReleaseDestination(t)
        PROVE  TypeOK'
    <2>1. dst[t] \in Service /\ t \in Thread
      BY <1>28, Locals DEF ReleaseDestination, Batch, Thread
    <2>2. ref[dst[t]] > 0
      BY <1>28, <2>1, Referenced DEF SendRefs, ReleaseDestination
    <2>3. ref' \in [Service -> Nat] /\ del' \in [Thread -> Maybe]
      BY <1>28, <2>1, <2>2, ReleaseType DEF ReleaseDestination, IInv
    <2> QED BY <1>28, <2>1, <2>2, <2>3 DEF IInv, TypeOK, Thread, Maybe,
           ReleaseDestination, mqVars, loopVars, launchVars
  <1>29. ASSUME NEW t \in Thread, DeleteContext(t)
        PROVE  TypeOK'
    BY <1>29 DEF IInv, TypeOK, Shape, Maybe, Thread, DeleteContext, Schedule,
           loopVars, sendVars, launchVars
  <1> QED BY <1>1, <1>2, <1>3, <1>4, <1>5, <1>6, <1>7, <1>8, <1>9, <1>10,
           <1>11, <1>12, <1>13, <1>14, <1>15, <1>16, <1>17, <1>18, <1>19,
           <1>20, <1>21, <1>22, <1>23, <1>24, <1>25, <1>26, <1>27, <1>28,
           <1>29 DEF Next, Dispatch, Callback, Launch, SendStep

\* What the program counters say about the local variables.
LEMMA StepShape ==
  ASSUME IInv, Next
  PROVE  Shape'
  <1>1. ASSUME NEW t \in Worker, TakeQueue(t)
        PROVE  Shape'
    BY <1>1 DEF IInv, Shape, Batch, TypeOK, Thread, TakeQueue, Goto, At,
       Settled, sendVars, launchVars
  <1>2. ASSUME NEW t \in Worker, GrabOwner(t)
        PROVE  Shape'
    BY <1>2, DispatchAssumption DEF IInv, Shape, Batch, TypeOK, Maybe,
       Thread, GrabOwner, Goto, Grab, At, Settled, sendVars, launchVars
  <1>3. ASSUME NEW t \in Worker, QueueOfDead(t)
        PROVE  Shape'
    BY <1>3 DEF IInv, Shape, Batch, TypeOK, Thread, QueueOfDead, Goto,
       Reschedule, MayDrop, At, Settled, sendVars, launchVars
  <1>4. ASSUME NEW t \in Worker, DropOne(t)
        PROVE  Shape'
    BY <1>4 DEF IInv, Shape, Batch, TypeOK, Thread, DropOne, DropMessage,
       BeginSend, sendVars, At, Settled, loopVars, launchVars
  <1>5. ASSUME NEW t \in Worker, DropDone(t)
        PROVE  Shape'
    BY <1>5 DEF IInv, Shape, Batch, TypeOK, Thread, DropDone, Goto, FreeQueue,
       At, Settled, sendVars, launchVars
  <1>6. ASSUME NEW t \in Worker, PopMessage(t)
        PROVE  Shape'
    BY <1>6 DEF IInv, Shape, Batch, TypeOK, Thread, PopMessage, Goto, At,
       Settled, sendVars, launchVars
  <1>7. ASSUME NEW t \in Worker, PopEmpty(t)
        PROVE  Shape'
    BY <1>7 DEF IInv, Shape, Batch, TypeOK, Thread, PopEmpty, Goto, At,
       Settled, sendVars, launchVars
  <1>8. ASSUME NEW t \in Worker, BatchSize(t)
        PROVE  Shape'
    BY <1>8 DEF IInv, Shape, Batch, TypeOK, Thread, BatchSize, Goto, At,
       Settled, sendVars, launchVars
  <1>9. ASSUME NEW t \in Worker, CallbackReturns(t)
        PROVE  Shape'
    BY <1>9 DEF IInv, Shape, Batch, TypeOK, Thread, CallbackReturns, Goto, At,
       Settled, sendVars, launchVars
  <1>10. ASSUME NEW t \in Worker, NextQueue(t)
        PROVE  Shape'
    <2>1. Head(globalmq) \in Service
      BY <1>10 DEF IInv, TypeOK, NextQueue
    <2> QED BY <1>10, <2>1, DispatchAssumption DEF IInv, Shape, Batch, TypeOK,
           Maybe, Thread, NextQueue, Goto, At, Settled, sendVars, launchVars
  <1>11. ASSUME NEW t \in Worker, KeepQueue(t)
        PROVE  Shape'
    BY <1>11 DEF IInv, Shape, Batch, TypeOK, Thread, KeepQueue, Goto, At,
       Settled, sendVars, launchVars
  <1>12. ASSUME NEW t \in Worker, PushBack(t)
        PROVE  Shape'
    BY <1>12 DEF IInv, Shape, Batch, TypeOK, Thread, PushBack, Goto, At,
       Settled, sendVars, launchVars
  <1>13. ASSUME NEW t \in Worker, ReleaseOwner(t)
        PROVE  Shape'
    BY <1>13, DispatchAssumption DEF IInv, Shape, Batch, TypeOK, Maybe,
       Thread, ReleaseOwner, Goto, Release, At, Settled, sendVars, launchVars
  <1>14. ASSUME NEW t \in Worker, NEW s \in Service, CallbackSends(t, s)
        PROVE  Shape'
    BY <1>14, DispatchAssumption DEF IInv, Shape, Batch, TypeOK, Maybe,
       Thread, CallbackSends, BeginSend, InCallback, At, Settled, Launching, loopVars, launchVars
  <1>15. ASSUME NEW t \in Worker, NEW s \in Service, CallbackKills(t, s)
        PROVE  Shape'
    BY <1>15 DEF IInv, Shape, Batch, TypeOK, Thread, CallbackKills, Retire,
       Release, InCallback, At, Settled, Launching, loopVars, sendVars,
       launchVars
  <1>16. ASSUME NEW t \in Worker, NEW s \in Service, BeginLaunch(t, s)
        PROVE  Shape'
    BY <1>16, DispatchAssumption DEF IInv, Shape, Batch, TypeOK, Maybe,
       Thread, BeginLaunch, LaunchGoto, CreateQueue, At, Settled, loopVars,
       sendVars
  <1>17. ASSUME NEW t \in Worker, InitSucceeds(t)
        PROVE  Shape'
    BY <1>17 DEF IInv, Shape, Batch, TypeOK, Thread, InitSucceeds, LaunchGoto,
       Release, Launching, Settled, loopVars, sendVars
  <1>18. ASSUME NEW t \in Worker, SetInit(t)
        PROVE  Shape'
    BY <1>18 DEF IInv, Shape, Batch, TypeOK, Thread, SetInit, LaunchGoto,
       Launching, Settled, loopVars, sendVars
  <1>19. ASSUME NEW t \in Worker, PushNew(t)
        PROVE  Shape'
    BY <1>19 DEF IInv, Shape, Batch, TypeOK, Thread, PushNew, LaunchGoto,
       Launching, Settled, loopVars, sendVars
  <1>20. ASSUME NEW t \in Worker, InitFails(t)
        PROVE  Shape'
    BY <1>20 DEF IInv, Shape, Batch, TypeOK, Thread, InitFails, LaunchGoto,
       Release, Launching, Settled, loopVars, sendVars
  <1>21. ASSUME NEW t \in Worker, RetireFailed(t)
        PROVE  Shape'
    BY <1>21 DEF IInv, Shape, Batch, TypeOK, Thread, RetireFailed, LaunchGoto,
       Retire, Release, Launching, Settled, loopVars, sendVars
  <1>22. ASSUME NEW t \in Worker, QueueOfFailed(t)
        PROVE  Shape'
    BY <1>22 DEF IInv, Shape, Batch, TypeOK, Thread, QueueOfFailed,
       LaunchGoto, Reschedule, MayDrop, Launching, Settled, loopVars, sendVars
  <1>23. ASSUME NEW t \in Worker, DropFailed(t)
        PROVE  Shape'
    BY <1>23 DEF IInv, Shape, Batch, TypeOK, Thread, DropFailed, DropMessage,
       BeginSend, sendVars, Launching, Settled, loopVars, launchVars
  <1>24. ASSUME NEW t \in Worker, DropFailedDone(t)
        PROVE  Shape'
    BY <1>24 DEF IInv, Shape, Batch, TypeOK, Thread, DropFailedDone,
       LaunchGoto, FreeQueue, Launching, Settled, loopVars, sendVars
  <1>25. ASSUME NEW t \in Sender, NEW s \in Service, ExternalSends(t, s)
        PROVE  Shape'
    BY <1>25, DispatchAssumption DEF IInv, Shape, Batch, TypeOK, Maybe,
       Thread, ExternalSends, BeginSend, Settled, loopVars, launchVars
  <1>26. ASSUME NEW t \in Thread, GrabDestination(t)
        PROVE  Shape'
    BY <1>26 DEF IInv, Shape, Batch, TypeOK, Thread, GrabDestination, Grab,
       loopVars, launchVars
  <1>27. ASSUME NEW t \in Thread, PushMessage(t)
        PROVE  Shape'
    BY <1>27 DEF IInv, Shape, Batch, TypeOK, Thread, PushMessage, Schedule,
       loopVars, launchVars
  <1>28. ASSUME NEW t \in Thread, ReleaseDestination(t)
        PROVE  Shape'
    BY <1>28 DEF IInv, Shape, Batch, TypeOK, Thread, ReleaseDestination,
       Release, loopVars, launchVars
  <1>29. ASSUME NEW t \in Thread, DeleteContext(t)
        PROVE  Shape'
    BY <1>29 DEF IInv, Shape, Batch, TypeOK, Thread, DeleteContext, Schedule,
       loopVars, sendVars, launchVars
  <1> QED BY <1>1, <1>2, <1>3, <1>4, <1>5, <1>6, <1>7, <1>8, <1>9, <1>10,
           <1>11, <1>12, <1>13, <1>14, <1>15, <1>16, <1>17, <1>18, <1>19,
           <1>20, <1>21, <1>22, <1>23, <1>24, <1>25, <1>26, <1>27, <1>28,
           <1>29 DEF Next, Dispatch, Callback, Launch, SendStep


\* Pushing on the global queue.
LEMMA AppendQueued ==
  ASSUME TypeOK, NEW s \in Service, globalmq' = Append(globalmq, s)
  PROVE  /\ \A x : Queued(x)' <=> Queued(x) \/ x = s
         /\ NoRepeat /\ ~ Queued(s) => NoRepeat'
  <1>1. /\ globalmq \in Seq(Service) /\ Len(globalmq) \in Nat
        /\ DOMAIN globalmq = 1..Len(globalmq)
        /\ DOMAIN globalmq' = 1..(Len(globalmq) + 1)
        /\ \A i \in DOMAIN globalmq : globalmq'[i] = globalmq[i]
        /\ globalmq'[Len(globalmq) + 1] = s
    BY DEF TypeOK
  <1> QED BY <1>1 DEF Queued, NoRepeat

\* Popping the global queue.
LEMMA TailQueued ==
  ASSUME TypeOK, NoRepeat, globalmq # <<>>, globalmq' = Tail(globalmq)
  PROVE  /\ Head(globalmq) \in Service /\ Queued(Head(globalmq))
         /\ \A x : Queued(x)' <=> Queued(x) /\ x # Head(globalmq)
         /\ NoRepeat'
  <1>1. /\ globalmq \in Seq(Service) /\ Len(globalmq) \in Nat \ {0}
        /\ DOMAIN globalmq = 1..Len(globalmq)
        /\ DOMAIN globalmq' = 1..(Len(globalmq) - 1)
        /\ \A i \in DOMAIN globalmq' : globalmq'[i] = globalmq[i + 1]
        /\ Head(globalmq) = globalmq[1] /\ Head(globalmq) \in Service
    BY DEF TypeOK
  <1>2. \A i \in DOMAIN globalmq : i # 1 => i - 1 \in DOMAIN globalmq' /\ globalmq'[i - 1] = globalmq[i]
    BY <1>1
  <1>3. \A i \in DOMAIN globalmq' : i + 1 \in DOMAIN globalmq /\ i + 1 # 1
    BY <1>1
  <1>4. NoRepeat'
    BY <1>1, <1>3 DEF NoRepeat
  <1>5. ASSUME NEW x PROVE Queued(x)' <=> Queued(x) /\ x # Head(globalmq)
    <2>1. ASSUME Queued(x)' PROVE Queued(x) /\ x # Head(globalmq)
      <3>1. PICK i \in DOMAIN globalmq' : globalmq'[i] = x
        BY <2>1 DEF Queued
      <3>2. i + 1 \in DOMAIN globalmq /\ i + 1 # 1 /\ globalmq[i + 1] = x /\ 1 \in DOMAIN globalmq
        BY <3>1, <1>1, <1>3
      <3> QED BY <3>2, <1>1 DEF Queued, NoRepeat
    <2>2. ASSUME Queued(x), x # Head(globalmq) PROVE Queued(x)'
      <3>1. PICK i \in DOMAIN globalmq : globalmq[i] = x
        BY <2>2 DEF Queued
      <3> QED BY <3>1, <2>2, <1>1, <1>2 DEF Queued
    <2> QED BY <2>1, <2>2
  <1>6. Queued(Head(globalmq))
    BY <1>1 DEF Queued
  <1> QED BY <1>1, <1>4, <1>5, <1>6

\* A queue that in_global and release do not announce is nowhere.
LEMMA Unscheduled ==
  ASSUME IInv, NEW s \in Service, ~ in_global[s], ~ release[s]
  PROVE  ~ Queued(s) /\ \A t \in Thread : ~ Owns(t, s)
  BY DEF IInv, NoLostQueue, Announced, Scheduled

\* At most one place for each queue, and one for each queue that needs it.
LEMMA StepSchedule ==
  ASSUME IInv, Next
  PROVE  ScheduledOnce' /\ NoLostQueue'
  <1>1. CASE UNCHANGED <<globalmq, q, nq, new, queue, mq, in_global, release>>
    BY <1>1 DEF IInv, ScheduledOnce, NoRepeat, NoLostQueue, Announced,
           Scheduled, Owns, Queued
  <1>2. ASSUME NEW t \in Worker, TakeQueue(t)
        PROVE  ScheduledOnce' /\ NoLostQueue'
    <2>1. t \in Thread /\ pc[t] = "idle" /\ lpc[t] = "none" /\ q[t] = None /\ nq[t] = None /\ new[t] = None
      BY <1>2, Locals DEF TakeQueue, At, Settled, Thread, Batch, IInv, Shape
    <2>2. NoRepeat' /\ \A x : Queued(x)' <=> Queued(x) /\ x # Head(globalmq)
      BY <1>2, <2>1, TailQueued DEF TakeQueue, IInv, ScheduledOnce
    <2>3. Head(globalmq) \in Service /\ Queued(Head(globalmq)) /\ ~ Owns(t, Head(globalmq))
      BY <1>2, <2>1, TailQueued DEF TakeQueue, IInv, ScheduledOnce
    <2>4. \A u \in Thread, x \in Service :
            Owns(u, x)' <=> Owns(u, x) \/ (u = t /\ x = Head(globalmq))
      BY <1>2, <2>1, <2>3, DispatchAssumption DEF Owns, IInv, TypeOK,
           TakeQueue, ctxVars, sendVars, launchVars
    <2>5. \A u \in Thread :
            u # t => nq'[u] = nq[u] /\ new'[u] = new[u] /\ q'[u] = q[u]
      BY <1>2, <2>1 DEF IInv, TypeOK, TakeQueue, ctxVars, sendVars,
           launchVars
    <2>6. (nq'[t] # None => nq'[t] # q'[t]) /\ (new'[t] # None => new'[t] # q'[t])
      BY <1>2, <2>1, <2>3, DispatchAssumption DEF IInv, TypeOK,
           ScheduledOnce, Owns, TakeQueue, ctxVars, sendVars, launchVars
    <2>7. ScheduledOnce'
      BY <2>1, <2>2, <2>3, <2>4, <2>5, <2>6 DEF IInv, ScheduledOnce
    <2>8. \A x \in Service : Announced(x)' <=> Announced(x)
      BY <1>2, <2>1, <2>3 DEF Announced, IInv, TypeOK, Lives, TakeQueue,
           ctxVars, sendVars, launchVars
    <2>9. \A x \in Service : Scheduled(x)' <=> Scheduled(x)
      BY <2>1, <2>2, <2>3, <2>4 DEF Scheduled, IInv, ScheduledOnce
    <2>10. \A x \in Service : queue'[x] # <<>> => queue[x] # <<>>
      BY <1>2 DEF IInv, TypeOK, TakeQueue, ctxVars, sendVars, launchVars
    <2>11. NoLostQueue'
      BY <2>8, <2>9, <2>10 DEF IInv, NoLostQueue
    <2> QED BY <2>7, <2>11
  <1>3. ASSUME NEW t \in Worker, QueueOfDead(t)
        PROVE  ScheduledOnce' /\ NoLostQueue'
    <2>1. CASE ~ MayDrop(q[t])
      <3>1. t \in Thread /\ pc[t] = "dead" /\ lpc[t] = "none" /\ q[t] \in Service /\ nq[t] = None /\ new[t] = None
        BY <1>3, <2>1, Locals DEF QueueOfDead, At, Settled, Thread, Batch, IInv,
             Shape, ScheduledOnce
      <3>2. Owns(t, q[t])
        BY <3>1 DEF Owns
      <3>3. NoRepeat' /\ \A x : Queued(x)' <=> Queued(x) \/ x = q[t]
        BY <1>3, <2>1, <3>1, <3>2, AppendQueued DEF QueueOfDead, Reschedule, MayDrop, IInv,
             ScheduledOnce
      <3>4. \A u \in Thread, x \in Service :
              Owns(u, x)' <=> Owns(u, x) /\ ~ (u = t /\ x = q[t])
        BY <1>3, <2>1, <3>1, <3>3, DispatchAssumption DEF Owns, IInv, TypeOK,
             QueueOfDead, Reschedule, MayDrop, ctxVars, sendVars, launchVars
      <3>5. \A u \in Thread :
              u # t => nq'[u] = nq[u] /\ new'[u] = new[u] /\ q'[u] = q[u]
        BY <1>3, <2>1, <3>1 DEF IInv, TypeOK, QueueOfDead, Reschedule, MayDrop,
             ctxVars, sendVars, launchVars
      <3>6. (nq'[t] # None => nq'[t] # q'[t]) /\ (new'[t] # None => new'[t] # q'[t])
        BY <1>3, <2>1, <3>1, <3>3, DispatchAssumption DEF IInv, TypeOK,
             ScheduledOnce, Owns, QueueOfDead, Reschedule, MayDrop, ctxVars,
             sendVars, launchVars
      <3>7. ScheduledOnce'
        BY <3>1, <3>2, <3>3, <3>4, <3>5, <3>6 DEF IInv, ScheduledOnce
      <3>8. \A x \in Service : Announced(x)' <=> Announced(x)
        BY <1>3, <2>1, <3>1, <3>3 DEF Announced, IInv, TypeOK, Lives, QueueOfDead,
             Reschedule, MayDrop, ctxVars, sendVars, launchVars
      <3>9. \A x \in Service : Scheduled(x)' <=> Scheduled(x)
        BY <3>1, <3>2, <3>3, <3>4 DEF Scheduled, IInv, ScheduledOnce
      <3>10. \A x \in Service : queue'[x] # <<>> => queue[x] # <<>>
        BY <1>3, <2>1 DEF IInv, TypeOK, QueueOfDead, Reschedule, MayDrop, ctxVars,
             sendVars, launchVars
      <3>11. NoLostQueue'
        BY <3>8, <3>9, <3>10 DEF IInv, NoLostQueue
      <3> QED BY <3>7, <3>11
    <2>2. CASE MayDrop(q[t])
      <3>1. UNCHANGED <<globalmq, q, nq, new, queue, mq, in_global, release>>
        BY <1>3, <2>2 DEF QueueOfDead, Reschedule, launchVars, loopVars
      <3> QED BY <3>1 DEF IInv, ScheduledOnce, NoRepeat, NoLostQueue, Announced,
                    Scheduled, Owns, Queued
    <2> QED BY <2>1, <2>2
  <1>4. ASSUME NEW t \in Worker, DropOne(t)
        PROVE  ScheduledOnce' /\ NoLostQueue'
    <2>1. UNCHANGED <<globalmq, q, nq, new, mq, in_global, release>>
      BY <1>4 DEF DropOne, DropMessage, sendVars, ctxVars, loopVars,
           launchVars
    <2>2. q[t] \in Service
      BY <1>4, Locals DEF DropOne, At, Settled, Batch, Thread
    <2>3. \A x \in Service : queue'[x] # <<>> => queue[x] # <<>>
      BY <1>4, <2>2 DEF IInv, TypeOK, DropOne, DropMessage
    <2> QED BY <2>1, <2>3 DEF IInv, ScheduledOnce, NoRepeat, NoLostQueue, Announced,
                Scheduled, Owns, Queued
  <1>5. ASSUME NEW t \in Worker, DropDone(t)
        PROVE  ScheduledOnce' /\ NoLostQueue'
    <2>1. t \in Thread /\ pc[t] = "drop" /\ lpc[t] = "none" /\ q[t] \in Service /\ nq[t] = None /\ new[t] = None
          /\ release[q[t]]
      BY <1>5, Locals DEF DropDone, At, Settled, Thread, Batch, IInv, Shape,
           Dispatching
    <2>2. Owns(t, q[t])
      BY <2>1 DEF Owns
    <2>3. NoRepeat' /\ \A x : Queued(x)' <=> Queued(x)
      BY <1>5 DEF DropDone, IInv, ScheduledOnce, NoRepeat, Queued
    <2>4. \A u \in Thread, x \in Service :
            Owns(u, x)' <=> Owns(u, x) /\ ~ (u = t /\ x = q[t])
      BY <1>5, <2>1, <2>3, DispatchAssumption DEF Owns, IInv, TypeOK,
           DropDone, FreeQueue, ctxVars, sendVars, launchVars
    <2>5. \A u \in Thread :
            u # t => nq'[u] = nq[u] /\ new'[u] = new[u] /\ q'[u] = q[u]
      BY <1>5, <2>1 DEF IInv, TypeOK, DropDone, FreeQueue, ctxVars, sendVars,
           launchVars
    <2>6. (nq'[t] # None => nq'[t] # q'[t]) /\ (new'[t] # None => new'[t] # q'[t])
      BY <1>5, <2>1, <2>3, DispatchAssumption DEF IInv, TypeOK,
           ScheduledOnce, Owns, DropDone, FreeQueue, ctxVars, sendVars,
           launchVars
    <2>7. ScheduledOnce'
      BY <2>1, <2>2, <2>3, <2>4, <2>5, <2>6 DEF IInv, ScheduledOnce
    <2>8. \A x \in Service : Announced(x)' <=> Announced(x) /\ x # q[t]
      BY <1>5, <2>1, <2>3 DEF Announced, IInv, TypeOK, Lives, DropDone,
           FreeQueue, ctxVars, sendVars, launchVars
    <2>9. \A x \in Service : Scheduled(x)' <=> Scheduled(x) /\ x # q[t]
      BY <2>1, <2>2, <2>3, <2>4 DEF Scheduled, IInv, ScheduledOnce
    <2>10. \A x \in Service : queue'[x] # <<>> => queue[x] # <<>> /\ x # q[t]
      BY <1>5 DEF IInv, TypeOK, DropDone, FreeQueue, ctxVars, sendVars,
           launchVars
    <2>11. NoLostQueue'
      BY <2>8, <2>9, <2>10 DEF IInv, NoLostQueue
    <2> QED BY <2>7, <2>11
  <1>6. ASSUME NEW t \in Worker, PopMessage(t)
        PROVE  ScheduledOnce' /\ NoLostQueue'
    <2>1. UNCHANGED <<globalmq, q, nq, new, mq, in_global, release>>
      BY <1>6 DEF PopMessage, ctxVars, sendVars, launchVars
    <2>2. q[t] \in Service
      BY <1>6, Locals DEF PopMessage, At, Settled, Batch, Thread
    <2>3. \A x \in Service : queue'[x] # <<>> => queue[x] # <<>>
      BY <1>6, <2>2 DEF IInv, TypeOK, PopMessage
    <2> QED BY <2>1, <2>3 DEF IInv, ScheduledOnce, NoRepeat, NoLostQueue, Announced,
                Scheduled, Owns, Queued
  <1>7. ASSUME NEW t \in Worker, PopEmpty(t)
        PROVE  ScheduledOnce' /\ NoLostQueue'
    <2>1. t \in Thread /\ pc[t] \in {"first", "pop"} /\ lpc[t] = "none" /\ q[t] \in Service
          /\ nq[t] = None /\ new[t] = None /\ t \in DispatchRefs(q[t])
      BY <1>7, Locals DEF PopEmpty, At, Settled, Thread, Batch, IInv, Shape,
           DispatchRefs
    <2>2. Owns(t, q[t])
      BY <2>1 DEF Owns
    <2>3. NoRepeat' /\ \A x : Queued(x)' <=> Queued(x)
      BY <1>7 DEF PopEmpty, IInv, ScheduledOnce, NoRepeat, Queued
    <2>4. \A u \in Thread, x \in Service :
            Owns(u, x)' <=> Owns(u, x) /\ ~ (u = t /\ x = q[t])
      BY <1>7, <2>1, <2>3, DispatchAssumption DEF Owns, IInv, TypeOK,
           PopEmpty, ctxVars, sendVars, launchVars
    <2>5. \A u \in Thread :
            u # t => nq'[u] = nq[u] /\ new'[u] = new[u] /\ q'[u] = q[u]
      BY <1>7, <2>1 DEF IInv, TypeOK, PopEmpty, ctxVars, sendVars, launchVars
    <2>6. (nq'[t] # None => nq'[t] # q'[t]) /\ (new'[t] # None => new'[t] # q'[t])
      BY <1>7, <2>1, <2>3, DispatchAssumption DEF IInv, TypeOK,
           ScheduledOnce, Owns, PopEmpty, ctxVars, sendVars, launchVars
    <2>7. ScheduledOnce'
      BY <2>1, <2>2, <2>3, <2>4, <2>5, <2>6 DEF IInv, ScheduledOnce
    <2>8. \A x \in Service : Announced(x)' <=> Announced(x) /\ x # q[t]
      BY <1>7, <2>1, <2>3, Referenced DEF Announced, IInv, TypeOK, Lives,
           PopEmpty, ctxVars, sendVars, launchVars
    <2>9. \A x \in Service : Scheduled(x)' <=> Scheduled(x) /\ x # q[t]
      BY <2>1, <2>2, <2>3, <2>4 DEF Scheduled, IInv, ScheduledOnce
    <2>10. \A x \in Service : queue'[x] # <<>> => queue[x] # <<>> /\ x # q[t]
      BY <1>7 DEF IInv, TypeOK, PopEmpty, ctxVars, sendVars, launchVars
    <2>11. NoLostQueue'
      BY <2>8, <2>9, <2>10 DEF IInv, NoLostQueue
    <2> QED BY <2>7, <2>11
  <1>8. ASSUME NEW t \in Worker, NextQueue(t)
        PROVE  ScheduledOnce' /\ NoLostQueue'
    <2>1. t \in Thread /\ pc[t] = "next" /\ lpc[t] = "none" /\ q[t] \in Service /\ nq[t] = None /\ new[t] = None
      BY <1>8, Locals DEF NextQueue, At, Settled, Thread, Batch, IInv, Shape
    <2>2. NoRepeat' /\ \A x : Queued(x)' <=> Queued(x) /\ x # Head(globalmq)
      BY <1>8, <2>1, TailQueued DEF NextQueue, IInv, ScheduledOnce
    <2>3. Head(globalmq) \in Service /\ Queued(Head(globalmq)) /\ ~ Owns(t, Head(globalmq))
      BY <1>8, <2>1, TailQueued DEF NextQueue, IInv, ScheduledOnce
    <2>4. \A u \in Thread, x \in Service :
            Owns(u, x)' <=> Owns(u, x) \/ (u = t /\ x = Head(globalmq))
      BY <1>8, <2>1, <2>3, DispatchAssumption DEF Owns, IInv, TypeOK,
           NextQueue, ctxVars, sendVars, launchVars
    <2>5. \A u \in Thread :
            u # t => nq'[u] = nq[u] /\ new'[u] = new[u] /\ q'[u] = q[u]
      BY <1>8, <2>1 DEF IInv, TypeOK, NextQueue, ctxVars, sendVars,
           launchVars
    <2>6. (nq'[t] # None => nq'[t] # q'[t]) /\ (new'[t] # None => new'[t] # q'[t])
      BY <1>8, <2>1, <2>3, DispatchAssumption DEF IInv, TypeOK,
           ScheduledOnce, Owns, NextQueue, ctxVars, sendVars, launchVars
    <2>7. ScheduledOnce'
      BY <2>1, <2>2, <2>3, <2>4, <2>5, <2>6 DEF IInv, ScheduledOnce
    <2>8. \A x \in Service : Announced(x)' <=> Announced(x)
      BY <1>8, <2>1, <2>3 DEF Announced, IInv, TypeOK, Lives, NextQueue,
           ctxVars, sendVars, launchVars
    <2>9. \A x \in Service : Scheduled(x)' <=> Scheduled(x)
      BY <2>1, <2>2, <2>3, <2>4 DEF Scheduled, IInv, ScheduledOnce
    <2>10. \A x \in Service : queue'[x] # <<>> => queue[x] # <<>>
      BY <1>8 DEF IInv, TypeOK, NextQueue, ctxVars, sendVars, launchVars
    <2>11. NoLostQueue'
      BY <2>8, <2>9, <2>10 DEF IInv, NoLostQueue
    <2> QED BY <2>7, <2>11
  <1>9. ASSUME NEW t \in Worker, PushBack(t)
        PROVE  ScheduledOnce' /\ NoLostQueue'
    <2>1. t \in Thread /\ pc[t] = "pushback" /\ lpc[t] = "none" /\ q[t] \in Service /\ nq[t] \in Service
          /\ new[t] = None /\ q[t] # nq[t]
      BY <1>9, Locals DEF PushBack, At, Settled, Thread, Batch, IInv, Shape,
           ScheduledOnce
    <2>2. Owns(t, q[t])
      BY <2>1 DEF Owns
    <2>3. NoRepeat' /\ \A x : Queued(x)' <=> Queued(x) \/ x = q[t]
      BY <1>9, <2>1, <2>2, AppendQueued DEF PushBack, IInv, ScheduledOnce
    <2>4. \A u \in Thread, x \in Service :
            Owns(u, x)' <=> Owns(u, x) /\ ~ (u = t /\ x = q[t])
      BY <1>9, <2>1, <2>3, DispatchAssumption DEF Owns, IInv, TypeOK,
           PushBack, ctxVars, sendVars, launchVars
    <2>5. \A u \in Thread :
            u # t => nq'[u] = nq[u] /\ new'[u] = new[u] /\ q'[u] = q[u]
      BY <1>9, <2>1 DEF IInv, TypeOK, PushBack, ctxVars, sendVars, launchVars
    <2>6. (nq'[t] # None => nq'[t] # q'[t]) /\ (new'[t] # None => new'[t] # q'[t])
      BY <1>9, <2>1, <2>3, DispatchAssumption DEF IInv, TypeOK,
           ScheduledOnce, Owns, PushBack, ctxVars, sendVars, launchVars
    <2>7. ScheduledOnce'
      BY <2>1, <2>2, <2>3, <2>4, <2>5, <2>6 DEF IInv, ScheduledOnce
    <2>8. \A x \in Service : Announced(x)' <=> Announced(x)
      BY <1>9, <2>1, <2>3 DEF Announced, IInv, TypeOK, Lives, PushBack,
           ctxVars, sendVars, launchVars
    <2>9. \A x \in Service : Scheduled(x)' <=> Scheduled(x)
      BY <2>1, <2>2, <2>3, <2>4 DEF Scheduled, IInv, ScheduledOnce
    <2>10. \A x \in Service : queue'[x] # <<>> => queue[x] # <<>>
      BY <1>9 DEF IInv, TypeOK, PushBack, ctxVars, sendVars, launchVars
    <2>11. NoLostQueue'
      BY <2>8, <2>9, <2>10 DEF IInv, NoLostQueue
    <2> QED BY <2>7, <2>11
  <1>10. ASSUME NEW t \in Worker, NEW s \in Service, BeginLaunch(t, s)
        PROVE  ScheduledOnce' /\ NoLostQueue'
    <2>1. t \in Thread /\ pc[t] = "run" /\ lpc[t] = "none" /\ q[t] \in Service /\ nq[t] = None /\ new[t] = None
      BY <1>10, Locals DEF BeginLaunch, At, Settled, Thread, Batch, IInv,
           Shape
    <2>2. NoRepeat' /\ \A x : Queued(x)' <=> Queued(x)
      BY <1>10 DEF BeginLaunch, IInv, ScheduledOnce, NoRepeat, Queued
    <2>3. ~ Announced(s) /\ ~ Queued(s) /\ \A u \in Thread : ~ Owns(u, s)
      BY <1>10, Unscheduled DEF BeginLaunch, IInv, Lives, Announced
    <2>4. \A u \in Thread, x \in Service :
            Owns(u, x)' <=> Owns(u, x) \/ (u = t /\ x = s)
      BY <1>10, <2>1, <2>3, DispatchAssumption DEF Owns, IInv, TypeOK,
           BeginLaunch, CreateQueue, loopVars, sendVars
    <2>5. \A u \in Thread :
            u # t => nq'[u] = nq[u] /\ new'[u] = new[u] /\ q'[u] = q[u]
      BY <1>10, <2>1 DEF IInv, TypeOK, BeginLaunch, CreateQueue, loopVars,
           sendVars
    <2>6. (nq'[t] # None => nq'[t] # q'[t]) /\ (new'[t] # None => new'[t] # q'[t])
      BY <1>10, <2>1, <2>3, DispatchAssumption DEF IInv, TypeOK,
           ScheduledOnce, Owns, BeginLaunch, CreateQueue, loopVars, sendVars
    <2>7. ScheduledOnce'
      BY <2>1, <2>2, <2>3, <2>4, <2>5, <2>6 DEF IInv, ScheduledOnce
    <2>8. \A x \in Service : Announced(x)' <=> Announced(x) \/ x = s
      BY <1>10, <2>1, <2>3 DEF Announced, IInv, TypeOK, Lives, BeginLaunch,
           CreateQueue, loopVars, sendVars
    <2>9. \A x \in Service : Scheduled(x)' <=> Scheduled(x) \/ x = s
      BY <2>1, <2>2, <2>3, <2>4 DEF Scheduled, IInv, ScheduledOnce
    <2>10. \A x \in Service : queue'[x] # <<>> => queue[x] # <<>>
      BY <1>10 DEF IInv, TypeOK, BeginLaunch, CreateQueue, loopVars, sendVars
    <2>11. NoLostQueue'
      BY <2>8, <2>9, <2>10 DEF IInv, NoLostQueue
    <2> QED BY <2>7, <2>11
  <1>11. ASSUME NEW t \in Worker, PushNew(t)
        PROVE  ScheduledOnce' /\ NoLostQueue'
    <2>1. t \in Thread /\ pc[t] = "run" /\ lpc[t] = "push" /\ q[t] \in Service
          /\ nq[t] = None /\ new[t] \in Service /\ new[t] # q[t]
      BY <1>11, Locals DEF PushNew, Launching, Settled, Thread, Batch, IInv,
           Shape, ScheduledOnce
    <2>2. Owns(t, new[t])
      BY <2>1 DEF Owns
    <2>3. NoRepeat' /\ \A x : Queued(x)' <=> Queued(x) \/ x = new[t]
      BY <1>11, <2>1, <2>2, AppendQueued DEF PushNew, IInv, ScheduledOnce
    <2>4. \A u \in Thread, x \in Service :
            Owns(u, x)' <=> Owns(u, x) /\ ~ (u = t /\ x = new[t])
      BY <1>11, <2>1, <2>3, DispatchAssumption DEF Owns, IInv, TypeOK,
           PushNew, ctxVars, loopVars, sendVars
    <2>5. \A u \in Thread :
            u # t => nq'[u] = nq[u] /\ new'[u] = new[u] /\ q'[u] = q[u]
      BY <1>11, <2>1 DEF IInv, TypeOK, PushNew, ctxVars, loopVars, sendVars
    <2>6. (nq'[t] # None => nq'[t] # q'[t]) /\ (new'[t] # None => new'[t] # q'[t])
      BY <1>11, <2>1, <2>3, DispatchAssumption DEF IInv, TypeOK,
           ScheduledOnce, Owns, PushNew, ctxVars, loopVars, sendVars
    <2>7. ScheduledOnce'
      BY <2>1, <2>2, <2>3, <2>4, <2>5, <2>6 DEF IInv, ScheduledOnce
    <2>8. \A x \in Service : Announced(x)' <=> Announced(x)
      BY <1>11, <2>1, <2>3 DEF Announced, IInv, TypeOK, Lives, PushNew,
           ctxVars, loopVars, sendVars
    <2>9. \A x \in Service : Scheduled(x)' <=> Scheduled(x)
      BY <2>1, <2>2, <2>3, <2>4 DEF Scheduled, IInv, ScheduledOnce
    <2>10. \A x \in Service : queue'[x] # <<>> => queue[x] # <<>>
      BY <1>11 DEF IInv, TypeOK, PushNew, ctxVars, loopVars, sendVars
    <2>11. NoLostQueue'
      BY <2>8, <2>9, <2>10 DEF IInv, NoLostQueue
    <2> QED BY <2>7, <2>11
  <1>12. ASSUME NEW t \in Worker, QueueOfFailed(t)
        PROVE  ScheduledOnce' /\ NoLostQueue'
    <2>1. CASE ~ MayDrop(new[t])
      <3>1. t \in Thread /\ pc[t] = "run" /\ lpc[t] = "mq_release" /\ q[t] \in Service
            /\ nq[t] = None /\ new[t] \in Service /\ new[t] # q[t]
        BY <1>12, <2>1, Locals DEF QueueOfFailed, Launching, Settled, Thread, Batch,
             IInv, Shape, ScheduledOnce
      <3>2. Owns(t, new[t])
        BY <3>1 DEF Owns
      <3>3. NoRepeat' /\ \A x : Queued(x)' <=> Queued(x) \/ x = new[t]
        BY <1>12, <2>1, <3>1, <3>2, AppendQueued DEF QueueOfFailed, Reschedule, MayDrop,
             IInv, ScheduledOnce
      <3>4. \A u \in Thread, x \in Service :
              Owns(u, x)' <=> Owns(u, x) /\ ~ (u = t /\ x = new[t])
        BY <1>12, <2>1, <3>1, <3>3, DispatchAssumption DEF Owns, IInv, TypeOK,
             QueueOfFailed, Reschedule, MayDrop, ctxVars, loopVars, sendVars
      <3>5. \A u \in Thread :
              u # t => nq'[u] = nq[u] /\ new'[u] = new[u] /\ q'[u] = q[u]
        BY <1>12, <2>1, <3>1 DEF IInv, TypeOK, QueueOfFailed, Reschedule, MayDrop,
             ctxVars, loopVars, sendVars
      <3>6. (nq'[t] # None => nq'[t] # q'[t]) /\ (new'[t] # None => new'[t] # q'[t])
        BY <1>12, <2>1, <3>1, <3>3, DispatchAssumption DEF IInv, TypeOK,
             ScheduledOnce, Owns, QueueOfFailed, Reschedule, MayDrop, ctxVars,
             loopVars, sendVars
      <3>7. ScheduledOnce'
        BY <3>1, <3>2, <3>3, <3>4, <3>5, <3>6 DEF IInv, ScheduledOnce
      <3>8. \A x \in Service : Announced(x)' <=> Announced(x)
        BY <1>12, <2>1, <3>1, <3>3 DEF Announced, IInv, TypeOK, Lives, QueueOfFailed,
             Reschedule, MayDrop, ctxVars, loopVars, sendVars
      <3>9. \A x \in Service : Scheduled(x)' <=> Scheduled(x)
        BY <3>1, <3>2, <3>3, <3>4 DEF Scheduled, IInv, ScheduledOnce
      <3>10. \A x \in Service : queue'[x] # <<>> => queue[x] # <<>>
        BY <1>12, <2>1 DEF IInv, TypeOK, QueueOfFailed, Reschedule, MayDrop, ctxVars,
             loopVars, sendVars
      <3>11. NoLostQueue'
        BY <3>8, <3>9, <3>10 DEF IInv, NoLostQueue
      <3> QED BY <3>7, <3>11
    <2>2. CASE MayDrop(new[t])
      <3>1. UNCHANGED <<globalmq, q, nq, new, queue, mq, in_global, release>>
        BY <1>12, <2>2 DEF QueueOfFailed, Reschedule, launchVars, loopVars
      <3> QED BY <3>1 DEF IInv, ScheduledOnce, NoRepeat, NoLostQueue, Announced,
                    Scheduled, Owns, Queued
    <2> QED BY <2>1, <2>2
  <1>13. ASSUME NEW t \in Worker, DropFailed(t)
        PROVE  ScheduledOnce' /\ NoLostQueue'
    <2>1. UNCHANGED <<globalmq, q, nq, new, mq, in_global, release>>
      BY <1>13 DEF DropFailed, DropMessage, sendVars, ctxVars, loopVars,
           launchVars
    <2>2. new[t] \in Service
      BY <1>13, Locals DEF DropFailed, Launching, Settled, Batch, Thread
    <2>3. \A x \in Service : queue'[x] # <<>> => queue[x] # <<>>
      BY <1>13, <2>2 DEF IInv, TypeOK, DropFailed, DropMessage
    <2> QED BY <2>1, <2>3 DEF IInv, ScheduledOnce, NoRepeat, NoLostQueue, Announced,
                Scheduled, Owns, Queued
  <1>14. ASSUME NEW t \in Worker, DropFailedDone(t)
        PROVE  ScheduledOnce' /\ NoLostQueue'
    <2>1. t \in Thread /\ pc[t] = "run" /\ lpc[t] = "drop" /\ q[t] \in Service
          /\ nq[t] = None /\ new[t] \in Service /\ new[t] # q[t] /\ release[new[t]]
      BY <1>14, Locals DEF DropFailedDone, Launching, Settled, Thread, Batch,
           IInv, Shape, Dispatching, ScheduledOnce
    <2>2. Owns(t, new[t])
      BY <2>1 DEF Owns
    <2>3. NoRepeat' /\ \A x : Queued(x)' <=> Queued(x)
      BY <1>14 DEF DropFailedDone, IInv, ScheduledOnce, NoRepeat, Queued
    <2>4. \A u \in Thread, x \in Service :
            Owns(u, x)' <=> Owns(u, x) /\ ~ (u = t /\ x = new[t])
      BY <1>14, <2>1, <2>3, DispatchAssumption DEF Owns, IInv, TypeOK,
           DropFailedDone, FreeQueue, ctxVars, loopVars, sendVars
    <2>5. \A u \in Thread :
            u # t => nq'[u] = nq[u] /\ new'[u] = new[u] /\ q'[u] = q[u]
      BY <1>14, <2>1 DEF IInv, TypeOK, DropFailedDone, FreeQueue, ctxVars,
           loopVars, sendVars
    <2>6. (nq'[t] # None => nq'[t] # q'[t]) /\ (new'[t] # None => new'[t] # q'[t])
      BY <1>14, <2>1, <2>3, DispatchAssumption DEF IInv, TypeOK,
           ScheduledOnce, Owns, DropFailedDone, FreeQueue, ctxVars, loopVars,
           sendVars
    <2>7. ScheduledOnce'
      BY <2>1, <2>2, <2>3, <2>4, <2>5, <2>6 DEF IInv, ScheduledOnce
    <2>8. \A x \in Service : Announced(x)' <=> Announced(x) /\ x # new[t]
      BY <1>14, <2>1, <2>3 DEF Announced, IInv, TypeOK, Lives, DropFailedDone,
           FreeQueue, ctxVars, loopVars, sendVars
    <2>9. \A x \in Service : Scheduled(x)' <=> Scheduled(x) /\ x # new[t]
      BY <2>1, <2>2, <2>3, <2>4 DEF Scheduled, IInv, ScheduledOnce
    <2>10. \A x \in Service : queue'[x] # <<>> => queue[x] # <<>> /\ x # new[t]
      BY <1>14 DEF IInv, TypeOK, DropFailedDone, FreeQueue, ctxVars, loopVars,
           sendVars
    <2>11. NoLostQueue'
      BY <2>8, <2>9, <2>10 DEF IInv, NoLostQueue
    <2> QED BY <2>7, <2>11
  <1>15. ASSUME NEW t \in Thread, PushMessage(t)
        PROVE  ScheduledOnce' /\ NoLostQueue'
    <2>1. dst[t] \in Service /\ mq[dst[t]] = "live" /\ ~ release[dst[t]]
      BY <1>15, Locals, Referenced DEF PushMessage, SendRefs
    <2>2. \A u \in Thread, x \in Service : Owns(u, x)' <=> Owns(u, x)
      BY <1>15 DEF PushMessage, Owns, loopVars, launchVars
    <2>3. NoRepeat' /\ \A x : Queued(x)' <=> Queued(x) \/ (x = dst[t] /\ ~ in_global[dst[t]])
      <3>1. CASE in_global[dst[t]]
        <4>1. globalmq' = globalmq
          BY <1>15, <3>1 DEF PushMessage, Schedule
        <4> QED BY <4>1, <3>1 DEF IInv, ScheduledOnce, NoRepeat, Queued
      <3>2. CASE ~ in_global[dst[t]]
        BY <1>15, <2>1, <3>2, AppendQueued, Unscheduled DEF PushMessage,
           Schedule, IInv, ScheduledOnce
      <3> QED BY <3>1, <3>2
    <2>4. ScheduledOnce'
      BY <1>15, <2>1, <2>2, <2>3, Unscheduled DEF IInv, ScheduledOnce,
           PushMessage, loopVars, launchVars
    <2>5. \A x \in Service : Announced(x)' <=> Announced(x) \/ x = dst[t]
      BY <1>15, <2>1 DEF Announced, IInv, TypeOK, PushMessage
    <2>6. in_global[dst[t]] => Announced(dst[t])
      BY <2>1 DEF Announced
    <2>7. \A x \in Service : Scheduled(x)' <=> Scheduled(x) \/ x = dst[t]
      BY <2>1, <2>2, <2>3, <2>6 DEF Scheduled, IInv, NoLostQueue
    <2>8. \A x \in Service : queue'[x] # <<>> => queue[x] # <<>> \/ x = dst[t]
      BY <1>15, <2>1 DEF IInv, TypeOK, PushMessage
    <2>9. NoLostQueue'
      BY <2>1, <2>5, <2>7, <2>8 DEF IInv, NoLostQueue
    <2> QED BY <2>4, <2>9
  <1>16. ASSUME NEW t \in Thread, DeleteContext(t)
        PROVE  ScheduledOnce' /\ NoLostQueue'
    <2>1. del[t] \in Service /\ mq[del[t]] = "live" /\ ~ release[del[t]]
      <3>1. del[t] \in Service /\ ctx[del[t]] = "live" /\ ~ release[del[t]]
        BY <1>16, Locals DEF DeleteContext, IInv, DeletedOnce
      <3> QED BY <3>1 DEF IInv, TypeOK, Lives
    <2>2. \A u \in Thread, x \in Service : Owns(u, x)' <=> Owns(u, x)
      BY <1>16 DEF DeleteContext, Owns, loopVars, launchVars
    <2>3. NoRepeat' /\ \A x : Queued(x)' <=> Queued(x) \/ (x = del[t] /\ ~ in_global[del[t]])
      <3>1. CASE in_global[del[t]]
        <4>1. globalmq' = globalmq
          BY <1>16, <3>1 DEF DeleteContext, Schedule
        <4> QED BY <4>1, <3>1 DEF IInv, ScheduledOnce, NoRepeat, Queued
      <3>2. CASE ~ in_global[del[t]]
        BY <1>16, <2>1, <3>2, AppendQueued, Unscheduled DEF DeleteContext,
           Schedule, IInv, ScheduledOnce
      <3> QED BY <3>1, <3>2
    <2>4. ScheduledOnce'
      BY <1>16, <2>1, <2>2, <2>3, Unscheduled DEF IInv, ScheduledOnce,
           DeleteContext, loopVars, launchVars
    <2>5. \A x \in Service : Announced(x)' <=> Announced(x) \/ x = del[t]
      BY <1>16, <2>1 DEF Announced, IInv, TypeOK, DeleteContext
    <2>6. in_global[del[t]] => Announced(del[t])
      BY <2>1 DEF Announced
    <2>7. \A x \in Service : Scheduled(x)' <=> Scheduled(x) \/ x = del[t]
      BY <2>1, <2>2, <2>3, <2>6 DEF Scheduled, IInv, NoLostQueue
    <2>8. \A x \in Service : queue'[x] # <<>> => queue[x] # <<>> \/ x = del[t]
      BY <1>16, <2>1 DEF IInv, TypeOK, DeleteContext
    <2>9. NoLostQueue'
      BY <2>1, <2>5, <2>7, <2>8 DEF IInv, NoLostQueue
    <2> QED BY <2>4, <2>9
  <1>17. ASSUME NEW t \in Worker,
                GrabOwner(t) \/ BatchSize(t) \/ CallbackReturns(t) \/
                KeepQueue(t) \/ ReleaseOwner(t) \/ InitSucceeds(t) \/
                SetInit(t) \/ InitFails(t) \/ RetireFailed(t)
        PROVE  UNCHANGED <<globalmq, q, nq, new, queue, mq, in_global, release>>
    BY <1>17 DEF GrabOwner, BatchSize, CallbackReturns, KeepQueue,
       ReleaseOwner, InitSucceeds, SetInit, InitFails, RetireFailed, ctxVars,
       launchVars, loopVars, mqVars, sendVars
  <1>18. ASSUME NEW t \in Worker, NEW s \in Service,
                CallbackSends(t, s) \/ CallbackKills(t, s)
        PROVE  UNCHANGED <<globalmq, q, nq, new, queue, mq, in_global, release>>
    BY <1>18 DEF CallbackSends, CallbackKills, ctxVars, launchVars, loopVars,
       mqVars, sendVars
  <1>19. ASSUME NEW t \in Sender, NEW s \in Service,
                ExternalSends(t, s)
        PROVE  UNCHANGED <<globalmq, q, nq, new, queue, mq, in_global, release>>
    BY <1>19 DEF ExternalSends, ctxVars, launchVars, loopVars, mqVars
  <1>20. ASSUME NEW t \in Thread,
                GrabDestination(t) \/ ReleaseDestination(t)
        PROVE  UNCHANGED <<globalmq, q, nq, new, queue, mq, in_global, release>>
    BY <1>20 DEF GrabDestination, ReleaseDestination, launchVars, loopVars,
       mqVars
  <1> QED BY <1>1, <1>2, <1>3, <1>4, <1>5, <1>6, <1>7, <1>8, <1>9, <1>10,
           <1>11, <1>12, <1>13, <1>14, <1>15, <1>16, <1>17, <1>18, <1>19,
           <1>20 DEF Next, Dispatch, Callback, Launch, SendStep


\* A step that neither takes nor drops a reference.
LEMMA SameRefs ==
  ASSUME IInv, UNCHANGED <<ref, ctx, del, release>>,
         \A x \in Service : RefsOf(x)' = RefsOf(x)
  PROVE  RefCounted' /\ DeletedOnce'
  BY DEF IInv, RefCounted, DeletedOnce

\* A step that takes a reference to a live context.
LEMMA GrabStep ==
  ASSUME IInv, NEW s \in Service, ref[s] > 0, Grab(s), UNCHANGED <<ctx, del, release>>,
         \A x \in Service : RefsOf(x)' = IF x = s THEN RefsOf(x) + 1 ELSE RefsOf(x)
  PROVE  RefCounted' /\ DeletedOnce'
  <1>1. ref \in [Service -> Nat]
    BY DEF IInv, TypeOK
  <1>2. /\ ref'[s] = ref[s] + 1 /\ ref'[s] > 0
        /\ \A x \in Service : x # s => ref'[x] = ref[x]
    BY <1>1 DEF Grab
  <1>3. RefCounted'
    BY <1>2 DEF IInv, RefCounted
  <1>4. DeletedOnce'
    BY <1>1, <1>2 DEF IInv, DeletedOnce
  <1> QED BY <1>3, <1>4

\* A step that drops a reference, maybe the last one.
LEMMA ReleaseStep ==
  ASSUME IInv, NEW t \in Thread, NEW s \in Service, ref[s] > 0, del[t] = None,
         Release(t, s), UNCHANGED <<ctx, release>>,
         \A x \in Service : RefsOf(x)' = IF x = s THEN RefsOf(x) - 1 ELSE RefsOf(x)
  PROVE  RefCounted' /\ DeletedOnce'
  <1>1. ref \in [Service -> Nat] /\ del \in [Thread -> Maybe]
    BY DEF IInv, TypeOK
  <1>2. /\ ref'[s] = ref[s] - 1
        /\ \A x \in Service : x # s => ref'[x] = ref[x]
        /\ ref'[s] > 0 => del' = del
        /\ ~ (ref'[s] > 0) => ref'[s] = 0 /\ del' = [del EXCEPT ![t] = s]
    BY <1>1 DEF Release
  <1>3. /\ ctx[s] = "live" /\ ~ release[s]
        /\ \A u \in Thread : del[u] # s
    BY Referenced, <1>1 DEF IInv, RefCounted, DeletedOnce, Lives
  <1>4. \A u \in Thread, x \in Service :
          del'[u] = x <=> del[u] = x \/ (u = t /\ x = s /\ ~ (ref'[s] > 0))
    BY <1>1, <1>2, DispatchAssumption
  <1>5. RefCounted'
    BY <1>1, <1>2, <1>3, <1>4 DEF IInv, RefCounted
  <1>6. DeletedOnce'
    BY <1>1, <1>2, <1>3, <1>4 DEF IInv, DeletedOnce
  <1> QED BY <1>5, <1>6

\* skynet_handle_retire.
LEMMA RetireStep ==
  ASSUME IInv, NEW t \in Thread, NEW s \in Service, del[t] = None, Retire(t, s),
         UNCHANGED <<ctx, release>>,
         \A x \in Service : /\ DispatchRefs(x)' = DispatchRefs(x)
                            /\ SendRefs(x)' = SendRefs(x)
                            /\ LaunchRefs(x)' = LaunchRefs(x)
  PROVE  RefCounted' /\ DeletedOnce'
  <1>1. CASE slot[s]
    <2>1. \A x \in Service : slot'[x] <=> slot[x] /\ x # s
      BY <1>1 DEF Retire, IInv, TypeOK
    <2>2. \A x \in Service :
            RefsOf(x)' = IF x = s THEN RefsOf(x) - 1 ELSE RefsOf(x)
      BY <1>1, <2>1, RefsFinite DEF RefsOf
    <2>3. Release(t, s) /\ ref[s] > 0
      BY <1>1, Referenced DEF Retire
    <2> QED BY <2>2, <2>3, ReleaseStep
  <1>2. CASE ~ slot[s]
    <2>1. UNCHANGED <<slot, ref, del>>
      BY <1>2 DEF Retire
    <2>2. \A x \in Service : RefsOf(x)' = RefsOf(x)
      BY <2>1 DEF RefsOf
    <2> QED BY <2>1, <2>2, SameRefs
  <1> QED BY <1>1, <1>2

\* The reference counts.
LEMMA StepRefs ==
  ASSUME IInv, Next
  PROVE  RefCounted' /\ DeletedOnce'
  <1>1. CASE UNCHANGED <<ref, slot, held, call, dst, lpc, new, ctx, del, release>>
    <2>1. \A x \in Service : RefsOf(x)' = RefsOf(x)
      BY <1>1 DEF RefsOf, DispatchRefs, SendRefs, LaunchRefs
    <2> QED BY <1>1, <2>1, SameRefs
  <1>2. ASSUME NEW t \in Worker, GrabOwner(t)
        PROVE  RefCounted' /\ DeletedOnce'
    <2>1. CASE slot[q[t]]
      <3>1. t \in Thread /\ del[t] = None /\ q[t] \in Service
        BY <1>2, <2>1, Locals DEF GrabOwner, At, Settled, Thread, Batch
      <3>2. t \notin DispatchRefs(q[t])
        BY <1>2, <2>1, <3>1, DispatchAssumption DEF DispatchRefs, GrabOwner, At,
             Settled, Batch, Shape, IInv
      <3>3. /\ ref[q[t]] > 0 /\ Grab(q[t])
            /\ UNCHANGED <<slot, ctx, del, release>>
        BY <1>2, <2>1, <3>1, <3>2, Referenced DEF GrabOwner, mqVars, sendVars,
             launchVars
      <3>4. \A x \in Service :
              DispatchRefs(x)' = IF x = q[t] THEN DispatchRefs(x) \cup {t} ELSE DispatchRefs(x)
        <4>1. held' = [held EXCEPT ![t] = q[t]] /\ held[t] = None /\ held \in [Thread -> Maybe]
          BY <1>2, <2>1 DEF GrabOwner, IInv, TypeOK, Shape, At, Batch, Thread
        <4> QED BY <4>1, <3>1, DispatchAssumption DEF DispatchRefs
      <3>5. \A x \in Service : SendRefs(x)' = SendRefs(x) /\ LaunchRefs(x)' = LaunchRefs(x)
        BY <1>2, <2>1 DEF GrabOwner, SendRefs, LaunchRefs, mqVars, sendVars,
             launchVars
      <3>6. \A x \in Service : Cardinality(DispatchRefs(x)') =
              IF x = q[t] THEN Cardinality(DispatchRefs(x)) + 1 ELSE Cardinality(DispatchRefs(x))
        BY <3>2, <3>4, RefsFinite, FS_AddElement
      <3>7. \A x \in Service :
              RefsOf(x)' = IF x = q[t] THEN RefsOf(x) + 1 ELSE RefsOf(x)
        <4> TAKE x \in Service
        <4>1. x # q[t] => RefsOf(x)' = RefsOf(x)
          BY <3>3, <3>5, <3>6 DEF RefsOf
        <4>2. x = q[t] => RefsOf(x)' = RefsOf(x) + 1
          BY <3>3, <3>5, <3>6, RefsFinite DEF RefsOf
        <4> QED BY <4>1, <4>2
      <3> QED BY <3>1, <3>3, <3>7, GrabStep
    <2>2. CASE ~ slot[q[t]]
      <3>1. \A x \in Service : /\ DispatchRefs(x)' = DispatchRefs(x)
                               /\ SendRefs(x)' = SendRefs(x)
                               /\ LaunchRefs(x)' = LaunchRefs(x)
        BY <1>2, <2>2, DispatchAssumption DEF DispatchRefs, SendRefs,
           LaunchRefs, IInv, TypeOK, Shape, Thread, GrabOwner, Goto, Grab, At,
           Settled, mqVars, sendVars, launchVars
      <3>2. UNCHANGED <<ref, slot, ctx, del, release>>
        BY <1>2, <2>2 DEF GrabOwner, mqVars, sendVars, launchVars
      <3>3. \A x \in Service : RefsOf(x)' = RefsOf(x)
        BY <3>1, <3>2 DEF RefsOf
      <3> QED BY <3>2, <3>3, SameRefs
    <2> QED BY <2>1, <2>2
  <1>3. ASSUME NEW t \in Worker, DropOne(t)
        PROVE  RefCounted' /\ DeletedOnce'
    <2>1. \A x \in Service : /\ DispatchRefs(x)' = DispatchRefs(x)
                             /\ SendRefs(x)' = SendRefs(x)
                             /\ LaunchRefs(x)' = LaunchRefs(x)
      BY <1>3, DispatchAssumption DEF DispatchRefs, SendRefs, LaunchRefs,
           IInv, TypeOK, Shape, Thread, DropOne, DropMessage, BeginSend,
           sendVars, At, Settled, ctxVars, loopVars, launchVars
    <2>2. UNCHANGED <<ref, slot, ctx, del, release>>
      BY <1>3 DEF DropOne, sendVars, ctxVars, loopVars, launchVars
    <2>3. \A x \in Service : RefsOf(x)' = RefsOf(x)
      BY <2>1, <2>2 DEF RefsOf
    <2> QED BY <2>2, <2>3, SameRefs
  <1>4. ASSUME NEW t \in Worker, ReleaseOwner(t)
        PROVE  RefCounted' /\ DeletedOnce'
    <2>1. t \in Thread /\ del[t] = None /\ held[t] \in Service
      BY <1>4, Locals DEF ReleaseOwner, At, Settled, Thread, Batch
    <2>2. t \in DispatchRefs(held[t])
      BY <1>4, <2>1, DispatchAssumption DEF DispatchRefs, ReleaseOwner, At,
           Settled, Batch, Shape, IInv
    <2>3. /\ ref[held[t]] > 0 /\ Release(t, held[t])
          /\ UNCHANGED <<slot, ctx, release>>
      BY <1>4, <2>1, <2>2, Referenced DEF ReleaseOwner, mqVars, sendVars,
           launchVars
    <2>4. \A x \in Service :
            DispatchRefs(x)' = IF x = held[t] THEN DispatchRefs(x) \ {t} ELSE DispatchRefs(x)
      BY <1>4, <2>1, <2>2, DispatchAssumption DEF DispatchRefs, IInv, TypeOK,
           Shape, Thread, ReleaseOwner, Goto, Release, At, Settled, mqVars,
           sendVars, launchVars
    <2>5. \A x \in Service : SendRefs(x)' = SendRefs(x) /\ LaunchRefs(x)' = LaunchRefs(x)
      BY <1>4 DEF ReleaseOwner, SendRefs, LaunchRefs, mqVars, sendVars,
           launchVars
    <2>6. \A x \in Service : Cardinality(DispatchRefs(x)') =
            IF x = held[t] THEN Cardinality(DispatchRefs(x)) - 1 ELSE Cardinality(DispatchRefs(x))
      BY <2>2, <2>4, RefsFinite, FS_RemoveElement
    <2>7. \A x \in Service :
            RefsOf(x)' = IF x = held[t] THEN RefsOf(x) - 1 ELSE RefsOf(x)
      <3> TAKE x \in Service
      <3>1. x # held[t] => RefsOf(x)' = RefsOf(x)
        BY <2>3, <2>5, <2>6 DEF RefsOf
      <3>2. x = held[t] => RefsOf(x)' = RefsOf(x) - 1
        BY <2>3, <2>5, <2>6, RefsFinite DEF RefsOf
      <3> QED BY <3>1, <3>2
    <2> QED BY <2>1, <2>3, <2>7, ReleaseStep
  <1>5. ASSUME NEW t \in Worker, NEW s \in Service, CallbackSends(t, s)
        PROVE  RefCounted' /\ DeletedOnce'
    <2>1. \A x \in Service : /\ DispatchRefs(x)' = DispatchRefs(x)
                             /\ SendRefs(x)' = SendRefs(x)
                             /\ LaunchRefs(x)' = LaunchRefs(x)
      BY <1>5, DispatchAssumption DEF DispatchRefs, SendRefs, LaunchRefs,
           IInv, TypeOK, Shape, Thread, CallbackSends, BeginSend, InCallback,
           At, Settled, Launching, ctxVars, mqVars, loopVars,
           launchVars
    <2>2. UNCHANGED <<ref, slot, ctx, del, release>>
      BY <1>5 DEF CallbackSends, ctxVars, mqVars, loopVars, launchVars
    <2>3. \A x \in Service : RefsOf(x)' = RefsOf(x)
      BY <2>1, <2>2 DEF RefsOf
    <2> QED BY <2>2, <2>3, SameRefs
  <1>6. ASSUME NEW t \in Worker, NEW s \in Service, CallbackKills(t, s)
        PROVE  RefCounted' /\ DeletedOnce'
    <2>1. t \in Thread /\ del[t] = None /\ s \in Service
      BY <1>6, Locals DEF CallbackKills, InCallback, At, Launching, Settled,
           Thread
    <2>2. Retire(t, s) /\ UNCHANGED <<ctx, release>>
      BY <1>6 DEF CallbackKills, mqVars, loopVars, sendVars, launchVars
    <2>3. \A x \in Service : /\ DispatchRefs(x)' = DispatchRefs(x)
                             /\ SendRefs(x)' = SendRefs(x)
                             /\ LaunchRefs(x)' = LaunchRefs(x)
      BY <1>6 DEF DispatchRefs, SendRefs, LaunchRefs, IInv, TypeOK,
           CallbackKills, Launching, mqVars, loopVars, sendVars, launchVars
    <2> QED BY <2>1, <2>2, <2>3, RetireStep
  <1>7. ASSUME NEW t \in Worker, NEW s \in Service, BeginLaunch(t, s)
        PROVE  RefCounted' /\ DeletedOnce'
    <2>1. t \in Thread /\ ctx[s] = "none" /\ slot[s] = FALSE /\ ref[s] = 0
          /\ mq[s] # "live" /\ ~ release[s]
      BY <1>7 DEF BeginLaunch, Thread, IInv, Lives, TypeOK
    <2>2. DispatchRefs(s) = {} /\ SendRefs(s) = {} /\ LaunchRefs(s) = {}
      BY <2>1, Referenced
    <2>3. \A x \in Service :
            LaunchRefs(x)' = IF x = s THEN {t} ELSE LaunchRefs(x)
      BY <1>7, <2>1, <2>2 DEF LaunchRefs, IInv, TypeOK, Shape, BeginLaunch, LaunchGoto,
           At
    <2>4. \A x \in Service : /\ DispatchRefs(x)' = DispatchRefs(x)
                             /\ SendRefs(x)' = SendRefs(x)
      BY <1>7 DEF DispatchRefs, SendRefs, BeginLaunch, loopVars, sendVars
    <2>5. \A x \in Service : RefsOf(x)' = IF x = s THEN 2 ELSE RefsOf(x)
      <3> TAKE x \in Service
      <3>1. slot'[x] = IF x = s THEN TRUE ELSE slot[x]
        BY <1>7 DEF BeginLaunch, IInv, TypeOK
      <3>2. x # s => RefsOf(x)' = RefsOf(x)
        BY <3>1, <2>3, <2>4 DEF RefsOf
      <3>3. x = s => RefsOf(x)' = 2
        <4>1. Cardinality({t}) = 1 /\ Cardinality({}) = 0
          BY FS_Singleton, FS_EmptySet
        <4> QED BY <3>1, <2>2, <2>3, <2>4, <4>1 DEF RefsOf
      <3> QED BY <3>2, <3>3
    <2>6. \A x \in Service : /\ ref'[x] = IF x = s THEN 2 ELSE ref[x]
                             /\ ctx'[x] = IF x = s THEN "live" ELSE ctx[x]
      BY <1>7 DEF BeginLaunch, IInv, TypeOK
    <2>7. UNCHANGED <<del, release>>
      BY <1>7 DEF BeginLaunch
    <2>8. RefCounted'
      BY <2>5, <2>6, <2>7 DEF IInv, RefCounted
    <2>9. DeletedOnce'
      BY <2>1, <2>6, <2>7 DEF IInv, DeletedOnce
    <2> QED BY <2>8, <2>9
  <1>8. ASSUME NEW t \in Worker, InitSucceeds(t)
        PROVE  RefCounted' /\ DeletedOnce'
    <2>1. t \in Thread /\ del[t] = None /\ new[t] \in Service
      BY <1>8, Locals DEF InitSucceeds, Launching, Settled, Thread, Batch
    <2>2. t \in LaunchRefs(new[t])
      BY <1>8, <2>1, DispatchAssumption DEF LaunchRefs, InitSucceeds,
           Launching, Settled, Batch, Shape, IInv
    <2>3. /\ ref[new[t]] > 0 /\ Release(t, new[t])
          /\ UNCHANGED <<slot, ctx, release>>
      BY <1>8, <2>1, <2>2, Referenced DEF InitSucceeds, mqVars, loopVars,
           sendVars
    <2>4. \A x \in Service :
            LaunchRefs(x)' = IF x = new[t] THEN LaunchRefs(x) \ {t} ELSE LaunchRefs(x)
      BY <1>8, <2>1, <2>2, DispatchAssumption DEF LaunchRefs, IInv, TypeOK,
           Shape, Thread, InitSucceeds, LaunchGoto, Release, Launching,
           Settled, mqVars, loopVars, sendVars
    <2>5. \A x \in Service : DispatchRefs(x)' = DispatchRefs(x) /\ SendRefs(x)' = SendRefs(x)
      BY <1>8 DEF InitSucceeds, DispatchRefs, SendRefs, mqVars, loopVars,
           sendVars
    <2>6. \A x \in Service : Cardinality(LaunchRefs(x)') =
            IF x = new[t] THEN Cardinality(LaunchRefs(x)) - 1 ELSE Cardinality(LaunchRefs(x))
      BY <2>2, <2>4, RefsFinite, FS_RemoveElement
    <2>7. \A x \in Service :
            RefsOf(x)' = IF x = new[t] THEN RefsOf(x) - 1 ELSE RefsOf(x)
      <3> TAKE x \in Service
      <3>1. x # new[t] => RefsOf(x)' = RefsOf(x)
        BY <2>3, <2>5, <2>6 DEF RefsOf
      <3>2. x = new[t] => RefsOf(x)' = RefsOf(x) - 1
        BY <2>3, <2>5, <2>6, RefsFinite DEF RefsOf
      <3> QED BY <3>1, <3>2
    <2> QED BY <2>1, <2>3, <2>7, ReleaseStep
  <1>9. ASSUME NEW t \in Worker, SetInit(t)
        PROVE  RefCounted' /\ DeletedOnce'
    <2>1. \A x \in Service : /\ DispatchRefs(x)' = DispatchRefs(x)
                             /\ SendRefs(x)' = SendRefs(x)
                             /\ LaunchRefs(x)' = LaunchRefs(x)
      BY <1>9, DispatchAssumption DEF DispatchRefs, SendRefs, LaunchRefs,
           IInv, TypeOK, Shape, Thread, SetInit, LaunchGoto, Launching,
           Settled, mqVars, loopVars, sendVars
    <2>2. UNCHANGED <<ref, slot, ctx, del, release>>
      BY <1>9 DEF SetInit, mqVars, loopVars, sendVars
    <2>3. \A x \in Service : RefsOf(x)' = RefsOf(x)
      BY <2>1, <2>2 DEF RefsOf
    <2> QED BY <2>2, <2>3, SameRefs
  <1>10. ASSUME NEW t \in Worker, PushNew(t)
        PROVE  RefCounted' /\ DeletedOnce'
    <2>1. \A x \in Service : /\ DispatchRefs(x)' = DispatchRefs(x)
                             /\ SendRefs(x)' = SendRefs(x)
                             /\ LaunchRefs(x)' = LaunchRefs(x)
      BY <1>10, DispatchAssumption DEF DispatchRefs, SendRefs, LaunchRefs,
           IInv, TypeOK, Shape, Thread, PushNew, LaunchGoto, Launching,
           Settled, ctxVars, loopVars, sendVars
    <2>2. UNCHANGED <<ref, slot, ctx, del, release>>
      BY <1>10 DEF PushNew, ctxVars, loopVars, sendVars
    <2>3. \A x \in Service : RefsOf(x)' = RefsOf(x)
      BY <2>1, <2>2 DEF RefsOf
    <2> QED BY <2>2, <2>3, SameRefs
  <1>11. ASSUME NEW t \in Worker, InitFails(t)
        PROVE  RefCounted' /\ DeletedOnce'
    <2>1. t \in Thread /\ del[t] = None /\ new[t] \in Service
      BY <1>11, Locals DEF InitFails, Launching, Settled, Thread, Batch
    <2>2. t \in LaunchRefs(new[t])
      BY <1>11, <2>1, DispatchAssumption DEF LaunchRefs, InitFails, Launching,
           Settled, Batch, Shape, IInv
    <2>3. /\ ref[new[t]] > 0 /\ Release(t, new[t])
          /\ UNCHANGED <<slot, ctx, release>>
      BY <1>11, <2>1, <2>2, Referenced DEF InitFails, mqVars, loopVars,
           sendVars
    <2>4. \A x \in Service :
            LaunchRefs(x)' = IF x = new[t] THEN LaunchRefs(x) \ {t} ELSE LaunchRefs(x)
      BY <1>11, <2>1, <2>2, DispatchAssumption DEF LaunchRefs, IInv, TypeOK,
           Shape, Thread, InitFails, LaunchGoto, Release, Launching, Settled,
           mqVars, loopVars, sendVars
    <2>5. \A x \in Service : DispatchRefs(x)' = DispatchRefs(x) /\ SendRefs(x)' = SendRefs(x)
      BY <1>11 DEF InitFails, DispatchRefs, SendRefs, mqVars, loopVars,
           sendVars
    <2>6. \A x \in Service : Cardinality(LaunchRefs(x)') =
            IF x = new[t] THEN Cardinality(LaunchRefs(x)) - 1 ELSE Cardinality(LaunchRefs(x))
      BY <2>2, <2>4, RefsFinite, FS_RemoveElement
    <2>7. \A x \in Service :
            RefsOf(x)' = IF x = new[t] THEN RefsOf(x) - 1 ELSE RefsOf(x)
      <3> TAKE x \in Service
      <3>1. x # new[t] => RefsOf(x)' = RefsOf(x)
        BY <2>3, <2>5, <2>6 DEF RefsOf
      <3>2. x = new[t] => RefsOf(x)' = RefsOf(x) - 1
        BY <2>3, <2>5, <2>6, RefsFinite DEF RefsOf
      <3> QED BY <3>1, <3>2
    <2> QED BY <2>1, <2>3, <2>7, ReleaseStep
  <1>12. ASSUME NEW t \in Worker, RetireFailed(t)
        PROVE  RefCounted' /\ DeletedOnce'
    <2>1. t \in Thread /\ del[t] = None /\ new[t] \in Service
      BY <1>12, Locals DEF RetireFailed, Launching, Settled, Thread
    <2>2. Retire(t, new[t]) /\ UNCHANGED <<ctx, release>>
      BY <1>12 DEF RetireFailed, mqVars, loopVars, sendVars
    <2>3. \A x \in Service : /\ DispatchRefs(x)' = DispatchRefs(x)
                             /\ SendRefs(x)' = SendRefs(x)
                             /\ LaunchRefs(x)' = LaunchRefs(x)
      BY <1>12 DEF DispatchRefs, SendRefs, LaunchRefs, IInv, TypeOK,
           RetireFailed, LaunchGoto, Launching, mqVars, loopVars, sendVars
    <2> QED BY <2>1, <2>2, <2>3, RetireStep
  <1>13. ASSUME NEW t \in Worker, QueueOfFailed(t)
        PROVE  RefCounted' /\ DeletedOnce'
    <2>1. \A x \in Service : /\ DispatchRefs(x)' = DispatchRefs(x)
                             /\ SendRefs(x)' = SendRefs(x)
                             /\ LaunchRefs(x)' = LaunchRefs(x)
      BY <1>13, DispatchAssumption DEF DispatchRefs, SendRefs, LaunchRefs,
           IInv, TypeOK, Shape, Thread, QueueOfFailed, LaunchGoto, Reschedule,
           MayDrop, Launching, Settled, ctxVars, loopVars, sendVars
    <2>2. UNCHANGED <<ref, slot, ctx, del, release>>
      BY <1>13 DEF QueueOfFailed, ctxVars, loopVars, sendVars
    <2>3. \A x \in Service : RefsOf(x)' = RefsOf(x)
      BY <2>1, <2>2 DEF RefsOf
    <2> QED BY <2>2, <2>3, SameRefs
  <1>14. ASSUME NEW t \in Worker, DropFailed(t)
        PROVE  RefCounted' /\ DeletedOnce'
    <2>1. \A x \in Service : /\ DispatchRefs(x)' = DispatchRefs(x)
                             /\ SendRefs(x)' = SendRefs(x)
                             /\ LaunchRefs(x)' = LaunchRefs(x)
      BY <1>14, DispatchAssumption DEF DispatchRefs, SendRefs, LaunchRefs,
           IInv, TypeOK, Shape, Thread, DropFailed, DropMessage, BeginSend,
           sendVars, Launching, Settled, ctxVars, loopVars, launchVars
    <2>2. UNCHANGED <<ref, slot, ctx, del, release>>
      BY <1>14 DEF DropFailed, sendVars, ctxVars, loopVars, launchVars
    <2>3. \A x \in Service : RefsOf(x)' = RefsOf(x)
      BY <2>1, <2>2 DEF RefsOf
    <2> QED BY <2>2, <2>3, SameRefs
  <1>15. ASSUME NEW t \in Worker, DropFailedDone(t)
        PROVE  RefCounted' /\ DeletedOnce'
    <2>1. \A x \in Service : /\ DispatchRefs(x)' = DispatchRefs(x)
                             /\ SendRefs(x)' = SendRefs(x)
                             /\ LaunchRefs(x)' = LaunchRefs(x)
      BY <1>15, DispatchAssumption DEF DispatchRefs, SendRefs, LaunchRefs,
           IInv, TypeOK, Shape, Thread, DropFailedDone, LaunchGoto, FreeQueue,
           Launching, Settled, ctxVars, loopVars, sendVars
    <2>2. UNCHANGED <<ref, slot, ctx, del, release>>
      BY <1>15 DEF DropFailedDone, ctxVars, loopVars, sendVars
    <2>3. \A x \in Service : RefsOf(x)' = RefsOf(x)
      BY <2>1, <2>2 DEF RefsOf
    <2> QED BY <2>2, <2>3, SameRefs
  <1>16. ASSUME NEW t \in Sender, NEW s \in Service, ExternalSends(t, s)
        PROVE  RefCounted' /\ DeletedOnce'
    <2>1. \A x \in Service : /\ DispatchRefs(x)' = DispatchRefs(x)
                             /\ SendRefs(x)' = SendRefs(x)
                             /\ LaunchRefs(x)' = LaunchRefs(x)
      BY <1>16, DispatchAssumption DEF DispatchRefs, SendRefs, LaunchRefs,
           IInv, TypeOK, Shape, Thread, ExternalSends, BeginSend, Settled,
           ctxVars, mqVars, loopVars, launchVars
    <2>2. UNCHANGED <<ref, slot, ctx, del, release>>
      BY <1>16 DEF ExternalSends, ctxVars, mqVars, loopVars, launchVars
    <2>3. \A x \in Service : RefsOf(x)' = RefsOf(x)
      BY <2>1, <2>2 DEF RefsOf
    <2> QED BY <2>2, <2>3, SameRefs
  <1>17. ASSUME NEW t \in Thread, GrabDestination(t)
        PROVE  RefCounted' /\ DeletedOnce'
    <2>1. CASE slot[dst[t]]
      <3>1. t \in Thread /\ del[t] = None /\ dst[t] \in Service
        BY <1>17, <2>1, Locals DEF GrabDestination, Thread, Batch
      <3>2. t \notin SendRefs(dst[t])
        BY <1>17, <2>1, <3>1, DispatchAssumption DEF SendRefs, GrabDestination, Batch,
             Shape, IInv
      <3>3. /\ ref[dst[t]] > 0 /\ Grab(dst[t])
            /\ UNCHANGED <<slot, ctx, del, release>>
        BY <1>17, <2>1, <3>1, <3>2, Referenced DEF GrabDestination, mqVars, loopVars,
             launchVars
      <3>4. \A x \in Service :
              SendRefs(x)' = IF x = dst[t] THEN SendRefs(x) \cup {t} ELSE SendRefs(x)
        BY <1>17, <2>1, <3>1, <3>2, DispatchAssumption DEF SendRefs, IInv, TypeOK,
             Shape, Thread, GrabDestination, Grab, mqVars, loopVars, launchVars
      <3>5. \A x \in Service : DispatchRefs(x)' = DispatchRefs(x) /\ LaunchRefs(x)' = LaunchRefs(x)
        BY <1>17, <2>1 DEF GrabDestination, DispatchRefs, LaunchRefs, mqVars,
             loopVars, launchVars
      <3>6. \A x \in Service : Cardinality(SendRefs(x)') =
              IF x = dst[t] THEN Cardinality(SendRefs(x)) + 1 ELSE Cardinality(SendRefs(x))
        BY <3>2, <3>4, RefsFinite, FS_AddElement
      <3>7. \A x \in Service :
              RefsOf(x)' = IF x = dst[t] THEN RefsOf(x) + 1 ELSE RefsOf(x)
        <4> TAKE x \in Service
        <4>1. x # dst[t] => RefsOf(x)' = RefsOf(x)
          BY <3>3, <3>5, <3>6 DEF RefsOf
        <4>2. x = dst[t] => RefsOf(x)' = RefsOf(x) + 1
          BY <3>3, <3>5, <3>6, RefsFinite DEF RefsOf
        <4> QED BY <4>1, <4>2
      <3> QED BY <3>1, <3>3, <3>7, GrabStep
    <2>2. CASE ~ slot[dst[t]]
      <3>1. \A x \in Service : /\ DispatchRefs(x)' = DispatchRefs(x)
                               /\ SendRefs(x)' = SendRefs(x)
                               /\ LaunchRefs(x)' = LaunchRefs(x)
        BY <1>17, <2>2, DispatchAssumption DEF DispatchRefs, SendRefs,
           LaunchRefs, IInv, TypeOK, Shape, Thread, GrabDestination, Grab,
           mqVars, loopVars, launchVars
      <3>2. UNCHANGED <<ref, slot, ctx, del, release>>
        BY <1>17, <2>2 DEF GrabDestination, mqVars, loopVars, launchVars
      <3>3. \A x \in Service : RefsOf(x)' = RefsOf(x)
        BY <3>1, <3>2 DEF RefsOf
      <3> QED BY <3>2, <3>3, SameRefs
    <2> QED BY <2>1, <2>2
  <1>18. ASSUME NEW t \in Thread, PushMessage(t)
        PROVE  RefCounted' /\ DeletedOnce'
    <2>1. \A x \in Service : /\ DispatchRefs(x)' = DispatchRefs(x)
                             /\ SendRefs(x)' = SendRefs(x)
                             /\ LaunchRefs(x)' = LaunchRefs(x)
      BY <1>18, DispatchAssumption DEF DispatchRefs, SendRefs, LaunchRefs,
           IInv, TypeOK, Shape, Thread, PushMessage, Schedule, ctxVars,
           loopVars, launchVars
    <2>2. UNCHANGED <<ref, slot, ctx, del, release>>
      BY <1>18 DEF PushMessage, ctxVars, loopVars, launchVars
    <2>3. \A x \in Service : RefsOf(x)' = RefsOf(x)
      BY <2>1, <2>2 DEF RefsOf
    <2> QED BY <2>2, <2>3, SameRefs
  <1>19. ASSUME NEW t \in Thread, ReleaseDestination(t)
        PROVE  RefCounted' /\ DeletedOnce'
    <2>1. t \in Thread /\ del[t] = None /\ dst[t] \in Service
      BY <1>19, Locals DEF ReleaseDestination, Thread, Batch
    <2>2. t \in SendRefs(dst[t])
      BY <1>19, <2>1, DispatchAssumption DEF SendRefs, ReleaseDestination,
           Batch, Shape, IInv
    <2>3. /\ ref[dst[t]] > 0 /\ Release(t, dst[t])
          /\ UNCHANGED <<slot, ctx, release>>
      BY <1>19, <2>1, <2>2, Referenced DEF ReleaseDestination, mqVars,
           loopVars, launchVars
    <2>4. \A x \in Service :
            SendRefs(x)' = IF x = dst[t] THEN SendRefs(x) \ {t} ELSE SendRefs(x)
      BY <1>19, <2>1, <2>2, DispatchAssumption DEF SendRefs, IInv, TypeOK,
           Shape, Thread, ReleaseDestination, Release, mqVars, loopVars,
           launchVars
    <2>5. \A x \in Service : DispatchRefs(x)' = DispatchRefs(x) /\ LaunchRefs(x)' = LaunchRefs(x)
      BY <1>19 DEF ReleaseDestination, DispatchRefs, LaunchRefs, mqVars,
           loopVars, launchVars
    <2>6. \A x \in Service : Cardinality(SendRefs(x)') =
            IF x = dst[t] THEN Cardinality(SendRefs(x)) - 1 ELSE Cardinality(SendRefs(x))
      BY <2>2, <2>4, RefsFinite, FS_RemoveElement
    <2>7. \A x \in Service :
            RefsOf(x)' = IF x = dst[t] THEN RefsOf(x) - 1 ELSE RefsOf(x)
      <3> TAKE x \in Service
      <3>1. x # dst[t] => RefsOf(x)' = RefsOf(x)
        BY <2>3, <2>5, <2>6 DEF RefsOf
      <3>2. x = dst[t] => RefsOf(x)' = RefsOf(x) - 1
        BY <2>3, <2>5, <2>6, RefsFinite DEF RefsOf
      <3> QED BY <3>1, <3>2
    <2> QED BY <2>1, <2>3, <2>7, ReleaseStep
  <1>20. ASSUME NEW t \in Thread, DeleteContext(t)
        PROVE  RefCounted' /\ DeletedOnce'
    <2>1. del[t] \in Service /\ ctx[del[t]] = "live" /\ ref[del[t]] = 0
      BY <1>20, Locals DEF DeleteContext, IInv, DeletedOnce
    <2>2. \A x \in Service :
            /\ x = del[t] => ctx'[x] = "freed"
            /\ x # del[t] => ctx'[x] = ctx[x] /\ (release'[x] <=> release[x])
      BY <1>20, <2>1 DEF DeleteContext, IInv, TypeOK
    <2>3. \A u \in Thread, x \in Service : del'[u] = x <=> del[u] = x /\ x # del[t]
      <3>1. \A u \in Thread : del'[u] = IF u = t THEN None ELSE del[u]
        BY <1>20 DEF DeleteContext, IInv, TypeOK
      <3> QED BY <3>1, <2>1, DispatchAssumption DEF IInv, DeletedOnce
    <2>4. ref' = ref /\ \A x \in Service : RefsOf(x)' = RefsOf(x)
      BY <1>20 DEF DeleteContext, RefsOf, DispatchRefs, SendRefs, LaunchRefs, loopVars,
           sendVars, launchVars
    <2>5. RefCounted'
      <3> SUFFICES ASSUME NEW x \in Service
                   PROVE  /\ ref'[x] = RefsOf(x)'
                          /\ ref'[x] > 0 => ctx'[x] = "live"
                          /\ ctx'[x] = "live" => ref'[x] > 0 \/ \E u \in Thread : del'[u] = x
        BY DEF RefCounted
      <3>1. x # del[t] => ctx'[x] = ctx[x] /\ \A u \in Thread : del[u] = x => del'[u] = x
        BY <2>2, <2>3
      <3>2. x = del[t] => ~ (ref'[x] > 0) /\ ctx'[x] = "freed"
        BY <2>1, <2>2, <2>4
      <3> QED BY <3>1, <3>2, <2>4 DEF IInv, RefCounted
    <2>6. DeletedOnce'
      <3> SUFFICES ASSUME NEW u \in Thread, NEW x \in Service, del'[u] = x
                   PROVE  /\ ctx'[x] = "live" /\ ref'[x] = 0 /\ ~ release'[x]
                          /\ \A w \in Thread : del'[w] = x => u = w
        BY DEF DeletedOnce
      <3>1. x # del[t] /\ del[u] = x /\ \A w \in Thread : del'[w] = x => del[w] = x
        BY <2>3
      <3> QED BY <3>1, <2>2, <2>4 DEF IInv, DeletedOnce
    <2> QED BY <2>5, <2>6
  <1>21. ASSUME NEW t \in Worker,
                TakeQueue(t) \/ QueueOfDead(t) \/ DropDone(t) \/ PopMessage(t)
                \/ PopEmpty(t) \/ BatchSize(t) \/ CallbackReturns(t) \/
                NextQueue(t) \/ KeepQueue(t) \/ PushBack(t)
        PROVE  UNCHANGED <<ref, slot, held, call, dst, lpc, new, ctx, del, release>>
    BY <1>21 DEF TakeQueue, QueueOfDead, DropDone, PopMessage, PopEmpty,
       BatchSize, CallbackReturns, NextQueue, KeepQueue, PushBack, ctxVars,
       launchVars, mqVars, sendVars
  <1> QED BY <1>1, <1>2, <1>3, <1>4, <1>5, <1>6, <1>7, <1>8, <1>9, <1>10,
           <1>11, <1>12, <1>13, <1>14, <1>15, <1>16, <1>17, <1>18, <1>19,
           <1>20, <1>21 DEF Next, Dispatch, Callback, Launch, SendStep


\* A queue that a thread owns is live, and so its service was launched.
LEMMA OwnedLive ==
  ASSUME IInv, NEW t \in Thread, NEW s \in Service, Owns(t, s)
  PROVE  mq[s] = "live" /\ ctx[s] # "none"
  <1>1. mq[s] = "live"
    BY DEF IInv, NoLostQueue, Announced, Scheduled
  <1> QED BY <1>1 DEF IInv, Lives

\* When the launcher holds the last reference, the handle is already retired.
LEMMA LastLaunchRef ==
  ASSUME IInv, NEW t \in Thread, NEW s \in Service, new[t] = s, lpc[t] = "init",
         ref[s] = 1
  PROVE  ~ slot[s]
  <1>1. Cardinality(LaunchRefs(s)) \in Nat /\ Cardinality(LaunchRefs(s)) > 0
    <2>1. t \in LaunchRefs(s)
      BY DEF LaunchRefs
    <2> QED BY <2>1, RefsFinite, Inhabited
  <1>2. ref[s] = RefsOf(s)
    BY DEF IInv, RefCounted
  <1> QED BY <1>1, <1>2, RefsFinite DEF RefsOf

\* The life of a service.
LEMMA StepLives ==
  ASSUME IInv, Next
  PROVE  Lives'
  <1>1. CASE UNCHANGED <<ctx, slot, ref, mq, in_global, release, queue>>
    BY <1>1 DEF IInv, Lives
  <1>2. ASSUME NEW t \in Worker, GrabOwner(t)
        PROVE  Lives'
    <2>1. t \in Thread /\ q[t] \in Service
      BY <1>2, Locals DEF GrabOwner, At, Settled, Thread, Batch
    <2>2. mq[q[t]] = "live" /\ ctx[q[t]] # "none"
      BY <2>1, OwnedLive DEF Owns
    <2> QED BY <1>2, <2>1, <2>2 DEF IInv, TypeOK, Lives, GrabOwner, Goto,
           Grab, mqVars, sendVars, launchVars
  <1>3. ASSUME NEW t \in Worker, DropOne(t)
        PROVE  Lives'
    <2>1. t \in Thread /\ q[t] \in Service
      BY <1>3, Locals DEF DropOne, At, Settled, Thread, Batch
    <2>2. mq[q[t]] = "live" /\ ctx[q[t]] # "none"
      BY <2>1, OwnedLive DEF Owns
    <2> QED BY <1>3, <2>1, <2>2 DEF IInv, TypeOK, Lives, DropOne,
           DropMessage, BeginSend, sendVars, ctxVars, loopVars, launchVars
  <1>4. ASSUME NEW t \in Worker, DropDone(t)
        PROVE  Lives'
    <2>1. t \in Thread /\ q[t] \in Service
      BY <1>4, Locals DEF DropDone, At, Settled, Thread, Batch
    <2>2. mq[q[t]] = "live" /\ ctx[q[t]] # "none"
      BY <2>1, OwnedLive DEF Owns
    <2>3. release[q[t]]
      BY <1>4, <2>1 DEF IInv, Dispatching, DropDone, At, Settled
    <2> QED BY <1>4, <2>1, <2>2, <2>3 DEF IInv, TypeOK, Lives, DropDone,
           Goto, FreeQueue, ctxVars, sendVars, launchVars
  <1>5. ASSUME NEW t \in Worker, PopMessage(t)
        PROVE  Lives'
    <2>1. t \in Thread /\ q[t] \in Service
      BY <1>5, Locals DEF PopMessage, At, Settled, Thread, Batch
    <2>2. mq[q[t]] = "live" /\ ctx[q[t]] # "none"
      BY <2>1, OwnedLive DEF Owns
    <2> QED BY <1>5, <2>1, <2>2 DEF IInv, TypeOK, Lives, PopMessage, Goto,
           ctxVars, sendVars, launchVars
  <1>6. ASSUME NEW t \in Worker, PopEmpty(t)
        PROVE  Lives'
    <2>1. t \in Thread /\ q[t] \in Service
      BY <1>6, Locals DEF PopEmpty, At, Settled, Thread, Batch
    <2>2. mq[q[t]] = "live" /\ ctx[q[t]] # "none"
      BY <2>1, OwnedLive DEF Owns
    <2> QED BY <1>6, <2>1, <2>2 DEF IInv, TypeOK, Lives, PopEmpty, Goto,
           ctxVars, sendVars, launchVars
  <1>7. ASSUME NEW t \in Worker, ReleaseOwner(t)
        PROVE  Lives'
    <2>1. t \in Thread /\ held[t] \in Service
      BY <1>7, Locals DEF ReleaseOwner, At, Settled, Thread, Batch
    <2>2. mq[held[t]] = "live" /\ ctx[held[t]] = "live"
      BY <1>7, <2>1, Referenced DEF DispatchRefs, ReleaseOwner
    <2> QED BY <1>7, <2>1, <2>2 DEF IInv, TypeOK, Lives, ReleaseOwner, Goto,
           Release, mqVars, sendVars, launchVars
  <1>8. ASSUME NEW t \in Worker, NEW s \in Service, CallbackKills(t, s)
        PROVE  Lives'
    BY <1>8 DEF IInv, Lives, TypeOK, Thread, CallbackKills, Retire, Release,
       InCallback, At, Settled, Launching, mqVars, loopVars, sendVars,
       launchVars
  <1>9. ASSUME NEW t \in Worker, NEW s \in Service, BeginLaunch(t, s)
        PROVE  Lives'
    BY <1>9 DEF IInv, Lives, TypeOK, Thread, BeginLaunch, LaunchGoto,
       CreateQueue, At, Settled, loopVars, sendVars
  <1>10. ASSUME NEW t \in Worker, InitSucceeds(t)
        PROVE  Lives'
    <2>1. t \in Thread /\ new[t] \in Service
      BY <1>10, Locals DEF InitSucceeds, Launching, Settled, Thread, Batch
    <2>2. mq[new[t]] = "live" /\ ctx[new[t]] # "none"
      BY <2>1, OwnedLive DEF Owns
    <2> QED BY <1>10, <2>1, <2>2 DEF IInv, TypeOK, Lives, InitSucceeds,
           LaunchGoto, Release, mqVars, loopVars, sendVars
  <1>11. ASSUME NEW t \in Worker, InitFails(t)
        PROVE  Lives'
    <2>1. t \in Thread /\ new[t] \in Service
      BY <1>11, Locals DEF InitFails, Launching, Settled, Thread, Batch
    <2>2. mq[new[t]] = "live" /\ ctx[new[t]] # "none"
      BY <2>1, OwnedLive DEF Owns
    <2> QED BY <1>11, <2>1, <2>2 DEF IInv, TypeOK, Lives, InitFails,
           LaunchGoto, Release, mqVars, loopVars, sendVars
  <1>12. ASSUME NEW t \in Worker, RetireFailed(t)
        PROVE  Lives'
    <2>1. t \in Thread /\ new[t] \in Service
      BY <1>12, Locals DEF RetireFailed, Launching, Settled, Thread, Batch
    <2>2. mq[new[t]] = "live" /\ ctx[new[t]] # "none"
      BY <2>1, OwnedLive DEF Owns
    <2> QED BY <1>12, <2>1, <2>2 DEF IInv, TypeOK, Lives, RetireFailed,
           LaunchGoto, Retire, Release, mqVars, loopVars, sendVars
  <1>13. ASSUME NEW t \in Worker, DropFailed(t)
        PROVE  Lives'
    <2>1. t \in Thread /\ new[t] \in Service
      BY <1>13, Locals DEF DropFailed, Launching, Settled, Thread, Batch
    <2>2. mq[new[t]] = "live" /\ ctx[new[t]] # "none"
      BY <2>1, OwnedLive DEF Owns
    <2> QED BY <1>13, <2>1, <2>2 DEF IInv, TypeOK, Lives, DropFailed,
           DropMessage, BeginSend, sendVars, ctxVars, loopVars, launchVars
  <1>14. ASSUME NEW t \in Worker, DropFailedDone(t)
        PROVE  Lives'
    <2>1. t \in Thread /\ new[t] \in Service
      BY <1>14, Locals DEF DropFailedDone, Launching, Settled, Thread, Batch
    <2>2. mq[new[t]] = "live" /\ ctx[new[t]] # "none"
      BY <2>1, OwnedLive DEF Owns
    <2>3. release[new[t]]
      BY <1>14, <2>1 DEF IInv, Dispatching, DropFailedDone, Launching, Settled
    <2> QED BY <1>14, <2>1, <2>2, <2>3 DEF IInv, TypeOK, Lives,
           DropFailedDone, LaunchGoto, FreeQueue, ctxVars, loopVars, sendVars
  <1>15. ASSUME NEW t \in Thread, GrabDestination(t)
        PROVE  Lives'
    <2>1. t \in Thread /\ dst[t] \in Service
      BY <1>15, Locals DEF GrabDestination, Thread, Batch
    <2>2. slot[dst[t]] => ctx[dst[t]] = "live"
      BY <2>1, Referenced
    <2> QED BY <1>15, <2>1, <2>2 DEF IInv, TypeOK, Lives, GrabDestination,
           Grab, mqVars, loopVars, launchVars
  <1>16. ASSUME NEW t \in Thread, PushMessage(t)
        PROVE  Lives'
    <2>1. t \in Thread /\ dst[t] \in Service
      BY <1>16, Locals DEF PushMessage, Thread, Batch
    <2>2. mq[dst[t]] = "live" /\ ctx[dst[t]] = "live"
      BY <1>16, <2>1, Referenced DEF SendRefs, PushMessage
    <2> QED BY <1>16, <2>1, <2>2 DEF IInv, TypeOK, Lives, PushMessage,
           Schedule, ctxVars, loopVars, launchVars
  <1>17. ASSUME NEW t \in Thread, ReleaseDestination(t)
        PROVE  Lives'
    <2>1. t \in Thread /\ dst[t] \in Service
      BY <1>17, Locals DEF ReleaseDestination, Thread, Batch
    <2>2. mq[dst[t]] = "live" /\ ctx[dst[t]] = "live"
      BY <1>17, <2>1, Referenced DEF SendRefs, ReleaseDestination
    <2> QED BY <1>17, <2>1, <2>2 DEF IInv, TypeOK, Lives, ReleaseDestination,
           Release, mqVars, loopVars, launchVars
  <1>18. ASSUME NEW t \in Thread, DeleteContext(t)
        PROVE  Lives'
    <2>1. t \in Thread /\ del[t] \in Service
      BY <1>18, Locals DEF DeleteContext, Thread, Batch
    <2>2. ctx[del[t]] = "live"
      BY <1>18, <2>1 DEF DeleteContext, IInv, DeletedOnce
    <2> QED BY <1>18, <2>1, <2>2 DEF IInv, TypeOK, Lives, DeleteContext,
           Schedule, loopVars, sendVars, launchVars
  <1>19. ASSUME NEW t \in Worker,
                TakeQueue(t) \/ QueueOfDead(t) \/ BatchSize(t) \/
                CallbackReturns(t) \/ NextQueue(t) \/ KeepQueue(t) \/
                PushBack(t) \/ SetInit(t) \/ PushNew(t) \/ QueueOfFailed(t)
        PROVE  UNCHANGED <<ctx, slot, ref, mq, in_global, release, queue>>
    BY <1>19 DEF TakeQueue, QueueOfDead, BatchSize, CallbackReturns,
       NextQueue, KeepQueue, PushBack, SetInit, PushNew, QueueOfFailed,
       ctxVars, launchVars, loopVars, mqVars, sendVars
  <1>20. ASSUME NEW t \in Worker, NEW s \in Service,
                CallbackSends(t, s)
        PROVE  UNCHANGED <<ctx, slot, ref, mq, in_global, release, queue>>
    BY <1>20 DEF CallbackSends, ctxVars, launchVars, loopVars, mqVars
  <1>21. ASSUME NEW t \in Sender, NEW s \in Service,
                ExternalSends(t, s)
        PROVE  UNCHANGED <<ctx, slot, ref, mq, in_global, release, queue>>
    BY <1>21 DEF ExternalSends, ctxVars, launchVars, loopVars, mqVars
  <1> QED BY <1>1, <1>2, <1>3, <1>4, <1>5, <1>6, <1>7, <1>8, <1>9, <1>10,
           <1>11, <1>12, <1>13, <1>14, <1>15, <1>16, <1>17, <1>18, <1>19,
           <1>20, <1>21 DEF Next, Dispatch, Callback, Launch, SendStep

\* What skynet_handle_retire does to the table.
LEMMA RetireSlot ==
  ASSUME TypeOK, NEW t, NEW s \in Service, Retire(t, s)
  PROVE  ~ slot'[s] /\ \A x \in Service : slot'[x] => slot[x]
  BY DEF TypeOK, Retire

\* Launched survives a step in which no service is registered and only thread t
\* goes on with a launch.
LEMMA LaunchedKept ==
  ASSUME IInv, NEW t \in Thread,
         \A x \in Service : slot'[x] => slot[x],
         \A x \in Service : init[x] => init'[x],
         \A u \in Thread : u # t => new'[u] = new[u] /\ lpc'[u] = lpc[u],
         lpc[t] \in {"init", "ready", "retire"} =>
           \/ ~ slot'[new[t]] \/ init'[new[t]]
           \/ new'[t] = new[t] /\ lpc'[t] \in {"init", "ready", "retire"}
  PROVE  Launched'
  <1> SUFFICES ASSUME NEW x \in Service, slot'[x], ~ init'[x]
               PROVE  \E u \in Thread :
                        new'[u] = x /\ lpc'[u] \in {"init", "ready", "retire"}
    BY DEF Launched
  <1>1. PICK u \in Thread : new[u] = x /\ lpc[u] \in {"init", "ready", "retire"}
    BY DEF IInv, Launched
  <1> QED BY <1>1

\* Registered services are initialised, or being launched.
LEMMA StepLaunched ==
  ASSUME IInv, Next
  PROVE  Launched'
  <1>1. CASE UNCHANGED <<slot, init, new, lpc>>
    BY <1>1 DEF IInv, Launched, Shape, Batch
  <1>2. ASSUME NEW t \in Worker, NEW s \in Service, CallbackKills(t, s)
        PROVE  Launched'
    <2>1. t \in Thread /\ (lpc[t] # "none" => new[t] \in Service)
      BY <1>2, Locals DEF Thread
    <2>2. \A x \in Service : slot'[x] => slot[x]
      BY <1>2, <2>1, RetireSlot DEF CallbackKills, IInv, Launching
    <2>3. \A x \in Service : init[x] => init'[x]
      BY <1>2 DEF CallbackKills, mqVars, loopVars, sendVars, launchVars
    <2>4. \A u \in Thread : u # t => new'[u] = new[u] /\ lpc'[u] = lpc[u]
      BY <1>2 DEF IInv, TypeOK, CallbackKills, mqVars, loopVars, sendVars,
           launchVars
    <2>5. lpc[t] \in {"init", "ready", "retire"} =>
            \/ ~ slot'[new[t]] \/ init'[new[t]]
            \/ new'[t] = new[t] /\ lpc'[t] \in {"init", "ready", "retire"}
      BY <1>2, <2>1, <2>2 DEF IInv, TypeOK, CallbackKills, Launching, mqVars,
           loopVars, sendVars, launchVars
    <2> QED BY <2>1, <2>2, <2>3, <2>4, <2>5, LaunchedKept
  <1>3. ASSUME NEW t \in Worker, NEW s \in Service, BeginLaunch(t, s)
        PROVE  Launched'
    <2>1. t \in Thread /\ lpc[t] = "none" /\ ctx[s] = "none"
      BY <1>3 DEF BeginLaunch, At, Thread
    <2>2. new'[t] = s /\ lpc'[t] = "init"
      BY <1>3, <2>1 DEF BeginLaunch, LaunchGoto, IInv, TypeOK
    <2>3. \A u \in Thread : u # t => new'[u] = new[u] /\ lpc'[u] = lpc[u]
      BY <1>3 DEF BeginLaunch, LaunchGoto, IInv, TypeOK
    <2>4. init' = init /\ \A x \in Service : x # s => slot'[x] = slot[x]
      BY <1>3 DEF BeginLaunch, IInv, TypeOK
    <2> QED BY <2>1, <2>2, <2>3, <2>4 DEF IInv, Launched
  <1>4. ASSUME NEW t \in Worker, InitSucceeds(t)
        PROVE  Launched'
    <2>1. t \in Thread /\ (lpc[t] # "none" => new[t] \in Service)
      BY <1>4, Locals DEF Thread
    <2>2. \A x \in Service : slot'[x] => slot[x]
      BY <1>4 DEF InitSucceeds, mqVars, loopVars, sendVars
    <2>3. \A x \in Service : init[x] => init'[x]
      BY <1>4 DEF InitSucceeds, mqVars, loopVars, sendVars
    <2>4. \A u \in Thread : u # t => new'[u] = new[u] /\ lpc'[u] = lpc[u]
      BY <1>4 DEF IInv, TypeOK, InitSucceeds, LaunchGoto, mqVars, loopVars,
           sendVars
    <2>5. lpc[t] \in {"init", "ready", "retire"} =>
            \/ ~ slot'[new[t]] \/ init'[new[t]]
            \/ new'[t] = new[t] /\ lpc'[t] \in {"init", "ready", "retire"}
      BY <1>4, <2>1, <2>2, LastLaunchRef DEF IInv, TypeOK, InitSucceeds,
           LaunchGoto, Launching, mqVars, loopVars, sendVars
    <2> QED BY <2>1, <2>2, <2>3, <2>4, <2>5, LaunchedKept
  <1>5. ASSUME NEW t \in Worker, SetInit(t)
        PROVE  Launched'
    BY <1>5 DEF IInv, Launched, Shape, Batch, TypeOK, Thread, SetInit,
       LaunchGoto, Launching, Settled, loopVars, sendVars
  <1>6. ASSUME NEW t \in Worker, PushNew(t)
        PROVE  Launched'
    <2>1. t \in Thread /\ (lpc[t] # "none" => new[t] \in Service)
      BY <1>6, Locals DEF Thread
    <2>2. \A x \in Service : slot'[x] => slot[x]
      BY <1>6 DEF PushNew, ctxVars, loopVars, sendVars
    <2>3. \A x \in Service : init[x] => init'[x]
      BY <1>6 DEF PushNew, ctxVars, loopVars, sendVars
    <2>4. \A u \in Thread : u # t => new'[u] = new[u] /\ lpc'[u] = lpc[u]
      BY <1>6 DEF IInv, TypeOK, PushNew, LaunchGoto, ctxVars, loopVars,
           sendVars
    <2>5. lpc[t] \in {"init", "ready", "retire"} =>
            \/ ~ slot'[new[t]] \/ init'[new[t]]
            \/ new'[t] = new[t] /\ lpc'[t] \in {"init", "ready", "retire"}
      BY <1>6, <2>1, <2>2 DEF IInv, TypeOK, PushNew, LaunchGoto, Launching,
           ctxVars, loopVars, sendVars
    <2> QED BY <2>1, <2>2, <2>3, <2>4, <2>5, LaunchedKept
  <1>7. ASSUME NEW t \in Worker, InitFails(t)
        PROVE  Launched'
    BY <1>7 DEF IInv, Launched, Shape, Batch, TypeOK, Thread, InitFails,
       LaunchGoto, Release, Launching, Settled, loopVars, sendVars
  <1>8. ASSUME NEW t \in Worker, RetireFailed(t)
        PROVE  Launched'
    <2>1. t \in Thread /\ (lpc[t] # "none" => new[t] \in Service)
      BY <1>8, Locals DEF Thread
    <2>2. \A x \in Service : slot'[x] => slot[x]
      BY <1>8, <2>1, RetireSlot DEF RetireFailed, IInv, Launching
    <2>3. \A x \in Service : init[x] => init'[x]
      BY <1>8 DEF RetireFailed, mqVars, loopVars, sendVars
    <2>4. \A u \in Thread : u # t => new'[u] = new[u] /\ lpc'[u] = lpc[u]
      BY <1>8 DEF IInv, TypeOK, RetireFailed, LaunchGoto, mqVars, loopVars,
           sendVars
    <2>5. lpc[t] \in {"init", "ready", "retire"} =>
            \/ ~ slot'[new[t]] \/ init'[new[t]]
            \/ new'[t] = new[t] /\ lpc'[t] \in {"init", "ready", "retire"}
      BY <1>8, <2>1, <2>2, RetireSlot DEF IInv, TypeOK, RetireFailed,
           LaunchGoto, Launching, mqVars, loopVars, sendVars
    <2> QED BY <2>1, <2>2, <2>3, <2>4, <2>5, LaunchedKept
  <1>9. ASSUME NEW t \in Worker, QueueOfFailed(t)
        PROVE  Launched'
    <2>1. t \in Thread /\ (lpc[t] # "none" => new[t] \in Service)
      BY <1>9, Locals DEF Thread
    <2>2. \A x \in Service : slot'[x] => slot[x]
      BY <1>9 DEF QueueOfFailed, ctxVars, loopVars, sendVars
    <2>3. \A x \in Service : init[x] => init'[x]
      BY <1>9 DEF QueueOfFailed, ctxVars, loopVars, sendVars
    <2>4. \A u \in Thread : u # t => new'[u] = new[u] /\ lpc'[u] = lpc[u]
      BY <1>9 DEF IInv, TypeOK, QueueOfFailed, LaunchGoto, ctxVars, loopVars,
           sendVars
    <2>5. lpc[t] \in {"init", "ready", "retire"} =>
            \/ ~ slot'[new[t]] \/ init'[new[t]]
            \/ new'[t] = new[t] /\ lpc'[t] \in {"init", "ready", "retire"}
      BY <1>9, <2>1, <2>2 DEF IInv, TypeOK, QueueOfFailed, LaunchGoto,
           Launching, ctxVars, loopVars, sendVars
    <2> QED BY <2>1, <2>2, <2>3, <2>4, <2>5, LaunchedKept
  <1>10. ASSUME NEW t \in Worker, DropFailedDone(t)
        PROVE  Launched'
    <2>1. t \in Thread /\ (lpc[t] # "none" => new[t] \in Service)
      BY <1>10, Locals DEF Thread
    <2>2. \A x \in Service : slot'[x] => slot[x]
      BY <1>10 DEF DropFailedDone, ctxVars, loopVars, sendVars
    <2>3. \A x \in Service : init[x] => init'[x]
      BY <1>10 DEF DropFailedDone, ctxVars, loopVars, sendVars
    <2>4. \A u \in Thread : u # t => new'[u] = new[u] /\ lpc'[u] = lpc[u]
      BY <1>10 DEF IInv, TypeOK, DropFailedDone, LaunchGoto, ctxVars,
           loopVars, sendVars
    <2>5. lpc[t] \in {"init", "ready", "retire"} =>
            \/ ~ slot'[new[t]] \/ init'[new[t]]
            \/ new'[t] = new[t] /\ lpc'[t] \in {"init", "ready", "retire"}
      BY <1>10, <2>1, <2>2 DEF IInv, TypeOK, DropFailedDone, LaunchGoto,
           Launching, ctxVars, loopVars, sendVars
    <2> QED BY <2>1, <2>2, <2>3, <2>4, <2>5, LaunchedKept
  <1>11. ASSUME NEW t \in Worker,
                TakeQueue(t) \/ GrabOwner(t) \/ QueueOfDead(t) \/ DropOne(t)
                \/ DropDone(t) \/ PopMessage(t) \/ PopEmpty(t) \/ BatchSize(t)
                \/ CallbackReturns(t) \/ NextQueue(t) \/ KeepQueue(t) \/
                PushBack(t) \/ ReleaseOwner(t) \/ DropFailed(t)
        PROVE  UNCHANGED <<slot, init, new, lpc>>
    BY <1>11 DEF TakeQueue, GrabOwner, QueueOfDead, DropOne, DropDone,
       PopMessage, PopEmpty, BatchSize, CallbackReturns, NextQueue, KeepQueue,
       PushBack, ReleaseOwner, DropFailed, ctxVars, launchVars, loopVars,
       mqVars, sendVars
  <1>12. ASSUME NEW t \in Worker, NEW s \in Service,
                CallbackSends(t, s)
        PROVE  UNCHANGED <<slot, init, new, lpc>>
    BY <1>12 DEF CallbackSends, ctxVars, launchVars, loopVars, mqVars
  <1>13. ASSUME NEW t \in Sender, NEW s \in Service,
                ExternalSends(t, s)
        PROVE  UNCHANGED <<slot, init, new, lpc>>
    BY <1>13 DEF ExternalSends, ctxVars, launchVars, loopVars, mqVars
  <1>14. ASSUME NEW t \in Thread,
                GrabDestination(t) \/ PushMessage(t) \/ ReleaseDestination(t)
                \/ DeleteContext(t)
        PROVE  UNCHANGED <<slot, init, new, lpc>>
    BY <1>14 DEF GrabDestination, PushMessage, ReleaseDestination,
       DeleteContext, ctxVars, launchVars, loopVars, mqVars, sendVars
  <1> QED BY <1>1, <1>2, <1>3, <1>4, <1>5, <1>6, <1>7, <1>8, <1>9, <1>10,
           <1>11, <1>12, <1>13, <1>14 DEF Next, Dispatch, Callback, Launch,
           SendStep

\* What the dispatcher knows.
LEMMA StepDispatching ==
  ASSUME IInv, Next
  PROVE  Dispatching'
  <1>1. CASE UNCHANGED <<pc, q, lpc, new, held, slot, ctx, release, init>>
    BY <1>1 DEF IInv, Dispatching, Shape, Batch
  <1>2. ASSUME NEW t \in Worker, TakeQueue(t)
        PROVE  Dispatching'
    BY <1>2 DEF IInv, Dispatching, Shape, Batch, TypeOK, Thread, TakeQueue,
       Goto, At, Settled, ctxVars, sendVars, launchVars
  <1>3. ASSUME NEW t \in Worker, GrabOwner(t)
        PROVE  Dispatching'
    <2>1. t \in Thread /\ q[t] \in Service /\ ctx[q[t]] # "none"
      BY <1>3, Locals, OwnedLive DEF GrabOwner, At, Thread, Owns
    <2>2. slot[q[t]] => init[q[t]]
      <3> SUFFICES ASSUME slot[q[t]], ~ init[q[t]] PROVE FALSE
        OBVIOUS
      <3>1. PICK u \in Thread : new[u] = q[t]
        BY <2>1 DEF IInv, Launched
      <3>2. Owns(u, q[t]) /\ Owns(t, q[t])
        BY <3>1 DEF Owns
      <3> QED BY <2>1, <3>1, <3>2, DispatchAssumption DEF IInv, ScheduledOnce
    <2>3. UNCHANGED <<slot, ctx, release, init, q, lpc, new>>
      BY <1>3 DEF GrabOwner, mqVars, launchVars
    <2>4. \A u \in Thread : u # t => pc'[u] = pc[u] /\ held'[u] = held[u]
      BY <1>3 DEF GrabOwner, Goto, IInv, TypeOK
    <2>5. \/ slot[q[t]] /\ held'[t] = q[t] /\ pc'[t] = "first"
          \/ ~ slot[q[t]] /\ held'[t] = held[t] /\ pc'[t] = "dead"
      BY <1>3, <2>1 DEF GrabOwner, Goto, IInv, TypeOK
    <2> QED BY <2>1, <2>2, <2>3, <2>4, <2>5 DEF IInv, Dispatching
  <1>4. ASSUME NEW t \in Worker, QueueOfDead(t)
        PROVE  Dispatching'
    BY <1>4 DEF IInv, Dispatching, Shape, Batch, TypeOK, Thread, QueueOfDead,
       Goto, Reschedule, MayDrop, At, Settled, ctxVars, sendVars, launchVars
  <1>5. ASSUME NEW t \in Worker, DropDone(t)
        PROVE  Dispatching'
    BY <1>5 DEF IInv, Dispatching, Shape, Batch, TypeOK, Thread, DropDone,
       Goto, FreeQueue, At, Settled, ctxVars, sendVars, launchVars
  <1>6. ASSUME NEW t \in Worker, PopMessage(t)
        PROVE  Dispatching'
    <2>1. UNCHANGED <<slot, ctx, release, init, q, lpc, new, held>>
      BY <1>6 DEF PopMessage, ctxVars, launchVars
    <2>2. \A u \in Thread : pc'[u] \in {"dead", "drop"} => pc'[u] = pc[u]
      BY <1>6 DEF PopMessage, Goto, IInv, TypeOK
    <2> QED BY <2>1, <2>2 DEF IInv, Dispatching
  <1>7. ASSUME NEW t \in Worker, PopEmpty(t)
        PROVE  Dispatching'
    BY <1>7 DEF IInv, Dispatching, Shape, Batch, TypeOK, Thread, PopEmpty,
       Goto, At, Settled, ctxVars, sendVars, launchVars
  <1>8. ASSUME NEW t \in Worker, BatchSize(t)
        PROVE  Dispatching'
    BY <1>8 DEF IInv, Dispatching, Shape, Batch, TypeOK, Thread, BatchSize,
       Goto, At, Settled, ctxVars, mqVars, sendVars, launchVars
  <1>9. ASSUME NEW t \in Worker, CallbackReturns(t)
        PROVE  Dispatching'
    BY <1>9 DEF IInv, Dispatching, Shape, Batch, TypeOK, Thread,
       CallbackReturns, Goto, At, Settled, ctxVars, mqVars, sendVars,
       launchVars
  <1>10. ASSUME NEW t \in Worker, NextQueue(t)
        PROVE  Dispatching'
    BY <1>10 DEF IInv, Dispatching, Shape, Batch, TypeOK, Thread, NextQueue,
       Goto, At, Settled, ctxVars, sendVars, launchVars
  <1>11. ASSUME NEW t \in Worker, KeepQueue(t)
        PROVE  Dispatching'
    BY <1>11 DEF IInv, Dispatching, Shape, Batch, TypeOK, Thread, KeepQueue,
       Goto, At, Settled, ctxVars, mqVars, sendVars, launchVars
  <1>12. ASSUME NEW t \in Worker, PushBack(t)
        PROVE  Dispatching'
    BY <1>12 DEF IInv, Dispatching, Shape, Batch, TypeOK, Thread, PushBack,
       Goto, At, Settled, ctxVars, sendVars, launchVars
  <1>13. ASSUME NEW t \in Worker, ReleaseOwner(t)
        PROVE  Dispatching'
    BY <1>13 DEF IInv, Dispatching, Shape, Batch, TypeOK, Thread,
       ReleaseOwner, Goto, Release, At, Settled, mqVars, sendVars, launchVars
  <1>14. ASSUME NEW t \in Worker, NEW s \in Service, CallbackKills(t, s)
        PROVE  Dispatching'
    <2>1. UNCHANGED <<ctx, release, init, pc, q, lpc, new, held>>
      BY <1>14 DEF CallbackKills, mqVars, loopVars, launchVars
    <2>2. \A x \in Service : slot'[x] => slot[x]
      BY <1>14, RetireSlot DEF CallbackKills, IInv
    <2> SUFFICES ASSUME NEW u \in Thread
                 PROVE  /\ pc[u] = "dead" => ~ slot'[q[u]]
                        /\ lpc[u] = "mq_release" => ~ slot'[new[u]]
      BY <2>1 DEF IInv, Dispatching
    <2>3. ASSUME pc[u] = "dead" PROVE ~ slot'[q[u]]
      <3>1. q[u] \in Service /\ ~ slot[q[u]]
        BY <2>3, Locals DEF IInv, Dispatching
      <3> QED BY <3>1, <2>2
    <2>4. ASSUME lpc[u] = "mq_release" PROVE ~ slot'[new[u]]
      <3>1. new[u] \in Service /\ ~ slot[new[u]]
        BY <2>4, Locals DEF IInv, Dispatching
      <3> QED BY <3>1, <2>2
    <2> QED BY <2>3, <2>4
  <1>15. ASSUME NEW t \in Worker, NEW s \in Service, BeginLaunch(t, s)
        PROVE  Dispatching'
    <2>1. UNCHANGED <<release, init, pc, q, held>>
      BY <1>15 DEF BeginLaunch, loopVars
    <2>2. ctx[s] = "none" /\ t \in Thread
      BY <1>15 DEF BeginLaunch, Thread
    <2>3. \A x \in Service : x # s => slot'[x] = slot[x] /\ ctx'[x] = ctx[x]
      BY <1>15 DEF BeginLaunch, IInv, TypeOK
    <2>4. \A u \in Thread : /\ lpc'[u] = IF u = t THEN "init" ELSE lpc[u]
                            /\ u # t => new'[u] = new[u]
      BY <1>15 DEF BeginLaunch, LaunchGoto, IInv, TypeOK
    <2>5. ASSUME NEW u \in Thread, lpc'[u] \in {"drop", "mq_release"}
          PROVE  lpc'[u] = lpc[u] /\ new'[u] = new[u]
      <3>1. u # t
        <4> SUFFICES ASSUME u = t PROVE FALSE
          OBVIOUS
        <4>1. lpc'[u] = "init"
          BY <2>4
        <4> QED BY <4>1, <2>5
      <3> QED BY <3>1, <2>4
    <2> SUFFICES ASSUME NEW u \in Thread
                 PROVE  /\ pc[u] = "dead" => ~ slot'[q[u]] /\ ctx'[q[u]] # "none"
                        /\ lpc'[u] = "mq_release" => ~ slot'[new'[u]]
      BY <2>1, <2>5 DEF IInv, Dispatching
    <2>6. ASSUME pc[u] = "dead" PROVE ~ slot'[q[u]] /\ ctx'[q[u]] # "none"
      <3>1. q[u] \in Service /\ ~ slot[q[u]] /\ ctx[q[u]] # "none"
        BY <2>6, Locals DEF IInv, Dispatching
      <3> QED BY <3>1, <2>2, <2>3
    <2>7. ASSUME lpc'[u] = "mq_release" PROVE ~ slot'[new'[u]]
      <3>1. lpc[u] = "mq_release" /\ new'[u] = new[u]
        BY <2>7, <2>5
      <3>2. new[u] \in Service /\ ~ slot[new[u]]
        BY <3>1, Locals DEF IInv, Dispatching
      <3>3. ctx[new[u]] # "none"
        BY <3>2, OwnedLive DEF Owns
      <3> QED BY <3>1, <3>2, <3>3, <2>2, <2>3
    <2> QED BY <2>6, <2>7
  <1>16. ASSUME NEW t \in Worker, InitSucceeds(t)
        PROVE  Dispatching'
    BY <1>16 DEF IInv, Dispatching, Shape, Batch, TypeOK, Thread,
       InitSucceeds, LaunchGoto, Release, Launching, Settled, mqVars,
       loopVars, sendVars
  <1>17. ASSUME NEW t \in Worker, SetInit(t)
        PROVE  Dispatching'
    BY <1>17 DEF IInv, Dispatching, Shape, Batch, TypeOK, Thread, SetInit,
       LaunchGoto, Launching, Settled, mqVars, loopVars, sendVars
  <1>18. ASSUME NEW t \in Worker, PushNew(t)
        PROVE  Dispatching'
    BY <1>18 DEF IInv, Dispatching, Shape, Batch, TypeOK, Thread, PushNew,
       LaunchGoto, Launching, Settled, ctxVars, loopVars, sendVars
  <1>19. ASSUME NEW t \in Worker, InitFails(t)
        PROVE  Dispatching'
    BY <1>19 DEF IInv, Dispatching, Shape, Batch, TypeOK, Thread, InitFails,
       LaunchGoto, Release, Launching, Settled, mqVars, loopVars, sendVars
  <1>20. ASSUME NEW t \in Worker, RetireFailed(t)
        PROVE  Dispatching'
    <2>1. t \in Thread /\ new[t] \in Service
      BY <1>20, Locals DEF RetireFailed, Launching, Thread
    <2>2. UNCHANGED <<ctx, release, init, pc, q, new, held>>
      BY <1>20 DEF RetireFailed, mqVars, loopVars
    <2>3. \A u \in Thread : lpc'[u] = IF u = t THEN "mq_release" ELSE lpc[u]
      BY <1>20 DEF RetireFailed, LaunchGoto, IInv, TypeOK
    <2>4. ~ slot'[new[t]] /\ \A x \in Service : slot'[x] => slot[x]
      BY <1>20, <2>1, RetireSlot DEF RetireFailed, IInv
    <2> SUFFICES ASSUME NEW u \in Thread
                 PROVE  /\ pc[u] = "dead" => ~ slot'[q[u]]
                        /\ lpc'[u] = "mq_release" => ~ slot'[new[u]]
                        /\ lpc'[u] = "drop" => lpc[u] = "drop"
      BY <2>2 DEF IInv, Dispatching
    <2>5. ASSUME pc[u] = "dead" PROVE ~ slot'[q[u]]
      <3>1. q[u] \in Service /\ ~ slot[q[u]]
        BY <2>5, Locals DEF IInv, Dispatching
      <3> QED BY <3>1, <2>4
    <2>6. ASSUME lpc'[u] = "mq_release" PROVE ~ slot'[new[u]]
      <3>1. CASE u = t
        BY <3>1, <2>4
      <3>2. CASE u # t
        <4>1. lpc[u] = "mq_release"
          BY <3>2, <2>3, <2>6
        <4>2. new[u] \in Service /\ ~ slot[new[u]]
          BY <4>1, Locals DEF IInv, Dispatching
        <4> QED BY <4>2, <2>4
      <3> QED BY <3>1, <3>2
    <2> QED BY <2>3, <2>5, <2>6
  <1>21. ASSUME NEW t \in Worker, QueueOfFailed(t)
        PROVE  Dispatching'
    BY <1>21 DEF IInv, Dispatching, Shape, Batch, TypeOK, Thread,
       QueueOfFailed, LaunchGoto, Reschedule, MayDrop, Launching, Settled,
       ctxVars, loopVars, sendVars
  <1>22. ASSUME NEW t \in Worker, DropFailedDone(t)
        PROVE  Dispatching'
    BY <1>22 DEF IInv, Dispatching, Shape, Batch, TypeOK, Thread,
       DropFailedDone, LaunchGoto, FreeQueue, Launching, Settled, ctxVars,
       loopVars, sendVars
  <1>23. ASSUME NEW t \in Thread, DeleteContext(t)
        PROVE  Dispatching'
    BY <1>23 DEF IInv, Dispatching, Shape, Batch, TypeOK, Thread,
       DeleteContext, Schedule, loopVars, sendVars, launchVars
  <1>24. ASSUME NEW t \in Worker,
                DropOne(t) \/ DropFailed(t)
        PROVE  UNCHANGED <<pc, q, lpc, new, held, slot, ctx, release, init>>
    BY <1>24 DEF DropOne, DropFailed, ctxVars, launchVars, loopVars
  <1>25. ASSUME NEW t \in Worker, NEW s \in Service,
                CallbackSends(t, s)
        PROVE  UNCHANGED <<pc, q, lpc, new, held, slot, ctx, release, init>>
    BY <1>25 DEF CallbackSends, ctxVars, launchVars, loopVars, mqVars
  <1>26. ASSUME NEW t \in Sender, NEW s \in Service,
                ExternalSends(t, s)
        PROVE  UNCHANGED <<pc, q, lpc, new, held, slot, ctx, release, init>>
    BY <1>26 DEF ExternalSends, ctxVars, launchVars, loopVars, mqVars
  <1>27. ASSUME NEW t \in Thread,
                GrabDestination(t) \/ PushMessage(t) \/ ReleaseDestination(t)
        PROVE  UNCHANGED <<pc, q, lpc, new, held, slot, ctx, release, init>>
    BY <1>27 DEF GrabDestination, PushMessage, ReleaseDestination, ctxVars,
       launchVars, loopVars, mqVars
  <1> QED BY <1>1, <1>2, <1>3, <1>4, <1>5, <1>6, <1>7, <1>8, <1>9, <1>10,
           <1>11, <1>12, <1>13, <1>14, <1>15, <1>16, <1>17, <1>18, <1>19,
           <1>20, <1>21, <1>22, <1>23, <1>24, <1>25, <1>26, <1>27 DEF Next,
           Dispatch, Callback, Launch, SendStep
-----------------------------------------------------------------------------
(* The invariant holds in every reachable state.                           *)

\* After start-up nothing runs and each initial service has one reference.
LEMMA InitInvariant == Init => IInv
  <1> SUFFICES ASSUME Init PROVE IInv
    OBVIOUS
  <1>1. \A t \in Thread : /\ pc[t] = "idle" /\ call[t] = "none" /\ lpc[t] = "none"
                          /\ q[t] = None /\ nq[t] = None /\ held[t] = None
                          /\ dst[t] = None /\ new[t] = None /\ del[t] = None
    BY DEF Init
  <1>2. TypeOK
    BY DispatchAssumption DEF Init, TypeOK, Maybe, Thread
  <1>3. Shape
    BY <1>1 DEF Shape, Batch
  <1>4. Lives
    BY DEF Init, Lives
  <1>5. Launched
    BY DEF Init, Launched
  <1>6. Dispatching
    BY <1>1 DEF Dispatching
  <1>7. globalmq = <<>> /\ DOMAIN globalmq = {}
    BY DEF Init
  <1>8. \A t \in Thread, s \in Service : ~ Owns(t, s)
    BY <1>1, DispatchAssumption DEF Owns
  <1>9. \A s \in Service : ~ Queued(s)
    BY <1>7 DEF Queued
  <1>10. ScheduledOnce
    BY <1>1, <1>7, <1>8 DEF ScheduledOnce, NoRepeat
  <1>11. NoLostQueue
    <2>1. \A s \in Service : queue[s] = <<>> /\ ~ Announced(s) /\ ~ Scheduled(s)
      BY <1>8, <1>9 DEF Announced, Scheduled, Init
    <2> QED BY <2>1 DEF NoLostQueue
  <1>12. RefCounted
    <2>1. \A s \in Service : DispatchRefs(s) = {} /\ SendRefs(s) = {} /\ LaunchRefs(s) = {}
      BY <1>1, DispatchAssumption DEF DispatchRefs, SendRefs, LaunchRefs
    <2>2. \A s \in Service : RefsOf(s) = IF slot[s] THEN 1 ELSE 0
      BY <2>1, FS_EmptySet DEF RefsOf
    <2>3. \A s \in Service : ref[s] = RefsOf(s)
      BY <2>2 DEF Init
    <2>4. \A s \in Service : /\ ref[s] > 0 => ctx[s] = "live"
                             /\ ctx[s] = "live" => ref[s] > 0
      BY DEF Init
    <2> QED BY <2>3, <2>4, Zenon DEF RefCounted
  <1>13. DeletedOnce
    BY <1>1, DispatchAssumption DEF DeletedOnce
  <1> QED BY <1>2, <1>3, <1>4, <1>5, <1>6, <1>10, <1>11, <1>12, <1>13 DEF IInv

\* Every step of every thread preserves it, and so does a stuttering step.
LEMMA NextInvariant == IInv /\ [Next]_vars => IInv'
  <1>1. ASSUME IInv, Next PROVE IInv'
    BY <1>1, StepType, StepShape, StepLives, StepLaunched, StepDispatching,
       StepSchedule, StepRefs DEF IInv
  <1>2. ASSUME IInv, UNCHANGED vars PROVE IInv'
    <2>1. TypeOK' /\ Shape' /\ Lives' /\ Launched' /\ Dispatching'
      BY <1>2 DEF IInv, TypeOK, Shape, Lives, Launched, Dispatching, vars
    <2>2. ScheduledOnce' /\ NoLostQueue'
      BY <1>2 DEF IInv, ScheduledOnce, NoRepeat, Owns, Queued, NoLostQueue,
         Announced, Scheduled, vars
    <2>3. \A s : /\ DispatchRefs(s)' = DispatchRefs(s)
                 /\ SendRefs(s)' = SendRefs(s)
                 /\ LaunchRefs(s)' = LaunchRefs(s)
      BY <1>2 DEF vars, DispatchRefs, SendRefs, LaunchRefs
    <2>4. \A s : RefsOf(s)' = RefsOf(s)
      BY <1>2, <2>3 DEF vars, RefsOf
    <2>5. RefCounted' /\ DeletedOnce'
      BY <1>2, <2>4 DEF IInv, RefCounted, DeletedOnce, vars
    <2> QED BY <2>1, <2>2, <2>5 DEF IInv
  <1> QED BY <1>1, <1>2

\* The inductive invariant is an invariant of the dispatcher.
THEOREM Invariance == Spec => []IInv
  BY InitInvariant, NextInvariant, PTL DEF Spec

\* Every variable keeps its type, however many threads and services there are.
THEOREM TypeCorrect == Spec => []TypeOK
  <1>1. IInv => TypeOK
    BY DEF IInv
  <1> QED BY <1>1, Invariance, PTL

\* A queue is in the global queue at most once, and never while a thread owns
\* it; no two threads own the same queue (skynet_mq.c:14, in_global).
THEOREM Exclusive == Spec => []ScheduledOnce
  <1>1. IInv => ScheduledOnce
    BY DEF IInv
  <1> QED BY <1>1, Invariance, PTL

\* No queue with messages, and no queue whose context is gone, is forgotten:
\* it is in the global queue or a thread has it.
THEOREM NothingLost == Spec => []NoLostQueue
  <1>1. IInv => NoLostQueue
    BY DEF IInv
  <1> QED BY <1>1, Invariance, PTL

\* Two threads never run the code of one service at the same time, which is
\* the promise the whole actor model of skynet rests on (CHECKCALLING_BEGIN).
THEOREM Serial == Spec => []NotReentrant
  <1>1. ASSUME IInv PROVE NotReentrant
    <2>1. \A t \in Thread, s \in Service : Runs(t, s) => Owns(t, s)
      BY <1>1 DEF IInv, Shape, Batch, Runs, Owns
    <2> QED BY <1>1, <2>1 DEF IInv, ScheduledOnce, NotReentrant
  <1> QED BY <1>1, Invariance, PTL

\* dispatch_message never runs for a service whose launch has not succeeded:
\* its assert(ctx->init) cannot fail.
THEOREM LaunchFirst == Spec => []InitBeforeDispatch
  <1>1. ASSUME IInv PROVE InitBeforeDispatch
    BY <1>1, DispatchAssumption
       DEF IInv, Shape, Batch, Dispatching, InitBeforeDispatch, Thread
  <1> QED BY <1>1, Invariance, PTL

\* The reference count of a context is the number of references held, and the
\* context is live while there is one.
THEOREM Counted == Spec => []RefCounted
  <1>1. IInv => RefCounted
    BY DEF IInv
  <1> QED BY <1>1, Invariance, PTL

\* No context is deleted twice and no queue is marked for release twice: the
\* assert(q->release == 0) of skynet_mq_mark_release cannot fail.
THEOREM OneDeletion == Spec => []DeletedOnce
  <1>1. IInv => DeletedOnce
    BY DEF IInv
  <1> QED BY <1>1, Invariance, PTL

\* No thread, and not the global queue either, reaches a queue that _release
\* has freed; a queue is freed only after its context.
THEOREM NoUseAfterFree == Spec => []NoFreedQueue
  <1>1. ASSUME IInv PROVE NoFreedQueue
    <2>1. ASSUME NEW s \in Service, Queued(s) \/ \E t \in Thread : Owns(t, s)
          PROVE  mq[s] = "live"
      BY <1>1, <2>1 DEF IInv, NoLostQueue, Scheduled, Announced
    <2>2. ASSUME NEW s \in Service, SendRefs(s) # {}
          PROVE  mq[s] = "live"
      BY <1>1, <2>2, Referenced
    <2>3. \A s \in Service : mq[s] = "freed" => ctx[s] = "freed"
      BY <1>1 DEF IInv, Lives
    <2> QED BY <2>1, <2>2, <2>3 DEF NoFreedQueue
  <1> QED BY <1>1, Invariance, PTL
=============================================================================
