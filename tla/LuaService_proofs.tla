------------------------- MODULE LuaService_proofs --------------------------
(***************************************************************************)
(* Proofs about LuaService, for any coroutines, peers and bounds: every    *)
(* coroutine that waits is expected, the critical section excludes, and it *)
(* is handed over in the order of arrival.                                 *)
(***************************************************************************)
EXTENDS LuaService, FiniteSetTheorems, SequenceTheorems, TLAPS

-----------------------------------------------------------------------------
(* The inductive invariant.                                                *)

Asleep == {"sleep", "wait", "lock"}
Waiting == Asleep \cup {"call"}

\* The sets and tables of the scheduler say where the coroutines are.
Places ==
  \A c \in Co :
    /\ c \in sleep_session <=> pc[c] \in Asleep
    /\ c \in fork_queue => pc[c] = "forked"
    /\ c = run => pc[c] \in {"run", "granted"}

\* A coroutine that waits is the one that session_id_coroutine has for its
\* session, and no other is.
Tables ==
  /\ \A c \in Co : pc[c] \in Waiting => /\ session[c] \in 1..used
                                        /\ session_id_coroutine[session[c]] = c
  /\ \A s \in Session : session_id_coroutine[s] \in Co =>
       /\ pc[session_id_coroutine[s]] \in Waiting
       /\ session[session_id_coroutine[s]] = s

\* Who will wake it: a call is watched until its answer or its error is
\* there; a sleep is neither watched nor in the queue of errors.
Answers ==
  /\ \A c \in Co :
       /\ pc[c] = "call" => /\ watching_session[session[c]] # None
                            /\ \/ due[session[c]] # None
                               \/ session[c] \in ToSet(error_queue)
       /\ pc[c] = "sleep" => due[session[c]] = timer
       /\ pc[c] \in {"wait", "lock"} => due[session[c]] = None
       /\ pc[c] \in Asleep => /\ watching_session[session[c]] = None
                              /\ session[c] \notin ToSet(error_queue)
  /\ \A s \in Session :
       watching_session[s] # None \/ s \in ToSet(error_queue) =>
         s \in 1..used /\ session_id_coroutine[s] # BREAK

\* The critical section: current_thread and ref tell who is inside, and who
\* waits for it is not inside.
Section ==
  /\ \A c \in Co : /\ inside[c] > 0 => current_thread = c /\ ref = inside[c]
                   /\ pc[c] \in {"lock", "granted"} => inside[c] = 0
  /\ ref # 0 => current_thread # None /\ inside[current_thread] = ref

Once(q) == \A i, j \in 1..Len(q) : q[i] = q[j] => i = j

\* Who waits for the section is in the queue, once, or it is current_thread and
\* woken; a current_thread is inside or on its way.
InOrder ==
  /\ wakeup_session \subseteq sleep_session
  /\ Once(thread_queue)
  /\ \A c \in Co :
       /\ c \in ToSet(thread_queue) => pc[c] = "lock" /\ c \notin wakeup_session
       /\ pc[c] = "lock" => c \in ToSet(thread_queue) \/ (current_thread = c /\ c \in wakeup_session)
       /\ pc[c] = "granted" => current_thread = c
  /\ current_thread # None =>
       inside[current_thread] > 0 \/ pc[current_thread] \in {"lock", "granted"}
  /\ current_thread = None => thread_queue = <<>>

\* All this as long as no woken coroutine has gone on before.
Turns == ~stale => InOrder

IInv == TypeOK /\ Places /\ Tables /\ Answers /\ Section /\ Turns

-----------------------------------------------------------------------------
(* The elements of a sequence.                                             *)

LEMMA ElementsOf ==
  ASSUME NEW S, NEW q \in Seq(S)
  PROVE  /\ \A x : x \in ToSet(q) <=> \E i \in 1..Len(q) : q[i] = x
         /\ ToSet(q) \subseteq S
  BY DEF ToSet

LEMMA NoElements == ToSet(<<>>) = {} /\ Once(<<>>) /\ \A S : <<>> \in Seq(S)
  BY DEF ToSet, Once

LEMMA ElementsOfAppend ==
  ASSUME NEW S, NEW q \in Seq(S), NEW e \in S
  PROVE  /\ Append(q, e) \in Seq(S)
         /\ ToSet(Append(q, e)) = ToSet(q) \cup {e}
         /\ Once(q) /\ e \notin ToSet(q) => Once(Append(q, e))
  <1> DEFINE r == Append(q, e)
  <1>1. /\ r \in Seq(S) /\ Len(r) = Len(q) + 1 /\ r[Len(q) + 1] = e
        /\ \A i \in 1..Len(q) : r[i] = q[i]
    BY AppendProperties
  <1> HIDE DEF r
  <1>2. \A x : x \in ToSet(r) <=> x \in ToSet(q) \/ x = e
    BY <1>1, ElementsOf
  <1>3. Once(q) /\ e \notin ToSet(q) => Once(r)
    BY <1>1, ElementsOf DEF Once
  <1> QED BY <1>1, <1>2, <1>3 DEF r

LEMMA ElementsOfConcat ==
  ASSUME NEW S, NEW q \in Seq(S), NEW r \in Seq(S)
  PROVE  q \o r \in Seq(S) /\ ToSet(q \o r) = ToSet(q) \cup ToSet(r)
  <1> DEFINE t == q \o r
  <1>1. /\ t \in Seq(S) /\ Len(t) = Len(q) + Len(r)
        /\ \A i \in 1..Len(q) : t[i] = q[i]
        /\ \A i \in 1..Len(r) : t[Len(q) + i] = r[i]
    OBVIOUS
  <1> HIDE DEF t
  <1>2. Len(q) \in Nat /\ Len(r) \in Nat
    OBVIOUS
  <1>3. ASSUME NEW x \in ToSet(t)
        PROVE  x \in ToSet(q) \cup ToSet(r)
    <2>1. PICK i \in 1..Len(t) : t[i] = x
      BY <1>1, ElementsOf
    <2>2. CASE i <= Len(q)
      BY <1>1, <1>2, <2>1, <2>2, ElementsOf
    <2>3. CASE i > Len(q)
      <3>1. PICK j \in 1..Len(r) : i = Len(q) + j
        <4>1. i - Len(q) \in 1..Len(r) /\ i = Len(q) + (i - Len(q))
          BY <1>1, <1>2, <2>3
        <4> QED BY <4>1
      <3>2. r[j] = x
        BY <1>1, <2>1, <3>1
      <3> QED BY <3>2, ElementsOf
    <2> QED BY <1>1, <1>2, <2>2, <2>3
  <1>4. ToSet(q) \subseteq ToSet(t)
    BY <1>1, <1>2, ElementsOf
  <1>5. ToSet(r) \subseteq ToSet(t)
    <2> SUFFICES ASSUME NEW x \in ToSet(r) PROVE x \in ToSet(t)
      OBVIOUS
    <2>1. PICK i \in 1..Len(r) : r[i] = x
      BY ElementsOf
    <2>2. Len(q) + i \in 1..Len(t) /\ t[Len(q) + i] = x
      BY <1>1, <1>2, <2>1
    <2> QED BY <1>1, <2>2, ElementsOf
  <1> QED BY <1>1, <1>3, <1>4, <1>5 DEF t

LEMMA ElementsOfTail ==
  ASSUME NEW S, NEW q \in Seq(S), q # <<>>
  PROVE  /\ Head(q) \in S /\ Tail(q) \in Seq(S)
         /\ ToSet(q) = {Head(q)} \cup ToSet(Tail(q))
         /\ Once(q) => Once(Tail(q)) /\ Head(q) \notin ToSet(Tail(q))
  <1> DEFINE r == Tail(q)
  <1>1. /\ Head(q) = q[1] /\ Len(q) \in Nat /\ Len(q) > 0
        /\ r \in Seq(S) /\ Len(r) = Len(q) - 1
        /\ \A i \in 1..Len(r) : r[i] = q[i + 1]
    OBVIOUS
  <1> HIDE DEF r
  <1>2. ASSUME NEW x \in ToSet(q), x # q[1]
        PROVE  x \in ToSet(r)
    <2>1. PICK i \in 1..Len(q) : q[i] = x
      BY ElementsOf
    <2>2. i - 1 \in 1..Len(r) /\ r[i - 1] = x
      BY <1>1, <1>2, <2>1
    <2> QED BY <1>1, <2>2, ElementsOf
  <1>3. ToSet(r) \subseteq ToSet(q) /\ q[1] \in ToSet(q)
    BY <1>1, ElementsOf
  <1>4. ASSUME Once(q)
        PROVE  Once(r) /\ q[1] \notin ToSet(r)
    BY <1>1, <1>4, ElementsOf DEF Once
  <1> QED BY <1>1, <1>2, <1>3, <1>4, ElementsOf DEF r

\* The errors that ServiceDown puts in the queue.
LEMMA FailedSessions ==
  ASSUME NEW S \in SUBSET Session, NEW failed \in SetToSeqs(S)
  PROVE  failed \in Seq(Session) /\ ToSet(failed) \subseteq S
  <1>1. Cardinality(S) \in Nat
    <2>1. IsFiniteSet(Session)
      BY LuaAssumption, FS_Interval DEF Session
    <2> QED BY <2>1, FS_Subset, FS_CardinalityType
  <1>2. failed \in [1..Cardinality(S) -> S]
    BY DEF SetToSeqs
  <1>3. failed \in Seq(S) /\ failed \in Seq(Session)
    BY <1>1, <1>2
  <1> QED BY <1>3, ElementsOf

-----------------------------------------------------------------------------
(* Types.                                                                  *)

LEMMA CreatedIsFree == Free # {} => Created \in Co /\ pc[Created] = "free"
  BY DEF Free, Created

\* c leaves the section n times: not at all, but not for the last time, or
\* for the last time.
LEMMA Released ==
  ASSUME TypeOK, Section, NEW c \in Co, NEW n \in 0..inside[c], Release(c, n)
  PROVE  /\ inside' \in [Co -> Nat] /\ inside' = [inside EXCEPT ![c] = @ - n]
         /\ ref' \in Nat
         /\ \/ n = 0 /\ inside' = inside /\ ref' = ref
               /\ UNCHANGED <<current_thread, thread_queue, wakeup_session>>
            \/ n > 0 /\ current_thread = c /\ ref' = inside'[c] /\ ref' > 0
               /\ UNCHANGED <<current_thread, thread_queue, wakeup_session>>
            \/ n > 0 /\ current_thread = c /\ ref' = 0 /\ inside'[c] = 0
               /\ \/ /\ thread_queue = <<>> /\ thread_queue' = <<>> /\ current_thread' = None
                     /\ wakeup_session' = wakeup_session
                  \/ /\ thread_queue # <<>> /\ thread_queue' = Tail(thread_queue)
                     /\ current_thread' = Head(thread_queue)
                     /\ wakeup_session' =
                          wakeup_session \cup ({Head(thread_queue)} \cap sleep_session)
  <1>1. /\ inside' = [inside EXCEPT ![c] = @ - n] /\ ref' = ref - n
        /\ inside[c] \in Nat /\ ref \in Nat /\ n \in Nat /\ n <= inside[c]
    BY DEF Release, TypeOK
  <1>2. inside' \in [Co -> Nat] /\ inside'[c] = inside[c] - n
    BY <1>1 DEF TypeOK
  <1>3. CASE n = 0
    <2>1. inside' = inside
      BY <1>1, <1>3 DEF TypeOK
    <2> QED BY <1>1, <1>2, <1>3, <2>1 DEF Release
  <1>4. CASE n > 0
    <2>1. current_thread = c /\ ref = inside[c]
      BY <1>1, <1>4 DEF Section
    <2>2. ref' \in Nat /\ ref' = inside'[c]
      BY <1>1, <1>2, <2>1
    <2>3. CASE ref' = 0
      <3>1. sleep_session \subseteq Co /\ thread_queue \in Seq(Co)
        BY DEF TypeOK
      <3>2. CASE thread_queue = <<>>
        BY <1>1, <1>2, <1>4, <2>1, <2>2, <2>3, <3>1, <3>2, LuaAssumption DEF Release
      <3>3. CASE thread_queue # <<>>
        <4>1. Head(thread_queue) # None
          BY <3>1, <3>3, ElementsOfTail, LuaAssumption
        <4> QED BY <1>1, <1>2, <1>4, <2>1, <2>2, <2>3, <3>1, <3>3, <4>1 DEF Release
      <3> QED BY <3>2, <3>3
    <2>4. CASE ref' # 0
      BY <1>1, <1>2, <1>4, <2>1, <2>2, <2>4 DEF Release
    <2> QED BY <2>3, <2>4
  <1> QED BY <1>1, <1>3, <1>4

LEMMA ReleasedType ==
  ASSUME TypeOK, Section, NEW c \in Co, NEW n \in 0..inside[c], Release(c, n)
  PROVE  /\ inside' \in [Co -> Nat] /\ ref' \in Nat /\ thread_queue' \in Seq(Co)
         /\ current_thread' \in Co \cup {None} /\ wakeup_session' \subseteq Co
  <1>1. /\ thread_queue \in Seq(Co) /\ sleep_session \subseteq Co /\ wakeup_session \subseteq Co
        /\ current_thread \in Co \cup {None}
    BY DEF TypeOK
  <1>2. thread_queue # <<>> => Head(thread_queue) \in Co /\ Tail(thread_queue) \in Seq(Co)
    BY <1>1, ElementsOfTail
  <1> QED BY <1>1, <1>2, Released

\* Resuming a coroutine, and making it wait for a new session, keeps the types.
LEMMA ResumedType ==
  ASSUME TypeOK, NEW c \in Co, Resume(c)
  PROVE  /\ pc' \in [Co -> {"free", "forked", "run", "call", "sleep", "wait", "lock", "granted",
                            "dead", "quit"}]
         /\ session' \in [Co -> 0..MaxSession] /\ run' \in Co
  BY LuaAssumption DEF TypeOK, Resume

LEMMA WaitsForType ==
  ASSUME TypeOK, NEW c \in Co, NEW d \in Peer \cup {timer, None},
         NEW where \in Waiting, WaitsFor(c, where, d)
  PROVE  /\ used' \in Session /\ used' = used + 1
         /\ pc' \in [Co -> {"free", "forked", "run", "call", "sleep", "wait", "lock", "granted",
                            "dead", "quit"}]
         /\ session' \in [Co -> 0..MaxSession]
         /\ due' \in [Session -> Peer \cup {timer, None}]
         /\ session_id_coroutine' \in [Session -> Co \cup {BREAK, None}]
         /\ run' = None /\ todo' \in Seq({"wakeup", "error"})
  <1>1. used' \in Session /\ used' = used + 1 /\ Session \subseteq 0..MaxSession
    BY LuaAssumption DEF TypeOK, WaitsFor, Session
  <1>2. todo' \in Seq({"wakeup", "error"})
    BY DEF TypeOK, WaitsFor, Suspended, AfterYield
  <1>3. pc' \in [Co -> {"free", "forked", "run", "call", "sleep", "wait", "lock", "granted",
                            "dead", "quit"}]
    BY DEF TypeOK, WaitsFor, Waiting, Asleep
  <1> QED BY <1>1, <1>2, <1>3 DEF TypeOK, WaitsFor, Suspended

-----------------------------------------------------------------------------
(* One step of TypeOK.                                                     *)

LEMMA InitInv == Init => IInv
  <1> SUFFICES ASSUME Init PROVE IInv
    OBVIOUS
  <1>1. TypeOK
    <2>1. used \in 0..MaxSession /\ \A c \in Co : session[c] \in 0..MaxSession
      BY LuaAssumption DEF Init
    <2>2. requests \in 0..MaxRequest /\ forks \in 0..MaxFork /\ enters \in 0..MaxEnter
      BY LuaAssumption DEF Init
    <2> QED BY <2>1, <2>2, NoElements DEF Init, TypeOK
  <1>2. Places /\ Section
    BY LuaAssumption DEF Init, Places, Section, Asleep
  <1>3. Tables /\ Answers
    BY LuaAssumption, NoElements DEF Init, Tables, Answers, Asleep, Waiting
  <1>4. Turns
    BY NoElements DEF Init, Turns, InOrder
  <1> QED BY <1>1, <1>2, <1>3, <1>4 DEF IInv

LEMMA StepType ==
  ASSUME IInv, [Next]_vars
  PROVE  TypeOK'
  <1> USE LuaAssumption DEF IInv
  <1>1. ASSUME NEW p \in Peer, NEW c \in Co, Request(p, c)
        PROVE  TypeOK'
    <2>1. Resume(c)
      BY <1>1 DEF Request
    <2> QED BY <1>1, <2>1, ResumedType DEF Request, TypeOK, tables, section
  <1>2. ASSUME NEW s \in Session, Response(s)
        PROVE  TypeOK'
    <2>1. session_id_coroutine[s] \in Co \cup {BREAK, None}
      BY DEF TypeOK
    <2>2. CASE session_id_coroutine[s] \in Co
      <3>1. Resume(session_id_coroutine[s])
        BY <1>2, <2>2 DEF Response
      <3> QED BY <1>2, <2>2, <3>1, ResumedType DEF Response, TypeOK, sources
    <2>3. CASE session_id_coroutine[s] \notin Co
      BY <1>2, <2>3 DEF Response, TypeOK, sources
    <2> QED BY <2>2, <2>3
  <1>3. ASSUME NEW failed \in Seq(Session), ErrorMessage(failed)
        PROVE  /\ phase' \in {"idle", "busy"} /\ todo' \in Seq({"wakeup", "error"})
               /\ error_queue' \in Seq(Session)
    BY <1>3, ElementsOfConcat DEF ErrorMessage, TypeOK, AfterYield
  <1>4. ASSUME NEW s \in Session, CallError(s)
        PROVE  TypeOK'
    <2> DEFINE failed == IF watching_session[s] = None THEN <<>> ELSE <<s>>
    <2>1. failed \in Seq(Session) /\ ErrorMessage(failed)
      BY <1>4 DEF CallError
    <2> QED BY <1>3, <1>4, <2>1 DEF CallError, TypeOK, sources, section
  <1>5. ASSUME NEW p \in Peer, ServiceDown(p)
        PROVE  TypeOK'
    <2>1. PICK failed \in SetToSeqs({s \in Session : watching_session[s] = p}) :
                 ErrorMessage(failed)
      BY <1>5 DEF ServiceDown
    <2>2. failed \in Seq(Session)
      BY FailedSessions
    <2> QED BY <1>3, <1>5, <2>1, <2>2 DEF ServiceDown, TypeOK, sources, world, section
  <1>6. CASE OtherMessage
    BY <1>3, <1>6, NoElements DEF OtherMessage, TypeOK, sources, world, section
  <1>7. CASE DispatchWakeup
    <2>1. todo' \in Seq({"wakeup", "error"})
      BY <1>7 DEF DispatchWakeup, Then, TypeOK
    <2>2. ASSUME NEW c \in wakeup_session, Resume(c),
                 sleep_session' = sleep_session \ {c},
                 wakeup_session' = wakeup_session \ {c},
                 session_id_coroutine' = [session_id_coroutine EXCEPT ![session[c]] =
                       IF pc[c] = "sleep" THEN BREAK ELSE None]
          PROVE  TypeOK'
      <3>1. c \in Co
        BY DEF TypeOK
      <3> QED BY <1>7, <2>1, <2>2, <3>1, ResumedType
              DEF DispatchWakeup, TypeOK, sources, world, section
    <2>3. ASSUME wakeup_session' \subseteq wakeup_session,
                 UNCHANGED <<pc, session, run, sleep_session, session_id_coroutine>>
          PROVE  TypeOK'
      BY <1>7, <2>1, <2>3 DEF DispatchWakeup, TypeOK, sources, world, section
    <2> QED BY <1>7, <2>2, <2>3 DEF DispatchWakeup
  <1>8. CASE DispatchError
    <2>1. CASE error_queue = <<>>
      <3>1. todo' \in Seq({"wakeup", "error"})
        <4>1. todo # <<>> /\ todo' = Tail(todo)
          BY <1>8, <2>1 DEF DispatchError, Then
        <4> QED BY <4>1 DEF TypeOK
      <3> QED BY <1>8, <2>1, <3>1 DEF DispatchError, TypeOK, sources, world, section
    <2>2. CASE error_queue # <<>>
      <3> DEFINE s == Head(error_queue)
                 co == session_id_coroutine[s]
      <3>1. s \in Session /\ Tail(error_queue) \in Seq(Session) /\ s \in ToSet(error_queue)
        BY <2>2, ElementsOfTail DEF TypeOK
      <3>2. co \in Co \cup {None}
        BY <3>1 DEF TypeOK, Answers
      <3> HIDE DEF s
      <3>3. todo' \in Seq({"wakeup", "error"})
        <4>1. todo # <<>> /\ (todo' = <<>> \/ todo' = Tail(todo))
          BY <1>8, <2>2 DEF DispatchError, Then
        <4>2. todo \in Seq({"wakeup", "error"})
          BY DEF TypeOK
        <4>3. Tail(todo) \in Seq({"wakeup", "error"})
          BY <4>1, <4>2
        <4> QED BY <4>1, <4>3, NoElements
      <3>4. /\ error_queue' \in Seq(Session)
            /\ session_id_coroutine' \in [Session -> Co \cup {BREAK, None}]
        BY <1>8, <2>2, <3>1 DEF DispatchError, TypeOK, s
      <3>5. CASE co = None
        BY <1>8, <2>2, <3>3, <3>4, <3>5 DEF DispatchError, TypeOK, sources, world, section, s
      <3>6. CASE co \in Co
        <4>1. Resume(co) /\ watching_session' = [watching_session EXCEPT ![s] = None]
          BY <1>8, <2>2, <3>6 DEF DispatchError, s
        <4> QED BY <1>8, <2>2, <3>3, <3>4, <3>6, <4>1, ResumedType
                DEF DispatchError, TypeOK, sources, world, section
      <3> QED BY <3>2, <3>5, <3>6
    <2> QED BY <2>1, <2>2
  <1>9. CASE RunFork
    <2> phase' \in {"idle", "busy"} /\ todo' = <<>>
      BY <1>9 DEF RunFork, TypeOK
    <2>1. CASE fork_queue' = fork_queue /\ UNCHANGED <<pc, session, run>>
      BY <1>9, <2>1, NoElements DEF RunFork, TypeOK, sources, world, section
    <2>2. ASSUME NEW c \in fork_queue, fork_queue' = fork_queue \ {c}, Resume(c)
          PROVE  TypeOK'
      <3>1. c \in Co
        BY DEF TypeOK
      <3> QED BY <1>9, <2>2, <3>1, ResumedType, NoElements DEF RunFork, TypeOK, sources, world, section
    <2> QED BY <1>9, <2>1, <2>2 DEF RunFork
  <1>10. ASSUME NEW c \in Co, NEW p \in Peer, Call(c, p)
         PROVE  TypeOK'
    <2>1. WaitsFor(c, "call", p) /\ "call" \in Waiting
      BY <1>10 DEF Call, Waiting
    <2>2. watching_session' \in [Session -> Peer \cup {None}]
      BY <1>10 DEF Call, TypeOK
    <2> QED BY <1>10, <2>1, <2>2, WaitsForType DEF Call, TypeOK, Session, sources, section
  <1>11. ASSUME NEW c \in Co, NEW where \in {"sleep", "wait"}, NEW d \in {timer, None},
                Sleep(c, where, d)
         PROVE  TypeOK'
    <2>1. WaitsFor(c, where, d) /\ where \in Waiting
      BY <1>11 DEF Sleep, Waiting, Asleep
    <2> QED BY <1>11, <2>1, WaitsForType DEF Sleep, TypeOK, Session, sources, section
  <1>12. ASSUME NEW c \in Co, NEW d \in Co, Wakeup(c, d)
         PROVE  TypeOK'
    BY <1>12 DEF Wakeup, TypeOK, flow, sources, world, section
  <1>13. ASSUME NEW c \in Co, NEW d \in Co, Fork(c, d)
         PROVE  TypeOK'
    BY <1>13 DEF Fork, TypeOK, sources, section
  <1>14. ASSUME NEW c \in Co, Ret(c)
         PROVE  TypeOK'
    BY <1>14 DEF Ret, Hear, TypeOK, flow, tables, world, section
  <1>15. ASSUME NEW c \in Co, Enter(c)
         PROVE  TypeOK'
    <2>3. enters' \in 0..MaxEnter
      <3>1. enters < MaxEnter /\ enters' = enters + 1
        BY <1>15 DEF Enter
      <3> QED BY <3>1 DEF TypeOK
    <2>1. CASE MayEnter(c)
      <3>1. ref' = ref + 1 /\ inside' = [inside EXCEPT ![c] = @ + 1]
        BY <1>15, <2>1 DEF Enter
      <3>2. ref' \in Nat /\ inside' \in [Co -> Nat]
        BY <3>1 DEF TypeOK
      <3> QED BY <1>15, <2>1, <2>3, <3>2 DEF Enter, TypeOK, sources, flow
    <2>2. CASE ~MayEnter(c)
      <3>1. WaitsFor(c, "lock", None) /\ "lock" \in Waiting
        BY <1>15, <2>2 DEF Enter, Waiting, Asleep
      <3>2. thread_queue' \in Seq(Co)
        <4>1. thread_queue' = Append(thread_queue, c)
          BY <1>15, <2>2 DEF Enter
        <4> QED BY <4>1, ElementsOfAppend DEF TypeOK
      <3>3. /\ sleep_session' = sleep_session \cup {c}
            /\ UNCHANGED <<current_thread, ref, inside, phase, exited, watching_session,
                           wakeup_session, error_queue, fork_queue, dead_service, sources,
                           requests, forks, stale>>
        BY <1>15, <2>2 DEF Enter
      <3>4. used' \in 0..MaxSession
        BY <3>1, WaitsForType DEF Session
      <3> QED BY <2>3, <3>1, <3>2, <3>3, <3>4, WaitsForType DEF TypeOK, sources
    <2> QED BY <2>1, <2>2
  <1>16. ASSUME NEW c \in Co, Granted(c)
         PROVE  TypeOK'
    BY <1>16 DEF Granted, TypeOK, tables, sources, world
  <1>17. ASSUME NEW c \in Co, Leave(c)
         PROVE  TypeOK'
    <2>1. 1 \in 0..inside[c] /\ Release(c, 1)
      BY <1>17 DEF Leave, TypeOK
    <2> QED BY <1>17, <2>1, ReleasedType DEF Leave, TypeOK, flow, sources, world
  <1>18. ASSUME NEW c \in Co, Finish(c)
         PROVE  TypeOK'
    <2>1. todo' \in Seq({"wakeup", "error"})
      BY <1>18 DEF Finish, Suspended, AfterYield, TypeOK
    <2> QED BY <1>18, <2>1 DEF Finish, Suspended, Over, TypeOK, tables, world, section
  <1>19. ASSUME NEW c \in Co, Raise(c)
         PROVE  TypeOK'
    <2>1. inside[c] \in 0..inside[c] /\ Release(c, inside[c])
      BY <1>19 DEF Raise, TypeOK
    <2> QED BY <1>19, <2>1, ReleasedType DEF Raise, Over, Unwound, TypeOK, world
  <1>20. ASSUME NEW c \in Co, Exit(c)
         PROVE  TypeOK'
    BY <1>20 DEF Exit, Hear, TypeOK, tables, world, section
  <1>21. CASE UNCHANGED vars
    BY <1>21 DEF TypeOK, vars, flow, tables, sources, world, section
  <1> QED BY <1>1, <1>2, <1>4, <1>5, <1>6, <1>7, <1>8, <1>9, <1>10, <1>11, <1>12, <1>13,
             <1>14, <1>15, <1>16, <1>17, <1>18, <1>19, <1>20, <1>21
          DEF Next, Message, Scheduler, Slice

-----------------------------------------------------------------------------
(* What resuming a coroutine and what waiting change, point by point.      *)

LEMMA Resumed ==
  ASSUME TypeOK, NEW c \in Co, Resume(c)
  PROVE  /\ run' = c
         /\ pc'[c] = IF pc[c] = "lock" THEN "granted" ELSE "run"
         /\ \A d \in Co \ {c} : pc'[d] = pc[d] /\ session'[d] = session[d]
  BY DEF Resume, TypeOK

LEMMA Waits ==
  ASSUME TypeOK, NEW c \in Co, NEW where, NEW d, WaitsFor(c, where, d)
  PROVE  /\ used' = used + 1 /\ used' \in Session /\ used' \notin 1..used /\ run' = None
         /\ pc'[c] = where /\ session'[c] = used'
         /\ \A e \in Co \ {c} : pc'[e] = pc[e] /\ session'[e] = session[e]
         /\ due'[used'] = d /\ session_id_coroutine'[used'] = c
         /\ \A s \in Session \ {used'} :
              due'[s] = due[s] /\ session_id_coroutine'[s] = session_id_coroutine[s]
  <1>1. used \in 0..MaxSession /\ used < MaxSession /\ used' = used + 1
    BY DEF TypeOK, WaitsFor
  <1>2. used' \in Session /\ used' \notin 1..used
    BY <1>1, LuaAssumption DEF Session
  <1> QED BY <1>1, <1>2 DEF TypeOK, WaitsFor, Suspended

\* Coroutines that wait do so for different sessions.
LEMMA OwnSession ==
  ASSUME Tables, NEW c \in Co, NEW d \in Co, pc[c] \in Waiting, pc[d] \in Waiting, c # d
  PROVE  session[c] # session[d]
  BY DEF Tables

\* The coroutine that has a failed session is in a call.
LEMMA FailedIsCall ==
  ASSUME TypeOK, Tables, Answers, NEW s \in ToSet(error_queue),
         s \in Session, session_id_coroutine[s] \in Co
  PROVE  pc[session_id_coroutine[s]] = "call" /\ session[session_id_coroutine[s]] = s
  <1> DEFINE c == session_id_coroutine[s]
  <1>1. pc[c] \in Waiting /\ session[c] = s
    BY DEF Tables
  <1>2. pc[c] \notin Asleep
    BY <1>1 DEF Answers
  <1> QED BY <1>1, <1>2 DEF Waiting

\* What dispatch_error_queue finds.
LEMMA FailedHead ==
  ASSUME TypeOK, Tables, Answers, error_queue # <<>>
  PROVE  LET s == Head(error_queue)
             co == session_id_coroutine[s]
         IN /\ s \in Session /\ Tail(error_queue) \in Seq(Session)
            /\ ToSet(error_queue) = {s} \cup ToSet(Tail(error_queue))
            /\ co \in Co \cup {None}
            /\ co \in Co => pc[co] = "call" /\ session[co] = s
  <1> DEFINE s == Head(error_queue)
             co == session_id_coroutine[s]
  <1>1. /\ s \in Session /\ Tail(error_queue) \in Seq(Session)
        /\ ToSet(error_queue) = {s} \cup ToSet(Tail(error_queue))
    BY ElementsOfTail DEF TypeOK
  <1> HIDE DEF s
  <1>2. co \in Co \cup {None}
    BY <1>1 DEF TypeOK, Answers
  <1>3. co \in Co => pc[co] = "call" /\ session[co] = s
    BY <1>1, FailedIsCall
  <1> QED BY <1>1, <1>2, <1>3 DEF s

\* The coroutine that an answer resumes is in a call or in a sleep.
LEMMA AnsweredWaits ==
  ASSUME TypeOK, Tables, Answers, NEW s \in Session, due[s] # None,
         session_id_coroutine[s] \in Co
  PROVE  /\ pc[session_id_coroutine[s]] \in {"call", "sleep"}
         /\ session[session_id_coroutine[s]] = s
  <1> DEFINE c == session_id_coroutine[s]
  <1>1. pc[c] \in Waiting /\ session[c] = s
    BY DEF Tables
  <1>2. pc[c] \notin {"wait", "lock"}
    BY <1>1 DEF Answers
  <1> QED BY <1>1, <1>2 DEF Waiting, Asleep

-----------------------------------------------------------------------------
(* One step of Places.                                                     *)

LEMMA ResumedPlaces ==
  ASSUME TypeOK, Places, NEW c \in Co, Resume(c), sleep_session' = sleep_session \ {c},
         fork_queue' = fork_queue \ {c}
  PROVE  Places'
  BY Resumed DEF Places, Asleep

LEMMA WaitsPlaces ==
  ASSUME TypeOK, Places, NEW c \in Co, NEW where \in Waiting, NEW d, pc[c] = "run",
         WaitsFor(c, where, d), UNCHANGED fork_queue,
         sleep_session' = IF where \in Asleep THEN sleep_session \cup {c} ELSE sleep_session
  PROVE  Places'
  BY Waits, LuaAssumption DEF Places, Asleep, Waiting

LEMMA StepPlaces ==
  ASSUME IInv, [Next]_vars
  PROVE  Places'
  <1> USE LuaAssumption
  <1>0. TypeOK /\ Places /\ Tables /\ Answers
    BY DEF IInv
  <1>1. ASSUME NEW p \in Peer, NEW c \in Co, Request(p, c)
        PROVE  Places'
    <2>1. Resume(c) /\ UNCHANGED <<sleep_session, fork_queue>> /\ pc[c] = "free"
      BY <1>1, CreatedIsFree DEF Request, tables
    <2>2. c \notin sleep_session /\ c \notin fork_queue
      BY <1>0, <2>1 DEF Places, Asleep
    <2> QED BY <1>0, <2>1, <2>2, ResumedPlaces
  <1>2. ASSUME NEW s \in Session, Response(s)
        PROVE  Places'
    <2> DEFINE c == session_id_coroutine[s]
    <2>1. CASE c \in Co
      <3>1. Resume(c) /\ sleep_session' = sleep_session \ {c} /\ UNCHANGED fork_queue
        BY <1>2, <2>1 DEF Response
      <3>2. pc[c] \in {"call", "sleep"}
        BY <1>0, <1>2, <2>1, AnsweredWaits DEF Response
      <3>3. c \notin fork_queue
        BY <1>0, <2>1, <3>2 DEF Places
      <3> QED BY <1>0, <2>1, <3>1, <3>3, ResumedPlaces
    <2>2. CASE c \notin Co
      BY <1>0, <1>2, <2>2 DEF Response, Places
    <2> QED BY <2>1, <2>2
  <1>3. CASE DispatchWakeup
    <2>1. ASSUME NEW c \in wakeup_session, c \in sleep_session, Resume(c),
                 sleep_session' = sleep_session \ {c}
          PROVE  Places'
      <3>1. c \in Co /\ c \notin fork_queue /\ UNCHANGED fork_queue
        BY <1>0, <1>3, <2>1 DEF DispatchWakeup, TypeOK, Places, Asleep
      <3> QED BY <1>0, <2>1, <3>1, ResumedPlaces
    <2>2. CASE UNCHANGED <<pc, session, run, sleep_session, session_id_coroutine>>
      BY <1>0, <1>3, <2>2 DEF DispatchWakeup, Places
    <2> QED BY <1>3, <2>1, <2>2 DEF DispatchWakeup
  <1>4. CASE DispatchError
    <2> DEFINE c == session_id_coroutine[Head(error_queue)]
    <2>1. CASE UNCHANGED <<pc, run>>
      BY <1>0, <1>4, <2>1 DEF DispatchError, Places
    <2>2. CASE error_queue # <<>> /\ c \in Co
      <3>1. pc[c] = "call" /\ Resume(c) /\ UNCHANGED <<sleep_session, fork_queue>>
        BY <1>0, <1>4, <2>2, FailedHead DEF DispatchError
      <3>2. c \notin sleep_session /\ c \notin fork_queue
        BY <1>0, <2>2, <3>1 DEF Places, Asleep
      <3> QED BY <1>0, <2>2, <3>1, <3>2, ResumedPlaces
    <2> QED BY <1>0, <1>4, <2>1, <2>2, FailedHead DEF DispatchError
  <1>5. CASE RunFork
    <2>1. ASSUME NEW c \in fork_queue, fork_queue' = fork_queue \ {c}, Resume(c)
          PROVE  Places'
      <3>1. c \in Co /\ c \notin sleep_session /\ UNCHANGED sleep_session
        BY <1>0, <1>5, <2>1 DEF RunFork, TypeOK, Places, Asleep
      <3> QED BY <1>0, <2>1, <3>1, ResumedPlaces
    <2>2. CASE UNCHANGED <<fork_queue, pc, session, run>>
      BY <1>0, <1>5, <2>2 DEF RunFork, Places
    <2> QED BY <1>5, <2>1, <2>2 DEF RunFork
  <1>6. ASSUME NEW c \in Co, NEW p \in Peer, Call(c, p)
        PROVE  Places'
    BY <1>0, <1>6, WaitsPlaces DEF Call, Running, Waiting, Asleep
  <1>7. ASSUME NEW c \in Co, NEW where \in {"sleep", "wait"}, NEW d, Sleep(c, where, d)
        PROVE  Places'
    BY <1>0, <1>7, WaitsPlaces DEF Sleep, Running, Waiting, Asleep
  <1>8. ASSUME NEW c \in Co, NEW d \in Co, Fork(c, d)
        PROVE  Places'
    BY <1>0, <1>8, CreatedIsFree DEF Fork, Running, Places, Asleep, TypeOK
  <1>9. ASSUME NEW c \in Co, Enter(c)
        PROVE  Places'
    <2>1. CASE MayEnter(c)
      BY <1>0, <1>9, <2>1 DEF Enter, Places, flow
    <2>2. CASE ~MayEnter(c)
      BY <1>0, <1>9, <2>2, WaitsPlaces DEF Enter, Running, Waiting, Asleep
    <2> QED BY <2>1, <2>2
  <1>10. ASSUME NEW c \in Co, Granted(c)
         PROVE  Places'
    BY <1>0, <1>10 DEF Granted, Places, tables, TypeOK, Asleep
  <1>11. ASSUME NEW c \in Co, Finish(c)
         PROVE  Places'
    BY <1>0, <1>11 DEF Finish, Running, Suspended, Places, tables, TypeOK, Asleep
  <1>12. ASSUME NEW c \in Co, Raise(c)
         PROVE  Places'
    <2>1. /\ run' = None /\ pc[c] \in {"run", "granted"} /\ UNCHANGED <<sleep_session, fork_queue>>
          /\ pc' = [pc EXCEPT ![c] =
               IF c \in wakeup_session \/ c \in ToSet(thread_queue) THEN "dead" ELSE "free"]
      BY <1>0, <1>12 DEF Raise, Unwound, Places
    <2> QED BY <1>0, <2>1 DEF Places, TypeOK, Asleep
  <1>13. ASSUME NEW c \in Co, Exit(c)
         PROVE  Places'
    BY <1>0, <1>13 DEF Exit, Running, Places, tables, TypeOK, Asleep
  <1>14. CASE UNCHANGED <<pc, run, sleep_session, fork_queue>>
    BY <1>0, <1>14 DEF Places
  <1>15. ASSUME \/ \E s \in Session : CallError(s)
                \/ \E p \in Peer : ServiceDown(p)
                \/ OtherMessage \/ UNCHANGED vars
                \/ \E c \in Co : Ret(c) \/ Leave(c) \/ \E d \in Co : Wakeup(c, d)
         PROVE  UNCHANGED <<pc, run, sleep_session, fork_queue>>
    BY <1>15 DEF CallError, ServiceDown, OtherMessage, Ret, Leave, Wakeup, vars, flow, tables
  <1> QED BY <1>1, <1>2, <1>3, <1>4, <1>5, <1>6, <1>7, <1>8, <1>9, <1>10, <1>11, <1>12,
             <1>13, <1>14, <1>15
          DEF Next, Message, Scheduler, Slice

-----------------------------------------------------------------------------
(* One step of Tables.                                                     *)

\* A coroutine that does not wait is resumed, and the tables stay.
LEMMA StartedTables ==
  ASSUME TypeOK, Tables, NEW c \in Co, Resume(c), pc[c] \notin Waiting,
         UNCHANGED <<used, session_id_coroutine>>
  PROVE  Tables'
  BY Resumed DEF Tables, Waiting, Asleep, Session

\* A coroutine that waits is resumed and taken from the table.
LEMMA ResumedTables ==
  ASSUME TypeOK, Tables, NEW c \in Co, Resume(c), pc[c] \in Waiting, NEW x, x \notin Co,
         session_id_coroutine' = [session_id_coroutine EXCEPT ![session[c]] = x],
         UNCHANGED used
  PROVE  Tables'
  <1>1. \A d \in Co \ {c} : pc[d] \in Waiting => session[d] # session[c]
    BY OwnSession
  <1>2. pc'[c] \notin Waiting
    BY Resumed DEF Waiting, Asleep
  <1>3. ASSUME NEW d \in Co, pc'[d] \in Waiting
        PROVE  session'[d] \in 1..used /\ session_id_coroutine'[session'[d]] = d
    <2>1. d # c /\ pc[d] \in Waiting /\ session'[d] = session[d]
      BY <1>2, <1>3, Resumed
    <2> QED BY <1>1, <2>1, LuaAssumption DEF Tables, TypeOK, Session
  <1>4. ASSUME NEW s \in Session, session_id_coroutine'[s] \in Co
        PROVE  /\ pc'[session_id_coroutine'[s]] \in Waiting
               /\ session'[session_id_coroutine'[s]] = s
    <2>1. s # session[c] /\ session_id_coroutine'[s] = session_id_coroutine[s]
      BY <1>4 DEF TypeOK
    <2>2. session_id_coroutine[s] # c
      BY <1>4, <2>1 DEF Tables
    <2> QED BY <1>4, <2>1, <2>2, Resumed DEF Tables
  <1> QED BY <1>3, <1>4 DEF Tables

\* A running coroutine begins to wait.
LEMMA WaitsTables ==
  ASSUME TypeOK, Tables, NEW c \in Co, NEW where \in Waiting, NEW d, pc[c] = "run",
         WaitsFor(c, where, d)
  PROVE  Tables'
  <1>1. pc[c] \notin Waiting /\ used \in Nat /\ used' = used + 1
    BY Waits, LuaAssumption DEF Waiting, Asleep, TypeOK
  <1>2. ASSUME NEW e \in Co, pc'[e] \in Waiting
        PROVE  session'[e] \in 1..used' /\ session_id_coroutine'[session'[e]] = e
    <2>1. CASE e = c
      BY <1>1, <2>1, Waits
    <2>2. CASE e # c
      <3>1. session[e] \in 1..used /\ session_id_coroutine[session[e]] = e /\ session[e] \in Session
        BY <1>2, <2>2, Waits, LuaAssumption DEF Tables, TypeOK, Session
      <3> QED BY <1>1, <2>2, <3>1, Waits
    <2> QED BY <2>1, <2>2
  <1>3. ASSUME NEW s \in Session, session_id_coroutine'[s] \in Co
        PROVE  /\ pc'[session_id_coroutine'[s]] \in Waiting
               /\ session'[session_id_coroutine'[s]] = s
    <2>1. CASE s = used'
      BY <2>1, Waits
    <2>2. CASE s # used'
      BY <1>1, <1>3, <2>2, Waits DEF Tables
    <2> QED BY <2>1, <2>2
  <1> QED BY <1>2, <1>3 DEF Tables

\* Coroutines that do not wait change their places.
LEMMA MovedTables ==
  ASSUME TypeOK, Tables, UNCHANGED <<session, used, session_id_coroutine>>,
         \A c \in Co : pc'[c] = pc[c] \/ (pc[c] \notin Waiting /\ pc'[c] \notin Waiting)
  PROVE  Tables'
  BY DEF Tables

LEMMA StepTables ==
  ASSUME IInv, [Next]_vars
  PROVE  Tables'
  <1> USE LuaAssumption
  <1>0. TypeOK /\ Places /\ Tables /\ Answers
    BY DEF IInv
  <1>1. ASSUME NEW p \in Peer, NEW c \in Co, Request(p, c)
        PROVE  Tables'
    <2>1. Resume(c) /\ UNCHANGED <<used, session_id_coroutine>> /\ pc[c] \notin Waiting
      BY <1>1, CreatedIsFree DEF Request, tables, Waiting, Asleep
    <2> QED BY <1>0, <2>1, StartedTables
  <1>2. ASSUME NEW s \in Session, Response(s)
        PROVE  Tables'
    <2> DEFINE c == session_id_coroutine[s]
    <2>1. CASE c \in Co
      <3>1. pc[c] \in Waiting /\ session[c] = s
        BY <1>0, <2>1 DEF Tables
      <3>2. /\ Resume(c) /\ UNCHANGED used
            /\ session_id_coroutine' = [session_id_coroutine EXCEPT ![session[c]] = None]
        BY <1>2, <2>1, <3>1 DEF Response
      <3> QED BY <1>0, <2>1, <3>1, <3>2, ResumedTables
    <2>2. CASE c \notin Co
      <3>1. /\ session_id_coroutine' = [session_id_coroutine EXCEPT ![s] = None]
            /\ UNCHANGED <<pc, session, used>>
        BY <1>2, <2>2 DEF Response
      <3> QED BY <1>0, <2>2, <3>1 DEF Tables, TypeOK, Session
    <2> QED BY <2>1, <2>2
  <1>3. CASE DispatchWakeup
    <2>1. ASSUME NEW c \in wakeup_session, c \in sleep_session, Resume(c),
                 session_id_coroutine' = [session_id_coroutine EXCEPT ![session[c]] =
                       IF pc[c] = "sleep" THEN BREAK ELSE None]
          PROVE  Tables'
      <3>1. c \in Co /\ pc[c] \in Waiting /\ UNCHANGED used
        BY <1>0, <1>3, <2>1 DEF DispatchWakeup, TypeOK, Places, Waiting, world
      <3> QED BY <1>0, <2>1, <3>1, ResumedTables
    <2>2. CASE UNCHANGED <<pc, session, session_id_coroutine>>
      BY <1>0, <1>3, <2>2, MovedTables DEF DispatchWakeup, world
    <2> QED BY <1>3, <2>1, <2>2 DEF DispatchWakeup
  <1>4. CASE DispatchError
    <2> DEFINE s == Head(error_queue)
               c == session_id_coroutine[s]
    <2>1. CASE error_queue = <<>>
      BY <1>0, <1>4, <2>1, MovedTables DEF DispatchError, world
    <2>2. CASE error_queue # <<>> /\ c = None
      <3>1. s \in Session /\ session_id_coroutine' = session_id_coroutine
        BY <1>0, <1>4, <2>2, FailedHead DEF DispatchError, TypeOK
      <3> QED BY <1>0, <1>4, <2>2, <3>1, MovedTables DEF DispatchError, world
    <2>3. CASE error_queue # <<>> /\ c \in Co
      <3>1. pc[c] \in Waiting /\ session[c] = s
        BY <1>0, <2>3, FailedHead DEF Waiting
      <3>2. /\ Resume(c) /\ UNCHANGED used
            /\ session_id_coroutine' = [session_id_coroutine EXCEPT ![session[c]] = None]
        BY <1>4, <2>3, <3>1 DEF DispatchError, world
      <3> QED BY <1>0, <2>3, <3>1, <3>2, ResumedTables
    <2> QED BY <1>0, <2>1, <2>2, <2>3, FailedHead
  <1>5. CASE RunFork
    <2>1. ASSUME NEW c \in fork_queue, Resume(c)
          PROVE  Tables'
      <3>1. c \in Co /\ pc[c] \notin Waiting /\ UNCHANGED <<used, session_id_coroutine>>
        BY <1>0, <1>5, <2>1 DEF RunFork, TypeOK, Places, Waiting, Asleep, world
      <3> QED BY <1>0, <2>1, <3>1, StartedTables
    <2>2. CASE UNCHANGED <<fork_queue, pc, session, run>>
      BY <1>0, <1>5, <2>2, MovedTables DEF RunFork, world
    <2> QED BY <1>5, <2>1, <2>2 DEF RunFork
  <1>6. ASSUME NEW c \in Co, NEW p \in Peer, Call(c, p)
        PROVE  Tables'
    BY <1>0, <1>6, WaitsTables DEF Call, Running, Waiting
  <1>7. ASSUME NEW c \in Co, NEW where \in {"sleep", "wait"}, NEW d, Sleep(c, where, d)
        PROVE  Tables'
    BY <1>0, <1>7, WaitsTables DEF Sleep, Running, Waiting, Asleep
  <1>8. ASSUME NEW c \in Co, Enter(c)
        PROVE  Tables'
    <2>1. CASE MayEnter(c)
      BY <1>0, <1>8, <2>1, MovedTables DEF Enter, flow
    <2>2. CASE ~MayEnter(c)
      BY <1>0, <1>8, <2>2, WaitsTables DEF Enter, Running, Waiting, Asleep
    <2> QED BY <2>1, <2>2
  <1>9. ASSUME NEW c \in Co,
                \/ \E d \in Co : Fork(c, d)
                \/ Granted(c) \/ Finish(c) \/ Raise(c) \/ Exit(c)
        PROVE  Tables'
    <2>1. UNCHANGED <<session, used, session_id_coroutine>>
      BY <1>9 DEF Fork, Granted, Finish, Raise, Exit, tables, world
    <2>2. ASSUME NEW d \in Co, Fork(c, d)
          PROVE  \A e \in Co : pc'[e] = pc[e] \/ (pc[e] \notin Waiting /\ pc'[e] \notin Waiting)
      BY <1>0, <2>2, CreatedIsFree DEF Fork, TypeOK, Waiting, Asleep
    <2>3. ASSUME Granted(c) \/ Finish(c) \/ Raise(c) \/ Exit(c)
          PROVE  \A e \in Co : pc'[e] = pc[e] \/ (pc[e] \notin Waiting /\ pc'[e] \notin Waiting)
      <3>1. pc[c] \in {"run", "granted"}
        BY <1>0, <2>3 DEF Granted, Finish, Raise, Exit, Running, Places
      <3>2. /\ pc' = [pc EXCEPT ![c] = pc'[c]]
            /\ pc'[c] \in {"run", "free", "dead", "quit"}
        BY <1>0, <2>3 DEF Granted, Finish, Raise, Exit, TypeOK
      <3> QED BY <1>0, <3>1, <3>2 DEF TypeOK, Waiting, Asleep
    <2> QED BY <1>0, <1>9, <2>1, <2>2, <2>3, MovedTables
  <1>10. ASSUME \/ \E s \in Session : CallError(s)
                \/ \E p \in Peer : ServiceDown(p)
                \/ OtherMessage \/ UNCHANGED vars
                \/ \E c \in Co : Ret(c) \/ Leave(c) \/ \E d \in Co : Wakeup(c, d)
         PROVE  Tables'
    <2>1. UNCHANGED <<pc, session, used, session_id_coroutine>>
      BY <1>10 DEF CallError, ServiceDown, OtherMessage, Ret, Leave, Wakeup, vars, flow, tables, world
    <2> QED BY <1>0, <2>1, MovedTables
  <1> QED BY <1>1, <1>2, <1>3, <1>4, <1>5, <1>6, <1>7, <1>8, <1>9, <1>10
          DEF Next, Message, Scheduler, Slice

-----------------------------------------------------------------------------
(* One step of Answers.                                                    *)

\* A coroutine that waits is resumed; nothing changes for other sessions.
LEMMA ResumedAnswers ==
  ASSUME TypeOK, Tables, Answers, NEW c \in Co, Resume(c), pc[c] \in Waiting,
         NEW x \in {None, BREAK}, x = BREAK => pc[c] \in Asleep,
         session_id_coroutine' = [session_id_coroutine EXCEPT ![session[c]] = x],
         UNCHANGED used,
         \A s \in Session \ {session[c]} :
           due'[s] = due[s] /\ watching_session'[s] = watching_session[s],
         watching_session'[session[c]] \in {None, watching_session[session[c]]},
         ToSet(error_queue') \cup {session[c]} = ToSet(error_queue) \cup {session[c]},
         ToSet(error_queue') \subseteq ToSet(error_queue)
  PROVE  Answers'
  <1>1. \A d \in Co \ {c} : pc[d] \in Waiting => session[d] \in Session \ {session[c]}
    BY OwnSession, LuaAssumption DEF Tables, TypeOK, Session
  <1>2. pc'[c] \notin Waiting
    BY Resumed DEF Waiting, Asleep
  <1>3. ASSUME NEW d \in Co, pc'[d] \in Waiting
        PROVE  /\ pc[d] \in Waiting /\ pc'[d] = pc[d] /\ session'[d] = session[d]
               /\ due'[session[d]] = due[session[d]]
               /\ watching_session'[session[d]] = watching_session[session[d]]
               /\ session[d] \in ToSet(error_queue') <=> session[d] \in ToSet(error_queue)
    BY <1>1, <1>2, <1>3, Resumed
  <1>4. ASSUME NEW d \in Co
        PROVE  /\ pc'[d] = "call" => /\ watching_session'[session'[d]] # None
                                     /\ \/ due'[session'[d]] # None
                                        \/ session'[d] \in ToSet(error_queue')
               /\ pc'[d] = "sleep" => due'[session'[d]] = timer
               /\ pc'[d] \in {"wait", "lock"} => due'[session'[d]] = None
               /\ pc'[d] \in Asleep => /\ watching_session'[session'[d]] = None
                                       /\ session'[d] \notin ToSet(error_queue')
    BY <1>3 DEF Answers, Waiting, Asleep
  <1>5. ASSUME NEW s \in Session, watching_session'[s] # None \/ s \in ToSet(error_queue')
        PROVE  s \in 1..used /\ session_id_coroutine'[s] # BREAK
    <2>1. watching_session[s] # None \/ s \in ToSet(error_queue)
      BY <1>5
    <2>2. s \in 1..used /\ session_id_coroutine[s] # BREAK
      BY <2>1 DEF Answers
    <2>3. s = session[c] => x # BREAK
      BY <2>1 DEF Answers
    <2> QED BY <2>2, <2>3, LuaAssumption DEF TypeOK
  <1> QED BY <1>4, <1>5 DEF Answers

\* A coroutine that does not wait is resumed or moves; the tables stay.
LEMMA MovedAnswers ==
  ASSUME TypeOK, Answers,
         UNCHANGED <<used, session_id_coroutine, due, watching_session, error_queue>>,
         \A c \in Co : \/ pc'[c] = pc[c] /\ session'[c] = session[c]
                       \/ pc'[c] \notin Waiting
  PROVE  Answers'
  BY DEF Answers, Waiting, Asleep

LEMMA StartedAnswers ==
  ASSUME TypeOK, Answers, NEW c \in Co, Resume(c),
         UNCHANGED <<used, session_id_coroutine, due, watching_session, error_queue>>
  PROVE  Answers'
  BY MovedAnswers, Resumed DEF Waiting, Asleep

\* A running coroutine begins to wait.
LEMMA WaitsAnswers ==
  ASSUME TypeOK, Tables, Answers, NEW c \in Co, NEW where \in Waiting, NEW d, pc[c] = "run",
         WaitsFor(c, where, d), UNCHANGED error_queue,
         \/ /\ where = "call" /\ d # None
            /\ watching_session' = [watching_session EXCEPT ![used'] = d]
         \/ where = "sleep" /\ d = timer /\ UNCHANGED watching_session
         \/ where \in {"wait", "lock"} /\ d = None /\ UNCHANGED watching_session
  PROVE  Answers'
  <1>1. used \in Nat /\ used' = used + 1 /\ used' \in Session
    BY Waits, LuaAssumption DEF TypeOK
  <1>2. \A s \in Session \ {used'} : watching_session'[s] = watching_session[s]
    BY DEF TypeOK
  <1>3. watching_session[used'] = None /\ used' \notin ToSet(error_queue)
    BY <1>1, Waits DEF Answers
  <1>4. watching_session'[used'] = IF where = "call" THEN d ELSE None
    BY <1>1, <1>3 DEF TypeOK
  <1>5. ASSUME NEW e \in Co, e # c, pc[e] \in Waiting
        PROVE  session[e] \in Session \ {used'}
    BY <1>5, Waits, LuaAssumption DEF Tables, TypeOK, Session
  <1>6. ASSUME NEW e \in Co
        PROVE  /\ pc'[e] = "call" => /\ watching_session'[session'[e]] # None
                                     /\ \/ due'[session'[e]] # None
                                        \/ session'[e] \in ToSet(error_queue')
               /\ pc'[e] = "sleep" => due'[session'[e]] = timer
               /\ pc'[e] \in {"wait", "lock"} => due'[session'[e]] = None
               /\ pc'[e] \in Asleep => /\ watching_session'[session'[e]] = None
                                       /\ session'[e] \notin ToSet(error_queue')
    <2>1. CASE e = c
      BY <1>3, <1>4, <2>1, Waits DEF Asleep
    <2>2. CASE e # c
      <3>1. pc'[e] = pc[e] /\ session'[e] = session[e]
        BY <2>2, Waits
      <3>2. pc[e] \in Waiting => /\ due'[session[e]] = due[session[e]]
                                 /\ watching_session'[session[e]] = watching_session[session[e]]
        BY <1>2, <1>5, <2>2, Waits
      <3> QED BY <3>1, <3>2 DEF Answers, Waiting, Asleep
    <2> QED BY <2>1, <2>2
  <1>7. ASSUME NEW s \in Session, watching_session'[s] # None \/ s \in ToSet(error_queue')
        PROVE  s \in 1..used' /\ session_id_coroutine'[s] # BREAK
    <2>1. CASE s = used'
      BY <1>1, <2>1, Waits, LuaAssumption
    <2>2. CASE s # used'
      <3>1. s \in 1..used /\ session_id_coroutine[s] # BREAK
        BY <1>2, <1>7, <2>2 DEF Answers
      <3> QED BY <1>1, <2>2, <3>1, Waits
    <2> QED BY <2>1, <2>2
  <1> QED BY <1>6, <1>7 DEF Answers

\* Watched sessions fail; `of` are those whose answer is not due any more.
LEMMA FailedAnswers ==
  ASSUME TypeOK, Tables, Answers, NEW failed \in Seq(Session), ErrorMessage(failed),
         UNCHANGED <<pc, session, used, session_id_coroutine, watching_session>>,
         \A s \in ToSet(failed) : watching_session[s] # None,
         \A s \in Session : \/ due'[s] = due[s]
                            \/ /\ due[s] \in Peer /\ due'[s] = None
                               /\ watching_session[s] # None => s \in ToSet(failed)
  PROVE  Answers'
  <1>1. error_queue' \in Seq(Session) /\ ToSet(error_queue') = ToSet(error_queue) \cup ToSet(failed)
    BY ElementsOfConcat DEF ErrorMessage, TypeOK
  <1>2. ASSUME NEW e \in Co, pc[e] \in Waiting
        PROVE  session[e] \in Session
    BY <1>2, LuaAssumption DEF Tables, TypeOK, Session
  <1>3. ASSUME NEW e \in Co
        PROVE  /\ pc'[e] = "call" => /\ watching_session'[session'[e]] # None
                                     /\ \/ due'[session'[e]] # None
                                        \/ session'[e] \in ToSet(error_queue')
               /\ pc'[e] = "sleep" => due'[session'[e]] = timer
               /\ pc'[e] \in {"wait", "lock"} => due'[session'[e]] = None
               /\ pc'[e] \in Asleep => /\ watching_session'[session'[e]] = None
                                       /\ session'[e] \notin ToSet(error_queue')
    <2>1. CASE pc[e] = "call"
      BY <1>1, <1>2, <2>1 DEF Answers, Waiting, Asleep
    <2>2. CASE pc[e] \in Asleep
      BY <1>1, <1>2, <2>2, LuaAssumption DEF Answers, Waiting, Asleep
    <2>3. CASE pc[e] \notin Waiting
      BY <2>3 DEF Waiting, Asleep
    <2> QED BY <2>1, <2>2, <2>3 DEF Waiting
  <1>4. ASSUME NEW s \in Session, watching_session'[s] # None \/ s \in ToSet(error_queue')
        PROVE  s \in 1..used' /\ session_id_coroutine'[s] # BREAK
    BY <1>1, <1>4 DEF Answers
  <1> QED BY <1>3, <1>4 DEF Answers

LEMMA StepAnswers ==
  ASSUME IInv, [Next]_vars
  PROVE  Answers'
  <1> USE LuaAssumption
  <1>0. TypeOK /\ Places /\ Tables /\ Answers
    BY DEF IInv
  <1>1. ASSUME NEW p \in Peer, NEW c \in Co, Request(p, c)
        PROVE  Answers'
    BY <1>0, <1>1, StartedAnswers DEF Request, tables
  <1>2. ASSUME NEW s \in Session, Response(s)
        PROVE  Answers'
    <2> DEFINE c == session_id_coroutine[s]
    <2>0. /\ due' = [due EXCEPT ![s] = None] /\ due[s] # None /\ UNCHANGED <<used, error_queue>>
          /\ session_id_coroutine' = [session_id_coroutine EXCEPT ![s] = None]
      BY <1>2 DEF Response
    <2>1. CASE c \in Co
      <3>1. pc[c] \in Waiting /\ session[c] = s
        BY <1>0, <2>1 DEF Tables
      <3>2. /\ Resume(c)
            /\ watching_session' = [watching_session EXCEPT ![s] = None]
        BY <1>2, <2>1 DEF Response
      <3>3. /\ \A r \in Session \ {s} :
                 due'[r] = due[r] /\ watching_session'[r] = watching_session[r]
            /\ watching_session'[s] = None
        BY <1>0, <2>0, <3>2 DEF TypeOK
      <3> QED BY <1>0, <2>0, <2>1, <3>1, <3>2, <3>3, ResumedAnswers
    <2>2. CASE c \notin Co
      <3>1. UNCHANGED <<pc, session, watching_session>>
        BY <1>2, <2>2 DEF Response
      <3>2. \A e \in Co : pc[e] \in Waiting => session[e] # s /\ session[e] \in Session
        BY <1>0, <2>2 DEF Tables, TypeOK, Session
      <3>3. \A r \in Session \ {s} : due'[r] = due[r]
        BY <1>0, <2>0 DEF TypeOK
      <3>4. \A r \in Session : session_id_coroutine'[r] \in {None, session_id_coroutine[r]}
        BY <1>0, <2>0 DEF TypeOK
      <3> QED BY <1>0, <2>0, <3>1, <3>2, <3>3, <3>4 DEF Answers, Waiting, Asleep
    <2> QED BY <2>1, <2>2
  <1>3. ASSUME NEW s \in Session, CallError(s)
        PROVE  Answers'
    <2> DEFINE failed == IF watching_session[s] = None THEN <<>> ELSE <<s>>
    <2>1. /\ ErrorMessage(failed) /\ due[s] \in Peer /\ due' = [due EXCEPT ![s] = None]
          /\ UNCHANGED <<pc, session, used, session_id_coroutine, watching_session>>
      BY <1>3 DEF CallError
    <2>2. /\ failed \in Seq(Session)
          /\ ToSet(failed) = IF watching_session[s] = None THEN {} ELSE {s}
      BY DEF ToSet
    <2>3. \A r \in Session : r # s => due'[r] = due[r]
      BY <1>0, <2>1 DEF TypeOK
    <2>4. due'[s] = None
      BY <1>0, <2>1 DEF TypeOK
    <2> HIDE DEF failed
    <2> QED BY <1>0, <2>1, <2>2, <2>3, <2>4, FailedAnswers
  <1>4. ASSUME NEW p \in Peer, ServiceDown(p)
        PROVE  Answers'
    <2>1. PICK failed \in SetToSeqs({s \in Session : watching_session[s] = p}) :
                 ErrorMessage(failed)
      BY <1>4 DEF ServiceDown
    <2>2. failed \in Seq(Session) /\ ToSet(failed) \subseteq {s \in Session : watching_session[s] = p}
      BY FailedSessions
    <2>3. UNCHANGED <<pc, session, used, session_id_coroutine, watching_session, due>>
      BY <1>4 DEF ServiceDown, world
    <2> QED BY <1>0, <2>1, <2>2, <2>3, FailedAnswers
  <1>5. CASE DispatchWakeup
    <2>1. ASSUME NEW c \in wakeup_session, c \in sleep_session, Resume(c),
                 session_id_coroutine' = [session_id_coroutine EXCEPT ![session[c]] =
                       IF pc[c] = "sleep" THEN BREAK ELSE None]
          PROVE  Answers'
      <3>1. /\ c \in Co /\ pc[c] \in Waiting /\ pc[c] \in Asleep
            /\ UNCHANGED <<used, due, watching_session, error_queue>>
        BY <1>0, <1>5, <2>1 DEF DispatchWakeup, TypeOK, Places, Waiting, world
      <3> DEFINE x == IF pc[c] = "sleep" THEN BREAK ELSE None
      <3>2. x \in {None, BREAK}
        OBVIOUS
      <3> QED BY <1>0, <2>1, <3>1, <3>2, ResumedAnswers
    <2>2. CASE UNCHANGED <<pc, session, session_id_coroutine>>
      BY <1>0, <1>5, <2>2, MovedAnswers DEF DispatchWakeup, world
    <2> QED BY <1>5, <2>1, <2>2 DEF DispatchWakeup
  <1>6. CASE DispatchError
    <2> DEFINE s == Head(error_queue)
               c == session_id_coroutine[s]
    <2>0. UNCHANGED <<used, due>>
      BY <1>6 DEF DispatchError, world
    <2>1. CASE error_queue = <<>>
      BY <1>0, <1>6, <2>0, <2>1, MovedAnswers DEF DispatchError
    <2>2. CASE error_queue # <<>> /\ c = None
      <3>1. s \in Session /\ ToSet(error_queue) = {s} \cup ToSet(Tail(error_queue))
        BY <1>0, <2>2, FailedHead
      <3>2. UNCHANGED <<pc, session, watching_session, session_id_coroutine>>
        BY <1>0, <1>6, <2>2, <3>1 DEF DispatchError, TypeOK
      <3>3. error_queue' = Tail(error_queue)
        BY <1>6, <2>2 DEF DispatchError
      <3>4. \A e \in Co : pc[e] \in Waiting => session[e] # s
        BY <1>0, <2>2 DEF Tables
      <3> HIDE DEF s
      <3> QED BY <1>0, <2>0, <3>1, <3>2, <3>3, <3>4 DEF Answers, Waiting, Asleep
    <2>3. CASE error_queue # <<>> /\ c \in Co
      <3>1. /\ s \in Session /\ ToSet(error_queue) = {s} \cup ToSet(Tail(error_queue))
            /\ pc[c] \in Waiting /\ session[c] = s
        BY <1>0, <2>3, FailedHead DEF Waiting
      <3>2. /\ Resume(c) /\ error_queue' = Tail(error_queue)
            /\ session_id_coroutine' = [session_id_coroutine EXCEPT ![session[c]] = None]
            /\ watching_session' = [watching_session EXCEPT ![s] = None]
        BY <1>6, <2>3, <3>1 DEF DispatchError
      <3> HIDE DEF s
      <3>3. /\ \A r \in Session \ {s} : watching_session'[r] = watching_session[r]
            /\ watching_session'[s] = None
        BY <1>0, <3>1, <3>2 DEF TypeOK
      <3> QED BY <1>0, <2>0, <2>3, <3>1, <3>2, <3>3, ResumedAnswers
    <2> QED BY <1>0, <2>1, <2>2, <2>3, FailedHead
  <1>7. CASE RunFork
    <2>1. ASSUME NEW c \in fork_queue, Resume(c)
          PROVE  Answers'
      BY <1>0, <1>7, <2>1, StartedAnswers DEF RunFork, TypeOK, world
    <2>2. CASE UNCHANGED <<fork_queue, pc, session, run>>
      BY <1>0, <1>7, <2>2, MovedAnswers DEF RunFork, world
    <2> QED BY <1>7, <2>1, <2>2 DEF RunFork
  <1>8. ASSUME NEW c \in Co, NEW p \in Peer, Call(c, p)
        PROVE  Answers'
    <2>1. /\ pc[c] = "run" /\ WaitsFor(c, "call", p) /\ UNCHANGED error_queue
          /\ watching_session' = [watching_session EXCEPT ![used'] = p]
      BY <1>8 DEF Call, Running
    <2>2. p # None /\ "call" \in Waiting
      BY DEF Waiting
    <2> QED BY <1>0, <2>1, <2>2, WaitsAnswers
  <1>9. ASSUME NEW c \in Co, Sleep(c, "sleep", timer) \/ Sleep(c, "wait", None)
        PROVE  Answers'
    BY <1>0, <1>9, WaitsAnswers DEF Sleep, Running, Waiting, Asleep
  <1>10. ASSUME NEW c \in Co, Enter(c)
         PROVE  Answers'
    <2>1. CASE MayEnter(c)
      BY <1>0, <1>10, <2>1, MovedAnswers DEF Enter, flow
    <2>2. CASE ~MayEnter(c)
      BY <1>0, <1>10, <2>2, WaitsAnswers DEF Enter, Running, Waiting, Asleep
    <2> QED BY <2>1, <2>2
  <1>11. ASSUME NEW c \in Co,
                \/ \E d \in Co : Fork(c, d)
                \/ Granted(c) \/ Finish(c) \/ Raise(c) \/ Exit(c)
         PROVE  Answers'
    <2>1. UNCHANGED <<session, used, session_id_coroutine, due, watching_session, error_queue>>
      BY <1>11 DEF Fork, Granted, Finish, Raise, Exit, tables, world
    <2>2. \A e \in Co : pc'[e] = pc[e] \/ pc'[e] \notin Waiting
      BY <1>0, <1>11 DEF Fork, Granted, Finish, Raise, Exit, TypeOK, Waiting, Asleep
    <2> QED BY <1>0, <2>1, <2>2, MovedAnswers
  <1>12. ASSUME \/ UNCHANGED vars
                \/ \E c \in Co : Ret(c) \/ Leave(c) \/ \E d \in Co : Wakeup(c, d)
         PROVE  Answers'
    <2>1. UNCHANGED <<pc, session, used, session_id_coroutine, due, watching_session, error_queue>>
      BY <1>12 DEF Ret, Leave, Wakeup, vars, flow, tables, world
    <2> QED BY <1>0, <2>1, MovedAnswers
  <1>13. CASE OtherMessage
    <2>1. /\ ErrorMessage(<<>>)
          /\ UNCHANGED <<pc, session, used, session_id_coroutine, due, watching_session>>
      BY <1>13 DEF OtherMessage, world
    <2> QED BY <1>0, <2>1, NoElements, FailedAnswers
  <1> QED BY <1>1, <1>2, <1>3, <1>4, <1>5, <1>6, <1>7, <1>8, <1>9, <1>10, <1>11, <1>12, <1>13
          DEF Next, Message, Scheduler, Slice

-----------------------------------------------------------------------------
(* One step of Section.                                                    *)

\* The section stays, and only who waited for it is granted it.
LEMMA MovedSection ==
  ASSUME Section, UNCHANGED <<current_thread, ref, inside>>,
         \A c \in Co : pc'[c] \in {"lock", "granted"} => pc[c] \in {"lock", "granted"}
  PROVE  Section'
  BY DEF Section

LEMMA ResumedSection ==
  ASSUME TypeOK, Section, NEW c \in Co, Resume(c), UNCHANGED <<current_thread, ref, inside>>
  PROVE  Section'
  BY MovedSection, Resumed

LEMMA WaitsSection ==
  ASSUME TypeOK, Section, NEW c \in Co, NEW where \in {"call", "sleep", "wait"}, NEW d,
         WaitsFor(c, where, d), UNCHANGED <<current_thread, ref, inside>>
  PROVE  Section'
  BY MovedSection, Waits

\* A running coroutine leaves the section, whatever becomes of it.
LEMMA ReleasedSection ==
  ASSUME TypeOK, Section, NEW c \in Co, NEW n \in 0..inside[c], Release(c, n),
         pc'[c] \notin {"lock", "granted"},
         \A d \in Co \ {c} : pc'[d] = pc[d]
  PROVE  Section'
  <1>1. inside[c] \in Nat /\ n \in Nat /\ inside' = [inside EXCEPT ![c] = @ - n] /\ inside' \in [Co -> Nat]
    BY Released DEF TypeOK
  <1>2. /\ inside'[c] = inside[c] - n
        /\ \A d \in Co \ {c} : inside'[d] = inside[d]
    BY <1>1 DEF TypeOK
  <1>3. CASE n = 0 /\ inside' = inside /\ ref' = ref /\ current_thread' = current_thread
    BY <1>3 DEF Section
  <1>4. CASE n > 0 /\ current_thread = c /\ ref' = inside'[c] /\ ref' > 0 /\ current_thread' = current_thread
    <2>1. \A d \in Co \ {c} : inside'[d] = 0
      BY <1>2, <1>4 DEF Section, TypeOK
    <2> QED BY <1>1, <1>2, <1>4, <2>1, LuaAssumption DEF Section
  <1>5. CASE n > 0 /\ current_thread = c /\ ref' = 0 /\ inside'[c] = 0
    <2>1. \A d \in Co : inside'[d] = 0
      BY <1>2, <1>5 DEF Section, TypeOK
    <2> QED BY <1>5, <2>1 DEF Section
  <1> QED BY <1>3, <1>4, <1>5, Released

LEMMA StepSection ==
  ASSUME IInv, [Next]_vars
  PROVE  Section'
  <1> USE LuaAssumption
  <1>0. TypeOK /\ Places /\ Section
    BY DEF IInv
  <1>1. ASSUME NEW p \in Peer, NEW c \in Co, Request(p, c)
        PROVE  Section'
    BY <1>0, <1>1, ResumedSection DEF Request, section
  <1>2. ASSUME NEW s \in Session, Response(s)
        PROVE  Section'
    <2>1. UNCHANGED <<current_thread, ref, inside>>
      BY <1>2 DEF Response
    <2>2. CASE session_id_coroutine[s] \in Co
      BY <1>0, <1>2, <2>1, <2>2, ResumedSection DEF Response
    <2>3. CASE session_id_coroutine[s] \notin Co
      BY <1>0, <1>2, <2>1, <2>3, MovedSection DEF Response
    <2> QED BY <2>2, <2>3
  <1>3. CASE DispatchWakeup
    <2>1. UNCHANGED <<current_thread, ref, inside>> /\ wakeup_session \subseteq Co
      BY <1>0, <1>3 DEF DispatchWakeup, section, TypeOK
    <2>2. (\E c \in wakeup_session : Resume(c)) \/ UNCHANGED pc
      BY <1>3 DEF DispatchWakeup
    <2> QED BY <1>0, <2>1, <2>2, ResumedSection, MovedSection
  <1>4. CASE DispatchError
    <2>1. UNCHANGED <<current_thread, ref, inside>>
      BY <1>4 DEF DispatchError, section
    <2>2. (\E c \in Co : Resume(c)) \/ UNCHANGED pc
      BY <1>4, FailedHead DEF DispatchError, IInv
    <2> QED BY <1>0, <2>1, <2>2, ResumedSection, MovedSection
  <1>5. CASE RunFork
    <2>1. UNCHANGED <<current_thread, ref, inside>> /\ fork_queue \subseteq Co
      BY <1>0, <1>5 DEF RunFork, section, TypeOK
    <2>2. (\E c \in fork_queue : Resume(c)) \/ UNCHANGED pc
      BY <1>5 DEF RunFork
    <2> QED BY <1>0, <2>1, <2>2, ResumedSection, MovedSection
  <1>6. ASSUME NEW c \in Co,
               (\E p \in Peer : Call(c, p)) \/ Sleep(c, "sleep", timer) \/ Sleep(c, "wait", None)
        PROVE  Section'
    BY <1>0, <1>6, WaitsSection DEF Call, Sleep, section
  <1>7. ASSUME NEW c \in Co, Enter(c), MayEnter(c)
        PROVE  Section'
    <2>1. /\ current_thread \in {None, c} /\ pc[c] = "run" /\ current_thread' = c
          /\ ref' = ref + 1 /\ inside' = [inside EXCEPT ![c] = @ + 1] /\ pc' = pc
      BY <1>7 DEF Enter, MayEnter, Running, flow
    <2>2. ref \in Nat /\ inside[c] \in Nat /\ inside'[c] = inside[c] + 1
      BY <1>0, <2>1 DEF TypeOK
    <2>3. \A d \in Co \ {c} : inside[d] = 0 /\ inside'[d] = 0
      BY <1>0, <2>1 DEF TypeOK, Section
    <2>4. ref = inside[c]
      BY <1>0, <2>1, <2>2 DEF Section
    <2> QED BY <1>0, <2>1, <2>2, <2>3, <2>4 DEF Section
  <1>8. ASSUME NEW c \in Co, Enter(c), ~MayEnter(c)
        PROVE  Section'
    <2>1. /\ current_thread # c /\ WaitsFor(c, "lock", None)
          /\ UNCHANGED <<current_thread, ref, inside>>
      BY <1>8 DEF Enter, MayEnter
    <2>2. inside[c] = 0
      BY <1>0, <2>1 DEF Section, TypeOK
    <2> QED BY <1>0, <2>1, <2>2, Waits DEF Section
  <1>9. ASSUME NEW c \in Co, Granted(c)
        PROVE  Section'
    <2>1. /\ ref = 0 /\ ref' = 1 /\ current_thread' = c /\ inside' = [inside EXCEPT ![c] = 1]
          /\ pc' = [pc EXCEPT ![c] = "run"]
      BY <1>9 DEF Granted
    <2>2. \A d \in Co : inside[d] = 0
      BY <1>0, <2>1 DEF Section, TypeOK
    <2> QED BY <1>0, <2>1, <2>2 DEF Section, TypeOK
  <1>10. ASSUME NEW c \in Co, Leave(c)
         PROVE  Section'
    <2>1. 1 \in 0..inside[c] /\ Release(c, 1) /\ pc[c] = "run" /\ pc' = pc
      BY <1>0, <1>10 DEF Leave, TypeOK, Running, flow
    <2> QED BY <1>0, <2>1, ReleasedSection
  <1>11. ASSUME NEW c \in Co, Raise(c)
         PROVE  Section'
    <2>1. inside[c] \in 0..inside[c] /\ Release(c, inside[c])
      BY <1>0, <1>11 DEF Raise, TypeOK
    <2>2. pc'[c] \in {"dead", "free"} /\ \A d \in Co \ {c} : pc'[d] = pc[d]
      BY <1>0, <1>11 DEF Raise, TypeOK
    <2> QED BY <1>0, <2>1, <2>2, ReleasedSection
  <1>12. ASSUME NEW c \in Co, (\E d \in Co : Fork(c, d)) \/ Finish(c) \/ Exit(c)
         PROVE  Section'
    <2>1. UNCHANGED <<current_thread, ref, inside>>
      BY <1>12 DEF Fork, Finish, Exit, section
    <2>2. \A d \in Co : pc'[d] = pc[d] \/ pc'[d] \in {"forked", "free", "quit"}
      BY <1>0, <1>12 DEF Fork, Finish, Exit, TypeOK
    <2> QED BY <1>0, <2>1, <2>2, MovedSection
  <1>13. ASSUME \/ \E s \in Session : CallError(s)
                \/ \E p \in Peer : ServiceDown(p)
                \/ OtherMessage \/ UNCHANGED vars
                \/ \E c \in Co : Ret(c) \/ \E d \in Co : Wakeup(c, d)
         PROVE  Section'
    <2>1. UNCHANGED <<pc, current_thread, ref, inside>>
      BY <1>13 DEF CallError, ServiceDown, OtherMessage, Ret, Wakeup, vars, flow, section
    <2> QED BY <1>0, <2>1, MovedSection
  <1> QED BY <1>1, <1>2, <1>3, <1>4, <1>5, <1>6, <1>7, <1>8, <1>9, <1>10, <1>11, <1>12, <1>13
          DEF Next, Message, Scheduler, Slice

-----------------------------------------------------------------------------
(* One step of Turns.                                                      *)

\* Coroutines that have nothing to do with the lock move.
LEMMA MovedInOrder ==
  ASSUME TypeOK, InOrder, UNCHANGED <<current_thread, thread_queue, inside>>,
         \A d \in Co : \/ pc'[d] = pc[d]
                       \/ /\ pc[d] \notin {"lock", "granted"}
                          /\ pc'[d] \notin {"lock", "granted"},
         wakeup_session' \subseteq sleep_session',
         \A d \in Co : pc[d] = "lock" => (d \in wakeup_session' <=> d \in wakeup_session)
  PROVE  InOrder'
  BY LuaAssumption DEF InOrder, TypeOK

LEMMA ResumedInOrder ==
  ASSUME TypeOK, InOrder, NEW c \in Co, Resume(c), pc[c] \notin {"lock", "granted"},
         UNCHANGED <<current_thread, thread_queue, inside>>,
         wakeup_session' \subseteq sleep_session',
         \A d \in Co : pc[d] = "lock" => (d \in wakeup_session' <=> d \in wakeup_session)
  PROVE  InOrder'
  BY MovedInOrder, Resumed

\* The coroutine that waits for the section and is woken is the next.
LEMMA GrantedInOrder ==
  ASSUME TypeOK, InOrder, NEW c \in Co, Resume(c), pc[c] = "lock", c \in wakeup_session,
         UNCHANGED <<current_thread, thread_queue, inside>>,
         wakeup_session' = wakeup_session \ {c}, sleep_session' = sleep_session \ {c}
  PROVE  InOrder'
  <1>1. current_thread = c /\ c \notin ToSet(thread_queue)
    BY DEF InOrder
  <1>2. pc'[c] = "granted" /\ \A d \in Co \ {c} : pc'[d] = pc[d]
    BY Resumed
  <1> QED BY <1>1, <1>2, LuaAssumption DEF InOrder

\* c leaves the section n times; it does not have it afterwards, or goes on.
LEMMA ReleasedInOrder ==
  ASSUME TypeOK, Places, Section, InOrder,
         NEW c \in Co, NEW n \in 0..inside[c], Release(c, n), pc[c] \in {"run", "granted"},
         pc'[c] \notin {"lock", "granted"}, \A d \in Co \ {c} : pc'[d] = pc[d],
         UNCHANGED sleep_session, n = 0 => current_thread # c
  PROVE  InOrder'
  <1>1. c \notin ToSet(thread_queue) /\ c \notin sleep_session
    BY DEF InOrder, Places, Asleep
  <1>2. CASE n = 0 /\ UNCHANGED <<inside, current_thread, thread_queue, wakeup_session>>
    <2>1. pc[c] # "granted"
      BY <1>2 DEF InOrder
    <2>2. wakeup_session' \subseteq sleep_session'
      BY <1>2 DEF InOrder
    <2> QED BY <1>2, <2>1, <2>2, MovedInOrder
  <1>3. ASSUME n > 0, current_thread = c
        PROVE  \A d \in Co \ {c} : pc'[d] # "granted" /\ (pc'[d] = "lock" => d \in ToSet(thread_queue))
    BY <1>3 DEF InOrder
  <1>4. CASE n > 0 /\ current_thread = c /\ ref' = inside'[c] /\ ref' > 0
             /\ UNCHANGED <<current_thread, thread_queue, wakeup_session>>
    BY <1>1, <1>3, <1>4, LuaAssumption DEF InOrder
  <1>5. CASE n > 0 /\ current_thread = c /\ thread_queue = <<>> /\ thread_queue' = <<>>
             /\ current_thread' = None /\ wakeup_session' = wakeup_session
    <2>1. \A d \in Co : pc'[d] \notin {"lock", "granted"}
      BY <1>3, <1>5, NoElements
    <2> QED BY <1>5, <2>1, NoElements DEF InOrder
  <1>6. CASE n > 0 /\ current_thread = c /\ thread_queue # <<>>
             /\ thread_queue' = Tail(thread_queue) /\ current_thread' = Head(thread_queue)
             /\ wakeup_session' = wakeup_session \cup ({Head(thread_queue)} \cap sleep_session)
    <2> DEFINE next == Head(thread_queue)
    <2>1. /\ next \in Co /\ ToSet(thread_queue) = {next} \cup ToSet(Tail(thread_queue))
          /\ Once(Tail(thread_queue)) /\ next \notin ToSet(Tail(thread_queue))
      BY <1>6, ElementsOfTail DEF InOrder, TypeOK
    <2>2. pc[next] = "lock" /\ next # c
      BY <1>1, <2>1 DEF InOrder
    <2>3. next \in sleep_session
      BY <2>1, <2>2 DEF Places, Asleep
    <2>4. wakeup_session' = wakeup_session \cup {next}
      BY <1>6, <2>3
    <2> HIDE DEF next
    <2>5. current_thread' = next /\ thread_queue' = Tail(thread_queue)
      BY <1>6 DEF next
    <2> QED BY <1>1, <1>3, <1>6, <2>1, <2>2, <2>3, <2>4, <2>5, LuaAssumption DEF InOrder
  <1> QED BY <1>2, <1>4, <1>5, <1>6, Released

LEMMA StepTurns ==
  ASSUME IInv, [Next]_vars
  PROVE  Turns'
  <1> USE LuaAssumption
  <1>0. /\ TypeOK /\ Places /\ Tables /\ Answers /\ Section
        /\ ~stale => InOrder
    BY DEF IInv, Turns
  <1>a. stale => stale'
    <2>1. ASSUME NEW s \in Session, Response(s) PROVE stale => stale'
      BY <2>1 DEF Response
    <2>2. ASSUME NEW c \in Co, Slice(c) PROVE stale' = stale
      BY <2>2 DEF Slice, Call, Sleep, Wakeup, Fork, Ret, Enter, Granted, Leave, Finish, Raise, Exit,
                  section
    <2>3. ASSUME Scheduler \/ OtherMessage \/ UNCHANGED vars PROVE stale' = stale
      BY <2>3 DEF Scheduler, DispatchWakeup, DispatchError, RunFork, OtherMessage, vars, section
    <2>4. ASSUME \/ \E p \in Peer : ServiceDown(p) \/ \E c \in Co : Request(p, c)
                 \/ \E s \in Session : CallError(s)
          PROVE  stale' = stale
      BY <2>4 DEF ServiceDown, Request, CallError, section
    <2> QED BY <2>1, <2>2, <2>3, <2>4 DEF Next, Message
  <1> SUFFICES ASSUME ~stale', InOrder
               PROVE  InOrder'
    BY <1>0, <1>a DEF Turns
  <1>b. wakeup_session \subseteq sleep_session
    BY DEF InOrder
  <1>1. ASSUME NEW p \in Peer, NEW c \in Co, Request(p, c)
        PROVE  InOrder'
    <2>1. pc[c] = "free" /\ Resume(c)
      BY <1>1, CreatedIsFree DEF Request
    <2>2. UNCHANGED <<current_thread, thread_queue, inside, wakeup_session, sleep_session>>
      BY <1>1 DEF Request, tables, section
    <2> QED BY <1>0, <1>b, <2>1, <2>2, ResumedInOrder
  <1>2. ASSUME NEW s \in Session, Response(s)
        PROVE  InOrder'
    <2> DEFINE c == session_id_coroutine[s]
    <2>1. UNCHANGED <<current_thread, thread_queue, inside, wakeup_session>>
      BY <1>2 DEF Response
    <2>2. CASE c \in Co
      <3>1. pc[c] \in {"call", "sleep"}
        BY <1>0, <1>2, <2>2, AnsweredWaits DEF Response
      <3>2. Resume(c) /\ sleep_session' = sleep_session \ {c} /\ c \notin wakeup_session
        BY <1>2, <2>2 DEF Response
      <3> QED BY <1>0, <1>b, <2>1, <2>2, <3>1, <3>2, ResumedInOrder
    <2>3. CASE c \notin Co
      BY <1>0, <1>2, <1>b, <2>1, <2>3, MovedInOrder DEF Response
    <2> QED BY <2>2, <2>3
  <1>3. CASE DispatchWakeup
    <2>1. UNCHANGED <<current_thread, thread_queue, inside>> /\ sleep_session \subseteq Co
      BY <1>0, <1>3 DEF DispatchWakeup, section, TypeOK
    <2>2. ASSUME NEW c \in wakeup_session, Resume(c), wakeup_session' = wakeup_session \ {c},
                 sleep_session' = sleep_session \ {c}
          PROVE  InOrder'
      <3>1. c \in Co /\ pc[c] \in Asleep
        BY <1>0, <1>b, <2>1 DEF Places
      <3>2. CASE pc[c] = "lock"
        BY <1>0, <2>1, <2>2, <3>1, <3>2, GrantedInOrder
      <3>3. CASE pc[c] # "lock"
        BY <1>0, <1>b, <2>1, <2>2, <3>1, <3>3, ResumedInOrder DEF Asleep
      <3> QED BY <3>2, <3>3
    <2>3. CASE UNCHANGED <<pc, sleep_session, wakeup_session>>
      BY <1>0, <1>b, <2>1, <2>3, MovedInOrder
    <2> QED BY <1>3, <1>b, <2>2, <2>3 DEF DispatchWakeup
  <1>4. CASE DispatchError
    <2>1. UNCHANGED <<current_thread, thread_queue, inside, wakeup_session, sleep_session>>
      BY <1>4 DEF DispatchError, section
    <2>2. UNCHANGED pc \/ \E c \in Co : Resume(c) /\ pc[c] = "call"
      BY <1>0, <1>4, FailedHead DEF DispatchError
    <2> QED BY <1>0, <1>b, <2>1, <2>2, ResumedInOrder, MovedInOrder
  <1>5. CASE RunFork
    <2>1. UNCHANGED <<current_thread, thread_queue, inside, wakeup_session, sleep_session>>
      BY <1>5 DEF RunFork, section
    <2>2. UNCHANGED pc \/ \E c \in Co : Resume(c) /\ pc[c] = "forked"
      BY <1>0, <1>5 DEF RunFork, Places, TypeOK
    <2> QED BY <1>0, <1>b, <2>1, <2>2, ResumedInOrder, MovedInOrder
  <1>6. ASSUME NEW c \in Co,
               (\E p \in Peer : Call(c, p)) \/ Sleep(c, "sleep", timer) \/ Sleep(c, "wait", None)
        PROVE  InOrder'
    <2>1. /\ UNCHANGED <<current_thread, thread_queue, inside, wakeup_session>>
          /\ sleep_session \subseteq sleep_session' /\ pc[c] = "run"
          /\ \E where \in {"call", "sleep", "wait"}, d \in Peer \cup {timer, None} :
               WaitsFor(c, where, d)
      BY <1>6 DEF Call, Sleep, section, Running
    <2>2. pc'[c] \in {"call", "sleep", "wait"} /\ \A d \in Co \ {c} : pc'[d] = pc[d]
      BY <1>0, <2>1, Waits
    <2> QED BY <1>0, <1>b, <2>1, <2>2, MovedInOrder
  <1>7. ASSUME NEW c \in Co, NEW d \in Co, Wakeup(c, d)
        PROVE  InOrder'
    BY <1>0, <1>7, <1>b, MovedInOrder DEF Wakeup, flow, section
  <1>8. ASSUME NEW c \in Co, (\E d \in Co : Fork(c, d)) \/ Exit(c)
        PROVE  InOrder'
    <2>1. UNCHANGED <<current_thread, thread_queue, inside, wakeup_session, sleep_session>>
      BY <1>8 DEF Fork, Exit, tables, section
    <2>2. \A e \in Co : pc'[e] = pc[e] \/ (pc[e] \in {"free", "run"} /\ pc'[e] \in {"forked", "quit"})
      <3>1. ASSUME NEW d \in Co, Fork(c, d)
            PROVE  pc[d] = "free" /\ pc' = [pc EXCEPT ![d] = "forked"]
        BY <3>1, CreatedIsFree DEF Fork
      <3>2. ASSUME Exit(c)
            PROVE  pc[c] = "run" /\ pc' = [pc EXCEPT ![c] = "quit"]
        BY <3>2 DEF Exit, Running
      <3>3. ASSUME NEW d \in Co, NEW new \in {"forked", "quit"}, pc[d] \in {"free", "run"},
                   pc' = [pc EXCEPT ![d] = new], NEW e \in Co
            PROVE  pc'[e] = pc[e] \/ (pc[e] \in {"free", "run"} /\ pc'[e] \in {"forked", "quit"})
        BY <1>0, <3>3 DEF TypeOK
      <3> QED BY <1>8, <3>1, <3>2, <3>3
    <2> QED BY <1>0, <1>b, <2>1, <2>2, MovedInOrder
  <1>9. ASSUME NEW c \in Co, Enter(c), MayEnter(c)
        PROVE  InOrder'
    <2>1. /\ current_thread \in {None, c} /\ pc[c] = "run" /\ current_thread' = c
          /\ inside' = [inside EXCEPT ![c] = @ + 1] /\ pc' = pc
          /\ UNCHANGED <<thread_queue, wakeup_session, sleep_session>>
      BY <1>9 DEF Enter, MayEnter, Running, flow
    <2>2. inside'[c] > 0
      BY <1>0, <2>1 DEF TypeOK
    <2> QED BY <1>0, <2>1, <2>2 DEF InOrder
  <1>10. ASSUME NEW c \in Co, Enter(c), ~MayEnter(c)
         PROVE  InOrder'
    <2>1. /\ current_thread # None /\ current_thread # c /\ WaitsFor(c, "lock", None)
          /\ pc[c] = "run" /\ thread_queue' = Append(thread_queue, c)
          /\ sleep_session' = sleep_session \cup {c}
          /\ UNCHANGED <<current_thread, inside, wakeup_session>>
      BY <1>10 DEF Enter, MayEnter, Running
    <2>2. c \notin ToSet(thread_queue) /\ c \notin wakeup_session
      BY <1>0, <1>b, <2>1 DEF InOrder, Places, Asleep
    <2>3. /\ ToSet(thread_queue') = ToSet(thread_queue) \cup {c}
          /\ Once(thread_queue')
      BY <1>0, <2>1, <2>2, ElementsOfAppend DEF InOrder, TypeOK
    <2>4. pc'[c] = "lock" /\ \A d \in Co \ {c} : pc'[d] = pc[d]
      BY <1>0, <2>1, Waits
    <2>5. current_thread \in Co
      BY <1>0, <2>1 DEF TypeOK
    <2> QED BY <2>1, <2>2, <2>3, <2>4, <2>5 DEF InOrder
  <1>11. ASSUME NEW c \in Co, Granted(c)
         PROVE  InOrder'
    <2>1. /\ pc[c] = "granted" /\ pc' = [pc EXCEPT ![c] = "run"] /\ current_thread' = c
          /\ inside' = [inside EXCEPT ![c] = 1]
          /\ UNCHANGED <<thread_queue, wakeup_session, sleep_session>>
      BY <1>11 DEF Granted, tables
    <2>2. current_thread = c
      BY <2>1 DEF InOrder
    <2> QED BY <1>0, <2>1, <2>2 DEF InOrder, TypeOK
  <1>12. ASSUME NEW c \in Co, Leave(c)
         PROVE  InOrder'
    <2>1. /\ 1 \in 0..inside[c] /\ Release(c, 1) /\ pc[c] = "run" /\ pc' = pc
          /\ UNCHANGED sleep_session
      BY <1>0, <1>12 DEF Leave, TypeOK, Running, flow
    <2> QED BY <1>0, <2>1, ReleasedInOrder
  <1>13. ASSUME NEW c \in Co, Raise(c)
         PROVE  InOrder'
    <2>1. /\ inside[c] \in 0..inside[c] /\ Release(c, inside[c]) /\ inside[c] \in Nat
          /\ pc[c] \in {"run", "granted"} /\ UNCHANGED sleep_session
      BY <1>0, <1>13 DEF Raise, TypeOK, Places
    <2>2. pc'[c] \in {"dead", "free"} /\ \A d \in Co \ {c} : pc'[d] = pc[d]
      BY <1>0, <1>13 DEF Raise, TypeOK
    <2>3. inside[c] = 0 => current_thread # c
      BY <1>0, <1>13, <2>1 DEF Raise, InOrder, Section
    <2> QED BY <1>0, <2>1, <2>2, <2>3, ReleasedInOrder
  <1>14. ASSUME NEW c \in Co, Finish(c)
         PROVE  InOrder'
    <2>1. /\ pc[c] = "run" /\ pc' = [pc EXCEPT ![c] = "free"]
          /\ UNCHANGED <<current_thread, thread_queue, inside, wakeup_session, sleep_session>>
      BY <1>14 DEF Finish, Running, tables, section
    <2>2. pc'[c] = "free" /\ \A d \in Co \ {c} : pc'[d] = pc[d]
      BY <1>0, <2>1 DEF TypeOK
    <2> QED BY <1>0, <1>b, <2>1, <2>2, MovedInOrder
  <1>15. ASSUME \/ \E s \in Session : CallError(s)
                \/ \E p \in Peer : ServiceDown(p)
                \/ OtherMessage \/ UNCHANGED vars
                \/ \E c \in Co : Ret(c)
         PROVE  InOrder'
    <2>1. UNCHANGED <<pc, current_thread, thread_queue, inside, wakeup_session, sleep_session>>
      BY <1>15 DEF CallError, ServiceDown, OtherMessage, Ret, vars, flow, tables, section
    <2> QED BY <1>0, <1>b, <2>1, MovedInOrder
  <1> QED BY <1>1, <1>2, <1>3, <1>4, <1>5, <1>6, <1>7, <1>8, <1>9, <1>10, <1>11, <1>12, <1>13,
             <1>14, <1>15
          DEF Next, Message, Scheduler, Slice

-----------------------------------------------------------------------------
(* The theorems.                                                           *)

LEMMA Step == IInv /\ [Next]_vars => IInv'
  BY StepType, StepPlaces, StepTables, StepAnswers, StepSection, StepTurns DEF IInv

LEMMA Invariance == Spec => []IInv
  BY InitInv, Step, PTL DEF Spec

\* The type invariant, which every step keeps only because the rest of IInv
\* keeps a BREAK out of dispatch_error_queue and ref from going below zero.
THEOREM TypeCorrect == Spec => []TypeOK
  <1>1. IInv => TypeOK
    BY DEF IInv
  <1> QED BY <1>1, Invariance, PTL

\* Whoever is in a call or a sleep is in session_id_coroutine, and its answer
\* is due or its error is in error_queue (suspend, dispatch_message and
\* _error_dispatch of skynet.lua).
THEOREM WaitersExpected == Spec => []Expected
  <1>1. IInv => Expected
    BY LuaAssumption DEF IInv, Expected, Tables, Answers, Waiting, Asleep
  <1> QED BY <1>1, Invariance, PTL

\* One coroutine at most is in the critical section, whatever is woken and
\* raised (skynet.queue).
THEOREM MutualExclusion == Spec => []Exclusion
  <1>1. IInv => Exclusion
    BY DEF IInv, Exclusion, Section, TypeOK
  <1> QED BY <1>1, Invariance, PTL

\* The section is never left to nobody while a coroutine waits for it.
THEOREM SectionHandedOver == Spec => []HandedOver
  <1>1. IInv => HandedOver
    BY DEF IInv, Turns, InOrder, HandedOver
  <1> QED BY <1>1, Invariance, PTL

\* Coroutines enter the section in the order in which they asked for it.
THEOREM EnterInTurn == Spec => InTurn
  <1>1. ASSUME IInv, [Next]_vars, ~stale, NEW c \in Co, inside[c] = 0, inside'[c] > 0,
               NEW d \in Co \ {c}, pc[d] = "lock"
        PROVE  pc[c] = "granted" /\ d \in ToSet(thread_queue)
    <2>1. (Enter(c) /\ MayEnter(c)) \/ Granted(c)
      <3>1. ASSUME NEW e \in Co, NEW n \in 0..inside[e], Release(e, n)
            PROVE  inside'[c] <= inside[c]
        BY <1>1, <3>1 DEF Release, IInv, TypeOK
      <3>2. ASSUME NEW e \in Co, Leave(e) \/ Raise(e)
            PROVE  inside'[c] <= inside[c]
        <4>1. inside[e] \in Nat
          BY <1>1 DEF IInv, TypeOK
        <4>2. Leave(e) => 1 \in 0..inside[e] /\ Release(e, 1)
          BY <4>1 DEF Leave
        <4>3. Raise(e) => inside[e] \in 0..inside[e] /\ Release(e, inside[e])
          BY <4>1 DEF Raise
        <4> QED BY <3>1, <3>2, <4>2, <4>3
      <3>3. ASSUME NEW e \in Co, e # c, Enter(e) \/ Granted(e)
            PROVE  inside'[c] = inside[c]
        BY <1>1, <3>3 DEF Enter, Granted, IInv, TypeOK
      <3>4. Enter(c) /\ ~MayEnter(c) => inside' = inside
        BY DEF Enter
      <3>5. ASSUME NEW e \in Co,
                   \/ \E p \in Peer : Call(e, p)
                   \/ Sleep(e, "sleep", timer) \/ Sleep(e, "wait", None)
                   \/ \E g \in Co : Wakeup(e, g) \/ Fork(e, g)
                   \/ Ret(e) \/ Finish(e) \/ Exit(e)
            PROVE  inside' = inside
        BY <3>5 DEF Call, Sleep, Wakeup, Fork, Ret, Finish, Exit, section
      <3>6. ASSUME Message \/ Scheduler \/ UNCHANGED vars
            PROVE  inside' = inside
        BY <3>6 DEF Message, Scheduler, ServiceDown, Request, Response, CallError, OtherMessage,
                    DispatchWakeup, DispatchError, RunFork, vars, section
      <3>7. inside' # inside /\ ~(inside'[c] <= inside[c])
        <4>1. inside'[c] \in Nat /\ inside[c] \in Nat
          BY <1>1, StepType DEF IInv, TypeOK
        <4> QED BY <1>1, <4>1
      <3>8. PICK e \in Co : Slice(e)
        BY <1>1, <3>6, <3>7 DEF Next
      <3>9. Enter(e) \/ Granted(e)
        BY <3>2, <3>5, <3>7, <3>8 DEF Slice
      <3>10. e = c
        BY <1>1, <3>3, <3>7, <3>9
      <3> QED BY <3>4, <3>7, <3>9, <3>10
    <2>2. pc[c] # "granted" => Enter(c) /\ MayEnter(c)
      BY <2>1 DEF Granted
    <2>3. ASSUME Enter(c), MayEnter(c)
          PROVE  FALSE
      <3>1. current_thread \in {None, c} /\ pc[c] = "run"
        BY <2>3 DEF Enter, MayEnter, Running
      <3>2. d \in ToSet(thread_queue) \/ current_thread = d
        BY <1>1 DEF IInv, Turns, InOrder
      <3>3. current_thread = c
        BY <1>1, <3>1, <3>2, NoElements, LuaAssumption DEF IInv, Turns, InOrder
      <3>4. inside[c] > 0 \/ pc[c] \in {"lock", "granted"}
        BY <1>1, <3>3, LuaAssumption DEF IInv, Turns, InOrder
      <3> QED BY <1>1, <3>1, <3>4
    <2>4. pc[c] = "granted"
      BY <2>2, <2>3
    <2>5. current_thread = c
      BY <1>1, <2>4 DEF IInv, Turns, InOrder
    <2> QED BY <1>1, <2>4, <2>5 DEF IInv, Turns, InOrder
  <1>2. IInv /\ [Next]_vars =>
          [~stale => \A c \in Co :
             inside[c] = 0 /\ inside'[c] > 0 =>
               \A d \in Co \ {c} : pc[d] = "lock" =>
                 pc[c] = "granted" /\ d \in ToSet(thread_queue)]_vars
    BY <1>1
  <1> QED BY <1>2, Invariance, PTL DEF Spec, InTurn
=============================================================================
