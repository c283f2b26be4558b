-------------------------- MODULE GlobalMQ_proofs --------------------------
(***************************************************************************)
(* Proofs about GlobalMQ, for any number of threads, queues and slots: no  *)
(* queue is lost or handed out twice, and an empty slot at the head means  *)
(* a push under way.  Tame is assumed: either one worker pops, and the     *)
(* array may overflow into the list, or several do, and it does not (Room).*)
(***************************************************************************)
EXTENDS GlobalMQ, Integers, FiniteSetTheorems, WellFoundedInduction, TLAPS

-----------------------------------------------------------------------------
(* The inductive invariant                                                 *)

Listing == {"p_read", "p_next", "p_list"}      \* a push that goes to the list
InPush == {"p_slot"} \cup Listing
Reloading == {"g_next", "g_unlist", "g_clear", "g_push"}
InPop == {"g_tail", "g_list", "g_slot", "g_head", "g_take"} \cup Reloading

\* What a thread has in its variables.
Locals ==
  \A t \in Thread :
    /\ pushing[t] # NULL <=> pc[t] \in InPush
    /\ pc[t] \in InPop \/ reload[t] => t \in crew
    /\ pc[t] \in Reloading => last[t] # NULL
    /\ pc[t] \in {"g_head", "g_take"} => mq[t] # NULL
    /\ pc[t] = "p_list" => next[pushing[t]] = last[t]

\* In an array with room no push meets a slot that is taken: the list is empty.
NoList ==
  Roomy =>
    /\ list = NULL
    /\ \A t \in Thread : pc[t] \notin Listing \cup Reloading /\ ~ reload[t]
    /\ \A t \in Thread : pc[t] = "p_slot" =>
         /\ slots[GP(ticket[t])] = NULL
         /\ \A u \in Thread : pc[u] = "p_slot" /\ GP(ticket[u]) = GP(ticket[t]) => u = t

\* Otherwise one thread alone takes queues off the list.
OnePopper == ~ Roomy => \A t, u \in crew : t = u

\* It still has the links it has read: what it reads first stays on the list,
\* with the same queue behind it.
Popped ==
  \A t \in Thread :
    /\ pc[t] \in {"g_next", "g_unlist"} => last[t] \in Listed
    /\ pc[t] = "g_unlist" => newhead[t] = next[last[t]]

\* The list is a chain s of n different queues.
Chain(n, s) ==
  /\ \A i, k \in 1..n : s[i] = s[k] => i = k
  /\ list = IF n = 0 THEN NULL ELSE s[1]
  /\ \A i \in 1..n : next[s[i]] = IF i = n THEN NULL ELSE s[i + 1]
Linked == \E n \in Nat : \E s \in [1..n -> Queue] : Chain(n, s)

Placed == \A x \in Queue : \E p : Places(x) = {p}

\* In an array with room the tickets between head and tail are fewer than the
\* slots.  An empty slot among theirs waits for the push that has the ticket; a
\* pop that got the head has its slot for itself until it empties it.
Tickets ==
  Roomy =>
    /\ head <= tail /\ tail <= head + MAX_GLOBAL_MQ
    /\ \A k \in head..(tail - 1) : slots[GP(k)] = NULL =>
         \E t \in Thread : pc[t] = "p_slot" /\ ticket[t] = k
    /\ \A t \in Thread :
         /\ pc[t] = "p_slot" => head <= ticket[t] /\ ticket[t] < tail
         /\ pc[t] \in InPop => seen[t] <= head
         /\ pc[t] \in InPop \ {"g_tail"} => seen[t] < tail
         /\ pc[t] = "g_head" /\ seen[t] = head => slots[GP(head)] = mq[t]
         /\ pc[t] = "g_take" =>
              /\ seen[t] < head /\ tail <= seen[t] + MAX_GLOBAL_MQ
              /\ slots[GP(seen[t])] = mq[t]
              /\ \A u \in Thread : pc[u] = "g_take" /\ seen[u] = seen[t] => u = t

IInv == TypeOK /\ Locals /\ NoList /\ OnePopper /\ Popped /\ Linked /\ Placed

-----------------------------------------------------------------------------
(* The list                                                                *)

\* A set of numbers that is not empty has a least one.
LEMMA LeastExists ==
  ASSUME NEW S, S \subseteq Nat, S # {}
  PROVE  \E i \in S : \A k \in S : i <= k
  <1> DEFINE R == OpToRel(<, Nat)
  <1>1. \A x, y \in Nat : x < y => <<x, y>> \in R
    BY DEF OpToRel
  <1>2. IsWellFoundedOn(R, Nat)
    BY NatLessThanWellFounded
  <1> HIDE DEF R
  <1>3. PICK i \in S : \A k \in S : <<k, i>> \notin R
    BY <1>2, WFMin
  <1>4. \A k \in S : ~ k < i
    BY <1>1, <1>3
  <1> QED BY <1>3, <1>4

\* Induction over the natural numbers, for a set instead of a predicate.
LEMMA SetInduction ==
  ASSUME NEW S, 0 \in S, \A n \in Nat : n \in S => n + 1 \in S
  PROVE  Nat \subseteq S
  <1>1. SUFFICES ASSUME Nat \ S # {} PROVE FALSE
    OBVIOUS
  <1>2. PICK x \in Nat \ S : \A k \in Nat \ S : x <= k
    BY <1>1, LeastExists
  <1>3. x # 0 /\ x - 1 \in Nat /\ ~ x <= x - 1
    BY <1>2
  <1>4. x - 1 \in S
    BY <1>2, <1>3
  <1> QED BY <1>2, <1>3, <1>4

\* Following the links from the head of a chain visits its queues, and they are
\* no more than all queues.
ChainLists ==
  \A n \in Nat : \A s \in [1..n -> Queue] : Chain(n, s) => Listed = {s[i] : i \in 1..n}

LEMMA ListedIs == ChainLists
  <1> SUFFICES ASSUME NEW n \in Nat, NEW s \in [1..n -> Queue], Chain(n, s)
               PROVE  Listed = {s[i] : i \in 1..n}
    BY DEF ChainLists
  <1>1. /\ \A i, k \in 1..n : s[i] = s[k] => i = k
        /\ list = IF n = 0 THEN NULL ELSE s[1]
        /\ \A i \in 1..n : next[s[i]] = IF i = n THEN NULL ELSE s[i + 1]
        /\ NULL \notin Queue
    BY GlobalAssumption DEF Chain
  <1> DEFINE Link(X) == X \cup {next[x] : x \in X \ {NULL}}
             Turn(f, m) == IF m = 0 THEN {list} ELSE Link(f[m - 1])
             P(f) == f = [m \in Nat |-> Turn(f, m)]
             reach == CHOOSE f : P(f)
             At(m) == {s[i] : i \in {i \in 1..n : i <= m + 1}} \cup (IF m >= n THEN {NULL} ELSE {})
             w == [m \in Nat |-> At(m)]
  <1>2. At(0) = {list}
    <2>1. CASE n = 0
      BY <1>1, <2>1
    <2>2. CASE n # 0
      BY <1>1, <2>2
    <2> QED BY <2>1, <2>2
  <1>3. ASSUME NEW m \in Nat
        PROVE  At(m + 1) = At(m) \cup {next[x] : x \in At(m) \ {NULL}}
    <2>1. ASSUME NEW x \in At(m + 1) PROVE x \in At(m) \cup {next[y] : y \in At(m) \ {NULL}}
      <3>1. CASE \E i \in 1..n : i <= m + 2 /\ x = s[i]
        <4>1. PICK i \in 1..n : i <= m + 2 /\ x = s[i]
          BY <3>1
        <4>2. CASE i <= m + 1
          BY <4>1, <4>2
        <4>3. CASE i = m + 2
          <5>1. i - 1 \in 1..n /\ i - 1 <= m + 1 /\ next[s[i - 1]] = s[i] /\ s[i - 1] \in Queue
            <6>1. i - 1 \in 1..n /\ i - 1 # n /\ (i - 1) + 1 = i
              BY <4>1, <4>3
            <6> QED BY <1>1, <4>3, <6>1
          <5>2. s[i - 1] \in At(m) \ {NULL}
            BY <1>1, <5>1
          <5> HIDE DEF At
          <5> QED BY <4>1, <5>1, <5>2
        <4> QED BY <4>1, <4>2, <4>3
      <3>2. CASE m + 1 >= n /\ x = NULL
        <4>1. CASE m >= n
          BY <3>2, <4>1
        <4>2. CASE n = m + 1
          <5>1. n \in 1..n /\ next[s[n]] = NULL /\ s[n] \in Queue
            BY <1>1, <4>2
          <5>2. s[n] \in At(m) \ {NULL}
            BY <1>1, <4>2, <5>1
          <5> HIDE DEF At
          <5> QED BY <3>2, <5>1, <5>2
        <4> QED BY <3>2, <4>1, <4>2
      <3> QED BY <2>1, <3>1, <3>2
    <2>2. At(m) \subseteq At(m + 1)
      OBVIOUS
    <2>3. ASSUME NEW x \in At(m) \ {NULL} PROVE next[x] \in At(m + 1)
      <3>1. PICK i \in 1..n : i <= m + 1 /\ x = s[i]
        BY <2>3
      <3>2. CASE i = n
        BY <1>1, <3>1, <3>2
      <3>3. CASE i # n
        <4>1. i + 1 \in 1..n /\ i + 1 <= m + 2 /\ next[x] = s[i + 1]
          BY <1>1, <3>1, <3>3
        <4> QED BY <4>1
      <3> QED BY <3>2, <3>3
    <2> HIDE DEF At
    <2> QED BY <2>1, <2>2, <2>3
  <1>4. w = [m \in Nat |-> Turn(w, m)]
    <2>1. ASSUME NEW m \in Nat PROVE At(m) = Turn(w, m)
      <3>1. CASE m = 0
        BY <1>2, <3>1
      <3>2. CASE m # 0
        <4>1. PICK k \in Nat : k = m - 1 /\ m = k + 1
          BY <3>2
        <4>2. w[k] = At(k)
          OBVIOUS
        <4>3. At(m) = At(k) \cup {next[x] : x \in At(k) \ {NULL}}
          BY <1>3, <4>1
        <4> HIDE DEF At, w
        <4> QED BY <3>2, <4>1, <4>2, <4>3
      <3> QED BY <3>1, <3>2
    <2> HIDE DEF At, Turn
    <2> QED BY <2>1
  <1>5. reach = [m \in Nat |-> Turn(reach, m)]
    <2>1. P(w)
      <3> HIDE DEF w, Turn
      <3> QED BY <1>4
    <2> HIDE DEF w, P
    <2>2. P(reach)
      BY <2>1
    <2> HIDE DEF reach, Turn
    <2> QED BY <2>2 DEF P
  <1>6. \A m \in Nat : reach[m] = w[m]
    <2> DEFINE S == {m \in Nat : reach[m] = w[m]}
    <2> HIDE DEF reach, w
    <2>1. 0 \in S
      <3>1. reach[0] = Turn(reach, 0) /\ w[0] = Turn(w, 0)
        <4> HIDE DEF Turn
        <4> QED BY <1>4, <1>5
      <3> QED BY <3>1
    <2>2. ASSUME NEW m \in Nat, m \in S PROVE m + 1 \in S
      <3>0. PICK k \in Nat : k = m + 1
        OBVIOUS
      <3>1. reach[k] = Turn(reach, k) /\ w[k] = Turn(w, k)
        <4> HIDE DEF Turn
        <4> QED BY <1>4, <1>5
      <3>2. k - 1 = m /\ k # 0 /\ reach[m] = w[m]
        BY <2>2, <3>0
      <3>3. Turn(reach, k) = Link(reach[m]) /\ Turn(w, k) = Link(w[m])
        <4> HIDE DEF Link
        <4> QED BY <3>2
      <3>4. reach[k] = w[k]
        <4> HIDE DEF Link, Turn
        <4> QED BY <3>1, <3>2, <3>3
      <3> QED BY <3>0, <3>4
    <2> HIDE DEF S
    <2>3. Nat \subseteq S
      BY <2>1, <2>2, SetInduction
    <2> QED BY <2>3 DEF S
  <1>7. Listed = reach[Cardinality(Queue)] \ {NULL}
    BY Zenon DEF Listed
  <1>8. Cardinality(Queue) \in Nat /\ n <= Cardinality(Queue)
    <2>1. IsFiniteSet(Queue)
      BY GlobalAssumption
    <2>2. IsFiniteSet(1..n) /\ Cardinality(1..n) = n
      BY FS_Interval
    <2>3. s \in Injection(1..n, Queue)
      BY <1>1 DEF Injection, IsInjective
    <2>4. Cardinality(1..n) <= Cardinality(Queue)
      BY <2>1, <2>3, FS_Injection
    <2> QED BY <2>1, <2>2, <2>4, FS_CardinalityType
  <1>9. reach[Cardinality(Queue)] = At(Cardinality(Queue))
    <2> HIDE DEF reach
    <2> QED BY <1>6, <1>8
  <1>10. At(Cardinality(Queue)) \ {NULL} = {s[i] : i \in 1..n}
    BY <1>1, <1>8
  <1> HIDE DEF reach, At
  <1> QED BY <1>7, <1>9, <1>10

LEMMA ListedNext == ChainLists'
  BY ListedIs, PTL

\* A step that changes no link of the list.
LEMMA ChainStays ==
  ASSUME Linked, list' = list, \A x \in Listed : next'[x] = next[x]
  PROVE  Linked' /\ Listed' = Listed
  <1>0. PICK n \in Nat : \E s \in [1..n -> Queue] : Chain(n, s)
    BY DEF Linked
  <1>1. PICK s \in [1..n -> Queue] : Chain(n, s)
    BY <1>0
  <1>2. Listed = {s[i] : i \in 1..n}
    BY <1>1, ListedIs DEF ChainLists
  <1>3. Chain(n, s)'
    BY <1>1, <1>2 DEF Chain
  <1>4. Listed' = {s[i] : i \in 1..n}
    BY <1>3, ListedNext DEF ChainLists
  <1> QED BY <1>2, <1>3, <1>4 DEF Linked

\* A queue that is not on the list goes to its front.
LEMMA ChainGrows ==
  ASSUME Linked, NEW x \in Queue \ Listed, list' = x, next' = next, next[x] = list
  PROVE  Linked' /\ Listed' = Listed \cup {x}
  <1>0. PICK n \in Nat : \E s \in [1..n -> Queue] : Chain(n, s)
    BY DEF Linked
  <1>1. PICK s \in [1..n -> Queue] : Chain(n, s)
    BY <1>0
  <1>2. Listed = {s[i] : i \in 1..n}
    BY <1>1, ListedIs DEF ChainLists
  <1>3. PICK m \in Nat : m = n + 1
    OBVIOUS
  <1> DEFINE r == [i \in 1..m |-> IF i = 1 THEN x ELSE s[i - 1]]
  <1>4. /\ r \in [1..m -> Queue]
        /\ r[1] = x /\ \A i \in 2..m : r[i] = s[i - 1] /\ i - 1 \in 1..n
    BY <1>3
  <1> HIDE DEF r
  <1>5. \A i \in 1..m : i = 1 \/ i \in 2..m
    BY <1>3
  <1>6. ASSUME NEW i \in 1..m, NEW k \in 1..m, r[i] = r[k] PROVE i = k
    <2>1. \A j \in 2..m : r[j] # x
      BY <1>2, <1>4
    <2>2. CASE i = 1 \/ k = 1
      BY <1>4, <1>5, <1>6, <2>1, <2>2
    <2>3. CASE i \in 2..m /\ k \in 2..m
      <3>1. i - 1 = k - 1
        BY <1>1, <1>4, <1>6, <2>3 DEF Chain
      <3> QED BY <2>3, <3>1
    <2> QED BY <1>5, <2>2, <2>3
  <1>7. ASSUME NEW i \in 1..m PROVE next[r[i]] = IF i = m THEN NULL ELSE r[i + 1]
    <2>1. CASE i = 1
      <3>1. CASE n = 0
        BY <1>1, <1>3, <1>4, <2>1, <3>1 DEF Chain
      <3>2. CASE n # 0
        <4>1. 2 \in 2..m /\ r[2] = s[1] /\ list = s[1] /\ i # m
          <5>1. 2 \in 2..m /\ 2 - 1 = 1
            BY <1>3, <3>2
          <5> QED BY <1>1, <1>3, <1>4, <2>1, <3>2, <5>1 DEF Chain
        <4> QED BY <1>4, <2>1, <4>1
      <3> QED BY <3>1, <3>2
    <2>2. CASE i \in 2..m
      <3>1. i - 1 \in 1..n /\ r[i] = s[i - 1] /\ (i - 1) + 1 = i /\ (i - 1 = n <=> i = m)
        BY <1>3, <1>4, <2>2
      <3>2. next[s[i - 1]] = IF i - 1 = n THEN NULL ELSE s[i]
        BY <1>1, <3>1 DEF Chain
      <3>3. i # m => i + 1 \in 2..m /\ (i + 1) - 1 = i
        BY <2>2
      <3>4. i # m => r[i + 1] = s[i]
        BY <1>4, <3>3
      <3> QED BY <3>1, <3>2, <3>4
    <2> QED BY <1>5, <2>1, <2>2
  <1>8. Chain(m, r)'
    BY <1>3, <1>4, <1>6, <1>7 DEF Chain
  <1>9. Listed' = {r[i] : i \in 1..m}
    BY <1>4, <1>8, ListedNext DEF ChainLists
  <1>10. {r[i] : i \in 1..m} = {s[i] : i \in 1..n} \cup {x}
    <2>1. ASSUME NEW i \in 1..n PROVE s[i] \in {r[j] : j \in 1..m}
      <3>1. i + 1 \in 2..m /\ i + 1 \in 1..m /\ (i + 1) - 1 = i
        BY <1>3
      <3>2. r[i + 1] = s[i]
        BY <1>4, <3>1
      <3> QED BY <3>1, <3>2
    <2>2. 1 \in 1..m
      BY <1>3
    <2> QED BY <1>4, <1>5, <2>1, <2>2
  <1> QED BY <1>2, <1>4, <1>8, <1>9, <1>10 DEF Linked

\* The first queue leaves the list.
LEMMA ChainShrinks ==
  ASSUME Linked, list # NULL, list' = next[list], next' = next
  PROVE  Linked' /\ Listed' = Listed \ {list} /\ list \in Listed
  <1>0. PICK n \in Nat : \E s \in [1..n -> Queue] : Chain(n, s)
    BY DEF Linked
  <1>1. PICK s \in [1..n -> Queue] : Chain(n, s)
    BY <1>0
  <1>2. Listed = {s[i] : i \in 1..n}
    BY <1>1, ListedIs DEF ChainLists
  <1>3. n # 0 /\ list = s[1] /\ 1 \in 1..n
    BY <1>1 DEF Chain
  <1>4. PICK m \in Nat : m = n - 1
    BY <1>3
  <1> DEFINE r == [i \in 1..m |-> s[i + 1]]
  <1>5. r \in [1..m -> Queue] /\ \A i \in 1..m : r[i] = s[i + 1] /\ i + 1 \in 1..n
    BY <1>4
  <1> HIDE DEF r
  <1>6. ASSUME NEW i \in 1..m, NEW k \in 1..m, r[i] = r[k] PROVE i = k
    <2>1. i + 1 = k + 1
      BY <1>1, <1>5, <1>6 DEF Chain
    <2> QED BY <2>1
  <1>7. next[list] = IF m = 0 THEN NULL ELSE r[1]
    <2>1. next[list] = IF n = 1 THEN NULL ELSE s[2]
      BY <1>1, <1>3 DEF Chain
    <2>2. m # 0 => 1 \in 1..m /\ r[1] = s[2]
      <3>1. m # 0 => 1 \in 1..m /\ 1 + 1 = 2
        OBVIOUS
      <3> QED BY <1>5, <3>1
    <2> QED BY <1>4, <2>1, <2>2
  <1>8. ASSUME NEW i \in 1..m PROVE next[r[i]] = IF i = m THEN NULL ELSE r[i + 1]
    <2>1. i + 1 \in 1..n /\ r[i] = s[i + 1] /\ (i + 1 = n <=> i = m)
      BY <1>4, <1>5
    <2>2. next[s[i + 1]] = IF i + 1 = n THEN NULL ELSE s[(i + 1) + 1]
      BY <1>1, <2>1 DEF Chain
    <2>3. i # m => i + 1 \in 1..m
      OBVIOUS
    <2> QED BY <1>5, <2>1, <2>2, <2>3
  <1>9. Chain(m, r)'
    BY <1>4, <1>5, <1>6, <1>7, <1>8 DEF Chain
  <1>10. Listed' = {r[i] : i \in 1..m}
    BY <1>5, <1>9, ListedNext DEF ChainLists
  <1>11. {r[i] : i \in 1..m} = {s[i] : i \in 1..n} \ {list}
    <2>1. ASSUME NEW i \in 1..n, i # 1 PROVE s[i] \in {r[j] : j \in 1..m}
      <3>1. i - 1 \in 1..m /\ (i - 1) + 1 = i
        BY <1>4, <2>1
      <3>2. r[i - 1] = s[i]
        BY <1>5, <3>1
      <3> QED BY <3>1, <3>2
    <2>2. ASSUME NEW i \in 1..m PROVE r[i] \in {s[j] : j \in 1..n} \ {list}
      <3>1. i + 1 \in 1..n /\ i + 1 # 1 /\ r[i] = s[i + 1]
        BY <1>5
      <3> QED BY <1>1, <1>3, <3>1 DEF Chain
    <2> QED BY <1>3, <2>1, <2>2
  <1> QED BY <1>2, <1>3, <1>5, <1>9, <1>10, <1>11 DEF Linked

-----------------------------------------------------------------------------
(* The places                                                              *)

Loads(t, x) == pc[t] \in {"g_clear", "g_push"} /\ last[t] = x

\* p is a place of queue x.
PlaceOf(x, p) ==
  \/ x \in idle /\ p = <<"idle", NULL>>
  \/ x \in Listed /\ p = <<"list", NULL>>
  \/ \E i \in DOMAIN slots : slots[i] = x /\ p = <<"slot", i>>
  \/ \E t \in Thread : x \in held[t] /\ p = <<"held", t>>
  \/ \E t \in Thread : pushing[t] = x /\ p = <<"push", t>>
  \/ \E t \in Thread : Loads(t, x) /\ p = <<"load", t>>

PlacesAre == \A x, p : p \in Places(x) <=> PlaceOf(x, p)

LEMMA PlacesOf == PlacesAre
  <1> SUFFICES ASSUME NEW x, NEW p PROVE p \in Places(x) <=> PlaceOf(x, p)
    BY DEF PlacesAre
  <1> HIDE DEF Listed
  <1> QED BY DEF Places, PlaceOf, Loads

LEMMA PlacesNext == PlacesAre'
  BY PlacesOf, PTL

\* A queue that is in one place is not in another.
LEMMA Apart ==
  ASSUME Placed, NEW x \in Queue
  PROVE  /\ \A p, q : PlaceOf(x, p) /\ PlaceOf(x, q) => p = q
         /\ x \in idle => /\ x \notin Listed /\ \A i \in DOMAIN slots : slots[i] # x
                          /\ \A t \in Thread : x \notin held[t] /\ pushing[t] # x /\ ~ Loads(t, x)
         /\ x \in Listed => /\ x \notin idle /\ \A i \in DOMAIN slots : slots[i] # x
                            /\ \A t \in Thread : x \notin held[t] /\ pushing[t] # x /\ ~ Loads(t, x)
         /\ \A i \in DOMAIN slots : slots[i] = x =>
              /\ x \notin idle /\ x \notin Listed /\ \A k \in DOMAIN slots : slots[k] = x => k = i
              /\ \A t \in Thread : x \notin held[t] /\ pushing[t] # x /\ ~ Loads(t, x)
         /\ \A t \in Thread : x \in held[t] =>
              /\ x \notin idle /\ x \notin Listed /\ \A i \in DOMAIN slots : slots[i] # x
              /\ \A u \in Thread : (x \in held[u] => u = t) /\ pushing[u] # x /\ ~ Loads(u, x)
         /\ \A t \in Thread : pushing[t] = x =>
              /\ x \notin idle /\ x \notin Listed /\ \A i \in DOMAIN slots : slots[i] # x
              /\ \A u \in Thread : x \notin held[u] /\ (pushing[u] = x => u = t) /\ ~ Loads(u, x)
         /\ \A t \in Thread : Loads(t, x) =>
              /\ x \notin idle /\ x \notin Listed /\ \A i \in DOMAIN slots : slots[i] # x
              /\ \A u \in Thread : x \notin held[u] /\ pushing[u] # x /\ (Loads(u, x) => u = t)
  <1>1. \A p, q : PlaceOf(x, p) /\ PlaceOf(x, q) => p = q
    <2>1. PICK p : Places(x) = {p}
      BY DEF Placed
    <2>2. \A q : PlaceOf(x, q) => q = p
      BY <2>1, PlacesOf DEF PlacesAre
    <2> QED BY <2>2
  <1>2. x \in idle => PlaceOf(x, <<"idle", NULL>>)
    BY DEF PlaceOf
  <1>3. x \in Listed => PlaceOf(x, <<"list", NULL>>)
    BY DEF PlaceOf
  <1>4. \A i \in DOMAIN slots : slots[i] = x => PlaceOf(x, <<"slot", i>>)
    BY DEF PlaceOf
  <1>5. \A t \in Thread : /\ x \in held[t] => PlaceOf(x, <<"held", t>>)
                          /\ pushing[t] = x => PlaceOf(x, <<"push", t>>)
                          /\ Loads(t, x) => PlaceOf(x, <<"load", t>>)
    BY DEF PlaceOf
  <1> QED BY <1>1, <1>2, <1>3, <1>4, <1>5

\* A step that moves no queue.
LEMMA AllStay ==
  ASSUME Placed, \A x \in Queue : \A p : PlaceOf(x, p)' <=> PlaceOf(x, p)
  PROVE  Placed'
  <1>1. SUFFICES ASSUME NEW x \in Queue PROVE \E p : Places(x)' = {p}
    BY DEF Placed
  <1>2. PICK p : Places(x) = {p}
    BY DEF Placed
  <1>3. \A q : q \in Places(x)' <=> q = p
    BY <1>2, PlacesOf, PlacesNext DEF PlacesAre
  <1> QED BY <1>3

\* A step that moves one queue.
LEMMA OneMoves ==
  ASSUME Placed, NEW x \in Queue, NEW q, \A p : PlaceOf(x, p)' <=> p = q,
         \A y \in Queue \ {x} : \A p : PlaceOf(y, p)' <=> PlaceOf(y, p)
  PROVE  Placed'
  <1>1. SUFFICES ASSUME NEW y \in Queue PROVE \E p : Places(y)' = {p}
    BY DEF Placed
  <1>2. PICK p : Places(y) = {p}
    BY DEF Placed
  <1>3. CASE y = x
    <2>1. \A r : r \in Places(y)' <=> r = q
      BY <1>3, PlacesNext DEF PlacesAre
    <2> QED BY <2>1
  <1>4. CASE y # x
    <2>1. \A r : r \in Places(y)' <=> r = p
      BY <1>2, <1>4, PlacesOf, PlacesNext DEF PlacesAre
    <2> QED BY <2>1
  <1> QED BY <1>3, <1>4

-----------------------------------------------------------------------------
(* The steps that move no queue                                            *)

LEMMA Quiet ==
  ASSUME IInv, UNCHANGED <<crew, slots, list, next, idle, held, pushing>>,
         \A u \in Thread, x \in Queue : Loads(u, x)' <=> Loads(u, x)
  PROVE  OnePopper' /\ Linked' /\ Placed' /\ Listed' = Listed
  <1>1. Linked' /\ Listed' = Listed
    BY ChainStays DEF IInv
  <1>2. \A x \in Queue : \A p : PlaceOf(x, p)' <=> PlaceOf(x, p)
    BY <1>1 DEF PlaceOf
  <1>3. Placed'
    BY <1>2, AllStay DEF IInv
  <1>4. OnePopper'
    BY DEF IInv, OnePopper, Roomy
  <1> QED BY <1>1, <1>3, <1>4

\* A pop that returns nothing.
LEMMA HeldStays ==
  ASSUME TypeOK, NEW t \in Thread, held' = [held EXCEPT ![t] = @ \cup {}]
  PROVE  held' = held
  <1>1. held \in [Thread -> SUBSET Queue]
    BY DEF TypeOK
  <1>2. held' = [held EXCEPT ![t] = held[t]]
    OBVIOUS
  <1> QED BY <1>1, <1>2

LEMMA GPType ==
  ASSUME NEW n \in Nat
  PROVE  GP(n) \in 0..(MAX_GLOBAL_MQ - 1)
  BY GlobalAssumption DEF GP

LEMMA ListHead ==
  ASSUME Linked, list # NULL
  PROVE  list \in Listed
  <1>0. PICK n \in Nat : \E s \in [1..n -> Queue] : Chain(n, s)
    BY DEF Linked
  <1>1. PICK s \in [1..n -> Queue] : Chain(n, s)
    BY <1>0
  <1>2. Listed = {s[i] : i \in 1..n}
    BY <1>1, ListedIs DEF ChainLists
  <1>3. 1 \in 1..n /\ list = s[1]
    BY <1>1 DEF Chain
  <1> QED BY <1>2, <1>3

\* A push reads the head of the list.
LEMMA ReadListStep ==
  ASSUME IInv, NEW t \in Thread, ReadList(t), UNCHANGED crew
  PROVE  IInv'
  <1>1. /\ pc[t] = "p_read"
        /\ pc' = [pc EXCEPT ![t] = "p_next"]
        /\ last' = [last EXCEPT ![t] = list]
        /\ UNCHANGED <<crew, head, tail, slots, list, next, idle, held, pushing, reload, ticket, seen, newhead, mq>>
    BY DEF ReadList, Goto, queueVars, pushVars, popVars
  <1>2. /\ pc'[t] = "p_next" /\ last'[t] = list
        /\ \A u \in Thread : u # t => pc'[u] = pc[u] /\ last'[u] = last[u]
    BY <1>1 DEF IInv, TypeOK
  <1>3. ~ Roomy
    BY <1>1 DEF IInv, NoList, Listing
  <1>4. TypeOK'
    BY <1>1, <1>3 DEF IInv, TypeOK, MaybeQueue
  <1>5. Locals'
    BY <1>1, <1>2, <1>3 DEF IInv, Locals, InPush, InPop, Listing, Reloading
  <1>6. NoList'
    BY <1>1, <1>2, <1>3 DEF IInv, NoList, Roomy, GP, Listing, Reloading
  <1>7. OnePopper' /\ Linked' /\ Placed' /\ Listed' = Listed
    BY <1>1, <1>2, Quiet DEF Loads
  <1>8. Popped'
    BY <1>1, <1>2, <1>7, <1>3 DEF IInv, Popped
  <1> QED BY <1>4, <1>5, <1>6, <1>7, <1>8 DEF IInv

\* A pop begins.
LEMMA ReadHeadStep ==
  ASSUME IInv, NEW t \in Thread, ReadHead(t), UNCHANGED crew
  PROVE  IInv'
  <1>1. /\ pc[t] = "out" /\ t \in crew
        /\ pc' = [pc EXCEPT ![t] = "g_tail"]
        /\ seen' = [seen EXCEPT ![t] = head]
        /\ UNCHANGED <<crew, head, tail, slots, list, next, idle, held, pushing, reload, ticket, last, newhead, mq>>
    BY DEF ReadHead, Goto, queueVars, pushVars, popVars
  <1>2. /\ pc'[t] = "g_tail" /\ seen'[t] = head
        /\ \A u \in Thread : u # t => pc'[u] = pc[u] /\ seen'[u] = seen[u]
    BY <1>1 DEF IInv, TypeOK
  <1>3. TypeOK'
    BY <1>1 DEF IInv, TypeOK, MaybeQueue
  <1>4. Locals'
    BY <1>1, <1>2 DEF IInv, Locals, InPush, InPop, Listing, Reloading
  <1>5. NoList'
    BY <1>1, <1>2 DEF IInv, NoList, Roomy, GP, Listing, Reloading
  <1>6. OnePopper' /\ Linked' /\ Placed' /\ Listed' = Listed
    BY <1>1, <1>2, Quiet DEF Loads
  <1>7. Popped'
    BY <1>1, <1>2, <1>6 DEF IInv, Popped
  <1> QED BY <1>3, <1>4, <1>5, <1>6, <1>7 DEF IInv

\* It returns if there is nothing.
LEMMA ReadTailStep ==
  ASSUME IInv, NEW t \in Thread, ReadTail(t), UNCHANGED crew
  PROVE  IInv'
  <1>1. CASE seen[t] = tail
    <2>1. /\ pc[t] = "g_tail"
          /\ pc' = [pc EXCEPT ![t] = "out"]
          /\ seen' = [seen EXCEPT ![t] = 0]
          /\ last' = [last EXCEPT ![t] = NULL]
          /\ newhead' = [newhead EXCEPT ![t] = NULL]
          /\ mq' = [mq EXCEPT ![t] = NULL]
          /\ UNCHANGED <<crew, head, tail, slots, list, next, idle, held, pushing, reload, ticket>>
      BY <1>1, HeldStays DEF ReadTail, Goto, PopReturns, queueVars, pushVars, popVars, IInv
    <2>2. /\ pc'[t] = "out" /\ seen'[t] = 0 /\ last'[t] = NULL /\ newhead'[t] = NULL /\ mq'[t] = NULL
          /\ \A u \in Thread : u # t => pc'[u] = pc[u] /\ seen'[u] = seen[u] /\ last'[u] = last[u] /\ newhead'[u] = newhead[u] /\ mq'[u] = mq[u]
      BY <2>1 DEF IInv, TypeOK
    <2>3. TypeOK'
      BY <2>1, <1>1 DEF IInv, TypeOK, MaybeQueue
    <2>4. Locals'
      BY <2>1, <2>2, <1>1 DEF IInv, Locals, InPush, InPop, Listing, Reloading
    <2>5. NoList'
      BY <2>1, <2>2, <1>1 DEF IInv, NoList, Roomy, GP, Listing, Reloading
    <2>6. OnePopper' /\ Linked' /\ Placed' /\ Listed' = Listed
      BY <2>1, <2>2, Quiet DEF Loads
    <2>7. Popped'
      BY <2>1, <2>2, <2>6, <1>1 DEF IInv, Popped
    <2> QED BY <2>3, <2>4, <2>5, <2>6, <2>7 DEF IInv
  <1>2. CASE seen[t] # tail
    <2>1. /\ pc[t] = "g_tail"
          /\ pc' = [pc EXCEPT ![t] = "g_list"]
          /\ UNCHANGED <<crew, head, tail, slots, list, next, idle, held, pushing, reload, ticket, seen, last, newhead, mq>>
      BY <1>2 DEF ReadTail, Goto, PopReturns, queueVars, pushVars, popVars
    <2>2. /\ pc'[t] = "g_list"
          /\ \A u \in Thread : u # t => pc'[u] = pc[u]
      BY <2>1 DEF IInv, TypeOK
    <2>3. TypeOK'
      BY <2>1, <1>2 DEF IInv, TypeOK, MaybeQueue
    <2>4. Locals'
      BY <2>1, <2>2, <1>2 DEF IInv, Locals, InPush, InPop, Listing, Reloading
    <2>5. NoList'
      BY <2>1, <2>2, <1>2 DEF IInv, NoList, Roomy, GP, Listing, Reloading
    <2>6. OnePopper' /\ Linked' /\ Placed' /\ Listed' = Listed
      BY <2>1, <2>2, Quiet DEF Loads
    <2>7. Popped'
      BY <2>1, <2>2, <2>6, <1>2 DEF IInv, Popped
    <2> QED BY <2>3, <2>4, <2>5, <2>6, <2>7 DEF IInv
  <1> QED BY <1>1, <1>2

\* It looks at the list.
LEMMA LookAtListStep ==
  ASSUME IInv, NEW t \in Thread, LookAtList(t), UNCHANGED crew
  PROVE  IInv'
  <1>1. CASE list = NULL
    <2>1. /\ pc[t] = "g_list"
          /\ pc' = [pc EXCEPT ![t] = "g_slot"]
          /\ last' = [last EXCEPT ![t] = list]
          /\ UNCHANGED <<crew, head, tail, slots, list, next, idle, held, pushing, reload, ticket, seen, newhead, mq>>
      BY <1>1 DEF LookAtList, Goto, queueVars, pushVars, popVars
    <2>2. /\ pc'[t] = "g_slot" /\ last'[t] = list
          /\ \A u \in Thread : u # t => pc'[u] = pc[u] /\ last'[u] = last[u]
      BY <2>1 DEF IInv, TypeOK
    <2>3. TypeOK'
      BY <2>1, <1>1 DEF IInv, TypeOK, MaybeQueue
    <2>4. Locals'
      BY <2>1, <2>2, <1>1 DEF IInv, Locals, InPush, InPop, Listing, Reloading
    <2>5. NoList'
      BY <2>1, <2>2, <1>1 DEF IInv, NoList, Roomy, GP, Listing, Reloading
    <2>6. OnePopper' /\ Linked' /\ Placed' /\ Listed' = Listed
      BY <2>1, <2>2, Quiet DEF Loads
    <2>7. Popped'
      BY <2>1, <2>2, <2>6, <1>1 DEF IInv, Popped
    <2> QED BY <2>3, <2>4, <2>5, <2>6, <2>7 DEF IInv
  <1>2. CASE list # NULL
    <2>1. /\ pc[t] = "g_list"
          /\ pc' = [pc EXCEPT ![t] = "g_next"]
          /\ last' = [last EXCEPT ![t] = list]
          /\ UNCHANGED <<crew, head, tail, slots, list, next, idle, held, pushing, reload, ticket, seen, newhead, mq>>
      BY <1>2 DEF LookAtList, Goto, queueVars, pushVars, popVars
    <2>2. /\ pc'[t] = "g_next" /\ last'[t] = list
          /\ \A u \in Thread : u # t => pc'[u] = pc[u] /\ last'[u] = last[u]
      BY <2>1 DEF IInv, TypeOK
    <2>3. ~ Roomy
      BY <1>2 DEF IInv, NoList
    <2>4. list \in Listed
      BY <1>2, ListHead DEF IInv
    <2>5. TypeOK'
      BY <2>1, <1>2, <2>3, <2>4 DEF IInv, TypeOK, MaybeQueue
    <2>6. Locals'
      BY <2>1, <2>2, <1>2, <2>3, <2>4 DEF IInv, Locals, InPush, InPop, Listing, Reloading
    <2>7. NoList'
      BY <2>1, <2>2, <1>2, <2>3, <2>4 DEF IInv, NoList, Roomy, GP, Listing, Reloading
    <2>8. OnePopper' /\ Linked' /\ Placed' /\ Listed' = Listed
      BY <2>1, <2>2, Quiet DEF Loads
    <2>9. Popped'
      BY <2>1, <2>2, <2>8, <1>2, <2>3, <2>4 DEF IInv, Popped
    <2> QED BY <2>5, <2>6, <2>7, <2>8, <2>9 DEF IInv
  <1> QED BY <1>1, <1>2

\* It reads what follows the first queue of the list.
LEMMA ReadNextStep ==
  ASSUME IInv, NEW t \in Thread, ReadNext(t), UNCHANGED crew
  PROVE  IInv'
  <1>1. /\ pc[t] = "g_next"
        /\ pc' = [pc EXCEPT ![t] = "g_unlist"]
        /\ newhead' = [newhead EXCEPT ![t] = next[last[t]]]
        /\ UNCHANGED <<crew, head, tail, slots, list, next, idle, held, pushing, reload, ticket, seen, last, mq>>
    BY DEF ReadNext, Goto, queueVars, pushVars, popVars
  <1>2. /\ pc'[t] = "g_unlist" /\ newhead'[t] = next[last[t]]
        /\ \A u \in Thread : u # t => pc'[u] = pc[u] /\ newhead'[u] = newhead[u]
    BY <1>1 DEF IInv, TypeOK
  <1>3. ~ Roomy
    BY <1>1 DEF IInv, NoList, Reloading
  <1>4. last[t] \in Queue
    BY <1>1 DEF IInv, TypeOK, Locals, Reloading, MaybeQueue
  <1>5. TypeOK'
    BY <1>1, <1>3, <1>4 DEF IInv, TypeOK, MaybeQueue
  <1>6. Locals'
    BY <1>1, <1>2, <1>3, <1>4 DEF IInv, Locals, InPush, InPop, Listing, Reloading
  <1>7. NoList'
    BY <1>1, <1>2, <1>3, <1>4 DEF IInv, NoList, Roomy, GP, Listing, Reloading
  <1>8. OnePopper' /\ Linked' /\ Placed' /\ Listed' = Listed
    BY <1>1, <1>2, Quiet DEF Loads
  <1>9. Popped'
    BY <1>1, <1>2, <1>8, <1>3, <1>4 DEF IInv, Popped
  <1> QED BY <1>5, <1>6, <1>7, <1>8, <1>9 DEF IInv

\* It reads the slot.
LEMMA ReadSlotStep ==
  ASSUME IInv, NEW t \in Thread, ReadSlot(t), UNCHANGED crew
  PROVE  IInv'
  <1>1. CASE slots[GP(seen[t])] = NULL
    <2>1. /\ pc[t] = "g_slot"
          /\ pc' = [pc EXCEPT ![t] = "out"]
          /\ seen' = [seen EXCEPT ![t] = 0]
          /\ last' = [last EXCEPT ![t] = NULL]
          /\ newhead' = [newhead EXCEPT ![t] = NULL]
          /\ mq' = [mq EXCEPT ![t] = NULL]
          /\ UNCHANGED <<crew, head, tail, slots, list, next, idle, held, pushing, reload, ticket>>
      BY <1>1, HeldStays DEF ReadSlot, Goto, PopReturns, queueVars, pushVars, popVars, IInv
    <2>2. /\ pc'[t] = "out" /\ seen'[t] = 0 /\ last'[t] = NULL /\ newhead'[t] = NULL /\ mq'[t] = NULL
          /\ \A u \in Thread : u # t => pc'[u] = pc[u] /\ seen'[u] = seen[u] /\ last'[u] = last[u] /\ newhead'[u] = newhead[u] /\ mq'[u] = mq[u]
      BY <2>1 DEF IInv, TypeOK
    <2>3. TypeOK'
      BY <2>1, <1>1 DEF IInv, TypeOK, MaybeQueue
    <2>4. Locals'
      BY <2>1, <2>2, <1>1 DEF IInv, Locals, InPush, InPop, Listing, Reloading
    <2>5. NoList'
      BY <2>1, <2>2, <1>1 DEF IInv, NoList, Roomy, GP, Listing, Reloading
    <2>6. OnePopper' /\ Linked' /\ Placed' /\ Listed' = Listed
      BY <2>1, <2>2, Quiet DEF Loads
    <2>7. Popped'
      BY <2>1, <2>2, <2>6, <1>1 DEF IInv, Popped
    <2> QED BY <2>3, <2>4, <2>5, <2>6, <2>7 DEF IInv
  <1>2. CASE slots[GP(seen[t])] # NULL
    <2>1. /\ pc[t] = "g_slot"
          /\ pc' = [pc EXCEPT ![t] = "g_head"]
          /\ mq' = [mq EXCEPT ![t] = slots[GP(seen[t])]]
          /\ UNCHANGED <<crew, head, tail, slots, list, next, idle, held, pushing, reload, ticket, seen, last, newhead>>
      BY <1>2 DEF ReadSlot, Goto, PopReturns, queueVars, pushVars, popVars
    <2>2. /\ pc'[t] = "g_head" /\ mq'[t] = slots[GP(seen[t])]
          /\ \A u \in Thread : u # t => pc'[u] = pc[u] /\ mq'[u] = mq[u]
      BY <2>1 DEF IInv, TypeOK
    <2>3. GP(seen[t]) \in 0..(MAX_GLOBAL_MQ - 1)
      BY GPType DEF IInv, TypeOK
    <2>4. TypeOK'
      BY <2>1, <1>2, <2>3 DEF IInv, TypeOK, MaybeQueue
    <2>5. Locals'
      BY <2>1, <2>2, <1>2, <2>3 DEF IInv, Locals, InPush, InPop, Listing, Reloading
    <2>6. NoList'
      BY <2>1, <2>2, <1>2, <2>3 DEF IInv, NoList, Roomy, GP, Listing, Reloading
    <2>7. OnePopper' /\ Linked' /\ Placed' /\ Listed' = Listed
      BY <2>1, <2>2, Quiet DEF Loads
    <2>8. Popped'
      BY <2>1, <2>2, <2>7, <1>2, <2>3 DEF IInv, Popped
    <2> QED BY <2>4, <2>5, <2>6, <2>7, <2>8 DEF IInv
  <1> QED BY <1>1, <1>2

\* It advances the head, if it is still the same.
LEMMA AdvanceHeadStep ==
  ASSUME IInv, NEW t \in Thread, AdvanceHead(t), UNCHANGED crew
  PROVE  IInv'
  <1>1. CASE head = seen[t]
    <2>1. /\ pc[t] = "g_head"
          /\ pc' = [pc EXCEPT ![t] = "g_take"]
          /\ head' = head + 1
          /\ UNCHANGED <<crew, tail, slots, list, next, idle, held, pushing, reload, ticket, seen, last, newhead, mq>>
      BY <1>1 DEF AdvanceHead, Goto, PopReturns, queueVars, pushVars, popVars
    <2>2. /\ pc'[t] = "g_take"
          /\ \A u \in Thread : u # t => pc'[u] = pc[u]
      BY <2>1 DEF IInv, TypeOK
    <2>3. TypeOK'
      BY <2>1, <1>1 DEF IInv, TypeOK, MaybeQueue
    <2>4. Locals'
      BY <2>1, <2>2, <1>1 DEF IInv, Locals, InPush, InPop, Listing, Reloading
    <2>5. NoList'
      BY <2>1, <2>2, <1>1 DEF IInv, NoList, Roomy, GP, Listing, Reloading
    <2>6. OnePopper' /\ Linked' /\ Placed' /\ Listed' = Listed
      BY <2>1, <2>2, Quiet DEF Loads
    <2>7. Popped'
      BY <2>1, <2>2, <2>6, <1>1 DEF IInv, Popped
    <2> QED BY <2>3, <2>4, <2>5, <2>6, <2>7 DEF IInv
  <1>2. CASE head # seen[t]
    <2>1. /\ pc[t] = "g_head"
          /\ pc' = [pc EXCEPT ![t] = "out"]
          /\ seen' = [seen EXCEPT ![t] = 0]
          /\ last' = [last EXCEPT ![t] = NULL]
          /\ newhead' = [newhead EXCEPT ![t] = NULL]
          /\ mq' = [mq EXCEPT ![t] = NULL]
          /\ UNCHANGED <<crew, head, tail, slots, list, next, idle, held, pushing, reload, ticket>>
      BY <1>2, HeldStays DEF AdvanceHead, Goto, PopReturns, queueVars, pushVars, popVars, IInv
    <2>2. /\ pc'[t] = "out" /\ seen'[t] = 0 /\ last'[t] = NULL /\ newhead'[t] = NULL /\ mq'[t] = NULL
          /\ \A u \in Thread : u # t => pc'[u] = pc[u] /\ seen'[u] = seen[u] /\ last'[u] = last[u] /\ newhead'[u] = newhead[u] /\ mq'[u] = mq[u]
      BY <2>1 DEF IInv, TypeOK
    <2>3. TypeOK'
      BY <2>1, <1>2 DEF IInv, TypeOK, MaybeQueue
    <2>4. Locals'
      BY <2>1, <2>2, <1>2 DEF IInv, Locals, InPush, InPop, Listing, Reloading
    <2>5. NoList'
      BY <2>1, <2>2, <1>2 DEF IInv, NoList, Roomy, GP, Listing, Reloading
    <2>6. OnePopper' /\ Linked' /\ Placed' /\ Listed' = Listed
      BY <2>1, <2>2, Quiet DEF Loads
    <2>7. Popped'
      BY <2>1, <2>2, <2>6, <1>2 DEF IInv, Popped
    <2> QED BY <2>3, <2>4, <2>5, <2>6, <2>7 DEF IInv
  <1> QED BY <1>1, <1>2

-----------------------------------------------------------------------------
(* The steps that move a queue                                             *)

LEMMA ListedQueues ==
  ASSUME Linked
  PROVE  Listed \subseteq Queue
  <1>0. PICK n \in Nat : \E s \in [1..n -> Queue] : Chain(n, s)
    BY DEF Linked
  <1>1. PICK s \in [1..n -> Queue] : Chain(n, s)
    BY <1>0
  <1>2. Listed = {s[i] : i \in 1..n}
    BY <1>1, ListedIs DEF ChainLists
  <1> QED BY <1>2

\* The queue goes into its slot, or on to the list.
LEMMA FillSlotStep ==
  ASSUME IInv, NEW t \in Thread, FillSlot(t), UNCHANGED crew
  PROVE  IInv'
  <1>1. CASE slots[GP(ticket[t])] = NULL
    <2>1. /\ pc[t] = "p_slot"
          /\ pc' = [pc EXCEPT ![t] = IF reload[t] THEN "g_slot" ELSE "out"]
          /\ pushing' = [pushing EXCEPT ![t] = NULL]
          /\ reload' = [reload EXCEPT ![t] = FALSE]
          /\ ticket' = [ticket EXCEPT ![t] = 0]
          /\ last' = [last EXCEPT ![t] = NULL]
          /\ slots' = [slots EXCEPT ![GP(ticket[t])] = pushing[t]]
          /\ UNCHANGED <<crew, head, tail, list, next, idle, held, seen, newhead, mq>>
      BY <1>1 DEF FillSlot, PushReturns, Goto, queueVars, pushVars, popVars
    <2>2. /\ pc'[t] = (IF reload[t] THEN "g_slot" ELSE "out") /\ pushing'[t] = NULL /\ reload'[t] = FALSE /\ ticket'[t] = 0 /\ last'[t] = NULL
          /\ \A u \in Thread : u # t =>
               /\ pc'[u] = pc[u]
               /\ pushing'[u] = pushing[u]
               /\ reload'[u] = reload[u]
               /\ ticket'[u] = ticket[u]
               /\ last'[u] = last[u]
      BY <2>1 DEF IInv, TypeOK
    <2>3. PICK x \in Queue : x = pushing[t]
      BY <2>1 DEF IInv, TypeOK, Locals, MaybeQueue, InPush, Listing
    <2>4. /\ x \notin idle /\ x \notin Listed /\ \A i \in DOMAIN slots : slots[i] # x
          /\ \A u \in Thread : x \notin held[u] /\ (pushing[u] = x => u = t) /\ ~ Loads(u, x)
      BY <2>3, Apart DEF IInv
    <2>5. PICK i \in 0..(MAX_GLOBAL_MQ - 1) : i = GP(ticket[t])
      BY GPType DEF IInv, TypeOK
    <2>6. /\ DOMAIN slots = 0..(MAX_GLOBAL_MQ - 1) /\ DOMAIN slots' = DOMAIN slots /\ slots'[i] = x
          /\ \A k \in DOMAIN slots : k # i => slots'[k] = slots[k]
      BY <2>1, <2>3, <2>5 DEF IInv, TypeOK
    <2>7. Linked' /\ Listed' = Listed
      BY <2>1, ChainStays DEF IInv
    <2>8. slots[i] = NULL /\ NULL \notin Queue
      BY <1>1, <2>5, GlobalAssumption
    <2>9. TypeOK'
      BY <2>1, <1>1, <2>3, <2>4, <2>5, <2>6, <2>7, <2>8 DEF IInv, TypeOK, MaybeQueue
    <2>10. Locals'
      BY <2>1, <2>2, <1>1, <2>3, <2>4, <2>5, <2>6, <2>7, <2>8 DEF IInv, Locals, InPush, InPop, Listing, Reloading
    <2>11. NoList'
      BY <2>1, <2>2, <1>1, <2>3, <2>4, <2>5, <2>6, <2>7, <2>8 DEF IInv, NoList, Roomy, Room, Listing, Reloading
    <2>12. OnePopper'
      BY <2>1, <2>2 DEF IInv, OnePopper, Roomy
    <2>13. \A p : PlaceOf(x, p)' <=> p = <<"slot", i>>
      BY <2>1, <2>2, <1>1, <2>3, <2>4, <2>5, <2>6, <2>7, <2>8 DEF PlaceOf, Loads
    <2>14. \A y \in Queue \ {x} : \A p : PlaceOf(y, p)' <=> PlaceOf(y, p)
      BY <2>1, <2>2, <1>1, <2>3, <2>4, <2>5, <2>6, <2>7, <2>8 DEF PlaceOf, Loads
    <2>15. Placed'
      BY <2>13, <2>14, OneMoves DEF IInv
    <2>16. Popped'
      BY <2>1, <2>2, <2>12, <2>15, <1>1, <2>3, <2>4, <2>5, <2>6, <2>7, <2>8 DEF IInv, Popped
    <2> QED BY <2>9, <2>10, <2>11, <2>12, <2>15, <2>16, <1>1, <2>3, <2>4, <2>5, <2>6, <2>7, <2>8 DEF IInv
  <1>2. CASE slots[GP(ticket[t])] # NULL
    <2>1. /\ pc[t] = "p_slot"
          /\ pc' = [pc EXCEPT ![t] = "p_read"]
          /\ UNCHANGED <<crew, head, tail, slots, list, next, idle, held, pushing, reload, ticket, seen, last, newhead, mq>>
      BY <1>2 DEF FillSlot, Goto, queueVars, pushVars, popVars
    <2>2. /\ pc'[t] = "p_read"
          /\ \A u \in Thread : u # t =>
               /\ pc'[u] = pc[u]
      BY <2>1 DEF IInv, TypeOK
    <2>3. ~ Roomy
      BY <1>2, <2>1 DEF IInv, NoList
    <2>4. TypeOK'
      BY <2>1, <1>2, <2>3 DEF IInv, TypeOK, MaybeQueue
    <2>5. Locals'
      BY <2>1, <2>2, <1>2, <2>3 DEF IInv, Locals, InPush, InPop, Listing, Reloading
    <2>6. NoList'
      BY <2>1, <2>2, <1>2, <2>3 DEF IInv, NoList, Roomy, Room, Listing, Reloading
    <2>7. OnePopper' /\ Linked' /\ Placed' /\ Listed' = Listed
      BY <2>1, <2>2, Quiet DEF Loads
    <2>8. Popped'
      BY <2>1, <2>2, <2>7, <1>2, <2>3 DEF IInv, Popped
    <2> QED BY <2>4, <2>5, <2>6, <2>7, <2>8, <1>2, <2>3 DEF IInv
  <1> QED BY <1>1, <1>2

\* The next queue of one that is not on the list is set.
LEMMA SetNextStep ==
  ASSUME IInv, NEW t \in Thread, SetNext(t), UNCHANGED crew
  PROVE  IInv'
  <1>1. /\ pc[t] = "p_next"
        /\ pc' = [pc EXCEPT ![t] = "p_list"]
        /\ next' = [next EXCEPT ![pushing[t]] = last[t]]
        /\ UNCHANGED <<crew, head, tail, slots, list, idle, held, pushing, reload, ticket, seen, last, newhead, mq>>
    BY DEF SetNext, Goto, queueVars, pushVars, popVars
  <1>2. /\ pc'[t] = "p_list"
        /\ \A u \in Thread : u # t =>
             /\ pc'[u] = pc[u]
    BY <1>1 DEF IInv, TypeOK
  <1>3. PICK x \in Queue : x = pushing[t]
    BY <1>1 DEF IInv, TypeOK, Locals, MaybeQueue, InPush, Listing
  <1>4. /\ x \notin idle /\ x \notin Listed /\ \A i \in DOMAIN slots : slots[i] # x
        /\ \A u \in Thread : x \notin held[u] /\ (pushing[u] = x => u = t) /\ ~ Loads(u, x)
    BY <1>3, Apart DEF IInv
  <1>5. ~ Roomy
    BY <1>1 DEF IInv, NoList, Listing
  <1>6. next'[x] = last[t] /\ \A y \in Queue : y # x => next'[y] = next[y]
    BY <1>1, <1>3 DEF IInv, TypeOK
  <1>7. Listed \subseteq Queue
    BY ListedQueues DEF IInv
  <1>8. Linked' /\ Listed' = Listed
    BY <1>1, <1>4, <1>6, <1>7, ChainStays DEF IInv
  <1>9. \A u \in Thread : pushing[u] # NULL => pushing[u] \in Queue
    BY DEF IInv, TypeOK, MaybeQueue
  <1>10. TypeOK'
    BY <1>1, <1>3, <1>4, <1>5, <1>6, <1>7, <1>8, <1>9 DEF IInv, TypeOK, MaybeQueue
  <1>11. Locals'
    BY <1>1, <1>2, <1>3, <1>4, <1>5, <1>6, <1>7, <1>8, <1>9 DEF IInv, Locals, InPush, InPop, Listing, Reloading
  <1>12. NoList'
    BY <1>1, <1>2, <1>3, <1>4, <1>5, <1>6, <1>7, <1>8, <1>9 DEF IInv, NoList, Roomy, Room, Listing, Reloading
  <1>13. OnePopper'
    BY <1>1, <1>2 DEF IInv, OnePopper, Roomy
  <1>14. \A y \in Queue : \A p : PlaceOf(y, p)' <=> PlaceOf(y, p)
    BY <1>1, <1>2, <1>3, <1>4, <1>5, <1>6, <1>7, <1>8, <1>9 DEF PlaceOf, Loads
  <1>15. Placed'
    BY <1>14, AllStay DEF IInv
  <1>16. Popped'
    BY <1>1, <1>2, <1>13, <1>15, <1>3, <1>4, <1>5, <1>6, <1>7, <1>8, <1>9 DEF IInv, Popped
  <1> QED BY <1>10, <1>11, <1>12, <1>13, <1>15, <1>16, <1>3, <1>4, <1>5, <1>6, <1>7, <1>8, <1>9 DEF IInv

\* The queue goes to the front of the list, if it is still the same.
LEMMA PushListStep ==
  ASSUME IInv, NEW t \in Thread, PushList(t), UNCHANGED crew
  PROVE  IInv'
  <1>1. CASE list = last[t]
    <2>1. /\ pc[t] = "p_list"
          /\ pc' = [pc EXCEPT ![t] = IF reload[t] THEN "g_slot" ELSE "out"]
          /\ pushing' = [pushing EXCEPT ![t] = NULL]
          /\ reload' = [reload EXCEPT ![t] = FALSE]
          /\ ticket' = [ticket EXCEPT ![t] = 0]
          /\ last' = [last EXCEPT ![t] = NULL]
          /\ list' = pushing[t]
          /\ UNCHANGED <<crew, head, tail, slots, next, idle, held, seen, newhead, mq>>
      BY <1>1 DEF PushList, PushReturns, Goto, queueVars, pushVars, popVars
    <2>2. /\ pc'[t] = (IF reload[t] THEN "g_slot" ELSE "out") /\ pushing'[t] = NULL /\ reload'[t] = FALSE /\ ticket'[t] = 0 /\ last'[t] = NULL
          /\ \A u \in Thread : u # t =>
               /\ pc'[u] = pc[u]
               /\ pushing'[u] = pushing[u]
               /\ reload'[u] = reload[u]
               /\ ticket'[u] = ticket[u]
               /\ last'[u] = last[u]
      BY <2>1 DEF IInv, TypeOK
    <2>3. PICK x \in Queue : x = pushing[t]
      BY <2>1 DEF IInv, TypeOK, Locals, MaybeQueue, InPush, Listing
    <2>4. /\ x \notin idle /\ x \notin Listed /\ \A i \in DOMAIN slots : slots[i] # x
          /\ \A u \in Thread : x \notin held[u] /\ (pushing[u] = x => u = t) /\ ~ Loads(u, x)
      BY <2>3, Apart DEF IInv
    <2>5. ~ Roomy
      BY <2>1 DEF IInv, NoList, Listing
    <2>6. next[x] = list
      BY <1>1, <2>1, <2>3 DEF IInv, Locals
    <2>7. Linked' /\ Listed' = Listed \cup {x}
      BY <2>1, <2>3, <2>4, <2>6, ChainGrows DEF IInv
    <2>8. NULL \notin Queue
      BY GlobalAssumption
    <2>9. TypeOK'
      BY <2>1, <1>1, <2>3, <2>4, <2>5, <2>6, <2>7, <2>8 DEF IInv, TypeOK, MaybeQueue
    <2>10. Locals'
      BY <2>1, <2>2, <1>1, <2>3, <2>4, <2>5, <2>6, <2>7, <2>8 DEF IInv, Locals, InPush, InPop, Listing, Reloading
    <2>11. NoList'
      BY <2>1, <2>2, <1>1, <2>3, <2>4, <2>5, <2>6, <2>7, <2>8 DEF IInv, NoList, Roomy, Room, Listing, Reloading
    <2>12. OnePopper'
      BY <2>1, <2>2 DEF IInv, OnePopper, Roomy
    <2>13. \A p : PlaceOf(x, p)' <=> p = <<"list", NULL>>
      BY <2>1, <2>2, <1>1, <2>3, <2>4, <2>5, <2>6, <2>7, <2>8 DEF PlaceOf, Loads
    <2>14. \A y \in Queue \ {x} : \A p : PlaceOf(y, p)' <=> PlaceOf(y, p)
      BY <2>1, <2>2, <1>1, <2>3, <2>4, <2>5, <2>6, <2>7, <2>8 DEF PlaceOf, Loads
    <2>15. Placed'
      BY <2>13, <2>14, OneMoves DEF IInv
    <2>16. Popped'
      BY <2>1, <2>2, <2>12, <2>15, <1>1, <2>3, <2>4, <2>5, <2>6, <2>7, <2>8 DEF IInv, Popped
    <2> QED BY <2>9, <2>10, <2>11, <2>12, <2>15, <2>16, <1>1, <2>3, <2>4, <2>5, <2>6, <2>7, <2>8 DEF IInv
  <1>2. CASE list # last[t]
    <2>1. /\ pc[t] = "p_list"
          /\ pc' = [pc EXCEPT ![t] = "p_read"]
          /\ UNCHANGED <<crew, head, tail, slots, list, next, idle, held, pushing, reload, ticket, seen, last, newhead, mq>>
      BY <1>2 DEF PushList, Goto, queueVars, pushVars, popVars
    <2>2. /\ pc'[t] = "p_read"
          /\ \A u \in Thread : u # t =>
               /\ pc'[u] = pc[u]
      BY <2>1 DEF IInv, TypeOK
    <2>3. ~ Roomy
      BY <2>1 DEF IInv, NoList, Listing
    <2>4. TypeOK'
      BY <2>1, <1>2, <2>3 DEF IInv, TypeOK, MaybeQueue
    <2>5. Locals'
      BY <2>1, <2>2, <1>2, <2>3 DEF IInv, Locals, InPush, InPop, Listing, Reloading
    <2>6. NoList'
      BY <2>1, <2>2, <1>2, <2>3 DEF IInv, NoList, Roomy, Room, Listing, Reloading
    <2>7. OnePopper' /\ Linked' /\ Placed' /\ Listed' = Listed
      BY <2>1, <2>2, Quiet DEF Loads
    <2>8. Popped'
      BY <2>1, <2>2, <2>7, <1>2, <2>3 DEF IInv, Popped
    <2> QED BY <2>4, <2>5, <2>6, <2>7, <2>8, <1>2, <2>3 DEF IInv
  <1> QED BY <1>1, <1>2

\* The first queue is taken off the list, if it is still the same.
LEMMA TakeFromListStep ==
  ASSUME IInv, NEW t \in Thread, TakeFromList(t), UNCHANGED crew
  PROVE  IInv'
  <1>1. CASE list = last[t]
    <2>1. /\ pc[t] = "g_unlist"
          /\ pc' = [pc EXCEPT ![t] = "g_clear"]
          /\ list' = newhead[t]
          /\ UNCHANGED <<crew, head, tail, slots, next, idle, held, pushing, reload, ticket, seen, last, newhead, mq>>
      BY <1>1 DEF TakeFromList, Goto, queueVars, pushVars, popVars
    <2>2. /\ pc'[t] = "g_clear"
          /\ \A u \in Thread : u # t =>
               /\ pc'[u] = pc[u]
      BY <2>1 DEF IInv, TypeOK
    <2>3. PICK x \in Queue : x = last[t]
      BY <2>1 DEF IInv, TypeOK, Locals, MaybeQueue, Reloading
    <2>4. x = list /\ x # NULL /\ newhead[t] = next[list]
      BY <1>1, <2>1, <2>3, GlobalAssumption DEF IInv, Popped
    <2>5. Linked' /\ Listed' = Listed \ {x} /\ x \in Listed
      BY <2>1, <2>4, ChainShrinks DEF IInv
    <2>6. /\ x \notin idle /\ \A i \in DOMAIN slots : slots[i] # x
          /\ \A u \in Thread : x \notin held[u] /\ pushing[u] # x /\ ~ Loads(u, x)
      BY <2>5, Apart DEF IInv
    <2>7. ~ Roomy
      BY <2>1 DEF IInv, NoList, Reloading
    <2>8. \A u \in Thread : pc[u] \in {"g_next", "g_unlist"} => u = t
      BY <2>1, <2>7 DEF IInv, Locals, OnePopper, InPop, Reloading
    <2>9. TypeOK'
      BY <2>1, <1>1, <2>3, <2>4, <2>5, <2>6, <2>7, <2>8 DEF IInv, TypeOK, MaybeQueue
    <2>10. Locals'
      BY <2>1, <2>2, <1>1, <2>3, <2>4, <2>5, <2>6, <2>7, <2>8 DEF IInv, Locals, InPush, InPop, Listing, Reloading
    <2>11. NoList'
      BY <2>1, <2>2, <1>1, <2>3, <2>4, <2>5, <2>6, <2>7, <2>8 DEF IInv, NoList, Roomy, Room, Listing, Reloading
    <2>12. OnePopper'
      BY <2>1, <2>2 DEF IInv, OnePopper, Roomy
    <2>13. \A p : PlaceOf(x, p)' <=> p = <<"load", t>>
      BY <2>1, <2>2, <1>1, <2>3, <2>4, <2>5, <2>6, <2>7, <2>8 DEF PlaceOf, Loads
    <2>14. \A y \in Queue \ {x} : \A p : PlaceOf(y, p)' <=> PlaceOf(y, p)
      BY <2>1, <2>2, <1>1, <2>3, <2>4, <2>5, <2>6, <2>7, <2>8 DEF PlaceOf, Loads
    <2>15. Placed'
      BY <2>13, <2>14, OneMoves DEF IInv
    <2>16. Popped'
      BY <2>1, <2>2, <2>12, <2>15, <1>1, <2>3, <2>4, <2>5, <2>6, <2>7, <2>8 DEF IInv, Popped
    <2> QED BY <2>9, <2>10, <2>11, <2>12, <2>15, <2>16, <1>1, <2>3, <2>4, <2>5, <2>6, <2>7, <2>8 DEF IInv
  <1>2. CASE list # last[t]
    <2>1. /\ pc[t] = "g_unlist"
          /\ pc' = [pc EXCEPT ![t] = "g_slot"]
          /\ UNCHANGED <<crew, head, tail, slots, list, next, idle, held, pushing, reload, ticket, seen, last, newhead, mq>>
      BY <1>2 DEF TakeFromList, Goto, queueVars, pushVars, popVars
    <2>2. /\ pc'[t] = "g_slot"
          /\ \A u \in Thread : u # t =>
               /\ pc'[u] = pc[u]
      BY <2>1 DEF IInv, TypeOK
    <2>3. TypeOK'
      BY <2>1, <1>2 DEF IInv, TypeOK, MaybeQueue
    <2>4. Locals'
      BY <2>1, <2>2, <1>2 DEF IInv, Locals, InPush, InPop, Listing, Reloading
    <2>5. NoList'
      BY <2>1, <2>2, <1>2 DEF IInv, NoList, Roomy, Room, Listing, Reloading
    <2>6. OnePopper' /\ Linked' /\ Placed' /\ Listed' = Listed
      BY <2>1, <2>2, Quiet DEF Loads
    <2>7. Popped'
      BY <2>1, <2>2, <2>6, <1>2 DEF IInv, Popped
    <2> QED BY <2>3, <2>4, <2>5, <2>6, <2>7, <1>2 DEF IInv
  <1> QED BY <1>1, <1>2

\* It loses its link.
LEMMA ClearNextStep ==
  ASSUME IInv, NEW t \in Thread, ClearNext(t), UNCHANGED crew
  PROVE  IInv'
  <1>1. /\ pc[t] = "g_clear"
        /\ pc' = [pc EXCEPT ![t] = "g_push"]
        /\ next' = [next EXCEPT ![last[t]] = NULL]
        /\ UNCHANGED <<crew, head, tail, slots, list, idle, held, pushing, reload, ticket, seen, last, newhead, mq>>
    BY DEF ClearNext, Goto, queueVars, pushVars, popVars
  <1>2. /\ pc'[t] = "g_push"
        /\ \A u \in Thread : u # t =>
             /\ pc'[u] = pc[u]
    BY <1>1 DEF IInv, TypeOK
  <1>3. PICK x \in Queue : x = last[t]
    BY <1>1 DEF IInv, TypeOK, Locals, MaybeQueue, Reloading
  <1>4. /\ x \notin idle /\ x \notin Listed /\ \A i \in DOMAIN slots : slots[i] # x
        /\ \A u \in Thread : x \notin held[u] /\ pushing[u] # x /\ (Loads(u, x) => u = t)
    BY <1>1, <1>3, Apart DEF IInv, Loads
  <1>5. ~ Roomy
    BY <1>1 DEF IInv, NoList, Reloading
  <1>6. \A y \in Queue : y # x => next'[y] = next[y]
    BY <1>1, <1>3 DEF IInv, TypeOK
  <1>7. Listed \subseteq Queue
    BY ListedQueues DEF IInv
  <1>8. Linked' /\ Listed' = Listed
    BY <1>1, <1>4, <1>6, <1>7, ChainStays DEF IInv
  <1>9. \A u \in Thread : pushing[u] # NULL => pushing[u] \in Queue
    BY DEF IInv, TypeOK, MaybeQueue
  <1>10. TypeOK'
    BY <1>1, <1>3, <1>4, <1>5, <1>6, <1>7, <1>8, <1>9 DEF IInv, TypeOK, MaybeQueue
  <1>11. Locals'
    BY <1>1, <1>2, <1>3, <1>4, <1>5, <1>6, <1>7, <1>8, <1>9 DEF IInv, Locals, InPush, InPop, Listing, Reloading
  <1>12. NoList'
    BY <1>1, <1>2, <1>3, <1>4, <1>5, <1>6, <1>7, <1>8, <1>9 DEF IInv, NoList, Roomy, Room, Listing, Reloading
  <1>13. OnePopper'
    BY <1>1, <1>2 DEF IInv, OnePopper, Roomy
  <1>14. \A y \in Queue : \A p : PlaceOf(y, p)' <=> PlaceOf(y, p)
    BY <1>1, <1>2, <1>3, <1>4, <1>5, <1>6, <1>7, <1>8, <1>9 DEF PlaceOf, Loads
  <1>15. Placed'
    BY <1>14, AllStay DEF IInv
  <1>16. Popped'
    BY <1>1, <1>2, <1>13, <1>15, <1>3, <1>4, <1>5, <1>6, <1>7, <1>8, <1>9 DEF IInv, Popped
  <1> QED BY <1>10, <1>11, <1>12, <1>13, <1>15, <1>16, <1>3, <1>4, <1>5, <1>6, <1>7, <1>8, <1>9 DEF IInv

\* It is pushed again, inside the pop.
LEMMA PushLoadedStep ==
  ASSUME IInv, NEW t \in Thread, PushLoaded(t), UNCHANGED crew
  PROVE  IInv'
  <1>1. /\ pc[t] = "g_push" /\ Room
        /\ pc' = [pc EXCEPT ![t] = "p_slot"]
        /\ pushing' = [pushing EXCEPT ![t] = last[t]]
        /\ reload' = [reload EXCEPT ![t] = TRUE]
        /\ ticket' = [ticket EXCEPT ![t] = tail]
        /\ last' = [last EXCEPT ![t] = NULL]
        /\ tail' = tail + 1
        /\ UNCHANGED <<crew, head, slots, list, next, idle, held, seen, newhead, mq>>
    BY DEF PushLoaded, TakeTicket, Goto, queueVars, pushVars, popVars
  <1>2. /\ pc'[t] = "p_slot" /\ pushing'[t] = last[t] /\ reload'[t] = TRUE /\ ticket'[t] = tail /\ last'[t] = NULL
        /\ \A u \in Thread : u # t =>
             /\ pc'[u] = pc[u]
             /\ pushing'[u] = pushing[u]
             /\ reload'[u] = reload[u]
             /\ ticket'[u] = ticket[u]
             /\ last'[u] = last[u]
    BY <1>1 DEF IInv, TypeOK
  <1>3. PICK x \in Queue : x = last[t]
    BY <1>1 DEF IInv, TypeOK, Locals, MaybeQueue, Reloading
  <1>4. /\ x \notin idle /\ x \notin Listed /\ \A i \in DOMAIN slots : slots[i] # x
        /\ \A u \in Thread : x \notin held[u] /\ pushing[u] # x /\ (Loads(u, x) => u = t)
    BY <1>1, <1>3, Apart DEF IInv, Loads
  <1>5. ~ Roomy
    BY <1>1 DEF IInv, NoList, Reloading
  <1>6. Linked' /\ Listed' = Listed
    BY <1>1, ChainStays DEF IInv
  <1>7. NULL \notin Queue
    BY GlobalAssumption
  <1>8. pushing[t] = NULL
    BY <1>1 DEF IInv, Locals, InPush, Listing
  <1>9. TypeOK'
    BY <1>1, <1>3, <1>4, <1>5, <1>6, <1>7, <1>8 DEF IInv, TypeOK, MaybeQueue
  <1>10. Locals'
    BY <1>1, <1>2, <1>3, <1>4, <1>5, <1>6, <1>7, <1>8 DEF IInv, Locals, InPush, InPop, Listing, Reloading
  <1>11. NoList'
    BY <1>1, <1>2, <1>3, <1>4, <1>5, <1>6, <1>7, <1>8 DEF IInv, NoList, Roomy, Room, Listing, Reloading
  <1>12. OnePopper'
    BY <1>1, <1>2 DEF IInv, OnePopper, Roomy
  <1>13. \A p : PlaceOf(x, p)' <=> p = <<"push", t>>
    BY <1>1, <1>2, <1>3, <1>4, <1>5, <1>6, <1>7, <1>8 DEF PlaceOf, Loads
  <1>14. \A y \in Queue \ {x} : \A p : PlaceOf(y, p)' <=> PlaceOf(y, p)
    BY <1>1, <1>2, <1>3, <1>4, <1>5, <1>6, <1>7, <1>8 DEF PlaceOf, Loads
  <1>15. Placed'
    BY <1>13, <1>14, OneMoves DEF IInv
  <1>16. Popped'
    BY <1>1, <1>2, <1>12, <1>15, <1>3, <1>4, <1>5, <1>6, <1>7, <1>8 DEF IInv, Popped
  <1> QED BY <1>9, <1>10, <1>11, <1>12, <1>15, <1>16, <1>3, <1>4, <1>5, <1>6, <1>7, <1>8 DEF IInv

\* The queue leaves its slot, if it is still there.
LEMMA EmptySlotStep ==
  ASSUME IInv, NEW t \in Thread, EmptySlot(t), UNCHANGED crew
  PROVE  IInv'
  <1>1. CASE slots[GP(seen[t])] = mq[t]
    <2>1. /\ pc[t] = "g_take"
          /\ pc' = [pc EXCEPT ![t] = "out"]
          /\ held' = [held EXCEPT ![t] = held[t] \cup {mq[t]}]
          /\ seen' = [seen EXCEPT ![t] = 0]
          /\ last' = [last EXCEPT ![t] = NULL]
          /\ newhead' = [newhead EXCEPT ![t] = NULL]
          /\ mq' = [mq EXCEPT ![t] = NULL]
          /\ slots' = [slots EXCEPT ![GP(seen[t])] = NULL]
          /\ UNCHANGED <<crew, head, tail, list, next, idle, pushing, reload, ticket>>
      BY <1>1 DEF EmptySlot, PopReturns, Goto, queueVars, pushVars, popVars
    <2>2. /\ pc'[t] = "out" /\ held'[t] = held[t] \cup {mq[t]} /\ seen'[t] = 0 /\ last'[t] = NULL /\ newhead'[t] = NULL /\ mq'[t] = NULL
          /\ \A u \in Thread : u # t =>
               /\ pc'[u] = pc[u]
               /\ held'[u] = held[u]
               /\ seen'[u] = seen[u]
               /\ last'[u] = last[u]
               /\ newhead'[u] = newhead[u]
               /\ mq'[u] = mq[u]
      BY <2>1 DEF IInv, TypeOK
    <2>3. PICK x \in Queue : x = mq[t]
      BY <2>1 DEF IInv, TypeOK, Locals, MaybeQueue
    <2>4. PICK i \in 0..(MAX_GLOBAL_MQ - 1) : i = GP(seen[t])
      BY GPType DEF IInv, TypeOK
    <2>5. /\ DOMAIN slots = 0..(MAX_GLOBAL_MQ - 1) /\ DOMAIN slots' = DOMAIN slots /\ slots'[i] = NULL
          /\ slots[i] = x /\ \A k \in DOMAIN slots : k # i => slots'[k] = slots[k]
      BY <1>1, <2>1, <2>3, <2>4 DEF IInv, TypeOK
    <2>6. /\ x \notin idle /\ x \notin Listed /\ \A k \in DOMAIN slots : slots[k] = x => k = i
          /\ \A u \in Thread : x \notin held[u] /\ pushing[u] # x /\ ~ Loads(u, x)
      BY <2>4, <2>5, Apart DEF IInv
    <2>7. Linked' /\ Listed' = Listed
      BY <2>1, ChainStays DEF IInv
    <2>8. NULL \notin Queue
      BY GlobalAssumption
    <2>9. \A k \in DOMAIN slots : slots[k] = NULL => slots'[k] = NULL
      BY <2>5
    <2>10. \A u \in Thread : GP(ticket[u]) \in DOMAIN slots
      BY <2>5, GPType DEF IInv, TypeOK
    <2>11. TypeOK'
      BY <2>1, <1>1, <2>3, <2>4, <2>5, <2>6, <2>7, <2>8, <2>9, <2>10 DEF IInv, TypeOK, MaybeQueue
    <2>12. Locals'
      BY <2>1, <2>2, <1>1, <2>3, <2>4, <2>5, <2>6, <2>7, <2>8, <2>9, <2>10 DEF IInv, Locals, InPush, InPop, Listing, Reloading
    <2>13. NoList'
      BY <2>1, <2>2, <1>1, <2>3, <2>4, <2>5, <2>6, <2>7, <2>8, <2>9, <2>10 DEF IInv, NoList, Roomy, Room, Listing, Reloading
    <2>14. OnePopper'
      BY <2>1, <2>2 DEF IInv, OnePopper, Roomy
    <2>15. \A p : PlaceOf(x, p)' <=> p = <<"held", t>>
      BY <2>1, <2>2, <1>1, <2>3, <2>4, <2>5, <2>6, <2>7, <2>8, <2>9, <2>10 DEF PlaceOf, Loads
    <2>16. \A y \in Queue \ {x} : \A p : PlaceOf(y, p)' <=> PlaceOf(y, p)
      BY <2>1, <2>2, <1>1, <2>3, <2>4, <2>5, <2>6, <2>7, <2>8, <2>9, <2>10 DEF PlaceOf, Loads
    <2>17. Placed'
      BY <2>15, <2>16, OneMoves DEF IInv
    <2>18. Popped'
      BY <2>1, <2>2, <2>14, <2>17, <1>1, <2>3, <2>4, <2>5, <2>6, <2>7, <2>8, <2>9, <2>10 DEF IInv, Popped
    <2> QED BY <2>11, <2>12, <2>13, <2>14, <2>17, <2>18, <1>1, <2>3, <2>4, <2>5, <2>6, <2>7, <2>8, <2>9, <2>10 DEF IInv
  <1>2. CASE slots[GP(seen[t])] # mq[t]
    <2>1. /\ pc[t] = "g_take"
          /\ pc' = [pc EXCEPT ![t] = "out"]
          /\ seen' = [seen EXCEPT ![t] = 0]
          /\ last' = [last EXCEPT ![t] = NULL]
          /\ newhead' = [newhead EXCEPT ![t] = NULL]
          /\ mq' = [mq EXCEPT ![t] = NULL]
          /\ UNCHANGED <<crew, head, tail, slots, list, next, idle, held, pushing, reload, ticket>>
      BY <1>2, HeldStays DEF EmptySlot, PopReturns, Goto, queueVars, pushVars, popVars, IInv
    <2>2. /\ pc'[t] = "out" /\ seen'[t] = 0 /\ last'[t] = NULL /\ newhead'[t] = NULL /\ mq'[t] = NULL
          /\ \A u \in Thread : u # t =>
               /\ pc'[u] = pc[u]
               /\ seen'[u] = seen[u]
               /\ last'[u] = last[u]
               /\ newhead'[u] = newhead[u]
               /\ mq'[u] = mq[u]
      BY <2>1 DEF IInv, TypeOK
    <2>3. TypeOK'
      BY <2>1, <1>2 DEF IInv, TypeOK, MaybeQueue
    <2>4. Locals'
      BY <2>1, <2>2, <1>2 DEF IInv, Locals, InPush, InPop, Listing, Reloading
    <2>5. NoList'
      BY <2>1, <2>2, <1>2 DEF IInv, NoList, Roomy, Room, Listing, Reloading
    <2>6. OnePopper' /\ Linked' /\ Placed' /\ Listed' = Listed
      BY <2>1, <2>2, Quiet DEF Loads
    <2>7. Popped'
      BY <2>1, <2>2, <2>6, <1>2 DEF IInv, Popped
    <2> QED BY <2>3, <2>4, <2>5, <2>6, <2>7, <1>2 DEF IInv
  <1> QED BY <1>1, <1>2

\* A message schedules an idle queue.
LEMMA ScheduleStep ==
  ASSUME IInv, NEW t \in Thread, NEW x \in Queue, Schedule(t, x), UNCHANGED crew
  PROVE  IInv'
  <1>1. /\ pc[t] = "out" /\ Room /\ x \in idle
        /\ pc' = [pc EXCEPT ![t] = "p_slot"]
        /\ pushing' = [pushing EXCEPT ![t] = x]
        /\ ticket' = [ticket EXCEPT ![t] = tail]
        /\ tail' = tail + 1
        /\ idle' = idle \ {x}
        /\ UNCHANGED <<crew, head, slots, list, next, held, reload, seen, last, newhead, mq>>
    BY DEF Schedule, TakeTicket, Goto, queueVars, pushVars, popVars
  <1>2. /\ pc'[t] = "p_slot" /\ pushing'[t] = x /\ ticket'[t] = tail
        /\ \A u \in Thread : u # t =>
             /\ pc'[u] = pc[u]
             /\ pushing'[u] = pushing[u]
             /\ ticket'[u] = ticket[u]
    BY <1>1 DEF IInv, TypeOK
  <1>3. /\ x \notin Listed /\ \A i \in DOMAIN slots : slots[i] # x
        /\ \A u \in Thread : x \notin held[u] /\ pushing[u] # x /\ ~ Loads(u, x)
    BY <1>1, Apart DEF IInv
  <1>4. Linked' /\ Listed' = Listed
    BY <1>1, ChainStays DEF IInv
  <1>5. NULL \notin Queue
    BY GlobalAssumption
  <1>6. pushing[t] = NULL
    BY <1>1 DEF IInv, Locals, InPush, Listing
  <1>7. TypeOK'
    BY <1>1, <1>3, <1>4, <1>5, <1>6 DEF IInv, TypeOK, MaybeQueue
  <1>8. Locals'
    BY <1>1, <1>2, <1>3, <1>4, <1>5, <1>6 DEF IInv, Locals, InPush, InPop, Listing, Reloading
  <1>9. NoList'
    BY <1>1, <1>2, <1>3, <1>4, <1>5, <1>6 DEF IInv, NoList, Roomy, Room, Listing, Reloading
  <1>10. OnePopper'
    BY <1>1, <1>2 DEF IInv, OnePopper, Roomy
  <1>11. \A p : PlaceOf(x, p)' <=> p = <<"push", t>>
    BY <1>1, <1>2, <1>3, <1>4, <1>5, <1>6 DEF PlaceOf, Loads
  <1>12. \A y \in Queue \ {x} : \A p : PlaceOf(y, p)' <=> PlaceOf(y, p)
    BY <1>1, <1>2, <1>3, <1>4, <1>5, <1>6 DEF PlaceOf, Loads
  <1>13. Placed'
    BY <1>11, <1>12, OneMoves DEF IInv
  <1>14. Popped'
    BY <1>1, <1>2, <1>10, <1>13, <1>3, <1>4, <1>5, <1>6 DEF IInv, Popped
  <1> QED BY <1>7, <1>8, <1>9, <1>10, <1>13, <1>14, <1>3, <1>4, <1>5, <1>6 DEF IInv

\* A worker pushes a queue back.
LEMMA PushBackStep ==
  ASSUME IInv, NEW t \in Thread, NEW x \in Queue, PushBack(t, x), UNCHANGED crew
  PROVE  IInv'
  <1>1. /\ pc[t] = "out" /\ Room /\ x \in held[t]
        /\ pc' = [pc EXCEPT ![t] = "p_slot"]
        /\ pushing' = [pushing EXCEPT ![t] = x]
        /\ ticket' = [ticket EXCEPT ![t] = tail]
        /\ held' = [held EXCEPT ![t] = held[t] \ {x}]
        /\ tail' = tail + 1
        /\ UNCHANGED <<crew, head, slots, list, next, idle, reload, seen, last, newhead, mq>>
    BY DEF PushBack, TakeTicket, Goto, queueVars, pushVars, popVars
  <1>2. /\ pc'[t] = "p_slot" /\ pushing'[t] = x /\ ticket'[t] = tail /\ held'[t] = held[t] \ {x}
        /\ \A u \in Thread : u # t =>
             /\ pc'[u] = pc[u]
             /\ pushing'[u] = pushing[u]
             /\ ticket'[u] = ticket[u]
             /\ held'[u] = held[u]
    BY <1>1 DEF IInv, TypeOK
  <1>3. /\ x \notin idle /\ x \notin Listed /\ \A i \in DOMAIN slots : slots[i] # x
        /\ \A u \in Thread : (x \in held[u] => u = t) /\ pushing[u] # x /\ ~ Loads(u, x)
    BY <1>1, Apart DEF IInv
  <1>4. Linked' /\ Listed' = Listed
    BY <1>1, ChainStays DEF IInv
  <1>5. NULL \notin Queue
    BY GlobalAssumption
  <1>6. pushing[t] = NULL
    BY <1>1 DEF IInv, Locals, InPush, Listing
  <1>7. TypeOK'
    BY <1>1, <1>3, <1>4, <1>5, <1>6 DEF IInv, TypeOK, MaybeQueue
  <1>8. Locals'
    BY <1>1, <1>2, <1>3, <1>4, <1>5, <1>6 DEF IInv, Locals, InPush, InPop, Listing, Reloading
  <1>9. NoList'
    BY <1>1, <1>2, <1>3, <1>4, <1>5, <1>6 DEF IInv, NoList, Roomy, Room, Listing, Reloading
  <1>10. OnePopper'
    BY <1>1, <1>2 DEF IInv, OnePopper, Roomy
  <1>11. \A p : PlaceOf(x, p)' <=> p = <<"push", t>>
    BY <1>1, <1>2, <1>3, <1>4, <1>5, <1>6 DEF PlaceOf, Loads
  <1>12. \A y \in Queue \ {x} : \A p : PlaceOf(y, p)' <=> PlaceOf(y, p)
    BY <1>1, <1>2, <1>3, <1>4, <1>5, <1>6 DEF PlaceOf, Loads
  <1>13. Placed'
    BY <1>11, <1>12, OneMoves DEF IInv
  <1>14. Popped'
    BY <1>1, <1>2, <1>10, <1>13, <1>3, <1>4, <1>5, <1>6 DEF IInv, Popped
  <1> QED BY <1>7, <1>8, <1>9, <1>10, <1>13, <1>14, <1>3, <1>4, <1>5, <1>6 DEF IInv

\* A worker found its queue empty.
LEMMA PutAsideStep ==
  ASSUME IInv, NEW t \in Thread, NEW x \in Queue, PutAside(t, x), UNCHANGED crew
  PROVE  IInv'
  <1>1. /\ pc[t] = "out" /\ held[t] = {x}
        /\ held' = [held EXCEPT ![t] = {}]
        /\ idle' = idle \cup {x}
        /\ UNCHANGED <<crew, head, tail, slots, list, next, pc, pushing, reload, ticket, seen, last, newhead, mq>>
    BY DEF PutAside, queueVars, pushVars, popVars
  <1>2. /\ held'[t] = {}
        /\ \A u \in Thread : u # t =>
             /\ held'[u] = held[u]
    BY <1>1 DEF IInv, TypeOK
  <1>3. /\ x \notin idle /\ x \notin Listed /\ \A i \in DOMAIN slots : slots[i] # x
        /\ \A u \in Thread : (x \in held[u] => u = t) /\ pushing[u] # x /\ ~ Loads(u, x)
    BY <1>1, Apart DEF IInv
  <1>4. Linked' /\ Listed' = Listed
    BY <1>1, ChainStays DEF IInv
  <1>5. TypeOK'
    BY <1>1, <1>3, <1>4 DEF IInv, TypeOK, MaybeQueue
  <1>6. Locals'
    BY <1>1, <1>2, <1>3, <1>4 DEF IInv, Locals, InPush, InPop, Listing, Reloading
  <1>7. NoList'
    BY <1>1, <1>2, <1>3, <1>4 DEF IInv, NoList, Roomy, Room, Listing, Reloading
  <1>8. OnePopper'
    BY <1>1, <1>2 DEF IInv, OnePopper, Roomy
  <1>9. \A p : PlaceOf(x, p)' <=> p = <<"idle", NULL>>
    BY <1>1, <1>2, <1>3, <1>4 DEF PlaceOf, Loads
  <1>10. \A y \in Queue \ {x} : \A p : PlaceOf(y, p)' <=> PlaceOf(y, p)
    BY <1>1, <1>2, <1>3, <1>4 DEF PlaceOf, Loads
  <1>11. Placed'
    BY <1>9, <1>10, OneMoves DEF IInv
  <1>12. Popped'
    BY <1>1, <1>2, <1>8, <1>11, <1>3, <1>4 DEF IInv, Popped
  <1> QED BY <1>5, <1>6, <1>7, <1>8, <1>11, <1>12, <1>3, <1>4 DEF IInv

-----------------------------------------------------------------------------
(* The theorems                                                            *)

LEMMA Begins ==
  ASSUME Tame, Init
  PROVE  IInv
  <1>1. TypeOK
    BY GlobalAssumption DEF Init, TypeOK, MaybeQueue
  <1>2. Locals /\ NoList /\ Popped
    BY DEF Init, Locals, NoList, Popped, InPush, InPop, Listing, Reloading
  <1>3. OnePopper
    <2>1. SUFFICES ASSUME ~ Cardinality(crew) > 1, NEW t \in crew, NEW u \in crew PROVE t = u
      BY DEF OnePopper, Roomy
    <2>2. IsFiniteSet(crew) /\ crew # {}
      BY GlobalAssumption, FS_Subset DEF Init
    <2>3. Cardinality(crew) \in Nat /\ Cardinality(crew) # 0
      BY <2>2, FS_CardinalityType, FS_EmptySet
    <2>4. Cardinality(crew) = 1
      BY <2>1, <2>3
    <2>5. \E w : crew = {w}
      BY <2>2, <2>4, FS_Singleton
    <2> QED BY <2>5
  <1>4. Linked /\ Listed = {}
    <2> DEFINE s == [i \in 1..0 |-> NULL]
    <2>1. s \in [1..0 -> Queue] /\ Chain(0, s)
      BY DEF Chain, Init
    <2> HIDE DEF s
    <2>2. Listed = {s[i] : i \in 1..0}
      BY <2>1, ListedIs DEF ChainLists
    <2>3. Listed = {}
      BY <2>2
    <2>4. \E n \in Nat : \E r \in [1..n -> Queue] : Chain(n, r)
      <3>1. 0 \in Nat
        OBVIOUS
      <3> QED BY <2>1, <3>1
    <2> QED BY <2>3, <2>4 DEF Linked
  <1>5. Placed
    <2>1. SUFFICES ASSUME NEW x \in Queue PROVE \E p : Places(x) = {p}
      BY DEF Placed
    <2>2. \A p : PlaceOf(x, p) <=> p = <<"idle", NULL>>
      BY <1>4, GlobalAssumption DEF Init, PlaceOf, Loads
    <2>3. PICK q : q = <<"idle", NULL>>
      OBVIOUS
    <2>4. \A p : p \in Places(x) <=> p = q
      BY <2>2, <2>3, PlacesOf DEF PlacesAre
    <2>5. Places(x) = {q}
      BY <2>4
    <2> QED BY <2>5
  <1> QED BY <1>1, <1>2, <1>3, <1>4, <1>5 DEF IInv

LEMMA Continues == IInv /\ [Next]_vars => IInv'
  <1> SUFFICES ASSUME IInv, [Next]_vars PROVE IInv'
    OBVIOUS
  <1>1. CASE UNCHANGED vars
    <2>1. UNCHANGED <<crew, head, tail, slots, list, next, idle, held, pc, pushing, reload, ticket,
                      seen, last, newhead, mq>>
      BY <1>1 DEF vars
    <2>2. OnePopper' /\ Linked' /\ Placed' /\ Listed' = Listed
      BY <2>1, Quiet DEF Loads
    <2>3. TypeOK' /\ Locals'
      BY <2>1 DEF IInv, TypeOK, Locals
    <2>4. NoList' /\ Popped'
      BY <2>1, <2>2 DEF IInv, NoList, Popped, Roomy
    <2> QED BY <2>2, <2>3, <2>4 DEF IInv
  <1>2. ASSUME NEW t \in Thread, PushStep(t), UNCHANGED crew
        PROVE  IInv'
    BY <1>2, FillSlotStep, ReadListStep, SetNextStep, PushListStep DEF PushStep
  <1>3. ASSUME NEW t \in Thread, PopStep(t), UNCHANGED crew
        PROVE  IInv'
    BY <1>3, ReadTailStep, LookAtListStep, ReadNextStep, TakeFromListStep, ClearNextStep,
       PushLoadedStep, ReadSlotStep, AdvanceHeadStep, EmptySlotStep DEF PopStep
  <1>4. ASSUME NEW t \in Thread, NEW x \in Queue, Schedule(t, x) \/ PushBack(t, x) \/ PutAside(t, x),
               UNCHANGED crew
        PROVE  IInv'
    BY <1>4, ScheduleStep, PushBackStep, PutAsideStep
  <1> QED BY <1>1, <1>2, <1>3, <1>4, ReadHeadStep DEF Next

\* In an array that does not overflow where several workers pop, the invariant
\* holds.
THEOREM Invariant ==
  ASSUME Tame
  PROVE  Spec => []IInv
  <1>1. Init => IInv
    BY Begins
  <1> QED BY <1>1, Continues, PTL DEF Spec

\* Every variable has its type.
THEOREM TypeCorrect ==
  ASSUME Tame
  PROVE  Spec => []TypeOK
  <1>1. IInv => TypeOK
    BY DEF IInv
  <1> QED BY <1>1, Invariant, PTL

\* The compare-and-swaps of skynet_globalmq_push and _pop neither lose a queue
\* nor give it to two threads.
THEOREM NoneLost ==
  ASSUME Tame
  PROVE  Spec => []OnePlace
  <1>1. IInv => OnePlace
    <2>1. SUFFICES ASSUME IInv, NEW x \in Queue PROVE Cardinality(Places(x)) = 1
      BY DEF OnePlace
    <2>2. PICK p : Places(x) = {p}
      BY <2>1 DEF IInv, Placed
    <2> QED BY <2>2, FS_Singleton
  <1> QED BY <1>1, Invariant, PTL

-----------------------------------------------------------------------------
(* The tickets                                                             *)

\* Tickets of one lap have different slots, and the next lap has the same.
LEMMA GPApart ==
  ASSUME NEW a \in Nat, NEW b \in Nat, a < b, b < a + MAX_GLOBAL_MQ
  PROVE  GP(a) # GP(b)
  <1>1. PICK c \in Nat \ {0} : c = MAX_GLOBAL_MQ
    BY GlobalAssumption
  <1>2. SUFFICES ASSUME a % c = b % c PROVE FALSE
    BY <1>1 DEF GP
  <1>3. PICK q \in Nat, r \in 0..(c - 1) : a = q * c + r /\ r = a % c
    <2>1. a % c \in 0..(c - 1) /\ a \div c \in Nat /\ a = (a \div c) * c + (a % c)
      OBVIOUS
    <2> QED BY <2>1
  <1>4. PICK p \in Nat, s \in 0..(c - 1) : b = p * c + s /\ s = b % c
    <2>1. b % c \in 0..(c - 1) /\ b \div c \in Nat /\ b = (b \div c) * c + (b % c)
      OBVIOUS
    <2> QED BY <2>1
  <1>5. p * c - q * c > 0 /\ p * c - q * c < c
    <2>1. p * c \in Nat /\ q * c \in Nat
      OBVIOUS
    <2> QED BY <1>1, <1>2, <1>3, <1>4, <2>1
  <1>6. p > q
    <2>1. p <= q => p * c <= q * c
      OBVIOUS
    <2>2. p * c \in Nat /\ q * c \in Nat
      OBVIOUS
    <2> QED BY <1>5, <2>1, <2>2
  <1>7. p * c >= (q + 1) * c
    BY <1>6
  <1>8. (q + 1) * c = q * c + c
    OBVIOUS
  <1>9. p * c \in Nat /\ q * c \in Nat
    OBVIOUS
  <1> QED BY <1>5, <1>7, <1>8, <1>9

LEMMA GPAround ==
  ASSUME NEW a \in Nat
  PROVE  GP(a + MAX_GLOBAL_MQ) = GP(a)
  <1>1. PICK c \in Nat \ {0} : c = MAX_GLOBAL_MQ
    BY GlobalAssumption
  <1>2. PICK q \in Nat, r \in 0..(c - 1) : a = q * c + r /\ r = a % c
    <2>1. a % c \in 0..(c - 1) /\ a \div c \in Nat /\ a = (a \div c) * c + (a % c)
      OBVIOUS
    <2> QED BY <2>1
  <1>3. (q + 1) * c = q * c + c
    OBVIOUS
  <1>4. PICK p \in Nat : p = q + 1
    OBVIOUS
  <1>5. a + c = p * c + r
    <2>1. q * c \in Nat
      OBVIOUS
    <2> QED BY <1>2, <1>3, <1>4, <2>1
  <1>6. (p * c + r) % c = r
    OBVIOUS
  <1> QED BY <1>1, <1>2, <1>5, <1>6 DEF GP

\* A ticket is taken when there is room for it.
LEMMA TakeTicketFits ==
  ASSUME IInv, Tickets, Roomy, NEW t \in Thread, Room, pc[t] = "out",
         tail' = tail + 1, ticket' = [ticket EXCEPT ![t] = tail], pc' = [pc EXCEPT ![t] = "p_slot"],
         UNCHANGED <<crew, head, slots, seen, mq>>
  PROVE  Tickets'
  <1>1. /\ head \in Nat /\ tail \in Nat /\ MAX_GLOBAL_MQ \in Nat \ {0}
        /\ \A u \in Thread : ticket[u] \in Nat /\ seen[u] \in Nat
    BY GlobalAssumption DEF IInv, TypeOK
  <1>2. /\ pc'[t] = "p_slot" /\ ticket'[t] = tail
        /\ \A u \in Thread : u # t => pc'[u] = pc[u] /\ ticket'[u] = ticket[u]
    BY DEF IInv, TypeOK
  <1>3. /\ head <= tail /\ tail <= head + MAX_GLOBAL_MQ
        /\ \A k \in head..(tail - 1) : slots[GP(k)] = NULL =>
             \E u \in Thread : pc[u] = "p_slot" /\ ticket[u] = k
        /\ \A u \in Thread :
             /\ pc[u] = "p_slot" => head <= ticket[u] /\ ticket[u] < tail
             /\ pc[u] \in InPop => seen[u] <= head
             /\ pc[u] \in InPop \ {"g_tail"} => seen[u] < tail
             /\ pc[u] = "g_head" /\ seen[u] = head => slots[GP(head)] = mq[u]
             /\ pc[u] = "g_take" =>
                  /\ seen[u] < head /\ tail <= seen[u] + MAX_GLOBAL_MQ
                  /\ slots[GP(seen[u])] = mq[u] /\ mq[u] # NULL
                  /\ \A v \in Thread : pc[v] = "g_take" /\ seen[v] = seen[u] => v = u
    BY DEF Tickets, IInv, Locals
  <1>4. slots[GP(tail)] = NULL /\ \A u \in Thread : pc[u] = "p_slot" => GP(ticket[u]) # GP(tail)
    BY DEF Room
  <1>5. tail + 1 <= head + MAX_GLOBAL_MQ
    <2>1. SUFFICES ASSUME tail = head + MAX_GLOBAL_MQ PROVE FALSE
      BY <1>1, <1>3
    <2>2. GP(tail) = GP(head)
      BY <1>1, <2>1, GPAround
    <2>3. head \in head..(tail - 1)
      BY <1>1, <2>1
    <2>4. PICK u \in Thread : pc[u] = "p_slot" /\ ticket[u] = head
      BY <1>3, <1>4, <2>2, <2>3
    <2> QED BY <1>4, <2>2, <2>4
  <1>6. ASSUME NEW u \in Thread, pc[u] = "g_take" PROVE tail + 1 <= seen[u] + MAX_GLOBAL_MQ
    <2>1. SUFFICES ASSUME tail = seen[u] + MAX_GLOBAL_MQ PROVE FALSE
      BY <1>1, <1>3, <1>6
    <2>2. GP(tail) = GP(seen[u])
      BY <1>1, <2>1, GPAround
    <2> QED BY <1>3, <1>4, <1>6, <2>2
  <1>7. ASSUME NEW k \in head..tail, slots[GP(k)] = NULL
        PROVE  \E u \in Thread : pc'[u] = "p_slot" /\ ticket'[u] = k
    <2>1. CASE k = tail
      BY <1>2, <2>1
    <2>2. CASE k # tail
      <3>1. k \in head..(tail - 1)
        BY <1>1, <2>2
      <3>2. PICK u \in Thread : pc[u] = "p_slot" /\ ticket[u] = k
        BY <1>3, <1>7, <3>1
      <3> QED BY <1>2, <3>2
    <2> QED BY <2>1, <2>2
  <1>8. ASSUME NEW u \in Thread
        PROVE  /\ pc'[u] = "p_slot" => head <= ticket'[u] /\ ticket'[u] < tail + 1
               /\ pc'[u] \in InPop => seen[u] <= head
               /\ pc'[u] \in InPop \ {"g_tail"} => seen[u] < tail + 1
               /\ pc'[u] = "g_head" /\ seen[u] = head => slots[GP(head)] = mq[u]
               /\ pc'[u] = "g_take" =>
                    /\ seen[u] < head /\ tail + 1 <= seen[u] + MAX_GLOBAL_MQ
                    /\ slots[GP(seen[u])] = mq[u]
                    /\ \A v \in Thread : pc'[v] = "g_take" /\ seen[v] = seen[u] => v = u
    <2>1. CASE u = t
      BY <1>1, <1>2, <1>3, <2>1 DEF InPop, Reloading
    <2>2. CASE u # t
      BY <1>1, <1>2, <1>3, <1>6, <2>2
    <2> QED BY <2>1, <2>2
  <1>9. (tail + 1) - 1 = tail /\ head <= tail + 1
    BY <1>1, <1>3
  <1> QED BY <1>5, <1>7, <1>8, <1>9 DEF Tickets, GP

\* A step of one thread that leaves the queue as it is.
LEMMA PrivateStep ==
  ASSUME IInv, Tickets, Roomy, NEW t \in Thread, UNCHANGED <<crew, head, tail, slots, ticket>>,
         pc[t] # "p_slot", pc'[t] # "p_slot", pc'[t] # "g_take",
         \A u \in Thread : u # t => pc'[u] = pc[u] /\ seen'[u] = seen[u] /\ mq'[u] = mq[u],
         pc'[t] \in InPop => seen'[t] <= head,
         pc'[t] \in InPop \ {"g_tail"} => seen'[t] < tail,
         pc'[t] = "g_head" /\ seen'[t] = head => slots[GP(head)] = mq'[t]
  PROVE  Tickets'
  <1>1. /\ head <= tail /\ tail <= head + MAX_GLOBAL_MQ
        /\ \A k \in head..(tail - 1) : slots[GP(k)] = NULL =>
             \E u \in Thread : pc[u] = "p_slot" /\ ticket[u] = k
        /\ \A u \in Thread :
             /\ pc[u] = "p_slot" => head <= ticket[u] /\ ticket[u] < tail
             /\ pc[u] \in InPop => seen[u] <= head
             /\ pc[u] \in InPop \ {"g_tail"} => seen[u] < tail
             /\ pc[u] = "g_head" /\ seen[u] = head => slots[GP(head)] = mq[u]
             /\ pc[u] = "g_take" =>
                  /\ seen[u] < head /\ tail <= seen[u] + MAX_GLOBAL_MQ
                  /\ slots[GP(seen[u])] = mq[u]
                  /\ \A v \in Thread : pc[v] = "g_take" /\ seen[v] = seen[u] => v = u
    BY DEF Tickets
  <1>2. \A k \in head..(tail - 1) : slots[GP(k)] = NULL =>
          \E u \in Thread : pc'[u] = "p_slot" /\ ticket[u] = k
    BY <1>1
  <1>3. ASSUME NEW u \in Thread
        PROVE  /\ pc'[u] = "p_slot" => head <= ticket[u] /\ ticket[u] < tail
               /\ pc'[u] \in InPop => seen'[u] <= head
               /\ pc'[u] \in InPop \ {"g_tail"} => seen'[u] < tail
               /\ pc'[u] = "g_head" /\ seen'[u] = head => slots[GP(head)] = mq'[u]
               /\ pc'[u] = "g_take" =>
                    /\ seen'[u] < head /\ tail <= seen'[u] + MAX_GLOBAL_MQ
                    /\ slots[GP(seen'[u])] = mq'[u]
                    /\ \A v \in Thread : pc'[v] = "g_take" /\ seen'[v] = seen'[u] => v = u
    <2>1. CASE u = t
      BY <2>1
    <2>2. CASE u # t
      BY <1>1, <2>2
    <2> QED BY <2>1, <2>2
  <1> QED BY <1>1, <1>2, <1>3 DEF Tickets, GP

\* The push fills its own slot, and no other ticket between head and tail has it.
LEMMA FillSlotTickets ==
  ASSUME IInv, Tickets, Roomy, NEW t \in Thread, FillSlot(t), UNCHANGED crew
  PROVE  Tickets'
  <1>1. pc[t] = "p_slot" /\ slots[GP(ticket[t])] = NULL
    BY DEF FillSlot, IInv, NoList
  <1>2. /\ pc' = [pc EXCEPT ![t] = IF reload[t] THEN "g_slot" ELSE "out"]
        /\ slots' = [slots EXCEPT ![GP(ticket[t])] = pushing[t]]
        /\ ticket' = [ticket EXCEPT ![t] = 0]
        /\ UNCHANGED <<head, tail, seen, mq>>
    BY <1>1 DEF FillSlot, PushReturns, Goto, popVars
  <1>3. /\ head \in Nat /\ tail \in Nat
        /\ \A u \in Thread : ticket[u] \in Nat /\ seen[u] \in Nat
        /\ pushing[t] # NULL
    BY <1>1 DEF IInv, TypeOK, Locals, InPush
  <1>4. PICK i \in 0..(MAX_GLOBAL_MQ - 1) : i = GP(ticket[t])
    BY <1>3, GPType
  <1>5. /\ slots'[i] # NULL /\ slots[i] = NULL
        /\ \A k \in 0..(MAX_GLOBAL_MQ - 1) : k # i => slots'[k] = slots[k]
    BY <1>1, <1>2, <1>3, <1>4 DEF IInv, TypeOK
  <1>6. /\ ~ reload[t]
        /\ pc'[t] = "out" /\ \A u \in Thread : u # t => pc'[u] = pc[u] /\ ticket'[u] = ticket[u]
    <2>1. \A u \in Thread : u # t => pc'[u] = pc[u] /\ ticket'[u] = ticket[u]
      BY <1>2 DEF IInv, TypeOK
    <2>2. pc'[t] = IF reload[t] THEN "g_slot" ELSE "out"
      BY <1>2 DEF IInv, TypeOK
    <2>3. ~ reload[t]
      BY DEF IInv, NoList
    <2> QED BY <2>1, <2>2, <2>3
  <1>7. /\ head <= tail /\ tail <= head + MAX_GLOBAL_MQ
        /\ \A k \in head..(tail - 1) : slots[GP(k)] = NULL =>
             \E u \in Thread : pc[u] = "p_slot" /\ ticket[u] = k
        /\ \A u \in Thread :
             /\ pc[u] = "p_slot" => head <= ticket[u] /\ ticket[u] < tail
             /\ pc[u] \in InPop => seen[u] <= head
             /\ pc[u] \in InPop \ {"g_tail"} => seen[u] < tail
             /\ pc[u] = "g_head" /\ seen[u] = head => slots[GP(head)] = mq[u]
             /\ pc[u] = "g_take" =>
                  /\ seen[u] < head /\ tail <= seen[u] + MAX_GLOBAL_MQ
                  /\ slots[GP(seen[u])] = mq[u]
                  /\ \A v \in Thread : pc[v] = "g_take" /\ seen[v] = seen[u] => v = u
        /\ \A u \in Thread : pc[u] \in {"g_head", "g_take"} => mq[u] # NULL
    BY DEF Tickets, IInv, Locals
  <1>8. \A k \in Nat : GP(k) \in 0..(MAX_GLOBAL_MQ - 1)
    BY GPType
  <1>9. ASSUME NEW k \in head..(tail - 1), slots'[GP(k)] = NULL
        PROVE  \E u \in Thread : pc'[u] = "p_slot" /\ ticket'[u] = k
    <2>1. GP(k) \in 0..(MAX_GLOBAL_MQ - 1)
      BY <1>3, <1>8
    <2>2. GP(k) # i /\ slots[GP(k)] = NULL
      BY <1>5, <1>9, <2>1
    <2>3. PICK u \in Thread : pc[u] = "p_slot" /\ ticket[u] = k
      BY <1>7, <1>9, <2>2
    <2>4. u # t
      BY <1>4, <2>2, <2>3
    <2> QED BY <1>6, <2>3, <2>4
  <1>10. ASSUME NEW u \in Thread
        PROVE  /\ pc'[u] = "p_slot" => head <= ticket'[u] /\ ticket'[u] < tail
               /\ pc'[u] \in InPop => seen[u] <= head
               /\ pc'[u] \in InPop \ {"g_tail"} => seen[u] < tail
               /\ pc'[u] = "g_head" /\ seen[u] = head => slots'[GP(head)] = mq[u]
               /\ pc'[u] = "g_take" =>
                    /\ seen[u] < head /\ tail <= seen[u] + MAX_GLOBAL_MQ
                    /\ slots'[GP(seen[u])] = mq[u]
                    /\ \A v \in Thread : pc'[v] = "g_take" /\ seen[v] = seen[u] => v = u
    <2>1. CASE u = t
      BY <1>6, <2>1 DEF InPop, Reloading
    <2>2. CASE u # t
      <3>1. pc[u] = "g_head" /\ seen[u] = head => slots'[GP(head)] = mq[u]
        BY <1>3, <1>5, <1>7, <1>8
      <3>2. pc[u] = "g_take" => slots'[GP(seen[u])] = mq[u]
        BY <1>3, <1>5, <1>7, <1>8
      <3>3. \A v \in Thread : pc'[v] = "g_take" => pc[v] = "g_take"
        BY <1>6
      <3> QED BY <1>6, <1>7, <2>2, <3>1, <3>2, <3>3
    <2> QED BY <2>1, <2>2
  <1> QED BY <1>2, <1>7, <1>9, <1>10 DEF Tickets, GP

\* The head moves on only from a slot that is filled.
LEMMA AdvanceHeadTickets ==
  ASSUME IInv, Tickets, Roomy, NEW t \in Thread, AdvanceHead(t), UNCHANGED crew
  PROVE  Tickets'
  <1>1. /\ head \in Nat /\ tail \in Nat /\ MAX_GLOBAL_MQ \in Nat \ {0}
        /\ \A u \in Thread : ticket[u] \in Nat /\ seen[u] \in Nat
        /\ pc[t] = "g_head"
    BY GlobalAssumption DEF IInv, TypeOK, AdvanceHead
  <1>2. /\ head <= tail /\ tail <= head + MAX_GLOBAL_MQ
        /\ \A k \in head..(tail - 1) : slots[GP(k)] = NULL =>
             \E u \in Thread : pc[u] = "p_slot" /\ ticket[u] = k
        /\ \A u \in Thread :
             /\ pc[u] = "p_slot" => head <= ticket[u] /\ ticket[u] < tail
             /\ pc[u] \in InPop => seen[u] <= head
             /\ pc[u] \in InPop \ {"g_tail"} => seen[u] < tail
             /\ pc[u] = "g_head" /\ seen[u] = head => slots[GP(head)] = mq[u]
             /\ pc[u] = "g_take" =>
                  /\ seen[u] < head /\ tail <= seen[u] + MAX_GLOBAL_MQ
                  /\ slots[GP(seen[u])] = mq[u]
                  /\ \A v \in Thread : pc[v] = "g_take" /\ seen[v] = seen[u] => v = u
        /\ \A u \in Thread : pc[u] \in {"g_head", "g_take"} => mq[u] # NULL
        /\ \A u \in Thread : pc[u] = "p_slot" => slots[GP(ticket[u])] = NULL
    BY DEF Tickets, IInv, Locals, NoList
  <1>3. CASE head # seen[t]
    <2>1. /\ pc' = [pc EXCEPT ![t] = "out"] /\ seen' = [seen EXCEPT ![t] = 0]
          /\ mq' = [mq EXCEPT ![t] = NULL] /\ UNCHANGED <<head, tail, slots, ticket>>
      BY <1>3 DEF AdvanceHead, PopReturns, Goto, pushVars
    <2>2. /\ pc'[t] = "out"
          /\ \A u \in Thread : u # t => pc'[u] = pc[u] /\ seen'[u] = seen[u] /\ mq'[u] = mq[u]
      BY <2>1 DEF IInv, TypeOK
    <2> QED BY <1>1, <2>1, <2>2, PrivateStep DEF InPop, Reloading
  <1>4. CASE head = seen[t]
    <2>1. /\ pc' = [pc EXCEPT ![t] = "g_take"] /\ head' = head + 1
          /\ UNCHANGED <<tail, slots, ticket, seen, mq>>
      BY <1>4 DEF AdvanceHead, Goto, pushVars, popVars
    <2>2. /\ pc'[t] = "g_take" /\ \A u \in Thread : u # t => pc'[u] = pc[u]
      BY <2>1 DEF IInv, TypeOK
    <2>3. slots[GP(head)] = mq[t] /\ mq[t] # NULL /\ head < tail
      BY <1>1, <1>2, <1>4 DEF InPop, Reloading
    <2>4. ASSUME NEW k \in (head + 1)..(tail - 1), slots[GP(k)] = NULL
          PROVE  \E u \in Thread : pc'[u] = "p_slot" /\ ticket[u] = k
      <3>1. k \in head..(tail - 1)
        BY <1>1
      <3>2. PICK u \in Thread : pc[u] = "p_slot" /\ ticket[u] = k
        BY <1>2, <2>4, <3>1
      <3> QED BY <1>1, <2>2, <3>2
    <2>5. ASSUME NEW u \in Thread
          PROVE  /\ pc'[u] = "p_slot" => head + 1 <= ticket[u] /\ ticket[u] < tail
                 /\ pc'[u] \in InPop => seen[u] <= head + 1
                 /\ pc'[u] \in InPop \ {"g_tail"} => seen[u] < tail
                 /\ pc'[u] = "g_head" /\ seen[u] = head + 1 => slots[GP(head + 1)] = mq[u]
                 /\ pc'[u] = "g_take" =>
                      /\ seen[u] < head + 1 /\ tail <= seen[u] + MAX_GLOBAL_MQ
                      /\ slots[GP(seen[u])] = mq[u]
                      /\ \A v \in Thread : pc'[v] = "g_take" /\ seen[v] = seen[u] => v = u
      <3>1. CASE u = t
        <4>1. \A v \in Thread : pc'[v] = "g_take" /\ seen[v] = seen[t] => v = t
          BY <1>1, <1>2, <1>4, <2>2
        <4> QED BY <1>1, <1>2, <1>4, <2>2, <2>3, <3>1, <4>1
      <3>2. CASE u # t
        <4>1. pc[u] = "p_slot" => ticket[u] # head
          BY <1>2, <2>3
        <4>2. pc[u] \in InPop => seen[u] <= head
          BY <1>2
        <4>3. pc[u] = "g_take" => \A v \in Thread : pc'[v] = "g_take" /\ seen[v] = seen[u] => v = u
          BY <1>1, <1>2, <1>4, <2>2
        <4>4. "g_head" \in InPop
          BY DEF InPop
        <4> QED BY <1>1, <1>2, <2>2, <3>2, <4>1, <4>2, <4>3, <4>4
      <3> QED BY <3>1, <3>2
    <2>6. head + 1 <= tail /\ tail <= (head + 1) + MAX_GLOBAL_MQ
      BY <1>1, <1>2, <2>3
    <2> QED BY <2>1, <2>4, <2>5, <2>6 DEF Tickets, GP
  <1> QED BY <1>3, <1>4

\* The slot that a pop empties is of no other ticket that is still in use.
LEMMA EmptySlotTickets ==
  ASSUME IInv, Tickets, Roomy, NEW t \in Thread, EmptySlot(t), UNCHANGED crew
  PROVE  Tickets'
  <1>1. /\ head \in Nat /\ tail \in Nat /\ MAX_GLOBAL_MQ \in Nat \ {0}
        /\ \A u \in Thread : ticket[u] \in Nat /\ seen[u] \in Nat
        /\ pc[t] = "g_take"
    BY GlobalAssumption DEF IInv, TypeOK, EmptySlot
  <1>2. /\ head <= tail /\ tail <= head + MAX_GLOBAL_MQ
        /\ \A k \in head..(tail - 1) : slots[GP(k)] = NULL =>
             \E u \in Thread : pc[u] = "p_slot" /\ ticket[u] = k
        /\ \A u \in Thread :
             /\ pc[u] = "p_slot" => head <= ticket[u] /\ ticket[u] < tail
             /\ pc[u] \in InPop => seen[u] <= head
             /\ pc[u] \in InPop \ {"g_tail"} => seen[u] < tail
             /\ pc[u] = "g_head" /\ seen[u] = head => slots[GP(head)] = mq[u]
             /\ pc[u] = "g_take" =>
                  /\ seen[u] < head /\ tail <= seen[u] + MAX_GLOBAL_MQ
                  /\ slots[GP(seen[u])] = mq[u]
                  /\ \A v \in Thread : pc[v] = "g_take" /\ seen[v] = seen[u] => v = u
    BY DEF Tickets
  <1>3. /\ pc' = [pc EXCEPT ![t] = "out"] /\ seen' = [seen EXCEPT ![t] = 0]
        /\ mq' = [mq EXCEPT ![t] = NULL] /\ slots' = [slots EXCEPT ![GP(seen[t])] = NULL]
        /\ UNCHANGED <<head, tail, ticket>>
    BY <1>1, <1>2 DEF EmptySlot, PopReturns, Goto, pushVars
  <1>4. /\ pc'[t] = "out"
        /\ \A u \in Thread : u # t => pc'[u] = pc[u] /\ seen'[u] = seen[u] /\ mq'[u] = mq[u]
    BY <1>3 DEF IInv, TypeOK
  <1>5. \A k \in Nat : k # seen[t] /\ k < tail /\ tail <= k + MAX_GLOBAL_MQ =>
          slots'[GP(k)] = slots[GP(k)]
    <2>1. SUFFICES ASSUME NEW k \in Nat, k # seen[t], k < tail, tail <= k + MAX_GLOBAL_MQ
                   PROVE  slots'[GP(k)] = slots[GP(k)]
      OBVIOUS
    <2>2. seen[t] < head /\ tail <= seen[t] + MAX_GLOBAL_MQ
      BY <1>1, <1>2
    <2>3. GP(k) # GP(seen[t])
      <3>1. CASE k < seen[t]
        <4>1. seen[t] < k + MAX_GLOBAL_MQ
          BY <1>1, <1>2, <2>1, <2>2
        <4> QED BY <1>1, <3>1, <4>1, GPApart
      <3>2. CASE seen[t] < k
        <4>1. k < seen[t] + MAX_GLOBAL_MQ
          BY <1>1, <2>1, <2>2
        <4> QED BY <1>1, <3>2, <4>1, GPApart
      <3> QED BY <1>1, <2>1, <3>1, <3>2
    <2>4. GP(k) \in 0..(MAX_GLOBAL_MQ - 1) /\ GP(seen[t]) \in 0..(MAX_GLOBAL_MQ - 1)
      BY <1>1, GPType
    <2> QED BY <1>3, <2>3, <2>4 DEF IInv, TypeOK
  <1>6. \A k \in head..(tail - 1) : slots'[GP(k)] = slots[GP(k)]
    BY <1>1, <1>2, <1>5
  <1>7. ASSUME NEW k \in head..(tail - 1), slots'[GP(k)] = NULL
        PROVE  \E u \in Thread : pc'[u] = "p_slot" /\ ticket[u] = k
    <2>1. PICK u \in Thread : pc[u] = "p_slot" /\ ticket[u] = k
      BY <1>2, <1>6, <1>7
    <2> QED BY <1>1, <1>4, <2>1
  <1>8. ASSUME NEW u \in Thread
        PROVE  /\ pc'[u] = "p_slot" => head <= ticket[u] /\ ticket[u] < tail
               /\ pc'[u] \in InPop => seen'[u] <= head
               /\ pc'[u] \in InPop \ {"g_tail"} => seen'[u] < tail
               /\ pc'[u] = "g_head" /\ seen'[u] = head => slots'[GP(head)] = mq'[u]
               /\ pc'[u] = "g_take" =>
                    /\ seen'[u] < head /\ tail <= seen'[u] + MAX_GLOBAL_MQ
                    /\ slots'[GP(seen'[u])] = mq'[u]
                    /\ \A v \in Thread : pc'[v] = "g_take" /\ seen'[v] = seen'[u] => v = u
    <2>1. CASE u = t
      BY <1>4, <2>1 DEF InPop, Reloading
    <2>2. CASE u # t
      <3>1. pc'[u] = pc[u] /\ seen'[u] = seen[u] /\ mq'[u] = mq[u]
        BY <1>4, <2>2
      <3>2. pc[u] = "g_head" /\ seen[u] = head => slots'[GP(head)] = mq[u]
        <4>1. SUFFICES ASSUME pc[u] = "g_head", seen[u] = head PROVE slots'[GP(head)] = mq[u]
          OBVIOUS
        <4>2. head < tail
          BY <1>2, <4>1 DEF InPop, Reloading
        <4>3. head \in head..(tail - 1)
          BY <1>1, <4>2
        <4> QED BY <1>2, <1>6, <4>1, <4>3
      <3>3. pc[u] = "g_take" => slots'[GP(seen[u])] = mq[u]
        <4>1. SUFFICES ASSUME pc[u] = "g_take" PROVE slots'[GP(seen[u])] = mq[u]
          OBVIOUS
        <4>2. seen[u] # seen[t] /\ seen[u] < tail /\ tail <= seen[u] + MAX_GLOBAL_MQ
          BY <1>1, <1>2, <2>2, <4>1
        <4> QED BY <1>1, <1>2, <1>5, <4>1, <4>2
      <3>4. \A v \in Thread : pc'[v] = "g_take" => pc[v] = "g_take" /\ seen'[v] = seen[v]
        BY <1>4
      <3> QED BY <1>2, <3>1, <3>2, <3>3, <3>4
    <2> QED BY <2>1, <2>2
  <1> QED BY <1>2, <1>3, <1>7, <1>8 DEF Tickets, GP

\* What PrivateStep asks of the thread's variables.
Private(t) ==
  /\ pc'[t] \notin {"p_slot", "g_take"}
  /\ \A u \in Thread : u # t => pc'[u] = pc[u] /\ seen'[u] = seen[u] /\ mq'[u] = mq[u]
  /\ pc'[t] \in InPop => seen'[t] <= head
  /\ pc'[t] \in InPop \ {"g_tail"} => seen'[t] < tail
  /\ pc'[t] = "g_head" /\ seen'[t] = head => slots[GP(head)] = mq'[t]

\* The reads of a pop, and its returns without a queue.
LEMMA ReadTickets ==
  ASSUME IInv, Tickets, Roomy, NEW t \in Thread, UNCHANGED crew,
         ReadHead(t) \/ ReadTail(t) \/ LookAtList(t) \/ ReadSlot(t)
  PROVE  Tickets'
  <1>1. /\ head \in Nat /\ tail \in Nat
        /\ \A u \in Thread : ticket[u] \in Nat /\ seen[u] \in Nat
    BY DEF IInv, TypeOK
  <1>2. /\ head <= tail
        /\ pc[t] \in InPop => seen[t] <= head
        /\ pc[t] \in InPop \ {"g_tail"} => seen[t] < tail
    BY DEF Tickets
  <1>3. UNCHANGED <<head, tail, slots, ticket>> /\ pc[t] # "p_slot"
    BY DEF ReadHead, ReadTail, LookAtList, ReadSlot, queueVars, pushVars
  <1>4. ASSUME PopReturns(t, {})
        PROVE  Private(t)
    <2>1. /\ pc' = [pc EXCEPT ![t] = "out"] /\ seen' = [seen EXCEPT ![t] = 0]
          /\ mq' = [mq EXCEPT ![t] = NULL]
      BY <1>4 DEF PopReturns, Goto
    <2>2. /\ pc'[t] = "out"
          /\ \A u \in Thread : u # t => pc'[u] = pc[u] /\ seen'[u] = seen[u] /\ mq'[u] = mq[u]
      BY <2>1 DEF IInv, TypeOK
    <2> QED BY <2>2 DEF Private, InPop, Reloading
  <1>5. CASE ReadHead(t)
    <2>1. /\ pc' = [pc EXCEPT ![t] = "g_tail"] /\ seen' = [seen EXCEPT ![t] = head]
          /\ mq' = mq
      BY <1>5 DEF ReadHead, Goto
    <2>2. /\ pc'[t] = "g_tail" /\ seen'[t] = head
          /\ \A u \in Thread : u # t => pc'[u] = pc[u] /\ seen'[u] = seen[u] /\ mq'[u] = mq[u]
      BY <2>1 DEF IInv, TypeOK
    <2>3. Private(t)
      BY <1>1, <2>2 DEF Private
    <2> QED BY <1>3, <2>3, PrivateStep DEF Private
  <1>6. CASE ReadTail(t)
    <2>1. CASE seen[t] # tail
      <3>1. pc[t] = "g_tail" /\ pc' = [pc EXCEPT ![t] = "g_list"] /\ UNCHANGED <<seen, mq>>
        BY <1>6, <2>1 DEF ReadTail, Goto, popVars
      <3>2. pc'[t] = "g_list" /\ \A u \in Thread : u # t => pc'[u] = pc[u]
        BY <3>1 DEF IInv, TypeOK
      <3>3. seen[t] <= head /\ seen[t] < tail
        BY <1>1, <1>2, <2>1, <3>1 DEF InPop
      <3> QED BY <1>3, <3>1, <3>2, <3>3, PrivateStep
    <2>2. CASE seen[t] = tail
      <3>1. Private(t)
        BY <1>4, <1>6, <2>2 DEF ReadTail
      <3> QED BY <1>3, <3>1, PrivateStep DEF Private
    <2> QED BY <2>1, <2>2
  <1>7. CASE LookAtList(t)
    <2>1. list = NULL
      BY DEF IInv, NoList
    <2>2. pc[t] = "g_list" /\ pc' = [pc EXCEPT ![t] = "g_slot"] /\ UNCHANGED <<seen, mq>>
      BY <1>7, <2>1 DEF LookAtList, Goto, popVars
    <2>3. pc'[t] = "g_slot" /\ \A u \in Thread : u # t => pc'[u] = pc[u]
      BY <2>2 DEF IInv, TypeOK
    <2>4. seen[t] <= head /\ seen[t] < tail
      BY <1>2, <2>2 DEF InPop
    <2> QED BY <1>3, <2>2, <2>3, <2>4, PrivateStep
  <1>8. CASE ReadSlot(t)
    <2>1. CASE slots[GP(seen[t])] # NULL
      <3>1. /\ pc[t] = "g_slot" /\ pc' = [pc EXCEPT ![t] = "g_head"]
            /\ mq' = [mq EXCEPT ![t] = slots[GP(seen[t])]] /\ UNCHANGED seen
        BY <1>8, <2>1 DEF ReadSlot, Goto
      <3>2. /\ pc'[t] = "g_head" /\ mq'[t] = slots[GP(seen[t])]
            /\ \A u \in Thread : u # t => pc'[u] = pc[u] /\ mq'[u] = mq[u]
        BY <3>1 DEF IInv, TypeOK
      <3>3. seen[t] <= head /\ seen[t] < tail
        BY <1>2, <3>1 DEF InPop
      <3> QED BY <1>3, <3>1, <3>2, <3>3, PrivateStep
    <2>2. CASE slots[GP(seen[t])] = NULL
      <3>1. Private(t)
        BY <1>4, <1>8, <2>2 DEF ReadSlot
      <3> QED BY <1>3, <3>1, PrivateStep DEF Private
    <2> QED BY <2>1, <2>2
  <1> QED BY <1>5, <1>6, <1>7, <1>8

LEMMA TicketsBegin == Init => Tickets
  <1> SUFFICES ASSUME Init PROVE Tickets
    OBVIOUS
  <1>1. /\ head = 0 /\ tail = 0
        /\ \A t \in Thread : pc[t] = "out"
    BY DEF Init
  <1>2. MAX_GLOBAL_MQ \in Nat
    BY GlobalAssumption
  <1> QED BY <1>1, <1>2 DEF Tickets, InPop, Reloading

LEMMA TicketsKept == IInv /\ Tickets /\ [Next]_vars => Tickets'
  <1>1. SUFFICES ASSUME IInv, Tickets, [Next]_vars PROVE Tickets'
    OBVIOUS
  <1>2. UNCHANGED crew
    BY <1>1 DEF Next, vars
  <1>3. CASE ~ Roomy
    BY <1>2, <1>3 DEF Roomy, Tickets
  <1>4. CASE UNCHANGED vars
    BY <1>1, <1>4 DEF vars, Tickets, Roomy, GP
  <1>5. ASSUME Roomy, NEW t \in Thread,
               \/ PushStep(t) \/ PopStep(t) \/ ReadHead(t)
               \/ \E x \in Queue : Schedule(t, x) \/ PushBack(t, x) \/ PutAside(t, x)
        PROVE  Tickets'
    <2>1. pc[t] \notin Listing \cup Reloading
      BY <1>1, <1>5 DEF IInv, NoList
    <2>2. CASE FillSlot(t)
      BY <1>1, <1>2, <1>5, <2>2, FillSlotTickets
    <2>3. CASE AdvanceHead(t)
      BY <1>1, <1>2, <1>5, <2>3, AdvanceHeadTickets
    <2>4. CASE EmptySlot(t)
      BY <1>1, <1>2, <1>5, <2>4, EmptySlotTickets
    <2>5. CASE ReadHead(t) \/ ReadTail(t) \/ LookAtList(t) \/ ReadSlot(t)
      BY <1>1, <1>2, <1>5, <2>5, ReadTickets
    <2>6. ASSUME NEW x \in Queue, Schedule(t, x) \/ PushBack(t, x) PROVE Tickets'
      <3>1. pc[t] = "out" /\ TakeTicket(t, x)
        BY <2>6 DEF Schedule, PushBack
      <3>2. /\ Room /\ tail' = tail + 1 /\ ticket' = [ticket EXCEPT ![t] = tail]
            /\ pc' = [pc EXCEPT ![t] = "p_slot"] /\ UNCHANGED <<head, slots, seen, mq>>
        BY <3>1 DEF TakeTicket, Goto, popVars
      <3> QED BY <1>1, <1>2, <1>5, <3>1, <3>2, TakeTicketFits
    <2>7. ASSUME NEW x \in Queue, PutAside(t, x) PROVE Tickets'
      <3>1. UNCHANGED <<crew, head, tail, slots, pc, ticket, seen, mq>>
        BY <1>2, <2>7 DEF PutAside, queueVars, pushVars, popVars
      <3> QED BY <1>1, <3>1 DEF Tickets, Roomy, GP
    <2>8. ~ (ReadList(t) \/ SetNext(t) \/ PushList(t))
      BY <2>1 DEF ReadList, SetNext, PushList, Listing
    <2>9. ~ (ReadNext(t) \/ TakeFromList(t) \/ ClearNext(t) \/ PushLoaded(t))
      BY <2>1 DEF ReadNext, TakeFromList, ClearNext, PushLoaded, Reloading
    <2> QED BY <1>5, <2>2, <2>3, <2>4, <2>5, <2>6, <2>7, <2>8, <2>9 DEF PushStep, PopStep
  <1> QED BY <1>1, <1>3, <1>4, <1>5 DEF Next

\* skynet_mq.c:95: in an array with room, the ticket at the head whose slot is
\* empty is that of a push under way.
THEOREM EmptySlotWaits ==
  ASSUME Tame
  PROVE  Spec => []EmptyMeansPushing
  <1>1. IInv /\ Tickets => EmptyMeansPushing
    <2>1. SUFFICES ASSUME IInv, Tickets, Roomy, head # tail, slots[GP(head)] = NULL
                   PROVE  \E t \in Thread : pc[t] = "p_slot" /\ ticket[t] = head
      BY DEF EmptyMeansPushing
    <2>2. head \in Nat /\ tail \in Nat
      BY <2>1 DEF IInv, TypeOK
    <2>3. head <= tail
      BY <2>1 DEF Tickets
    <2>4. head \in head..(tail - 1)
      BY <2>1, <2>2, <2>3
    <2> QED BY <2>1, <2>4 DEF Tickets
  <1> QED BY <1>1, TicketsBegin, TicketsKept, Invariant, PTL DEF Spec
=============================================================================
