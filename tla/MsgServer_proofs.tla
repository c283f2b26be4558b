-------------------------- MODULE MsgServer_proofs --------------------------
(***************************************************************************)
(* Proofs about MsgServer, for any number of connections, sessions and     *)
(* requests: requests go to the agent in the order they were sent, waiting *)
(* packages are served and recent answers stay in the cache.  When         *)
(* connections are read in turn, answers match requests, and a request is  *)
(* executed once.                                                          *)
(***************************************************************************)
EXTENDS MsgServer, Integers, FiniteSetTheorems, SequenceTheorems, WellFoundedInduction, TLAPS

-----------------------------------------------------------------------------
(* Packages on their way                                                   *)

Pkg == [fd : Fd, kind : {"hello", "eof"}, session : {None}, n : {0}, use : {0}]
  \cup [fd : Fd, kind : {"request"}, session : Session, n : 1..MaxSends, use : 1..MaxSends]

\* q may stand behind p: packages of one connection are numbered in the order
\* they were sent, and in turn, those of older connections come first.
Follows(p, q) ==
  q.kind # "eof" => /\ p.fd = q.fd => p.n < q.n
                    /\ InTurn => p.fd <= q.fd

Behind(q, r) == \A x \in ToSet(q), y \in ToSet(r) : Follows(x, y)
Lined(q) == \A i, j \in 1..Len(q) : i < j => Follows(q[i], q[j])

\* What the client has sent and the gate has not handled.
Unread == ToSet(queue) \cup UNION {ToSet(wire[f]) : f \in Fd}
Pending == {p \in Unread : p.kind # "eof"}

Flow ==
  /\ wire \in [Fd -> Seq(Pkg)] /\ queue \in Seq(Pkg)
  /\ Lined(queue) /\ \A f \in Fd : Lined(wire[f]) /\ Behind(queue, wire[f])
  /\ \A p \in ToSet(queue) : p.kind # "eof"
  /\ \A f \in Fd : \A p \in ToSet(wire[f]) : p.fd = f
  /\ \A p \in Unread : state[p.fd] # "new" /\ p.n <= sends /\ p.use <= sends

\* The client opens its connections one after the other, and answers reach it
\* on open ones only.
Clients ==
  /\ \A f, g \in Fd : f < g /\ state[f] = "new" => state[g] = "new"
  /\ \A f \in Fd : back[f] # {} => Listening(f)
  /\ \A s \in Session : asked[s].use <= sends /\ (~ asked[s].answered => asked[s].use # 0)

FlowInv == TypeOK /\ Flow /\ Clients

-----------------------------------------------------------------------------
(* Sequences of packages                                                   *)

LEMMA ElementsOf ==
  ASSUME NEW S, NEW q \in Seq(S)
  PROVE  /\ \A x : x \in ToSet(q) <=> \E i \in 1..Len(q) : q[i] = x
         /\ ToSet(q) \subseteq S
  BY DEF ToSet

LEMMA NoElements == ToSet(<<>>) = {} /\ Lined(<<>>) /\ \A S : <<>> \in Seq(S)
  BY DEF ToSet, Lined

LEMMA OnlyElement ==
  ASSUME NEW S, NEW x \in S
  PROVE  <<x>> \in Seq(S) /\ ToSet(<<x>>) = {x} /\ Lined(<<x>>)
  <1>1. <<x>> \in Seq(S) /\ Len(<<x>>) = 1 /\ <<x>>[1] = x
    OBVIOUS
  <1>2. \A y : y \in ToSet(<<x>>) <=> y \in {x}
    <2>1. ASSUME NEW y PROVE y \in ToSet(<<x>>) <=> \E i \in 1..Len(<<x>>) : <<x>>[i] = y
      BY <1>1, ElementsOf
    <2> QED BY <2>1, <1>1
  <1>3. \A i, j \in 1..Len(<<x>>) : ~ i < j
    BY <1>1
  <1> QED BY <1>1, <1>2, <1>3 DEF Lined

LEMMA LinedAppend ==
  ASSUME NEW S, NEW q \in Seq(S), NEW x \in S, Lined(q), \A y \in ToSet(q) : Follows(y, x)
  PROVE  /\ Append(q, x) \in Seq(S) /\ ToSet(Append(q, x)) = ToSet(q) \cup {x}
         /\ Lined(Append(q, x))
  <1> DEFINE r == Append(q, x)
  <1>1. /\ r \in Seq(S) /\ Len(r) = Len(q) + 1 /\ r[Len(q) + 1] = x /\ Len(q) \in Nat
        /\ \A i \in 1..Len(q) : r[i] = q[i]
    BY AppendProperties, LenProperties
  <1> HIDE DEF r
  <1>2. \A y : y \in ToSet(r) <=> y \in ToSet(q) \cup {x}
    BY <1>1, ElementsOf
  <1>3. ASSUME NEW i \in 1..Len(r), NEW j \in 1..Len(r), i < j PROVE Follows(r[i], r[j])
    <2>1. i \in 1..Len(q) /\ r[i] = q[i] /\ q[i] \in ToSet(q)
      BY <1>1, <1>3, ElementsOf
    <2>2. (j \in 1..Len(q) /\ r[j] = q[j]) \/ r[j] = x
      BY <1>1, <1>3
    <2> QED BY <1>3, <2>1, <2>2 DEF Lined
  <1> QED BY <1>1, <1>2, <1>3 DEF r, Lined

LEMMA LinedConcat ==
  ASSUME NEW S, NEW q \in Seq(S), NEW r \in Seq(S), Lined(q), Lined(r), Behind(q, r)
  PROVE  /\ q \o r \in Seq(S) /\ ToSet(q \o r) = ToSet(q) \cup ToSet(r)
         /\ Lined(q \o r)
  <1> DEFINE t == q \o r
  <1>1. /\ t \in Seq(S) /\ Len(t) = Len(q) + Len(r) /\ Len(q) \in Nat /\ Len(r) \in Nat
        /\ \A i \in 1..Len(q) + Len(r) : t[i] = IF i <= Len(q) THEN q[i] ELSE r[i - Len(q)]
    BY ConcatProperties, LenProperties
  <1> HIDE DEF t
  <1>2. ASSUME NEW i \in 1..Len(t)
        PROVE  \/ i \in 1..Len(q) /\ t[i] = q[i]
               \/ i - Len(q) \in 1..Len(r) /\ t[i] = r[i - Len(q)]
    BY <1>1
  <1>3. ASSUME NEW y, y \in ToSet(q) \cup ToSet(r) PROVE y \in ToSet(t)
    <2>1. CASE y \in ToSet(q)
      <3>1. PICK i \in 1..Len(q) : q[i] = y
        BY <2>1, ElementsOf
      <3>2. i \in 1..Len(t) /\ t[i] = y
        BY <3>1, <1>1
      <3> QED BY <3>2, <1>1, ElementsOf
    <2>2. CASE y \in ToSet(r)
      <3>1. PICK i \in 1..Len(r) : r[i] = y
        BY <2>2, ElementsOf
      <3> DEFINE k == i + Len(q)
      <3>2. k \in 1..Len(t) /\ ~ k <= Len(q) /\ k - Len(q) = i
        BY <1>1, <3>1
      <3>3. t[k] = r[i]
        BY <1>1, <3>2
      <3> HIDE DEF k
      <3> QED BY <3>1, <3>2, <3>3, <1>1, ElementsOf
    <2> QED BY <1>3, <2>1, <2>2
  <1>4. ASSUME NEW y, y \in ToSet(t) PROVE y \in ToSet(q) \cup ToSet(r)
    BY <1>1, <1>2, <1>4, ElementsOf
  <1>5. ASSUME NEW i \in 1..Len(t), NEW j \in 1..Len(t), i < j PROVE Follows(t[i], t[j])
    <2>1. CASE i \in 1..Len(q) /\ t[i] = q[i] /\ j \in 1..Len(q) /\ t[j] = q[j]
      BY <1>5, <2>1 DEF Lined
    <2>2. CASE i \in 1..Len(q) /\ t[i] = q[i] /\ j - Len(q) \in 1..Len(r) /\ t[j] = r[j - Len(q)]
      <3>1. q[i] \in ToSet(q) /\ r[j - Len(q)] \in ToSet(r)
        BY <2>2, ElementsOf
      <3> QED BY <3>1, <2>2 DEF Behind
    <2>3. CASE /\ i - Len(q) \in 1..Len(r) /\ t[i] = r[i - Len(q)]
               /\ j - Len(q) \in 1..Len(r) /\ t[j] = r[j - Len(q)]
      <3>1. i - Len(q) < j - Len(q)
        BY <1>1, <1>5
      <3> QED BY <2>3, <3>1 DEF Lined
    <2>4. ~ (i - Len(q) \in 1..Len(r) /\ j \in 1..Len(q))
      BY <1>1, <1>5
    <2> QED BY <1>2, <2>1, <2>2, <2>3, <2>4
  <1> QED BY <1>1, <1>3, <1>4, <1>5 DEF t, Lined

\* A line is cut after its k-th element.
LEMMA LinedCut ==
  ASSUME NEW S, NEW q \in Seq(S), Lined(q), NEW k \in 1..Len(q)
  PROVE  LET a == SubSeq(q, 1, k)
             b == SubSeq(q, k + 1, Len(q))
         IN /\ a \in Seq(S) /\ b \in Seq(S) /\ Lined(a) /\ Lined(b) /\ Behind(a, b)
            /\ ToSet(q) = ToSet(a) \cup ToSet(b)
            /\ \A x \in ToSet(a) : \E i \in 1..k : x = q[i]
            /\ a # <<>>
  <1> DEFINE a == SubSeq(q, 1, k)
             b == SubSeq(q, k + 1, Len(q))
             m == Len(q) - k
  <1>1. /\ Len(q) \in Nat /\ \A i \in 1..Len(q) : q[i] \in S
    BY LenProperties, ElementOfSeq
  <1>2. /\ a \in Seq(S) /\ Len(a) = k /\ \A i \in 1..k : a[i] = q[i]
    BY <1>1, SubSeqProperties
  <1>3. /\ b \in Seq(S) /\ Len(b) = m /\ \A i \in 1..m : b[i] = q[i + k]
    BY <1>1, SubSeqProperties
  <1>4. m \in Nat
    BY <1>1
  <1> HIDE DEF a, b, m
  <1>5. Lined(a)
    BY <1>1, <1>2 DEF Lined
  <1>6. Lined(b)
    BY <1>1, <1>3, <1>4 DEF Lined, m
  <1>7. \A x \in ToSet(a) : \E i \in 1..k : x = q[i]
    BY <1>2, ElementsOf
  <1>8. \A x \in ToSet(b) : \E i \in (k + 1)..Len(q) : x = q[i]
    BY <1>1, <1>3, <1>4, ElementsOf DEF m
  <1>9. Behind(a, b)
    BY <1>1, <1>7, <1>8 DEF Behind, Lined
  <1>10. ASSUME NEW x, x \in ToSet(q) PROVE x \in ToSet(a) \cup ToSet(b)
    <2>1. PICK i \in 1..Len(q) : q[i] = x
      BY <1>10, ElementsOf
    <2>2. CASE i <= k
      <3>1. i \in 1..Len(a) /\ a[i] = x
        BY <1>2, <2>1, <2>2
      <3> QED BY <3>1, <1>2, ElementsOf
    <2>3. CASE i > k
      <3>1. i - k \in 1..Len(b) /\ b[i - k] = x
        BY <1>1, <1>3, <2>1, <2>3 DEF m
      <3> QED BY <3>1, <1>3, ElementsOf
    <2> QED BY <2>2, <2>3
  <1>11. ASSUME NEW x, x \in ToSet(a) \cup ToSet(b) PROVE x \in ToSet(q)
    BY <1>1, <1>7, <1>8, <1>11, ElementsOf
  <1>12. a # <<>>
    BY <1>2
  <1> QED BY <1>2, <1>3, <1>5, <1>6, <1>7, <1>9, <1>10, <1>11, <1>12 DEF a, b

\* The first of a line is taken.
LEMMA LinedTail ==
  ASSUME NEW S, NEW q \in Seq(S), Lined(q), q # <<>>
  PROVE  /\ Head(q) \in S /\ Tail(q) \in Seq(S) /\ Lined(Tail(q))
         /\ ToSet(q) = {Head(q)} \cup ToSet(Tail(q))
         /\ \A y \in ToSet(Tail(q)) : Follows(Head(q), y)
         /\ Tail(q) = SubSeq(q, 2, Len(q)) /\ Len(q) \in Nat \ {0} /\ Head(q) = q[1]
  <1>1. /\ Head(q) \in S /\ Tail(q) \in Seq(S) /\ Head(q) = q[1] /\ Len(q) \in Nat \ {0}
        /\ Tail(q) = SubSeq(q, 2, Len(q))
    BY HeadTailProperties, TailIsSubSeq, EmptySeq
  <1>2. 1 \in 1..Len(q)
    BY <1>1
  <1>3. LET a == SubSeq(q, 1, 1)
            b == SubSeq(q, 1 + 1, Len(q))
        IN /\ Lined(b) /\ Behind(a, b) /\ ToSet(q) = ToSet(a) \cup ToSet(b)
           /\ \A x \in ToSet(a) : \E i \in 1..1 : x = q[i]
           /\ a # <<>> /\ a \in Seq(S)
    BY <1>2, LinedCut
  <1>4. ToSet(SubSeq(q, 1, 1)) = {q[1]}
    <2> DEFINE a == SubSeq(q, 1, 1)
    <2>1. \A x \in ToSet(a) : x = q[1]
      BY <1>3
    <2>2. a \in Seq(S) /\ Len(a) \in Nat \ {0}
      BY <1>3, EmptySeq
    <2> HIDE DEF a
    <2>3. 1 \in 1..Len(a)
      BY <2>2
    <2>4. a[1] \in ToSet(a)
      BY <2>2, <2>3, ElementsOf
    <2>5. ToSet(a) = {q[1]}
      BY <2>1, <2>4
    <2> QED BY <2>5 DEF a
  <1>5. SubSeq(q, 1 + 1, Len(q)) = Tail(q)
    BY <1>1
  <1>6. /\ Lined(Tail(q)) /\ Behind(SubSeq(q, 1, 1), Tail(q))
        /\ ToSet(q) = ToSet(SubSeq(q, 1, 1)) \cup ToSet(Tail(q))
    BY <1>3, <1>5
  <1>7. q[1] \in ToSet(SubSeq(q, 1, 1))
    BY <1>4
  <1>8. \A y \in ToSet(Tail(q)) : Follows(q[1], y)
    BY <1>6, <1>7 DEF Behind
  <1> QED BY <1>1, <1>4, <1>6, <1>8

-----------------------------------------------------------------------------
(* The cache                                                               *)

CacheEntry == [session : Session \cup {None}, from : Fd \cup {None}, package : 0..MaxSends,
               use : 0..MaxSends, fd : Fd \cup {None}, done : BOOLEAN, version : Fd \cup {None},
               index : Nat, asked : Fd \cup {None}, late : BOOLEAN, at : Nat]

\* The entries made so far, those in the cache, and the calls for them.
Entries ==
  /\ Used = 1..Cardinality(Used)
  /\ \A e \in Used :
       /\ entry[e].session \in Session /\ entry[e].from \in Fd /\ entry[e].asked \in Fd
       /\ entry[e].package \in 1..sends /\ entry[e].use \in 1..sends
       /\ entry[e].done => entry[e].fd = None
       /\ ~ entry[e].done => entry[e].fd = entry[e].asked /\ ~ entry[e].late
       /\ \A d \in Used : entry[d].package = entry[e].package => d = e
  /\ \A s \in Session : response[s] # None =>
       response[s] \in Used /\ entry[response[s]].session = s
  /\ \A c \in calls :
       /\ c.kind = "request" => c.of \in Used /\ ~ entry[c.of].done
       /\ c.kind = "heartbeat" => c.of \in Fd
       /\ \A b \in calls : b.kind = "request" /\ c.kind = "request" /\ b.of = c.of => b = c

\* Packages that are pending have numbers of their own, larger than those of
\* the requests of their connection that went to the agent.
Order ==
  /\ InOrder
  /\ \A p, q \in Pending : p.n = q.n /\ p.n # 0 => p = q
  /\ \A p \in Pending :
       /\ \A e \in Used : entry[e].package # p.n /\ (entry[e].from = p.fd => entry[e].package < p.n)
       /\ p.kind = "hello" => ~ connection[p.fd]
  /\ \A f \in Fd : connection[f] => state[f] # "new"
  /\ \A e \in Used : state[entry[e].from] # "new"

\* The index of a cached answer is behind the user's, and no further than
\* answers have been made since.
RecentAt(e) ==
  /\ entry[e].index < user.index
  /\ answers - entry[e].at >= user.index - entry[e].index - 1
  /\ answers >= entry[e].at
Recent == \A s \in Session, d \in Entry : response[s] = d /\ entry[d].done => RecentAt(d)

IInv == FlowInv /\ Entries /\ Order /\ Recent

-----------------------------------------------------------------------------
(* What answers do to the cache                                            *)

\* A set of numbers that is not empty has a least one.
LEMMA LeastExists ==
  ASSUME NEW S, S \subseteq Nat, S # {}
  PROVE  \E i \in S : \A k \in S : i <= k
  <1> DEFINE R == OpToRel(<, Nat)
  <1>1. \A x, y \in Nat : x < y => <<x, y>> \in R
    BY DEF OpToRel
  <1>2. IsWellFoundedOn(R, Nat)
    BY NatLessThanWellFounded
  <1> HIDE DEF R
  <1>3. PICK i \in S : \A k \in S : <<k, i>> \notin R
    BY <1>2, WFMin
  <1>4. \A k \in S : ~ k < i
    BY <1>1, <1>3
  <1> QED BY <1>3, <1>4

\* And a greatest one, if it is bounded.
LEMMA MaxOf ==
  ASSUME NEW b \in Nat, NEW S, S \subseteq 0..b, S # {}
  PROVE  Max(S) \in S /\ \A y \in S : y <= Max(S)
  <1> DEFINE T == {k \in 0..b : b - k \in S}
  <1>1. T \subseteq Nat /\ T # {}
    <2>1. PICK x \in S : TRUE
      OBVIOUS
    <2>2. b - x \in T
      BY <2>1
    <2> QED BY <2>2
  <1>2. PICK i \in T : \A k \in T : i <= k
    BY <1>1, LeastExists
  <1>3. b - i \in S
    BY <1>2
  <1>4. ASSUME NEW y \in S PROVE b - i >= y
    <2>1. b - y \in T
      BY <1>4
    <2>2. i <= b - y
      BY <1>2, <2>1
    <2> QED BY <1>2, <2>2
  <1> DEFINE G(x) == \A y \in S : x >= y
  <1>5. \E x \in S : G(x)
    BY <1>3, <1>4
  <1>6. Max(S) = CHOOSE x \in S : G(x)
    BY DEF Max
  <1> HIDE DEF G
  <1>7. Max(S) \in S /\ G(Max(S))
    BY <1>5, <1>6
  <1> QED BY <1>7 DEF G

\* Two entries differ at most in their index.
Same(a, b) ==
  /\ a.session = b.session /\ a.from = b.from /\ a.package = b.package /\ a.use = b.use
  /\ a.fd = b.fd /\ a.done = b.done /\ a.version = b.version
  /\ a.asked = b.asked /\ a.late = b.late /\ a.at = b.at

LEMMA Typed ==
  ASSUME TypeOK
  PROVE  /\ entry \in [Entry -> CacheEntry] /\ response \in [Session -> Entry \cup {None}]
         /\ user \in [online : BOOLEAN, version : Fd \cup {None}, index : Nat, fd : Fd \cup {None}]
         /\ answers \in Nat
  BY DEF TypeOK, CacheEntry

\* retire_response removes no answer but those with an index that is more than
\* expired_number behind, and shifts the others with the user's.
Retires(u, t) ==
  /\ user' = [u EXCEPT !.index = user'.index] /\ user'.index \in Nat
  /\ entry' \in [Entry -> CacheEntry] /\ \A d \in Entry : Same(entry'[d], t[d])
  /\ \A d \in Entry \ Cached : entry'[d] = t[d]
  /\ response' \in [Session -> Entry \cup {None}]
  /\ \A s \in Session :
       \/ /\ response'[s] = response[s]
          /\ response[s] # None /\ t[response[s]].done /\ t[response[s]].fd = None =>
               /\ entry'[response[s]].index < user'.index
               /\ user'.index - entry'[response[s]].index <= u.index - t[response[s]].index
       \/ /\ response'[s] = None
          /\ response[s] \in Entry /\ t[response[s]].done /\ t[response[s]].fd = None
          /\ u.index - t[response[s]].index > expired_number

LEMMA Retiring ==
  ASSUME response \in [Session -> Entry \cup {None}],
         NEW t \in [Entry -> CacheEntry],
         NEW u \in [online : BOOLEAN, version : Fd \cup {None}, index : Nat, fd : Fd \cup {None}],
         \A e \in Cached : Complete(e, t) => t[e].index < u.index,
         RetireResponse(u, t)
  PROVE  Retires(u, t)
  <1>1. \A s \in Session : response[s] # None => response[s] \in Cached /\ response[s] \in Entry
    BY DEF Cached
  <1>2. /\ \A e : Complete(e, t) <=> t[e].done /\ t[e].fd = None
        /\ u.index \in Nat /\ expired_number \in Nat \ {0}
        /\ Cached \subseteq Entry /\ u = [u EXCEPT !.index = u.index]
    BY MsgAssumption DEF Complete, Cached
  <1>3. CASE u.index < expired_number * 2
    <2>1. user' = u /\ entry' = t /\ response' = response
      BY <1>3 DEF RetireResponse
    <2>2. user' = [u EXCEPT !.index = user'.index] /\ user'.index \in Nat
      BY <1>2, <2>1
    <2>3. \A d \in Entry : Same(entry'[d], t[d])
      BY <2>1 DEF Same
    <2>4. \A s \in Session : response[s] # None /\ t[response[s]].done /\ t[response[s]].fd = None =>
               /\ entry'[response[s]].index < user'.index
               /\ user'.index - entry'[response[s]].index <= u.index - t[response[s]].index
      <3>1. \A s \in Session : response[s] # None => t[response[s]].index \in Nat
        BY <1>1 DEF CacheEntry
      <3> QED BY <1>1, <1>2, <2>1, <3>1
    <2> QED BY <2>1, <2>2, <2>3, <2>4 DEF Retires
  <1>4. CASE ~ u.index < expired_number * 2
    <2> DEFINE x == expired_number
               gone == {e \in Cached : Expired(e, t)}
               kept == {e \in Cached : Complete(e, t)} \ gone
               shifted == [e \in Entry |-> IF e \in kept
                             THEN [t[e] EXCEPT !.index = @ - expired_number] ELSE t[e]]
               S == {0} \cup {shifted[e].index : e \in kept}
    <2>1. /\ entry' = shifted
          /\ response' = [s \in Session |-> IF response[s] \in gone THEN None ELSE response[s]]
          /\ user' = [u EXCEPT !.index = 1 + Max(S)]
      BY <1>4 DEF RetireResponse
    <2>2. \A e \in gone : e \in Entry /\ t[e].done /\ t[e].fd = None /\ t[e].index < x
      BY <1>2 DEF Expired
    <2>3. \A e \in kept : /\ e \in Entry /\ t[e].done /\ t[e].fd = None
                          /\ t[e].index \in Nat /\ ~ t[e].index < x /\ t[e].index < u.index
      BY <1>2 DEF Expired, CacheEntry
    <2>4. \A e \in Entry : e \in kept \/ e \in gone \/ e \notin Cached \/ ~ Complete(e, t)
      OBVIOUS
    <2>5. \A e \in Entry : /\ t[e] \in CacheEntry
                           /\ e \notin kept => shifted[e] = t[e]
                           /\ e \in kept => shifted[e] = [t[e] EXCEPT !.index = t[e].index - x]
      BY DEF CacheEntry
    <2> HIDE DEF gone, kept, shifted
    <2>6. \A e \in kept : /\ shifted[e] \in CacheEntry /\ Same(shifted[e], t[e])
                          /\ shifted[e].index = t[e].index - x
      <3> TAKE e \in kept
      <3>1. /\ shifted[e] = [t[e] EXCEPT !.index = t[e].index - x] /\ t[e] \in CacheEntry
            /\ t[e].index - x \in Nat
        BY <1>2, <2>3, <2>5
      <3> QED BY <3>1 DEF CacheEntry, Same
    <2>7. \A e \in Entry : shifted[e] \in CacheEntry /\ Same(shifted[e], t[e])
      BY <2>5, <2>6 DEF Same
    <2>8. shifted \in [Entry -> CacheEntry] /\ \A e \in Entry \ Cached : shifted[e] = t[e]
      BY <2>5, <2>7 DEF shifted, kept
    <2>9. u.index - 1 - x \in Nat
      BY <1>2, <1>4
    <2>10. S \subseteq 0..(u.index - 1 - x) /\ S # {}
      BY <1>2, <2>3, <2>6, <2>9
    <2>11. Max(S) \in S /\ \A y \in S : y <= Max(S)
      BY <2>9, <2>10, MaxOf
    <2> DEFINE m == Max(S)
    <2> HIDE DEF S
    <2>12. m \in Nat /\ m <= u.index - 1 - x
      BY <2>9, <2>10, <2>11, <1>2
    <2>13. \A e \in kept : shifted[e].index <= m
      BY <2>11 DEF S
    <2> HIDE DEF m
    <2>14. user' = [u EXCEPT !.index = 1 + m] /\ user'.index = 1 + m
      BY <2>1 DEF m, S
    <2>15. user' = [u EXCEPT !.index = user'.index] /\ user'.index \in Nat
      BY <2>12, <2>14
    <2>16. response' \in [Session -> Entry \cup {None}]
      BY <2>1
    <2>17. ASSUME NEW s \in Session, response[s] \in gone
           PROVE  /\ response'[s] = None
                  /\ response[s] \in Entry /\ t[response[s]].done /\ t[response[s]].fd = None
                  /\ u.index - t[response[s]].index > expired_number
      <3>1. t[response[s]].index \in Nat /\ response'[s] = None
        BY <2>1, <2>2, <2>17 DEF CacheEntry
      <3> QED BY <3>1, <2>2, <2>17, <1>2, <1>4
    <2>18. ASSUME NEW s \in Session, response[s] \notin gone
           PROVE  /\ response'[s] = response[s]
                  /\ response[s] # None /\ t[response[s]].done /\ t[response[s]].fd = None =>
                       /\ entry'[response[s]].index < user'.index
                       /\ user'.index - entry'[response[s]].index <= u.index - t[response[s]].index
      <3>1. response'[s] = response[s]
        BY <2>1, <2>18
      <3>2. ASSUME response[s] # None, t[response[s]].done, t[response[s]].fd = None
            PROVE  response[s] \in kept
        BY <3>2, <1>1, <1>2, <2>4, <2>18
      <3>3. ASSUME response[s] \in kept
            PROVE  /\ entry'[response[s]].index < user'.index
                   /\ user'.index - entry'[response[s]].index <= u.index - t[response[s]].index
        <4> DEFINE e == response[s]
        <4>1. /\ t[e].index \in Nat /\ shifted[e].index = t[e].index - x /\ shifted[e].index <= m
              /\ entry' = shifted /\ ~ t[e].index < x
          BY <2>1, <2>3, <2>6, <2>13, <3>3
        <4> HIDE DEF e
        <4> QED BY <4>1, <2>12, <2>14, <1>2 DEF e
      <3> QED BY <3>1, <3>2, <3>3
    <2> QED BY <2>1, <2>7, <2>8, <2>15, <2>16, <2>17, <2>18 DEF Retires
  <1> QED BY <1>3, <1>4

\* An answer is made, or made again, for the entry e, which is x by then.
Answers(e, x) ==
  /\ answers' = answers + 1
  /\ user' = [user EXCEPT !.index = user'.index] /\ user'.index \in Nat
  /\ entry' \in [Entry -> CacheEntry] /\ response' \in [Session -> Entry \cup {None}]
  /\ \A d \in Entry \ {e} : Same(entry'[d], entry[d])
  /\ \A d \in Entry \ Used : entry'[d] = entry[d]
  /\ Same(entry'[e], [x EXCEPT !.fd = None, !.at = answers'])
  /\ \A s \in Session :
       \/ response'[s] = response[s]
       \/ /\ response'[s] = None
          /\ response[s] \in Entry \ {e} /\ entry[response[s]].done
          /\ answers' - entry[response[s]].at >= expired_number
  /\ Recent'
  /\ IF connection[x.fd] THEN Answered(x.fd, x.use) ELSE UNCHANGED back

LEMMA Answering ==
  ASSUME TypeOK, Entries, Recent, NEW e \in Used,
         NEW x \in CacheEntry, x.done, x.index = user.index,
         NEW t, t = [entry EXCEPT ![e] = x], Reply(e, t)
  PROVE  Answers(e, x)
  <1> DEFINE y == [x EXCEPT !.fd = None, !.at = answers']
             t2 == [t EXCEPT ![e].fd = None, ![e].at = answers']
             u2 == [user EXCEPT !.index = @ + 1]
  <1>1. /\ answers' = answers + 1 /\ RetireResponse(u2, t2)
        /\ IF connection[t[e].fd] THEN Answered(t[e].fd, t[e].use) ELSE UNCHANGED back
    BY DEF Reply
  <1>2. /\ entry \in [Entry -> CacheEntry] /\ response \in [Session -> Entry \cup {None}]
        /\ user \in [online : BOOLEAN, version : Fd \cup {None}, index : Nat, fd : Fd \cup {None}]
        /\ answers \in Nat /\ e \in Entry
    BY Typed DEF Used
  <1>3. y \in CacheEntry /\ y.done /\ y.fd = None /\ y.index = user.index /\ y.at = answers + 1
    BY <1>1, <1>2 DEF CacheEntry
  <1>4. t2 = [entry EXCEPT ![e] = y] /\ t[e] = x
    BY <1>2
  <1>5. /\ u2 \in [online : BOOLEAN, version : Fd \cup {None}, index : Nat, fd : Fd \cup {None}]
        /\ u2.index = user.index + 1 /\ \A i : [u2 EXCEPT !.index = i] = [user EXCEPT !.index = i]
    <2>1. /\ u2 \in [online : BOOLEAN, version : Fd \cup {None}, index : Nat, fd : Fd \cup {None}]
          /\ u2.index = user.index + 1
      BY <1>2
    <2>2. user = [online |-> user.online, version |-> user.version, index |-> user.index,
                  fd |-> user.fd]
      BY <1>2
    <2>3. ASSUME NEW i PROVE [u2 EXCEPT !.index = i] = [user EXCEPT !.index = i]
      <3>1. u2 = [online |-> user.online, version |-> user.version, index |-> user.index + 1,
                  fd |-> user.fd]
        BY <2>2
      <3> HIDE DEF u2
      <3>2. [u2 EXCEPT !.index = i] = [online |-> user.online, version |-> user.version,
                                       index |-> i, fd |-> user.fd]
        BY <3>1
      <3>3. [user EXCEPT !.index = i] = [online |-> user.online, version |-> user.version,
                                         index |-> i, fd |-> user.fd]
        BY <2>2
      <3> QED BY <3>2, <3>3
    <2> QED BY <2>1, <2>3
  <1> HIDE DEF y, t2, u2
  <1>6. t2 \in [Entry -> CacheEntry] /\ t2[e] = y /\ \A d \in Entry \ {e} : t2[d] = entry[d]
    BY <1>2, <1>3, <1>4
  <1>7. \A s \in Session : response[s] # None /\ response[s] # e /\ entry[response[s]].done =>
          /\ RecentAt(response[s]) /\ response[s] \in Entry /\ entry[response[s]].fd = None
          /\ entry[response[s]].index \in Nat /\ entry[response[s]].at \in Nat
    <2>1. \A s \in Session : response[s] # None => response[s] \in Used /\ response[s] \in Entry
      BY <1>2 DEF Entries
    <2>2. \A d \in Entry : entry[d].index \in Nat /\ entry[d].at \in Nat
      BY <1>2 DEF CacheEntry
    <2> QED BY <2>1, <2>2 DEF Entries, Recent
  <1>8. user.index \in Nat
    BY <1>2
  <1>9. \A d \in Cached : Complete(d, t2) => t2[d].index < u2.index
    <2> SUFFICES ASSUME NEW d \in Cached, Complete(d, t2) PROVE t2[d].index < u2.index
      OBVIOUS
    <2>1. PICK s \in Session : d = response[s] /\ d # None
      BY DEF Cached
    <2>2. CASE d = e
      BY <2>2, <1>3, <1>5, <1>6, <1>8
    <2>3. CASE d # e
      <3>1. t2[d] = entry[d] /\ entry[d].done
        BY <2>1, <2>3, <1>2, <1>6 DEF Complete
      <3> QED BY <3>1, <2>1, <2>3, <1>5, <1>7, <1>8 DEF RecentAt
    <2> QED BY <2>2, <2>3
  <1>10. Retires(u2, t2)
    BY <1>1, <1>2, <1>5, <1>6, <1>9, Retiring
  <1>11. /\ user' = [user EXCEPT !.index = user'.index] /\ user'.index \in Nat
         /\ entry' \in [Entry -> CacheEntry] /\ \A d \in Entry : Same(entry'[d], t2[d])
         /\ response' \in [Session -> Entry \cup {None}]
    BY <1>5, <1>10 DEF Retires
  <1>12. /\ \A d \in Entry \ {e} : Same(entry'[d], entry[d])
         /\ \A d \in Entry \ Used : entry'[d] = entry[d]
         /\ Same(entry'[e], y)
    <2>1. Cached \subseteq Used /\ \A d \in Entry \ Cached : entry'[d] = t2[d]
      BY <1>10 DEF Retires, Cached, Entries
    <2> QED BY <1>2, <1>6, <1>11, <2>1
  <1>13. ASSUME NEW s \in Session
         PROVE  \/ response'[s] = response[s]
                \/ /\ response'[s] = None
                   /\ response[s] \in Entry \ {e} /\ entry[response[s]].done
                   /\ answers' - entry[response[s]].at >= expired_number
    <2> DEFINE d == response[s]
    <2>1. \/ response'[s] = d
          \/ /\ response'[s] = None
             /\ d \in Entry /\ t2[d].done /\ u2.index - t2[d].index > expired_number
      BY <1>10 DEF Retires
    <2>2. CASE /\ response'[s] = None
               /\ d \in Entry /\ t2[d].done /\ u2.index - t2[d].index > expired_number
      <3>1. d # e
        BY <2>2, <1>3, <1>5, <1>6, <1>8, MsgAssumption
      <3>2. t2[d] = entry[d] /\ d # None
        BY <2>2, <3>1, <1>6 DEF Entry, None
      <3>3. RecentAt(d) /\ entry[d].index \in Nat /\ entry[d].at \in Nat
        BY <2>2, <3>1, <3>2, <1>7
      <3> HIDE DEF d
      <3>4. answers' - entry[d].at >= expired_number
        BY <2>2, <3>2, <3>3, <1>1, <1>2, <1>5, <1>8, MsgAssumption DEF RecentAt
      <3> QED BY <2>2, <3>1, <3>2, <3>4 DEF d
    <2> QED BY <2>1, <2>2
  <1>14. Recent'
    <2> SUFFICES ASSUME NEW s \in Session, NEW d \in Entry, response'[s] = d, entry'[d].done
                 PROVE  RecentAt(d)'
      BY DEF Recent
    <2>1. response[s] = d /\ d # None
      BY <1>13 DEF Entry, None
    <2>2. t2[d].done /\ (d # e => entry[d].done) /\ Same(entry'[d], t2[d])
      BY <2>1, <1>6, <1>11 DEF Same
    <2>3. t2[d].fd = None
      BY <2>1, <2>2, <1>3, <1>6, <1>7
    <2>4. entry'[d].index < user'.index /\ user'.index - entry'[d].index <= u2.index - t2[d].index
      BY <2>1, <2>2, <2>3, <1>10 DEF Retires
    <2>5. entry'[d].index \in Nat /\ entry'[d].at \in Nat /\ entry'[d].at = t2[d].at
      BY <2>1, <2>2, <1>11 DEF CacheEntry, Same
    <2>6. CASE d = e
      <3>1. t2[d].index = user.index /\ t2[d].at = answers + 1
        BY <2>6, <1>3, <1>6
      <3>2. answers' - entry'[d].at = 0 /\ user'.index - entry'[d].index <= 1
        BY <3>1, <2>4, <2>5, <1>1, <1>2, <1>5, <1>8
      <3> QED BY <3>1, <3>2, <2>4, <2>5, <1>1, <1>2, <1>11 DEF RecentAt
    <2>7. CASE d # e
      <3>1. t2[d] = entry[d] /\ RecentAt(d) /\ entry[d].index \in Nat /\ entry[d].at \in Nat
        BY <2>1, <2>2, <2>7, <1>6, <1>7
      <3> QED BY <3>1, <2>4, <2>5, <1>1, <1>2, <1>5, <1>8, <1>11 DEF RecentAt
    <2> QED BY <2>6, <2>7
  <1> QED BY <1>1, <1>4, <1>11, <1>12, <1>13, <1>14 DEF Answers, y

\* What the two kinds of answers are made of.
Renewed(p, e) == [entry[e] EXCEPT !.fd = p.fd, !.asked = p.fd, !.version = user.version,
                                  !.index = user.index]
Ended(e) == [entry[e] EXCEPT !.done = TRUE, !.version = user.version, !.index = user.index,
                             !.late = entry[e].asked # user.version]

-----------------------------------------------------------------------------
(* What handling a package does                                            *)

Drops(p, more) == loop' = more /\ UNCHANGED <<back, conn, serverVars>>
Refuses(p, more) ==
  /\ CloseClient(p.fd) /\ handshake' = [handshake EXCEPT ![p.fd] = FALSE]
  /\ loop' = more /\ UNCHANGED <<back, connection, calls, cacheVars>>
Greets(p, more) ==
  /\ conn[p.fd] = "true" /\ Welcome(p) /\ Auth(p, more) /\ UNCHANGED <<response, entry, answers>>
Executes(p, more) ==
  /\ connection[p.fd] /\ Execute(p, more) /\ UNCHANGED <<handshake, connection>>
  /\ response[p.session] # None =>
       entry[response[p.session]].done /\ Reused(response[p.session])
Conflicts(p, more) ==
  /\ connection[p.fd] /\ response[p.session] # None
  /\ ~ entry[response[p.session]].done /\ Reused(response[p.session])
  /\ response' = [response EXCEPT ![p.session] = None]
  /\ CloseClient(p.fd) /\ loop' = more
  /\ UNCHANGED <<back, user, entry, answers, calls, handshake, connection>>
Moves(p, more) ==
  /\ connection[p.fd] /\ response[p.session] # None
  /\ ~ entry[response[p.session]].done /\ ~ Reused(response[p.session])
  /\ entry' = [entry EXCEPT ![response[p.session]] = Renewed(p, response[p.session])]
  /\ loop' = more
  /\ UNCHANGED <<back, user, response, answers, calls, conn, handshake, connection>>
Resends(p, more) ==
  /\ connection[p.fd] /\ response[p.session] # None
  /\ entry[response[p.session]].done /\ ~ Reused(response[p.session])
  /\ Reply(response[p.session],
           [entry EXCEPT ![response[p.session]] = Renewed(p, response[p.session])])
  /\ loop' = more /\ UNCHANGED <<calls, conn, handshake, connection>>

LEMMA Handling ==
  ASSUME TypeOK, Entries, NEW p \in Pkg, NEW more, Handle(p, more),
         connection[p.fd] => p.session \in Session
  PROVE  \/ Drops(p, more) \/ Refuses(p, more) \/ Greets(p, more) \/ Executes(p, more)
         \/ Conflicts(p, more) \/ Moves(p, more) \/ Resends(p, more)
  <1>1. p.fd \in Fd /\ handshake[p.fd] \in BOOLEAN /\ connection[p.fd] \in BOOLEAN
    BY DEF Pkg, TypeOK
  <1>2. \/ conn[p.fd] = "true" /\ Auth(p, more) /\ UNCHANGED <<response, entry, answers>>
        \/ connection[p.fd] /\ DoRequest(p, more) /\ UNCHANGED <<handshake, connection>>
        \/ Drops(p, more)
    BY <1>1 DEF Handle, Drops
  <1>3. CASE conn[p.fd] = "true" /\ Auth(p, more) /\ UNCHANGED <<response, entry, answers>>
    <2>1. CASE Welcome(p)
      BY <1>3, <2>1 DEF Greets
    <2>2. CASE ~ Welcome(p)
      BY <1>3, <2>2 DEF Auth, Refuses, cacheVars
    <2> QED BY <2>1, <2>2
  <1>4. CASE connection[p.fd] /\ DoRequest(p, more) /\ UNCHANGED <<handshake, connection>>
    <2> DEFINE e == response[p.session]
    <2>1. CASE e = None \/ (Reused(e) /\ entry[e].done)
      BY <1>4, <2>1 DEF DoRequest, Executes
    <2>2. CASE ~ (e = None \/ (Reused(e) /\ entry[e].done))
      <3>1. /\ loop' = more /\ UNCHANGED calls
            /\ IF Reused(e)
               THEN /\ response' = [response EXCEPT ![p.session] = None]
                    /\ CloseClient(p.fd)
                    /\ UNCHANGED <<back, user, entry, answers>>
               ELSE Resend(p, e) /\ UNCHANGED conn
        BY <1>4, <2>2 DEF DoRequest
      <3>2. e \in Entry /\ entry \in [Entry -> CacheEntry] /\ entry[e].done \in BOOLEAN
        <4>1. p.session \in Session /\ e \in Entry /\ entry \in [Entry -> CacheEntry]
          BY <1>4, <2>2, Typed
        <4> QED BY <4>1 DEF CacheEntry
      <3> HIDE DEF e
      <3>3. CASE Reused(e)
        BY <1>4, <2>2, <3>1, <3>3 DEF Conflicts, e
      <3>4. CASE ~ Reused(e)
        <4>1. /\ Resend(p, e) /\ UNCHANGED <<conn, calls>> /\ loop' = more /\ e # None
          BY <2>2, <3>1, <3>4
        <4>2. [entry EXCEPT ![e].fd = p.fd, ![e].asked = p.fd, ![e].version = user.version,
                            ![e].index = user.index]
              = [entry EXCEPT ![e] = Renewed(p, e)]
          BY <3>2 DEF Renewed
        <4>3. IF entry[e].done
              THEN Reply(e, [entry EXCEPT ![e] = Renewed(p, e)])
              ELSE /\ entry' = [entry EXCEPT ![e] = Renewed(p, e)]
                   /\ UNCHANGED <<back, user, response, answers>>
          BY <4>1, <4>2 DEF Resend
        <4>4. CASE entry[e].done
          BY <1>4, <3>4, <4>1, <4>3, <4>4 DEF Resends, e
        <4>5. CASE ~ entry[e].done
          BY <1>4, <3>4, <4>1, <4>3, <4>5 DEF Moves, e
        <4> QED BY <4>4, <4>5
      <3> QED BY <3>3, <3>4
    <2> QED BY <2>1, <2>2
  <1> QED BY <1>2, <1>3, <1>4

\* A repeated request that was answered: the answer is made again.
LEMMA Resending ==
  ASSUME TypeOK, Entries, Recent, NEW p \in Pkg, NEW more, Resends(p, more), p.session \in Session
  PROVE  LET e == response[p.session] IN
         /\ e \in Used /\ entry[e].session = p.session /\ Renewed(p, e) \in CacheEntry
         /\ Answers(e, Renewed(p, e))
  <1> DEFINE e == response[p.session]
             x == Renewed(p, e)
  <1>1. /\ e \in Used /\ e \in Entry /\ entry[e].session = p.session /\ entry[e] \in CacheEntry
        /\ entry[e].done /\ user.index \in Nat /\ user.version \in Fd \cup {None} /\ p.fd \in Fd
    BY Typed DEF Entries, Resends, Pkg
  <1> HIDE DEF e
  <1>2. x \in CacheEntry /\ x.done /\ x.index = user.index
    BY <1>1 DEF CacheEntry, Renewed
  <1>3. Reply(e, [entry EXCEPT ![e] = x])
    BY DEF Resends, e
  <1> HIDE DEF x
  <1>4. Answers(e, x)
    BY <1>1, <1>2, <1>3, Answering
  <1> QED BY <1>1, <1>2, <1>4 DEF e, x

\* The agent has answered.
LEMMA Ending ==
  ASSUME TypeOK, Entries, Recent, NEW c, Done(c)
  PROVE  /\ c.of \in Used /\ ~ entry[c.of].done /\ Ended(c.of) \in CacheEntry
         /\ Answers(c.of, Ended(c.of)) /\ Ended(c.of).fd = entry[c.of].asked
  <1> DEFINE e == c.of
             x == Ended(e)
  <1>1. /\ e \in Used /\ e \in Entry /\ entry[e] \in CacheEntry /\ ~ entry[e].done
        /\ entry[e].fd = entry[e].asked /\ entry \in [Entry -> CacheEntry]
        /\ user.index \in Nat /\ user.version \in Fd \cup {None}
    <2>1. e \in Used /\ ~ entry[e].done
      BY DEF Entries, Done
    <2> QED BY <2>1, Typed DEF Used, Entries
  <1>2. Reply(e, [entry EXCEPT ![e].done = TRUE, ![e].version = user.version,
                    ![e].index = user.index, ![e].late = entry[e].asked # user.version])
    BY DEF Done
  <1> HIDE DEF e
  <1>3. x \in CacheEntry /\ x.done /\ x.index = user.index /\ x.fd = entry[e].asked
    BY <1>1 DEF CacheEntry, Ended
  <1>4. [entry EXCEPT ![e].done = TRUE, ![e].version = user.version, ![e].index = user.index,
                      ![e].late = entry[e].asked # user.version] = [entry EXCEPT ![e] = x]
    BY <1>1 DEF Ended
  <1> HIDE DEF x
  <1>5. Answers(e, x)
    BY <1>1, <1>2, <1>3, <1>4, Answering
  <1> QED BY <1>1, <1>3, <1>5 DEF e, x

\* A new request gets the entry behind the last one; there is room for it.
LEMMA Counting ==
  ASSUME TypeOK, Entries, NEW n \in 1..sends, \A e \in Used : entry[e].package # n
  PROVE  LET e == Cardinality(Used) + 1
         IN Cardinality(Used) \in Nat /\ e \in Entry /\ e \notin Used /\ Used = 1..(e - 1)
  <1>1. sends \in Nat /\ sends <= MaxSends /\ Used \subseteq Entry /\ MaxSends \in Nat
    BY MsgAssumption DEF TypeOK, Used
  <1>2. IsFiniteSet(Entry) /\ IsFiniteSet(1..sends) /\ Cardinality(1..sends) = sends
    BY <1>1, FS_Interval DEF Entry
  <1>3. IsFiniteSet(Used) /\ Cardinality(Used) \in Nat
    BY <1>1, <1>2, FS_Subset, FS_CardinalityType
  <1> DEFINE T == (1..sends) \ {n}
             f == [e \in Used |-> entry[e].package]
  <1>4. IsFiniteSet(T) /\ Cardinality(T) = sends - 1
    BY <1>2, FS_RemoveElement
  <1>5. f \in Injection(Used, T)
    BY DEF Injection, IsInjective, Entries
  <1>6. Cardinality(Used) <= Cardinality(T)
    BY <1>4, <1>5, FS_Injection
  <1>7. Used = 1..Cardinality(Used)
    BY DEF Entries
  <1> DEFINE m == Cardinality(Used)
  <1>8. m \in Nat /\ m <= sends - 1 /\ Used = 1..m
    BY <1>3, <1>4, <1>6, <1>7
  <1> HIDE DEF m
  <1>9. m + 1 \in Entry /\ m + 1 \notin Used /\ Used = 1..((m + 1) - 1)
    BY <1>1, <1>8 DEF Entry
  <1> QED BY <1>8, <1>9 DEF m

-----------------------------------------------------------------------------
(* Packages stay in line                                                   *)

LEMMA Unreads ==
  ASSUME Flow
  PROVE  /\ Unread \subseteq Pkg /\ Pending \subseteq Pkg
         /\ \A f \in Fd : wire[f] \in Seq(Pkg) /\ ToSet(wire[f]) \subseteq Unread
         /\ ToSet(queue) \subseteq Pending
  <1>1. queue \in Seq(Pkg) /\ \A f \in Fd : wire[f] \in Seq(Pkg)
    BY DEF Flow
  <1>2. ToSet(queue) \subseteq Pkg /\ \A f \in Fd : ToSet(wire[f]) \subseteq Pkg
    BY <1>1, ElementsOf
  <1> QED BY <1>1, <1>2 DEF Unread, Pending, Flow

\* k packages of connection f are read: they are the first of it, and what is
\* left on all connections may stand behind them.
LEMMA Reading ==
  ASSUME FlowInv, NEW f \in Fd, NEW k \in Nat \ {0}, Readable(f, k), Taken(f, k)
  PROVE  LET a == SubSeq(wire[f], 1, k)
         IN /\ a \in Seq(Pkg) /\ Lined(a) /\ a # <<>>
            /\ ToSet(a) \subseteq Pending /\ ToSet(a) \subseteq ToSet(wire[f])
            /\ wire' \in [Fd -> Seq(Pkg)]
            /\ \A g \in Fd : /\ Lined(wire'[g]) /\ ToSet(wire'[g]) \subseteq ToSet(wire[g])
                             /\ Behind(a, wire'[g])
            /\ a[1] = Head(wire[f]) /\ Head(wire[f]) \in ToSet(a)
            /\ k = 1 => a = <<Head(wire[f])>>
  <1> DEFINE q == wire[f]
             a == SubSeq(q, 1, k)
             b == SubSeq(q, k + 1, Len(q))
  <1>1. /\ q \in Seq(Pkg) /\ Lined(q) /\ k \in 1..Len(q) /\ wire \in [Fd -> Seq(Pkg)]
        /\ \A i \in 1..k : q[i].kind # "eof"
        /\ InTurn => \A g \in 1..(f - 1) : wire[g] = <<>> \/ wire[g] = <<Eof(g)>>
    BY DEF FlowInv, Flow, Readable
  <1>2. /\ a \in Seq(Pkg) /\ b \in Seq(Pkg) /\ Lined(a) /\ Lined(b) /\ Behind(a, b)
        /\ ToSet(q) = ToSet(a) \cup ToSet(b)
        /\ \A x \in ToSet(a) : \E i \in 1..k : x = q[i]
        /\ a # <<>>
    BY <1>1, LinedCut
  <1>3. wire' = [wire EXCEPT ![f] = b]
    BY DEF Taken
  <1>4. /\ Len(q) \in Nat /\ \A i \in 1..Len(q) : q[i] \in Pkg /\ q[i] \in ToSet(q)
    BY <1>1, ElementsOf, LenProperties, ElementOfSeq
  <1>5. \A x \in ToSet(a) : x.kind # "eof" /\ x.fd = f /\ x \in ToSet(q) /\ x \in Pkg
    BY <1>1, <1>2, <1>4 DEF FlowInv, Flow
  <1>6. /\ a[1] = q[1] /\ Len(a) = k /\ Head(q) = q[1]
    BY <1>1, <1>4, SubSeqProperties
  <1>7. Head(q) \in ToSet(a)
    <2>1. 1 \in 1..Len(a) /\ a[1] = Head(q) /\ a \in Seq(Pkg)
      BY <1>2, <1>6
    <2> HIDE DEF a
    <2>2. a[1] \in ToSet(a)
      BY <2>1, ElementsOf
    <2> QED BY <2>1, <2>2
  <1>8. k = 1 => a = <<Head(q)>>
    <2> SUFFICES ASSUME k = 1 PROVE a = <<Head(q)>>
      OBVIOUS
    <2>1. <<Head(q)>> \in Seq(Pkg) /\ Len(<<Head(q)>>) = 1 /\ <<Head(q)>>[1] = Head(q)
      BY <1>5, <1>7
    <2>2. Len(a) = 1 /\ a[1] = Head(q) /\ a \in Seq(Pkg)
      BY <1>2, <1>6
    <2> DEFINE r == <<Head(q)>>
    <2> HIDE DEF a, q, r
    <2>3. r \in Seq(Pkg) /\ Len(r) = 1 /\ r[1] = Head(q)
      BY <2>1 DEF r
    <2>4. Len(a) = Len(r) /\ \A i \in 1..Len(a) : a[i] = r[i]
      BY <2>2, <2>3
    <2>5. a = r
      BY <2>2, <2>3, <2>4, SeqEqual
    <2> QED BY <2>5 DEF r
  <1> HIDE DEF a, b, q
  <1>9. wire' \in [Fd -> Seq(Pkg)] /\ wire'[f] = b /\ \A g \in Fd \ {f} : wire'[g] = wire[g]
    BY <1>1, <1>2, <1>3
  <1>10. ASSUME NEW g \in Fd
         PROVE  Lined(wire'[g]) /\ ToSet(wire'[g]) \subseteq ToSet(wire[g]) /\ Behind(a, wire'[g])
    <2>1. CASE g = f
      BY <2>1, <1>2, <1>9 DEF q
    <2>2. CASE g # f
      <3>1. wire'[g] = wire[g] /\ Lined(wire[g]) /\ \A y \in ToSet(wire[g]) : y.fd = g
        BY <2>2, <1>9 DEF FlowInv, Flow
      <3>2. ASSUME InTurn, g < f, NEW y \in ToSet(wire[g]) PROVE y.kind = "eof"
        <4>1. wire[g] = <<>> \/ wire[g] = <<Eof(g)>>
          BY <1>1, <3>2 DEF Fd
        <4>2. wire[g] # <<>>
          BY <3>2, NoElements
        <4>3. Eof(g) \in Pkg /\ Eof(g).kind = "eof"
          BY DEF Pkg, Eof, Package
        <4>4. ToSet(wire[g]) = {Eof(g)}
          BY <4>1, <4>2, <4>3, OnlyElement
        <4> QED BY <4>3, <4>4
      <3>3. \A x \in ToSet(a), y \in ToSet(wire[g]) : Follows(x, y)
        BY <1>5, <2>2, <3>1, <3>2 DEF Follows, Fd
      <3> QED BY <3>1, <3>3 DEF Behind
    <2> QED BY <2>1, <2>2
  <1>11. ToSet(a) \subseteq Pending
    BY <1>5 DEF Pending, Unread, q
  <1> QED BY <1>2, <1>5, <1>6, <1>7, <1>8, <1>9, <1>10, <1>11 DEF a, q

\* What is on its way is what was, or less.
Fewer ==
  /\ wire' \in [Fd -> Seq(Pkg)] /\ queue' \in Seq(Pkg)
  /\ Lined(queue') /\ \A f \in Fd : Lined(wire'[f]) /\ Behind(queue', wire'[f])
  /\ ToSet(queue') \subseteq Pending
  /\ \A f \in Fd : ToSet(wire'[f]) \subseteq ToSet(wire[f])

LEMMA FewerFlow ==
  ASSUME FlowInv, Fewer, UNCHANGED <<state, sends>>
  PROVE  Flow' /\ Unread' \subseteq Unread /\ Pending' \subseteq Pending
  <1>1. /\ ToSet(queue)' = ToSet(queue') /\ \A f \in Fd : ToSet(wire[f])' = ToSet(wire'[f])
        /\ Lined(queue)' = Lined(queue')
        /\ \A f \in Fd : /\ Lined(wire[f])' = Lined(wire'[f])
                         /\ Behind(queue, wire[f])' = Behind(queue', wire'[f])
    BY DEF ToSet, Lined, Behind, Follows
  <1>2. Unread' \subseteq Unread
    BY <1>1 DEF Fewer, Unread, Pending
  <1>3. Pending' \subseteq Pending
    BY <1>2 DEF Pending
  <1>4. wire' \in [Fd -> Seq(Pkg)] /\ queue' \in Seq(Pkg)
    BY DEF Fewer
  <1>5. \A f \in Fd : \A p \in ToSet(wire'[f]) : p.fd = f
    BY DEF Fewer, FlowInv, Flow
  <1>6. \A p \in ToSet(queue') : p.kind # "eof"
    BY DEF Fewer, Pending
  <1>7. \A p \in Unread' : state'[p.fd] # "new" /\ p.n <= sends' /\ p.use <= sends'
    BY <1>2 DEF FlowInv, Flow
  <1>8. Lined(queue') /\ \A f \in Fd : Lined(wire'[f]) /\ Behind(queue', wire'[f])
    BY DEF Fewer
  <1> QED BY <1>1, <1>2, <1>3, <1>4, <1>5, <1>6, <1>7, <1>8 DEF Flow

\* The package p is handled: what is left may stand behind it.
Handled(p, more) ==
  /\ p \in Pending /\ Pending' \subseteq Pending /\ \A q \in Pending' : Follows(p, q)
  /\ more \in {0, loop} /\ Handle(p, more) /\ UNCHANGED clientVars

\* Packages are read and wait, or the loop ends.
Waits == UNCHANGED <<clientVars, conn, back, serverVars>> /\ loop' \in {loop, gen', 0}

LEMMA PendingLeft ==
  ASSUME NEW q \in Pending'
  PROVE  q \in ToSet(queue') \/ \E g \in Fd : q \in ToSet(wire'[g])
  BY DEF Pending, Unread, ToSet

\* What is read and put in the queue.
LEMMA Enqueuing ==
  ASSUME FlowInv, NEW f \in Fd, NEW k \in Nat \ {0}, Readable(f, k), Taken(f, k),
         queue' = queue \o SubSeq(wire[f], 1, k)
  PROVE  Fewer
  <1> DEFINE a == SubSeq(wire[f], 1, k)
  <1>1. /\ a \in Seq(Pkg) /\ Lined(a) /\ ToSet(a) \subseteq Pending
        /\ ToSet(a) \subseteq ToSet(wire[f]) /\ wire' \in [Fd -> Seq(Pkg)]
        /\ \A g \in Fd : /\ Lined(wire'[g]) /\ ToSet(wire'[g]) \subseteq ToSet(wire[g])
                         /\ Behind(a, wire'[g])
    BY Reading
  <1>2. queue' = queue \o a
    OBVIOUS
  <1> HIDE DEF a
  <1>3. queue \in Seq(Pkg) /\ Lined(queue) /\ \A g \in Fd : Behind(queue, wire[g])
    BY DEF FlowInv, Flow
  <1>4. Behind(queue, a)
    BY <1>1, <1>3 DEF Behind
  <1>5. queue' \in Seq(Pkg) /\ ToSet(queue') = ToSet(queue) \cup ToSet(a) /\ Lined(queue')
    <2>1. /\ queue \o a \in Seq(Pkg) /\ ToSet(queue \o a) = ToSet(queue) \cup ToSet(a)
          /\ Lined(queue \o a)
      BY <1>1, <1>3, <1>4, LinedConcat
    <2> QED BY <2>1, <1>2
  <1>6. ToSet(queue) \subseteq Pending
    BY Unreads DEF FlowInv
  <1>7. \A g \in Fd : Behind(queue', wire'[g])
    BY <1>1, <1>3, <1>5 DEF Behind
  <1> QED BY <1>1, <1>5, <1>6, <1>7 DEF Fewer

LEMMA GateReads ==
  ASSUME FlowInv, More \/ \E f \in Fd : Read(f)
  PROVE  /\ Fewer /\ UNCHANGED clientVars
         /\ Waits \/ \E p \in Pending : \E more \in {0, loop} : Handled(p, more)
  <1>1. ASSUME NEW f \in Fd, ReadOne(f), queue = <<>>
        PROVE  Fewer /\ Handled(Head(wire[f]), 0) /\ Head(wire[f]) \in Pending
    <2> DEFINE a == SubSeq(wire[f], 1, 1)
               p == Head(wire[f])
    <2>1. Readable(f, 1) /\ Taken(f, 1) /\ Handle(p, 0) /\ queue' = <<>> /\ UNCHANGED clientVars
      BY <1>1 DEF ReadOne
    <2>2. /\ wire' \in [Fd -> Seq(Pkg)] /\ ToSet(a) \subseteq Pending /\ p \in ToSet(a)
          /\ \A g \in Fd : /\ Lined(wire'[g]) /\ ToSet(wire'[g]) \subseteq ToSet(wire[g])
                           /\ Behind(a, wire'[g])
      <3>1. 1 \in Nat \ {0}
        OBVIOUS
      <3> QED BY <2>1, <3>1, Reading
    <2> HIDE DEF a, p
    <2>3. Fewer
      BY <2>1, <2>2, NoElements DEF Fewer, Behind
    <2>4. Pending' \subseteq Pending
      BY <2>1, <2>3, FewerFlow DEF clientVars
    <2>5. ASSUME NEW q \in Pending' PROVE Follows(p, q)
      <3>1. PICK g \in Fd : q \in ToSet(wire'[g])
        BY <2>1, PendingLeft, NoElements
      <3> QED BY <2>2, <3>1 DEF Behind
    <2> QED BY <2>1, <2>2, <2>3, <2>4, <2>5 DEF Handled, p
  <1>2. ASSUME NEW f \in Fd, ReadOne(f), queue # <<>>
        PROVE  Fewer /\ Waits /\ UNCHANGED clientVars
    <2>1. /\ Readable(f, 1) /\ Taken(f, 1) /\ queue' = queue \o <<Head(wire[f])>>
          /\ UNCHANGED <<conn, loop, back, serverVars>> /\ UNCHANGED clientVars
      BY <1>2 DEF ReadOne, Pushed
    <2>2. SubSeq(wire[f], 1, 1) = <<Head(wire[f])>>
      BY <2>1, Reading
    <2>3. Fewer
      BY <2>1, <2>2, Enqueuing
    <2> QED BY <2>1, <2>3 DEF Waits
  <1>3. ASSUME NEW f \in Fd, NEW k \in 2..Len(wire[f]), ReadMore(f, k)
        PROVE  Fewer /\ Waits /\ UNCHANGED clientVars
    <2>1. /\ Readable(f, k) /\ Taken(f, k) /\ queue' = queue \o SubSeq(wire[f], 1, k)
          /\ UNCHANGED <<clientVars, conn, back, serverVars>> /\ loop' = gen'
      BY <1>3 DEF ReadMore, Pushed
    <2>2. wire[f] \in Seq(Pkg)
      BY DEF FlowInv, Flow
    <2>3. k \in Nat \ {0}
      BY <1>3, <2>2, LenProperties
    <2>4. Fewer
      BY <2>1, <2>3, Enqueuing
    <2> QED BY <2>1, <2>4 DEF Waits
  <1>4. ASSUME More, loop = gen, queue # <<>>
        PROVE  /\ Fewer /\ UNCHANGED clientVars /\ Handled(Head(queue), loop)
               /\ Head(queue) \in Pending
    <2> DEFINE p == Head(queue)
    <2>1. /\ queue' = Tail(queue) /\ Handle(p, loop) /\ wire' = wire /\ UNCHANGED clientVars
      BY <1>4 DEF More
    <2>2. queue \in Seq(Pkg) /\ Lined(queue) /\ wire \in [Fd -> Seq(Pkg)]
          /\ \A f \in Fd : Lined(wire[f]) /\ Behind(queue, wire[f])
      BY DEF FlowInv, Flow
    <2>3. /\ queue' \in Seq(Pkg) /\ Lined(queue') /\ ToSet(queue) = {p} \cup ToSet(queue')
          /\ \A y \in ToSet(queue') : Follows(p, y)
      BY <1>4, <2>1, <2>2, LinedTail
    <2> HIDE DEF p
    <2>4. ToSet(queue) \subseteq Pending
      BY Unreads DEF FlowInv
    <2>5. \A f \in Fd : Behind(queue', wire'[f])
      BY <2>1, <2>2, <2>3 DEF Behind
    <2>6. Fewer
      BY <2>1, <2>2, <2>3, <2>4, <2>5 DEF Fewer
    <2>7. Pending' \subseteq Pending
      BY <2>1, <2>6, FewerFlow DEF clientVars
    <2>8. ASSUME NEW q \in Pending' PROVE Follows(p, q)
      <3>1. q \in ToSet(queue') \/ \E g \in Fd : q \in ToSet(wire'[g])
        BY PendingLeft
      <3> QED BY <3>1, <2>1, <2>2, <2>3 DEF Behind
    <2> QED BY <2>1, <2>3, <2>4, <2>6, <2>7, <2>8 DEF Handled, p
  <1>5. ASSUME More, ~ (loop = gen /\ queue # <<>>)
        PROVE  Fewer /\ Waits /\ UNCHANGED clientVars
    <2>1. /\ UNCHANGED <<queue, wire>> /\ UNCHANGED <<clientVars, conn, back, serverVars>>
          /\ loop' = 0
      BY <1>5 DEF More
    <2>2. ToSet(queue) \subseteq Pending
      BY Unreads DEF FlowInv
    <2> QED BY <2>1, <2>2 DEF Fewer, Waits, FlowInv, Flow
  <1>6. CASE More
    BY <1>4, <1>5, <1>6
  <1>7. ASSUME NEW f \in Fd, Read(f)
        PROVE  /\ Fewer /\ UNCHANGED clientVars
               /\ Waits \/ \E p \in Pending : \E more \in {0, loop} : Handled(p, more)
    <2>1. CASE ReadOne(f)
      <3>1. UNCHANGED clientVars
        BY <2>1 DEF ReadOne
      <3> QED BY <1>1, <1>2, <2>1, <3>1
    <2>2. CASE \E k \in 2..Len(wire[f]) : ReadMore(f, k)
      BY <1>3, <2>2
    <2> QED BY <1>7, <2>1, <2>2 DEF Read
  <1> QED BY <1>6, <1>7

\* A package of the client goes behind what is on its way, on the connection
\* that is the newest; or it is the end of one.
LEMMA Appending ==
  ASSUME FlowInv, NEW f \in Fd, NEW p \in Pkg, p.fd = f, Sends(f, p), UNCHANGED queue,
         \/ p.kind = "eof"
         \/ /\ \A g \in Fd : g > f => state[g] = "new"
            /\ \A x \in Unread : x.n < p.n,
         sends' \in Nat, sends <= sends', p.n <= sends', p.use <= sends',
         \A g \in Fd : state[g] # "new" => state'[g] # "new", state[f] # "new"
  PROVE  Flow' /\ Unread' \subseteq Unread \cup {p}
  <1> DEFINE q == wire[f]
  <1>1. /\ wire \in [Fd -> Seq(Pkg)] /\ q \in Seq(Pkg) /\ Lined(q) /\ Lined(queue)
        /\ \A g \in Fd : Lined(wire[g]) /\ Behind(queue, wire[g])
    BY DEF FlowInv, Flow
  <1>2. /\ ToSet(queue)' = ToSet(queue') /\ \A g \in Fd : ToSet(wire[g])' = ToSet(wire'[g])
        /\ Lined(queue)' = Lined(queue')
        /\ \A g \in Fd : /\ Lined(wire[g])' = Lined(wire'[g])
                         /\ Behind(queue, wire[g])' = Behind(queue', wire'[g])
    BY DEF ToSet, Lined, Behind, Follows
  <1>3. sends \in Nat /\ \A x \in Unread : x.n <= sends /\ x.use <= sends
    BY DEF FlowInv, Flow, TypeOK
  <1>4. \A x \in Unread : Follows(x, p)
    <2>1. CASE p.kind = "eof"
      BY <2>1 DEF Follows
    <2>2. CASE /\ \A g \in Fd : g > f => state[g] = "new"
               /\ \A x \in Unread : x.n < p.n
      <3>1. \A x \in Unread : x \in Pkg /\ x.fd \in Fd /\ state[x.fd] # "new"
        BY Unreads DEF FlowInv, Flow, Pkg
      <3>2. \A x \in Unread : x.fd <= f
        BY <2>2, <3>1 DEF Fd
      <3> QED BY <2>2, <3>2 DEF Follows
    <2> QED BY <2>1, <2>2
  <1>5. ToSet(q) \subseteq Unread /\ ToSet(queue) \subseteq Unread
    BY DEF Unread
  <1>6. /\ Append(q, p) \in Seq(Pkg) /\ ToSet(Append(q, p)) = ToSet(q) \cup {p}
        /\ Lined(Append(q, p))
    BY <1>1, <1>4, <1>5, LinedAppend
  <1>7. wire' = wire \/ wire' = [wire EXCEPT ![f] = Append(q, p)]
    BY DEF Sends
  <1> HIDE DEF q
  <1>8. /\ wire' \in [Fd -> Seq(Pkg)]
        /\ \A g \in Fd : \/ wire'[g] = wire[g]
                         \/ g = f /\ wire'[g] = Append(q, p)
    BY <1>1, <1>6, <1>7
  <1>9. \A g \in Fd : /\ Lined(wire'[g]) /\ \A x \in ToSet(wire'[g]) : x.fd = g
                      /\ ToSet(wire'[g]) \subseteq Unread \cup {p}
    <2>1. \A g \in Fd : /\ Lined(wire[g]) /\ \A x \in ToSet(wire[g]) : x.fd = g
                         /\ ToSet(wire[g]) \subseteq Unread
      BY DEF FlowInv, Flow, Unread
    <2>2. /\ \A x \in ToSet(Append(q, p)) : x.fd = f
          /\ ToSet(Append(q, p)) \subseteq Unread \cup {p}
      BY <1>5, <1>6, <2>1 DEF q
    <2> QED BY <1>6, <1>8, <2>1, <2>2
  <1>10. \A g \in Fd : Behind(queue', wire'[g])
    BY <1>1, <1>4, <1>5, <1>6, <1>8 DEF Behind, q
  <1>11. Unread' \subseteq Unread \cup {p}
    BY <1>2, <1>5, <1>9 DEF Unread
  <1>12. \A x \in Unread \cup {p} : state'[x.fd] # "new" /\ x.n <= sends' /\ x.use <= sends'
    <2>1. \A x \in Unread : x \in Pkg /\ x.fd \in Fd /\ state[x.fd] # "new" /\ x.n \in Nat /\ x.use \in Nat
      BY Unreads DEF FlowInv, Flow, Pkg
    <2> QED BY <1>3, <2>1
  <1>13. \A x \in ToSet(queue') : x.kind # "eof"
    BY DEF FlowInv, Flow
  <1>14. queue' \in Seq(Pkg) /\ Lined(queue')
    BY <1>1 DEF FlowInv, Flow
  <1> QED BY <1>2, <1>8, <1>9, <1>10, <1>11, <1>12, <1>13, <1>14 DEF Flow

\* Numbers of packages.
LEMMA Numbers ==
  ASSUME FlowInv, NEW p \in Pkg
  PROVE  /\ p.fd \in Fd /\ p.n \in Nat /\ p.use \in Nat
         /\ p.kind = "request" => p.session \in Session /\ p.n \in 1..MaxSends /\ p.use \in 1..MaxSends
         /\ p.kind # "request" => p.n = 0
         /\ p.kind \in {"hello", "eof", "request"}
  BY MsgAssumption DEF Pkg

LEMMA FlowStep ==
  ASSUME FlowInv, Next
  PROVE  /\ Flow'
         /\ \/ Pending' \subseteq Pending
            \/ \E f \in Fd : Open(f) /\ Pending' \subseteq Pending \cup {Hello(f)}
            \/ \E f \in Fd, s \in Session :
                 /\ Request(f, s) /\ Pending' \subseteq Pending \cup
                                       {Package(f, "request", s, sends + 1, sends + 1)}
            \/ \E f \in Fd, s \in Session :
                 /\ Repeat(f, s) /\ Pending' \subseteq Pending \cup
                                       {Package(f, "request", s, sends + 1, asked[s].use)}
  <1> USE DEF FlowInv
  <1>1. /\ sends \in Nat /\ MaxSends \in Nat /\ sends <= MaxSends
        /\ state \in [Fd -> {"new", "hello", "ok", "closed"}]
        /\ asked \in [Session -> [use : 0..MaxSends, first : Fd \cup {None}, fd : Fd \cup {None},
                                  answered : BOOLEAN]]
    BY MsgAssumption DEF TypeOK
  <1>2. CASE More \/ \E f \in Fd : Read(f)
    BY <1>2, GateReads, FewerFlow DEF clientVars
  <1>3. ASSUME UNCHANGED <<wire, queue, sends>>, \A g \in Fd : state[g] # "new" => state'[g] # "new"
        PROVE  Flow' /\ Pending' \subseteq Pending
    <2>1. Unread' = Unread
      BY <1>3 DEF Unread, ToSet
    <2>2. \A x \in Unread : x.fd \in Fd
      BY Unreads, Numbers
    <2>3. \A x \in Unread' : state'[x.fd] # "new" /\ x.n <= sends' /\ x.use <= sends'
      BY <1>3, <2>1, <2>2 DEF Flow
    <2>4. /\ wire' \in [Fd -> Seq(Pkg)] /\ queue' \in Seq(Pkg)
          /\ Lined(queue)' /\ \A f \in Fd : Lined(wire[f])' /\ Behind(queue, wire[f])'
          /\ \A p \in ToSet(queue)' : p.kind # "eof"
          /\ \A f \in Fd : \A p \in ToSet(wire[f])' : p.fd = f
      BY <1>3 DEF Flow, Lined, Behind, Follows, ToSet
    <2> QED BY <2>1, <2>3, <2>4 DEF Flow, Pending
  <1>4. ASSUME NEW f \in Fd, Close(f)
        PROVE  Flow' /\ Pending' \subseteq Pending
    <2>1. wire' = [wire EXCEPT ![f] = <<>>] /\ UNCHANGED <<queue, state, sends>>
      BY <1>4 DEF Close, clientVars
    <2>2. /\ wire \in [Fd -> Seq(Pkg)] /\ queue \in Seq(Pkg) /\ Lined(queue)
          /\ \A g \in Fd : Lined(wire[g]) /\ Behind(queue, wire[g])
      BY DEF Flow
    <2>3. <<>> \in Seq(Pkg) /\ ToSet(<<>>) = {} /\ Lined(<<>>)
      BY NoElements
    <2>4. /\ wire' \in [Fd -> Seq(Pkg)]
          /\ \A g \in Fd : wire'[g] = wire[g] \/ wire'[g] = <<>>
      BY <2>1, <2>2, <2>3
    <2>5. Fewer
      BY <2>1, <2>2, <2>3, <2>4, Unreads DEF Fewer, Behind
    <2> QED BY <2>1, <2>5, FewerFlow
  <1>5. ASSUME NEW f \in Fd, Break(f)
        PROVE  Flow' /\ Pending' \subseteq Pending
    <2>1. /\ Sends(f, Eof(f)) /\ UNCHANGED <<queue, sends>> /\ state[f] # "new"
          /\ \A g \in Fd : state[g] # "new" => state'[g] # "new"
      BY <1>1, <1>5 DEF Break, gateVars, Listening
    <2>2. /\ Eof(f) \in Pkg /\ Eof(f).kind = "eof" /\ Eof(f).fd = f /\ Eof(f).n = 0 /\ Eof(f).use = 0
      BY DEF Eof, Package, Pkg
    <2>3. Flow' /\ Unread' \subseteq Unread \cup {Eof(f)}
      BY <1>1, <2>1, <2>2, Appending
    <2> QED BY <2>2, <2>3 DEF Pending
  <1>6. ASSUME NEW f \in Fd, NEW s \in Session, NEW u \in 1..MaxSends, u <= sends + 1,
               Sending(f), sends' = sends + 1, UNCHANGED <<queue, state>>,
               Sends(f, Package(f, "request", s, sends', u))
        PROVE  Flow' /\ Pending' \subseteq Pending \cup {Package(f, "request", s, sends + 1, u)}
    <2> DEFINE p == Package(f, "request", s, sends + 1, u)
    <2>1. p \in Pkg /\ p.fd = f /\ p.n = sends + 1 /\ p.use = u /\ Sends(f, p)
      BY <1>1, <1>6 DEF Package, Pkg, Sending
    <2> HIDE DEF p
    <2>2. /\ \A g \in Fd : g > f => state[g] = "new"
          /\ state[f] # "new" /\ \A g \in Fd : state[g] # "new" => state'[g] # "new"
      BY <1>6 DEF Sending
    <2>3. \A x \in Unread : x.n < p.n
      <3>1. \A x \in Unread : x.n \in Nat /\ x.n <= sends
        BY Unreads, Numbers DEF Flow
      <3> QED BY <1>1, <2>1, <3>1
    <2>4. sends' \in Nat /\ sends <= sends' /\ p.n <= sends' /\ p.use <= sends'
      BY <1>1, <1>6, <2>1
    <2>5. Flow' /\ Unread' \subseteq Unread \cup {p}
      BY <1>6, <2>1, <2>2, <2>3, <2>4, Appending
    <2>6. Pending' \subseteq Pending \cup {p}
      BY <2>5 DEF Pending
    <2> QED BY <2>5, <2>6 DEF p
  <1>7. ASSUME NEW f \in Fd, NEW s \in Session, Request(f, s)
        PROVE  Flow' /\ Pending' \subseteq Pending \cup
                          {Package(f, "request", s, sends + 1, sends + 1)}
    <2>1. /\ Sending(f) /\ sends' = sends + 1 /\ UNCHANGED <<queue, state>>
          /\ Sends(f, Package(f, "request", s, sends', sends + 1)) /\ sends + 1 \in 1..MaxSends
      BY <1>1, <1>7 DEF Request, gateVars, Sending
    <2> QED BY <2>1, <1>1, <1>6
  <1>8. ASSUME NEW f \in Fd, NEW s \in Session, Repeat(f, s)
        PROVE  Flow' /\ Pending' \subseteq Pending \cup
                          {Package(f, "request", s, sends + 1, asked[s].use)}
    <2>1. /\ Sending(f) /\ sends' = sends + 1 /\ UNCHANGED <<queue, state>>
          /\ Sends(f, Package(f, "request", s, sends', asked[s].use))
          /\ ~ asked[s].answered
      BY <1>8 DEF Repeat, gateVars
    <2>2. asked[s].use \in 1..MaxSends /\ asked[s].use <= sends + 1
      BY <1>1, <2>1 DEF Clients
    <2> QED BY <2>1, <2>2, <1>6
  <1>9. ASSUME NEW f \in Fd, Open(f)
        PROVE  Flow' /\ Pending' \subseteq Pending \cup {Hello(f)}
    <2> DEFINE h == <<Hello(f)>>
    <2>1. /\ wire' = [wire EXCEPT ![f] = h] /\ UNCHANGED <<queue, sends>>
          /\ state[f] = "new" /\ state' = [state EXCEPT ![f] = "hello"]
      BY <1>9 DEF Open
    <2>2. /\ Hello(f) \in Pkg /\ Hello(f).fd = f /\ Hello(f).n = 0 /\ Hello(f).use = 0
      BY DEF Hello, Package, Pkg
    <2>3. h \in Seq(Pkg) /\ ToSet(h) = {Hello(f)} /\ Lined(h)
      BY <2>2, OnlyElement
    <2> HIDE DEF h
    <2>4. /\ wire \in [Fd -> Seq(Pkg)] /\ queue \in Seq(Pkg) /\ Lined(queue)
          /\ \A g \in Fd : Lined(wire[g]) /\ Behind(queue, wire[g])
      BY DEF Flow
    <2>5. /\ wire' \in [Fd -> Seq(Pkg)] /\ wire'[f] = h
          /\ \A g \in Fd \ {f} : wire'[g] = wire[g]
      BY <2>1, <2>3, <2>4
    <2>6. /\ ToSet(queue)' = ToSet(queue') /\ \A g \in Fd : ToSet(wire[g])' = ToSet(wire'[g])
          /\ Lined(queue)' = Lined(queue')
          /\ \A g \in Fd : /\ Lined(wire[g])' = Lined(wire'[g])
                           /\ Behind(queue, wire[g])' = Behind(queue', wire'[g])
      BY DEF ToSet, Lined, Behind, Follows
    <2>7. \A x \in ToSet(queue) : Follows(x, Hello(f))
      <3>1. \A x \in ToSet(queue) : x.fd \in Fd /\ state[x.fd] # "new"
        BY Unreads, Numbers DEF Flow, Unread
      <3>2. \A x \in ToSet(queue) : x.fd # f /\ x.fd <= f
        BY <2>1, <3>1 DEF Clients, Fd
      <3> QED BY <2>2, <3>2 DEF Follows
    <2>8. \A g \in Fd : Lined(wire'[g]) /\ Behind(queue', wire'[g])
      BY <2>1, <2>3, <2>4, <2>5, <2>7 DEF Behind
    <2>9. Unread' \subseteq Unread \cup {Hello(f)}
      BY <2>1, <2>3, <2>5, <2>6 DEF Unread
    <2>10. \A x \in Unread \cup {Hello(f)} : state'[x.fd] # "new" /\ x.n <= sends' /\ x.use <= sends'
      <3>1. \A x \in Unread : x.fd \in Fd /\ state[x.fd] # "new" /\ x.n <= sends /\ x.use <= sends
        BY Unreads, Numbers DEF Flow
      <3> QED BY <1>1, <2>1, <2>2, <3>1
    <2>11. \A g \in Fd : \A x \in ToSet(wire'[g]) : x.fd = g
      BY <2>2, <2>3, <2>5 DEF Flow
    <2>12. \A x \in ToSet(queue') : x.kind # "eof"
      BY <2>1 DEF Flow
    <2>13. Flow'
      BY <2>1, <2>4, <2>5, <2>6, <2>8, <2>9, <2>10, <2>11, <2>12 DEF Flow
    <2> QED BY <2>9, <2>13 DEF Pending
  <1>10. CASE Return \/ Logout
    <2>1. UNCHANGED <<wire, queue, sends, state>>
      BY <1>10 DEF Return, Welcomed, Done, Logout, clientVars
    <2> QED BY <1>3, <2>1
  <1>11. ASSUME NEW f \in Fd, NEW n \in back[f], Receive(f, n)
         PROVE  Flow' /\ Pending' \subseteq Pending
    <2>1. /\ UNCHANGED <<wire, queue, sends>>
          /\ state' = state \/ state' = [state EXCEPT ![f] = "ok"]
      BY <1>11 DEF Receive, gateVars
    <2> QED BY <1>1, <1>3, <2>1
  <1> QED BY <1>2, <1>4, <1>5, <1>7, <1>8, <1>9, <1>10, <1>11 DEF Next, Serve, Notice

-----------------------------------------------------------------------------
(* The steps                                                               *)

AskPackage(f, s, u) == Package(f, "request", s, sends + 1, u)

LEMMA Steps ==
  ASSUME FlowInv, Next
  PROVE  \/ \E f \in Fd : Open(f) /\ Pending' \subseteq Pending \cup {Hello(f)}
         \/ \E f \in Fd, s \in Session :
              \/ Request(f, s) /\ Pending' \subseteq Pending \cup {AskPackage(f, s, sends + 1)}
              \/ Repeat(f, s) /\ Pending' \subseteq Pending \cup {AskPackage(f, s, asked[s].use)}
         \/ /\ Pending' \subseteq Pending
            /\ \/ \E f \in Fd : Break(f) \/ Close(f) \/ \E n \in back[f] : Receive(f, n)
               \/ Logout \/ Waits
               \/ \E c \in calls : Welcomed(c) \/ Done(c)
         \/ \E p \in Pending : \E more \in {0, loop} : Handled(p, more)
  <1>1. CASE Pending' \subseteq Pending
    <2>1. CASE More \/ \E f \in Fd : Read(f)
      BY <1>1, <2>1, GateReads
    <2> QED BY <1>1, <2>1 DEF Next, Serve, Notice, Return
  <1>2. CASE ~ (Pending' \subseteq Pending)
    BY <1>2, FlowStep DEF AskPackage
  <1> QED BY <1>1, <1>2

\* A package that is handled as a request is one.
LEMMA HandledKinds ==
  ASSUME FlowInv, Entries, Order, NEW p \in Pending, NEW more \in {0, loop}, Handled(p, more)
  PROVE  /\ p \in Pkg /\ p.kind \in {"hello", "request"} /\ p.fd \in Fd
         /\ connection[p.fd] => p.kind = "request" /\ p.session \in Session
                                /\ p.n \in 1..sends /\ p.use \in 1..sends
         /\ \/ Drops(p, more) \/ Refuses(p, more) \/ Greets(p, more) \/ Executes(p, more)
            \/ Conflicts(p, more) \/ Moves(p, more) \/ Resends(p, more)
  <1>1. p \in Pkg /\ p \in Unread /\ p.kind # "eof"
    BY Unreads DEF FlowInv, Pending
  <1>2. p.kind \in {"hello", "request"} /\ p.fd \in Fd
    BY <1>1, Numbers
  <1>3. p.n <= sends /\ p.use <= sends /\ sends \in Nat
    BY <1>1 DEF FlowInv, Flow, TypeOK
  <1>4. connection[p.fd] => p.kind = "request" /\ p.session \in Session
                            /\ p.n \in 1..sends /\ p.use \in 1..sends
    BY <1>1, <1>2, <1>3, Numbers DEF Order
  <1>5. Handle(p, more)
    BY DEF Handled
  <1> QED BY <1>1, <1>2, <1>4, <1>5, Handling DEF FlowInv

LEMMA ClientTypes ==
  ASSUME TypeOK
  PROVE  /\ state \in [Fd -> {"new", "hello", "ok", "closed"}]
         /\ asked \in [Session -> [use : 0..MaxSends, first : Fd \cup {None}, fd : Fd \cup {None},
                                   answered : BOOLEAN]]
         /\ sends \in 0..MaxSends /\ again \subseteq 1..MaxSends /\ MaxSends \in Nat
         /\ back \in [Fd -> SUBSET (0..MaxSends)]
         /\ conn \in [Fd -> {"nil", "true", "false"}]
         /\ handshake \in [Fd -> BOOLEAN] /\ connection \in [Fd -> BOOLEAN]
  BY MsgAssumption DEF TypeOK

\* Nothing but requests changes what the client asked; the state of a
\* connection is never new again.
LEMMA ClientsStep ==
  ASSUME FlowInv, Entries, Order, Recent, Next
  PROVE  Clients'
  <1> USE DEF FlowInv
  <1> DEFINE Rest == /\ \A f \in Fd : state[f] # "new" => state'[f] # "new"
                     /\ \A f \in Fd : state'[f] # "new" => state[f] # "new"
             Asked == \A s \in Session : /\ asked'[s].use <= sends'
                                         /\ ~ asked'[s].answered => asked'[s].use # 0
             Backs == \A f \in Fd : back'[f] # {} => state'[f] \in {"hello", "ok"}
  <1>1. Rest /\ Asked /\ Backs => Clients'
    BY DEF Clients, Listening
  <1>2. /\ \A f \in Fd : back[f] # {} => state[f] \in {"hello", "ok"}
        /\ \A s \in Session : asked[s].use <= sends /\ (~ asked[s].answered => asked[s].use # 0)
    BY DEF Clients, Listening
  <1>3. /\ state \in [Fd -> {"new", "hello", "ok", "closed"}] /\ sends \in Nat
        /\ asked \in [Session -> [use : 0..MaxSends, first : Fd \cup {None}, fd : Fd \cup {None},
                                  answered : BOOLEAN]]
    BY ClientTypes
  <1>4. ASSUME NEW f \in Fd, Open(f) PROVE Clients'
    <2>1. /\ state[f] = "new" /\ \A g \in 1..(f - 1) : state[g] # "new"
          /\ state' = [state EXCEPT ![f] = "hello"] /\ UNCHANGED <<asked, sends, back>>
      BY <1>4 DEF Open
    <2>2. \A g, h \in Fd : g < h /\ state'[g] = "new" => state'[h] = "new"
      <3> SUFFICES ASSUME NEW g \in Fd, NEW h \in Fd, g < h, state'[g] = "new"
                   PROVE  state'[h] = "new"
        OBVIOUS
      <3>1. g # f /\ state[g] = "new" /\ state[h] = "new"
        BY <1>3, <2>1 DEF Clients
      <3>2. h # f
        BY <2>1, <3>1 DEF Fd
      <3> QED BY <1>3, <2>1, <3>1, <3>2
    <2>3. Backs /\ Asked
      BY <1>2, <1>3, <2>1
    <2> QED BY <2>2, <2>3 DEF Clients, Listening
  <1>5. ASSUME UNCHANGED clientVars PROVE Rest /\ Asked
    BY <1>2, <1>5 DEF clientVars
  <1>6. ASSUME NEW f, NEW n, Answered(f, n), UNCHANGED state PROVE Backs
    <2>1. back' = back \/ (Listening(f) /\ back' = [back EXCEPT ![f] = @ \cup {n}])
      BY <1>6 DEF Answered
    <2>2. \A g \in Fd : back'[g] = back[g] \/ (g = f /\ Listening(f))
      BY <2>1, ClientTypes
    <2> QED BY <1>2, <1>6, <2>2 DEF Listening
  <1>7. ASSUME UNCHANGED <<state, back>> PROVE Backs
    BY <1>2, <1>7
  <1>8. ASSUME NEW f \in Fd, NEW s \in Session, Request(f, s) PROVE Clients'
    <2>1. /\ asked' = [asked EXCEPT ![s] = [use |-> sends', first |-> f, fd |-> f, answered |-> FALSE]]
          /\ sends' = sends + 1 /\ UNCHANGED <<state, back>>
      BY <1>8 DEF Request
    <2>2. Asked
      BY <1>2, <1>3, <2>1
    <2> QED BY <1>1, <1>7, <2>1, <2>2
  <1>9. ASSUME NEW f \in Fd, NEW s \in Session, Repeat(f, s) PROVE Clients'
    <2>1. /\ asked' = [asked EXCEPT ![s].fd = f]
          /\ sends' = sends + 1 /\ UNCHANGED <<state, back>>
      BY <1>9 DEF Repeat
    <2>2. \A r \in Session : asked'[r].use = asked[r].use /\ asked'[r].answered = asked[r].answered
      BY <1>3, <2>1
    <2>3. Asked
      BY <1>2, <1>3, <2>1, <2>2
    <2> QED BY <1>1, <1>7, <2>1, <2>3
  <1>10. ASSUME NEW f \in Fd, Break(f) PROVE Clients'
    <2>1. /\ state' = [state EXCEPT ![f] = "closed"] /\ back' = [back EXCEPT ![f] = {}]
          /\ UNCHANGED <<asked, sends>> /\ state[f] # "new"
      BY <1>10 DEF Break, Listening
    <2>2. \A g \in Fd : g # f => state'[g] = state[g] /\ back'[g] = back[g]
      BY <2>1, <1>3
    <2>3. back'[f] = {}
      BY <2>1, ClientTypes
    <2>4. Rest /\ Asked
      BY <1>2, <1>3, <2>1
    <2> QED BY <1>1, <1>2, <1>3, <2>1, <2>2, <2>3, <2>4
  <1>11. ASSUME NEW f \in Fd, NEW n \in back[f], Receive(f, n) PROVE Clients'
    <2>1. /\ back' = [back EXCEPT ![f] = @ \ {n}] /\ UNCHANGED sends /\ state[f] # "new"
          /\ \/ state' = [state EXCEPT ![f] = "ok"] /\ UNCHANGED asked
             \/ /\ UNCHANGED state
                /\ asked' = [s \in Session |-> IF asked[s].use = n /\ asked[s].fd = f
                               THEN [asked[s] EXCEPT !.answered = TRUE] ELSE asked[s]]
      BY <1>2, <1>11 DEF Receive
    <2>2. \A s \in Session : asked'[s].use = asked[s].use /\ (asked[s].answered => asked'[s].answered)
      BY <1>3, <2>1
    <2>3. Asked
      BY <1>2, <1>3, <2>1, <2>2
    <2>4. \A g \in Fd : back'[g] # {} => back[g] # {}
      BY <2>1
    <2>5. \A g \in Fd : state'[g] = state[g] \/ (state'[g] = "ok" /\ state[g] # "new")
      BY <1>3, <2>1
    <2> QED BY <1>1, <1>2, <2>3, <2>4, <2>5
  <1>12. ASSUME NEW f \in Fd, Close(f) PROVE Clients'
    <2>1. UNCHANGED clientVars /\ UNCHANGED <<state, back>>
      BY <1>12 DEF Close, clientVars
    <2> QED BY <1>1, <1>5, <1>7, <2>1
  <1>13. CASE Logout \/ Waits
    <2>1. UNCHANGED clientVars /\ UNCHANGED <<state, back>>
      BY <1>13 DEF Logout, Waits, clientVars
    <2> QED BY <1>1, <1>5, <1>7, <2>1
  <1>14. ASSUME NEW c \in calls, Welcomed(c) PROVE Clients'
    <2>1. UNCHANGED clientVars /\ UNCHANGED <<state, back>>
      BY <1>14 DEF Welcomed, clientVars
    <2> QED BY <1>1, <1>5, <1>7, <2>1
  <1>15. ASSUME NEW e, NEW x, Answers(e, x), UNCHANGED clientVars PROVE Clients'
    <2>1. Answered(x.fd, x.use) \/ UNCHANGED back
      BY <1>15 DEF Answers
    <2> QED BY <1>1, <1>5, <1>6, <1>7, <1>15, <2>1 DEF clientVars
  <1>16. ASSUME NEW c \in calls, Done(c) PROVE Clients'
    <2>1. UNCHANGED clientVars
      BY <1>16 DEF Done
    <2> QED BY <1>15, <1>16, <2>1, Ending
  <1>17. ASSUME NEW p \in Pending, NEW more \in {0, loop}, Handled(p, more) PROVE Clients'
    <2>1. UNCHANGED clientVars /\ UNCHANGED state
      BY <1>17 DEF Handled, clientVars
    <2>2. CASE Drops(p, more) \/ Refuses(p, more) \/ Conflicts(p, more) \/ Moves(p, more)
      <3>1. UNCHANGED back
        BY <2>2 DEF Drops, Refuses, Conflicts, Moves
      <3> QED BY <1>1, <1>5, <1>7, <2>1, <3>1
    <2>3. CASE Executes(p, more)
      <3>1. UNCHANGED back
        BY <2>3 DEF Executes, Execute
      <3> QED BY <1>1, <1>5, <1>7, <2>1, <3>1
    <2>4. CASE Greets(p, more)
      <3>1. Answered(p.fd, 0)
        BY <2>4 DEF Greets, Auth
      <3> QED BY <1>1, <1>5, <1>6, <2>1, <3>1
    <2>5. CASE Resends(p, more)
      <3>1. p \in Pkg /\ p.session \in Session
        BY <1>17, <2>5, HandledKinds DEF Resends
      <3> QED BY <1>15, <2>1, <2>5, <3>1, Resending
    <2> QED BY <1>17, <2>2, <2>3, <2>4, <2>5, HandledKinds
  <1> HIDE DEF Rest, Asked, Backs
  <1> QED BY <1>4, <1>8, <1>9, <1>10, <1>11, <1>12, <1>13, <1>14, <1>16, <1>17, Steps

-----------------------------------------------------------------------------
(* What a step does to the cache                                           *)

\* The entry of a new request.
Fresh(p) == [NoEntry EXCEPT !.session = p.session, !.from = p.fd, !.package = p.n, !.use = p.use,
                            !.fd = p.fd, !.asked = p.fd]
NewOne == Cardinality(Used) + 1

\* The cache and the answers stay as they are; the agent is not asked.
CacheStays ==
  /\ UNCHANGED <<response, entry, answers>> /\ user'.index = user.index
  /\ \A c \in calls' : c \in calls \/ (c.kind = "heartbeat" /\ c.of \in Fd)

LEMMA CacheSteps ==
  ASSUME FlowInv, Entries, Order, Next
  PROVE  \/ CacheStays
         \/ \E c \in calls : Done(c) /\ Pending' \subseteq Pending
         \/ \E p \in Pending : \E more \in {0, loop} :
              /\ Handled(p, more)
              /\ Executes(p, more) \/ Conflicts(p, more) \/ Moves(p, more) \/ Resends(p, more)
  <1> USE DEF FlowInv
  <1>1. ASSUME UNCHANGED serverVars PROVE CacheStays
    BY <1>1 DEF serverVars, cacheVars, CacheStays
  <1>2. user \in [online : BOOLEAN, version : Fd \cup {None}, index : Nat, fd : Fd \cup {None}]
    BY Typed
  <1>3. ASSUME NEW f \in Fd, Open(f) \/ Close(f) PROVE CacheStays
    BY <1>2, <1>3 DEF Open, Close, cacheVars, CacheStays
  <1>4. ASSUME NEW f \in Fd, Break(f) PROVE CacheStays
    BY <1>1, <1>4 DEF Break
  <1>5. ASSUME NEW f \in Fd, NEW n \in back[f], Receive(f, n) PROVE CacheStays
    BY <1>1, <1>5 DEF Receive
  <1>6. ASSUME NEW f \in Fd, NEW s \in Session, Request(f, s) \/ Repeat(f, s) PROVE CacheStays
    BY <1>1, <1>6 DEF Request, Repeat
  <1>7. CASE Logout
    BY <1>2, <1>7 DEF Logout, CacheStays
  <1>8. CASE Waits
    BY <1>1, <1>8 DEF Waits
  <1>9. ASSUME NEW c \in calls, Welcomed(c) PROVE CacheStays
    BY <1>9 DEF Welcomed, cacheVars, CacheStays
  <1>10. ASSUME NEW p \in Pending, NEW more \in {0, loop}, Handled(p, more)
         PROVE  \/ CacheStays
                \/ Executes(p, more) \/ Conflicts(p, more) \/ Moves(p, more) \/ Resends(p, more)
    <2>1. CASE Drops(p, more)
      BY <1>1, <2>1 DEF Drops
    <2>2. CASE Refuses(p, more)
      BY <2>2 DEF Refuses, cacheVars, CacheStays
    <2>3. CASE Greets(p, more)
      <3>1. /\ user' = [user EXCEPT !.version = p.fd, !.fd = p.fd] /\ UNCHANGED <<response, entry, answers>>
            /\ calls' = calls \cup {[kind |-> "heartbeat", of |-> p.fd, more |-> more]}
        BY <2>3 DEF Greets, Auth
      <3>2. p.fd \in Fd
        BY <1>10, HandledKinds
      <3> QED BY <1>2, <3>1, <3>2 DEF CacheStays
    <2> QED BY <1>10, <2>1, <2>2, <2>3, HandledKinds
  <1> QED BY <1>3, <1>4, <1>5, <1>6, <1>7, <1>8, <1>9, <1>10, Steps

LEMMA UsedStays ==
  ASSUME TypeOK, Entries, entry' \in [Entry -> CacheEntry],
         \A d \in Entry \ Used : entry'[d] = entry[d],
         \A d \in Used : entry'[d].session = entry[d].session
  PROVE  Used' = Used
  <1>1. NoEntry.session = None /\ None \notin Session
    BY MsgAssumption DEF NoEntry, None, Session
  <1>2. \A d \in Used : entry'[d] # NoEntry
    BY <1>1 DEF Entries
  <1> QED BY <1>2 DEF Used

LEMMA Executing ==
  ASSUME FlowInv, Entries, Order, NEW p \in Pending, NEW more \in {0, loop}, Handled(p, more),
         Executes(p, more)
  PROVE  /\ NewOne \in Entry /\ NewOne \notin Used /\ \A d \in Used : d < NewOne
         /\ Used' = Used \cup {NewOne} /\ Used' = 1..Cardinality(Used')
         /\ entry' \in [Entry -> CacheEntry] /\ Fresh(p) \in CacheEntry
         /\ entry'[NewOne] = Fresh(p) /\ \A d \in Entry \ {NewOne} : entry'[d] = entry[d]
         /\ response' = [response EXCEPT ![p.session] = NewOne]
         /\ calls' = calls \cup {[kind |-> "request", of |-> NewOne, more |-> more]}
         /\ loop' = 0 /\ UNCHANGED <<back, conn, user, answers, handshake, connection>>
  <1>1. /\ p \in Pkg /\ p.kind = "request" /\ p.session \in Session /\ p.fd \in Fd
        /\ p.n \in 1..sends /\ p.use \in 1..sends
    BY HandledKinds DEF Executes
  <1>2. /\ Cardinality(Used) \in Nat /\ NewOne \in Entry /\ NewOne \notin Used
        /\ Used = 1..(NewOne - 1)
    <2>1. \A e \in Used : entry[e].package # p.n
      BY DEF Order
    <2> QED BY <1>1, <2>1, Counting DEF NewOne, FlowInv
  <1>3. entry \in [Entry -> CacheEntry] /\ sends \in 0..MaxSends /\ MaxSends \in Nat
    BY Typed, ClientTypes DEF FlowInv
  <1>4. /\ entry' = [entry EXCEPT ![NewOne] = Fresh(p)]
        /\ response' = [response EXCEPT ![p.session] = NewOne]
        /\ calls' = calls \cup {[kind |-> "request", of |-> NewOne, more |-> more]}
        /\ loop' = 0 /\ UNCHANGED <<back, conn, user, answers, handshake, connection>>
    BY <1>2, <1>3 DEF Executes, Execute, NewOne, Fresh
  <1>5. Fresh(p) \in CacheEntry /\ Fresh(p) # NoEntry
    <2>1. p.n \in 0..MaxSends /\ p.use \in 0..MaxSends
      BY <1>1, <1>3
    <2>2. Fresh(p).session = p.session /\ NoEntry.session = None /\ None \notin Session
      BY MsgAssumption DEF Fresh, NoEntry, None, Session
    <2>3. Fresh(p) \in CacheEntry
      BY <1>1, <2>1 DEF Fresh, NoEntry, CacheEntry
    <2> QED BY <1>1, <2>2, <2>3
  <1>6. /\ entry' \in [Entry -> CacheEntry] /\ entry'[NewOne] = Fresh(p)
        /\ \A d \in Entry \ {NewOne} : entry'[d] = entry[d]
    BY <1>2, <1>3, <1>4, <1>5
  <1>7. Used' = Used \cup {NewOne}
    BY <1>2, <1>5, <1>6 DEF Used
  <1> DEFINE m == Cardinality(Used)
  <1>8. m \in Nat /\ NewOne = m + 1
    BY <1>2 DEF NewOne
  <1>9. Cardinality(Used') = m + 1
    <2>1. IsFiniteSet(Used)
      BY <1>2, <1>8, FS_Interval
    <2>2. Cardinality(Used \cup {NewOne}) = Cardinality(Used) + 1
      BY <1>2, <2>1, FS_AddElement
    <2> QED BY <1>7, <2>2
  <1> HIDE DEF m
  <1>10. Used' = 1..(m + 1) /\ \A d \in Used : d < NewOne
    BY <1>2, <1>7, <1>8
  <1> QED BY <1>2, <1>4, <1>5, <1>6, <1>7, <1>9, <1>10

LEMMA Moving ==
  ASSUME FlowInv, Entries, Order, NEW p \in Pending, NEW more \in {0, loop}, Handled(p, more),
         Moves(p, more)
  PROVE  LET e == response[p.session] IN
         /\ e \in Used /\ entry[e].session = p.session /\ ~ entry[e].done
         /\ Renewed(p, e) \in CacheEntry /\ Used' = Used /\ entry' \in [Entry -> CacheEntry]
         /\ entry'[e] = Renewed(p, e) /\ \A d \in Entry \ {e} : entry'[d] = entry[d]
  <1> DEFINE e == response[p.session]
             x == Renewed(p, e)
  <1>1. p.session \in Session /\ p.fd \in Fd
    BY HandledKinds DEF Moves
  <1>2. /\ e \in Used /\ entry[e].session = p.session /\ ~ entry[e].done
        /\ entry \in [Entry -> CacheEntry] /\ e \in Entry /\ Used \subseteq Entry
        /\ user.index \in Nat /\ user.version \in Fd \cup {None}
    BY <1>1, Typed DEF Moves, Entries, FlowInv, Used
  <1>3. entry' = [entry EXCEPT ![e] = x]
    BY DEF Moves
  <1> HIDE DEF e
  <1>4. x \in CacheEntry /\ x.session = entry[e].session
    BY <1>1, <1>2 DEF Renewed, CacheEntry
  <1> HIDE DEF x
  <1>5. /\ entry' \in [Entry -> CacheEntry] /\ entry'[e] = x
        /\ \A d \in Entry \ {e} : entry'[d] = entry[d]
    BY <1>2, <1>3, <1>4
  <1>6. Used' = Used
    BY <1>2, <1>4, <1>5, UsedStays DEF FlowInv
  <1> QED BY <1>2, <1>4, <1>5, <1>6 DEF e, x

LEMMA UsedAnswering ==
  ASSUME TypeOK, Entries, NEW e \in Used, NEW x, x.session = entry[e].session, Answers(e, x)
  PROVE  Used' = Used
  <1>1. \A d \in Used : entry'[d].session = entry[d].session
    BY DEF Answers, Same, Used
  <1> QED BY <1>1, UsedStays DEF Answers

LEMMA ClientTypesStep ==
  ASSUME FlowInv, Next
  PROVE  /\ state' \in [Fd -> {"new", "hello", "ok", "closed"}]
         /\ asked' \in [Session -> [use : 0..MaxSends, first : Fd \cup {None}, fd : Fd \cup {None},
                                    answered : BOOLEAN]]
         /\ sends' \in 0..MaxSends /\ sends <= sends' /\ again' \subseteq 1..MaxSends
  <1> DEFINE Asked == [use : 0..MaxSends, first : Fd \cup {None}, fd : Fd \cup {None},
                       answered : BOOLEAN]
             Goal == /\ state' \in [Fd -> {"new", "hello", "ok", "closed"}]
                     /\ asked' \in [Session -> Asked]
                     /\ sends' \in 0..MaxSends /\ sends <= sends' /\ again' \subseteq 1..MaxSends
  <1>1. /\ state \in [Fd -> {"new", "hello", "ok", "closed"}]
        /\ asked \in [Session -> Asked]
        /\ sends \in 0..MaxSends /\ again \subseteq 1..MaxSends /\ MaxSends \in Nat
    BY ClientTypes DEF FlowInv
  <1>2. ASSUME UNCHANGED clientVars PROVE Goal
    BY <1>1, <1>2 DEF clientVars
  <1>3. ASSUME NEW f \in Fd, Open(f) \/ Break(f) PROVE Goal
    <2>1. /\ state' = [state EXCEPT ![f] = "hello"] \/ state' = [state EXCEPT ![f] = "closed"]
          /\ UNCHANGED <<asked, sends, again>>
      BY <1>3 DEF Open, Break
    <2> HIDE DEF Asked
    <2> QED BY <1>1, <2>1
  <1>4. ASSUME NEW f \in Fd, NEW s \in Session, Request(f, s) PROVE Goal
    <2>1. /\ sends' = sends + 1 /\ sends < MaxSends /\ UNCHANGED <<state, again>>
          /\ asked' = [asked EXCEPT ![s] = [use |-> sends', first |-> f, fd |-> f, answered |-> FALSE]]
      BY <1>4 DEF Request, Sending
    <2>2. sends' \in 0..MaxSends /\ sends <= sends'
      BY <1>1, <2>1
    <2>3. [use |-> sends', first |-> f, fd |-> f, answered |-> FALSE] \in Asked
      BY <2>2
    <2> HIDE DEF Asked
    <2> QED BY <1>1, <2>1, <2>2, <2>3
  <1>5. ASSUME NEW f \in Fd, NEW s \in Session, Repeat(f, s) PROVE Goal
    <2>1. /\ sends' = sends + 1 /\ sends < MaxSends /\ UNCHANGED state
          /\ asked' = [asked EXCEPT ![s].fd = f] /\ ~ asked[s].answered
          /\ again' = again \/ again' = again \cup {asked[s].use}
      BY <1>5 DEF Repeat, Sending
    <2>2. sends' \in 0..MaxSends /\ sends <= sends'
      BY <1>1, <2>1
    <2>3. asked[s].use # 0 /\ asked[s] \in Asked
      BY <1>1, <2>1 DEF FlowInv, Clients
    <2>4. asked[s].use \in 1..MaxSends /\ [asked[s] EXCEPT !.fd = f] \in Asked
      BY <1>1, <2>3
    <2>5. asked' = [asked EXCEPT ![s] = [asked[s] EXCEPT !.fd = f]]
      BY <1>1, <2>1
    <2> HIDE DEF Asked
    <2> QED BY <1>1, <2>1, <2>2, <2>4, <2>5
  <1>6. ASSUME NEW f \in Fd, NEW n \in back[f], Receive(f, n) PROVE Goal
    <2>1. /\ UNCHANGED <<sends, again>>
          /\ \/ state' = [state EXCEPT ![f] = "ok"] /\ UNCHANGED asked
             \/ /\ UNCHANGED state
                /\ asked' = [s \in Session |-> IF asked[s].use = n /\ asked[s].fd = f
                               THEN [asked[s] EXCEPT !.answered = TRUE] ELSE asked[s]]
      BY <1>6 DEF Receive
    <2>2. \A s \in Session : asked[s] \in Asked /\ [asked[s] EXCEPT !.answered = TRUE] \in Asked
      BY <1>1
    <2> HIDE DEF Asked
    <2>3. asked' \in [Session -> Asked]
      BY <1>1, <2>1, <2>2
    <2> QED BY <1>1, <2>1, <2>3
  <1>8. ASSUME NEW f \in Fd, Close(f) PROVE Goal
    BY <1>2, <1>8 DEF Close
  <1>9. ASSUME Logout \/ Waits PROVE Goal
    BY <1>2, <1>9 DEF Logout, Waits
  <1>10. ASSUME NEW c \in calls, Welcomed(c) \/ Done(c) PROVE Goal
    BY <1>2, <1>10 DEF Welcomed, Done
  <1>11. ASSUME NEW p \in Pending, NEW more \in {0, loop}, Handled(p, more) PROVE Goal
    BY <1>2, <1>11 DEF Handled
  <1> HIDE DEF Goal
  <1>12. Goal
    BY <1>3, <1>4, <1>5, <1>6, <1>8, <1>9, <1>10, <1>11, Steps
  <1> QED BY <1>12 DEF Goal

LEMMA EntriesStep ==
  ASSUME IInv, Next
  PROVE  Entries'
  <1> USE DEF IInv, FlowInv
  <1>1. sends \in Nat /\ sends' \in Nat /\ sends <= sends'
    BY ClientTypes, ClientTypesStep
  <1>2. /\ entry \in [Entry -> CacheEntry] /\ response \in [Session -> Entry \cup {None}]
        /\ Used \subseteq Entry
    BY Typed DEF Used
  <1>3. CASE CacheStays
    <2>1. Used' = Used /\ UNCHANGED <<entry, response>>
      BY <1>3 DEF Used, CacheStays
    <2>2. \A e \in Used' :
            /\ entry'[e].session \in Session /\ entry'[e].from \in Fd /\ entry'[e].asked \in Fd
            /\ entry'[e].package \in 1..sends' /\ entry'[e].use \in 1..sends'
            /\ entry'[e].done => entry'[e].fd = None
            /\ ~ entry'[e].done => entry'[e].fd = entry'[e].asked /\ ~ entry'[e].late
            /\ \A d \in Used' : entry'[d].package = entry'[e].package => d = e
      BY <1>1, <2>1 DEF Entries
    <2>3. \A c \in calls' :
            /\ c.kind = "request" => c \in calls /\ c.of \in Used' /\ ~ entry'[c.of].done
            /\ c.kind = "heartbeat" => c.of \in Fd
      BY <1>3, <2>1 DEF Entries, CacheStays
    <2>4. \A b, c \in calls' : b.kind = "request" /\ c.kind = "request" /\ b.of = c.of => b = c
      BY <2>3 DEF Entries
    <2> QED BY <2>1, <2>2, <2>3, <2>4 DEF Entries
  \* An entry is written anew.
  <1>4. ASSUME NEW e \in Used, entry' \in [Entry -> CacheEntry], Used' = Used,
               \A d \in Used \ {e} : Same(entry'[d], entry[d]),
               entry'[e].session = entry[e].session, entry'[e].from = entry[e].from,
               entry'[e].package = entry[e].package, entry'[e].use = entry[e].use,
               entry'[e].asked \in Fd, entry'[e].done => entry'[e].fd = None,
               ~ entry'[e].done => entry'[e].fd = entry'[e].asked /\ ~ entry'[e].late,
               \A s \in Session : response'[s] = response[s] \/ response'[s] = None,
               calls' \subseteq calls,
               ~ entry'[e].done \/ \A c \in calls' : c.kind = "request" => c.of # e
        PROVE  Entries'
    <2>1. \A d \in Used : /\ entry'[d].session = entry[d].session /\ entry'[d].from = entry[d].from
                          /\ entry'[d].package = entry[d].package /\ entry'[d].use = entry[d].use
                          /\ d # e => /\ entry'[d].asked = entry[d].asked
                                      /\ entry'[d].done = entry[d].done
                                      /\ entry'[d].fd = entry[d].fd /\ entry'[d].late = entry[d].late
      BY <1>4 DEF Same
    <2>2. \A d \in Used' :
            /\ entry'[d].session \in Session /\ entry'[d].from \in Fd /\ entry'[d].asked \in Fd
            /\ entry'[d].package \in 1..sends' /\ entry'[d].use \in 1..sends'
            /\ entry'[d].done => entry'[d].fd = None
            /\ ~ entry'[d].done => entry'[d].fd = entry'[d].asked /\ ~ entry'[d].late
      BY <1>1, <1>4, <2>1 DEF Entries
    <2>3. \A c, d \in Used' : entry'[d].package = entry'[c].package => d = c
      BY <1>4, <2>1 DEF Entries
    <2>4. \A s \in Session : response'[s] # None =>
            response'[s] \in Used' /\ entry'[response'[s]].session = s
      BY <1>4, <2>1 DEF Entries
    <2>5. \A c \in calls' :
            /\ c.kind = "request" => c.of \in Used' /\ ~ entry'[c.of].done
            /\ c.kind = "heartbeat" => c.of \in Fd
            /\ \A b \in calls' : b.kind = "request" /\ c.kind = "request" /\ b.of = c.of => b = c
      BY <1>4, <2>1 DEF Entries
    <2>6. Used' = 1..Cardinality(Used')
      BY <1>4 DEF Entries
    <2> QED BY <2>2, <2>3, <2>4, <2>5, <2>6 DEF Entries
  <1>5. ASSUME NEW c \in calls, Done(c) PROVE Entries'
    <2> DEFINE e == c.of
               x == Ended(e)
    <2>1. /\ e \in Used /\ x \in CacheEntry /\ Answers(e, x) /\ c.kind = "request"
          /\ calls' = calls \ {c}
      BY <1>5, Ending DEF Done
    <2>2. /\ x.session = entry[e].session /\ x.from = entry[e].from /\ x.package = entry[e].package
          /\ x.use = entry[e].use /\ x.asked = entry[e].asked /\ x.done
      <3>1. entry[e] \in CacheEntry
        BY <1>2, <2>1
      <3> QED BY <3>1 DEF Ended, CacheEntry
    <2>3. Used' = Used
      BY <2>1, <2>2, UsedAnswering
    <2>4. \A b \in calls' : b.kind = "request" => b.of # e
      BY <2>1 DEF Entries
    <2> HIDE DEF e, x
    <2>5. Same(entry'[e], [x EXCEPT !.fd = None, !.at = answers'])
      BY <2>1 DEF Answers
    <2>6. /\ entry'[e].session = x.session /\ entry'[e].from = x.from
          /\ entry'[e].package = x.package /\ entry'[e].use = x.use /\ entry'[e].asked = x.asked
          /\ entry'[e].done = x.done /\ entry'[e].fd = None
      BY <2>1, <2>5 DEF Same, CacheEntry
    <2>7. /\ entry' \in [Entry -> CacheEntry] /\ \A d \in Used \ {e} : Same(entry'[d], entry[d])
          /\ \A s \in Session : response'[s] = response[s] \/ response'[s] = None
      BY <1>2, <2>1 DEF Answers
    <2>8. entry[e].asked \in Fd
      BY <2>1 DEF Entries
    <2> QED BY <1>4, <2>1, <2>2, <2>3, <2>4, <2>6, <2>7, <2>8
  <1>6. ASSUME NEW p \in Pending, NEW more \in {0, loop}, Handled(p, more)
        PROVE  /\ p.kind \in {"hello", "request"} /\ p.fd \in Fd
               /\ connection[p.fd] => p.session \in Session /\ p \in Pkg
                                      /\ p.n \in 1..sends /\ p.use \in 1..sends
    BY <1>6, HandledKinds
  <1>7. ASSUME NEW p \in Pending, NEW more \in {0, loop}, Handled(p, more), Executes(p, more)
        PROVE  Entries'
    <2> DEFINE n == NewOne
    <2>1. /\ n \in Entry /\ n \notin Used /\ Used' = Used \cup {n} /\ Used' = 1..Cardinality(Used')
          /\ entry' \in [Entry -> CacheEntry] /\ entry'[n] = Fresh(p)
          /\ \A d \in Entry \ {n} : entry'[d] = entry[d]
          /\ response' = [response EXCEPT ![p.session] = n]
          /\ calls' = calls \cup {[kind |-> "request", of |-> n, more |-> more]}
      BY <1>7, Executing
    <2> HIDE DEF n
    <2>2. p.session \in Session /\ p.fd \in Fd /\ p.n \in 1..sends /\ p.use \in 1..sends
      BY <1>6, <1>7 DEF Executes
    <2>3. /\ Fresh(p).session = p.session /\ Fresh(p).from = p.fd /\ Fresh(p).package = p.n
          /\ Fresh(p).use = p.use /\ Fresh(p).fd = p.fd /\ Fresh(p).asked = p.fd
          /\ ~ Fresh(p).done /\ ~ Fresh(p).late
      BY DEF Fresh, NoEntry
    <2>4. \A e \in Used : entry'[e] = entry[e] /\ e # n /\ entry[e].package # p.n
      BY <1>2, <2>1 DEF Order
    <2>5. \A e \in Used' :
            /\ entry'[e].session \in Session /\ entry'[e].from \in Fd /\ entry'[e].asked \in Fd
            /\ entry'[e].package \in 1..sends' /\ entry'[e].use \in 1..sends'
            /\ entry'[e].done => entry'[e].fd = None
            /\ ~ entry'[e].done => entry'[e].fd = entry'[e].asked /\ ~ entry'[e].late
      <3>1. \A e \in Used :
            /\ entry[e].session \in Session /\ entry[e].from \in Fd /\ entry[e].asked \in Fd
            /\ entry[e].package \in 1..sends /\ entry[e].use \in 1..sends
            /\ entry[e].done => entry[e].fd = None
            /\ ~ entry[e].done => entry[e].fd = entry[e].asked /\ ~ entry[e].late
        BY DEF Entries
      <3> QED BY <1>1, <2>1, <2>2, <2>3, <2>4, <3>1
    <2>6. \A d, e \in Used' : entry'[d].package = entry'[e].package => d = e
      BY <2>1, <2>3, <2>4 DEF Entries
    <2>7. \A s \in Session : response'[s] # None =>
            response'[s] \in Used' /\ entry'[response'[s]].session = s
      BY <1>2, <2>1, <2>2, <2>3, <2>4 DEF Entries
    <2>8. \A c \in calls' :
            /\ c.kind = "request" => c.of \in Used' /\ ~ entry'[c.of].done
            /\ c.kind = "heartbeat" => c.of \in Fd
      BY <2>1, <2>3, <2>4 DEF Entries
    <2>9. \A b, c \in calls' : b.kind = "request" /\ c.kind = "request" /\ b.of = c.of => b = c
      BY <2>1, <2>4 DEF Entries
    <2> QED BY <2>1, <2>5, <2>6, <2>7, <2>8, <2>9 DEF Entries
  <1>8. ASSUME NEW p \in Pending, NEW more \in {0, loop}, Handled(p, more), Conflicts(p, more)
        PROVE  Entries'
    <2>1. /\ p.session \in Session /\ response' = [response EXCEPT ![p.session] = None]
          /\ UNCHANGED <<entry, calls>>
      BY <1>6, <1>8 DEF Conflicts
    <2>2. \A s \in Session : response'[s] = response[s] \/ response'[s] = None
      BY <1>2, <2>1
    <2>3. Used' = Used
      BY <2>1 DEF Used
    <2> QED BY <1>1, <2>1, <2>2, <2>3 DEF Entries
  <1>9. ASSUME NEW p \in Pending, NEW more \in {0, loop}, Handled(p, more), Moves(p, more)
        PROVE  Entries'
    <2> DEFINE e == response[p.session]
               x == Renewed(p, e)
    <2>1. /\ e \in Used /\ ~ entry[e].done /\ Used' = Used /\ entry' \in [Entry -> CacheEntry]
          /\ entry'[e] = x /\ \A d \in Entry \ {e} : entry'[d] = entry[d]
          /\ UNCHANGED <<response, calls>> /\ p.fd \in Fd
      BY <1>6, <1>9, Moving DEF Moves
    <2>2. /\ x.session = entry[e].session /\ x.from = entry[e].from /\ x.package = entry[e].package
          /\ x.use = entry[e].use /\ x.asked = p.fd /\ x.fd = p.fd /\ x.done = entry[e].done
          /\ x.late = entry[e].late
      <3>1. entry[e] \in CacheEntry
        BY <1>2, <2>1
      <3> QED BY <3>1 DEF Renewed, CacheEntry
    <2> HIDE DEF e, x
    <2>3. \A d \in Used \ {e} : Same(entry'[d], entry[d])
      BY <1>2, <2>1 DEF Same
    <2>4. ~ entry[e].late
      BY <2>1 DEF Entries
    <2> QED BY <1>4, <2>1, <2>2, <2>3, <2>4
  <1>10. ASSUME NEW p \in Pending, NEW more \in {0, loop}, Handled(p, more), Resends(p, more)
         PROVE  Entries'
    <2> DEFINE e == response[p.session]
               x == Renewed(p, e)
    <2>1. /\ e \in Used /\ x \in CacheEntry /\ Answers(e, x) /\ entry[e].done
          /\ UNCHANGED calls /\ p.fd \in Fd
      BY <1>6, <1>10, Resending DEF Resends
    <2>2. /\ x.session = entry[e].session /\ x.from = entry[e].from /\ x.package = entry[e].package
          /\ x.use = entry[e].use /\ x.asked = p.fd /\ x.done
      <3>1. entry[e] \in CacheEntry
        BY <1>2, <2>1
      <3> QED BY <2>1, <3>1 DEF Renewed, CacheEntry
    <2>3. Used' = Used
      BY <2>1, <2>2, UsedAnswering
    <2> HIDE DEF e, x
    <2>4. \A b \in calls' : b.kind = "request" => b.of # e
      BY <2>1 DEF Entries
    <2>5. Same(entry'[e], [x EXCEPT !.fd = None, !.at = answers'])
      BY <2>1 DEF Answers
    <2>6. /\ entry'[e].session = x.session /\ entry'[e].from = x.from
          /\ entry'[e].package = x.package /\ entry'[e].use = x.use /\ entry'[e].asked = x.asked
          /\ entry'[e].done = x.done /\ entry'[e].fd = None
      BY <2>1, <2>5 DEF Same, CacheEntry
    <2>7. /\ entry' \in [Entry -> CacheEntry] /\ \A d \in Used \ {e} : Same(entry'[d], entry[d])
          /\ \A s \in Session : response'[s] = response[s] \/ response'[s] = None
      BY <1>2, <2>1 DEF Answers
    <2> QED BY <1>4, <2>1, <2>2, <2>3, <2>4, <2>6, <2>7
  <1> QED BY <1>3, <1>5, <1>7, <1>8, <1>9, <1>10, CacheSteps

\* Which request an entry is for never changes, and only a request that goes to
\* the agent makes one.
LEMMA EntriesKept ==
  ASSUME IInv, Next
  PROVE  /\ \A d \in Used : /\ d \in Used' /\ entry'[d].session = entry[d].session
                            /\ entry'[d].from = entry[d].from /\ entry'[d].package = entry[d].package
                            /\ entry'[d].use = entry[d].use
         /\ entry' \in [Entry -> CacheEntry] /\ response' \in [Session -> Entry \cup {None}]
         /\ answers' \in Nat
         /\ \/ Used' = Used
            \/ \E p \in Pending : \E more \in {0, loop} : Handled(p, more) /\ Executes(p, more)
  <1> USE DEF IInv, FlowInv
  <1> DEFINE Kept(d) == /\ entry'[d].session = entry[d].session
                        /\ entry'[d].from = entry[d].from /\ entry'[d].package = entry[d].package
                        /\ entry'[d].use = entry[d].use
             Goal == /\ \A d \in Used : d \in Used' /\ Kept(d)
                     /\ entry' \in [Entry -> CacheEntry]
                     /\ response' \in [Session -> Entry \cup {None}] /\ answers' \in Nat
                     /\ \/ Used' = Used
                        \/ \E p \in Pending : \E more \in {0, loop} : Handled(p, more) /\ Executes(p, more)
  <1>1. /\ entry \in [Entry -> CacheEntry] /\ response \in [Session -> Entry \cup {None}]
        /\ Used \subseteq Entry /\ answers \in Nat
    BY Typed DEF Used
  <1>2. ASSUME CacheStays PROVE Goal
    <2>1. Used' = Used
      BY <1>2 DEF CacheStays, Used
    <2> QED BY <1>1, <1>2, <2>1 DEF CacheStays
  <1>3. ASSUME NEW e \in Used, NEW x, Answers(e, x), x.session = entry[e].session,
               x.from = entry[e].from, x.package = entry[e].package, x.use = entry[e].use,
               x \in CacheEntry
        PROVE  Goal
    <2>1. Used' = Used
      BY <1>3, UsedAnswering
    <2>2. \A d \in Used \ {e} : Kept(d)
      BY <1>1, <1>3 DEF Answers, Same
    <2>3. Kept(e)
      <3>1. Same(entry'[e], [x EXCEPT !.fd = None, !.at = answers'])
        BY <1>3 DEF Answers
      <3> QED BY <1>3, <3>1 DEF Same, CacheEntry
    <2>4. /\ entry' \in [Entry -> CacheEntry] /\ response' \in [Session -> Entry \cup {None}]
          /\ answers' \in Nat
      BY <1>1, <1>3 DEF Answers
    <2> QED BY <2>1, <2>2, <2>3, <2>4
  <1>4. ASSUME NEW c \in calls, Done(c) PROVE Goal
    <2> DEFINE e == c.of
               x == Ended(e)
    <2>1. e \in Used /\ x \in CacheEntry /\ Answers(e, x) /\ entry[e] \in CacheEntry
      BY <1>1, <1>4, Ending
    <2>2. /\ x.session = entry[e].session /\ x.from = entry[e].from
          /\ x.package = entry[e].package /\ x.use = entry[e].use
      BY <2>1 DEF Ended, CacheEntry
    <2> HIDE DEF Goal, e, x
    <2> QED BY <1>3, <2>1, <2>2
  <1>5. ASSUME NEW p \in Pending, NEW more \in {0, loop}, Handled(p, more), Resends(p, more)
        PROVE  Goal
    <2> DEFINE e == response[p.session]
               x == Renewed(p, e)
    <2>1. e \in Used /\ x \in CacheEntry /\ Answers(e, x) /\ entry[e] \in CacheEntry
      BY <1>1, <1>5, HandledKinds, Resending DEF Resends
    <2>2. /\ x.session = entry[e].session /\ x.from = entry[e].from
          /\ x.package = entry[e].package /\ x.use = entry[e].use
      BY <2>1 DEF Renewed, CacheEntry
    <2> HIDE DEF Goal, e, x
    <2> QED BY <1>3, <2>1, <2>2
  <1>6. ASSUME NEW p \in Pending, NEW more \in {0, loop}, Handled(p, more), Executes(p, more)
        PROVE  Goal
    <2>1. /\ NewOne \in Entry /\ NewOne \notin Used /\ Used' = Used \cup {NewOne}
          /\ entry' \in [Entry -> CacheEntry]
          /\ \A d \in Entry \ {NewOne} : entry'[d] = entry[d]
          /\ response' = [response EXCEPT ![p.session] = NewOne] /\ answers' = answers
      BY <1>6, Executing
    <2> QED BY <1>1, <1>6, <2>1
  <1>7. ASSUME NEW p \in Pending, NEW more \in {0, loop}, Handled(p, more), Conflicts(p, more)
        PROVE  Goal
    <2>1. response' = [response EXCEPT ![p.session] = None] /\ UNCHANGED <<entry, answers>>
      BY <1>7 DEF Conflicts
    <2>2. Used' = Used /\ response' \in [Session -> Entry \cup {None}]
      BY <1>1, <2>1 DEF Used
    <2> QED BY <1>1, <2>1, <2>2
  <1>8. ASSUME NEW p \in Pending, NEW more \in {0, loop}, Handled(p, more), Moves(p, more)
        PROVE  Goal
    <2> DEFINE e == response[p.session]
    <2>1. /\ e \in Used /\ Used' = Used /\ entry' \in [Entry -> CacheEntry]
          /\ entry'[e] = Renewed(p, e) /\ \A d \in Entry \ {e} : entry'[d] = entry[d]
          /\ UNCHANGED <<response, answers>> /\ entry[e] \in CacheEntry
      BY <1>1, <1>8, Moving DEF Moves
    <2> HIDE DEF e
    <2>2. Kept(e)
      BY <2>1 DEF Renewed, CacheEntry
    <2> QED BY <1>1, <2>1, <2>2
  <1> HIDE DEF Goal
  <1>9. Goal
    BY <1>2, <1>4, <1>5, <1>6, <1>7, <1>8, CacheSteps
  <1> QED BY <1>9 DEF Goal

\* Who is connected has shaken hands.
LEMMA ConnectionStep ==
  ASSUME IInv, Next
  PROVE  /\ \A f \in Fd : connection'[f] => \/ connection[f]
                                            \/ \E p \in Pending : \E more \in {0, loop} :
                                                 p.fd = f /\ Handled(p, more) /\ Greets(p, more)
         /\ \A f \in Fd : state[f] # "new" => state'[f] # "new"
         /\ \A f \in Fd : state[f] = "new" /\ state'[f] # "new" => Open(f)
         /\ connection' \in [Fd -> BOOLEAN] /\ handshake' \in [Fd -> BOOLEAN]
         /\ conn' \in [Fd -> {"nil", "true", "false"}]
  <1> USE DEF IInv, FlowInv
  <1> DEFINE Mine == \A f \in Fd : connection'[f] =>
                       \/ connection[f]
                       \/ \E p \in Pending : \E more \in {0, loop} :
                            p.fd = f /\ Handled(p, more) /\ Greets(p, more)
             State == /\ \A f \in Fd : state[f] # "new" => state'[f] # "new"
                      /\ \A f \in Fd : state[f] = "new" /\ state'[f] # "new" => Open(f)
             Types == /\ connection' \in [Fd -> BOOLEAN] /\ handshake' \in [Fd -> BOOLEAN]
                      /\ conn' \in [Fd -> {"nil", "true", "false"}]
             Goal == Mine /\ State /\ Types
  <1>1. /\ state \in [Fd -> {"new", "hello", "ok", "closed"}]
        /\ conn \in [Fd -> {"nil", "true", "false"}]
        /\ handshake \in [Fd -> BOOLEAN] /\ connection \in [Fd -> BOOLEAN]
    BY ClientTypes
  <1>2. ASSUME UNCHANGED state PROVE State
    BY <1>2
  <1>3. ASSUME UNCHANGED <<conn, handshake, connection>> PROVE Mine /\ Types
    BY <1>1, <1>3
  <1>4. ASSUME NEW f \in Fd, Open(f) PROVE Goal
    <2>1. /\ state' = [state EXCEPT ![f] = "hello"] /\ conn' = [conn EXCEPT ![f] = "true"]
          /\ handshake' = [handshake EXCEPT ![f] = TRUE] /\ UNCHANGED connection
      BY <1>4 DEF Open
    <2>2. State
      BY <1>1, <1>4, <2>1
    <2> QED BY <1>1, <2>1, <2>2
  <1>5. ASSUME NEW f \in Fd, Close(f) PROVE Goal
    <2>1. /\ conn' = [conn EXCEPT ![f] = "nil"] /\ UNCHANGED state
          /\ handshake' = [handshake EXCEPT ![f] = FALSE]
          /\ connection' = [connection EXCEPT ![f] = FALSE]
      BY <1>5 DEF Close, clientVars
    <2> QED BY <1>1, <1>2, <2>1
  <1>6. ASSUME NEW f \in Fd, Break(f) PROVE Goal
    <2>1. /\ state' = [state EXCEPT ![f] = "closed"] /\ state[f] # "new"
          /\ UNCHANGED <<conn, handshake, connection>>
      BY <1>6 DEF Break, Listening, gateVars, serverVars
    <2>2. State
      BY <1>1, <2>1
    <2> QED BY <1>3, <2>1, <2>2
  <1>7. ASSUME NEW f \in Fd, NEW n \in back[f], Receive(f, n) PROVE Goal
    <2>1. /\ UNCHANGED state \/ state' = [state EXCEPT ![f] = "ok"]
          /\ UNCHANGED <<conn, handshake, connection>> /\ state[f] # "new"
      BY <1>7 DEF Receive, gateVars, serverVars, Clients, Listening
    <2>2. State
      BY <1>1, <2>1
    <2> QED BY <1>3, <2>1, <2>2
  <1>8. ASSUME NEW f \in Fd, NEW s \in Session, Request(f, s) \/ Repeat(f, s) PROVE Goal
    <2>1. UNCHANGED state /\ UNCHANGED <<conn, handshake, connection>>
      BY <1>8 DEF Request, Repeat, gateVars, serverVars
    <2> QED BY <1>2, <1>3, <2>1
  <1>9. ASSUME Logout PROVE Goal
    <2>1. /\ UNCHANGED <<state, handshake>>
          /\ \/ UNCHANGED <<conn, connection>>
             \/ /\ user.fd \in Fd /\ connection' = [connection EXCEPT ![user.fd] = FALSE]
                /\ \/ UNCHANGED conn
                   \/ conn' = [conn EXCEPT ![user.fd] = "false"]
      <3>1. user.fd \in Fd \cup {None}
        BY Typed
      <3> QED BY <1>9, <3>1 DEF Logout, clientVars, CloseClient
    <2> QED BY <1>1, <1>2, <2>1
  <1>10. ASSUME Waits PROVE Goal
    <2>1. UNCHANGED state /\ UNCHANGED <<conn, handshake, connection>>
      BY <1>10 DEF Waits, clientVars, serverVars
    <2> QED BY <1>2, <1>3, <2>1
  <1>11. ASSUME NEW c \in calls, Welcomed(c) PROVE Goal
    <2>1. /\ UNCHANGED <<state, conn, connection>>
          /\ UNCHANGED handshake \/ handshake' = [handshake EXCEPT ![c.of] = FALSE]
      BY <1>11 DEF Welcomed, clientVars
    <2> QED BY <1>1, <1>2, <2>1
  <1>12. ASSUME NEW c \in calls, Done(c) PROVE Goal
    <2>1. UNCHANGED state /\ UNCHANGED <<conn, handshake, connection>>
      BY <1>12 DEF Done, clientVars
    <2> QED BY <1>2, <1>3, <2>1
  <1>13. ASSUME NEW p \in Pending, NEW more \in {0, loop}, Handled(p, more) PROVE Goal
    <2>1. UNCHANGED state /\ p.fd \in Fd
      BY <1>13, HandledKinds DEF Handled, clientVars
    <2>2. CASE Drops(p, more) \/ Moves(p, more) \/ Resends(p, more)
      <3>1. UNCHANGED <<conn, handshake, connection>>
        BY <2>2 DEF Drops, Moves, Resends, serverVars
      <3> QED BY <1>2, <1>3, <2>1, <3>1
    <2>3. CASE Executes(p, more)
      <3>1. UNCHANGED <<conn, handshake, connection>>
        BY <2>3 DEF Executes, Execute
      <3> QED BY <1>2, <1>3, <2>1, <3>1
    <2>4. CASE Conflicts(p, more) \/ Refuses(p, more)
      <3>1. /\ UNCHANGED connection
            /\ UNCHANGED handshake \/ handshake' = [handshake EXCEPT ![p.fd] = FALSE]
            /\ UNCHANGED conn \/ conn' = [conn EXCEPT ![p.fd] = "false"]
        BY <2>4 DEF Conflicts, Refuses, CloseClient
      <3> QED BY <1>1, <1>2, <2>1, <3>1
    <2>5. CASE Greets(p, more)
      <3>1. /\ connection' = [connection EXCEPT ![p.fd] = TRUE] /\ UNCHANGED <<conn, handshake>>
        BY <2>5 DEF Greets, Auth
      <3>2. Types /\ \A f \in Fd : connection'[f] => connection[f] \/ f = p.fd
        BY <1>1, <2>1, <3>1
      <3>3. Mine
        BY <1>13, <2>5, <3>2
      <3> QED BY <1>2, <2>1, <3>2, <3>3
    <2> HIDE DEF Goal
    <2> QED BY <1>13, <2>2, <2>3, <2>4, <2>5, HandledKinds
  <1> HIDE DEF Goal
  <1>14. Goal
    BY <1>4, <1>5, <1>6, <1>7, <1>8, <1>9, <1>10, <1>11, <1>12, <1>13, Steps
  <1> QED BY <1>14 DEF Goal

LEMMA OrderStep ==
  ASSUME IInv, Next
  PROVE  Order'
  <1> USE DEF IInv, FlowInv
  <1>1. /\ \A d \in Used : /\ d \in Used' /\ entry'[d].from = entry[d].from
                           /\ entry'[d].package = entry[d].package
        /\ \/ Used' = Used
           \/ \E p \in Pending : \E more \in {0, loop} : Handled(p, more) /\ Executes(p, more)
    BY EntriesKept
  <1>2. /\ \A f \in Fd : connection'[f] => \/ connection[f]
                                           \/ \E p \in Pending : \E more \in {0, loop} :
                                                p.fd = f /\ Handled(p, more) /\ Greets(p, more)
        /\ \A f \in Fd : state[f] # "new" => state'[f] # "new"
    BY ConnectionStep
  <1>3. /\ Pending \subseteq Pkg
        /\ \A p \in Pending : /\ p.n \in Nat /\ p.n <= sends /\ p.fd \in Fd /\ state[p.fd] # "new"
                              /\ p.kind = "hello" => p.n = 0
    BY Unreads, Numbers DEF Pending, Flow
  <1>4. \A e \in Used : /\ entry[e].package \in Nat /\ entry[e].package <= sends
                        /\ entry[e].package # 0 /\ entry[e].from \in Fd /\ e \in Nat
    BY ClientTypes DEF Entries, Used, Entry
  <1>5. sends \in Nat
    BY ClientTypes
  \* What is handled is pending no more.
  <1>6. ASSUME NEW p \in Pending, NEW more \in {0, loop}, Handled(p, more), NEW q \in Pending'
        PROVE  /\ q \in Pending /\ (q.fd = p.fd => p.n < q.n) /\ (p.n # 0 => q.n # p.n)
    <2>1. q \in Pending /\ Follows(p, q) /\ q.kind # "eof"
      BY <1>6 DEF Handled, Pending
    <2>2. q.fd = p.fd => p.n < q.n
      BY <2>1 DEF Follows
    <2>3. p.n # 0 /\ q.n = p.n => q = p
      BY <2>1 DEF Order
    <2>4. p # q
      BY <1>3, <2>1, <2>2
    <2> QED BY <2>1, <2>2, <2>3, <2>4
  <1>7. \A f \in Fd : connection'[f] => state'[f] # "new"
    <2>1. \A f \in Fd : connection'[f] => state[f] # "new"
      BY <1>2, <1>3 DEF Order
    <2> QED BY <1>2, <2>1
  \* The entries.
  <1>8. ASSUME NEW p \in Pending, NEW more \in {0, loop}, Handled(p, more), Executes(p, more)
        PROVE  Order'
    <2> DEFINE n == NewOne
    <2>1. /\ n \in Entry /\ n \notin Used /\ (\A d \in Used : d < n) /\ Used' = Used \cup {n}
          /\ entry'[n] = Fresh(p) /\ UNCHANGED connection
      BY <1>8, Executing
    <2>2. Fresh(p).from = p.fd /\ Fresh(p).package = p.n
      BY DEF Fresh, NoEntry
    <2>3. p.n \in 1..sends
      BY <1>8, HandledKinds DEF Executes
    <2> HIDE DEF n
    <2>4. InOrder'
      <3> SUFFICES ASSUME NEW d \in Used', NEW e \in Used', d < e,
                          entry'[d].from = entry'[e].from
                   PROVE  entry'[d].package < entry'[e].package
        BY DEF InOrder
      <3>1. n \in Nat
        BY <2>1 DEF Entry
      <3>2. d \in Used
        BY <1>4, <2>1, <3>1
      <3>3. CASE e \in Used
        BY <1>1, <3>2, <3>3 DEF Order, InOrder
      <3>4. CASE e = n
        BY <1>1, <2>1, <2>2, <3>2, <3>4 DEF Order
      <3> QED BY <2>1, <3>3, <3>4
    <2>5. \A q, r \in Pending' : q.n = r.n /\ q.n # 0 => q = r
      BY <1>6, <1>8 DEF Order
    <2>6. ASSUME NEW q \in Pending', NEW e \in Used'
          PROVE  entry'[e].package # q.n /\ (entry'[e].from = q.fd => entry'[e].package < q.n)
      <3>1. CASE e \in Used
        BY <1>1, <1>6, <1>8, <3>1 DEF Order
      <3>2. CASE e = n
        BY <1>6, <1>8, <2>1, <2>2, <2>3, <3>2
      <3> QED BY <2>1, <3>1, <3>2
    <2>7. \A q \in Pending' : q.kind = "hello" => ~ connection'[q.fd]
      BY <1>6, <1>8, <2>1 DEF Order
    <2>8. \A e \in Used' : state'[entry'[e].from] # "new"
      BY <1>1, <1>2, <1>3, <1>4, <2>1, <2>2 DEF Order
    <2> QED BY <1>7, <2>4, <2>5, <2>6, <2>7, <2>8 DEF Order
  <1>9. ASSUME Used' = Used
        PROVE  InOrder' /\ \A e \in Used' : state'[entry'[e].from] # "new"
    BY <1>1, <1>2, <1>4, <1>9 DEF Order, InOrder
  <1>10. ASSUME Used' = Used, Pending' \subseteq Pending
         PROVE  Order'
    <2>1. \A p, q \in Pending' : p.n = q.n /\ p.n # 0 => p = q
      BY <1>10 DEF Order
    <2>2. \A q \in Pending', e \in Used' :
            entry'[e].package # q.n /\ (entry'[e].from = q.fd => entry'[e].package < q.n)
      BY <1>1, <1>10 DEF Order
    <2>3. ASSUME NEW q \in Pending', q.kind = "hello", connection'[q.fd] PROVE FALSE
      <3>1. q \in Pending /\ q.n = 0 /\ q.fd \in Fd /\ ~ connection[q.fd]
        BY <1>3, <1>10, <2>3 DEF Order
      <3>2. PICK p \in Pending : \E more \in {0, loop} :
                   p.fd = q.fd /\ Handled(p, more) /\ Greets(p, more)
        BY <1>2, <2>3, <3>1
      <3>3. p.n < q.n
        BY <1>6, <3>2
      <3> QED BY <1>3, <3>1, <3>3
    <2> QED BY <1>7, <1>9, <1>10, <2>1, <2>2, <2>3 DEF Order
  \* A package of the client.
  <1>11. ASSUME NEW x, Pending' \subseteq Pending \cup {x}, UNCHANGED <<connection, Used>>,
                x.n = 0 \/ x.n = sends + 1,
                x.kind = "hello" => ~ connection[x.fd],
                \A e \in Used : entry[e].from = x.fd => entry[e].package < x.n
         PROVE  Order'
    <2>1. \A p, q \in Pending' : p.n = q.n /\ p.n # 0 => p = q
      <3>1. \A p \in Pending : p.n # 0 => p.n # x.n
        BY <1>3, <1>5, <1>11
      <3> QED BY <1>11, <3>1 DEF Order
    <2>2. \A e \in Used : entry[e].package # x.n
      BY <1>4, <1>5, <1>11
    <2>3. \A q \in Pending', e \in Used' :
            entry'[e].package # q.n /\ (entry'[e].from = q.fd => entry'[e].package < q.n)
      BY <1>1, <1>11, <2>2 DEF Order
    <2>4. \A q \in Pending' : q.kind = "hello" => ~ connection'[q.fd]
      BY <1>11 DEF Order
    <2> QED BY <1>7, <1>9, <1>11, <2>1, <2>3, <2>4 DEF Order
  <1>12. ASSUME NEW f \in Fd, Open(f), Pending' \subseteq Pending \cup {Hello(f)} PROVE Order'
    <2>1. state[f] = "new" /\ UNCHANGED connection /\ UNCHANGED entry
      BY <1>12 DEF Open, cacheVars
    <2>2. Hello(f).n = 0 /\ Hello(f).fd = f
      BY DEF Hello, Package
    <2>3. UNCHANGED Used
      BY <2>1 DEF Used
    <2>4. ~ connection[f] /\ \A e \in Used : entry[e].from # f
      BY <2>1 DEF Order
    <2> QED BY <1>11, <1>12, <2>1, <2>2, <2>3, <2>4
  <1>13. ASSUME NEW f \in Fd, NEW s \in Session, NEW u, Request(f, s) \/ Repeat(f, s),
                Pending' \subseteq Pending \cup {AskPackage(f, s, u)}
         PROVE  Order'
    <2>1. UNCHANGED connection /\ UNCHANGED entry
      BY <1>13 DEF Request, Repeat, serverVars, cacheVars
    <2>2. AskPackage(f, s, u).n = sends + 1 /\ AskPackage(f, s, u).kind = "request"
      BY DEF AskPackage, Package
    <2>3. UNCHANGED Used
      BY <2>1 DEF Used
    <2>4. \A e \in Used : entry[e].package < sends + 1
      BY <1>4, <1>5
    <2> QED BY <1>11, <1>13, <2>1, <2>2, <2>3, <2>4
  <1>14. CASE Pending' \subseteq Pending
    BY <1>1, <1>8, <1>10, <1>14
  <1>15. CASE \E p \in Pending : \E more \in {0, loop} : Handled(p, more)
    BY <1>14, <1>15 DEF Handled
  <1> QED BY <1>12, <1>13, <1>14, <1>15, Steps

LEMMA RecentStep ==
  ASSUME IInv, Next
  PROVE  Recent'
  <1> USE DEF IInv, FlowInv
  <1>1. /\ entry \in [Entry -> CacheEntry] /\ response \in [Session -> Entry \cup {None}]
        /\ Used \subseteq Entry /\ None \notin Entry
    BY Typed DEF Used, None, Entry
  <1>2. CASE CacheStays
    BY <1>2 DEF CacheStays, Recent, RecentAt
  <1>3. ASSUME NEW c \in calls, Done(c) PROVE Recent'
    BY <1>3, Ending DEF Answers
  <1>4. ASSUME NEW p \in Pending, NEW more \in {0, loop}, Handled(p, more), Resends(p, more)
        PROVE  Recent'
    BY <1>4, HandledKinds, Resending DEF Answers, Resends
  <1>5. ASSUME UNCHANGED <<user, answers>>, NEW e \in Entry, ~ entry'[e].done,
               \A d \in Entry \ {e} : entry'[d] = entry[d],
               \A s \in Session : response'[s] \in {response[s], None, e}
        PROVE  Recent'
    BY <1>1, <1>5 DEF Recent, RecentAt
  <1>6. ASSUME NEW p \in Pending, NEW more \in {0, loop}, Handled(p, more), Executes(p, more)
        PROVE  Recent'
    <2> DEFINE n == NewOne
    <2>1. /\ n \in Entry /\ entry'[n] = Fresh(p) /\ \A d \in Entry \ {n} : entry'[d] = entry[d]
          /\ response' = [response EXCEPT ![p.session] = n] /\ UNCHANGED <<user, answers>>
      BY <1>6, Executing
    <2>2. ~ Fresh(p).done
      BY DEF Fresh, NoEntry
    <2> HIDE DEF n
    <2>3. \A s \in Session : response'[s] \in {response[s], None, n}
      BY <1>1, <2>1
    <2> QED BY <1>5, <2>1, <2>2, <2>3
  <1>7. ASSUME NEW p \in Pending, NEW more \in {0, loop}, Handled(p, more), Conflicts(p, more)
        PROVE  Recent'
    <2>1. /\ response' = [response EXCEPT ![p.session] = None]
          /\ UNCHANGED <<user, entry, answers>>
      BY <1>7 DEF Conflicts
    <2>2. \A s \in Session : response'[s] = response[s] \/ response'[s] = None
      BY <1>1, <2>1
    <2> QED BY <1>1, <2>1, <2>2 DEF Recent, RecentAt
  <1>8. ASSUME NEW p \in Pending, NEW more \in {0, loop}, Handled(p, more), Moves(p, more)
        PROVE  Recent'
    <2> DEFINE e == response[p.session]
    <2>1. /\ e \in Used /\ ~ entry[e].done /\ entry'[e] = Renewed(p, e)
          /\ \A d \in Entry \ {e} : entry'[d] = entry[d]
          /\ UNCHANGED <<user, response, answers>>
      BY <1>8, Moving DEF Moves
    <2> HIDE DEF e
    <2>2. Renewed(p, e).done = entry[e].done
      BY <1>1, <2>1 DEF Renewed, CacheEntry
    <2> QED BY <1>1, <1>5, <2>1, <2>2
  <1> QED BY <1>2, <1>3, <1>4, <1>6, <1>7, <1>8, CacheSteps

LEMMA Dividing ==
  ASSUME NEW a \in Nat, NEW q \in Nat \ {0}, NEW g \in Nat, ~ (a < g * q)
  PROVE  a \div q \in Nat /\ g <= a \div q
  <1> DEFINE d == a \div q
  <1>1. d \in Nat /\ a = q * d + (a % q) /\ a % q \in 0..(q - 1)
    OBVIOUS
  <1>2. ASSUME d < g PROVE FALSE
    <2>1. d + 1 <= g
      BY <1>1, <1>2
    <2>2. PICK k \in Nat : g = (d + 1) + k
      <3>1. g - (d + 1) \in Nat /\ g = (d + 1) + (g - (d + 1))
        BY <1>1, <2>1
      <3> QED BY <3>1
    <2>3. g * q = q * d + q + k * q /\ k * q \in Nat /\ q * d \in Nat
      BY <1>1, <2>2
    <2> QED BY <1>1, <2>3
  <1> QED BY <1>1, <1>2

LEMMA GenStep ==
  ASSUME TypeOK, Flow, Flow', Next
  PROVE  gen' \in Nat \ {0} /\ gen <= gen' /\ (UNCHANGED gen \/ Waits)
  <1>1. gen \in Nat \ {0} /\ QUEUESIZE \in Nat \ {0}
    BY MsgAssumption DEF TypeOK
  <1>2. ASSUME NEW ps, Pushed(ps) PROVE gen' \in Nat \ {0} /\ gen <= gen'
    <2>1. Len(queue') \in Nat
      BY LenProperties DEF Flow
    <2>2. gen' = IF Len(queue') < gen * QUEUESIZE THEN gen ELSE Len(queue') \div QUEUESIZE + 1
      BY <1>2 DEF Pushed
    <2>3. CASE Len(queue') < gen * QUEUESIZE
      BY <1>1, <2>2, <2>3
    <2>4. CASE ~ (Len(queue') < gen * QUEUESIZE)
      <3>1. Len(queue') \div QUEUESIZE \in Nat /\ gen <= Len(queue') \div QUEUESIZE
        BY <1>1, <2>1, <2>4, Dividing
      <3>2. gen' = Len(queue') \div QUEUESIZE + 1
        BY <2>2, <2>4
      <3> DEFINE d == Len(queue') \div QUEUESIZE
      <3> HIDE DEF d
      <3>3. d \in Nat /\ gen <= d /\ gen' = d + 1
        BY <3>1, <3>2 DEF d
      <3> QED BY <1>1, <3>3
    <2> QED BY <2>3, <2>4
  <1>3. ASSUME NEW f \in Fd, Read(f)
        PROVE  UNCHANGED gen \/ (Waits /\ \E ps : Pushed(ps))
    <2>1. CASE ReadOne(f)
      BY <2>1 DEF ReadOne, Waits
    <2>2. CASE \E k \in 2..Len(wire[f]) : ReadMore(f, k)
      BY <2>2 DEF ReadMore, Waits
    <2> QED BY <1>3, <2>1, <2>2 DEF Read
  <1>4. ASSUME More \/ Logout PROVE UNCHANGED gen
    BY <1>4 DEF More, Logout
  <1>5. ASSUME Return PROVE UNCHANGED gen
    <2>1. PICK c \in calls : Welcomed(c) \/ Done(c)
      BY <1>5 DEF Return
    <2> QED BY <2>1 DEF Welcomed, Done
  <1>6. ASSUME NEW f \in Fd, Open(f) \/ Break(f) \/ Close(f) PROVE UNCHANGED gen
    BY <1>6 DEF Open, Break, Close, gateVars
  <1>7. ASSUME NEW f \in Fd, NEW s \in Session, Request(f, s) \/ Repeat(f, s) PROVE UNCHANGED gen
    BY <1>7 DEF Request, Repeat, gateVars
  <1>8. ASSUME NEW f \in Fd, NEW n \in back[f], Receive(f, n) PROVE UNCHANGED gen
    BY <1>8 DEF Receive, gateVars
  <1>9. UNCHANGED gen \/ (Waits /\ \E ps : Pushed(ps))
    BY <1>3, <1>4, <1>5, <1>6, <1>7, <1>8 DEF Next, Serve, Notice
  <1> QED BY <1>1, <1>2, <1>9

\* The loop of MSG.more goes on, ends, or is gone on with when a call returns.
LEMMA LoopStep ==
  ASSUME IInv, Next, UNCHANGED gen
  PROVE  loop' \in 0..gen
  <1> USE DEF IInv, FlowInv
  <1>1. gen \in Nat \ {0} /\ loop \in 0..gen /\ \A c \in calls : c.more \in 0..gen
    BY DEF TypeOK
  <1>2. ASSUME NEW p \in Pending, NEW more \in {0, loop}, Handled(p, more) PROVE loop' \in 0..gen
    <2>1. loop' = more \/ loop' = 0
      <3>1. CASE Greets(p, more) \/ Executes(p, more)
        BY <3>1 DEF Greets, Auth, Executes, Execute
      <3>2. CASE \/ Drops(p, more) \/ Refuses(p, more) \/ Conflicts(p, more) \/ Moves(p, more)
                 \/ Resends(p, more)
        BY <3>2 DEF Drops, Refuses, Conflicts, Moves, Resends
      <3> QED BY <1>2, <3>1, <3>2, HandledKinds
    <2> QED BY <1>1, <1>2, <2>1
  <1>3. CASE Waits
    BY <1>1, <1>3 DEF Waits
  <1>4. ASSUME NEW f \in Fd, Open(f) \/ Break(f) \/ Close(f) PROVE loop' \in 0..gen
    BY <1>1, <1>4 DEF Open, Break, Close, gateVars
  <1>5. ASSUME NEW f \in Fd, NEW s \in Session, Request(f, s) \/ Repeat(f, s) PROVE loop' \in 0..gen
    BY <1>1, <1>5 DEF Request, Repeat, gateVars
  <1>6. ASSUME NEW f \in Fd, NEW n \in back[f], Receive(f, n) PROVE loop' \in 0..gen
    BY <1>1, <1>6 DEF Receive, gateVars
  <1>7. CASE Logout
    BY <1>1, <1>7 DEF Logout
  <1>8. ASSUME NEW c \in calls, Welcomed(c) \/ Done(c) PROVE loop' \in 0..gen
    BY <1>1, <1>8 DEF Welcomed, Done
  <1> QED BY <1>2, <1>3, <1>4, <1>5, <1>6, <1>7, <1>8, Steps

LEMMA TypeStep ==
  ASSUME IInv, Next, Flow'
  PROVE  TypeOK'
  <1> USE DEF IInv, FlowInv
  <1> DEFINE User == [online : BOOLEAN, version : Fd \cup {None}, index : Nat, fd : Fd \cup {None}]
             Call == [kind : {"heartbeat", "request"}, of : Nat, more : 0..gen]
             Rest == /\ back' \in [Fd -> SUBSET (0..MaxSends)] /\ user' \in User
                     /\ calls' \subseteq Call
  <1>1. /\ back \in [Fd -> SUBSET (0..MaxSends)] /\ user \in User /\ MaxSends \in Nat
        /\ calls \subseteq Call /\ gen \in Nat \ {0} /\ loop \in 0..gen
    BY Typed, ClientTypes DEF TypeOK
  <1>2. ASSUME NEW f, NEW n \in 0..MaxSends, Answered(f, n)
        PROVE  back' \in [Fd -> SUBSET (0..MaxSends)]
    BY <1>1, <1>2 DEF Answered
  <1>3. ASSUME UNCHANGED <<user, calls, back>> PROVE Rest
    BY <1>1, <1>3
  <1>4. ASSUME NEW f \in Fd, Open(f) \/ Close(f) PROVE Rest
    <2>1. UNCHANGED <<calls, back>> /\ (UNCHANGED user \/ user' = [user EXCEPT !.fd = None])
      BY <1>4 DEF Open, Close, cacheVars
    <2> QED BY <1>1, <2>1
  <1>5. ASSUME NEW f \in Fd, Break(f) PROVE Rest
    <2>1. UNCHANGED <<user, calls>> /\ back' = [back EXCEPT ![f] = {}]
      BY <1>5 DEF Break, serverVars, cacheVars
    <2> QED BY <1>1, <2>1
  <1>6. ASSUME NEW f \in Fd, NEW n \in back[f], Receive(f, n) PROVE Rest
    <2>1. UNCHANGED <<user, calls>> /\ back' = [back EXCEPT ![f] = @ \ {n}]
      BY <1>6 DEF Receive, serverVars, cacheVars
    <2> QED BY <1>1, <2>1
  <1>7. ASSUME NEW f \in Fd, NEW s \in Session, Request(f, s) \/ Repeat(f, s) PROVE Rest
    BY <1>3, <1>7 DEF Request, Repeat, serverVars, cacheVars
  <1>8. ASSUME Logout PROVE Rest
    BY <1>1, <1>8 DEF Logout
  <1>9. ASSUME Waits PROVE Rest
    BY <1>3, <1>9 DEF Waits, serverVars, cacheVars
  <1>10. ASSUME NEW c \in calls, Welcomed(c) PROVE Rest
    BY <1>1, <1>10 DEF Welcomed, cacheVars
  <1>11. ASSUME NEW e, NEW x \in CacheEntry, Answers(e, x), calls' \subseteq calls PROVE Rest
    <2>1. /\ user' = [user EXCEPT !.index = user'.index] /\ user'.index \in Nat
          /\ Answered(x.fd, x.use) \/ UNCHANGED back
      BY <1>11 DEF Answers
    <2>2. x.use \in 0..MaxSends
      BY DEF CacheEntry
    <2> QED BY <1>1, <1>2, <1>11, <2>1, <2>2
  <1>12. ASSUME NEW c \in calls, Done(c) PROVE Rest
    <2>1. calls' \subseteq calls
      BY <1>12 DEF Done
    <2> QED BY <1>11, <1>12, <2>1, Ending
  <1>13. ASSUME NEW p \in Pending, NEW more \in {0, loop}, Handled(p, more) PROVE Rest
    <2>1. p.fd \in Fd /\ more \in 0..gen
      BY <1>1, <1>13, HandledKinds
    <2>2. CASE Drops(p, more) \/ Refuses(p, more) \/ Conflicts(p, more) \/ Moves(p, more)
      BY <1>3, <2>2 DEF Drops, Refuses, Conflicts, Moves, serverVars, cacheVars
    <2>3. CASE Greets(p, more)
      <3>1. /\ user' = [user EXCEPT !.version = p.fd, !.fd = p.fd] /\ Answered(p.fd, 0)
            /\ calls' = calls \cup {[kind |-> "heartbeat", of |-> p.fd, more |-> more]}
        BY <2>3 DEF Greets, Auth
      <3>2. [kind |-> "heartbeat", of |-> p.fd, more |-> more] \in Call
        BY <2>1 DEF Fd
      <3>3. back' \in [Fd -> SUBSET (0..MaxSends)]
        BY <1>1, <1>2, <3>1
      <3>4. user' \in User
        BY <1>1, <2>1, <3>1
      <3> HIDE DEF Call
      <3> QED BY <1>1, <3>1, <3>2, <3>3, <3>4
    <2>4. CASE Executes(p, more)
      <3>1. /\ UNCHANGED <<user, back>> /\ NewOne \in Entry
            /\ calls' = calls \cup {[kind |-> "request", of |-> NewOne, more |-> more]}
        BY <1>13, <2>4, Executing
      <3>2. [kind |-> "request", of |-> NewOne, more |-> more] \in Call
        BY <2>1, <3>1 DEF Entry
      <3> HIDE DEF Call
      <3> QED BY <1>1, <3>1, <3>2
    <2>5. CASE Resends(p, more)
      <3>1. calls' \subseteq calls /\ p \in Pkg /\ p.session \in Session
        BY <1>13, <2>5, HandledKinds DEF Resends
      <3> QED BY <1>11, <2>5, <3>1, Resending
    <2> HIDE DEF Rest
    <2> QED BY <1>13, <2>2, <2>3, <2>4, <2>5, HandledKinds
  <1> HIDE DEF Rest
  <1>14. Rest
    BY <1>4, <1>5, <1>6, <1>7, <1>8, <1>9, <1>10, <1>12, <1>13, Steps
  <1>15. /\ gen' \in Nat \ {0} /\ gen <= gen' /\ (UNCHANGED gen \/ Waits)
    BY GenStep
  <1>16. loop' \in 0..gen'
    <2>1. CASE UNCHANGED gen
      BY <2>1, LoopStep
    <2>2. CASE Waits
      BY <1>1, <1>15, <2>2 DEF Waits
    <2> QED BY <1>15, <2>1, <2>2
  <1>17. calls' \subseteq [kind : {"heartbeat", "request"}, of : Nat, more : 0..gen']
    <2>1. 0..gen \subseteq 0..gen'
      BY <1>1, <1>15
    <2> QED BY <1>14, <2>1 DEF Rest
  <1>18. user' \in User /\ back' \in [Fd -> SUBSET (0..MaxSends)]
    BY <1>14 DEF Rest
  <1> QED BY <1>15, <1>16, <1>17, <1>18, ClientTypesStep, ConnectionStep, EntriesKept
          DEF TypeOK, CacheEntry

LEMMA InitInv == Init => IInv
  <1> SUFFICES ASSUME Init PROVE IInv
    OBVIOUS
  <1>1. /\ \A f \in Fd : state[f] = "new" /\ wire[f] = <<>> /\ back[f] = {} /\ ~ connection[f]
        /\ queue = <<>> /\ calls = {} /\ \A e \in Entry : entry[e] = NoEntry
        /\ \A s \in Session : response[s] = None /\ asked[s].use = 0 /\ asked[s].answered
        /\ sends = 0
    BY DEF Init
  <1>2. TypeOK
    <2>1. /\ NoEntry \in CacheEntry /\ 0 \in 0..MaxSends /\ 1 \in Nat \ {0} /\ 0 \in 0..1
          /\ None \in Fd \cup {None} /\ None \in Session \cup {None} /\ None \in Entry \cup {None}
      BY MsgAssumption DEF NoEntry, CacheEntry
    <2>2. asked \in [Session -> [use : 0..MaxSends, first : Fd \cup {None}, fd : Fd \cup {None},
                                 answered : BOOLEAN]]
      BY <2>1 DEF Init
    <2>3. user \in [online : BOOLEAN, version : Fd \cup {None}, index : Nat, fd : Fd \cup {None}]
      BY <2>1 DEF Init, None
    <2>4. entry \in [Entry -> CacheEntry] /\ response \in [Session -> Entry \cup {None}]
      BY <2>1 DEF Init
    <2> QED BY <2>1, <2>2, <2>3, <2>4 DEF Init, TypeOK, CacheEntry
  <1>3. wire \in [Fd -> Seq(Pkg)]
    BY NoElements DEF Init
  <1>4. Unread = {}
    BY <1>1, NoElements DEF Unread
  <1>5. Used = {}
    BY <1>1 DEF Used
  <1>6. Flow
    BY <1>1, <1>3, <1>4, NoElements DEF Flow, Behind
  <1>7. Clients
    BY <1>1 DEF Clients
  <1>8. Entries
    <2>1. Cardinality({}) = 0
      BY FS_EmptySet
    <2> QED BY <1>1, <1>5, <2>1 DEF Entries
  <1>9. Order /\ Recent
    BY <1>1, <1>4, <1>5 DEF Order, InOrder, Pending, Recent, None, Entry
  <1> QED BY <1>2, <1>6, <1>7, <1>8, <1>9 DEF IInv, FlowInv

LEMMA NextInv == IInv /\ [Next]_vars => IInv'
  <1> SUFFICES ASSUME IInv, [Next]_vars PROVE IInv'
    OBVIOUS
  <1>1. CASE Next
    <2>1. Flow'
      BY <1>1, FlowStep DEF IInv
    <2>2. Clients'
      BY <1>1, ClientsStep DEF IInv
    <2>3. TypeOK'
      BY <1>1, <2>1, TypeStep
    <2> QED BY <1>1, <2>1, <2>2, <2>3, EntriesStep, OrderStep, RecentStep DEF IInv, FlowInv
  <1>2. CASE UNCHANGED vars
    <2>1. TypeOK'
      BY <1>2 DEF IInv, FlowInv, TypeOK, vars, clientVars, gateVars, cacheVars, serverVars
    <2>2. Flow' /\ Clients'
      BY <1>2 DEF IInv, FlowInv, Flow, Clients, Unread, ToSet, Lined, Behind, Follows, Listening,
                  vars, clientVars, gateVars
    <2>3. Used' = Used /\ Pending' = Pending
      BY <1>2 DEF Used, Pending, Unread, ToSet, vars, clientVars, gateVars, cacheVars, serverVars
    <2>4. Entries'
      BY <1>2, <2>3 DEF IInv, Entries, vars, clientVars, gateVars, cacheVars, serverVars
    <2>5. Order' /\ Recent'
      BY <1>2, <2>3 DEF IInv, Order, InOrder, Recent, RecentAt, vars, clientVars, gateVars, cacheVars,
                        serverVars
    <2> QED BY <2>1, <2>2, <2>4, <2>5 DEF IInv, FlowInv
  <1> QED BY <1>1, <1>2

-----------------------------------------------------------------------------
(* The theorems                                                            *)

\* The inductive invariant: packages stay in line, entries are counted and
\* belong to the requests that made them, cached answers are recent.
THEOREM Invariant == Spec => []IInv
  <1>1. Init => IInv
    BY InitInv
  <1>2. IInv /\ [Next]_vars => IInv'
    BY NextInv
  <1> QED BY <1>1, <1>2, PTL DEF Spec

\* Type correctness.
THEOREM TypeCorrect == Spec => []TypeOK
  <1>1. IInv => TypeOK
    BY DEF IInv, FlowInv
  <1> QED BY <1>1, Invariant, PTL

\* Requests of one connection go to the agent in the order they were sent,
\* although the loop of MSG.more yields in each of them.
THEOREM RequestsInOrder == Spec => []InOrder
  <1>1. IInv => InOrder
    BY DEF IInv, Order
  <1> QED BY <1>1, Invariant, PTL

\* The coroutine that a call of the agent suspends goes on with the queue when
\* the call returns.
LEMMA ServedStep ==
  ASSUME IInv, IInv', QueueServed, [Next]_vars
  PROVE  QueueServed'
  <1> USE DEF IInv, FlowInv
  <1> SUFFICES ASSUME queue' # <<>>, user'.online, gen' = 1
               PROVE  loop' = gen' \/ \E c \in calls' : c.more = gen'
    BY DEF QueueServed
  <1>1. CASE UNCHANGED vars
    BY <1>1 DEF QueueServed, vars, gateVars, serverVars, cacheVars
  <1>2. CASE Next
    <2>1. gen = 1 /\ UNCHANGED gen
      <3>1. gen' \in Nat \ {0} /\ gen <= gen' /\ gen \in Nat \ {0}
        BY <1>2, GenStep DEF TypeOK
      <3> QED BY <3>1
    <2>2. user \in [online : BOOLEAN, version : Fd \cup {None}, index : Nat, fd : Fd \cup {None}]
      BY Typed
    <2>3. ASSUME UNCHANGED <<queue, loop, calls, user>> PROVE loop' = gen' \/ \E c \in calls' : c.more = gen'
      BY <2>1, <2>3 DEF QueueServed
    <2>4. ASSUME NEW f \in Fd, Open(f) \/ Break(f) \/ \E n \in back[f] : Receive(f, n)
          PROVE  UNCHANGED <<queue, loop, calls, user>>
      BY <2>4 DEF Open, Break, Receive, gateVars, serverVars, cacheVars
    <2>5. ASSUME NEW f \in Fd, NEW s \in Session, Request(f, s) \/ Repeat(f, s)
          PROVE  UNCHANGED <<queue, loop, calls, user>>
      BY <2>5 DEF Request, Repeat, gateVars, serverVars, cacheVars
    <2>6. ASSUME NEW f \in Fd, Close(f)
          PROVE  UNCHANGED <<queue, loop, calls>> /\ user.online
      <3>1. UNCHANGED <<queue, loop, calls>> /\ (UNCHANGED user \/ user' = [user EXCEPT !.fd = None])
        BY <2>6 DEF Close
      <3> QED BY <2>2, <3>1
    <2>7. ~ Logout
      BY <2>2 DEF Logout
    <2>8. ASSUME NEW c \in calls, Welcomed(c) \/ Done(c)
          PROVE  loop' = gen' \/ \E b \in calls' : b.more = gen'
      <3>1. queue # <<>> /\ loop = 0 /\ calls' = calls \ {c}
        BY <2>8 DEF Welcomed, Done
      <3>2. user.online /\ loop' = c.more
        <4>1. CASE Welcomed(c)
          BY <4>1 DEF Welcomed, cacheVars
        <4>2. CASE Done(c)
          <5>1. user' = [user EXCEPT !.index = user'.index] /\ loop' = c.more
            BY <4>2, Ending DEF Answers, Done
          <5> QED BY <2>2, <5>1
        <4> QED BY <2>8, <4>1, <4>2
      <3>3. PICK b \in calls : b.more = gen
        BY <2>1, <3>1, <3>2 DEF QueueServed
      <3> QED BY <2>1, <3>1, <3>2, <3>3
    <2>9. ASSUME NEW f \in Fd, Read(f)
          PROVE  loop' = gen' \/ (UNCHANGED <<loop, calls, user>> /\ queue # <<>>)
      <3>1. ASSUME ReadOne(f) PROVE UNCHANGED <<loop, calls, user>> /\ queue # <<>>
        <4>1. queue # <<>>
          BY <3>1 DEF ReadOne
        <4> QED BY <3>1, <4>1 DEF ReadOne, serverVars, cacheVars
      <3>2. CASE \E k \in 2..Len(wire[f]) : ReadMore(f, k)
        BY <3>2 DEF ReadMore
      <3> QED BY <2>9, <3>1, <3>2 DEF Read
    <2>10. ASSUME More
           PROVE  loop' = gen' \/ \E c \in calls' : c.more = gen'
      <3>1. CASE loop = gen /\ queue # <<>>
        <4> DEFINE p == Head(queue)
        <4>1. Handle(p, loop)
          BY <2>10, <3>1 DEF More
        <4>2. p \in Pkg /\ (connection[p.fd] => p.session \in Session)
          <5>1. p \in ToSet(queue)
            BY <3>1, LinedTail DEF Flow
          <5>2. p \in Pending /\ p \in Pkg /\ p.kind # "eof"
            BY <5>1, Unreads DEF Pending
          <5> QED BY <5>2, Numbers DEF Order
        <4> HIDE DEF p
        <4>3. \/ Drops(p, loop) \/ Refuses(p, loop) \/ Greets(p, loop) \/ Executes(p, loop)
              \/ Conflicts(p, loop) \/ Moves(p, loop) \/ Resends(p, loop)
          BY <4>1, <4>2, Handling
        <4>4. CASE Greets(p, loop)
          <5>1. [kind |-> "heartbeat", of |-> p.fd, more |-> loop] \in calls'
            BY <4>4 DEF Greets, Auth
          <5> QED BY <2>1, <3>1, <5>1
        <4>5. CASE Executes(p, loop)
          <5>1. [kind |-> "request", of |-> NewOne, more |-> loop] \in calls'
            BY <4>5 DEF Executes, Execute, NewOne
          <5> QED BY <2>1, <3>1, <5>1
        <4>6. CASE \/ Drops(p, loop) \/ Refuses(p, loop) \/ Conflicts(p, loop) \/ Moves(p, loop)
                   \/ Resends(p, loop)
          <5>1. loop' = loop
            BY <4>6 DEF Drops, Refuses, Conflicts, Moves, Resends
          <5> QED BY <2>1, <3>1, <5>1
        <4> QED BY <4>3, <4>4, <4>5, <4>6
      <3>2. CASE ~ (loop = gen /\ queue # <<>>)
        <4>1. UNCHANGED <<queue, calls, user>>
          BY <2>10, <3>2 DEF More, serverVars, cacheVars
        <4> QED BY <2>1, <3>2, <4>1 DEF QueueServed
      <3> QED BY <3>1, <3>2
    <2>11. ASSUME NEW f \in Fd, Close(f) PROVE loop' = gen' \/ \E c \in calls' : c.more = gen'
      BY <2>1, <2>6, <2>11 DEF QueueServed
    <2>12. ASSUME NEW f \in Fd, Read(f) PROVE loop' = gen' \/ \E c \in calls' : c.more = gen'
      BY <2>1, <2>9, <2>12 DEF QueueServed
    <2> QED BY <1>2, <2>3, <2>4, <2>5, <2>7, <2>8, <2>10, <2>11, <2>12 DEF Next, Serve, Notice, Return
  <1> QED BY <1>1, <1>2

\* Packages that wait have a coroutine that will handle them.
THEOREM WaitingServed == Spec => []QueueServed
  <1>1. Init => QueueServed
    BY DEF Init, QueueServed
  <1>2. IInv /\ IInv' /\ QueueServed /\ [Next]_vars => QueueServed'
    BY ServedStep
  <1> QED BY <1>1, <1>2, Invariant, PTL DEF Spec

\* An answer leaves the cache when its session is used again, or when
\* expired_number answers have been made since.
LEMMA KeepsStep ==
  ASSUME IInv, [Next]_vars, NEW s \in Session, response[s] # None, response'[s] = None
  PROVE  \/ Reused(response[s])
         \/ entry[response[s]].done /\ answers' - entry[response[s]].at >= expired_number
  <1> USE DEF IInv, FlowInv
  <1>1. response \in [Session -> Entry \cup {None}] /\ None \notin Entry
    BY Typed DEF None, Entry
  <1>2. ~ UNCHANGED response
    OBVIOUS
  <1>3. ASSUME NEW e, NEW x, Answers(e, x)
        PROVE  entry[response[s]].done /\ answers' - entry[response[s]].at >= expired_number
    BY <1>3 DEF Answers
  <1>4. ASSUME NEW c \in calls, Done(c)
        PROVE  entry[response[s]].done /\ answers' - entry[response[s]].at >= expired_number
    BY <1>3, <1>4, Ending
  <1>5. ASSUME NEW p \in Pending, NEW more \in {0, loop}, Handled(p, more), Resends(p, more)
        PROVE  entry[response[s]].done /\ answers' - entry[response[s]].at >= expired_number
    BY <1>3, <1>5, HandledKinds, Resending DEF Resends
  <1>6. ASSUME NEW p \in Pending, NEW more \in {0, loop}, Handled(p, more), Executes(p, more)
        PROVE  FALSE
    <2>1. NewOne \in Entry /\ response' = [response EXCEPT ![p.session] = NewOne]
      BY <1>6, Executing
    <2> QED BY <1>1, <2>1
  <1>7. ASSUME NEW p \in Pending, NEW more \in {0, loop}, Handled(p, more), Conflicts(p, more)
        PROVE  Reused(response[s])
    <2>1. response' = [response EXCEPT ![p.session] = None] /\ Reused(response[p.session])
      BY <1>7 DEF Conflicts
    <2>2. s = p.session
      BY <1>1, <2>1
    <2> QED BY <2>1, <2>2
  <1>8. ASSUME NEW p \in Pending, NEW more \in {0, loop}, Handled(p, more), Moves(p, more)
        PROVE  FALSE
    BY <1>2, <1>8 DEF Moves
  <1>9. ~ CacheStays /\ Next
    BY <1>2 DEF CacheStays, vars, serverVars, cacheVars
  <1> QED BY <1>4, <1>5, <1>6, <1>7, <1>8, <1>9, CacheSteps

THEOREM CacheKeeps == Spec => CacheKeepsRecent
  <1> DEFINE Keeping == \A s \in Session :
               LET e == response[s]
               IN e # None /\ response'[s] = None =>
                    \/ Reused(e)
                    \/ entry[e].done /\ answers' - entry[e].at >= expired_number
  <1>1. IInv /\ [Next]_vars => [Keeping]_vars
    BY KeepsStep
  <1>2. CacheKeepsRecent <=> [][Keeping]_vars
    BY DEF CacheKeepsRecent
  <1> HIDE DEF Keeping
  <1> QED BY <1>1, <1>2, Invariant, PTL DEF Spec

-----------------------------------------------------------------------------
(* Requests and their answers, when connections are read in turn           *)

\* What there is of session s: packages on their way, and entries.
Asking(s) == {p \in Pending : p.session = s}
Of(s) == {e \in Used : entry[e].session = s}

\* The request u is one under session s.
Says(u, s) ==
  \/ asked[s].use = u
  \/ \E p \in Asking(s) : p.use = u
  \/ \E e \in Of(s) : entry[e].use = u

Owned == \A u \in 1..MaxSends, r, s \in Session : Says(u, r) /\ Says(u, s) => r = s

\* What is on its way to the client answers a request that was executed.
Backed == \A f \in Fd : \A n \in back[f] \ {0} : \E e \in Used : entry[e].use = n

Client ==
  \A s \in Session :
    /\ asked[s].use = 0 <=> asked[s].fd = None
    /\ asked[s].first <= asked[s].fd

\* The gate has not shaken hands on a newer connection than the client, and
\* what waits was sent on that connection or on newer ones.
Versions ==
  /\ \A p \in Pending : p.fd >= user.version
  /\ \A f \in Fd : connection[f] \/ state[f] = "ok" \/ 0 \in back[f] => f <= user.version
  /\ \A s \in Session : asked[s].fd <= user.version
  /\ user.version # None => state[user.version] # "new"

\* The state of session s.
Placed(s) ==
  /\ \A p \in Asking(s) : p.fd <= asked[s].fd /\ (p.fd = asked[s].fd => p.use = asked[s].use)
  /\ \A e \in Of(s) :
       /\ entry[e].asked <= asked[s].fd
       /\ \A f \in Fd : entry[e].use \in back[f] => f <= asked[s].fd
       /\ entry[e].use # asked[s].use => entry[e].done
       /\ entry[e].use = asked[s].use => \/ response[s] = None
                                         \/ entry[response[s]].use = asked[s].use
       /\ entry[e].done /\ ~ entry[e].late => entry[e].asked = entry[e].version
       /\ ~ entry[e].done /\ entry[e].version # None => entry[e].version = entry[e].asked
  /\ asked[s].use # 0 /\ asked[s].answered => \E e \in Of(s) : entry[e].use = asked[s].use

\* A request that is not repeated on one connection is there once: as a
\* package, as a call of the agent, as an answer, or in the cache.
OnlyPackage(s) ==
  \A p \in Asking(s) : p.fd = asked[s].fd =>
    /\ \A q \in Asking(s) : q.fd = asked[s].fd => p = q
    /\ ~ asked[s].answered
    /\ \A e \in Of(s) : /\ entry[e].use \notin back[asked[s].fd]
                        /\ entry[e].use = asked[s].use => entry[e].asked # asked[s].fd
OnlyCall(s) ==
  \A e \in Of(s) : entry[e].use = asked[s].use /\ ~ entry[e].done =>
    response[s] = e /\ asked[s].use \notin back[asked[s].fd] /\ ~ asked[s].answered
OnlyAnswer(s) ==
  /\ asked[s].use \in back[asked[s].fd] => ~ asked[s].answered
  /\ /\ user.version = asked[s].fd /\ response[s] # None
     /\ asked[s].use \in back[asked[s].fd] \/ asked[s].answered
     => /\ entry[response[s]].use = asked[s].use /\ entry[response[s]].done
        /\ entry[response[s]].version = asked[s].fd
Once(s) ==
  asked[s].use # 0 /\ asked[s].use \notin again => OnlyPackage(s) /\ OnlyCall(s) /\ OnlyAnswer(s)

\* The answer on its way is the one to the last request, unless that was lost;
\* an older answer in the cache can be told by its version.
Matches(s) ==
  asked[s].use # 0 =>
    /\ \A e \in Of(s) : entry[e].use \in back[asked[s].fd] =>
         entry[e].use = asked[s].use \/ Lost(s)
    /\ /\ response[s] # None /\ asked[s].first = asked[s].fd
       /\ entry[response[s]].use # asked[s].use
       => entry[response[s]].version = asked[s].fd

Asked(s) == Placed(s) /\ Once(s) /\ Matches(s)
Turned == Owned /\ Backed /\ Client /\ Versions
TurnInv == Turned /\ \A s \in Session : Asked(s)

\* A step that does nothing to the requests, but may lose some.
Quiet ==
  /\ Pending' \subseteq Pending
  /\ UNCHANGED <<asked, sends, again, response, entry>> /\ user'.version = user.version
  /\ \A f \in Fd : /\ connection'[f] => connection[f]
                   /\ state'[f] = state[f] \/ (state'[f] = "closed" /\ state[f] # "new")
                   /\ back'[f] \subseteq back[f]

LEMMA Kinds ==
  ASSUME IInv, Next
  PROVE  \/ Quiet
         \/ \E f \in Fd : Open(f) /\ Pending' \subseteq Pending \cup {Hello(f)}
         \/ \E f \in Fd, s \in Session :
              \/ Request(f, s) /\ Pending' \subseteq Pending \cup {AskPackage(f, s, sends + 1)}
              \/ Repeat(f, s) /\ Pending' \subseteq Pending \cup {AskPackage(f, s, asked[s].use)}
         \/ \E f \in Fd : \E n \in back[f] : Receive(f, n) /\ Pending' \subseteq Pending
         \/ \E c \in calls : Done(c) /\ Pending' \subseteq Pending
         \/ \E p \in Pending : \E more \in {0, loop} :
              /\ Handled(p, more)
              /\ \/ Greets(p, more) \/ Executes(p, more) \/ Conflicts(p, more) \/ Moves(p, more)
                 \/ Resends(p, more)
  <1> USE DEF IInv, FlowInv
  <1>1. /\ user \in [online : BOOLEAN, version : Fd \cup {None}, index : Nat, fd : Fd \cup {None}]
        /\ connection \in [Fd -> BOOLEAN] /\ back \in [Fd -> SUBSET (0..MaxSends)]
        /\ state \in [Fd -> {"new", "hello", "ok", "closed"}]
    BY Typed, ClientTypes
  <1>2. ASSUME Pending' \subseteq Pending, UNCHANGED <<asked, sends, again, state, back, response, entry>>,
               user'.version = user.version, \A f \in Fd : connection'[f] => connection[f]
        PROVE  Quiet
    BY <1>2 DEF Quiet
  <1>3. ASSUME NEW f \in Fd, Break(f), Pending' \subseteq Pending PROVE Quiet
    <2>1. /\ state' = [state EXCEPT ![f] = "closed"] /\ state[f] # "new"
          /\ back' = [back EXCEPT ![f] = {}]
          /\ UNCHANGED <<asked, sends, again, connection, user, response, entry>>
      BY <1>3 DEF Break, Listening, serverVars, cacheVars
    <2> QED BY <1>1, <1>3, <2>1 DEF Quiet
  <1>4. ASSUME NEW f \in Fd, Close(f), Pending' \subseteq Pending PROVE Quiet
    <2>1. /\ connection' = [connection EXCEPT ![f] = FALSE]
          /\ user' = user \/ user' = [user EXCEPT !.fd = None]
          /\ UNCHANGED <<asked, sends, again, state, back, response, entry>>
      BY <1>4 DEF Close, clientVars
    <2> QED BY <1>1, <1>2, <1>4, <2>1
  <1>5. ASSUME Logout, Pending' \subseteq Pending PROVE Quiet
    <2>1. /\ connection' = connection \/ connection' = [connection EXCEPT ![user.fd] = FALSE]
          /\ user' = [user EXCEPT !.online = FALSE]
          /\ UNCHANGED <<asked, sends, again, state, back, response, entry>>
      BY <1>5 DEF Logout, clientVars
    <2> QED BY <1>1, <1>2, <1>5, <2>1
  <1>6. ASSUME Waits, Pending' \subseteq Pending PROVE Quiet
    BY <1>2, <1>6 DEF Waits, clientVars, serverVars, cacheVars
  <1>7. ASSUME NEW c \in calls, Welcomed(c), Pending' \subseteq Pending PROVE Quiet
    BY <1>2, <1>7 DEF Welcomed, clientVars, cacheVars
  <1>8. ASSUME NEW p \in Pending, NEW more \in {0, loop}, Handled(p, more), Drops(p, more) \/ Refuses(p, more)
        PROVE  Quiet
    <2>1. UNCHANGED clientVars /\ Pending' \subseteq Pending
      BY <1>8 DEF Handled
    <2>2. UNCHANGED <<back, connection, cacheVars>>
      BY <1>8 DEF Drops, Refuses, serverVars
    <2> QED BY <1>2, <2>1, <2>2 DEF clientVars, cacheVars
  <1>9. ASSUME NEW p \in Pending, NEW more \in {0, loop}, Handled(p, more)
        PROVE  \/ Quiet
               \/ Greets(p, more) \/ Executes(p, more) \/ Conflicts(p, more) \/ Moves(p, more)
               \/ Resends(p, more)
    BY <1>8, <1>9, HandledKinds
  <1> QED BY <1>3, <1>4, <1>5, <1>6, <1>7, <1>9, Steps

LEMMA SessionTypes ==
  ASSUME IInv, NEW s \in Session
  PROVE  /\ asked[s] \in [use : 0..MaxSends, first : Fd \cup {None}, fd : Fd \cup {None},
                          answered : BOOLEAN]
         /\ asked[s].use \in Nat /\ asked[s].use <= sends /\ (~ asked[s].answered => asked[s].use # 0)
         /\ response[s] # None => response[s] \in Of(s)
         /\ response[s] \in Entry \cup {None} /\ None \notin Entry
         /\ \A e \in Of(s) :
              /\ e \in Entry /\ e \in Used /\ entry[e] \in CacheEntry /\ entry[e].session = s
              /\ entry[e].use \in 1..sends /\ entry[e].use \in 1..MaxSends /\ entry[e].asked \in Fd
              /\ ~ entry[e].done => ~ entry[e].late
         /\ \A p \in Asking(s) :
              /\ p \in Pkg /\ p.fd \in Fd /\ p.kind = "request" /\ p.session = s
              /\ p.use \in 1..MaxSends /\ p.use <= sends /\ p.n \in Nat
  <1> USE DEF IInv, FlowInv
  <1>1. /\ asked \in [Session -> [use : 0..MaxSends, first : Fd \cup {None}, fd : Fd \cup {None},
                                  answered : BOOLEAN]]
        /\ sends \in 0..MaxSends /\ MaxSends \in Nat
    BY ClientTypes
  <1>2. entry \in [Entry -> CacheEntry] /\ response \in [Session -> Entry \cup {None}]
    BY Typed
  <1>3. None \notin Entry /\ None \notin Session /\ Used \subseteq Entry
    BY MsgAssumption DEF None, Entry, Session, Used
  <1>4. asked[s].use <= sends /\ (~ asked[s].answered => asked[s].use # 0)
    BY DEF Clients
  <1>5. response[s] # None => response[s] \in Of(s)
    BY DEF Entries, Of
  <1>6. ASSUME NEW e \in Of(s)
        PROVE  /\ e \in Entry /\ e \in Used /\ entry[e] \in CacheEntry /\ entry[e].session = s
               /\ entry[e].use \in 1..sends /\ entry[e].use \in 1..MaxSends /\ entry[e].asked \in Fd
               /\ ~ entry[e].done => ~ entry[e].late
    <2>1. e \in Used /\ e \in Entry /\ entry[e].session = s
      BY <1>3 DEF Of
    <2>2. entry[e].use \in 1..sends /\ entry[e].asked \in Fd /\ (~ entry[e].done => ~ entry[e].late)
      BY <2>1 DEF Entries
    <2> QED BY <1>1, <1>2, <2>1, <2>2
  <1>7. ASSUME NEW p \in Asking(s)
        PROVE  /\ p \in Pkg /\ p.fd \in Fd /\ p.kind = "request" /\ p.session = s
               /\ p.use \in 1..MaxSends /\ p.use <= sends /\ p.n \in Nat
    <2>1. p \in Pending /\ p \in Pkg /\ p \in Unread /\ p.session = s
      BY Unreads DEF Asking, Pending
    <2>2. p.kind = "request"
      BY <1>3, <2>1 DEF Pkg
    <2> QED BY <2>1, <2>2, Numbers DEF Flow
  <1> QED BY <1>1, <1>2, <1>3, <1>4, <1>5, <1>6, <1>7

\* No request of session s, nor what is known of it, changes.
Keeps(s) ==
  /\ asked'[s] = asked[s] /\ again \subseteq again'
  /\ Asking(s)' \subseteq Asking(s)
  /\ Of(s)' = Of(s) /\ \A e \in Of(s) : Same(entry'[e], entry[e])
  /\ \/ response'[s] = response[s]
     \/ response'[s] = None /\ entry[response[s]].done
  /\ \A f \in Fd : \A n \in back'[f] : n \in back[f] \/ n = 0 \/ ~ Says(n, s)
  /\ user'.version = user.version \/ user'.version > asked[s].fd

LEMMA Undisturbed ==
  ASSUME IInv, IInv', TurnInv, Owned', NEW s \in Session, Keeps(s)
  PROVE  Asked(s)'
  <1>1. /\ Placed(s) /\ Once(s) /\ Matches(s)
        /\ asked[s].use = 0 <=> asked[s].fd = None
        /\ asked[s].fd <= user.version
    BY DEF TurnInv, Asked, Turned, Client, Versions
  <1>2. /\ asked[s].fd \in Fd \cup {None} /\ asked[s].use \in Nat /\ asked[s].use <= MaxSends
        /\ response[s] # None => response[s] \in Of(s)
        /\ response[s] \in Entry \cup {None} /\ None \notin Entry
        /\ \A e \in Of(s) : /\ entry[e].use \in 1..MaxSends /\ e \in Entry /\ Says(entry[e].use, s)
                            /\ entry[e].use # 0
        /\ Says(asked[s].use, s)
    <2>1. \A e \in Of(s) : Says(entry[e].use, s) /\ Says(asked[s].use, s)
      BY DEF Says
    <2>2. Says(asked[s].use, s)
      BY DEF Says
    <2> QED BY <2>1, <2>2, SessionTypes
  <1>3. \A e \in Of(s) : /\ entry'[e].use = entry[e].use /\ entry'[e].done = entry[e].done
                         /\ entry'[e].version = entry[e].version /\ entry'[e].asked = entry[e].asked
                         /\ entry'[e].late = entry[e].late
    BY DEF Keeps, Same
  <1>4. asked[s].fd \in Fd =>
          /\ \A e \in Of(s) : entry[e].use \in back'[asked[s].fd] => entry[e].use \in back[asked[s].fd]
          /\ asked[s].use # 0 /\ asked[s].use \in back'[asked[s].fd] => asked[s].use \in back[asked[s].fd]
    BY <1>2 DEF Keeps
  <1>5. /\ asked'[s] = asked[s] /\ again \subseteq again' /\ Asking(s)' \subseteq Asking(s)
        /\ Of(s)' = Of(s)
        /\ response'[s] = response[s] \/ (response'[s] = None /\ entry[response[s]].done)
        /\ user'.version = user.version \/ user'.version > asked[s].fd
    BY DEF Keeps
  <1>6. Placed(s)'
    <2>1. \A p \in Asking(s)' : p.fd <= asked'[s].fd /\ (p.fd = asked'[s].fd => p.use = asked'[s].use)
      BY <1>1, <1>5 DEF Placed
    <2>2. ASSUME NEW e \in Of(s)
          PROVE  /\ entry'[e].asked <= asked'[s].fd
                 /\ \A f \in Fd : entry'[e].use \in back'[f] => f <= asked'[s].fd
                 /\ entry'[e].use # asked'[s].use => entry'[e].done
                 /\ entry'[e].use = asked'[s].use => \/ response'[s] = None
                                                     \/ entry'[response'[s]].use = asked'[s].use
                 /\ entry'[e].done /\ ~ entry'[e].late => entry'[e].asked = entry'[e].version
                 /\ ~ entry'[e].done /\ entry'[e].version # None => entry'[e].version = entry'[e].asked
      <3>1. \A f \in Fd : entry[e].use \in back'[f] => entry[e].use \in back[f]
        BY <1>2 DEF Keeps
      <3>2. /\ entry[e].asked <= asked[s].fd
            /\ \A f \in Fd : entry[e].use \in back[f] => f <= asked[s].fd
            /\ entry[e].use # asked[s].use => entry[e].done
            /\ entry[e].use = asked[s].use => \/ response[s] = None
                                              \/ entry[response[s]].use = asked[s].use
            /\ entry[e].done /\ ~ entry[e].late => entry[e].asked = entry[e].version
            /\ ~ entry[e].done /\ entry[e].version # None => entry[e].version = entry[e].asked
        BY <1>1 DEF Placed
      <3>3. entry'[e].use = asked'[s].use => \/ response'[s] = None
                                             \/ entry'[response'[s]].use = asked'[s].use
        BY <1>2, <1>3, <1>5, <3>2
      <3> QED BY <1>3, <1>5, <3>1, <3>2, <3>3
    <2>3. asked'[s].use # 0 /\ asked'[s].answered => \E e \in Of(s)' : entry'[e].use = asked'[s].use
      BY <1>1, <1>3, <1>5 DEF Placed
    <2> QED BY <1>5, <2>1, <2>2, <2>3 DEF Placed
  <1>7. Once(s)'
    <2> SUFFICES ASSUME asked'[s].use # 0, asked'[s].use \notin again'
                 PROVE  OnlyPackage(s)' /\ OnlyCall(s)' /\ OnlyAnswer(s)'
      BY DEF Once
    <2>1. OnlyPackage(s) /\ OnlyCall(s) /\ OnlyAnswer(s) /\ asked[s].fd \in Fd /\ asked[s].use # 0
      BY <1>1, <1>2, <1>5 DEF Once
    <2>2. OnlyPackage(s)'
      BY <1>3, <1>4, <1>5, <2>1 DEF OnlyPackage
    <2>3. OnlyCall(s)'
      BY <1>2, <1>3, <1>4, <1>5, <2>1 DEF OnlyCall
    <2>4. OnlyAnswer(s)'
      <3>1. user'.version = asked'[s].fd => user.version = asked[s].fd
        BY <1>2, <1>5 DEF Fd, None
      <3>2. response'[s] # None => response'[s] = response[s] /\ response[s] \in Of(s)
        BY <1>2, <1>5
      <3> QED BY <1>3, <1>4, <1>5, <2>1, <3>1, <3>2 DEF OnlyAnswer
    <2> QED BY <2>2, <2>3, <2>4
  <1>8. Matches(s)'
    <2> SUFFICES ASSUME asked'[s].use # 0
                 PROVE  /\ \A e \in Of(s)' : entry'[e].use \in back'[asked'[s].fd] =>
                             entry'[e].use = asked'[s].use \/ Lost(s)'
                        /\ /\ response'[s] # None /\ asked'[s].first = asked'[s].fd
                           /\ entry'[response'[s]].use # asked'[s].use
                           => entry'[response'[s]].version = asked'[s].fd
      BY DEF Matches
    <2>1. asked[s].fd \in Fd /\ asked[s].use # 0
      BY <1>1, <1>2, <1>5
    <2>2. Lost(s) => Lost(s)'
      <3> SUFFICES ASSUME asked[s].first # asked[s].fd, asked[s].use \notin again',
                          \A d \in Used : entry[d].use # asked[s].use, NEW d \in Used',
                          entry'[d].use = asked[s].use
                   PROVE  FALSE
        BY <1>5 DEF Lost
      <3>1. PICK r \in Session : r = entry'[d].session
        BY DEF IInv, Entries
      <3>2. Says(asked[s].use, r)' /\ Says(asked[s].use, s)'
        <4>1. d \in Of(r)'
          BY <3>1 DEF Of
        <4>2. entry'[d].use = asked'[s].use
          BY <1>5
        <4> QED BY <4>1, <4>2 DEF Says
      <3>3. d \in Of(s)'
        BY <1>2, <1>5, <2>1, <3>1, <3>2 DEF Owned, Of
      <3> QED BY <1>3, <1>5, <3>3 DEF Of
    <2>3. response'[s] # None => response'[s] = response[s] /\ response[s] \in Of(s)
      BY <1>2, <1>5
    <2> QED BY <1>1, <1>3, <1>4, <1>5, <2>1, <2>2, <2>3 DEF Matches
  <1> QED BY <1>6, <1>7, <1>8 DEF Asked

LEMMA MoreBack ==
  ASSUME TypeOK, NEW g \in Fd, NEW n, Answered(g, n) \/ UNCHANGED back
  PROVE  \A f \in Fd : \A k \in back'[f] : k \in back[f] \/ (f = g /\ k = n)
  <1>1. back \in [Fd -> SUBSET (0..MaxSends)]
    BY ClientTypes
  <1>2. UNCHANGED back \/ back' = [back EXCEPT ![g] = @ \cup {n}]
    BY DEF Answered
  <1> QED BY <1>1, <1>2

\* What the gate does about requests, whatever it is.
Works ==
  /\ Pending' \subseteq Pending /\ UNCHANGED <<asked, sends, again, state, connection>>
  /\ user'.version = user.version
  /\ \A f \in Fd : \A k \in back'[f] :
       k \in back[f] \/ (connection[f] /\ \E e \in Used : entry[e].use = k)

LEMMA Working ==
  ASSUME IInv
  PROVE  /\ \A c \in calls : Done(c) /\ Pending' \subseteq Pending => Works
         /\ \A p \in Pending, more \in {0, loop} :
              /\ Handled(p, more)
              /\ Executes(p, more) \/ Conflicts(p, more) \/ Moves(p, more) \/ Resends(p, more)
              => Works
  <1> USE DEF IInv, FlowInv
  <1>1. user \in [online : BOOLEAN, version : Fd \cup {None}, index : Nat, fd : Fd \cup {None}]
    BY Typed
  <1>2. ASSUME NEW e \in Used, NEW x, Answers(e, x), x.fd \in Fd, x.use = entry[e].use
        PROVE  /\ user'.version = user.version
               /\ \A f \in Fd : \A k \in back'[f] :
                    k \in back[f] \/ (connection[f] /\ \E d \in Used : entry[d].use = k)
    <2>1. user'.version = user.version
      BY <1>1, <1>2 DEF Answers
    <2>2. (connection[x.fd] /\ Answered(x.fd, x.use)) \/ UNCHANGED back
      BY <1>2 DEF Answers
    <2>3. \A f \in Fd : \A k \in back'[f] : k \in back[f] \/ (connection[f] /\ k = x.use)
      <3>1. CASE UNCHANGED back
        BY <3>1
      <3>2. CASE connection[x.fd] /\ Answered(x.fd, x.use)
        BY <1>2, <3>2, MoreBack
      <3> QED BY <2>2, <3>1, <3>2
    <2> QED BY <1>2, <2>1, <2>3
  <1>3. ASSUME NEW c \in calls, Done(c), Pending' \subseteq Pending PROVE Works
    <2>1. /\ c.of \in Used /\ Answers(c.of, Ended(c.of)) /\ Ended(c.of).fd = entry[c.of].asked
          /\ Ended(c.of) \in CacheEntry
      BY <1>3, Ending
    <2>2. Ended(c.of).fd \in Fd /\ Ended(c.of).use = entry[c.of].use
      BY <2>1, Typed DEF Entries, Ended, Used, CacheEntry
    <2>3. UNCHANGED <<asked, sends, again, state, connection>>
      BY <1>3 DEF Done, clientVars
    <2> QED BY <1>2, <1>3, <2>1, <2>2, <2>3 DEF Works
  <1>4. ASSUME NEW p \in Pending, NEW more \in {0, loop}, Handled(p, more),
               Executes(p, more) \/ Conflicts(p, more) \/ Moves(p, more)
        PROVE  Works
    <2>1. UNCHANGED <<asked, sends, again, state>> /\ Pending' \subseteq Pending
      BY <1>4 DEF Handled, clientVars
    <2>2. UNCHANGED <<connection, user, back>>
      BY <1>4, Executing DEF Conflicts, Moves
    <2> QED BY <2>1, <2>2 DEF Works
  <1>5. ASSUME NEW p \in Pending, NEW more \in {0, loop}, Handled(p, more), Resends(p, more)
        PROVE  Works
    <2>1. UNCHANGED <<asked, sends, again, state, connection>> /\ Pending' \subseteq Pending
      BY <1>5 DEF Handled, clientVars, Resends
    <2> DEFINE e == response[p.session]
    <2>2. p \in Pkg /\ p.fd \in Fd /\ p.session \in Session
      BY <1>5, HandledKinds DEF Resends
    <2>3. e \in Used /\ Answers(e, Renewed(p, e))
      BY <1>5, <2>2, Resending
    <2>4. entry[e] \in CacheEntry
      BY <2>3, Typed DEF Used
    <2> HIDE DEF e
    <2>5. Renewed(p, e).fd = p.fd /\ Renewed(p, e).use = entry[e].use
      BY <2>4 DEF Renewed, CacheEntry
    <2> QED BY <1>2, <2>1, <2>2, <2>3, <2>5 DEF Works
  <1> QED BY <1>3, <1>4, <1>5

LEMMA Greeting ==
  ASSUME IInv, NEW p \in Pending, NEW more \in {0, loop}, Handled(p, more), Greets(p, more)
  PROVE  /\ Pending' \subseteq Pending /\ UNCHANGED <<asked, sends, again, state, response, entry>>
         /\ p.fd \in Fd /\ user'.version = p.fd /\ user.version < p.fd
         /\ connection' = [connection EXCEPT ![p.fd] = TRUE]
         /\ \A f \in Fd : \A k \in back'[f] : k \in back[f] \/ (f = p.fd /\ k = 0)
         /\ \A q \in Pending' : Follows(p, q)
  <1> USE DEF IInv, FlowInv
  <1>1. UNCHANGED <<asked, sends, again, state>> /\ Pending' \subseteq Pending
        /\ \A q \in Pending' : Follows(p, q)
    BY DEF Handled, clientVars
  <1>2. /\ p.fd > user.version /\ user' = [user EXCEPT !.version = p.fd, !.fd = p.fd]
        /\ connection' = [connection EXCEPT ![p.fd] = TRUE] /\ Answered(p.fd, 0)
        /\ UNCHANGED <<response, entry>>
    BY DEF Greets, Auth, Welcome
  <1>3. user \in [online : BOOLEAN, version : Fd \cup {None}, index : Nat, fd : Fd \cup {None}]
    BY Typed
  <1>4. p.fd \in Fd
    BY HandledKinds
  <1>5. \A f \in Fd : \A k \in back'[f] : k \in back[f] \/ (f = p.fd /\ k = 0)
    BY <1>2, <1>4, MoreBack
  <1>6. user.version < p.fd
    BY <1>2, <1>3, <1>4 DEF Fd, None
  <1> QED BY <1>1, <1>2, <1>3, <1>4, <1>5, <1>6

\* The client sends on the connection it shook hands on last.
LEMMA SendsNewest ==
  ASSUME IInv, Turned, NEW f \in Fd, Sending(f)
  PROVE  user.version = f /\ \A s \in Session : asked[s].fd <= f
  <1>1. user.version \in Fd \cup {None}
    BY Typed DEF IInv, FlowInv
  <1>2. f <= user.version /\ (user.version # None => state[user.version] # "new")
    BY DEF Turned, Versions, Sending
  <1>3. ~ user.version > f
    BY <1>1, <1>2 DEF Sending, Fd, None
  <1>4. user.version = f
    BY <1>1, <1>2, <1>3 DEF Fd, None
  <1> QED BY <1>4 DEF Turned, Versions

\* A new request under session s.
LEMMA Requesting ==
  ASSUME IInv, NEW f \in Fd, NEW s \in Session, Request(f, s)
  PROVE  /\ Sending(f) /\ asked[s].answered /\ asked[s].fd \in {None, f} /\ asked[s].use \notin again
         /\ sends' = sends + 1
         /\ asked' = [asked EXCEPT ![s] = [use |-> sends + 1, first |-> f, fd |-> f,
                                           answered |-> FALSE]]
         /\ UNCHANGED <<state, again, back, connection, user, response, entry>>
  BY DEF Request, serverVars, cacheVars

\* A request under session s is repeated.
LEMMA Repeating ==
  ASSUME IInv, NEW f \in Fd, NEW s \in Session, Repeat(f, s)
  PROVE  /\ Sending(f) /\ ~ asked[s].answered
         /\ \/ asked[s].fd = f /\ again' = again \cup {asked[s].use}
            \/ asked[s].fd < f /\ UNCHANGED again
         /\ sends' = sends + 1
         /\ asked' = [asked EXCEPT ![s].fd = f]
         /\ UNCHANGED <<state, back, connection, user, response, entry>>
  BY DEF Repeat, serverVars, cacheVars

\* An answer arrives.
LEMMA Receiving ==
  ASSUME IInv, NEW f \in Fd, NEW n \in back[f], Receive(f, n)
  PROVE  /\ back' = [back EXCEPT ![f] = @ \ {n}]
         /\ UNCHANGED <<sends, again, connection, user, response, entry>>
         /\ \/ n = 0 /\ state' = [state EXCEPT ![f] = "ok"] /\ UNCHANGED asked
            \/ /\ n # 0 /\ UNCHANGED state
               /\ asked' = [s \in Session |-> IF asked[s].use = n /\ asked[s].fd = f
                              THEN [asked[s] EXCEPT !.answered = TRUE] ELSE asked[s]]
  BY DEF Receive, serverVars, cacheVars

LEMMA ClientStep ==
  ASSUME IInv, Next, Client, Versions
  PROVE  Client'
  <1> USE DEF IInv, FlowInv
  <1>1. /\ asked \in [Session -> [use : 0..MaxSends, first : Fd \cup {None}, fd : Fd \cup {None},
                                  answered : BOOLEAN]]
        /\ sends \in Nat
    BY ClientTypes
  <1>2. \A s \in Session : ~ asked[s].answered => asked[s].use # 0
    BY DEF Clients
  <1>3. ASSUME UNCHANGED asked PROVE Client'
    BY <1>3 DEF Client
  <1>4. ASSUME NEW f \in Fd, NEW s \in Session, Request(f, s) PROVE Client'
    <2>1. asked' = [asked EXCEPT ![s] = [use |-> sends + 1, first |-> f, fd |-> f, answered |-> FALSE]]
      BY <1>4, Requesting
    <2>2. sends + 1 # 0 /\ f # None /\ f <= f
      BY <1>1 DEF Fd, None
    <2> QED BY <1>1, <2>1, <2>2 DEF Client
  <1>5. ASSUME NEW f \in Fd, NEW s \in Session, Repeat(f, s) PROVE Client'
    <2>1. asked' = [asked EXCEPT ![s].fd = f] /\ asked[s].use # 0 /\ asked[s].fd <= f
      BY <1>1, <1>2, <1>5, Repeating DEF Fd, None
    <2>2. f # None /\ asked[s].first <= f
      BY <1>1, <2>1 DEF Fd, None, Client
    <2> QED BY <1>1, <2>1, <2>2 DEF Client
  <1>6. ASSUME NEW f \in Fd, NEW n \in back[f], Receive(f, n) PROVE Client'
    <2>1. \A s \in Session : /\ asked'[s].use = asked[s].use /\ asked'[s].fd = asked[s].fd
                             /\ asked'[s].first = asked[s].first
      BY <1>1, <1>6, Receiving
    <2> QED BY <2>1 DEF Client
  <1>7. ASSUME NEW f \in Fd, Open(f) PROVE Client'
    BY <1>3, <1>7 DEF Open
  <1>8. ASSUME NEW p \in Pending, NEW more \in {0, loop}, Handled(p, more) PROVE Client'
    BY <1>3, <1>8 DEF Handled, clientVars
  <1>9. ASSUME NEW c \in calls, Done(c) PROVE Client'
    BY <1>3, <1>9 DEF Done, clientVars
  <1> QED BY <1>3, <1>4, <1>5, <1>6, <1>7, <1>8, <1>9, Kinds DEF Quiet

LEMMA VersionsStep ==
  ASSUME IInv, Next, Turned, InTurn
  PROVE  Versions'
  <1> USE DEF IInv, FlowInv
  <1>1. /\ state \in [Fd -> {"new", "hello", "ok", "closed"}]
        /\ asked \in [Session -> [use : 0..MaxSends, first : Fd \cup {None}, fd : Fd \cup {None},
                                  answered : BOOLEAN]]
        /\ back \in [Fd -> SUBSET (0..MaxSends)] /\ connection \in [Fd -> BOOLEAN]
        /\ user.version \in Fd \cup {None}
    BY Typed, ClientTypes
  <1>2. /\ \A p \in Pending : p.fd >= user.version
        /\ \A f \in Fd : connection[f] \/ state[f] = "ok" \/ 0 \in back[f] => f <= user.version
        /\ \A s \in Session : asked[s].fd <= user.version
        /\ user.version # None => state[user.version] # "new"
    BY DEF Turned, Versions
  <1>3. \A f \in Fd : state[f] # "new" => state'[f] # "new"
    BY ConnectionStep
  <1>4. ASSUME user'.version = user.version, \A p \in Pending' : p.fd >= user.version,
               \A f \in Fd : connection'[f] \/ state'[f] = "ok" \/ 0 \in back'[f] =>
                               connection[f] \/ state[f] = "ok" \/ 0 \in back[f],
               \A s \in Session : asked'[s].fd <= user.version
        PROVE  Versions'
    <2>1. user'.version # None => state'[user'.version] # "new"
      BY <1>1, <1>2, <1>3, <1>4
    <2>2. \A f \in Fd : connection'[f] \/ state'[f] = "ok" \/ 0 \in back'[f] => f <= user'.version
      BY <1>2, <1>4
    <2> QED BY <1>4, <2>1, <2>2 DEF Versions
  <1>5. CASE Quiet
    BY <1>2, <1>4, <1>5 DEF Quiet
  <1>6. CASE Works
    <2>1. \A f \in Fd : 0 \in back'[f] => 0 \in back[f]
      BY <1>6 DEF Works, Entries
    <2> QED BY <1>2, <1>4, <1>6, <2>1 DEF Works
  <1>7. ASSUME NEW f \in Fd, Open(f), Pending' \subseteq Pending \cup {Hello(f)} PROVE Versions'
    <2>1. /\ state[f] = "new" /\ state' = [state EXCEPT ![f] = "hello"]
          /\ UNCHANGED <<asked, back, connection, user>>
      BY <1>7 DEF Open, cacheVars
    <2>2. user.version <= f
      <3>1. user.version # None => ~ f < user.version
        BY <1>1, <1>2, <2>1 DEF Clients
      <3> QED BY <1>1, <3>1 DEF Fd, None
    <2>3. \A p \in Pending' : p.fd >= user.version
      BY <1>2, <1>7, <2>2 DEF Hello, Package
    <2> QED BY <1>1, <1>2, <1>4, <2>1, <2>3
  <1>8. ASSUME NEW f \in Fd, NEW s \in Session, Request(f, s) \/ Repeat(f, s),
               \A p \in Pending' : p \in Pending \/ p.fd = f
        PROVE  Versions'
    <2>1. Sending(f) /\ UNCHANGED <<state, back, connection, user>>
      BY <1>8, Requesting, Repeating
    <2>2. \A r \in Session : asked'[r].fd = asked[r].fd \/ asked'[r].fd = f
      BY <1>1, <1>8, Requesting, Repeating
    <2>3. user.version = f
      BY <2>1, SendsNewest
    <2> QED BY <1>1, <1>2, <1>4, <1>8, <2>1, <2>2, <2>3 DEF Fd
  <1>9. ASSUME NEW f \in Fd, NEW n \in back[f], Receive(f, n), Pending' \subseteq Pending
        PROVE  Versions'
    <2>1. \A s \in Session : asked'[s].fd = asked[s].fd
      BY <1>1, <1>9, Receiving
    <2>2. \A g \in Fd : 0 \in back'[g] => 0 \in back[g]
      BY <1>1, <1>9, Receiving
    <2>3. \A g \in Fd : state'[g] = "ok" => state[g] = "ok" \/ 0 \in back[g]
      BY <1>1, <1>9, Receiving
    <2> QED BY <1>2, <1>4, <1>9, <2>1, <2>2, <2>3, Receiving
  <1>10. ASSUME NEW p \in Pending, NEW more \in {0, loop}, Handled(p, more), Greets(p, more)
         PROVE  Versions'
    <2>1. /\ Pending' \subseteq Pending /\ UNCHANGED <<asked, state>>
          /\ p.fd \in Fd /\ user'.version = p.fd /\ user.version < p.fd
          /\ connection' = [connection EXCEPT ![p.fd] = TRUE]
          /\ \A f \in Fd : \A k \in back'[f] : k \in back[f] \/ (f = p.fd /\ k = 0)
          /\ \A q \in Pending' : Follows(p, q)
      BY <1>10, Greeting
    <2>2. \A q \in Pending' : q.fd >= p.fd
      <3>1. \A q \in Pending' : q.kind # "eof" /\ q.fd \in Fd
        BY <2>1, Unreads, Numbers DEF Pending
      <3> QED BY <2>1, <3>1 DEF Follows, Fd
    <2>3. \A f \in Fd : connection'[f] \/ state'[f] = "ok" \/ 0 \in back'[f] => f <= p.fd
      <3>1. \A f \in Fd : connection'[f] \/ state'[f] = "ok" \/ 0 \in back'[f] =>
                            f = p.fd \/ f <= user.version
        BY <1>1, <1>2, <2>1
      <3> QED BY <1>1, <2>1, <3>1 DEF Fd, None
    <2>4. \A s \in Session : asked'[s].fd <= p.fd
      BY <1>1, <1>2, <2>1 DEF Fd, None
    <2>5. state'[p.fd] # "new"
      BY <2>1 DEF Flow, Pending
    <2> QED BY <2>1, <2>2, <2>3, <2>4, <2>5 DEF Versions
  <1>11. ASSUME NEW f \in Fd, NEW s \in Session, NEW u,
                Pending' \subseteq Pending \cup {AskPackage(f, s, u)}
         PROVE  \A p \in Pending' : p \in Pending \/ p.fd = f
    BY <1>11 DEF AskPackage, Package
  <1> QED BY <1>5, <1>6, <1>7, <1>8, <1>9, <1>10, <1>11, Kinds, Working

LEMMA BackedStep ==
  ASSUME IInv, Next, Backed
  PROVE  Backed'
  <1> USE DEF IInv, FlowInv
  <1> DEFINE Known == \A f \in Fd : \A k \in back'[f] \ {0} : k \in back[f] \/ \E e \in Used : entry[e].use = k
  <1>1. back \in [Fd -> SUBSET (0..MaxSends)]
    BY ClientTypes
  <1>2. ASSUME UNCHANGED back PROVE Known
    BY <1>2
  <1>3. ASSUME NEW f \in Fd, Open(f) PROVE Known
    BY <1>2, <1>3 DEF Open
  <1>4. ASSUME NEW f \in Fd, NEW s \in Session, Request(f, s) \/ Repeat(f, s) PROVE Known
    BY <1>2, <1>4 DEF Request, Repeat
  <1>5. ASSUME NEW f \in Fd, NEW n \in back[f], Receive(f, n) PROVE Known
    BY <1>1, <1>5, Receiving
  <1>6. ASSUME Quiet PROVE Known
    BY <1>6 DEF Quiet
  <1>7. ASSUME Works PROVE Known
    BY <1>7 DEF Works
  <1>8. ASSUME NEW p \in Pending, NEW more \in {0, loop}, Handled(p, more), Greets(p, more)
        PROVE  Known
    BY <1>8, Greeting
  <1>9. Known
    <2> HIDE DEF Known
    <2> QED BY <1>3, <1>4, <1>5, <1>6, <1>7, <1>8, Kinds, Working
  <1>10. \A e \in Used : e \in Used' /\ entry'[e].use = entry[e].use
    BY EntriesKept
  <1> QED BY <1>9, <1>10 DEF Backed

\* What a step adds to the requests of the sessions: at most a new one of one
\* session.
LEMMA SaysStep ==
  ASSUME IInv, Next
  PROVE  \E t \in Session \cup {None} :
           \A u \in 1..MaxSends, s \in Session : Says(u, s)' => Says(u, s) \/ (u = sends + 1 /\ s = t)
  <1> USE DEF IInv, FlowInv
  <1>1. asked \in [Session -> [use : 0..MaxSends, first : Fd \cup {None}, fd : Fd \cup {None},
                               answered : BOOLEAN]]
    BY ClientTypes
  <1>2. ASSUME NEW u \in 1..MaxSends, NEW s \in Session, NEW e \in Of(s)', entry'[e].use = u
        PROVE  Says(u, s)
    <2>1. CASE e \in Used
      BY <1>2, <2>1, EntriesKept DEF Of, Says
    <2>2. CASE e \notin Used
      <3>1. e \in Used' /\ entry'[e].session = s
        BY <1>2 DEF Of
      <3>2. PICK p \in Pending, more \in {0, loop} : Handled(p, more) /\ Executes(p, more)
        BY <2>2, <3>1, EntriesKept
      <3>3. e = NewOne /\ entry'[e] = Fresh(p)
        BY <2>2, <3>1, <3>2, Executing
      <3>4. p \in Asking(s) /\ p.use = u
        BY <1>2, <3>1, <3>3 DEF Asking, Fresh, NoEntry
      <3> QED BY <3>4 DEF Says
    <2> QED BY <2>1, <2>2
  <1>3. ASSUME Pending' \subseteq Pending, \A s \in Session : asked'[s].use = asked[s].use,
               NEW u \in 1..MaxSends, NEW s \in Session, Says(u, s)'
        PROVE  Says(u, s)
    BY <1>2, <1>3 DEF Says, Asking
  <1>4. ASSUME \A s \in Session : asked'[s].use = asked[s].use, Pending' \subseteq Pending
        PROVE  \E t \in Session \cup {None} :
                 \A u \in 1..MaxSends, s \in Session : Says(u, s)' => Says(u, s) \/ (u = sends + 1 /\ s = t)
    BY <1>3, <1>4
  <1>5. ASSUME NEW f \in Fd, Open(f), Pending' \subseteq Pending \cup {Hello(f)},
               NEW u \in 1..MaxSends, NEW s \in Session, Says(u, s)'
        PROVE  Says(u, s)
    <2>1. UNCHANGED asked
      BY <1>5 DEF Open
    <2>2. Hello(f).session = None /\ None \notin Session
      BY MsgAssumption DEF Hello, Package, None, Session
    <2>3. Asking(s)' \subseteq Asking(s)
      BY <1>5, <2>2 DEF Asking
    <2> QED BY <1>2, <1>5, <2>1, <2>3 DEF Says
  <1>6. ASSUME NEW f \in Fd, NEW t \in Session, Request(f, t),
               Pending' \subseteq Pending \cup {AskPackage(f, t, sends + 1)},
               NEW u \in 1..MaxSends, NEW s \in Session, Says(u, s)'
        PROVE  Says(u, s) \/ (u = sends + 1 /\ s = t)
    <2>1. asked'[s].use = asked[s].use \/ (asked'[s].use = sends + 1 /\ s = t)
      BY <1>1, <1>6, Requesting
    <2>2. \A p \in Asking(s)' : p \in Asking(s) \/ (p.use = sends + 1 /\ s = t)
      BY <1>6 DEF Asking, AskPackage, Package
    <2> QED BY <1>2, <1>6, <2>1, <2>2 DEF Says
  <1>7. ASSUME NEW f \in Fd, NEW t \in Session, Repeat(f, t),
               Pending' \subseteq Pending \cup {AskPackage(f, t, asked[t].use)},
               NEW u \in 1..MaxSends, NEW s \in Session, Says(u, s)'
        PROVE  Says(u, s)
    <2>1. asked'[s].use = asked[s].use
      BY <1>1, <1>7, Repeating
    <2>2. \A p \in Asking(s)' : p \in Asking(s) \/ p.use = asked[s].use
      BY <1>7 DEF Asking, AskPackage, Package
    <2> QED BY <1>2, <1>7, <2>1, <2>2 DEF Says
  <1>8. ASSUME NEW f \in Fd, NEW n \in back[f], Receive(f, n)
        PROVE  \A s \in Session : asked'[s].use = asked[s].use
    BY <1>1, <1>8, Receiving
  <1>9. ASSUME Quiet \/ Works
        PROVE  Pending' \subseteq Pending /\ \A s \in Session : asked'[s].use = asked[s].use
    BY <1>9 DEF Quiet, Works
  <1>10. ASSUME NEW p \in Pending, NEW more \in {0, loop}, Handled(p, more), Greets(p, more)
         PROVE  Pending' \subseteq Pending /\ \A s \in Session : asked'[s].use = asked[s].use
    BY <1>10, Greeting
  <1> QED BY <1>4, <1>5, <1>6, <1>7, <1>8, <1>9, <1>10, Kinds, Working

LEMMA OwnedStep ==
  ASSUME IInv, Next, Owned
  PROVE  Owned'
  <1>1. PICK t \in Session \cup {None} :
          \A u \in 1..MaxSends, s \in Session : Says(u, s)' => Says(u, s) \/ (u = sends + 1 /\ s = t)
    BY SaysStep
  <1>2. ASSUME NEW s \in Session, Says(sends + 1, s) PROVE FALSE
    <2>1. sends \in Nat
      BY ClientTypes DEF IInv, FlowInv
    <2>2. /\ asked[s].use \in Nat /\ asked[s].use <= sends
          /\ \A e \in Of(s) : entry[e].use \in 1..sends
          /\ \A p \in Asking(s) : p.use \in 1..MaxSends /\ p.use <= sends
      BY SessionTypes
    <2> QED BY <1>2, <2>1, <2>2 DEF Says
  <1> QED BY <1>1, <1>2 DEF Owned

\* What is said of session s is not said of another one.
LEMMA NotSaid ==
  ASSUME IInv, Owned, NEW s \in Session, NEW t \in Session, s # t, NEW e \in Of(t)
  PROVE  ~ Says(entry[e].use, s) /\ e \notin Of(s)
  <1>1. entry[e].use \in 1..MaxSends /\ Says(entry[e].use, t) /\ entry[e].session = t
    BY SessionTypes DEF Says
  <1> QED BY <1>1 DEF Owned, Of

\* Steps that are about no request, or about one of another session.
LEMMA QuietKeeps ==
  ASSUME NEW s \in Session, UNCHANGED <<response, entry>>, again \subseteq again',
         asked'[s] = asked[s], Asking(s)' \subseteq Asking(s),
         \A f \in Fd : \A n \in back'[f] : n \in back[f] \/ n = 0,
         user'.version = user.version \/ user'.version > asked[s].fd
  PROVE  Keeps(s)
  <1>1. Of(s)' = Of(s) /\ \A e \in Of(s) : Same(entry'[e], entry[e])
    BY DEF Of, Used, Same
  <1> QED BY <1>1 DEF Keeps

LEMMA OthersQuiet ==
  ASSUME IInv, Turned, NEW s \in Session,
         \/ Quiet
         \/ \E f \in Fd : Open(f) /\ Pending' \subseteq Pending \cup {Hello(f)}
         \/ \E f \in Fd, t \in Session \ {s} :
              \/ Request(f, t) /\ Pending' \subseteq Pending \cup {AskPackage(f, t, sends + 1)}
              \/ Repeat(f, t) /\ Pending' \subseteq Pending \cup {AskPackage(f, t, asked[t].use)}
         \/ \E f \in Fd : \E n \in back[f] :
              Receive(f, n) /\ Pending' \subseteq Pending /\ asked'[s] = asked[s]
         \/ \E p \in Pending : \E more \in {0, loop} : Handled(p, more) /\ Greets(p, more)
  PROVE  Keeps(s)
  <1> USE DEF IInv, FlowInv
  <1>1. /\ asked \in [Session -> [use : 0..MaxSends, first : Fd \cup {None}, fd : Fd \cup {None},
                                  answered : BOOLEAN]]
        /\ back \in [Fd -> SUBSET (0..MaxSends)]
    BY ClientTypes
  <1>2. CASE Quiet
    <2>1. Asking(s)' \subseteq Asking(s)
      BY <1>2 DEF Quiet, Asking
    <2> QED BY <1>2, <2>1, QuietKeeps DEF Quiet
  <1>3. ASSUME NEW f \in Fd, Open(f), Pending' \subseteq Pending \cup {Hello(f)} PROVE Keeps(s)
    <2>1. UNCHANGED <<asked, again, back, user, response, entry>>
      BY <1>3 DEF Open, cacheVars
    <2>2. Asking(s)' \subseteq Asking(s)
      <3>1. Hello(f).session = None /\ None \notin Session
        BY MsgAssumption DEF Hello, Package, None, Session
      <3> QED BY <1>3, <3>1 DEF Asking
    <2> QED BY <2>1, <2>2, QuietKeeps
  <1>4. ASSUME NEW f \in Fd, NEW t \in Session \ {s}, Request(f, t) \/ Repeat(f, t),
               NEW u, Pending' \subseteq Pending \cup {AskPackage(f, t, u)}
        PROVE  Keeps(s)
    <2>1. UNCHANGED <<back, user, response, entry>> /\ again \subseteq again' /\ asked'[s] = asked[s]
      BY <1>1, <1>4, Requesting, Repeating
    <2>2. Asking(s)' \subseteq Asking(s)
      BY <1>4 DEF Asking, AskPackage, Package
    <2> QED BY <2>1, <2>2, QuietKeeps
  <1>5. ASSUME NEW f \in Fd, NEW n \in back[f], Receive(f, n), Pending' \subseteq Pending,
               asked'[s] = asked[s]
        PROVE  Keeps(s)
    <2>1. /\ UNCHANGED <<again, user, response, entry>>
          /\ \A g \in Fd : \A k \in back'[g] : k \in back[g]
      BY <1>1, <1>5, Receiving
    <2>2. Asking(s)' \subseteq Asking(s)
      BY <1>5 DEF Asking
    <2> QED BY <1>5, <2>1, <2>2, QuietKeeps
  <1>6. ASSUME NEW p \in Pending, NEW more \in {0, loop}, Handled(p, more), Greets(p, more)
        PROVE  Keeps(s)
    <2>1. /\ Pending' \subseteq Pending /\ UNCHANGED <<asked, again, response, entry>>
          /\ p.fd \in Fd /\ user'.version = p.fd /\ user.version < p.fd
          /\ \A f \in Fd : \A k \in back'[f] : k \in back[f] \/ (f = p.fd /\ k = 0)
      BY <1>6, Greeting
    <2>2. Asking(s)' \subseteq Asking(s)
      BY <2>1 DEF Asking
    <2>3. user'.version > asked[s].fd
      <3>1. asked[s].fd <= user.version /\ user.version \in Fd \cup {None} /\ asked[s].fd \in Fd \cup {None}
        BY <1>1, Typed DEF Turned, Versions
      <3> QED BY <2>1, <3>1 DEF Fd, None
    <2> QED BY <2>1, <2>2, <2>3, QuietKeeps
  <1> QED BY <1>2, <1>3, <1>4, <1>5, <1>6

\* Works about session t.
WorksOn(t) ==
  /\ Works
  /\ \A s \in Session \ {t} :
       /\ Of(s)' = Of(s) /\ \A e \in Of(s) : Same(entry'[e], entry[e])
       /\ \/ response'[s] = response[s]
          \/ response'[s] = None /\ entry[response[s]].done
  /\ \A f \in Fd : \A n \in back'[f] : n \in back[f] \/ \E e \in Of(t) : n = entry[e].use

LEMMA OthersWork ==
  ASSUME IInv, Turned, NEW t \in Session, WorksOn(t), NEW s \in Session \ {t}
  PROVE  Keeps(s)
  <1>1. asked'[s] = asked[s] /\ again \subseteq again' /\ user'.version = user.version
        /\ Asking(s)' \subseteq Asking(s)
    BY DEF WorksOn, Works, Asking
  <1>2. \A f \in Fd : \A n \in back'[f] : n \in back[f] \/ ~ Says(n, s)
    BY NotSaid DEF WorksOn, Turned
  <1> QED BY <1>1, <1>2 DEF Keeps, WorksOn

LEMMA AnswersOn ==
  ASSUME IInv, Works, NEW e \in Used, NEW x, Answers(e, x), x.session = entry[e].session,
         x.fd \in Fd, x.use = entry[e].use
  PROVE  WorksOn(entry[e].session) /\ Used' = Used
  <1> USE DEF IInv, FlowInv
  <1> DEFINE t == entry[e].session
  <1>1. Used' = Used /\ e \in Of(t) /\ Used \subseteq Entry
    BY UsedAnswering DEF Of, Used
  <1>2. ASSUME NEW s \in Session \ {t}
        PROVE  /\ Of(s)' = Of(s) /\ \A d \in Of(s) : Same(entry'[d], entry[d])
               /\ \/ response'[s] = response[s]
                  \/ response'[s] = None /\ entry[response[s]].done
    <2>1. \A d \in Used : entry'[d].session = entry[d].session
      BY <1>1 DEF Answers, Same
    <2>2. Of(s)' = Of(s) /\ e \notin Of(s)
      BY <1>1, <1>2, <2>1 DEF Of
    <2>3. \A d \in Of(s) : Same(entry'[d], entry[d])
      BY <1>1, <2>2 DEF Answers, Of
    <2>4. response'[s] = response[s] \/ (response'[s] = None /\ entry[response[s]].done)
      BY <1>2 DEF Answers
    <2> QED BY <2>2, <2>3, <2>4
  <1>3. \A f \in Fd : \A n \in back'[f] : n \in back[f] \/ n = entry[e].use
    <2>1. Answered(x.fd, x.use) \/ UNCHANGED back
      BY DEF Answers
    <2> QED BY <2>1, MoreBack
  <1> QED BY <1>1, <1>2, <1>3 DEF WorksOn

\* The gate handles requests of the connection it shook hands on last, which
\* is the one the client asked on last.
LEMMA AtRequest ==
  ASSUME IInv, TurnInv, NEW p \in Pending, NEW more \in {0, loop}, Handled(p, more), connection[p.fd]
  PROVE  /\ p.session \in Session /\ p \in Asking(p.session) /\ p \notin Pending'
         /\ p.fd \in Fd /\ p.fd = user.version /\ p.fd = asked[p.session].fd
         /\ p.use = asked[p.session].use /\ p.use \in 1..sends
         /\ \A q \in Asking(p.session)' : q \in Asking(p.session)
  <1> USE DEF IInv, FlowInv
  <1>1. /\ p \in Pkg /\ p.kind = "request" /\ p.session \in Session /\ p.fd \in Fd
        /\ p.n \in 1..sends /\ p.use \in 1..sends
    BY HandledKinds
  <1>2. p \in Asking(p.session)
    BY DEF Asking
  <1>3. p \notin Pending' /\ Pending' \subseteq Pending
    BY <1>1 DEF Handled, Follows
  <1>4. /\ p.fd <= asked[p.session].fd /\ (p.fd = asked[p.session].fd => p.use = asked[p.session].use)
    BY <1>1, <1>2 DEF TurnInv, Asked, Placed
  <1>5. p.fd >= user.version /\ p.fd <= user.version /\ asked[p.session].fd <= user.version
    BY <1>1 DEF TurnInv, Turned, Versions
  <1>6. user.version \in Fd \cup {None} /\ asked[p.session].fd \in Fd \cup {None}
    BY <1>1, Typed, SessionTypes
  <1>7. p.fd = user.version /\ p.fd = asked[p.session].fd
    BY <1>1, <1>4, <1>5, <1>6 DEF Fd, None
  <1> QED BY <1>1, <1>2, <1>3, <1>4, <1>7 DEF Asking

LEMMA ExecutesOn ==
  ASSUME IInv, TurnInv, NEW p \in Pending, NEW more \in {0, loop}, Handled(p, more), Executes(p, more)
  PROVE  /\ WorksOn(p.session)
         /\ Of(p.session)' = Of(p.session) \cup {NewOne} /\ NewOne \notin Used /\ NewOne \in Entry
         /\ \A d \in Of(p.session) : entry'[d] = entry[d]
         /\ entry'[NewOne].use = p.use /\ entry'[NewOne].asked = p.fd /\ ~ entry'[NewOne].done
         /\ ~ entry'[NewOne].late /\ entry'[NewOne].version = None
         /\ response'[p.session] = NewOne /\ UNCHANGED back
  <1> USE DEF IInv, FlowInv
  <1>1. connection[p.fd]
    BY DEF Executes
  <1>2. p.session \in Session
    BY <1>1, AtRequest
  <1>3. /\ NewOne \in Entry /\ NewOne \notin Used
        /\ Used' = Used \cup {NewOne}
        /\ entry'[NewOne] = Fresh(p) /\ \A d \in Entry \ {NewOne} : entry'[d] = entry[d]
        /\ response' = [response EXCEPT ![p.session] = NewOne] /\ UNCHANGED back
    BY Executing
  <1>4. /\ entry'[NewOne].use = p.use /\ entry'[NewOne].asked = p.fd /\ ~ entry'[NewOne].done
        /\ ~ entry'[NewOne].late /\ entry'[NewOne].version = None /\ entry'[NewOne].session = p.session
    BY <1>3 DEF Fresh, NoEntry
  <1>5. \A d \in Used : d \in Entry /\ d # NewOne /\ entry'[d] = entry[d]
    BY <1>3 DEF Used
  <1>6. Of(p.session)' = Of(p.session) \cup {NewOne}
    BY <1>3, <1>4, <1>5 DEF Of
  <1>7. \A s \in Session \ {p.session} : Of(s)' = Of(s)
    BY <1>3, <1>4, <1>5 DEF Of
  <1>8. \A s \in Session \ {p.session} : response'[s] = response[s]
    BY <1>2, <1>3, Typed
  <1>9. response'[p.session] = NewOne
    BY <1>2, <1>3, Typed
  <1>10. Works
    BY Working
  <1>11. WorksOn(p.session)
    BY <1>3, <1>5, <1>7, <1>8, <1>10 DEF WorksOn, Of, Same
  <1> QED BY <1>3, <1>4, <1>5, <1>6, <1>9, <1>11 DEF Of

LEMMA ConflictsOn ==
  ASSUME IInv, TurnInv, NEW p \in Pending, NEW more \in {0, loop}, Handled(p, more), Conflicts(p, more)
  PROVE  /\ WorksOn(p.session)
         /\ Of(p.session)' = Of(p.session) /\ UNCHANGED <<entry, back>>
         /\ response'[p.session] = None
  <1>1. p.session \in Session
    BY AtRequest DEF Conflicts
  <1>2. UNCHANGED <<entry, back>> /\ response' = [response EXCEPT ![p.session] = None]
    BY DEF Conflicts
  <1>3. /\ response'[p.session] = None
        /\ \A s \in Session \ {p.session} : response'[s] = response[s]
    BY <1>1, <1>2, Typed DEF IInv, FlowInv
  <1>4. \A s \in Session : Of(s)' = Of(s)
    BY <1>2 DEF Of, Used
  <1>5. Works
    BY Working
  <1> QED BY <1>1, <1>2, <1>3, <1>4, <1>5 DEF WorksOn, Same

LEMMA MovesOn ==
  ASSUME IInv, TurnInv, NEW p \in Pending, NEW more \in {0, loop}, Handled(p, more), Moves(p, more)
  PROVE  /\ WorksOn(p.session) /\ Of(p.session)' = Of(p.session) /\ UNCHANGED <<response, back>>
         /\ response[p.session] \in Of(p.session) /\ ~ entry[response[p.session]].done
         /\ \A d \in Of(p.session) :
              /\ entry'[d].use = entry[d].use /\ entry'[d].done = entry[d].done
              /\ entry'[d].late = entry[d].late
              /\ IF d = response[p.session]
                 THEN entry'[d].asked = p.fd /\ entry'[d].version = user.version
                 ELSE entry'[d] = entry[d]
  <1> USE DEF IInv, FlowInv
  <1> DEFINE e == response[p.session]
  <1>1. p.session \in Session /\ p.fd \in Fd
    BY AtRequest DEF Moves
  <1>2. /\ e \in Used /\ entry[e].session = p.session /\ ~ entry[e].done
        /\ Renewed(p, e) \in CacheEntry /\ Used' = Used /\ entry' \in [Entry -> CacheEntry]
        /\ entry'[e] = Renewed(p, e) /\ \A d \in Entry \ {e} : entry'[d] = entry[d]
    BY Moving
  <1>3. UNCHANGED <<response, back>>
    BY DEF Moves
  <1>4. entry[e] \in CacheEntry /\ Used \subseteq Entry
    BY <1>2, Typed DEF Used
  <1> HIDE DEF e
  <1>5. /\ entry'[e].session = entry[e].session /\ entry'[e].use = entry[e].use
        /\ entry'[e].done = entry[e].done /\ entry'[e].late = entry[e].late
        /\ entry'[e].asked = p.fd /\ entry'[e].version = user.version
    BY <1>2, <1>4 DEF Renewed, CacheEntry
  <1>6. \A s : Of(s)' = Of(s)
    BY <1>2, <1>4, <1>5 DEF Of
  <1>7. \A s \in Session \ {p.session} : \A d \in Of(s) : entry'[d] = entry[d]
    BY <1>2, <1>4 DEF Of
  <1>8. Works
    BY Working
  <1>9. WorksOn(p.session)
    BY <1>3, <1>6, <1>7, <1>8 DEF WorksOn, Same
  <1>10. e \in Of(p.session) /\ \A d \in Of(p.session) : d \in Entry
    BY <1>2, <1>4 DEF Of
  <1> QED BY <1>2, <1>3, <1>5, <1>6, <1>9, <1>10 DEF e

\* The entry e of session t becomes x when its answer is made, or made again.
Remakes(t, e, x) ==
  /\ WorksOn(t) /\ Of(t)' = Of(t)
  /\ \A d \in Of(t) : entry'[d].use = entry[d].use /\ (d # e => Same(entry'[d], entry[d]))
  /\ entry'[e].done = x.done /\ entry'[e].late = x.late /\ entry'[e].asked = x.asked
  /\ entry'[e].version = x.version
  /\ \/ response'[t] = response[t]
     \/ response'[t] = None /\ response[t] # e
  /\ \A f \in Fd : \A n \in back'[f] : n \in back[f] \/ (f = x.fd /\ n = entry[e].use /\ connection[f])

LEMMA AnswersOwn ==
  ASSUME IInv, Works, NEW t \in Session, NEW e \in Of(t), NEW x \in CacheEntry, Answers(e, x),
         x.session = t, x.fd \in Fd, x.use = entry[e].use
  PROVE  Remakes(t, e, x)
  <1> USE DEF IInv, FlowInv
  <1>1. e \in Used /\ entry[e].session = t
    BY DEF Of
  <1>2. WorksOn(t) /\ Used' = Used
    BY <1>1, AnswersOn
  <1>3. Used \subseteq Entry
    BY DEF Used
  <1>4. Same(entry'[e], [x EXCEPT !.fd = None, !.at = answers'])
    BY DEF Answers
  <1>5. /\ entry'[e].done = x.done /\ entry'[e].late = x.late /\ entry'[e].asked = x.asked
        /\ entry'[e].version = x.version /\ entry'[e].use = x.use
    BY <1>4 DEF Same, CacheEntry
  <1>6. \A d \in Of(t) : d # e => Same(entry'[d], entry[d])
    BY <1>3 DEF Answers, Of
  <1>7. \A d \in Of(t) : entry'[d].use = entry[d].use
    BY <1>5, <1>6 DEF Same
  <1>8. Of(t)' = Of(t)
    <2>1. \A d \in Used : entry'[d].session = entry[d].session
      BY <1>1, <1>3, <1>4 DEF Answers, Same, CacheEntry
    <2> QED BY <1>2, <2>1 DEF Of
  <1>9. response'[t] = response[t] \/ (response'[t] = None /\ response[t] # e)
    BY DEF Answers
  <1>10. \A f \in Fd : \A n \in back'[f] : n \in back[f] \/ (f = x.fd /\ n = entry[e].use /\ connection[f])
    <2>1. CASE connection[x.fd] /\ Answered(x.fd, x.use)
      BY <2>1, MoreBack
    <2>2. CASE UNCHANGED back
      BY <2>2
    <2> QED BY <2>1, <2>2 DEF Answers
  <1> QED BY <1>2, <1>5, <1>6, <1>7, <1>8, <1>9, <1>10 DEF Remakes

-----------------------------------------------------------------------------
(* The steps of one session                                                *)

\* A request under a session for which an answer was received.
LEMMA OwnRequest ==
  ASSUME IInv, TurnInv, NEW f \in Fd, NEW s \in Session, Request(f, s),
         Pending' \subseteq Pending \cup {AskPackage(f, s, sends + 1)}
  PROVE  Asked(s)'
  <1> USE DEF IInv, FlowInv
  <1> DEFINE P == AskPackage(f, s, sends + 1)
  <1>1. /\ asked \in [Session -> [use : 0..MaxSends, first : Fd \cup {None}, fd : Fd \cup {None},
                                  answered : BOOLEAN]]
        /\ sends \in Nat
    BY ClientTypes
  <1>2. /\ asked[s].answered /\ asked[s].fd \in {None, f} /\ asked[s].use \notin again
        /\ asked' = [asked EXCEPT ![s] = [use |-> sends + 1, first |-> f, fd |-> f, answered |-> FALSE]]
        /\ UNCHANGED <<again, back, user, response, entry>>
    BY Requesting
  <1>3. asked'[s].use = sends + 1 /\ asked'[s].first = f /\ asked'[s].fd = f /\ ~ asked'[s].answered
    BY <1>1, <1>2
  <1>4. user.version = f
    BY Requesting, SendsNewest DEF TurnInv
  <1>5. /\ Placed(s) /\ Once(s) /\ Matches(s)
        /\ asked[s].use = 0 <=> asked[s].fd = None
    BY DEF TurnInv, Asked, Turned, Client
  <1>6. /\ response[s] # None => response[s] \in Of(s)
        /\ \A e \in Of(s) : /\ entry[e].use \in Nat /\ entry[e].use <= sends /\ entry[e].use # 0
                            /\ entry[e].asked \in Fd /\ e \in Used
        /\ \A p \in Asking(s) : p.fd \in Fd
    BY SessionTypes
  <1>7. Of(s)' = Of(s)
    BY <1>2 DEF Of, Used
  <1>8. P.fd = f /\ P.use = sends + 1 /\ \A p \in Asking(s)' : p \in Asking(s) \/ p = P
    BY DEF Asking, AskPackage, Package
  <1> HIDE DEF P
  <1>9. ASSUME asked[s].fd = f
        PROVE  OnlyPackage(s) /\ OnlyCall(s) /\ OnlyAnswer(s) /\ asked[s].use # 0
    BY <1>2, <1>5, <1>9 DEF Once, Fd, None
  <1>10. ASSUME asked[s].fd = None PROVE Of(s) = {} /\ response[s] = None /\ Asking(s) = {}
    <2>1. ASSUME NEW e \in Of(s) PROVE FALSE
      BY <1>5, <1>6, <1>10, <2>1 DEF Placed, Fd, None
    <2>2. ASSUME NEW p \in Asking(s) PROVE FALSE
      BY <1>5, <1>6, <1>10, <2>2 DEF Placed, Fd, None
    <2> QED BY <1>6, <2>1, <2>2
  <1>11. ASSUME NEW p \in Asking(s) PROVE p.fd < f
    <2>1. asked[s].fd = f /\ OnlyPackage(s)
      BY <1>2, <1>9, <1>10, <1>11
    <2>2. p.fd <= f /\ p.fd # f
      BY <1>2, <1>5, <1>11, <2>1 DEF Placed, OnlyPackage
    <2> QED BY <1>6, <1>11, <2>2 DEF Fd
  <1>12. ASSUME NEW e \in Of(s) PROVE entry[e].use \notin back[f]
    <2>1. asked[s].fd = f /\ OnlyAnswer(s) /\ asked[s].use # 0
      BY <1>2, <1>9, <1>10, <1>12
    <2>2. \E d \in Of(s) : entry[d].use = asked[s].use
      BY <1>2, <1>5, <2>1 DEF Placed
    <2>3. ~ Lost(s)
      BY <1>2, <1>6, <2>2 DEF Lost
    <2> QED BY <1>2, <1>5, <1>12, <2>1, <2>3 DEF Matches, OnlyAnswer
  <1>13. ASSUME NEW e \in Of(s) PROVE entry[e].use # sends + 1 /\ entry[e].done
    <2>1. asked[s].fd = f /\ OnlyCall(s)
      BY <1>2, <1>9, <1>10, <1>13
    <2>2. entry[e].done
      BY <1>2, <1>5, <1>13, <2>1 DEF Placed, OnlyCall
    <2> QED BY <1>1, <1>6, <2>2
  <1>14. Placed(s)'
    <2>1. \A p \in Asking(s)' : p.fd <= asked'[s].fd /\ (p.fd = asked'[s].fd => p.use = asked'[s].use)
      BY <1>3, <1>6, <1>8, <1>11 DEF Fd
    <2>2. ASSUME NEW e \in Of(s)
          PROVE  /\ entry[e].asked <= f /\ \A g \in Fd : entry[e].use \in back[g] => g <= f
                 /\ entry[e].done /\ ~ entry[e].late => entry[e].asked = entry[e].version
      BY <1>2, <1>5, <1>10 DEF Placed
    <2> QED BY <1>2, <1>3, <1>7, <1>13, <2>1, <2>2 DEF Placed
  <1>15. Once(s)'
    <2>1. OnlyPackage(s)'
      BY <1>2, <1>3, <1>6, <1>7, <1>8, <1>11, <1>12, <1>13 DEF OnlyPackage, Fd
    <2>2. OnlyCall(s)'
      BY <1>2, <1>3, <1>7, <1>13 DEF OnlyCall
    <2>3. sends + 1 \notin back[f]
      <3>1. ASSUME sends + 1 \in back[f] PROVE FALSE
        <4>1. PICK d \in Used : entry[d].use = sends + 1
          BY <1>1, <3>1 DEF TurnInv, Turned, Backed
        <4>2. entry[d].use <= sends
          BY <1>1 DEF Entries
        <4> QED BY <1>1, <4>1, <4>2
      <3> QED BY <3>1
    <2>4. OnlyAnswer(s)'
      BY <1>2, <1>3, <2>3 DEF OnlyAnswer
    <2> QED BY <2>1, <2>2, <2>4 DEF Once
  <1>16. Matches(s)'
    <2>1. ASSUME response[s] # None PROVE entry[response[s]].version = f
      <3>1. asked[s].fd = f /\ OnlyAnswer(s)
        BY <1>2, <1>9, <1>10, <2>1
      <3> QED BY <1>2, <1>4, <2>1, <3>1 DEF OnlyAnswer
    <2> QED BY <1>2, <1>3, <1>7, <1>12, <2>1 DEF Matches
  <1> QED BY <1>14, <1>15, <1>16 DEF Asked

\* A request is repeated, on the same connection or on a newer one.
LEMMA OwnRepeat ==
  ASSUME IInv, TurnInv, NEW f \in Fd, NEW s \in Session, Repeat(f, s),
         Pending' \subseteq Pending \cup {AskPackage(f, s, asked[s].use)}
  PROVE  Asked(s)'
  <1> USE DEF IInv, FlowInv
  <1> DEFINE P == AskPackage(f, s, asked[s].use)
  <1>1. /\ asked \in [Session -> [use : 0..MaxSends, first : Fd \cup {None}, fd : Fd \cup {None},
                                  answered : BOOLEAN]]
        /\ sends \in Nat /\ again \subseteq 1..MaxSends
    BY ClientTypes
  <1>2. /\ ~ asked[s].answered
        /\ \/ asked[s].fd = f /\ again' = again \cup {asked[s].use}
           \/ asked[s].fd < f /\ UNCHANGED again
        /\ asked' = [asked EXCEPT ![s].fd = f]
        /\ UNCHANGED <<back, user, response, entry>>
    BY Repeating
  <1>3. /\ asked'[s].use = asked[s].use /\ asked'[s].first = asked[s].first /\ asked'[s].fd = f
        /\ ~ asked'[s].answered /\ again \subseteq again'
    BY <1>1, <1>2
  <1>4. /\ Placed(s) /\ Once(s) /\ Matches(s) /\ asked[s].use # 0
        /\ asked[s].first <= asked[s].fd /\ asked[s].first \in Fd \cup {None} /\ asked[s].fd \in Fd \cup {None}
    BY <1>1, <1>2 DEF TurnInv, Asked, Turned, Client, Clients
  <1>5. /\ response[s] # None => response[s] \in Of(s)
        /\ \A e \in Of(s) : /\ entry[e].use \in Nat /\ entry[e].use <= sends /\ entry[e].use # 0
                            /\ entry[e].asked \in Fd /\ e \in Used
        /\ \A p \in Asking(s) : p.fd \in Fd
    BY SessionTypes
  <1>6. Of(s)' = Of(s) /\ Used' = Used
    BY <1>2 DEF Of, Used
  <1>7. P.fd = f /\ P.use = asked[s].use /\ \A p \in Asking(s)' : p \in Asking(s) \/ p = P
    BY DEF Asking, AskPackage, Package
  <1> HIDE DEF P
  <1>8. asked[s].fd <= f
    BY <1>2, <1>4 DEF Fd, None
  <1>9. ASSUME asked[s].fd < f
        PROVE  /\ \A p \in Asking(s) : p.fd < f
               /\ \A e \in Of(s) : entry[e].asked < f /\ entry[e].use \notin back[f]
    <2>1. ASSUME NEW p \in Asking(s) PROVE p.fd < f
      <3>1. p.fd <= asked[s].fd /\ p.fd \in Fd
        BY <1>4, <1>5 DEF Placed
      <3> QED BY <1>4, <1>9, <3>1 DEF Fd, None
    <2>2. ASSUME NEW e \in Of(s) PROVE entry[e].asked < f /\ entry[e].use \notin back[f]
      <3>1. /\ entry[e].asked <= asked[s].fd /\ entry[e].asked \in Fd
            /\ entry[e].use \in back[f] => f <= asked[s].fd
        BY <1>4, <1>5 DEF Placed
      <3> QED BY <1>4, <1>9, <3>1 DEF Fd, None
    <2> QED BY <2>1, <2>2
  <1>10. ASSUME asked[s].fd < f PROVE asked[s].use \notin back[f]
    <2>1. ASSUME asked[s].use \in back[f] PROVE FALSE
      <3>1. PICK d \in Used : entry[d].use = asked[s].use
        BY <1>4, <2>1 DEF TurnInv, Turned, Backed
      <3>2. PICK t \in Session : d \in Of(t)
        BY DEF Entries, Of
      <3>3. entry[d].use \in 1..MaxSends /\ Says(entry[d].use, t) /\ Says(entry[d].use, s)
        BY <3>1, <3>2, SessionTypes DEF Says
      <3>4. t = s
        BY <3>3 DEF TurnInv, Turned, Owned
      <3> QED BY <1>9, <1>10, <2>1, <3>1, <3>2, <3>4
    <2> QED BY <2>1
  <1>11. Placed(s)'
    <2>1. ASSUME NEW p \in Asking(s)'
          PROVE  p.fd <= asked'[s].fd /\ (p.fd = asked'[s].fd => p.use = asked'[s].use)
      <3>1. CASE p = P
        BY <1>3, <1>7, <3>1 DEF Fd
      <3>2. CASE p \in Asking(s)
        <4>1. p.fd <= asked[s].fd /\ (p.fd = asked[s].fd => p.use = asked[s].use) /\ p.fd \in Fd
          BY <1>4, <1>5, <3>2 DEF Placed
        <4> QED BY <1>2, <1>3, <1>4, <1>8, <1>9, <3>2, <4>1 DEF Fd, None
      <3> QED BY <1>7, <3>1, <3>2
    <2>2. ASSUME NEW e \in Of(s)
          PROVE  entry[e].asked <= f /\ \A g \in Fd : entry[e].use \in back[g] => g <= f
      <3>1. entry[e].asked <= asked[s].fd /\ \A g \in Fd : entry[e].use \in back[g] => g <= asked[s].fd
        BY <1>4 DEF Placed
      <3> QED BY <1>4, <1>5, <1>8, <3>1 DEF Fd, None
    <2> QED BY <1>2, <1>3, <1>4, <1>6, <2>1, <2>2 DEF Placed
  <1>12. Once(s)'
    <2> SUFFICES ASSUME asked[s].use \notin again'
                 PROVE  OnlyPackage(s)' /\ OnlyCall(s)' /\ OnlyAnswer(s)'
      BY <1>3 DEF Once
    <2>1. asked[s].fd < f /\ OnlyPackage(s) /\ OnlyCall(s) /\ OnlyAnswer(s)
      BY <1>2, <1>3, <1>4 DEF Once
    <2>2. OnlyPackage(s)'
      BY <1>2, <1>3, <1>5, <1>6, <1>7, <1>9, <2>1 DEF OnlyPackage, Fd
    <2>3. OnlyCall(s)'
      BY <1>2, <1>3, <1>6, <1>9, <2>1 DEF OnlyCall
    <2>4. OnlyAnswer(s)'
      BY <1>2, <1>3, <1>10, <2>1 DEF OnlyAnswer
    <2> QED BY <2>2, <2>3, <2>4
  <1>13. Matches(s)'
    <2>1. CASE asked[s].fd < f
      <3>1. asked'[s].first # asked'[s].fd
        BY <1>3, <1>4, <2>1 DEF Fd, None
      <3> QED BY <1>2, <1>3, <1>6, <1>9, <2>1, <3>1 DEF Matches
    <2>2. CASE asked[s].fd = f
      BY <1>2, <1>3, <1>4, <1>6, <2>2 DEF Matches, Lost
    <2> QED BY <1>2, <2>1, <2>2
  <1> QED BY <1>11, <1>12, <1>13 DEF Asked

\* What is on its way under the number of a request is backed by an entry of
\* its session.
LEMMA BackedBy ==
  ASSUME IInv, Turned, NEW s \in Session, asked[s].use # 0, NEW f \in Fd, asked[s].use \in back[f]
  PROVE  \E d \in Of(s) : entry[d].use = asked[s].use
  <1>1. PICK d \in Used : entry[d].use = asked[s].use
    BY DEF Turned, Backed
  <1>2. PICK t \in Session : d \in Of(t)
    BY DEF IInv, Entries, Of
  <1>3. entry[d].use \in 1..MaxSends /\ Says(entry[d].use, t) /\ Says(entry[d].use, s)
    BY <1>1, <1>2, SessionTypes DEF Says
  <1>4. t = s
    BY <1>3 DEF Turned, Owned
  <1> QED BY <1>1, <1>2, <1>4

\* The answer is received.
LEMMA OwnReceive ==
  ASSUME IInv, TurnInv, NEW s \in Session, NEW f \in Fd, NEW n \in back[f], Receive(f, n),
         Pending' \subseteq Pending, asked'[s] # asked[s]
  PROVE  Asked(s)'
  <1> USE DEF IInv, FlowInv
  <1>1. /\ asked \in [Session -> [use : 0..MaxSends, first : Fd \cup {None}, fd : Fd \cup {None},
                                  answered : BOOLEAN]]
        /\ back \in [Fd -> SUBSET (0..MaxSends)]
    BY ClientTypes
  <1>2. /\ back' = [back EXCEPT ![f] = @ \ {n}]
        /\ UNCHANGED <<again, user, response, entry>>
        /\ n # 0 /\ asked[s].use = n /\ asked[s].fd = f
        /\ asked'[s] = [asked[s] EXCEPT !.answered = TRUE]
    <2>1. /\ back' = [back EXCEPT ![f] = @ \ {n}]
          /\ UNCHANGED <<again, user, response, entry>>
          /\ \/ UNCHANGED asked
             \/ /\ n # 0
                /\ asked' = [r \in Session |-> IF asked[r].use = n /\ asked[r].fd = f
                               THEN [asked[r] EXCEPT !.answered = TRUE] ELSE asked[r]]
      BY Receiving
    <2> QED BY <2>1
  <1>3. asked'[s].use = n /\ asked'[s].first = asked[s].first /\ asked'[s].fd = f /\ asked'[s].answered
    BY <1>1, <1>2
  <1>4. Placed(s) /\ Once(s) /\ Matches(s)
    BY DEF TurnInv, Asked
  <1>5. Of(s)' = Of(s) /\ Used' = Used /\ Asking(s)' \subseteq Asking(s)
    BY <1>2 DEF Of, Used, Asking
  <1>6. \E d \in Of(s) : entry[d].use = n
    <2>1. asked[s].use # 0 /\ asked[s].use \in back[f] /\ Turned
      BY <1>2 DEF TurnInv
    <2>2. \E d \in Of(s) : entry[d].use = asked[s].use
      BY <2>1, BackedBy
    <2> QED BY <1>2, <2>2
  <1>7. n \in back[f] /\ n \notin back'[f] /\ \A g \in Fd : back'[g] \subseteq back[g]
    BY <1>1, <1>2
  <1>8. Placed(s)'
    BY <1>2, <1>3, <1>4, <1>5, <1>6, <1>7 DEF Placed
  <1>9. Once(s)'
    <2> SUFFICES ASSUME n \notin again PROVE OnlyPackage(s)' /\ OnlyCall(s)' /\ OnlyAnswer(s)'
      BY <1>2, <1>3 DEF Once
    <2>1. OnlyPackage(s) /\ OnlyCall(s) /\ OnlyAnswer(s)
      BY <1>2, <1>4 DEF Once
    <2>2. \A p \in Asking(s) : p.fd # f
      BY <1>2, <1>6, <1>7, <2>1 DEF OnlyPackage
    <2>3. \A e \in Of(s) : entry[e].use = n => entry[e].done
      BY <1>2, <1>7, <2>1 DEF OnlyCall
    <2>4. OnlyPackage(s)'
      BY <1>3, <1>5, <2>2 DEF OnlyPackage
    <2>5. OnlyCall(s)'
      BY <1>2, <1>3, <1>5, <2>3 DEF OnlyCall
    <2>6. OnlyAnswer(s)'
      BY <1>2, <1>3, <1>7, <2>1 DEF OnlyAnswer
    <2> QED BY <2>4, <2>5, <2>6
  <1>10. Matches(s)'
    BY <1>2, <1>3, <1>4, <1>5, <1>7 DEF Matches, Lost
  <1> QED BY <1>8, <1>9, <1>10 DEF Asked

\* What handling a request finds and leaves, if the request was sent once.
LEMMA OncePackage ==
  ASSUME IInv, TurnInv, NEW p \in Pending, NEW more \in {0, loop}, Handled(p, more), connection[p.fd],
         asked[p.session].use \notin again
  PROVE  LET s == p.session IN
         /\ OnlyPackage(s) /\ OnlyCall(s) /\ OnlyAnswer(s) /\ ~ asked[s].answered
         /\ \A q \in Asking(s)' : q.fd # asked[s].fd
         /\ \A e \in Of(s) : /\ entry[e].use \notin back[asked[s].fd]
                             /\ entry[e].use = asked[s].use => entry[e].asked # asked[s].fd
         /\ asked[s].use \notin back[asked[s].fd]
  <1> DEFINE s == p.session
  <1>1. /\ s \in Session /\ p \in Asking(s) /\ p \notin Pending' /\ p.fd = asked[s].fd /\ p.fd \in Fd
        /\ p.use = asked[s].use /\ p.use \in 1..sends /\ \A q \in Asking(s)' : q \in Asking(s)
    BY AtRequest
  <1>2. asked[s].use # 0
    BY <1>1
  <1>3. OnlyPackage(s) /\ OnlyCall(s) /\ OnlyAnswer(s)
    BY <1>1, <1>2 DEF TurnInv, Asked, Once
  <1>4. /\ ~ asked[s].answered
        /\ \A q \in Asking(s) : q.fd = asked[s].fd => p = q
        /\ \A e \in Of(s) : /\ entry[e].use \notin back[asked[s].fd]
                            /\ entry[e].use = asked[s].use => entry[e].asked # asked[s].fd
    BY <1>1, <1>3 DEF OnlyPackage
  <1>5. \A q \in Asking(s)' : q.fd # asked[s].fd
    BY <1>1, <1>4 DEF Asking
  <1>6. asked[s].use \notin back[asked[s].fd]
    BY <1>1, <1>2, <1>4, BackedBy DEF TurnInv
  <1> QED BY <1>3, <1>4, <1>5, <1>6

LEMMA OwnExecutes ==
  ASSUME IInv, TurnInv, NEW p \in Pending, NEW more \in {0, loop}, Handled(p, more), Executes(p, more)
  PROVE  Asked(p.session)'
  <1> DEFINE s == p.session
             U == asked[s].use
             F == asked[s].fd
  <1>1. connection[p.fd]
    BY DEF Executes
  <1>2. /\ s \in Session /\ p.fd \in Fd /\ p.fd = user.version /\ p.fd = F /\ p.use = U
        /\ p.use \in 1..sends /\ U # 0 /\ \A q \in Asking(s)' : q \in Asking(s)
    <2>1. /\ s \in Session /\ p.fd \in Fd /\ p.fd = user.version /\ p.fd = F /\ p.use = U
          /\ p.use \in 1..sends /\ \A q \in Asking(s)' : q \in Asking(s)
      BY <1>1, AtRequest
    <2> QED BY <2>1
  <1>3. /\ WorksOn(s)
        /\ Of(s)' = Of(s) \cup {NewOne} /\ NewOne \notin Used /\ NewOne \in Entry
        /\ \A d \in Of(s) : entry'[d] = entry[d]
        /\ entry'[NewOne].use = p.use /\ entry'[NewOne].asked = p.fd /\ ~ entry'[NewOne].done
        /\ ~ entry'[NewOne].late /\ entry'[NewOne].version = None
        /\ response'[s] = NewOne /\ UNCHANGED back
    BY ExecutesOn
  <1>4. asked' = asked /\ again' = again /\ user'.version = user.version
    BY <1>3 DEF WorksOn, Works
  <1>5. Placed(s) /\ Once(s) /\ Matches(s)
    BY <1>2 DEF TurnInv, Asked
  <1>6. response[s] # None => response[s] \in Of(s) /\ entry[response[s]].done
    BY <1>2, SessionTypes DEF Executes
  <1>7. \A e \in Of(s) : e # None
    BY <1>2, SessionTypes
  <1>8. asked[s].use \notin again =>
          /\ OnlyPackage(s) /\ OnlyCall(s) /\ OnlyAnswer(s) /\ ~ asked[s].answered
          /\ \A q \in Asking(s)' : q.fd # asked[s].fd
          /\ \A e \in Of(s) : /\ entry[e].use \notin back[asked[s].fd]
                              /\ entry[e].use = asked[s].use => entry[e].asked # asked[s].fd
          /\ asked[s].use \notin back[asked[s].fd]
    BY <1>1, OncePackage
  <1>9. NewOne # None
    BY <1>3 DEF Entry, None
  <1>10. \A f \in Fd : U \in back[f] => f <= F
    <2>1. ASSUME NEW f \in Fd, U \in back[f] PROVE f <= F
      <3>1. \E d \in Of(s) : entry[d].use = U
        BY <1>2, <2>1, BackedBy DEF TurnInv
      <3> QED BY <1>5, <2>1, <3>1 DEF Placed
    <2> QED BY <2>1
  <1> HIDE DEF s
  <1>11. Placed(s)'
    <2>1. \A q \in Asking(s)' : q.fd <= asked'[s].fd /\ (q.fd = asked'[s].fd => q.use = asked'[s].use)
      BY <1>2, <1>4, <1>5 DEF Placed
    <2>2. ASSUME NEW e \in Of(s)
          PROVE  /\ entry'[e].asked <= asked'[s].fd
                 /\ \A f \in Fd : entry'[e].use \in back'[f] => f <= asked'[s].fd
                 /\ entry'[e].use # asked'[s].use => entry'[e].done
                 /\ entry'[e].done /\ ~ entry'[e].late => entry'[e].asked = entry'[e].version
                 /\ ~ entry'[e].done /\ entry'[e].version # None => entry'[e].version = entry'[e].asked
      BY <1>3, <1>4, <1>5 DEF Placed
    <2>3. /\ entry'[NewOne].asked <= asked'[s].fd
          /\ \A f \in Fd : entry'[NewOne].use \in back'[f] => f <= asked'[s].fd
          /\ entry'[NewOne].use = asked'[s].use
      BY <1>2, <1>3, <1>4, <1>10 DEF Fd
    <2> QED BY <1>3, <1>4, <2>1, <2>2, <2>3 DEF Placed
  <1>12. Once(s)'
    <2> SUFFICES ASSUME U \notin again PROVE OnlyPackage(s)' /\ OnlyCall(s)' /\ OnlyAnswer(s)'
      BY <1>4 DEF Once
    <2>1. OnlyPackage(s)'
      BY <1>4, <1>8 DEF OnlyPackage
    <2>2. \A e \in Of(s) : entry[e].use = U => entry[e].done
      BY <1>6, <1>7, <1>8 DEF OnlyCall
    <2>3. OnlyCall(s)'
      BY <1>3, <1>4, <1>8, <2>2 DEF OnlyCall
    <2>4. OnlyAnswer(s)'
      BY <1>3, <1>4, <1>8 DEF OnlyAnswer
    <2> QED BY <2>1, <2>3, <2>4
  <1>13. Matches(s)'
    <2>1. ASSUME NEW e \in Of(s), entry[e].use \in back[F] PROVE entry[e].use = U \/ Lost(s)'
      <3>1. U \in again
        BY <1>8, <2>1
      <3>2. entry[e].use = U \/ asked[s].first # asked[s].fd
        BY <1>2, <1>5, <2>1 DEF Matches, Lost
      <3> QED BY <1>4, <3>1, <3>2 DEF Lost
    <2> QED BY <1>2, <1>3, <1>4, <2>1 DEF Matches
  <1> QED BY <1>11, <1>12, <1>13 DEF Asked, s

\* When no entry is made, nothing is found or lost.
LEMMA KeptLost ==
  ASSUME IInv, IInv', NEW s \in Session, WorksOn(s), Of(s)' = Of(s),
         \A d \in Of(s) : entry'[d].use = entry[d].use
  PROVE  Lost(s)' <=> Lost(s)
  <1>1. asked' = asked /\ again' = again
    BY DEF WorksOn, Works
  <1>2. \A d \in Used : \E r \in Session : d \in Of(r)
    BY DEF IInv, Entries, Of
  <1>3. \A d \in Used' : \E r \in Session : d \in Of(r)
    <2>1. ASSUME NEW d \in Used' PROVE \E r \in Session : d \in Of(r)
      <3>1. CASE d \in Used
        BY <1>2, <3>1
      <3>2. CASE d \notin Used
        <4>1. PICK r \in Session : r = entry'[d].session
          BY DEF IInv, Entries
        <4>2. d \in Of(r)'
          BY <4>1 DEF Of
        <4> QED BY <4>2 DEF WorksOn
      <3> QED BY <3>1, <3>2
    <2> QED BY <2>1
  <1>4. \A d \in Used : d \in Used' /\ entry'[d].use = entry[d].use
    BY <1>2 DEF WorksOn, Of, Same
  <1>5. Used' = Used
    BY <1>3, <1>4 DEF Of
  <1> QED BY <1>1, <1>4, <1>5 DEF Lost

LEMMA OwnConflicts ==
  ASSUME IInv, TurnInv, NEW p \in Pending, NEW more \in {0, loop}, Handled(p, more), Conflicts(p, more)
  PROVE  Asked(p.session)'
  <1> DEFINE s == p.session
             r == response[s]
  <1>1. connection[p.fd] /\ r # None /\ ~ entry[r].done /\ Reused(r)
    BY DEF Conflicts
  <1>2. /\ s \in Session /\ p.fd \in Fd /\ p.fd = user.version /\ p.fd = asked[s].fd
        /\ \A q \in Asking(s)' : q \in Asking(s)
    BY <1>1, AtRequest
  <1>3. WorksOn(s) /\ Of(s)' = Of(s) /\ UNCHANGED <<entry, back>> /\ response'[s] = None
    BY ConflictsOn
  <1>4. asked' = asked /\ again' = again /\ user'.version = user.version
    BY <1>3 DEF WorksOn, Works
  <1>5. Placed(s) /\ Once(s) /\ Matches(s)
    BY <1>2 DEF TurnInv, Asked
  <1>6. r \in Of(s)
    BY <1>1, <1>2, SessionTypes
  <1>7. asked[s].use \in again
    <2>1. entry[r].use = asked[s].use
      BY <1>1, <1>5, <1>6 DEF Placed
    <2>2. entry[r].version = asked[s].fd /\ entry[r].version # None
      BY <1>1, <1>2 DEF Reused, Fd, None
    <2>3. entry[r].asked = asked[s].fd
      BY <1>1, <1>5, <1>6, <2>2 DEF Placed
    <2>4. asked[s].use \notin again => \A e \in Of(s) : entry[e].use = asked[s].use => entry[e].asked # asked[s].fd
      BY <1>1, OncePackage
    <2> QED BY <1>6, <2>1, <2>3, <2>4
  <1>8. Used' = Used
    BY <1>3 DEF Used
  <1> HIDE DEF s, r
  <1>9. Placed(s)'
    BY <1>2, <1>3, <1>4, <1>5 DEF Placed
  <1>10. Once(s)'
    BY <1>4, <1>7 DEF Once
  <1>11. Matches(s)'
    BY <1>3, <1>4, <1>5, <1>8 DEF Matches, Lost
  <1> QED BY <1>9, <1>10, <1>11 DEF Asked, s

LEMMA OwnMoves ==
  ASSUME IInv, IInv', TurnInv, NEW p \in Pending, NEW more \in {0, loop}, Handled(p, more), Moves(p, more)
  PROVE  Asked(p.session)'
  <1> DEFINE s == p.session
             r == response[s]
  <1>1. connection[p.fd]
    BY DEF Moves
  <1>2. /\ s \in Session /\ p.fd \in Fd /\ p.fd = user.version /\ p.fd = asked[s].fd
        /\ \A q \in Asking(s)' : q \in Asking(s)
    BY <1>1, AtRequest
  <1>3. /\ WorksOn(s) /\ Of(s)' = Of(s) /\ UNCHANGED <<response, back>>
        /\ r \in Of(s) /\ ~ entry[r].done
        /\ \A d \in Of(s) :
             /\ entry'[d].use = entry[d].use /\ entry'[d].done = entry[d].done
             /\ entry'[d].late = entry[d].late
             /\ IF d = r THEN entry'[d].asked = p.fd /\ entry'[d].version = user.version
                         ELSE entry'[d] = entry[d]
    BY MovesOn
  <1>4. asked' = asked /\ again' = again /\ user'.version = user.version
    BY <1>3 DEF WorksOn, Works
  <1>5. Placed(s) /\ Once(s) /\ Matches(s)
    BY <1>2 DEF TurnInv, Asked
  <1>6. entry[r].use = asked[s].use
    BY <1>3, <1>5 DEF Placed
  <1>7. asked[s].use \notin again =>
          /\ OnlyPackage(s) /\ OnlyCall(s) /\ OnlyAnswer(s) /\ ~ asked[s].answered
          /\ \A q \in Asking(s)' : q.fd # asked[s].fd
          /\ asked[s].use \notin back[asked[s].fd]
    BY <1>1, OncePackage
  <1>8. Lost(s)' <=> Lost(s)
    BY <1>2, <1>3, KeptLost
  <1> HIDE DEF s, r
  <1>9. response'[s] = r /\ r = response[s]
    BY <1>3 DEF r
  <1>10. Placed(s)'
    <2>1. \A q \in Asking(s)' : q.fd <= asked'[s].fd /\ (q.fd = asked'[s].fd => q.use = asked'[s].use)
      BY <1>2, <1>4, <1>5 DEF Placed
    <2>2. ASSUME NEW e \in Of(s)
          PROVE  /\ entry'[e].asked <= asked'[s].fd
                 /\ \A f \in Fd : entry'[e].use \in back'[f] => f <= asked'[s].fd
                 /\ entry'[e].use # asked'[s].use => entry'[e].done
                 /\ entry'[e].use = asked'[s].use => \/ response'[s] = None
                                                     \/ entry'[response'[s]].use = asked'[s].use
                 /\ entry'[e].done /\ ~ entry'[e].late => entry'[e].asked = entry'[e].version
                 /\ ~ entry'[e].done /\ entry'[e].version # None => entry'[e].version = entry'[e].asked
      <3>1. /\ entry[e].asked <= asked[s].fd
            /\ \A f \in Fd : entry[e].use \in back[f] => f <= asked[s].fd
            /\ entry[e].use # asked[s].use => entry[e].done
            /\ entry[e].done /\ ~ entry[e].late => entry[e].asked = entry[e].version
            /\ ~ entry[e].done /\ entry[e].version # None => entry[e].version = entry[e].asked
        BY <1>5 DEF Placed
      <3>2. entry'[response'[s]].use = asked'[s].use
        BY <1>3, <1>4, <1>6, <1>9
      <3>3. CASE e = r
        BY <1>2, <1>3, <1>4, <3>1, <3>2, <3>3 DEF Fd
      <3>4. CASE e # r
        BY <1>3, <1>4, <3>1, <3>2, <3>4
      <3> QED BY <3>3, <3>4
    <2>3. asked'[s].use # 0 /\ asked'[s].answered => \E e \in Of(s)' : entry'[e].use = asked'[s].use
      BY <1>3, <1>4, <1>5 DEF Placed
    <2> QED BY <1>3, <2>1, <2>2, <2>3 DEF Placed
  <1>11. Once(s)'
    <2> SUFFICES ASSUME asked[s].use \notin again PROVE OnlyPackage(s)' /\ OnlyCall(s)' /\ OnlyAnswer(s)'
      BY <1>4 DEF Once
    <2>1. OnlyPackage(s)'
      BY <1>4, <1>7 DEF OnlyPackage
    <2>2. OnlyCall(s)'
      BY <1>3, <1>4, <1>7 DEF OnlyCall
    <2>3. OnlyAnswer(s)'
      BY <1>3, <1>4, <1>7 DEF OnlyAnswer
    <2> QED BY <2>1, <2>2, <2>3
  <1>12. Matches(s)'
    <2>1. ASSUME asked[s].use # 0
          PROVE  \A e \in Of(s)' : entry'[e].use \in back'[asked'[s].fd] =>
                   entry'[e].use = asked'[s].use \/ Lost(s)'
      BY <1>3, <1>4, <1>5, <1>8, <2>1 DEF Matches
    <2>2. entry'[response'[s]].use = asked'[s].use
      BY <1>3, <1>4, <1>6, <1>9
    <2> QED BY <1>4, <2>1, <2>2 DEF Matches
  <1> QED BY <1>10, <1>11, <1>12 DEF Asked, s

\* An answer is made for the entry e of session s, which the cache keeps.
LEMMA OwnAnswers ==
  ASSUME IInv, IInv', TurnInv, Works, NEW s \in Session, NEW e \in Of(s), NEW x \in CacheEntry,
         Answers(e, x), x.session = s, x.use = entry[e].use, x.done, response[s] = e \/ asked[s].use \in again,
         x.fd \in Fd, x.fd <= asked[s].fd, x.asked = x.fd, x.version = user.version,
         ~ x.late => x.asked = x.version,
         entry[e].use = asked[s].use \/ Lost(s),
         asked[s].use \notin again =>
           /\ ~ asked[s].answered /\ asked[s].use \notin back[asked[s].fd]
           /\ \A q \in Asking(s)' : q.fd = asked[s].fd => x.fd # asked[s].fd
  PROVE  Asked(s)'
  <1>1. /\ WorksOn(s) /\ Of(s)' = Of(s)
        /\ \A d \in Of(s) :
             /\ entry'[d].use = entry[d].use
             /\ d # e => Same(entry'[d], entry[d])
        /\ entry'[e].done = x.done /\ entry'[e].late = x.late /\ entry'[e].asked = x.asked
        /\ entry'[e].version = x.version
        /\ \/ response'[s] = response[s]
           \/ response'[s] = None /\ response[s] # e
        /\ \A f \in Fd : \A n \in back'[f] : n \in back[f] \/ (f = x.fd /\ n = entry[e].use /\ connection[f])
    <2>1. Remakes(s, e, x)
      BY AnswersOwn
    <2> QED BY <2>1 DEF Remakes
  <1>2. \A d \in Of(s) \ {e} : /\ entry'[d].use = entry[d].use /\ entry'[d].done = entry[d].done
                               /\ entry'[d].version = entry[d].version
                               /\ entry'[d].asked = entry[d].asked /\ entry'[d].late = entry[d].late
    BY <1>1 DEF Same
  <1>3. asked' = asked /\ again' = again /\ user'.version = user.version /\ Asking(s)' \subseteq Asking(s)
    BY DEF Works, Asking
  <1>4. Placed(s) /\ Once(s) /\ Matches(s)
    BY DEF TurnInv, Asked
  <1>5. response[s] # None => response[s] \in Of(s)
    BY SessionTypes
  <1>6. Lost(s)' <=> Lost(s)
    BY <1>1, KeptLost
  <1>7. asked[s].use # 0 => asked[s].fd \in Fd
    BY SessionTypes DEF TurnInv, Turned, Client
  <1>8. Placed(s)'
    <2>1. \A q \in Asking(s)' : q.fd <= asked'[s].fd /\ (q.fd = asked'[s].fd => q.use = asked'[s].use)
      BY <1>3, <1>4 DEF Placed
    <2>2. ASSUME NEW d \in Of(s)
          PROVE  /\ entry'[d].asked <= asked'[s].fd
                 /\ \A f \in Fd : entry'[d].use \in back'[f] => f <= asked'[s].fd
                 /\ entry'[d].use # asked'[s].use => entry'[d].done
                 /\ entry'[d].use = asked'[s].use => \/ response'[s] = None
                                                     \/ entry'[response'[s]].use = asked'[s].use
                 /\ entry'[d].done /\ ~ entry'[d].late => entry'[d].asked = entry'[d].version
                 /\ ~ entry'[d].done /\ entry'[d].version # None => entry'[d].version = entry'[d].asked
      <3>1. /\ entry[d].asked <= asked[s].fd
            /\ \A f \in Fd : entry[d].use \in back[f] => f <= asked[s].fd
            /\ entry[d].use # asked[s].use => entry[d].done
            /\ entry[d].use = asked[s].use => \/ response[s] = None
                                              \/ entry[response[s]].use = asked[s].use
            /\ entry[d].done /\ ~ entry[d].late => entry[d].asked = entry[d].version
            /\ ~ entry[d].done /\ entry[d].version # None => entry[d].version = entry[d].asked
        BY <1>4 DEF Placed
      <3>2. entry'[d].use = asked'[s].use => \/ response'[s] = None
                                             \/ entry'[response'[s]].use = asked'[s].use
        BY <1>1, <1>3, <1>5, <3>1
      <3>3. \A f \in Fd : entry'[d].use \in back'[f] => f <= asked'[s].fd
        BY <1>1, <1>3, <3>1
      <3>4. CASE d = e
        BY <1>1, <1>3, <3>2, <3>3, <3>4
      <3>5. CASE d # e
        BY <1>2, <1>3, <3>1, <3>2, <3>3, <3>5
      <3> QED BY <3>4, <3>5
    <2>3. asked'[s].use # 0 /\ asked'[s].answered => \E d \in Of(s)' : entry'[d].use = asked'[s].use
      BY <1>1, <1>3, <1>4 DEF Placed
    <2> QED BY <1>1, <2>1, <2>2, <2>3 DEF Placed
  <1>9. Once(s)'
    <2> SUFFICES ASSUME asked[s].use # 0, asked[s].use \notin again
                 PROVE  OnlyPackage(s)' /\ OnlyCall(s)' /\ OnlyAnswer(s)'
      BY <1>3 DEF Once
    <2>1. OnlyPackage(s) /\ OnlyCall(s) /\ OnlyAnswer(s) /\ asked[s].fd \in Fd /\ response[s] = e
      BY <1>4, <1>7 DEF Once
    <2>2. /\ ~ asked[s].answered /\ asked[s].use \notin back[asked[s].fd]
          /\ \A q \in Asking(s)' : q.fd = asked[s].fd => x.fd # asked[s].fd
      OBVIOUS
    <2>3. OnlyPackage(s)'
      <3> SUFFICES ASSUME NEW p \in Asking(s)', p.fd = asked[s].fd
                   PROVE  /\ \A q \in Asking(s)' : q.fd = asked[s].fd => p = q
                          /\ \A d \in Of(s) : /\ entry'[d].use \notin back'[asked[s].fd]
                                              /\ entry'[d].use = asked[s].use => entry'[d].asked # asked[s].fd
        BY <1>1, <1>3, <2>2 DEF OnlyPackage
      <3>1. /\ \A q \in Asking(s) : q.fd = asked[s].fd => p = q
            /\ \A d \in Of(s) : /\ entry[d].use \notin back[asked[s].fd]
                                /\ entry[d].use = asked[s].use => entry[d].asked # asked[s].fd
        BY <1>3, <2>1 DEF OnlyPackage
      <3>2. x.fd # asked[s].fd
        BY <2>2
      <3> QED BY <1>1, <1>2, <1>3, <2>1, <3>1, <3>2
    <2>4. OnlyCall(s)'
      <3>1. ASSUME NEW d \in Of(s), entry'[d].use = asked[s].use, ~ entry'[d].done PROVE FALSE
        <4>1. d # e
          BY <1>1, <3>1
        <4>2. entry[d].use = asked[s].use /\ ~ entry[d].done
          BY <1>2, <3>1, <4>1
        <4> QED BY <2>1, <4>1, <4>2 DEF OnlyCall
      <3> QED BY <1>1, <1>3, <3>1 DEF OnlyCall
    <2>5. OnlyAnswer(s)'
      <3>1. response'[s] = e
        BY <1>1, <2>1
      <3>2. asked[s].use \in back'[asked[s].fd] => entry[e].use = asked[s].use
        BY <1>1, <2>1, <2>2
      <3> QED BY <1>1, <1>3, <2>2, <3>1, <3>2 DEF OnlyAnswer
    <2> QED BY <2>3, <2>4, <2>5
  <1>10. Matches(s)'
    <2> SUFFICES ASSUME asked[s].use # 0
                 PROVE  /\ \A d \in Of(s) : entry[d].use \in back'[asked[s].fd] =>
                             entry[d].use = asked[s].use \/ Lost(s)
                        /\ /\ response'[s] # None /\ asked[s].first = asked[s].fd
                           /\ entry'[response'[s]].use # asked[s].use
                           => entry'[response'[s]].version = asked[s].fd
      BY <1>1, <1>3, <1>6 DEF Matches
    <2>1. ASSUME NEW d \in Of(s), entry[d].use \in back'[asked[s].fd]
          PROVE  entry[d].use = asked[s].use \/ Lost(s)
      <3>1. entry[d].use \in back[asked[s].fd] \/ entry[d].use = entry[e].use
        BY <1>1, <1>7, <2>1
      <3> QED BY <1>4, <3>1 DEF Matches
    <2>2. ASSUME response'[s] # None, asked[s].first = asked[s].fd, entry'[response'[s]].use # asked[s].use
          PROVE  entry'[response'[s]].version = asked[s].fd
      <3>1. response'[s] = response[s] /\ response[s] \in Of(s)
        BY <1>1, <1>5, <2>2
      <3>2. entry[e].use = asked[s].use
        BY <2>2 DEF Lost
      <3>3. response[s] # e /\ entry[response[s]].use # asked[s].use
        BY <1>1, <2>2, <3>1, <3>2
      <3>4. entry[response[s]].version = asked[s].fd
        BY <1>4, <2>2, <3>1, <3>3 DEF Matches
      <3> QED BY <1>2, <3>1, <3>3, <3>4
    <2> QED BY <2>1, <2>2
  <1> QED BY <1>8, <1>9, <1>10 DEF Asked

LEMMA OwnResends ==
  ASSUME IInv, IInv', TurnInv, NEW p \in Pending, NEW more \in {0, loop}, Handled(p, more), Resends(p, more)
  PROVE  WorksOn(p.session) /\ Asked(p.session)'
  <1> DEFINE s == p.session
             e == response[s]
             x == Renewed(p, e)
  <1>1. connection[p.fd] /\ entry[e].done /\ ~ Reused(e) /\ e # None
    BY DEF Resends
  <1>2. /\ s \in Session /\ p.fd \in Fd /\ p.fd = user.version /\ p.fd = asked[s].fd
        /\ p.use = asked[s].use /\ p.use \in 1..sends
        /\ \A q \in Asking(s)' : q \in Asking(s)
    BY <1>1, AtRequest
  <1>3. /\ e \in Used /\ entry[e].session = s /\ x \in CacheEntry /\ Answers(e, x)
    <2>1. p \in Pkg /\ s \in Session
      BY <1>1, HandledKinds DEF IInv
    <2> QED BY <2>1, Resending DEF IInv, FlowInv
  <1>4. e \in Of(s) /\ entry[e] \in CacheEntry
    BY <1>2, <1>3, SessionTypes DEF Of
  <1>5. Works
    BY Working
  <1> HIDE DEF e
  <1>6. /\ x.session = s /\ x.use = entry[e].use /\ x.done /\ x.fd = p.fd /\ x.asked = p.fd
        /\ x.version = user.version
    BY <1>1, <1>3, <1>4 DEF Renewed, CacheEntry
  <1> HIDE DEF x
  <1>7. WorksOn(s)
    BY <1>2, <1>3, <1>4, <1>5, <1>6, AnswersOwn DEF Remakes
  <1>8. Placed(s) /\ Matches(s) /\ e = response[s]
    BY <1>2 DEF TurnInv, Asked, e
  <1>9. entry[e].use = asked[s].use \/ Lost(s)
    <2> SUFFICES ASSUME entry[e].use # asked[s].use PROVE Lost(s)
      OBVIOUS
    <2>1. entry[e].version # asked[s].fd
      BY <1>1, <1>2 DEF Reused
    <2>2. asked[s].first # asked[s].fd
      BY <1>1, <1>2, <1>8, <2>1 DEF Matches
    <2>3. ASSUME NEW d \in Used, entry[d].use = asked[s].use PROVE FALSE
      <3>1. PICK r \in Session : d \in Of(r)
        BY DEF IInv, Entries, Of
      <3>2. entry[d].use \in 1..MaxSends /\ Says(entry[d].use, r) /\ Says(entry[d].use, s)
        BY <2>3, <3>1, SessionTypes DEF Says
      <3>3. d \in Of(s)
        BY <1>2, <3>1, <3>2 DEF TurnInv, Turned, Owned
      <3> QED BY <1>1, <1>8, <2>3, <3>3 DEF Placed
    <2> QED BY <2>2, <2>3 DEF Lost
  <1>10. asked[s].use \notin again =>
           /\ ~ asked[s].answered /\ asked[s].use \notin back[asked[s].fd]
           /\ \A q \in Asking(s)' : q.fd # asked[s].fd
    BY <1>1, OncePackage
  <1>11. p.fd <= asked[s].fd
    BY <1>2 DEF Fd
  <1> HIDE DEF s
  <1>12. Asked(s)'
    BY <1>2, <1>3, <1>4, <1>5, <1>6, <1>8, <1>9, <1>10, <1>11, OwnAnswers
  <1> QED BY <1>7, <1>12 DEF s

LEMMA OwnDone ==
  ASSUME IInv, IInv', TurnInv, NEW c \in calls, Done(c), Pending' \subseteq Pending
  PROVE  \E s \in Session : WorksOn(s) /\ Asked(s)'
  <1> DEFINE e == c.of
             x == Ended(e)
  <1>1. e \in Used /\ ~ entry[e].done /\ x \in CacheEntry /\ Answers(e, x) /\ x.fd = entry[e].asked
    BY Ending DEF IInv, FlowInv
  <1>2. PICK s \in Session : e \in Of(s)
    BY <1>1 DEF IInv, Entries, Of
  <1>3. Works
    BY Working
  <1> HIDE DEF e
  <1>4. /\ entry[e] \in CacheEntry /\ entry[e].session = s /\ entry[e].asked \in Fd
        /\ entry[e].use # 0
    BY <1>2, SessionTypes
  <1>5. /\ x.session = s /\ x.use = entry[e].use /\ x.done /\ x.asked = entry[e].asked
        /\ x.version = user.version /\ (~ x.late => x.asked = x.version)
    BY <1>4 DEF Ended, CacheEntry
  <1> HIDE DEF x
  <1>6. x.fd \in Fd
    BY <1>1, <1>4
  <1>7. WorksOn(s)
    BY <1>1, <1>2, <1>3, <1>5, <1>6, AnswersOwn DEF Remakes
  <1>8. Placed(s) /\ Once(s)
    BY DEF TurnInv, Asked
  <1>9. entry[e].use = asked[s].use /\ entry[e].asked <= asked[s].fd
    BY <1>1, <1>2, <1>8 DEF Placed
  <1>10. ASSUME asked[s].use \notin again
         PROVE  /\ response[s] = e /\ ~ asked[s].answered /\ asked[s].use \notin back[asked[s].fd]
                /\ \A q \in Asking(s)' : q.fd = asked[s].fd => x.fd # asked[s].fd
    <2>1. OnlyPackage(s) /\ OnlyCall(s)
      BY <1>4, <1>8, <1>9, <1>10 DEF Once
    <2>2. Asking(s)' \subseteq Asking(s)
      BY DEF Asking
    <2>3. response[s] = e /\ ~ asked[s].answered /\ asked[s].use \notin back[asked[s].fd]
      BY <1>1, <1>2, <1>9, <2>1 DEF OnlyCall
    <2>4. \A q \in Asking(s) : q.fd = asked[s].fd => entry[e].asked # asked[s].fd
      BY <1>2, <1>9, <2>1 DEF OnlyPackage
    <2> QED BY <1>1, <2>2, <2>3, <2>4
  <1>11. Asked(s)'
    BY <1>1, <1>2, <1>3, <1>5, <1>6, <1>9, <1>10, OwnAnswers
  <1> QED BY <1>7, <1>11

LEMMA AskedStep ==
  ASSUME IInv, IInv', TurnInv, Next, Owned', NEW s \in Session
  PROVE  Asked(s)'
  <1>1. Turned
    BY DEF TurnInv
  <1>2. CASE Keeps(s)
    BY <1>2, Undisturbed
  <1>3. ASSUME NEW t \in Session, WorksOn(t), Asked(t)' PROVE Asked(s)'
    <2>1. CASE s = t
      BY <1>3, <2>1
    <2>2. CASE s # t
      BY <1>1, <1>2, <1>3, <2>2, OthersWork
    <2> QED BY <2>1, <2>2
  <1>4. CASE Quiet
    BY <1>1, <1>2, <1>4, OthersQuiet
  <1>5. ASSUME NEW f \in Fd, Open(f), Pending' \subseteq Pending \cup {Hello(f)} PROVE Asked(s)'
    BY <1>1, <1>2, <1>5, OthersQuiet
  <1>6. ASSUME NEW f \in Fd, NEW t \in Session, Request(f, t),
               Pending' \subseteq Pending \cup {AskPackage(f, t, sends + 1)}
        PROVE  Asked(s)'
    <2>1. CASE s = t
      BY <1>6, <2>1, OwnRequest
    <2>2. CASE t \in Session \ {s}
      BY <1>1, <1>2, <1>6, <2>2, OthersQuiet
    <2> QED BY <2>1, <2>2
  <1>7. ASSUME NEW f \in Fd, NEW t \in Session, Repeat(f, t),
               Pending' \subseteq Pending \cup {AskPackage(f, t, asked[t].use)}
        PROVE  Asked(s)'
    <2>1. CASE s = t
      BY <1>7, <2>1, OwnRepeat
    <2>2. CASE t \in Session \ {s}
      BY <1>1, <1>2, <1>7, <2>2, OthersQuiet
    <2> QED BY <2>1, <2>2
  <1>8. ASSUME NEW f \in Fd, NEW n \in back[f], Receive(f, n), Pending' \subseteq Pending
        PROVE  Asked(s)'
    <2>1. CASE asked'[s] = asked[s]
      BY <1>1, <1>2, <1>8, <2>1, OthersQuiet
    <2>2. CASE asked'[s] # asked[s]
      BY <1>8, <2>2, OwnReceive
    <2> QED BY <2>1, <2>2
  <1>9. ASSUME NEW c \in calls, Done(c), Pending' \subseteq Pending PROVE Asked(s)'
    <2>1. PICK t \in Session : WorksOn(t) /\ Asked(t)'
      BY <1>9, OwnDone
    <2> QED BY <1>3, <2>1
  <1>10. ASSUME NEW p \in Pending, NEW more \in {0, loop}, Handled(p, more), Greets(p, more)
         PROVE  Asked(s)'
    BY <1>1, <1>2, <1>10, OthersQuiet
  <1>11. ASSUME NEW p \in Pending, NEW more \in {0, loop}, Handled(p, more),
                Executes(p, more) \/ Conflicts(p, more) \/ Moves(p, more) \/ Resends(p, more)
         PROVE  Asked(s)'
    <2>1. p.session \in Session
      BY <1>11, AtRequest DEF Executes, Conflicts, Moves, Resends
    <2>2. WorksOn(p.session)
      BY <1>11, ExecutesOn, ConflictsOn, MovesOn, OwnResends
    <2>3. Asked(p.session)'
      BY <1>11, OwnExecutes, OwnConflicts, OwnMoves, OwnResends
    <2>4. \E t \in Session : t = p.session
      BY <2>1
    <2>5. PICK t \in Session : t = p.session
      BY <2>4
    <2> QED BY <1>3, <2>2, <2>3, <2>5
  <1> QED BY <1>4, <1>5, <1>6, <1>7, <1>8, <1>9, <1>10, <1>11, Kinds

LEMMA TurnStep ==
  ASSUME IInv, IInv', TurnInv, [Next]_vars, InTurn
  PROVE  TurnInv'
  <1>1. CASE Next
    <2>1. Turned'
      BY <1>1, OwnedStep, BackedStep, ClientStep, VersionsStep DEF TurnInv, Turned
    <2>2. Owned'
      BY <2>1 DEF Turned
    <2>3. \A s \in Session : Asked(s)'
      BY <1>1, <2>2, AskedStep
    <2> QED BY <2>1, <2>3 DEF TurnInv
  <1>2. CASE UNCHANGED vars
    <2>1. /\ UNCHANGED <<state, asked, sends, again, wire, back, queue, connection, user, response, entry>>
      BY <1>2 DEF vars, clientVars, gateVars, serverVars, cacheVars
    <2>2. Pending' = Pending /\ Used' = Used
      BY <2>1 DEF Pending, Unread, ToSet, Used
    <2>3. \A s : Asking(s)' = Asking(s) /\ Of(s)' = Of(s)
      BY <2>1, <2>2 DEF Asking, Of
    <2>4. \A u, s : Says(u, s)' <=> Says(u, s)
      BY <2>1, <2>3 DEF Says
    <2>5. Turned'
      BY <2>1, <2>2, <2>4 DEF TurnInv, Turned, Owned, Backed, Client, Versions
    <2>6. ASSUME NEW s \in Session PROVE Asked(s)'
      <3>1. Keeps(s)
        BY <2>1, <2>3, QuietKeeps
      <3>2. Owned'
        BY <2>5 DEF Turned
      <3> QED BY <3>1, <3>2, Undisturbed
    <2> QED BY <2>5, <2>6 DEF TurnInv
  <1> QED BY <1>1, <1>2

LEMMA TurnInit == Init => TurnInv
  <1> SUFFICES ASSUME Init PROVE TurnInv
    OBVIOUS
  <1>1. /\ state = [f \in Fd |-> "new"]
        /\ asked = [s \in Session |-> [use |-> 0, first |-> None, fd |-> None, answered |-> TRUE]]
        /\ wire = [f \in Fd |-> <<>>] /\ queue = <<>>
        /\ back = [f \in Fd |-> {}] /\ connection = [f \in Fd |-> FALSE]
        /\ user.version = None
        /\ response = [s \in Session |-> None] /\ entry = [e \in Entry |-> NoEntry]
    BY DEF Init, None
  <1>2. Pending = {} /\ Used = {}
    BY <1>1, NoElements DEF Pending, Unread, Used
  <1>3. \A s : Asking(s) = {} /\ Of(s) = {}
    BY <1>2 DEF Asking, Of
  <1>4. Owned
    <2>1. \A u \in 1..MaxSends, s \in Session : ~ Says(u, s)
      BY <1>1, <1>3, MsgAssumption DEF Says
    <2> QED BY <2>1 DEF Owned
  <1>5. Backed
    BY <1>1 DEF Backed
  <1>6. Client
    BY <1>1 DEF Client, None
  <1>7. Versions
    BY <1>1, <1>2 DEF Versions, None
  <1>8. ASSUME NEW s \in Session PROVE Asked(s)
    BY <1>1, <1>3 DEF Asked, Placed, Once, Matches
  <1> QED BY <1>4, <1>5, <1>6, <1>7, <1>8 DEF TurnInv, Turned

\* Who asks what under which session, where it is and what the client is told,
\* when connections are read in turn.
THEOREM TurnInvariant == ASSUME InTurn PROVE Spec => []TurnInv
  <1>1. Init => TurnInv
    BY TurnInit
  <1>2. IInv /\ IInv' /\ TurnInv /\ [Next]_vars => TurnInv'
    BY TurnStep
  <1> QED BY <1>1, <1>2, Invariant, PTL DEF Spec

\* The answer on its way is the one to the request the client asks now, or
\* that request was lost with an older connection.
THEOREM RightAnswers == ASSUME InTurn PROVE Spec => []AnswerMatches
  <1>1. IInv /\ TurnInv => AnswerMatches
    <2> SUFFICES ASSUME IInv, TurnInv, NEW s \in Session, NEW e \in Used, entry[e].session = s,
                        ~ asked[s].answered, entry[e].use \in back[asked[s].fd]
                 PROVE  entry[e].use = asked[s].use \/ Lost(s)
      BY DEF AnswerMatches
    <2>1. e \in Of(s) /\ asked[s].use # 0
      BY SessionTypes DEF Of
    <2> QED BY <2>1 DEF TurnInv, Asked, Matches
  <1> QED BY <1>1, Invariant, TurnInvariant, PTL

\* A request is executed again only as AtMostOnce allows.
LEMMA OnceStep ==
  ASSUME IInv, TurnInv, [Next]_vars, NEW d \in Used, NEW e \in Entry \ Used,
         entry'[e].use = entry[d].use, d \in Cached
  PROVE  entry[d].use \in again \/ entry[d].late
  <1> USE DEF IInv, FlowInv
  <1>1. PICK s \in Session : d = response[s]
    BY DEF Cached
  <1>2. d \in Of(s) /\ entry[d].use \in 1..MaxSends /\ entry[d].use # 0
    <2>1. d # None /\ None \notin Entry
      BY <1>1, SessionTypes DEF Cached
    <2> QED BY <1>1, <2>1, SessionTypes
  <1>3. NoEntry.use = 0 /\ entry[e] = NoEntry
    BY DEF NoEntry, Used
  <1>4. e \in Used'
    <2>1. entry'[e] # NoEntry
      BY <1>2, <1>3
    <2> QED BY <2>1 DEF Used
  <1>5. Next
    BY <1>2, <1>3 DEF vars, serverVars, cacheVars
  <1>6. PICK p \in Pending, more \in {0, loop} : Handled(p, more) /\ Executes(p, more)
    BY <1>4, <1>5, EntriesKept
  <1>7. connection[p.fd]
    BY <1>6 DEF Executes
  <1>8. /\ p.session \in Session /\ p \in Asking(p.session) /\ p.fd = user.version
        /\ p.fd = asked[p.session].fd /\ p.use = asked[p.session].use
    BY <1>6, <1>7, AtRequest
  <1>9. entry[d].use = p.use
    <2>1. /\ Used' = Used \cup {NewOne} /\ entry'[NewOne] = Fresh(p)
      BY <1>6, Executing
    <2>2. e = NewOne
      BY <1>4, <2>1
    <2> QED BY <2>1, <2>2 DEF Fresh, NoEntry
  <1>10. s = p.session
    <2>1. Says(entry[d].use, s) /\ Says(entry[d].use, p.session)
      BY <1>2, <1>8, <1>9 DEF Says
    <2> QED BY <1>2, <1>8, <2>1 DEF TurnInv, Turned, Owned
  <1>11. entry[d].done /\ entry[d].version = asked[s].fd
    BY <1>1, <1>2, <1>6, <1>8, <1>10, SessionTypes DEF Executes, Reused
  <1>12. asked[s].use \notin again => entry[d].asked # asked[s].fd
    BY <1>2, <1>6, <1>7, <1>8, <1>9, <1>10, OncePackage
  <1>13. ~ entry[d].late => entry[d].asked = entry[d].version
    BY <1>2, <1>11 DEF TurnInv, Asked, Placed
  <1> QED BY <1>8, <1>9, <1>10, <1>11, <1>12, <1>13

\* What the agent has executed it does not execute again while the answer is
\* in the cache, but for the two exceptions of AtMostOnce.
THEOREM ExecutedOnce == ASSUME InTurn PROVE Spec => AtMostOnce
  <1> DEFINE Onces == \A d, e \in Entry :
               /\ d \in Used /\ e \notin Used /\ entry'[e].use = entry[d].use
               /\ d \in Cached
               => entry[d].use \in again \/ entry[d].late
  <1>1. IInv /\ TurnInv /\ [Next]_vars => [Onces]_vars
    BY OnceStep
  <1>2. AtMostOnce <=> [][Onces]_vars
    BY DEF AtMostOnce
  <1> HIDE DEF Onces
  <1> QED BY <1>1, <1>2, Invariant, TurnInvariant, PTL DEF Spec
=============================================================================
