------------------------ MODULE HandleStorage_proofs ------------------------
(***************************************************************************)
(* Proofs about HandleStorage, for any threads, contexts and names, and    *)
(* any power of two for the number of handles.  Several threads may        *)
(* register at the same time: what the theorems about handles ask for is   *)
(* only that the table does not double between a registration and the      *)
(* assignment of its handle.                                               *)
(***************************************************************************)
EXTENDS HandleStorage, Integers, WellFoundedInduction, TLAPS

\* The table does not double, or try to, while a thread has registered its
\* context and not yet assigned the handle: doubling reads the handles of all
\* contexts (skynet_handle.c:59).
CalmStep ==
  slot_size' # slot_size \/ aborted' # aborted => \A t \in Thread : launching[t] = NULL
Calm == [][CalmStep]_vars

-----------------------------------------------------------------------------
(* The inductive invariant                                                 *)

\* A context between its registration and the assignment of its handle is in
\* the slot of that handle.
Launches ==
  \A t \in Thread : launching[t] # NULL =>
    /\ handle[launching[t]] = 0
    /\ slot[issued[t] % slot_size] = launching[t]
    /\ \A u \in Thread : launching[u] = launching[t] => u = t

\* Every context in the table is in the slot of its handle, and in no other.
Placed ==
  \A i \in 0..(slot_size - 1) : slot[i] # NULL =>
    \/ handle[slot[i]] % slot_size = i /\ \A t \in Thread : launching[t] # slot[i]
    \/ \E t \in Thread : launching[t] = slot[i] /\ issued[t] % slot_size = i

Divides == Handles % slot_size = 0

\* assert((s->slot_size*2 - 1) <= HANDLE_MASK): the table gives up only when
\* every handle is in use.
Full == aborted => slot_size = Handles /\ \A i \in 0..(slot_size - 1) : slot[i] # NULL

Table == Divides /\ Launches /\ Placed /\ Full

\* The passes of retireall: a pass is inside the table; what it shall retire has
\* its handle; and a handle that was found is that of the service in the slot,
\* if the pass shall retire it.
Passes ==
  \A t \in Thread :
    /\ all[t] = None \/ all[t] <= slot_size
    /\ found[t] # 0 => all[t] < slot_size
    /\ \A c \in targets[t] :
         /\ InTable(c) => handle[c] # 0 /\ \A u \in Thread : launching[u] # c
         /\ found[t] # 0 /\ slot[all[t]] = c => handle[c] = found[t]

\* The array of names is strictly sorted.
Sorted == \A i, k \in 1..Len(name) : i < k => name[i].name < name[k].name

IInv == TypeOK /\ Table /\ Passes /\ RetireAllMissesNone

-----------------------------------------------------------------------------
(* Remainders                                                              *)

LEMMA ModType ==
  ASSUME NEW c \in Nat \ {0}, NEW x \in Nat
  PROVE  /\ x % c \in 0..(c - 1) /\ x \div c \in Nat
         /\ x = (x \div c) * c + (x % c)
  OBVIOUS

\* The same with names for quotient and remainder.
LEMMA Divided ==
  ASSUME NEW c \in Nat \ {0}, NEW x \in Nat
  PROVE  \E q \in Nat, r \in 0..(c - 1) : x = q * c + r /\ r = x % c
  <1>1. /\ x % c \in 0..(c - 1) /\ x \div c \in Nat
        /\ x = (x \div c) * c + (x % c)
    BY ModType
  <1> QED BY <1>1

LEMMA ModIs ==
  ASSUME NEW c \in Nat \ {0}, NEW q \in Nat, NEW r \in 0..(c - 1)
  PROVE  (q * c + r) % c = r
  OBVIOUS

\* A divisor of H does not notice a remainder by H.
LEMMA ModOfMod ==
  ASSUME NEW c \in Nat \ {0}, NEW H \in Nat \ {0}, H % c = 0, NEW x \in Nat
  PROVE  (x % H) % c = x % c
  <1>1. PICK k \in Nat : H = k * c
    <2>1. H \div c \in Nat /\ H = (H \div c) * c + (H % c)
      BY ModType
    <2>2. H = (H \div c) * c
      BY <2>1
    <2> QED BY <2>1, <2>2
  <1>2. PICK q \in Nat, y \in Nat : x = q * H + y /\ y = x % H
    <2>1. PICK q \in Nat, y \in 0..(H - 1) : x = q * H + y /\ y = x % H
      BY Divided
    <2> QED BY <2>1
  <1>3. PICK p \in Nat, r \in 0..(c - 1) : y = p * c + r /\ r = y % c
    BY Divided
  <1>4. x = q * (k * c) + (p * c + r)
    BY <1>1, <1>2, <1>3
  <1>5. q * (k * c) = (q * k) * c
    OBVIOUS
  <1>6. q * k \in Nat
    OBVIOUS
  <1>7. PICK m \in Nat : m = q * k
    BY <1>6
  <1>8. x = (m + p) * c + r
    <2>1. x = m * c + (p * c + r)
      BY <1>4, <1>5, <1>7
    <2>2. (m + p) * c = m * c + p * c
      OBVIOUS
    <2>3. m * c \in Nat /\ p * c \in Nat
      OBVIOUS
    <2> QED BY <2>1, <2>2, <2>3
  <1>9. PICK n \in Nat : n = m + p
    OBVIOUS
  <1>10. x % c = r
    BY <1>8, <1>9, ModIs
  <1> QED BY <1>2, <1>3, <1>10

\* The remainder by the double.
LEMMA ModDouble ==
  ASSUME NEW c \in Nat \ {0}, NEW x \in Nat
  PROVE  /\ x % (2 * c) \in 0..(2 * c - 1)
         /\ (x % (2 * c)) % c = x % c
         /\ x % (2 * c) = x % c \/ x % (2 * c) = (x % c) + c
  <1>1. PICK d \in Nat \ {0} : d = 2 * c
    OBVIOUS
  <1>2. d % c = 0
    <2>1. d = 2 * c + 0 /\ 0 \in 0..(c - 1)
      BY <1>1
    <2> QED BY <2>1, ModIs
  <1>3. PICK y \in 0..(d - 1) : y = x % d
    BY ModType
  <1>4. y % c = x % c
    BY <1>2, <1>3, ModOfMod
  <1>5. CASE y < c
    <2>1. y = 0 * c + y /\ y \in 0..(c - 1)
      BY <1>5
    <2>2. y % c = y
      BY <2>1, ModIs
    <2> QED BY <1>1, <1>3, <1>4, <2>2
  <1>6. CASE ~ y < c
    <2>1. PICK z \in 0..(c - 1) : z = y - c
      BY <1>1, <1>6
    <2>2. y = 1 * c + z
      BY <2>1
    <2>3. y % c = z
      BY <2>2, ModIs
    <2> QED BY <1>1, <1>3, <1>4, <2>1, <2>3
  <1> QED BY <1>5, <1>6

\* From any start, c turns in a row try every slot of a table of size c.
LEMMA Reaches ==
  ASSUME NEW c \in Nat \ {0}, Handles \in Nat \ {0}, Handles % c = 0,
         handle_index \in Nat, NEW j \in 0..(c - 1)
  PROVE  \E i \in 0..(c - 1) : Candidate(i) % c = j
  <1>1. PICK q \in Nat, m \in 0..(c - 1) : handle_index = q * c + m
    <2>1. PICK x \in Nat : x = handle_index
      OBVIOUS
    <2>2. PICK q \in Nat, m \in 0..(c - 1) : x = q * c + m /\ m = x % c
      BY Divided
    <2> QED BY <2>1, <2>2
  <1>2. PICK i \in 0..(c - 1) : i = IF j >= m THEN j - m ELSE j + c - m
    <2>1. CASE j >= m
      BY <2>1
    <2>2. CASE ~ j >= m
      BY <2>2
    <2> QED BY <2>1, <2>2
  <1>3. PICK x \in Nat : x = i + handle_index
    OBVIOUS
  <1>4. x % c = j
    <2>1. CASE j >= m
      <3>1. x = q * c + j
        BY <1>1, <1>2, <1>3, <2>1
      <3> QED BY <3>1, ModIs
    <2>2. CASE ~ j >= m
      <3>1. PICK p \in Nat : p = q + 1
        OBVIOUS
      <3>2. q * c \in Nat /\ p * c = q * c + c
        BY <3>1
      <3>3. x = p * c + j
        BY <1>1, <1>2, <1>3, <2>2, <3>2
      <3> QED BY <3>3, ModIs
    <2> QED BY <2>1, <2>2
  <1>5. (x % Handles) % c = j
    BY <1>4, ModOfMod
  <1> QED BY <1>3, <1>5 DEF Candidate

\* A set of numbers that is not empty has a least one.
LEMMA LeastExists ==
  ASSUME NEW S, S \subseteq Nat, S # {}
  PROVE  \E i \in S : \A k \in S : i <= k
  <1> DEFINE R == OpToRel(<, Nat)
  <1>1. \A x, y \in Nat : x < y => <<x, y>> \in R
    BY DEF OpToRel
  <1>2. IsWellFoundedOn(R, Nat)
    BY NatLessThanWellFounded
  <1> HIDE DEF R
  <1>3. PICK i \in S : \A k \in S : <<k, i>> \notin R
    BY <1>2, WFMin
  <1>4. \A k \in S : ~ k < i
    BY <1>1, <1>3
  <1> QED BY <1>3, <1>4

\* Induction over the natural numbers, for a set instead of a predicate.
LEMMA SetInduction ==
  ASSUME NEW S, 0 \in S, \A n \in Nat : n \in S => n + 1 \in S
  PROVE  Nat \subseteq S
  <1>1. SUFFICES ASSUME Nat \ S # {} PROVE FALSE
    OBVIOUS
  <1>2. PICK x \in Nat \ S : \A k \in Nat \ S : x <= k
    BY <1>1, LeastExists
  <1>3. x # 0 /\ x - 1 \in Nat /\ ~ x <= x - 1
    BY <1>2
  <1>4. x - 1 \in S
    BY <1>2, <1>3
  <1> QED BY <1>2, <1>3, <1>4

-----------------------------------------------------------------------------
(* The table                                                               *)

\* The types that the steps of the table need.
LEMMA TableTypes ==
  ASSUME TypeOK
  PROVE  /\ slot_size \in Nat \ {0} /\ slot_size <= Handles /\ Handles \in Nat \ {0}
         /\ slot \in [0..(slot_size - 1) -> Context \cup {NULL}]
         /\ handle_index \in Nat
         /\ handle \in [Context -> 0..(Handles - 1)]
         /\ launching \in [Thread -> Context \cup {NULL}]
         /\ issued \in [Thread -> 0..(Handles - 1)]
         /\ \A c \in Context : handle[c] \in Nat
         /\ \A t \in Thread : issued[t] \in Nat
         /\ NULL \notin Context
  BY HandleAssumption DEF TypeOK

\* A search that finds no free slot has tried all slots.
LEMMA NoneOpen ==
  ASSUME TypeOK, Divides, Open(slot, slot_size) = {}, NEW j \in 0..(slot_size - 1)
  PROVE  slot[j] # NULL
  <1>1. PICK size \in Nat \ {0} : size = slot_size
    BY TableTypes
  <1>2. /\ Handles \in Nat \ {0} /\ handle_index \in Nat /\ Handles % size = 0
        /\ j \in 0..(size - 1)
    BY <1>1, TableTypes DEF Divides
  <1>3. PICK i \in 0..(size - 1) : Candidate(i) % size = j
    BY <1>2, Reaches
  <1> QED BY <1>1, <1>3 DEF Open

\* Where a registered context goes.
LEMMA PlaceFacts ==
  ASSUME TypeOK, NEW t \in Thread, NEW c \in Context, NEW sl, NEW size \in Nat \ {0},
         Open(sl, size) # {}, Place(t, c, sl, size)
  PROVE  \E h \in 0..(Handles - 1) :
           /\ sl[h % size] = NULL /\ h % size \in 0..(size - 1)
           /\ slot' = [sl EXCEPT ![h % size] = c]
           /\ slot_size' = size
           /\ handle_index' = h + 1
           /\ issued' = [issued EXCEPT ![t] = h]
           /\ launching' = [launching EXCEPT ![t] = c]
  <1> DEFINE O == Open(sl, size)
             first == CHOOSE i \in O : \A k \in O : i <= k
  <1>1. O \subseteq Nat
    BY DEF Open
  <1>2. first \in O
    <2>0. O # {}
      OBVIOUS
    <2> HIDE DEF O
    <2>1. \E i \in O : \A k \in O : i <= k
      BY <1>1, <2>0, LeastExists
    <2> QED BY <2>1
  <1> HIDE DEF first
  <1>3. first \in Nat /\ sl[Candidate(first) % size] = NULL
    BY <1>2 DEF Open
  <1>4. PICK h : h = Candidate(first)
    OBVIOUS
  <1>5. h \in 0..(Handles - 1)
    <2>1. Handles \in Nat \ {0} /\ first + handle_index \in Nat
      BY <1>3, TableTypes
    <2>2. PICK x \in Nat : x = first + handle_index
      BY <2>1
    <2> QED BY <1>4, <2>1, <2>2, ModType DEF Candidate
  <1>6. h % size \in 0..(size - 1)
    BY <1>5, ModType
  <1>7. /\ slot' = [sl EXCEPT ![h % size] = c] /\ slot_size' = size
        /\ handle_index' = h + 1
        /\ issued' = [issued EXCEPT ![t] = h]
        /\ launching' = [launching EXCEPT ![t] = c]
    BY <1>4 DEF Place, first
  <1> QED BY <1>3, <1>4, <1>5, <1>6, <1>7

\* When the table doubles while nobody is between a registration and the
\* assignment of the handle, the services do not collide, every one of them is
\* in the slot of its handle again, and there is a free slot.
LEMMA Doubling ==
  ASSUME TypeOK, Table, \A t \in Thread : launching[t] = NULL, Open(slot, slot_size) = {}
  PROVE  /\ ~ Collision
         /\ Doubled \in [0..(2 * slot_size - 1) -> Context \cup {NULL}]
         /\ \A i \in 0..(slot_size - 1) :
              /\ slot[i] \in Context /\ Rehash(i) \in 0..(2 * slot_size - 1)
              /\ Rehash(i) = i \/ Rehash(i) = i + slot_size
              /\ Doubled[Rehash(i)] = slot[i]
         /\ \A j \in 0..(2 * slot_size - 1) : Doubled[j] # NULL =>
              \E i \in 0..(slot_size - 1) : Rehash(i) = j /\ Doubled[j] = slot[i]
         /\ \E j \in 0..(2 * slot_size - 1) : Doubled[j] = NULL
  <1>1. /\ slot_size \in Nat \ {0} /\ slot \in [0..(slot_size - 1) -> Context \cup {NULL}]
        /\ \A c \in Context : handle[c] \in Nat
        /\ NULL \notin Context
    BY TableTypes
  <1>2. ASSUME NEW i \in 0..(slot_size - 1)
        PROVE  /\ slot[i] \in Context /\ handle[slot[i]] % slot_size = i
               /\ Rehash(i) \in 0..(2 * slot_size - 1)
               /\ Rehash(i) = i \/ Rehash(i) = i + slot_size
    <2>1. slot[i] # NULL
      BY NoneOpen DEF Table
    <2>2. slot[i] \in Context
      BY <1>1, <2>1
    <2>3. handle[slot[i]] % slot_size = i
      BY <1>1, <2>1, <2>2 DEF Table, Placed
    <2>4. PICK x \in Nat, size \in Nat \ {0} : x = handle[slot[i]] /\ size = slot_size
      BY <1>1, <2>2
    <2>5. /\ x % (2 * size) \in 0..(2 * size - 1)
          /\ x % (2 * size) = x % size \/ x % (2 * size) = (x % size) + size
      BY ModDouble
    <2> QED BY <2>2, <2>3, <2>4, <2>5 DEF Rehash
  <1>3. ASSUME NEW i \in 0..(slot_size - 1), NEW k \in 0..(slot_size - 1), Rehash(i) = Rehash(k)
        PROVE  i = k
    <2>1. Rehash(i) = i \/ Rehash(i) = i + slot_size
      BY <1>2
    <2>2. Rehash(k) = k \/ Rehash(k) = k + slot_size
      BY <1>2
    <2> QED BY <1>1, <1>3, <2>1, <2>2
  <1>4. ~ Collision
    BY <1>1, <1>3 DEF Collision
  <1> DEFINE From(j) == {i \in DOMAIN slot : Rehash(i) = j}
  <1>5. Doubled = [j \in 0..(2 * slot_size - 1) |->
                     IF From(j) = {} THEN NULL ELSE slot[CHOOSE i \in From(j) : TRUE]]
    BY DEF Doubled
  <1>6. ASSUME NEW j \in 0..(2 * slot_size - 1)
        PROVE  /\ From(j) = {} => Doubled[j] = NULL
               /\ From(j) # {} => \E i \in 0..(slot_size - 1) : Rehash(i) = j /\ Doubled[j] = slot[i]
    <2>1. Doubled[j] = IF From(j) = {} THEN NULL ELSE slot[CHOOSE i \in From(j) : TRUE]
      BY <1>5
    <2>2. From(j) # {} => (CHOOSE i \in From(j) : TRUE) \in From(j)
      BY ZenonT(20)
    <2> QED BY <1>1, <2>1, <2>2
  <1>7. ASSUME NEW i \in 0..(slot_size - 1)
        PROVE  Doubled[Rehash(i)] = slot[i]
    <2>1. i \in From(Rehash(i)) /\ Rehash(i) \in 0..(2 * slot_size - 1)
      BY <1>1, <1>2
    <2>2. PICK k \in 0..(slot_size - 1) : Rehash(k) = Rehash(i) /\ Doubled[Rehash(i)] = slot[k]
      BY <1>6, <2>1
    <2> QED BY <1>3, <2>2
  <1>8. \A j \in 0..(2 * slot_size - 1) : Doubled[j] \in Context \cup {NULL}
    BY <1>2, <1>6
  <1>9. Doubled \in [0..(2 * slot_size - 1) -> Context \cup {NULL}]
    <2> HIDE DEF From
    <2>1. DOMAIN Doubled = 0..(2 * slot_size - 1)
      BY <1>5
    <2> QED BY <1>5, <1>8
  <1>10. \E j \in 0..(2 * slot_size - 1) : Doubled[j] = NULL
    <2>1. PICK j \in {0, slot_size} : j # Rehash(0)
      BY <1>1
    <2>2. j \in 0..(2 * slot_size - 1)
      BY <1>1
    <2>3. From(j) = {}
      <3>1. ASSUME NEW i \in 0..(slot_size - 1) PROVE Rehash(i) # j
        BY <1>1, <1>2, <2>1
      <3> QED BY <1>1, <3>1
    <2> QED BY <1>6, <2>2, <2>3
  <1> QED BY <1>2, <1>4, <1>6, <1>7, <1>9, <1>10

-----------------------------------------------------------------------------
(* Registration                                                            *)

\* A table sl of the given size, grown or not, in which all contexts of the
\* present one are where they belong, none of them further down.
Rehoused(sl, size) ==
  /\ size \in Nat \ {0} /\ slot_size <= size /\ size <= Handles /\ Handles % size = 0
  /\ sl \in [0..(size - 1) -> Context \cup {NULL}]
  /\ \A t \in Thread : launching[t] # NULL => sl[issued[t] % size] = launching[t]
  /\ \A i \in 0..(size - 1) : sl[i] # NULL =>
       /\ InTable(sl[i])
       /\ \/ handle[sl[i]] % size = i /\ \A t \in Thread : launching[t] # sl[i]
          \/ \E t \in Thread : launching[t] = sl[i] /\ issued[t] % size = i
  /\ \A i \in 0..(slot_size - 1) :
       /\ sl[i] = slot[i] \/ sl[i] = NULL
       /\ slot[i] # NULL => \E k \in 0..(size - 1) : k >= i /\ sl[k] = slot[i]

LEMMA SameHouse ==
  ASSUME TypeOK, Table
  PROVE  Rehoused(slot, slot_size)
  <1>1. /\ slot_size \in Nat \ {0} /\ slot_size <= Handles /\ Handles % slot_size = 0
        /\ slot \in [0..(slot_size - 1) -> Context \cup {NULL}]
    BY TableTypes DEF Table, Divides
  <1>2. \A t \in Thread : launching[t] # NULL => slot[issued[t] % slot_size] = launching[t]
    BY DEF Table, Launches
  <1>3. \A i \in 0..(slot_size - 1) : slot[i] # NULL =>
          /\ InTable(slot[i])
          /\ \/ handle[slot[i]] % slot_size = i /\ \A t \in Thread : launching[t] # slot[i]
             \/ \E t \in Thread : launching[t] = slot[i] /\ issued[t] % slot_size = i
    BY <1>1 DEF Table, Placed, InTable
  <1>4. \A i \in 0..(slot_size - 1) : \E k \in 0..(slot_size - 1) : k >= i /\ slot[k] = slot[i]
    BY <1>1
  <1> QED BY <1>1, <1>2, <1>3, <1>4 DEF Rehoused

LEMMA DoubledHouse ==
  ASSUME TypeOK, Table, \A t \in Thread : launching[t] = NULL, Open(slot, slot_size) = {},
         2 * slot_size <= Handles
  PROVE  Rehoused(Doubled, 2 * slot_size) /\ Open(Doubled, 2 * slot_size) # {}
  <1>1. /\ slot_size \in Nat \ {0} /\ slot_size <= Handles /\ Handles \in Nat \ {0}
        /\ slot \in [0..(slot_size - 1) -> Context \cup {NULL}]
        /\ handle_index \in Nat /\ NULL \notin Context
    BY TableTypes
  <1>2. PICK size \in Nat \ {0} : size = 2 * slot_size
    BY <1>1
  <1>3. slot_size <= size /\ size <= Handles
    BY <1>1, <1>2
  <1>4. Handles % size = 0
    <2>1. slot_size \in 1..Handles /\ Handles % slot_size = 0
      BY <1>1 DEF Table, Divides
    <2> QED BY <1>2, <1>3, <2>1, HandlesAssumption
  <1>5. Doubled \in [0..(size - 1) -> Context \cup {NULL}]
    BY <1>2, Doubling
  <1>6. ASSUME NEW i \in 0..(slot_size - 1)
        PROVE  /\ slot[i] \in Context /\ Rehash(i) \in 0..(size - 1)
               /\ Rehash(i) = i \/ Rehash(i) = i + slot_size
               /\ Doubled[Rehash(i)] = slot[i]
    BY <1>2, Doubling
  <1>7. ASSUME NEW j \in 0..(size - 1), Doubled[j] # NULL
        PROVE  \E i \in 0..(slot_size - 1) : Rehash(i) = j /\ Doubled[j] = slot[i]
    BY <1>2, <1>7, Doubling
  <1>8. ASSUME NEW j \in 0..(size - 1), Doubled[j] # NULL
        PROVE  /\ InTable(Doubled[j])
               /\ handle[Doubled[j]] % size = j /\ \A t \in Thread : launching[t] # Doubled[j]
    <2>1. PICK i \in 0..(slot_size - 1) : Rehash(i) = j /\ Doubled[j] = slot[i]
      BY <1>7, <1>8
    <2>2. handle[Doubled[j]] % size = j
      BY <1>2, <2>1 DEF Rehash
    <2>3. InTable(Doubled[j])
      BY <1>1, <2>1 DEF InTable
    <2> QED BY <1>8, <2>2, <2>3
  <1>9. ASSUME NEW i \in 0..(slot_size - 1)
        PROVE  /\ Doubled[i] = slot[i] \/ Doubled[i] = NULL
               /\ \E k \in 0..(size - 1) : k >= i /\ Doubled[k] = slot[i]
    <2>1. Rehash(i) >= i
      BY <1>1, <1>6
    <2>2. i \in 0..(size - 1)
      BY <1>1, <1>3
    <2>3. CASE Doubled[i] # NULL
      <3>1. PICK k \in 0..(slot_size - 1) : Rehash(k) = i /\ Doubled[i] = slot[k]
        BY <1>7, <2>2, <2>3
      <3>2. Rehash(k) = k \/ Rehash(k) = k + slot_size
        BY <1>6
      <3>3. k = i
        BY <1>1, <3>1, <3>2
      <3> QED BY <1>6, <2>1, <3>1, <3>3
    <2> QED BY <1>6, <2>1, <2>3
  <1>10. Rehoused(Doubled, size)
    <2>1. \A t \in Thread : launching[t] # NULL => Doubled[issued[t] % size] = launching[t]
      OBVIOUS
    <2> QED BY <1>3, <1>4, <1>5, <1>8, <1>9, <2>1 DEF Rehoused
  <1>11. Open(Doubled, size) # {}
    <2>1. PICK j \in 0..(size - 1) : Doubled[j] = NULL
      BY <1>2, Doubling
    <2>2. PICK i \in 0..(size - 1) : Candidate(i) % size = j
      BY <1>1, <1>4, Reaches
    <2> QED BY <2>1, <2>2 DEF Open
  <1> QED BY <1>2, <1>10, <1>11

\* What a registration does: it gives up, or it puts the context into a free
\* slot of a rehoused table.
LEMMA RegisterFacts ==
  ASSUME TypeOK, Table, NEW t \in Thread, NEW c \in Context, Register(t, c), CalmStep
  PROVE  \/ /\ aborted' /\ UNCHANGED <<slot_size, slot, handle_index, issued, launching>>
            /\ Full'
         \/ /\ ~ aborted'
            /\ \E sl, size : Rehoused(sl, size) /\ Open(sl, size) # {} /\ Place(t, c, sl, size)
  <1>1. ~ aborted /\ launching[t] = NULL
    BY DEF Register, Free
  <1>2. CASE Open(slot, slot_size) # {}
    <2>1. Place(t, c, slot, slot_size) /\ UNCHANGED aborted
      BY <1>2 DEF Register
    <2> QED BY <1>1, <1>2, <2>1, SameHouse
  <1>3. CASE Open(slot, slot_size) = {} /\ ~ (Collision \/ 2 * slot_size > Handles)
    <2>1. Place(t, c, Doubled, 2 * slot_size) /\ UNCHANGED aborted
      BY <1>3 DEF Register
    <2>2. slot_size \in Nat \ {0} /\ Handles \in Nat
      BY TableTypes
    <2>3. slot_size' = 2 * slot_size
      BY <2>1 DEF Place
    <2>4. \A u \in Thread : launching[u] = NULL
      BY <2>2, <2>3 DEF CalmStep
    <2>5. 2 * slot_size <= Handles
      BY <1>3, <2>2
    <2> QED BY <1>1, <1>3, <2>1, <2>4, <2>5, DoubledHouse
  <1>4. CASE Open(slot, slot_size) = {} /\ (Collision \/ 2 * slot_size > Handles)
    <2>1. aborted' = TRUE /\ UNCHANGED <<slot_size, slot, handle_index, issued, launching>>
      BY <1>4 DEF Register
    <2>2. /\ slot_size \in Nat \ {0} /\ slot_size <= Handles /\ Handles \in Nat \ {0}
          /\ Handles % slot_size = 0
      BY TableTypes DEF Table, Divides
    <2>3. \A u \in Thread : launching[u] = NULL
      BY <1>1, <2>1 DEF CalmStep
    <2>4. 2 * slot_size > Handles
      BY <1>4, <2>3, Doubling
    <2>5. slot_size = Handles
      <3>1. PICK size \in Nat \ {0}, H \in Nat \ {0} : size = slot_size /\ H = Handles
        BY <2>2
      <3>2. PICK q \in Nat, r \in 0..(size - 1) : H = q * size + r /\ r = H % size
        BY Divided
      <3>3. H = q * size
        BY <2>2, <3>1, <3>2
      <3>4. q >= 2 => q * size >= 2 * size
        BY <3>1
      <3>5. q = 0 \/ q = 1
        BY <2>4, <3>1, <3>3, <3>4
      <3> QED BY <3>1, <3>3, <3>5
    <2>6. \A i \in 0..(slot_size - 1) : slot[i] # NULL
      BY <1>4, NoneOpen DEF Table
    <2>7. Full'
      BY <2>1, <2>5, <2>6 DEF Full
    <2> QED BY <2>1, <2>7
  <1> QED BY <1>2, <1>3, <1>4

\* What a registration leaves behind, in terms of the rehoused table.
LEMMA RegisterKeeps ==
  ASSUME IInv, NEW t \in Thread, NEW c \in Context, Register(t, c), ~ aborted',
         NEW sl, NEW size, Rehoused(sl, size), Open(sl, size) # {}, Place(t, c, sl, size)
  PROVE  TypeOK' /\ Table' /\ Passes' /\ RetireAllMissesNone'
  <1>0. /\ size \in Nat \ {0} /\ slot_size <= size /\ size <= Handles /\ Handles % size = 0
        /\ sl \in [0..(size - 1) -> Context \cup {NULL}]
    BY DEF Rehoused
  <1>1. PICK h \in 0..(Handles - 1) :
           /\ sl[h % size] = NULL /\ h % size \in 0..(size - 1)
           /\ slot' = [sl EXCEPT ![h % size] = c]
           /\ slot_size' = size
           /\ handle_index' = h + 1
           /\ issued' = [issued EXCEPT ![t] = h]
           /\ launching' = [launching EXCEPT ![t] = c]
    <2>1. TypeOK
      BY DEF IInv
    <2> QED BY <1>0, <2>1, PlaceFacts
  <1>2. /\ ~ aborted /\ launching[t] = NULL /\ all[t] = None
        /\ ~ InTable(c) /\ \A u \in Thread : launching[u] # c
        /\ handle' = [handle EXCEPT ![c] = 0]
        /\ targets' = [u \in Thread |-> targets[u] \ {c}]
        /\ UNCHANGED <<name, all, found, retired>>
    BY DEF Register, Free
  <1>3. /\ slot_size \in Nat \ {0} /\ Handles \in Nat \ {0} /\ slot_size <= Handles
        /\ slot \in [0..(slot_size - 1) -> Context \cup {NULL}]
        /\ handle \in [Context -> 0..(Handles - 1)]
        /\ launching \in [Thread -> Context \cup {NULL}]
        /\ issued \in [Thread -> 0..(Handles - 1)]
        /\ \A u \in Thread : issued[u] \in Nat
        /\ NULL \notin Context
    BY TableTypes DEF IInv
  <1>4. /\ slot' \in [0..(size - 1) -> Context \cup {NULL}]
        /\ slot'[h % size] = c
        /\ \A i \in 0..(size - 1) : i # h % size => slot'[i] = sl[i]
    BY <1>0, <1>1
  <1>5. /\ launching'[t] = c /\ issued'[t] = h
        /\ \A u \in Thread : u # t => launching'[u] = launching[u] /\ issued'[u] = issued[u]
        /\ handle'[c] = 0
        /\ \A d \in Context : d # c => handle'[d] = handle[d]
    BY <1>1, <1>2, <1>3
  <1>6. TypeOK'
    <2>1. slot_size' \in 1..Handles /\ handle_index' \in 0..Handles
      BY <1>0, <1>1, <1>3
    <2>2. slot' \in [0..(slot_size' - 1) -> Context \cup {NULL}]
      BY <1>1, <1>4
    <2>3. /\ handle' \in [Context -> 0..(Handles - 1)]
          /\ launching' \in [Thread -> Context \cup {NULL}]
          /\ issued' \in [Thread -> 0..(Handles - 1)]
      BY <1>1, <1>2, <1>3
    <2>4. /\ name \in Seq([name : Name, handle : 1..(Handles - 1)])
          /\ all \in [Thread -> 0..(Handles + 1)] /\ found \in [Thread -> 0..(Handles - 1)]
          /\ retired \in [Thread -> BOOLEAN] /\ targets \in [Thread -> SUBSET Context]
      BY DEF IInv, TypeOK
    <2>5. targets' \in [Thread -> SUBSET Context]
      BY <1>2, <2>4
    <2>6. aborted' \in BOOLEAN
      BY DEF Register, Place, IInv, TypeOK
    <2> QED BY <1>2, <2>1, <2>2, <2>3, <2>4, <2>5, <2>6 DEF TypeOK
  <1>7. Divides' /\ Full'
    BY <1>0, <1>1 DEF Divides, Full
  <1>8. ASSUME NEW i \in 0..(size - 1), sl[i] # NULL
        PROVE  i # h % size /\ slot'[i] = sl[i] /\ sl[i] # c /\ sl[i] \in Context
    <2>1. InTable(sl[i])
      BY <1>8 DEF Rehoused
    <2> QED BY <1>0, <1>1, <1>2, <1>4, <1>8, <2>1
  <1>9. Launches'
    <2>1. SUFFICES ASSUME NEW u \in Thread, launching'[u] # NULL
                   PROVE  /\ handle'[launching'[u]] = 0
                          /\ slot'[issued'[u] % size] = launching'[u]
                          /\ \A v \in Thread : launching'[v] = launching'[u] => v = u
      BY <1>1 DEF Launches
    <2>2. CASE u = t
      BY <1>2, <1>4, <1>5, <2>2
    <2>3. CASE u # t
      <3>1. /\ launching'[u] = launching[u] /\ issued'[u] = issued[u] /\ launching[u] # NULL
            /\ launching[u] \in Context /\ launching[u] # c
        BY <1>2, <1>3, <1>5, <2>1, <2>3
      <3>2. /\ handle[launching[u]] = 0
            /\ \A v \in Thread : launching[v] = launching[u] => v = u
        BY <3>1 DEF IInv, Table, Launches
      <3>3. sl[issued[u] % size] = launching[u]
        BY <3>1 DEF Rehoused
      <3>4. issued[u] % size \in 0..(size - 1)
        BY <1>0, <1>3, ModType
      <3>5. slot'[issued[u] % size] = launching[u]
        BY <1>8, <3>1, <3>3, <3>4
      <3> QED BY <1>5, <3>1, <3>2, <3>5
    <2> QED BY <2>2, <2>3
  <1>10. Placed'
    <2>1. SUFFICES ASSUME NEW i \in 0..(size - 1), slot'[i] # NULL
                   PROVE  \/ /\ handle'[slot'[i]] % size = i
                             /\ \A u \in Thread : launching'[u] # slot'[i]
                          \/ \E u \in Thread : launching'[u] = slot'[i] /\ issued'[u] % size = i
      BY <1>1 DEF Placed
    <2>2. CASE i = h % size
      BY <1>4, <1>5, <2>2
    <2>3. CASE i # h % size
      <3>1. slot'[i] = sl[i] /\ sl[i] # c /\ sl[i] \in Context
        BY <1>4, <1>8, <2>1, <2>3
      <3>2. \/ handle[sl[i]] % size = i /\ \A u \in Thread : launching[u] # sl[i]
            \/ \E u \in Thread : launching[u] = sl[i] /\ issued[u] % size = i
        BY <2>1, <3>1 DEF Rehoused
      <3>3. CASE handle[sl[i]] % size = i /\ \A u \in Thread : launching[u] # sl[i]
        BY <1>5, <3>1, <3>3
      <3>4. CASE \E u \in Thread : launching[u] = sl[i] /\ issued[u] % size = i
        <4>1. PICK u \in Thread : launching[u] = sl[i] /\ issued[u] % size = i
          BY <3>4
        <4>2. u # t
          BY <1>2, <1>3, <3>1, <4>1
        <4> QED BY <1>5, <3>1, <4>1, <4>2
      <3> QED BY <3>2, <3>3, <3>4
    <2> QED BY <2>2, <2>3
  <1>11. ASSUME NEW d \in Context, d # c, \E i \in 0..(size - 1) : slot'[i] = d
         PROVE  InTable(d)
    <2>1. PICK i \in 0..(size - 1) : slot'[i] = d
      BY <1>11
    <2>2. sl[i] = d
      BY <1>4, <1>11, <2>1
    <2> QED BY <1>3, <1>11, <2>2 DEF Rehoused
  <1>12. \A u \in Thread : targets'[u] \subseteq targets[u] /\ c \notin targets'[u]
                          /\ targets'[u] \subseteq Context
    BY <1>2 DEF IInv, TypeOK
  <1>13. DOMAIN slot' = 0..(size - 1) /\ DOMAIN slot = 0..(slot_size - 1)
    BY <1>3, <1>4
  <1>14. Passes'
    <2>1. SUFFICES ASSUME NEW u \in Thread
                   PROVE  /\ all[u] = None \/ all[u] <= size
                          /\ found[u] # 0 => all[u] < size
                          /\ \A d \in targets'[u] :
                               /\ InTable(d)' => handle'[d] # 0 /\ \A v \in Thread : launching'[v] # d
                               /\ found[u] # 0 /\ slot'[all[u]] = d => handle'[d] = found[u]
      BY <1>1, <1>2 DEF Passes, None
    <2>2. /\ all[u] = None \/ all[u] <= slot_size
          /\ found[u] # 0 => all[u] < slot_size
          /\ all[u] \in Nat
      BY DEF IInv, Passes, TypeOK
    <2>3. (all[u] = None \/ all[u] <= size) /\ (found[u] # 0 => all[u] < size)
      BY <1>0, <1>3, <2>2
    <2>4. ASSUME NEW d \in targets'[u]
          PROVE  /\ d \in targets[u] /\ d # c /\ d \in Context
                 /\ InTable(d) => handle[d] # 0 /\ \A v \in Thread : launching[v] # d
                 /\ found[u] # 0 /\ slot[all[u]] = d => handle[d] = found[u]
      <3>1. d \in targets[u] /\ d # c /\ d \in Context
        BY <1>12
      <3> QED BY <3>1 DEF IInv, Passes
    <2>5. ASSUME NEW d \in targets'[u], InTable(d)'
          PROVE  handle'[d] # 0 /\ \A v \in Thread : launching'[v] # d
      <3>1. InTable(d)
        BY <1>11, <1>13, <2>4, <2>5 DEF InTable
      <3> QED BY <1>5, <2>4, <3>1
    <2>6. ASSUME NEW d \in targets'[u], found[u] # 0, slot'[all[u]] = d
          PROVE  handle'[d] = found[u]
      <3>1. all[u] \in 0..(slot_size - 1) /\ all[u] \in 0..(size - 1)
        BY <1>0, <1>3, <2>2, <2>6
      <3>2. sl[all[u]] = d
        BY <1>4, <2>4, <2>6, <3>1
      <3>3. slot[all[u]] = d
        BY <1>3, <2>4, <3>1, <3>2 DEF Rehoused
      <3> QED BY <1>5, <2>4, <2>6, <3>3
    <2> QED BY <2>3, <2>5, <2>6
  <1>15. RetireAllMissesNone'
    <2>1. SUFFICES ASSUME NEW u \in Thread, all[u] # None, NEW d \in targets'[u],
                          InTable(d)', handle'[d] # 0
                   PROVE  \E i \in 0..(size - 1) : slot'[i] = d /\ i >= all[u]
      BY <1>2, <1>13 DEF RetireAllMissesNone, None
    <2>2. d \in targets[u] /\ d # c /\ d \in Context
      BY <1>12
    <2>3. InTable(d) /\ handle[d] # 0
      BY <1>5, <1>11, <1>13, <2>1, <2>2 DEF InTable
    <2>4. PICK i \in 0..(slot_size - 1) : slot[i] = d /\ i >= all[u]
      BY <1>13, <2>1, <2>2, <2>3 DEF IInv, RetireAllMissesNone
    <2>5. PICK k \in 0..(size - 1) : k >= i /\ sl[k] = d
      BY <1>3, <2>2, <2>4 DEF Rehoused
    <2>6. slot'[k] = d
      BY <1>3, <1>8, <2>2, <2>5
    <2>7. all[u] \in Nat
      BY DEF IInv, TypeOK
    <2> QED BY <2>4, <2>5, <2>6, <2>7
  <1> QED BY <1>6, <1>7, <1>9, <1>10, <1>14, <1>15 DEF Table

-----------------------------------------------------------------------------
(* Names                                                                   *)

Entries == [name : Name, handle : 1..(Handles - 1)]
NameType == name \in Seq(Entries)

\* What the loop of skynet_handle_retire has done to the first i names.
Turn(f, h, i) ==
  IF i = 0 THEN <<>> ELSE IF name[i].handle = h THEN f[i - 1] ELSE Append(f[i - 1], name[i])

\* The loop is defined.
LEMMA KeptExists ==
  ASSUME NameType, NEW h
  PROVE  \E f \in [0..Len(name) -> Seq(Entries)] : \A i \in 0..Len(name) : f[i] = Turn(f, h, i)
  <1>0. name \in Seq(Entries)
    BY DEF NameType
  <1>1. PICK L \in Nat : L = Len(name)
    BY <1>0
  <1>2. \A i \in 1..L : name[i] \in Entries
    BY <1>0, <1>1
  <1> DEFINE S == {n \in Nat : \E f \in [0..L -> Seq(Entries)] :
                                 \A i \in 0..L : i <= n => f[i] = Turn(f, h, i)}
  <1>3. 0 \in S
    <2>1. [i \in 0..L |-> <<>>] \in [0..L -> Seq(Entries)]
      OBVIOUS
    <2>2. \A i \in 0..L : i <= 0 => [k \in 0..L |-> <<>>][i] = Turn([k \in 0..L |-> <<>>], h, i)
      BY DEF Turn
    <2> QED BY <2>1, <2>2
  <1>4. ASSUME NEW n \in Nat, n \in S PROVE n + 1 \in S
    <2>1. PICK f \in [0..L -> Seq(Entries)] : \A i \in 0..L : i <= n => f[i] = Turn(f, h, i)
      BY <1>4
    <2>2. CASE n + 1 <= L
      <3> DEFINE g == [f EXCEPT ![n + 1] = Turn(f, h, n + 1)]
      <3>1. f[n] \in Seq(Entries) /\ name[n + 1] \in Entries /\ (n + 1) - 1 = n /\ n + 1 # 0
        BY <1>2, <2>1, <2>2
      <3>2. Turn(f, h, n + 1) \in Seq(Entries)
        BY <3>1 DEF Turn
      <3>3. g \in [0..L -> Seq(Entries)]
        BY <2>1, <3>2
      <3>4. ASSUME NEW i \in 0..L, i <= n + 1 PROVE g[i] = Turn(g, h, i)
        <4>1. i # 0 => i - 1 \in 0..L /\ i - 1 # n + 1
          BY <3>4
        <4>2. g[i] = IF i = n + 1 THEN Turn(f, h, n + 1) ELSE f[i]
          BY <2>1, <2>2
        <4>3. i # 0 => g[i - 1] = f[i - 1]
          BY <2>1, <2>2, <4>1
        <4>4. Turn(g, h, i) = Turn(f, h, i)
          <5> HIDE DEF g
          <5> QED BY <4>3 DEF Turn
        <4>5. i # n + 1 => f[i] = Turn(f, h, i)
          BY <2>1, <3>4
        <4> HIDE DEF g
        <4> QED BY <4>2, <4>4, <4>5
      <3>5. \A i \in 0..L : i <= n + 1 => g[i] = Turn(g, h, i)
        BY <3>4
      <3> HIDE DEF g
      <3> QED BY <3>3, <3>5
    <2>3. CASE ~ n + 1 <= L
      <3>1. \A i \in 0..L : i <= n
        BY <1>1, <2>3
      <3>2. \A i \in 0..L : i <= n + 1 => f[i] = Turn(f, h, i)
        BY <2>1, <3>1
      <3> QED BY <2>1, <3>2
    <2> QED BY <2>2, <2>3
  <1> HIDE DEF S
  <1>5. L \in S
    BY <1>3, <1>4, SetInduction
  <1>6. PICK f \in [0..L -> Seq(Entries)] : \A i \in 0..L : i <= L => f[i] = Turn(f, h, i)
    BY <1>5 DEF S
  <1>7. \A i \in 0..L : f[i] = Turn(f, h, i)
    BY <1>1, <1>6
  <1> QED BY <1>1, <1>7

\* Unnamed(h) is its last value.
LEMMA UnnamedIs ==
  ASSUME NameType, NEW h
  PROVE  \E f : /\ \A i \in 0..Len(name) : f[i] = Turn(f, h, i)
               /\ Unnamed(h) = f[Len(name)]
  <1> DEFINE P(g) == g = [i \in 0..Len(name) |->
                           IF i = 0 THEN <<>>
                           ELSE IF name[i].handle = h THEN g[i - 1] ELSE Append(g[i - 1], name[i])]
             kept == CHOOSE g : P(g)
  <1>1. PICK f \in [0..Len(name) -> Seq(Entries)] : \A i \in 0..Len(name) : f[i] = Turn(f, h, i)
    BY KeptExists
  <1>2. P(f)
    BY <1>1 DEF Turn
  <1>3. P(kept)
    <2> HIDE DEF P
    <2> QED BY <1>2
  <1>4. Unnamed(h) = kept[Len(name)]
    BY DEF Unnamed
  <1> HIDE DEF kept
  <1>5. \A i \in 0..Len(name) : kept[i] = Turn(kept, h, i)
    BY <1>3 DEF Turn
  <1> QED BY <1>4, <1>5

\* A sequence of entries is strictly sorted.
SortedSeq(s) == \A i, k \in 1..Len(s) : i < k => s[i].name < s[k].name

\* What is left are the entries of other services, in their order.
LEMMA UnnamedFacts ==
  ASSUME NameType, NEW h
  PROVE  /\ Unnamed(h) \in Seq(Entries)
         /\ Sorted => SortedSeq(Unnamed(h))
         /\ \A e \in Entries :
              (\E i \in 1..Len(Unnamed(h)) : Unnamed(h)[i] = e)
                <=> e.handle # h /\ \E i \in 1..Len(name) : name[i] = e
  <1>0. name \in Seq(Entries)
    BY DEF NameType
  <1>1. PICK L \in Nat : L = Len(name)
    BY <1>0
  <1>2. \A i \in 1..L : name[i] \in Entries
    BY <1>0, <1>1
  <1>3. PICK f : (\A i \in 0..L : f[i] = Turn(f, h, i)) /\ Unnamed(h) = f[L]
    BY <1>1, UnnamedIs
  <1> DEFINE Below(s, n) == \A i \in 1..Len(s), k \in 1..L : k > n => s[i].name < name[k].name
             Same(s, n) == \A e \in Entries :
                             (\E i \in 1..Len(s) : s[i] = e)
                               <=> e.handle # h /\ \E i \in 1..n : name[i] = e
             Good(s, n) == /\ s \in Seq(Entries)
                           /\ Sorted => SortedSeq(s) /\ Below(s, n)
                           /\ Same(s, n)
             S == {n \in Nat : n <= L => Good(f[n], n)}
  <1>4. 0 \in S
    <2>1. f[0] = <<>>
      BY <1>1, <1>3 DEF Turn
    <2>2. f[0] \in Seq(Entries) /\ 1..Len(f[0]) = {}
      BY <2>1
    <2>3. SortedSeq(f[0]) /\ Below(f[0], 0) /\ Same(f[0], 0)
      BY <2>2 DEF SortedSeq
    <2> QED BY <2>2, <2>3
  <1>5. ASSUME NEW n \in Nat, n \in S PROVE n + 1 \in S
    <2>1. SUFFICES ASSUME n + 1 <= L PROVE Good(f[n + 1], n + 1)
      OBVIOUS
    <2>2. PICK s \in Seq(Entries) : s = f[n]
      BY <1>1, <1>5, <2>1
    <2>3. (Sorted => SortedSeq(s) /\ Below(s, n)) /\ Same(s, n)
      BY <1>1, <1>5, <2>1, <2>2
    <2>4. PICK x \in Entries : x = name[n + 1]
      BY <1>1, <1>2, <2>1
    <2>5. f[n + 1] = IF x.handle = h THEN s ELSE Append(s, x)
      BY <1>1, <1>3, <2>1, <2>2, <2>4 DEF Turn
    <2>6. \A e : (\E i \in 1..(n + 1) : name[i] = e) <=> (\E i \in 1..n : name[i] = e) \/ e = x
      BY <2>4
    <2>7. CASE x.handle = h
      <3>1. f[n + 1] = s
        BY <2>5, <2>7
      <3>2. Sorted => SortedSeq(s) /\ Below(s, n + 1)
        BY <2>3
      <3>3. Same(s, n + 1)
        BY <2>3, <2>6, <2>7
      <3> HIDE DEF Below, Same
      <3> QED BY <2>2, <3>1, <3>2, <3>3
    <2>8. CASE x.handle # h
      <3>1. PICK r : r = Append(s, x)
        OBVIOUS
      <3>2. /\ r \in Seq(Entries) /\ Len(r) = Len(s) + 1 /\ Len(s) \in Nat
            /\ r[Len(s) + 1] = x
            /\ \A i \in 1..Len(s) : r[i] = s[i]
        BY <2>2, <2>4, <3>1
      <3>3. ASSUME Sorted PROVE SortedSeq(r) /\ Below(r, n + 1)
        <4>1. SortedSeq(s) /\ Below(s, n)
          BY <2>3, <3>3
        <4>2. \A i \in 1..Len(s) : s[i].name < x.name
          BY <1>1, <2>1, <2>4, <4>1
        <4>3. SortedSeq(r)
          <5>1. SUFFICES ASSUME NEW i \in 1..(Len(s) + 1), NEW k \in 1..(Len(s) + 1), i < k
                         PROVE  r[i].name < r[k].name
            BY <3>2 DEF SortedSeq
          <5>2. i \in 1..Len(s) /\ r[i] = s[i]
            BY <3>2, <5>1
          <5>3. CASE k = Len(s) + 1
            BY <3>2, <4>2, <5>2, <5>3
          <5>4. CASE k \in 1..Len(s)
            BY <3>2, <4>1, <5>1, <5>2, <5>4 DEF SortedSeq
          <5> QED BY <3>2, <5>3, <5>4
        <4>4. \A k \in 1..L : k > n + 1 => x.name < name[k].name
          BY <1>1, <2>1, <2>4, <3>3 DEF Sorted
        <4>5. Below(r, n + 1)
          <5>1. SUFFICES ASSUME NEW i \in 1..(Len(s) + 1), NEW k \in 1..L, k > n + 1
                         PROVE  r[i].name < name[k].name
            BY <3>2
          <5>2. CASE i = Len(s) + 1
            BY <3>2, <4>4, <5>1, <5>2
          <5>3. CASE i \in 1..Len(s)
            <6>1. r[i] = s[i] /\ k > n
              BY <3>2, <5>1, <5>3
            <6> QED BY <4>1, <5>3, <6>1
          <5> QED BY <3>2, <5>2, <5>3
        <4> QED BY <4>3, <4>5
      <3>4. Same(r, n + 1)
        <4>1. \A e : (\E i \in 1..Len(r) : r[i] = e) <=> (\E i \in 1..Len(s) : s[i] = e) \/ e = x
          BY <3>2
        <4> QED BY <2>3, <2>6, <2>8, <4>1
      <3>5. f[n + 1] = r
        BY <2>5, <2>8, <3>1
      <3> HIDE DEF Below, Same
      <3> QED BY <3>2, <3>3, <3>4, <3>5
    <2> QED BY <2>7, <2>8
  <1> HIDE DEF S
  <1>6. L \in S
    BY <1>4, <1>5, SetInduction
  <1>7. Good(f[L], L)
    BY <1>6 DEF S
  <1> QED BY <1>1, <1>3, <1>7

\* One turn of the binary search for n in the slots b..e.
Look(f, n, b, e) ==
  LET mid == (b + e) \div 2
  IN IF b > e THEN [found |-> FALSE, at |-> b]
     ELSE IF name[mid].name = n THEN [found |-> TRUE, at |-> mid]
     ELSE IF name[mid].name < n THEN f[<<mid + 1, e>>]
     ELSE f[<<b, mid - 1>>]

\* The middle of a range is in it.
LEMMA Middle ==
  ASSUME NEW b \in Nat, NEW e \in Nat, b <= e
  PROVE  (b + e) \div 2 \in Nat /\ b <= (b + e) \div 2 /\ (b + e) \div 2 <= e
  OBVIOUS

\* The search ends.
LEMMA LookExists ==
  ASSUME NEW n, NEW L \in Nat
  PROVE  \E f : \A b \in 1..(L + 1), e \in 0..L : f[<<b, e>>] = Look(f, n, b, e)
  <1> DEFINE D == (1..(L + 1)) \X (0..L)
             S == {k \in Nat : \E f : \A b \in 1..(L + 1), e \in 0..L :
                                 e - b < k => f[<<b, e>>] = Look(f, n, b, e)}
  <1>1. 0 \in S
    <2>1. PICK f : f = [r \in D |-> [found |-> FALSE, at |-> r[1]]]
      OBVIOUS
    <2>2. ASSUME NEW b \in 1..(L + 1), NEW e \in 0..L, e - b < 0
          PROVE  f[<<b, e>>] = Look(f, n, b, e)
      <3>1. <<b, e>> \in D /\ f[<<b, e>>] = [found |-> FALSE, at |-> b]
        BY <2>1
      <3>2. b > e
        BY <2>2
      <3> QED BY <3>1, <3>2 DEF Look
    <2> QED BY <2>2
  <1>2. ASSUME NEW k \in Nat, k \in S PROVE k + 1 \in S
    <2>1. PICK f : \A b \in 1..(L + 1), e \in 0..L : e - b < k => f[<<b, e>>] = Look(f, n, b, e)
      BY <1>2
    <2>2. PICK g : g = [r \in D |-> IF r[2] - r[1] < k THEN f[r] ELSE Look(f, n, r[1], r[2])]
      OBVIOUS
    <2>3. ASSUME NEW b \in 1..(L + 1), NEW e \in 0..L
          PROVE  /\ e - b < k => g[<<b, e>>] = f[<<b, e>>]
                 /\ ~ e - b < k => g[<<b, e>>] = Look(f, n, b, e)
      <3>1. <<b, e>> \in D
        OBVIOUS
      <3> QED BY <2>2, <3>1
    <2>4. ASSUME NEW b \in 1..(L + 1), NEW e \in 0..L, e - b < k + 1
          PROVE  g[<<b, e>>] = Look(g, n, b, e)
      <3>1. g[<<b, e>>] = Look(f, n, b, e)
        BY <2>1, <2>3
      <3>2. CASE b > e
        BY <3>1, <3>2 DEF Look
      <3>3. CASE b <= e
        <4>1. PICK mid \in Nat : mid = (b + e) \div 2 /\ b <= mid /\ mid <= e
          BY <3>3, Middle
        <4>2. /\ mid + 1 \in 1..(L + 1) /\ e - (mid + 1) < k
              /\ mid - 1 \in 0..L /\ (mid - 1) - b < k
          BY <2>4, <4>1
        <4>3. g[<<mid + 1, e>>] = f[<<mid + 1, e>>] /\ g[<<b, mid - 1>>] = f[<<b, mid - 1>>]
          BY <2>3, <4>2
        <4> QED BY <3>1, <4>1, <4>3 DEF Look
      <3> QED BY <3>2, <3>3
    <2> QED BY <2>4
  <1> HIDE DEF S
  <1>3. L + 1 \in S
    BY <1>1, <1>2, SetInduction
  <1>4. PICK f : \A b \in 1..(L + 1), e \in 0..L : e - b < L + 1 => f[<<b, e>>] = Look(f, n, b, e)
    BY <1>3 DEF S
  <1> QED BY <1>4

LEMMA SearchIs ==
  ASSUME NameType, NEW n
  PROVE  \E f : /\ \A b \in 1..(Len(name) + 1), e \in 0..Len(name) : f[<<b, e>>] = Look(f, n, b, e)
               /\ Search(n) = f[<<1, Len(name)>>]
  <1>1. PICK L \in Nat : L = Len(name)
    <2>1. name \in Seq(Entries)
      BY DEF NameType
    <2> QED BY <2>1
  <1> DEFINE D == (1..(Len(name) + 1)) \X (0..Len(name))
             P(g) == g = [range \in D |->
                           LET begin == range[1]
                               end   == range[2]
                               mid   == (begin + end) \div 2
                           IN IF begin > end THEN [found |-> FALSE, at |-> begin]
                              ELSE IF name[mid].name = n THEN [found |-> TRUE, at |-> mid]
                              ELSE IF name[mid].name < n THEN g[<<mid + 1, end>>]
                              ELSE g[<<begin, mid - 1>>]]
             look == CHOOSE g : P(g)
  <1>2. PICK f : \A b \in 1..(L + 1), e \in 0..L : f[<<b, e>>] = Look(f, n, b, e)
    BY LookExists
  <1>3. PICK g : g = [r \in D |-> f[r]]
    OBVIOUS
  <1>4. \A b \in 1..(L + 1), e \in 0..L : g[<<b, e>>] = f[<<b, e>>]
    BY <1>1, <1>3
  <1>5. ASSUME NEW b \in 1..(L + 1), NEW e \in 0..L
        PROVE  g[<<b, e>>] = Look(g, n, b, e)
    <2>1. g[<<b, e>>] = Look(f, n, b, e)
      BY <1>2, <1>4
    <2>2. CASE b > e
      BY <2>1, <2>2 DEF Look
    <2>3. CASE b <= e
      <3>1. PICK mid \in Nat : mid = (b + e) \div 2 /\ b <= mid /\ mid <= e
        BY <2>3, Middle
      <3>2. mid + 1 \in 1..(L + 1) /\ mid - 1 \in 0..L
        BY <3>1
      <3> QED BY <1>4, <2>1, <3>1, <3>2 DEF Look
    <2> QED BY <2>2, <2>3
  <1>6. P(g)
    <2>1. ASSUME NEW r \in D PROVE g[r] = Look(g, n, r[1], r[2])
      <3>1. r = <<r[1], r[2]>> /\ r[1] \in 1..(L + 1) /\ r[2] \in 0..L
        BY <1>1
      <3> QED BY <1>5, <3>1
    <2> QED BY <1>3, <2>1 DEF Look
  <1>7. P(look)
    <2> HIDE DEF P
    <2> QED BY <1>6
  <1>8. Search(n) = look[<<1, Len(name)>>]
    BY DEF Search
  <1> HIDE DEF look
  <1>9. \A b \in 1..(L + 1), e \in 0..L : look[<<b, e>>] = Look(look, n, b, e)
    <2>1. \A r \in D : look[r] = Look(look, n, r[1], r[2])
      BY <1>7 DEF Look
    <2>2. \A b \in 1..(L + 1), e \in 0..L : <<b, e>> \in D
      BY <1>1
    <2> HIDE DEF D
    <2> QED BY <2>1, <2>2
  <1> QED BY <1>1, <1>8, <1>9

\* In a sorted array the search finds the name, or the place where it belongs.
LEMMA SearchFacts ==
  ASSUME NameType, Sorted, NEW n \in Nat
  PROVE  \E at \in Nat :
           \/ /\ Search(n) = [found |-> TRUE, at |-> at]
              /\ at \in 1..Len(name) /\ name[at].name = n
           \/ /\ Search(n) = [found |-> FALSE, at |-> at]
              /\ at \in 1..(Len(name) + 1)
              /\ \A i \in 1..Len(name) : i < at => name[i].name < n
              /\ \A i \in 1..Len(name) : i >= at => n < name[i].name
  <1>0. name \in Seq(Entries) /\ Name \subseteq Nat
    BY HandleAssumption DEF NameType
  <1>1. PICK L \in Nat : L = Len(name)
    BY <1>0
  <1>2. ASSUME NEW i \in 1..L PROVE name[i].name \in Nat
    <2>1. name[i] \in Entries
      BY <1>0, <1>1
    <2>2. name[i].name \in Name
      BY <2>1 DEF Entries
    <2> QED BY <1>0, <2>2
  <1>3. PICK f : /\ \A b \in 1..(L + 1), e \in 0..L : f[<<b, e>>] = Look(f, n, b, e)
                 /\ Search(n) = f[<<1, L>>]
    BY <1>1, SearchIs
  <1> DEFINE Result(r, at) ==
               \/ /\ r = [found |-> TRUE, at |-> at]
                  /\ at \in 1..L /\ name[at].name = n
               \/ /\ r = [found |-> FALSE, at |-> at]
                  /\ at \in 1..(L + 1)
                  /\ \A i \in 1..L : i < at => name[i].name < n
                  /\ \A i \in 1..L : i >= at => n < name[i].name
             Around(b, e) == /\ b <= e + 1
                             /\ \A i \in 1..L : i < b => name[i].name < n
                             /\ \A i \in 1..L : i > e => n < name[i].name
             S == {k \in Nat : \A b \in 1..(L + 1), e \in 0..L :
                     Around(b, e) /\ e - b < k => \E at \in Nat : Result(f[<<b, e>>], at)}
  <1>4. 0 \in S
    <2>1. SUFFICES ASSUME NEW b \in 1..(L + 1), NEW e \in 0..L, Around(b, e), e - b < 0
                   PROVE  Result(f[<<b, e>>], b) /\ b \in Nat
      OBVIOUS
    <2>2. b > e /\ b = e + 1
      BY <2>1
    <2>3. f[<<b, e>>] = [found |-> FALSE, at |-> b]
      BY <1>3, <2>2 DEF Look
    <2> QED BY <2>1, <2>2, <2>3
  <1>5. ASSUME NEW k \in Nat, k \in S PROVE k + 1 \in S
    <2>1. SUFFICES ASSUME NEW b \in 1..(L + 1), NEW e \in 0..L, Around(b, e), e - b < k + 1
                   PROVE  \E at \in Nat : Result(f[<<b, e>>], at)
      OBVIOUS
    <2>2. f[<<b, e>>] = Look(f, n, b, e)
      BY <1>3
    <2>3. CASE b > e
      <3>1. b = e + 1 /\ b \in Nat
        BY <2>1, <2>3
      <3>2. f[<<b, e>>] = [found |-> FALSE, at |-> b]
        BY <2>2, <2>3 DEF Look
      <3>3. Result(f[<<b, e>>], b)
        BY <2>1, <3>1, <3>2
      <3> QED BY <3>1, <3>3
    <2>4. CASE b <= e
      <3>1. PICK mid \in Nat : mid = (b + e) \div 2 /\ b <= mid /\ mid <= e
        BY <2>4, Middle
      <3>2. /\ mid + 1 \in 1..(L + 1) /\ e - (mid + 1) < k /\ mid + 1 <= e + 1
            /\ mid - 1 \in 0..L /\ (mid - 1) - b < k /\ b <= (mid - 1) + 1
            /\ mid \in 1..L
        BY <2>1, <3>1
      <3>3. CASE name[mid].name = n
        <4>1. f[<<b, e>>] = [found |-> TRUE, at |-> mid]
          BY <2>2, <2>4, <3>1, <3>3 DEF Look
        <4>2. Result(f[<<b, e>>], mid)
          BY <3>2, <3>3, <4>1
        <4> QED BY <4>2
      <3>4. CASE name[mid].name < n
        <4>1. name[mid].name # n
          BY <1>2, <3>2, <3>4
        <4>2. f[<<b, e>>] = f[<<mid + 1, e>>]
          BY <2>2, <2>4, <3>1, <3>4, <4>1 DEF Look
        <4>3. ASSUME NEW i \in 1..L, i < mid + 1 PROVE name[i].name < n
          <5>1. CASE i = mid
            BY <3>4, <5>1
          <5>2. CASE i < mid
            <6>1. name[i].name < name[mid].name
              BY <1>1, <3>2, <5>2 DEF Sorted
            <6>2. name[i].name \in Nat /\ name[mid].name \in Nat
              BY <1>2, <3>2
            <6> QED BY <3>4, <6>1, <6>2
          <5> QED BY <3>2, <4>3, <5>1, <5>2
        <4>4. Around(mid + 1, e)
          BY <2>1, <3>2, <4>3
        <4> HIDE DEF Around, Result
        <4> QED BY <1>5, <3>2, <4>2, <4>4
      <3>5. CASE name[mid].name > n
        <4>1. name[mid].name # n /\ ~ name[mid].name < n
          BY <1>2, <3>2, <3>5
        <4>2. f[<<b, e>>] = f[<<b, mid - 1>>]
          BY <2>2, <2>4, <3>1, <4>1 DEF Look
        <4>3. ASSUME NEW i \in 1..L, i > mid - 1 PROVE n < name[i].name
          <5>1. CASE i = mid
            BY <3>5, <5>1
          <5>2. CASE mid < i
            <6>1. name[mid].name < name[i].name
              BY <1>1, <3>2, <5>2 DEF Sorted
            <6>2. name[i].name \in Nat /\ name[mid].name \in Nat
              BY <1>2, <3>2
            <6> QED BY <3>5, <6>1, <6>2
          <5> QED BY <3>2, <4>3, <5>1, <5>2
        <4>4. Around(b, mid - 1)
          BY <2>1, <3>2, <4>3
        <4> HIDE DEF Around, Result
        <4>5. PICK d : d = mid - 1
          OBVIOUS
        <4>6. d \in 0..L /\ d - b < k /\ Around(b, d)
          BY <3>2, <4>4, <4>5
        <4>7. \E at \in Nat : Result(f[<<b, d>>], at)
          BY <1>5, <4>6
        <4> QED BY <4>2, <4>5, <4>7
      <3>6. name[mid].name \in Nat
        BY <1>2, <3>2
      <3> QED BY <3>3, <3>4, <3>5, <3>6
    <2> HIDE DEF S, Around, Result
    <2>5. b > e \/ b <= e
      OBVIOUS
    <2> QED BY <2>3, <2>4, <2>5
  <1>6. Around(1, L)
    OBVIOUS
  <1> HIDE DEF S, Around
  <1>7. L + 1 \in S
    BY <1>4, <1>5, SetInduction
  <1>8. PICK at \in Nat : Result(f[<<1, L>>], at)
    <2>1. 1 \in 1..(L + 1) /\ L \in 0..L /\ L - 1 < L + 1
      OBVIOUS
    <2> HIDE DEF Result
    <2> QED BY <1>6, <1>7, <2>1 DEF S
  <1> QED BY <1>1, <1>3, <1>8

\* A sorted array gives every name its handle.
LEMMA SortedIsFound == ASSUME NameType, Sorted PROVE NamesFound
  <1>0. name \in Seq(Entries) /\ Name \subseteq Nat
    BY HandleAssumption DEF NameType
  <1>1. DOMAIN name = 1..Len(name) /\ Len(name) \in Nat
    BY <1>0
  <1>2. \A i, k \in DOMAIN name : i < k => name[i].name < name[k].name
    BY <1>1 DEF Sorted
  <1>3. ASSUME NEW n \in Name
        PROVE  FindName(n) = IF \E i \in DOMAIN name : name[i].name = n
                             THEN (CHOOSE e \in ToSet(name) : e.name = n).handle
                             ELSE 0
    <2>1. n \in Nat
      BY <1>0
    <2>2. PICK at \in Nat :
             \/ /\ Search(n) = [found |-> TRUE, at |-> at]
                /\ at \in 1..Len(name) /\ name[at].name = n
             \/ /\ Search(n) = [found |-> FALSE, at |-> at]
                /\ at \in 1..(Len(name) + 1)
                /\ \A i \in 1..Len(name) : i < at => name[i].name < n
                /\ \A i \in 1..Len(name) : i >= at => n < name[i].name
      BY <2>1, SearchFacts
    <2>3. CASE Search(n) = [found |-> TRUE, at |-> at] /\ at \in 1..Len(name) /\ name[at].name = n
      <3>1. FindName(n) = name[at].handle
        BY <2>3 DEF FindName
      <3>2. ASSUME NEW e \in ToSet(name), e.name = n PROVE e = name[at]
        <4>1. PICK i \in 1..Len(name) : e = name[i]
          BY <1>1 DEF ToSet
        <4>2. ~ i < at /\ ~ at < i
          BY <1>1, <2>1, <2>3, <3>2, <4>1 DEF Sorted
        <4> QED BY <1>1, <2>3, <4>1, <4>2
      <3>3. name[at] \in ToSet(name)
        BY <1>1, <2>3 DEF ToSet
      <3>4. (CHOOSE e \in ToSet(name) : e.name = n) = name[at]
        BY <2>3, <3>2, <3>3
      <3> QED BY <1>1, <2>3, <3>1, <3>4
    <2>4. CASE /\ Search(n) = [found |-> FALSE, at |-> at]
               /\ at \in 1..(Len(name) + 1)
               /\ \A i \in 1..Len(name) : i < at => name[i].name < n
               /\ \A i \in 1..Len(name) : i >= at => n < name[i].name
      <3>1. FindName(n) = 0
        BY <2>4 DEF FindName
      <3>2. ASSUME NEW i \in DOMAIN name PROVE name[i].name # n
        <4>1. i \in 1..Len(name) /\ i \in Int /\ at \in Int
          BY <1>1
        <4>2. name[i].name < n \/ n < name[i].name
          BY <2>4, <4>1
        <4> QED BY <2>1, <4>2
      <3> QED BY <3>1, <3>2
    <2> QED BY <2>2, <2>3, <2>4
  <1> QED BY <1>2, <1>3 DEF NamesFound

\* A name that is not found is inserted where it belongs.
LEMMA InsertFacts ==
  ASSUME NameType, Sorted, NEW n \in Name, NEW h \in 1..(Handles - 1), ~ Search(n).found,
         name' = InsertName([name |-> n, handle |-> h], Search(n).at)
  PROVE  /\ name' \in Seq(Entries) /\ Sorted'
         /\ \A i \in 1..Len(name) : \E k \in 1..Len(name') : name'[k] = name[i]
  <1>0. name \in Seq(Entries) /\ n \in Nat
    BY HandleAssumption DEF NameType
  <1>1. PICK L \in Nat : L = Len(name)
    BY <1>0
  <1>2. PICK at \in 1..(L + 1) :
           /\ Search(n) = [found |-> FALSE, at |-> at]
           /\ \A i \in 1..L : i < at => name[i].name < n
           /\ \A i \in 1..L : i >= at => n < name[i].name
    BY <1>0, <1>1, SearchFacts
  <1>3. PICK x \in Entries : x = [name |-> n, handle |-> h] /\ x.name = n
    BY DEF Entries
  <1>4. PICK s \in Seq(Entries) : s = name
    BY <1>0
  <1>5. name' = SubSeq(s, 1, at - 1) \o <<x>> \o SubSeq(s, at, L)
    <2>1. Search(n).at = at
      BY <1>2
    <2>2. name' = InsertAt(s, at, x)
      BY <1>3, <1>4, <2>1 DEF InsertName
    <2> QED BY <1>1, <1>4, <2>2 DEF InsertAt
  <1>6. PICK a \in Seq(Entries), c \in Seq(Entries) :
          /\ a = SubSeq(s, 1, at - 1) /\ Len(a) = at - 1
          /\ \A i \in 1..(at - 1) : a[i] = s[i]
          /\ c = SubSeq(s, at, L) /\ Len(c) = L + 1 - at
          /\ \A i \in 1..(L + 1 - at) : c[i] = s[at + i - 1]
    <2>1. /\ SubSeq(s, 1, at - 1) \in Seq(Entries) /\ Len(SubSeq(s, 1, at - 1)) = at - 1
          /\ \A i \in 1..(at - 1) : SubSeq(s, 1, at - 1)[i] = s[i]
      BY <1>1, <1>4
    <2>2. /\ SubSeq(s, at, L) \in Seq(Entries) /\ Len(SubSeq(s, at, L)) = L + 1 - at
          /\ \A i \in 1..(L + 1 - at) : SubSeq(s, at, L)[i] = s[at + i - 1]
      BY <1>1, <1>4
    <2> QED BY <2>1, <2>2
  <1>7. PICK d \in Seq(Entries) : d = a \o <<x>> /\ Len(d) = at /\ d[at] = x
                                 /\ \A i \in 1..(at - 1) : d[i] = s[i]
    <2>1. <<x>> \in Seq(Entries) /\ Len(<<x>>) = 1 /\ <<x>>[1] = x
      BY <1>3
    <2>2. a \o <<x>> \in Seq(Entries) /\ Len(a \o <<x>>) = at
      BY <1>2, <1>6, <2>1
    <2>3. (a \o <<x>>)[at] = x
      BY <1>2, <1>6, <2>1
    <2>4. \A i \in 1..(at - 1) : (a \o <<x>>)[i] = s[i]
      BY <1>2, <1>6, <2>1
    <2> QED BY <2>2, <2>3, <2>4
  <1>8. PICK r \in Seq(Entries) : r = d \o c /\ Len(r) = L + 1 /\ r[at] = x
                                 /\ (\A i \in 1..(at - 1) : r[i] = s[i])
                                 /\ \A i \in (at + 1)..(L + 1) : r[i] = s[i - 1]
    <2>1. d \o c \in Seq(Entries) /\ Len(d \o c) = L + 1
      BY <1>2, <1>6, <1>7
    <2>2. \A i \in 1..at : (d \o c)[i] = d[i]
      BY <1>2, <1>6, <1>7
    <2>3. \A i \in (at + 1)..(L + 1) : (d \o c)[i] = c[i - at]
      BY <1>2, <1>6, <1>7
    <2>4. ASSUME NEW i \in (at + 1)..(L + 1) PROVE c[i - at] = s[i - 1]
      <3>1. PICK m \in 1..(L + 1 - at) : m = i - at
        BY <1>2
      <3>2. c[m] = s[at + m - 1] /\ at + m - 1 = i - 1
        BY <1>2, <1>6, <3>1
      <3> QED BY <3>1, <3>2
    <2>5. PICK r \in Seq(Entries) : r = d \o c /\ Len(r) = L + 1
      BY <2>1
    <2>6. r[at] = x
      BY <1>2, <1>7, <2>2, <2>5
    <2>7. \A i \in 1..(at - 1) : r[i] = s[i]
      BY <1>2, <1>7, <2>2, <2>5
    <2>8. \A i \in (at + 1)..(L + 1) : r[i] = s[i - 1]
      BY <2>3, <2>4, <2>5
    <2> QED BY <2>5, <2>6, <2>7, <2>8
  <1>9. name' = r
    BY <1>5, <1>6, <1>7, <1>8
  <1>10. SortedSeq(r)
    <2>1. SUFFICES ASSUME NEW i \in 1..(L + 1), NEW k \in 1..(L + 1), i < k
                   PROVE  r[i].name < r[k].name
      BY <1>8 DEF SortedSeq
    <2>2. \A p, q \in 1..L : p < q => s[p].name < s[q].name
      BY <1>1, <1>4 DEF Sorted
    <2>3. CASE k < at
      <3>1. r[i] = s[i] /\ r[k] = s[k] /\ i \in 1..L /\ k \in 1..L
        BY <1>2, <1>8, <2>1, <2>3
      <3> QED BY <2>1, <2>2, <3>1
    <2>4. CASE k = at
      <3>1. r[i] = s[i] /\ i \in 1..L
        BY <1>2, <1>8, <2>1, <2>4
      <3> QED BY <1>2, <1>3, <1>4, <1>8, <2>1, <2>4, <3>1
    <2>5. CASE i < at /\ k > at
      <3>1. r[i] = s[i] /\ r[k] = s[k - 1] /\ i < k - 1 /\ i \in 1..L /\ k - 1 \in 1..L
        BY <1>2, <1>8, <2>1, <2>5
      <3> QED BY <2>2, <3>1
    <2>6. CASE i = at
      <3>1. r[k] = s[k - 1] /\ k - 1 \in 1..L /\ k - 1 >= at
        <4>1. k \in (at + 1)..(L + 1)
          BY <1>2, <2>1, <2>6
        <4>2. r[k] = s[k - 1]
          BY <1>8, <4>1
        <4> QED BY <1>2, <4>1, <4>2
      <3> QED BY <1>2, <1>3, <1>4, <1>8, <2>6, <3>1
    <2>7. CASE i > at
      <3>1. r[i] = s[i - 1] /\ r[k] = s[k - 1] /\ i - 1 \in 1..L /\ k - 1 \in 1..L /\ i - 1 < k - 1
        <4>1. i \in (at + 1)..(L + 1) /\ k \in (at + 1)..(L + 1)
          BY <1>2, <2>1, <2>7
        <4>2. r[i] = s[i - 1] /\ r[k] = s[k - 1]
          BY <1>8, <4>1
        <4> QED BY <1>2, <2>1, <4>1, <4>2
      <3> QED BY <2>2, <3>1
    <2> QED BY <1>2, <2>1, <2>3, <2>4, <2>5, <2>6, <2>7
  <1>11. ASSUME NEW i \in 1..L PROVE \E k \in 1..(L + 1) : r[k] = s[i]
    <2>1. CASE i < at
      <3>1. i \in 1..(at - 1) /\ i \in 1..(L + 1)
        BY <1>2, <2>1
      <3> QED BY <1>8, <3>1
    <2>2. CASE ~ i < at
      <3>1. i + 1 \in (at + 1)..(L + 1) /\ (i + 1) - 1 = i
        BY <1>2, <2>2
      <3>2. r[i + 1] = s[i]
        BY <1>8, <3>1
      <3> QED BY <3>1, <3>2
    <2> QED BY <2>1, <2>2
  <1>12. Sorted'
    BY <1>9, <1>10 DEF Sorted, SortedSeq
  <1>13. \A i \in 1..Len(name) : \E k \in 1..Len(name') : name'[k] = name[i]
    <2>1. Len(name') = L + 1
      BY <1>8, <1>9
    <2>2. SUFFICES ASSUME NEW i \in 1..L PROVE \E k \in 1..(L + 1) : name'[k] = s[i]
      BY <1>1, <1>4, <2>1
    <2>3. PICK k \in 1..(L + 1) : r[k] = s[i]
      BY <1>11
    <2> QED BY <1>9, <2>3
  <1> QED BY <1>8, <1>9, <1>12, <1>13

\* The array stays sorted: a step leaves it, removes the names of one service, or
\* inserts one name.
LEMMA NameStep ==
  ASSUME NameType, Sorted, [Next]_vars
  PROVE  NameType' /\ Sorted'
  <1>1. CASE name' = name
    BY <1>1 DEF NameType, Sorted
  <1>2. ASSUME NEW h, name' = Unnamed(h) PROVE NameType' /\ Sorted'
    BY <1>2, UnnamedFacts DEF NameType, Sorted, SortedSeq
  <1>3. ASSUME NEW t \in Thread, NEW h \in 1..(Handles - 1), NEW n \in Name, NameHandle(t, h, n)
        PROVE  NameType' /\ Sorted'
    <2>1. ~ Search(n).found /\ name' = InsertName([name |-> n, handle |-> h], Search(n).at)
      BY <1>3 DEF NameHandle
    <2> QED BY <2>1, InsertFacts DEF NameType
  <1>4. CASE UNCHANGED vars
    BY <1>1, <1>4 DEF vars
  <1>5. ASSUME NEW t \in Thread,
               \/ \E c \in Context : Register(t, c)
               \/ AssignHandle(t) \/ RetireAll(t) \/ LookAtSlot(t) \/ EndPass(t)
        PROVE  name' = name
    BY <1>5 DEF Register, AssignHandle, RetireAll, LookAtSlot, EndPass, tableVars
  <1>6. ASSUME NEW t \in Thread, (\E h \in 1..(Handles - 1) : Retire(t, h)) \/ RetireFound(t)
        PROVE  name' = name \/ \E h : name' = Unnamed(h)
    BY <1>6 DEF Retire, RetireFound, RetireHandle
  <1> QED BY <1>1, <1>2, <1>3, <1>4, <1>5, <1>6 DEF Next

\* The array of names is always strictly sorted, and the binary search gives
\* every name its handle and finds no other.
THEOREM NamesAreFound == Spec => []NamesFound
  <1>1. Init => NameType /\ Sorted
    BY DEF Init, NameType, Sorted
  <1>2. NameType /\ Sorted /\ [Next]_vars => (NameType /\ Sorted)'
    BY NameStep
  <1>3. NameType /\ Sorted => NamesFound
    BY SortedIsFound
  <1> QED BY <1>1, <1>2, <1>3, PTL DEF Spec

-----------------------------------------------------------------------------
(* The invariant at the points where the steps use it                      *)

\* A context is in one slot at most, the slot of its handle when it has one.
LEMMA OneSlot ==
  ASSUME TypeOK, Table
  PROVE  /\ \A c : InTable(c) <=> \E i \in 0..(slot_size - 1) : slot[i] = c
         /\ \A i, k \in 0..(slot_size - 1) : slot[i] # NULL /\ slot[i] = slot[k] => i = k
         /\ \A t \in Thread : launching[t] # NULL =>
              launching[t] \in Context /\ InTable(launching[t]) /\ handle[launching[t]] = 0
         /\ \A i \in 0..(slot_size - 1) : slot[i] # NULL /\ handle[slot[i]] # 0 =>
              handle[slot[i]] % slot_size = i
  <1>1. /\ slot_size \in Nat \ {0} /\ slot \in [0..(slot_size - 1) -> Context \cup {NULL}]
        /\ launching \in [Thread -> Context \cup {NULL}]
        /\ \A t \in Thread : issued[t] \in Nat
    BY TableTypes
  <1>2. \A c : InTable(c) <=> \E i \in 0..(slot_size - 1) : slot[i] = c
    BY <1>1 DEF InTable
  <1>3. ASSUME NEW t \in Thread, launching[t] # NULL
        PROVE  /\ launching[t] \in Context /\ InTable(launching[t]) /\ handle[launching[t]] = 0
               /\ \A u \in Thread : launching[u] = launching[t] => u = t
    <2>1. /\ handle[launching[t]] = 0 /\ slot[issued[t] % slot_size] = launching[t]
          /\ \A u \in Thread : launching[u] = launching[t] => u = t
      BY <1>3 DEF Table, Launches
    <2>2. issued[t] % slot_size \in 0..(slot_size - 1)
      BY <1>1, ModType
    <2> QED BY <1>1, <1>2, <1>3, <2>1, <2>2
  <1>4. ASSUME NEW i \in 0..(slot_size - 1), slot[i] # NULL
        PROVE  \/ handle[slot[i]] % slot_size = i /\ \A t \in Thread : launching[t] # slot[i]
               \/ \E t \in Thread : launching[t] = slot[i] /\ issued[t] % slot_size = i
    BY <1>4 DEF Table, Placed
  <1>5. ASSUME NEW i \in 0..(slot_size - 1), NEW k \in 0..(slot_size - 1),
               slot[i] # NULL, slot[i] = slot[k]
        PROVE  i = k
    <2>1. CASE \E t \in Thread : launching[t] = slot[i]
      <3>1. PICK t \in Thread : launching[t] = slot[i]
        BY <2>1
      <3>2. (\E u \in Thread : launching[u] = slot[i] /\ issued[u] % slot_size = i)
              /\ \E u \in Thread : launching[u] = slot[i] /\ issued[u] % slot_size = k
        BY <1>4, <1>5, <3>1
      <3>3. \A u \in Thread : launching[u] = slot[i] => u = t
        BY <1>3, <1>5, <3>1
      <3> QED BY <3>2, <3>3
    <2>2. CASE \A t \in Thread : launching[t] # slot[i]
      BY <1>4, <1>5, <2>2
    <2> QED BY <2>1, <2>2
  <1>6. ASSUME NEW i \in 0..(slot_size - 1), slot[i] # NULL, handle[slot[i]] # 0
        PROVE  handle[slot[i]] % slot_size = i
    BY <1>3, <1>4, <1>6
  <1> QED BY <1>2, <1>3, <1>5, <1>6

\* A service that has its handle is found by it.
LEMMA Grabs ==
  ASSUME TypeOK, Table, NEW c \in Context, InTable(c), handle[c] # 0
  PROVE  Grabbed(handle[c]) = c
  <1>1. PICK i \in 0..(slot_size - 1) : slot[i] = c
    BY OneSlot
  <1>2. c # NULL
    BY HandleAssumption
  <1>3. handle[c] % slot_size = i
    BY <1>1, <1>2, OneSlot
  <1> QED BY <1>1, <1>2, <1>3 DEF Grabbed

LEMMA TableFindable == TypeOK /\ Table => Findable
  BY Grabs DEF Findable, Services

\* The context that is found has the handle, and only its slot is cleared.
LEMMA RetireFacts ==
  ASSUME TypeOK, Table, NEW h \in 1..(Handles - 1), RetireHandle(h)
  PROVE  /\ name' \in Seq(Entries)
         /\ slot' \in [0..(slot_size - 1) -> Context \cup {NULL}]
         /\ \A i \in 0..(slot_size - 1) :
              IF slot[i] # NULL /\ handle[slot[i]] = h THEN slot'[i] = NULL ELSE slot'[i] = slot[i]
  <1>1. /\ slot_size \in Nat \ {0} /\ slot \in [0..(slot_size - 1) -> Context \cup {NULL}]
        /\ name \in Seq(Entries) /\ NULL \notin Context
    BY TableTypes DEF TypeOK, Entries
  <1>2. PICK j \in 0..(slot_size - 1) : j = h % slot_size
    <2>1. PICK x \in Nat : x = h
      OBVIOUS
    <2> QED BY <1>1, <2>1, ModType
  <1>3. ASSUME NEW i \in 0..(slot_size - 1), slot[i] # NULL, handle[slot[i]] = h PROVE i = j
    <2>1. h # 0
      OBVIOUS
    <2> QED BY <1>2, <1>3, <2>1, OneSlot
  <1>4. CASE Grabbed(h) # NULL
    <2>1. slot' = [slot EXCEPT ![j] = NULL] /\ name' = Unnamed(h)
      BY <1>2, <1>4 DEF RetireHandle
    <2>2. slot[j] # NULL /\ handle[slot[j]] = h
      BY <1>2, <1>4 DEF Grabbed
    <2>3. name' \in Seq(Entries)
      BY <1>1, <2>1, UnnamedFacts DEF NameType
    <2> QED BY <1>1, <1>3, <2>1, <2>2, <2>3
  <1>5. CASE Grabbed(h) = NULL
    <2>1. slot' = slot /\ name' = name
      BY <1>5 DEF RetireHandle
    <2>2. ~ (slot[j] # NULL /\ handle[slot[j]] = h)
      BY <1>2, <1>5 DEF Grabbed
    <2> QED BY <1>1, <1>3, <2>1, <2>2
  <1> QED BY <1>4, <1>5

-----------------------------------------------------------------------------
(* The steps                                                               *)

Core == TypeOK /\ Table /\ Passes /\ RetireAllMissesNone

\* A registration that gives up.
LEMMA AbortKeeps ==
  ASSUME IInv, NEW t \in Thread, NEW c \in Context, Register(t, c),
         UNCHANGED <<slot_size, slot, handle_index, issued, launching>>, aborted', Full'
  PROVE  Core'
  <1>1. /\ ~ InTable(c) /\ \A u \in Thread : launching[u] # c
        /\ handle' = [handle EXCEPT ![c] = 0]
        /\ targets' = [u \in Thread |-> targets[u] \ {c}]
        /\ UNCHANGED <<name, all, found, retired>>
    BY DEF Register
  <1>2. UNCHANGED <<slot_size, slot, handle_index, issued, launching>>
    OBVIOUS
  <1>3. /\ slot_size \in Nat \ {0} /\ slot \in [0..(slot_size - 1) -> Context \cup {NULL}]
        /\ handle \in [Context -> 0..(Handles - 1)] /\ Handles \in Nat \ {0}
        /\ launching \in [Thread -> Context \cup {NULL}] /\ NULL \notin Context
    BY TableTypes DEF IInv
  <1>4. handle'[c] = 0 /\ \A d \in Context : d # c => handle'[d] = handle[d]
    BY <1>1, <1>3
  <1>5. \A i \in 0..(slot_size - 1) : slot[i] # c
    BY <1>1, <1>3 DEF InTable
  <1>6. TypeOK'
    <2>1. handle' \in [Context -> 0..(Handles - 1)]
      BY <1>1, <1>3
    <2>2. targets' \in [Thread -> SUBSET Context]
      BY <1>1 DEF IInv, TypeOK
    <2>3. aborted' \in BOOLEAN
      BY DEF Register, Place, IInv, TypeOK
    <2> QED BY <1>1, <1>2, <2>1, <2>2, <2>3 DEF IInv, TypeOK
  <1>7. Launches'
    BY <1>1, <1>2, <1>3, <1>4 DEF IInv, Table, Launches
  <1>8. Placed'
    <2>1. SUFFICES ASSUME NEW i \in 0..(slot_size - 1), slot[i] # NULL
                   PROVE  \/ handle'[slot[i]] % slot_size = i /\ \A u \in Thread : launching[u] # slot[i]
                          \/ \E u \in Thread : launching[u] = slot[i] /\ issued[u] % slot_size = i
      BY <1>2 DEF Placed
    <2>2. handle'[slot[i]] = handle[slot[i]]
      BY <1>3, <1>4, <1>5, <2>1
    <2> QED BY <2>1, <2>2 DEF IInv, Table, Placed
  <1>9. Divides'
    BY <1>2 DEF IInv, Table, Divides
  <1>10. \A u \in Thread : targets'[u] \subseteq targets[u] /\ c \notin targets'[u]
                          /\ targets'[u] \subseteq Context
    BY <1>1 DEF IInv, TypeOK
  <1>11. \A d : InTable(d)' = InTable(d)
    BY <1>2 DEF InTable
  <1>12. Passes'
    <2>1. SUFFICES ASSUME NEW u \in Thread
                   PROVE  /\ all[u] = None \/ all[u] <= slot_size
                          /\ found[u] # 0 => all[u] < slot_size
                          /\ \A d \in targets'[u] :
                               /\ InTable(d) => handle'[d] # 0 /\ \A v \in Thread : launching[v] # d
                               /\ found[u] # 0 /\ slot[all[u]] = d => handle'[d] = found[u]
      BY <1>1, <1>2, <1>11 DEF Passes, None
    <2>2. \A d \in targets'[u] : handle'[d] = handle[d] /\ d \in targets[u]
      BY <1>4, <1>10
    <2> QED BY <2>2 DEF IInv, Passes
  <1>13. RetireAllMissesNone'
    <2>1. SUFFICES ASSUME NEW u \in Thread, all[u] # None, NEW d \in targets'[u],
                          InTable(d), handle'[d] # 0
                   PROVE  \E i \in DOMAIN slot : slot[i] = d /\ i >= all[u]
      BY <1>1, <1>2, <1>11 DEF RetireAllMissesNone, None
    <2>2. handle'[d] = handle[d] /\ d \in targets[u]
      BY <1>4, <1>10
    <2> QED BY <2>1, <2>2 DEF IInv, RetireAllMissesNone
  <1> QED BY <1>6, <1>7, <1>8, <1>9, <1>12, <1>13 DEF Core, Table

LEMMA RegisterStep ==
  ASSUME IInv, NEW t \in Thread, NEW c \in Context, Register(t, c), CalmStep
  PROVE  Core'
  <1>1. CASE /\ aborted' /\ UNCHANGED <<slot_size, slot, handle_index, issued, launching>>
             /\ Full'
    BY <1>1, AbortKeeps
  <1>2. CASE /\ ~ aborted'
             /\ \E sl, size : Rehoused(sl, size) /\ Open(sl, size) # {} /\ Place(t, c, sl, size)
    <2>1. PICK sl, size : Rehoused(sl, size) /\ Open(sl, size) # {} /\ Place(t, c, sl, size)
      BY <1>2
    <2> QED BY <1>2, <2>1, RegisterKeeps DEF Core
  <1> QED BY <1>1, <1>2, RegisterFacts DEF IInv

LEMMA AssignStep ==
  ASSUME IInv, NEW t \in Thread, AssignHandle(t)
  PROVE  Core'
  <1>1. /\ launching[t] # NULL /\ ~ aborted
        /\ handle' = [handle EXCEPT ![launching[t]] = issued[t]]
        /\ launching' = [launching EXCEPT ![t] = NULL]
        /\ issued' = [issued EXCEPT ![t] = 0]
        /\ UNCHANGED <<slot_size, slot, handle_index, name, all, found, retired, targets, aborted>>
    BY DEF AssignHandle, tableVars, allVars
  <1>2. /\ slot_size \in Nat \ {0} /\ slot \in [0..(slot_size - 1) -> Context \cup {NULL}]
        /\ handle \in [Context -> 0..(Handles - 1)] /\ Handles \in Nat \ {0}
        /\ launching \in [Thread -> Context \cup {NULL}] /\ NULL \notin Context
        /\ issued \in [Thread -> 0..(Handles - 1)]
    BY TableTypes DEF IInv
  <1>3. PICK c \in Context : c = launching[t]
    BY <1>1, <1>2
  <1>4. /\ handle'[c] = issued[t] /\ \A d \in Context : d # c => handle'[d] = handle[d]
        /\ launching'[t] = NULL
        /\ \A u \in Thread : u # t => launching'[u] = launching[u] /\ issued'[u] = issued[u]
    BY <1>1, <1>2, <1>3
  <1>5. /\ slot[issued[t] % slot_size] = c
        /\ \A u \in Thread : launching[u] = c => u = t
    BY <1>1, <1>3 DEF IInv, Table, Launches
  <1>6. InTable(c) /\ handle[c] = 0
    BY <1>1, <1>3, OneSlot DEF IInv
  <1>7. TypeOK'
    <2>1. handle' \in [Context -> 0..(Handles - 1)]
      BY <1>1, <1>2, <1>3
    <2>2. launching' \in [Thread -> Context \cup {NULL}] /\ issued' \in [Thread -> 0..(Handles - 1)]
      BY <1>1, <1>2
    <2> QED BY <1>1, <2>1, <2>2 DEF IInv, TypeOK
  <1>8. Launches'
    <2>1. SUFFICES ASSUME NEW u \in Thread, launching'[u] # NULL
                   PROVE  /\ handle'[launching'[u]] = 0
                          /\ slot[issued'[u] % slot_size] = launching'[u]
                          /\ \A v \in Thread : launching'[v] = launching'[u] => v = u
      BY <1>1 DEF Launches
    <2>2. /\ u # t /\ launching'[u] = launching[u] /\ issued'[u] = issued[u]
          /\ launching[u] \in Context /\ launching[u] # c
      BY <1>2, <1>4, <1>5, <2>1
    <2>3. /\ handle[launching[u]] = 0 /\ slot[issued[u] % slot_size] = launching[u]
          /\ \A v \in Thread : launching[v] = launching[u] => v = u
      BY <2>1, <2>2 DEF IInv, Table, Launches
    <2> QED BY <1>4, <2>1, <2>2, <2>3
  <1>9. Placed'
    <2>1. SUFFICES ASSUME NEW i \in 0..(slot_size - 1), slot[i] # NULL
                   PROVE  \/ handle'[slot[i]] % slot_size = i /\ \A u \in Thread : launching'[u] # slot[i]
                          \/ \E u \in Thread : launching'[u] = slot[i] /\ issued'[u] % slot_size = i
      BY <1>1 DEF Placed
    <2>2. \/ handle[slot[i]] % slot_size = i /\ \A u \in Thread : launching[u] # slot[i]
          \/ \E u \in Thread : launching[u] = slot[i] /\ issued[u] % slot_size = i
      BY <2>1 DEF IInv, Table, Placed
    <2>3. slot[i] \in Context
      BY <1>2, <2>1
    <2>4. CASE slot[i] = c
      <3>1. issued[t] % slot_size = i
        BY <1>3, <1>5, <2>2, <2>4
      <3>2. \A u \in Thread : launching'[u] # slot[i]
        BY <1>4, <1>5, <2>1, <2>4
      <3> QED BY <1>4, <2>4, <3>1, <3>2
    <2>5. CASE slot[i] # c
      <3>1. handle'[slot[i]] = handle[slot[i]]
        BY <1>4, <2>3, <2>5
      <3>2. CASE handle[slot[i]] % slot_size = i /\ \A u \in Thread : launching[u] # slot[i]
        <4>1. \A u \in Thread : launching'[u] # slot[i]
          BY <1>4, <2>1, <3>2
        <4> QED BY <3>1, <3>2, <4>1
      <3>3. CASE \E u \in Thread : launching[u] = slot[i] /\ issued[u] % slot_size = i
        <4>1. PICK u \in Thread : launching[u] = slot[i] /\ issued[u] % slot_size = i
          BY <3>3
        <4>2. u # t
          BY <1>3, <2>5, <4>1
        <4> QED BY <1>4, <4>1, <4>2
      <3> QED BY <2>2, <3>2, <3>3
    <2> QED BY <2>4, <2>5
  <1>10. Divides' /\ Full'
    BY <1>1 DEF IInv, Table, Divides, Full
  <1>11. \A d : InTable(d)' = InTable(d)
    BY <1>1 DEF InTable
  <1>12. \A u \in Thread : c \notin targets[u] /\ targets[u] \subseteq Context
    BY <1>3, <1>6 DEF IInv, Passes, TypeOK
  <1>13. Passes'
    <2>1. SUFFICES ASSUME NEW u \in Thread
                   PROVE  /\ all[u] = None \/ all[u] <= slot_size
                          /\ found[u] # 0 => all[u] < slot_size
                          /\ \A d \in targets[u] :
                               /\ InTable(d) => handle'[d] # 0 /\ \A v \in Thread : launching'[v] # d
                               /\ found[u] # 0 /\ slot[all[u]] = d => handle'[d] = found[u]
      BY <1>1, <1>11 DEF Passes, None
    <2>2. \A d \in targets[u] : handle'[d] = handle[d] /\ d \in Context
      BY <1>4, <1>12
    <2>3. \A d \in targets[u] : InTable(d) => handle[d] # 0 /\ \A v \in Thread : launching[v] # d
      BY DEF IInv, Passes
    <2>4. \A d \in targets[u] : InTable(d) => \A v \in Thread : launching'[v] # d
      BY <1>2, <1>4, <2>2, <2>3
    <2> QED BY <2>2, <2>3, <2>4 DEF IInv, Passes
  <1>14. RetireAllMissesNone'
    <2>1. SUFFICES ASSUME NEW u \in Thread, all[u] # None, NEW d \in targets[u],
                          InTable(d), handle'[d] # 0
                   PROVE  \E i \in DOMAIN slot : slot[i] = d /\ i >= all[u]
      BY <1>1, <1>11 DEF RetireAllMissesNone, None
    <2>2. handle'[d] = handle[d]
      BY <1>4, <1>12
    <2> QED BY <2>1, <2>2 DEF IInv, RetireAllMissesNone
  <1> QED BY <1>7, <1>8, <1>9, <1>10, <1>13, <1>14 DEF Core, Table

\* A retirement, with what it leaves of the table and of every slot.
LEMMA RetireTable ==
  ASSUME IInv, NEW h \in 1..(Handles - 1), RetireHandle(h), ~ aborted,
         UNCHANGED <<slot_size, handle_index, handle, launching, issued, targets, aborted>>
  PROVE  /\ Table'
         /\ name' \in Seq(Entries)
         /\ slot' \in [0..(slot_size - 1) -> Context \cup {NULL}]
         /\ \A i \in 0..(slot_size - 1) : slot'[i] # NULL => slot'[i] = slot[i] /\ handle[slot[i]] # h
         /\ \A d \in Context : InTable(d)' => InTable(d) /\ handle[d] # h
         /\ \A i \in 0..(slot_size - 1), d \in Context : slot[i] = d /\ InTable(d)' => slot'[i] = d
  <1>0. TypeOK /\ Table
    BY DEF IInv
  <1>1. /\ name' \in Seq(Entries)
        /\ slot' \in [0..(slot_size - 1) -> Context \cup {NULL}]
        /\ \A i \in 0..(slot_size - 1) :
             IF slot[i] # NULL /\ handle[slot[i]] = h THEN slot'[i] = NULL ELSE slot'[i] = slot[i]
    BY <1>0, RetireFacts
  <1>2. NULL \notin Context /\ h # 0
    BY <1>0, TableTypes
  <1>3. \A i \in 0..(slot_size - 1) : slot'[i] # NULL => slot'[i] = slot[i] /\ handle[slot[i]] # h
    BY <1>1
  <1>4. ASSUME NEW d \in Context, InTable(d)' PROVE InTable(d) /\ handle[d] # h
    <2>1. PICK i \in 0..(slot_size - 1) : slot'[i] = d
      BY <1>1, <1>4 DEF InTable
    <2>2. slot[i] = d /\ handle[d] # h
      BY <1>2, <1>3, <2>1
    <2> QED BY <1>0, <2>2, OneSlot
  <1>5. ASSUME NEW i \in 0..(slot_size - 1), NEW d \in Context, slot[i] = d, InTable(d)'
        PROVE  slot'[i] = d
    BY <1>1, <1>4, <1>5
  <1>6. Launches'
    <2>1. SUFFICES ASSUME NEW t \in Thread, launching[t] # NULL
                   PROVE  /\ handle[launching[t]] = 0
                          /\ slot'[issued[t] % slot_size] = launching[t]
                          /\ \A u \in Thread : launching[u] = launching[t] => u = t
      BY DEF Launches
    <2>2. /\ handle[launching[t]] = 0 /\ slot[issued[t] % slot_size] = launching[t]
          /\ \A u \in Thread : launching[u] = launching[t] => u = t
      BY <2>1 DEF IInv, Table, Launches
    <2>3. issued[t] % slot_size \in 0..(slot_size - 1)
      <3>1. issued[t] \in Nat /\ slot_size \in Nat \ {0}
        BY <1>0, TableTypes
      <3> QED BY <3>1, ModType
    <2> QED BY <1>1, <1>2, <2>2, <2>3
  <1>7. Placed'
    BY <1>3 DEF IInv, Table, Placed
  <1>8. Divides' /\ Full'
    BY DEF IInv, Table, Divides, Full
  <1> QED BY <1>1, <1>3, <1>4, <1>5, <1>6, <1>7, <1>8 DEF Table

\* KILL and EXIT.
LEMMA RetireStep ==
  ASSUME IInv, NEW t \in Thread, NEW h \in 1..(Handles - 1), Retire(t, h)
  PROVE  Core'
  <1>1. /\ RetireHandle(h) /\ ~ aborted
        /\ UNCHANGED <<slot_size, handle_index, handle, launching, issued, targets, aborted>>
        /\ UNCHANGED <<all, found, retired>>
    BY DEF Retire, Free, allVars
  <1>2. /\ Table'
        /\ name' \in Seq(Entries)
        /\ slot' \in [0..(slot_size - 1) -> Context \cup {NULL}]
        /\ \A i \in 0..(slot_size - 1) : slot'[i] # NULL => slot'[i] = slot[i] /\ handle[slot[i]] # h
        /\ \A d \in Context : InTable(d)' => InTable(d) /\ handle[d] # h
        /\ \A i \in 0..(slot_size - 1), d \in Context : slot[i] = d /\ InTable(d)' => slot'[i] = d
    BY <1>1, RetireTable
  <1>3. TypeOK'
    BY <1>1, <1>2 DEF IInv, TypeOK, Entries
  <1>4. /\ \A u \in Thread : targets[u] \subseteq Context
        /\ all \in [Thread -> 0..(Handles + 1)]
        /\ slot \in [0..(slot_size - 1) -> Context \cup {NULL}] /\ slot_size \in Nat
        /\ NULL \notin Context
    BY TableTypes DEF IInv, TypeOK
  <1>5. Passes'
    <2>1. SUFFICES ASSUME NEW u \in Thread
                   PROVE  /\ all[u] = None \/ all[u] <= slot_size
                          /\ found[u] # 0 => all[u] < slot_size
                          /\ \A d \in targets[u] :
                               /\ InTable(d)' => handle[d] # 0 /\ \A v \in Thread : launching[v] # d
                               /\ found[u] # 0 /\ slot'[all[u]] = d => handle[d] = found[u]
      BY <1>1 DEF Passes, None
    <2>2. /\ all[u] = None \/ all[u] <= slot_size
          /\ found[u] # 0 => all[u] < slot_size
          /\ \A d \in targets[u] :
               /\ InTable(d) => handle[d] # 0 /\ \A v \in Thread : launching[v] # d
               /\ found[u] # 0 /\ slot[all[u]] = d => handle[d] = found[u]
      BY DEF IInv, Passes
    <2>3. ASSUME NEW d \in targets[u], found[u] # 0, slot'[all[u]] = d PROVE handle[d] = found[u]
      <3>1. all[u] \in 0..(slot_size - 1)
        BY <1>4, <2>2, <2>3
      <3> QED BY <1>2, <1>4, <2>2, <2>3, <3>1
    <2> QED BY <1>2, <1>4, <2>2, <2>3
  <1>6. RetireAllMissesNone'
    <2>1. SUFFICES ASSUME NEW u \in Thread, all[u] # None, NEW d \in targets[u],
                          InTable(d)', handle[d] # 0
                   PROVE  \E i \in 0..(slot_size - 1) : slot'[i] = d /\ i >= all[u]
      BY <1>1, <1>2 DEF RetireAllMissesNone, None
    <2>2. InTable(d) /\ d \in Context
      BY <1>2, <1>4, <2>1
    <2>3. PICK i \in 0..(slot_size - 1) : slot[i] = d /\ i >= all[u]
      BY <1>4, <2>1, <2>2 DEF IInv, RetireAllMissesNone
    <2> QED BY <1>2, <2>1, <2>2, <2>3
  <1> QED BY <1>2, <1>3, <1>5, <1>6 DEF Core

\* The service that a pass found is retired by its handle: no service of the
\* pass is left in the slot, so none is passed over.
LEMMA RetireFoundStep ==
  ASSUME IInv, NEW t \in Thread, RetireFound(t)
  PROVE  Core'
  <1>1. /\ RetireHandle(found[t]) /\ ~ aborted /\ found[t] # 0
        /\ UNCHANGED <<slot_size, handle_index, handle, launching, issued, targets, aborted>>
        /\ found' = [found EXCEPT ![t] = 0]
        /\ all' = [all EXCEPT ![t] = @ + 1]
        /\ retired' = [retired EXCEPT ![t] = @ \/ Grabbed(found[t]) # NULL]
    BY DEF RetireFound
  <1>2. /\ \A u \in Thread : targets[u] \subseteq Context
        /\ all \in [Thread -> 0..(Handles + 1)] /\ found \in [Thread -> 0..(Handles - 1)]
        /\ retired \in [Thread -> BOOLEAN]
        /\ slot \in [0..(slot_size - 1) -> Context \cup {NULL}]
        /\ slot_size \in Nat \ {0} /\ slot_size <= Handles /\ Handles \in Nat \ {0}
        /\ NULL \notin Context
    BY TableTypes DEF IInv, TypeOK
  <1>3. PICK h \in 1..(Handles - 1) : h = found[t]
    BY <1>1, <1>2
  <1>4. /\ Table'
        /\ name' \in Seq(Entries)
        /\ slot' \in [0..(slot_size - 1) -> Context \cup {NULL}]
        /\ \A i \in 0..(slot_size - 1) : slot'[i] # NULL => slot'[i] = slot[i] /\ handle[slot[i]] # h
        /\ \A d \in Context : InTable(d)' => InTable(d) /\ handle[d] # h
        /\ \A i \in 0..(slot_size - 1), d \in Context : slot[i] = d /\ InTable(d)' => slot'[i] = d
    BY <1>1, <1>3, RetireTable
  <1>5. ASSUME NEW u \in Thread
        PROVE  /\ all[u] = None \/ all[u] <= slot_size
               /\ found[u] # 0 => all[u] < slot_size
               /\ \A d \in targets[u] :
                    /\ InTable(d) => handle[d] # 0 /\ \A v \in Thread : launching[v] # d
                    /\ found[u] # 0 /\ slot[all[u]] = d => handle[d] = found[u]
    BY DEF IInv, Passes
  <1>6. /\ all[t] \in 0..(slot_size - 1) /\ all'[t] = all[t] + 1 /\ found'[t] = 0
        /\ \A u \in Thread : u # t => all'[u] = all[u] /\ found'[u] = found[u]
    BY <1>1, <1>2, <1>5
  <1>7. TypeOK'
    <2>1. all' \in [Thread -> 0..(Handles + 1)] /\ found' \in [Thread -> 0..(Handles - 1)]
      BY <1>1, <1>2, <1>6
    <2>2. retired' \in [Thread -> BOOLEAN]
      BY <1>1, <1>2, Zenon
    <2> QED BY <1>1, <1>4, <2>1, <2>2 DEF IInv, TypeOK, Entries
  <1>8. Passes'
    <2>1. SUFFICES ASSUME NEW u \in Thread
                   PROVE  /\ all'[u] = None \/ all'[u] <= slot_size
                          /\ found'[u] # 0 => all'[u] < slot_size
                          /\ \A d \in targets[u] :
                               /\ InTable(d)' => handle[d] # 0 /\ \A v \in Thread : launching[v] # d
                               /\ found'[u] # 0 /\ slot'[all'[u]] = d => handle[d] = found'[u]
      BY <1>1 DEF Passes, None
    <2>2. \A d \in targets[u] : InTable(d)' => handle[d] # 0 /\ \A v \in Thread : launching[v] # d
      BY <1>2, <1>4, <1>5
    <2>3. CASE u = t
      BY <1>2, <1>6, <2>2, <2>3
    <2>4. CASE u # t
      <3>1. ASSUME NEW d \in targets[u], found[u] # 0, slot'[all[u]] = d PROVE handle[d] = found[u]
        <4>1. all[u] \in 0..(slot_size - 1)
          BY <1>2, <1>5, <3>1
        <4> QED BY <1>2, <1>4, <1>5, <3>1, <4>1
      <3> QED BY <1>5, <1>6, <2>2, <2>4, <3>1
    <2> QED BY <2>3, <2>4
  <1>9. RetireAllMissesNone'
    <2>1. SUFFICES ASSUME NEW u \in Thread, all'[u] # None, NEW d \in targets[u],
                          InTable(d)', handle[d] # 0
                   PROVE  \E i \in 0..(slot_size - 1) : slot'[i] = d /\ i >= all'[u]
      BY <1>1, <1>4 DEF RetireAllMissesNone, None
    <2>2. InTable(d) /\ d \in Context /\ handle[d] # h
      BY <1>2, <1>4, <2>1
    <2>3. all[u] # None
      BY <1>2, <1>6, <2>1 DEF None
    <2>4. PICK i \in 0..(slot_size - 1) : slot[i] = d /\ i >= all[u]
      BY <1>2, <2>1, <2>2, <2>3 DEF IInv, RetireAllMissesNone
    <2>5. slot'[i] = d
      BY <1>4, <2>1, <2>2, <2>4
    <2>6. u = t => i # all[t]
      BY <1>1, <1>3, <1>5, <2>2, <2>4
    <2>7. i >= all'[u]
      BY <1>2, <1>6, <2>4, <2>6
    <2> QED BY <2>5, <2>7
  <1> QED BY <1>4, <1>7, <1>8, <1>9 DEF Core

\* A step that leaves the slots and the handles alone.
LEMMA TableStays ==
  ASSUME Table, UNCHANGED <<slot_size, slot, handle, launching, issued, aborted>>
  PROVE  Table' /\ \A d : InTable(d)' = InTable(d)
  <1>1. Divides' /\ Full'
    BY DEF Table, Divides, Full
  <1>2. Launches' /\ Placed'
    BY DEF Table, Launches, Placed
  <1> QED BY <1>1, <1>2 DEF Table, InTable

\* A pass begins with all services, none of which is being launched.
LEMMA StartKeeps ==
  ASSUME IInv, NEW t \in Thread, StartPass(t),
         UNCHANGED <<tableVars, handle, launching, issued, aborted>>
  PROVE  Core'
  <1>1. /\ all' = [all EXCEPT ![t] = 0] /\ found' = [found EXCEPT ![t] = 0]
        /\ retired' = [retired EXCEPT ![t] = FALSE]
        /\ targets' = [targets EXCEPT ![t] = Services]
        /\ UNCHANGED <<slot_size, slot, handle_index, name, handle, launching, issued, aborted>>
    BY DEF StartPass, tableVars
  <1>2. /\ targets \in [Thread -> SUBSET Context]
        /\ all \in [Thread -> 0..(Handles + 1)] /\ found \in [Thread -> 0..(Handles - 1)]
        /\ retired \in [Thread -> BOOLEAN]
        /\ slot \in [0..(slot_size - 1) -> Context \cup {NULL}]
        /\ slot_size \in Nat \ {0} /\ Handles \in Nat \ {0} /\ NULL \notin Context
    BY TableTypes DEF IInv, TypeOK
  <1>3. Table' /\ \A d : InTable(d)' = InTable(d)
    BY <1>1, TableStays DEF IInv
  <1>4. /\ all'[t] = 0 /\ found'[t] = 0 /\ targets'[t] = Services
        /\ \A u \in Thread : u # t => all'[u] = all[u] /\ found'[u] = found[u] /\ targets'[u] = targets[u]
    BY <1>1, <1>2
  <1>5. TypeOK'
    <2>1. Services \subseteq Context
      BY DEF Services
    <2>2. /\ all' \in [Thread -> 0..(Handles + 1)] /\ found' \in [Thread -> 0..(Handles - 1)]
          /\ retired' \in [Thread -> BOOLEAN] /\ targets' \in [Thread -> SUBSET Context]
      BY <1>1, <1>2, <2>1
    <2> QED BY <1>1, <2>2 DEF IInv, TypeOK
  <1>6. Passes'
    <2>1. SUFFICES ASSUME NEW u \in Thread
                   PROVE  /\ all'[u] = None \/ all'[u] <= slot_size
                          /\ found'[u] # 0 => all'[u] < slot_size
                          /\ \A d \in targets'[u] :
                               /\ InTable(d) => handle[d] # 0 /\ \A v \in Thread : launching[v] # d
                               /\ found'[u] # 0 /\ slot[all'[u]] = d => handle[d] = found'[u]
      BY <1>1, <1>3 DEF Passes, None
    <2>2. CASE u = t
      <3>1. \A d \in Services : handle[d] # 0 /\ \A v \in Thread : launching[v] # d
        <4>1. ASSUME NEW d \in Services, NEW v \in Thread PROVE handle[d] # 0 /\ launching[v] # d
          <5>1. handle[d] # 0 /\ d \in Context
            BY DEF Services
          <5>2. launching[v] # NULL => handle[launching[v]] = 0
            BY DEF IInv, Table, Launches
          <5> QED BY <1>2, <5>1, <5>2
        <4> QED BY <4>1 DEF Services
      <3> QED BY <1>2, <1>4, <2>2, <3>1
    <2>3. CASE u # t
      BY <1>4, <2>3 DEF IInv, Passes
    <2> QED BY <2>2, <2>3
  <1>7. RetireAllMissesNone'
    <2>1. SUFFICES ASSUME NEW u \in Thread, all'[u] # None, NEW d \in targets'[u],
                          InTable(d), handle[d] # 0
                   PROVE  \E i \in DOMAIN slot : slot[i] = d /\ i >= all'[u]
      BY <1>1, <1>3 DEF RetireAllMissesNone, None
    <2>2. CASE u = t
      BY <1>2, <1>4, <2>1, <2>2 DEF InTable
    <2>3. CASE u # t
      BY <1>4, <2>1, <2>3 DEF IInv, RetireAllMissesNone
    <2> QED BY <2>2, <2>3
  <1> QED BY <1>3, <1>5, <1>6, <1>7 DEF Core

LEMMA RetireAllStep ==
  ASSUME IInv, NEW t \in Thread, RetireAll(t)
  PROVE  Core'
  BY StartKeeps DEF RetireAll

\* An empty slot, or one whose context has no handle yet, is passed over: it
\* holds no service of the pass.
LEMMA LookStep ==
  ASSUME IInv, NEW t \in Thread, LookAtSlot(t)
  PROVE  Core'
  <1> DEFINE c == slot[all[t]]
             h == IF c = NULL THEN 0 ELSE handle[c]
  <1>1. /\ all[t] # None /\ found[t] = 0 /\ all[t] < slot_size
        /\ found' = [found EXCEPT ![t] = h]
        /\ all' = IF h = 0 THEN [all EXCEPT ![t] = @ + 1] ELSE all
        /\ UNCHANGED <<slot_size, slot, handle_index, name, handle, launching, issued, retired,
                       targets, aborted>>
    BY DEF LookAtSlot, tableVars
  <1>2. /\ targets \in [Thread -> SUBSET Context]
        /\ all \in [Thread -> 0..(Handles + 1)] /\ found \in [Thread -> 0..(Handles - 1)]
        /\ slot \in [0..(slot_size - 1) -> Context \cup {NULL}]
        /\ handle \in [Context -> 0..(Handles - 1)]
        /\ slot_size \in Nat \ {0} /\ slot_size <= Handles /\ Handles \in Nat \ {0}
        /\ NULL \notin Context
    BY TableTypes DEF IInv, TypeOK
  <1>3. Table' /\ \A d : InTable(d)' = InTable(d)
    BY <1>1, TableStays DEF IInv
  <1>4. all[t] \in 0..(slot_size - 1)
    BY <1>1, <1>2
  <1>5. h \in 0..(Handles - 1)
    BY <1>2, <1>4
  <1>6. c # NULL /\ h # 0 => handle[c] = h
    OBVIOUS
  <1>7. c # NULL /\ h = 0 => handle[c] = 0
    OBVIOUS
  <1> HIDE DEF h
  <1>8. /\ found'[t] = h /\ all'[t] = IF h = 0 THEN all[t] + 1 ELSE all[t]
        /\ \A u \in Thread : u # t => all'[u] = all[u] /\ found'[u] = found[u]
    BY <1>1, <1>2
  <1>9. TypeOK'
    <2>1. found' \in [Thread -> 0..(Handles - 1)]
      BY <1>1, <1>2, <1>5
    <2>2. all' \in [Thread -> 0..(Handles + 1)]
      BY <1>1, <1>2, <1>4
    <2> QED BY <1>1, <2>1, <2>2 DEF IInv, TypeOK
  <1>10. Passes'
    <2>1. SUFFICES ASSUME NEW u \in Thread
                   PROVE  /\ all'[u] = None \/ all'[u] <= slot_size
                          /\ found'[u] # 0 => all'[u] < slot_size
                          /\ \A d \in targets[u] :
                               /\ InTable(d) => handle[d] # 0 /\ \A v \in Thread : launching[v] # d
                               /\ found'[u] # 0 /\ slot[all'[u]] = d => handle[d] = found'[u]
      BY <1>1, <1>3 DEF Passes, None
    <2>2. \A d \in targets[u] : InTable(d) => handle[d] # 0 /\ \A v \in Thread : launching[v] # d
      BY DEF IInv, Passes
    <2>3. CASE u = t
      <3>1. all'[t] <= slot_size /\ (h # 0 => all'[t] = all[t])
        BY <1>2, <1>4, <1>8
      <3>2. \A d \in targets[t] : d # NULL
        BY <1>2
      <3> QED BY <1>1, <1>6, <1>8, <2>2, <2>3, <3>1, <3>2
    <2>4. CASE u # t
      BY <1>8, <2>4 DEF IInv, Passes
    <2> QED BY <2>3, <2>4
  <1>11. RetireAllMissesNone'
    <2>1. SUFFICES ASSUME NEW u \in Thread, all'[u] # None, NEW d \in targets[u],
                          InTable(d), handle[d] # 0
                   PROVE  \E i \in DOMAIN slot : slot[i] = d /\ i >= all'[u]
      BY <1>1, <1>3 DEF RetireAllMissesNone, None
    <2>2. all[u] # None
      BY <1>1, <1>8, <2>1
    <2>3. PICK i \in DOMAIN slot : slot[i] = d /\ i >= all[u]
      BY <2>1, <2>2 DEF IInv, RetireAllMissesNone
    <2>4. d # NULL /\ i \in Nat
      BY <1>2
    <2>5. u = t /\ h = 0 => i # all[t]
      BY <1>7, <2>1, <2>3, <2>4
    <2>6. i >= all'[u]
      BY <1>2, <1>4, <1>8, <2>3, <2>4, <2>5
    <2> QED BY <2>3, <2>6
  <1> QED BY <1>3, <1>9, <1>10, <1>11 DEF Core

\* The last pass forgets its targets.
LEMMA EndStep ==
  ASSUME IInv, NEW t \in Thread, EndPass(t)
  PROVE  Core'
  <1>1. CASE retired[t]
    BY <1>1, StartKeeps DEF EndPass
  <1>2. CASE ~ retired[t]
    <2>1. /\ all' = [all EXCEPT ![t] = None] /\ targets' = [targets EXCEPT ![t] = {}]
          /\ found[t] = 0
          /\ UNCHANGED <<slot_size, slot, handle_index, name, handle, launching, issued, found,
                         retired, aborted>>
      BY <1>2 DEF EndPass, tableVars
    <2>2. /\ targets \in [Thread -> SUBSET Context] /\ all \in [Thread -> 0..(Handles + 1)]
          /\ Handles \in Nat
      BY TableTypes DEF IInv, TypeOK
    <2>3. Table' /\ \A d : InTable(d)' = InTable(d)
      BY <2>1, TableStays DEF IInv
    <2>4. /\ all'[t] = None /\ targets'[t] = {}
          /\ \A u \in Thread : u # t => all'[u] = all[u] /\ targets'[u] = targets[u]
      BY <2>1, <2>2
    <2>5. TypeOK'
      <3>1. all' \in [Thread -> 0..(Handles + 1)] /\ targets' \in [Thread -> SUBSET Context]
        BY <2>1, <2>2 DEF None
      <3> QED BY <2>1, <3>1 DEF IInv, TypeOK
    <2>6. Passes'
      <3>1. SUFFICES ASSUME NEW u \in Thread
                     PROVE  /\ all'[u] = None \/ all'[u] <= slot_size
                            /\ found[u] # 0 => all'[u] < slot_size
                            /\ \A d \in targets'[u] :
                                 /\ InTable(d) => handle[d] # 0 /\ \A v \in Thread : launching[v] # d
                                 /\ found[u] # 0 /\ slot[all'[u]] = d => handle[d] = found[u]
        BY <2>1, <2>3 DEF Passes, None
      <3> QED BY <2>1, <2>4 DEF IInv, Passes
    <2>7. RetireAllMissesNone'
      <3>1. SUFFICES ASSUME NEW u \in Thread, all'[u] # None, NEW d \in targets'[u],
                            InTable(d), handle[d] # 0
                     PROVE  \E i \in DOMAIN slot : slot[i] = d /\ i >= all'[u]
        BY <2>1, <2>3 DEF RetireAllMissesNone, None
      <3> QED BY <2>4, <3>1 DEF IInv, RetireAllMissesNone
    <2> QED BY <2>3, <2>5, <2>6, <2>7 DEF Core
  <1> QED BY <1>1, <1>2

\* Names do not touch the table.
LEMMA NameHandleStep ==
  ASSUME IInv, Sorted, NEW t \in Thread, NEW h \in 1..(Handles - 1), NEW n \in Name,
         NameHandle(t, h, n)
  PROVE  Core'
  <1>1. /\ ~ Search(n).found
        /\ name' = InsertName([name |-> n, handle |-> h], Search(n).at)
        /\ UNCHANGED <<slot_size, slot, handle_index, handle, launching, issued, all, found,
                       retired, targets, aborted>>
    BY DEF NameHandle, allVars
  <1>2. NameType
    BY DEF IInv, TypeOK, NameType, Entries
  <1>3. name' \in Seq(Entries)
    BY <1>1, <1>2, InsertFacts
  <1>4. TypeOK'
    BY <1>1, <1>3 DEF IInv, TypeOK, Entries
  <1>5. Table'
    BY <1>1, TableStays DEF IInv
  <1>6. Passes' /\ RetireAllMissesNone'
    BY <1>1 DEF IInv, Passes, RetireAllMissesNone, InTable, None
  <1> QED BY <1>4, <1>5, <1>6 DEF Core

LEMMA Stutters ==
  ASSUME IInv, UNCHANGED vars
  PROVE  Core'
  <1>1. UNCHANGED <<slot_size, slot, handle_index, name, handle, launching, issued, all, found,
                    retired, targets, aborted>>
    BY DEF vars
  <1>2. Table'
    BY <1>1, TableStays DEF IInv
  <1>3. TypeOK'
    BY <1>1 DEF IInv, TypeOK
  <1>4. Passes' /\ RetireAllMissesNone'
    BY <1>1 DEF IInv, Passes, RetireAllMissesNone, InTable, None
  <1> QED BY <1>2, <1>3, <1>4 DEF Core

-----------------------------------------------------------------------------
(* The theorems                                                            *)

Strong == IInv /\ Sorted

LEMMA Begins == Init => Strong
  <1> SUFFICES ASSUME Init PROVE Strong
    OBVIOUS
  <1>1. /\ DEFAULT_SLOT_SIZE \in Nat \ {0} /\ Handles \in Nat \ {0}
        /\ Handles % DEFAULT_SLOT_SIZE = 0 /\ NULL \notin Context
    BY HandleAssumption
  <1>2. DEFAULT_SLOT_SIZE <= Handles
    <2>1. PICK q \in Nat, r \in 0..(DEFAULT_SLOT_SIZE - 1) :
            Handles = q * DEFAULT_SLOT_SIZE + r /\ r = Handles % DEFAULT_SLOT_SIZE
      BY <1>1, Divided
    <2>2. Handles = q * DEFAULT_SLOT_SIZE /\ q # 0
      BY <1>1, <2>1
    <2>3. q >= 1 => q * DEFAULT_SLOT_SIZE >= DEFAULT_SLOT_SIZE
      BY <1>1
    <2> QED BY <2>1, <2>2, <2>3
  <1>3. TypeOK
    <2>1. /\ slot_size \in 1..Handles /\ slot \in [0..(slot_size - 1) -> Context \cup {NULL}]
          /\ handle_index \in 0..Handles
      BY <1>1, <1>2 DEF Init
    <2>2. name \in Seq([name : Name, handle : 1..(Handles - 1)])
      BY DEF Init
    <2>3. /\ handle \in [Context -> 0..(Handles - 1)]
          /\ launching \in [Thread -> Context \cup {NULL}] /\ issued \in [Thread -> 0..(Handles - 1)]
          /\ all \in [Thread -> 0..(Handles + 1)] /\ found \in [Thread -> 0..(Handles - 1)]
      BY <1>1 DEF Init, None
    <2>4. retired \in [Thread -> BOOLEAN] /\ targets \in [Thread -> SUBSET Context] /\ aborted \in BOOLEAN
      BY DEF Init
    <2> QED BY <2>1, <2>2, <2>3, <2>4 DEF TypeOK
  <1>4. Table
    BY <1>1 DEF Init, Table, Divides, Launches, Placed, Full
  <1>5. Passes /\ RetireAllMissesNone /\ Sorted
    BY DEF Init, Passes, RetireAllMissesNone, Sorted
  <1> QED BY <1>3, <1>4, <1>5 DEF Strong, IInv

\* Every step but a doubling amid a launch keeps the invariant.
LEMMA Continues == Strong /\ [Next]_vars /\ [CalmStep]_vars => Strong'
  <1> SUFFICES ASSUME Strong, [Next]_vars, [CalmStep]_vars PROVE Strong'
    OBVIOUS
  <1>1. IInv /\ Sorted /\ NameType
    BY DEF Strong, IInv, TypeOK, NameType, Entries
  <1>2. Sorted'
    BY <1>1, NameStep
  <1>3. Core'
    <2>1. CASE UNCHANGED vars
      BY <1>1, <2>1, Stutters
    <2>2. CASE Next /\ CalmStep
      <3>1. PICK t \in Thread :
              \/ \E c \in Context : Register(t, c)
              \/ AssignHandle(t)
              \/ \E h \in 1..(Handles - 1) : Retire(t, h)
              \/ RetireAll(t) \/ LookAtSlot(t) \/ RetireFound(t) \/ EndPass(t)
              \/ \E h \in 1..(Handles - 1), n \in Name : NameHandle(t, h, n)
        BY <2>2 DEF Next
      <3> QED BY <1>1, <2>2, <3>1, RegisterStep, AssignStep, RetireStep, RetireAllStep, LookStep,
                 RetireFoundStep, EndStep, NameHandleStep
    <2> QED BY <2>1, <2>2
  <1> QED BY <1>2, <1>3 DEF Core, Strong, IInv

\* While no doubling falls into a launch, the invariant holds.
THEOREM Invariant == Spec /\ Calm => []Strong
  BY Begins, Continues, PTL DEF Spec, Calm

\* Every variable has its type.
THEOREM TypeCorrect == Spec /\ Calm => []TypeOK
  BY Invariant, PTL DEF Strong, IInv

\* skynet_handle_grab finds every service by its handle.
THEOREM ServicesFindable == Spec /\ Calm => []Findable
  <1>1. Strong => Findable
    BY TableFindable DEF Strong, IInv
  <1> QED BY <1>1, Invariant, PTL

\* skynet_handle_retireall passes over no service.
THEOREM RetireAllSeesAll == Spec /\ Calm => []RetireAllMissesNone
  <1>1. Strong => RetireAllMissesNone
    BY DEF Strong, IInv
  <1> QED BY <1>1, Invariant, PTL

\* Services do not collide when the table doubles: an assertion of
\* skynet_handle_register fails only when every handle is in use.
THEOREM GivesUpOnlyWhenFull == Spec /\ Calm => []Full
  <1>1. Strong => Full
    BY DEF Strong, IInv, Table
  <1> QED BY <1>1, Invariant, PTL

\* One thread that launches at a time, as the launcher service does, is enough.
THEOREM OneLauncherIsCalm ==
  ASSUME \A t, u \in Registrar : t = u
  PROVE  Spec => Calm
  <1> DEFINE Only == \A t \in Thread : launching[t] # NULL => t \in Registrar
             Fun  == launching \in [Thread -> Context \cup {NULL}]
  <1>1. Init => Only /\ Fun
    BY DEF Init
  <1>2. Only /\ Fun /\ [Next]_vars => (Only /\ Fun)' /\ [CalmStep]_vars
    <2> SUFFICES ASSUME Only, Fun, Next PROVE Only' /\ Fun' /\ CalmStep
      <3>1. UNCHANGED vars => (Only' <=> Only) /\ (Fun' <=> Fun)
        BY DEF vars
      <3> QED BY <3>1
    <2>1. PICK t \in Thread :
            \/ \E c \in Context : Register(t, c)
            \/ AssignHandle(t)
            \/ \E h \in 1..(Handles - 1) : Retire(t, h)
            \/ RetireAll(t) \/ LookAtSlot(t) \/ RetireFound(t) \/ EndPass(t)
            \/ \E h \in 1..(Handles - 1), n \in Name : NameHandle(t, h, n)
      BY DEF Next
    <2>2. ASSUME NEW c \in Context, Register(t, c) PROVE Only' /\ Fun' /\ CalmStep
      <3>1. t \in Registrar /\ launching[t] = NULL
        BY <2>2 DEF Register, Free
      <3>2. launching' = launching \/ launching' = [launching EXCEPT ![t] = c]
        BY <2>2 DEF Register, Place
      <3>3. \A u \in Thread : launching[u] = NULL
        BY <3>1
      <3>4. Only' /\ Fun'
        BY <3>1, <3>2
      <3> QED BY <3>3, <3>4 DEF CalmStep
    <2>3. CASE AssignHandle(t)
      <3>1. launching' = [launching EXCEPT ![t] = NULL] /\ slot_size' = slot_size /\ aborted' = aborted
        BY <2>3 DEF AssignHandle, tableVars
      <3> QED BY <3>1 DEF CalmStep
    <2>4. CASE \/ \E h \in 1..(Handles - 1) : Retire(t, h)
               \/ RetireAll(t) \/ LookAtSlot(t) \/ RetireFound(t) \/ EndPass(t)
               \/ \E h \in 1..(Handles - 1), n \in Name : NameHandle(t, h, n)
      <3>1. UNCHANGED <<launching, slot_size, aborted>>
        BY <2>4 DEF Retire, RetireAll, LookAtSlot, RetireFound, EndPass, NameHandle, tableVars
      <3> QED BY <3>1 DEF CalmStep
    <2> QED BY <2>1, <2>2, <2>3, <2>4
  <1> HIDE DEF Only, Fun
  <1> QED BY <1>1, <1>2, PTL DEF Spec, Calm

\* With one launcher, the services are found, retireall sees them all, and the
\* table gives up only when it is full.
COROLLARY OneLauncherIsSafe ==
  ASSUME \A t, u \in Registrar : t = u
  PROVE  Spec => [](Findable /\ RetireAllMissesNone /\ Full)
  <1>1. Spec => Calm
    BY OneLauncherIsCalm
  <1> QED BY <1>1, ServicesFindable, RetireAllSeesAll, GivesUpOnlyWhenFull, PTL

-----------------------------------------------------------------------------
(* Names go with their services                                            *)

NameFollows ==
  \A e \in ToSet(name) :
    e \in ToSet(name') <=> ~ (Grabbed(e.handle) # NULL /\ Grabbed(e.handle)' = NULL)

LEMMA GrabbedIs ==
  ASSUME TypeOK, Table, NEW x \in 1..(Handles - 1), Grabbed(x) # NULL
  PROVE  /\ Grabbed(x) \in Context /\ handle[Grabbed(x)] = x
         /\ \E i \in 0..(slot_size - 1) : slot[i] = Grabbed(x)
  <1>1. slot_size \in Nat \ {0} /\ slot \in [0..(slot_size - 1) -> Context \cup {NULL}]
    BY TableTypes
  <1>2. PICK j \in 0..(slot_size - 1) : j = x % slot_size
    <2>1. PICK y \in Nat : y = x
      OBVIOUS
    <2> QED BY <1>1, <2>1, ModType
  <1>3. Grabbed(x) = slot[j] /\ slot[j] # NULL /\ handle[slot[j]] = x
    BY <1>2 DEF Grabbed
  <1> QED BY <1>1, <1>3

\* A registration moves services, but it loses none.
LEMMA RegisterLosesNone ==
  ASSUME Strong, NEW t \in Thread, NEW c \in Context, Register(t, c), CalmStep,
         NEW d \in Context, handle[d] # 0, NEW i \in 0..(slot_size - 1), slot[i] = d
  PROVE  InTable(d)' /\ handle'[d] = handle[d]
  <1>0. TypeOK /\ Table
    BY DEF Strong, IInv
  <1>1. /\ ~ InTable(c) /\ handle' = [handle EXCEPT ![c] = 0]
    BY DEF Register
  <1>2. /\ slot_size \in Nat \ {0} /\ slot \in [0..(slot_size - 1) -> Context \cup {NULL}]
        /\ handle \in [Context -> 0..(Handles - 1)] /\ NULL \notin Context
    BY <1>0, TableTypes
  <1>3. d # c /\ handle'[d] = handle[d]
    BY <1>1, <1>2 DEF InTable
  <1>4. CASE UNCHANGED <<slot_size, slot, handle_index, issued, launching>>
    BY <1>2, <1>3, <1>4 DEF InTable
  <1>5. ASSUME NEW sl, NEW size, Rehoused(sl, size), Open(sl, size) # {}, Place(t, c, sl, size)
        PROVE  InTable(d)'
    <2>1. size \in Nat \ {0} /\ sl \in [0..(size - 1) -> Context \cup {NULL}]
      BY <1>5 DEF Rehoused
    <2>2. PICK h \in 0..(Handles - 1) :
             sl[h % size] = NULL /\ slot' = [sl EXCEPT ![h % size] = c]
      BY <1>0, <1>5, <2>1, PlaceFacts
    <2>3. PICK k \in 0..(size - 1) : sl[k] = d
      BY <1>2, <1>5 DEF Rehoused
    <2>4. slot'[k] = d /\ k \in DOMAIN slot'
      BY <1>2, <2>1, <2>2, <2>3
    <2> QED BY <2>4 DEF InTable
  <1> QED BY <1>0, <1>3, <1>4, <1>5, RegisterFacts

\* The step of a retirement.
LEMMA RetireTakesNames ==
  ASSUME Strong, NEW h \in 1..(Handles - 1), RetireHandle(h), UNCHANGED <<slot_size, handle>>
  PROVE  NameFollows
  <1>0. TypeOK /\ Table /\ NameType
    BY DEF Strong, IInv, TypeOK, NameType, Entries
  <1>1. name \in Seq(Entries)
    BY <1>0 DEF NameType
  <1>2. CASE Grabbed(h) = NULL
    <2>1. UNCHANGED <<slot, name, slot_size, handle>>
      BY <1>2 DEF RetireHandle
    <2> QED BY <2>1 DEF NameFollows, Grabbed
  <1>3. CASE Grabbed(h) # NULL
    <2>1. name' = Unnamed(h) /\ slot' = [slot EXCEPT ![h % slot_size] = NULL]
      BY <1>3 DEF RetireHandle
    <2>2. SUFFICES ASSUME NEW e \in ToSet(name)
                   PROVE  e \in ToSet(name')
                            <=> ~ (Grabbed(e.handle) # NULL /\ Grabbed(e.handle)' = NULL)
      BY DEF NameFollows
    <2>3. PICK m \in 1..Len(name) : e = name[m]
      BY <1>1 DEF ToSet
    <2>4. e \in Entries
      BY <1>1, <2>3
    <2>5. name' \in Seq(Entries)
      BY <1>0, <2>1, UnnamedFacts
    <2>6. e \in ToSet(name') <=> e.handle # h
      <3>1. (\E i \in 1..Len(name') : name'[i] = e)
              <=> e.handle # h /\ \E i \in 1..Len(name) : name[i] = e
        BY <1>0, <2>1, <2>4, UnnamedFacts
      <3>2. e \in ToSet(name') <=> \E i \in 1..Len(name') : name'[i] = e
        BY <2>5 DEF ToSet
      <3> QED BY <2>3, <3>1, <3>2
    <2>7. /\ slot_size \in Nat \ {0} /\ slot \in [0..(slot_size - 1) -> Context \cup {NULL}]
          /\ NULL \notin Context
      BY <1>0, TableTypes
    <2>8. CASE e.handle = h
      <3>1. slot'[h % slot_size] = NULL
        <4>1. PICK x \in Nat, size \in Nat \ {0} : x = h /\ size = slot_size
          BY <2>7
        <4>2. x % size \in 0..(size - 1)
          BY ModType
        <4> QED BY <2>1, <2>7, <4>1, <4>2
      <3>2. Grabbed(h)' = NULL
        BY <3>1 DEF Grabbed
      <3> QED BY <1>3, <2>6, <2>8, <3>2
    <2>9. CASE e.handle # h
      <3>1. PICK x \in 1..(Handles - 1) : x = e.handle
        BY <2>4 DEF Entries
      <3>2. ASSUME Grabbed(x) # NULL PROVE Grabbed(x)' # NULL
        <4>1. PICK i \in 0..(slot_size - 1) : i = x % slot_size
          <5>1. PICK y \in Nat : y = x
            OBVIOUS
          <5> QED BY <2>7, <5>1, ModType
        <4>2. slot[i] # NULL /\ handle[slot[i]] = x
          BY <3>2, <4>1 DEF Grabbed
        <4>3. handle[slot[i]] # h
          BY <2>9, <3>1, <4>2
        <4>4. slot'[i] = slot[i]
          BY <1>0, <4>2, <4>3, RetireFacts
        <4> QED BY <4>1, <4>2, <4>4 DEF Grabbed
      <3> QED BY <2>6, <2>9, <3>1, <3>2
    <2> QED BY <2>8, <2>9
  <1> QED BY <1>2, <1>3

\* A step that keeps names and services.
LEMMA NamesKept ==
  ASSUME Strong, Findable', ToSet(name) \subseteq ToSet(name'),
         \A d \in Context, i \in 0..(slot_size - 1) :
           slot[i] = d /\ handle[d] # 0 => InTable(d)' /\ handle'[d] = handle[d]
  PROVE  NameFollows
  <1>1. TypeOK /\ Table /\ name \in Seq(Entries)
    BY DEF Strong, IInv, TypeOK, Entries
  <1>2. SUFFICES ASSUME NEW e \in ToSet(name), Grabbed(e.handle) # NULL
                 PROVE  Grabbed(e.handle)' # NULL
    BY DEF NameFollows
  <1>3. PICK x \in 1..(Handles - 1) : x = e.handle
    <2>1. e \in Entries
      BY <1>1 DEF ToSet
    <2> QED BY <2>1 DEF Entries
  <1>4. PICK d \in Context : d = Grabbed(x) /\ handle[d] = x /\ \E i \in 0..(slot_size - 1) : slot[i] = d
    BY <1>1, <1>2, <1>3, GrabbedIs
  <1>5. InTable(d)' /\ handle'[d] = x
    BY <1>4
  <1>6. Grabbed(x)' = d
    BY <1>5 DEF Findable, Services
  <1>7. d # NULL
    BY <1>1, TableTypes
  <1> QED BY <1>3, <1>6, <1>7

LEMMA NameFollowsStep ==
  ASSUME Strong, Findable', Next, CalmStep
  PROVE  NameFollows
  <1>0. TypeOK /\ Table /\ NameType /\ name \in Seq(Entries) /\ Sorted
    BY DEF Strong, IInv, TypeOK, NameType, Entries
  <1>1. PICK t \in Thread :
          \/ \E c \in Context : Register(t, c)
          \/ AssignHandle(t)
          \/ \E h \in 1..(Handles - 1) : Retire(t, h)
          \/ RetireAll(t) \/ LookAtSlot(t) \/ RetireFound(t) \/ EndPass(t)
          \/ \E h \in 1..(Handles - 1), n \in Name : NameHandle(t, h, n)
    BY DEF Next
  <1>2. /\ slot_size \in Nat \ {0} /\ slot \in [0..(slot_size - 1) -> Context \cup {NULL}]
        /\ handle \in [Context -> 0..(Handles - 1)] /\ NULL \notin Context
    BY <1>0, TableTypes
  <1>3. ASSUME NEW c \in Context, Register(t, c) PROVE NameFollows
    <2>1. name' = name
      BY <1>3 DEF Register
    <2>2. \A d \in Context, i \in 0..(slot_size - 1) :
            slot[i] = d /\ handle[d] # 0 => InTable(d)' /\ handle'[d] = handle[d]
      BY <1>3, RegisterLosesNone
    <2> QED BY <2>1, <2>2, NamesKept
  <1>4. CASE AssignHandle(t)
    <2>1. /\ launching[t] # NULL /\ handle' = [handle EXCEPT ![launching[t]] = issued[t]]
          /\ name' = name /\ slot' = slot
      BY <1>4 DEF AssignHandle, tableVars
    <2>2. handle[launching[t]] = 0
      BY <2>1 DEF Strong, IInv, Table, Launches
    <2>3. \A d \in Context, i \in 0..(slot_size - 1) :
            slot[i] = d /\ handle[d] # 0 => InTable(d)' /\ handle'[d] = handle[d]
      BY <1>2, <2>1, <2>2 DEF InTable
    <2> QED BY <2>1, <2>3, NamesKept
  <1>5. ASSUME NEW h \in 1..(Handles - 1), Retire(t, h) PROVE NameFollows
    <2>1. RetireHandle(h) /\ UNCHANGED <<slot_size, handle>>
      BY <1>5 DEF Retire
    <2> QED BY <2>1, RetireTakesNames
  <1>6. CASE RetireFound(t)
    <2>1. RetireHandle(found[t]) /\ found[t] # 0 /\ UNCHANGED <<slot_size, handle>>
      BY <1>6 DEF RetireFound
    <2>2. found[t] \in 1..(Handles - 1)
      BY <1>0, <2>1 DEF TypeOK
    <2> QED BY <2>1, <2>2, RetireTakesNames
  <1>7. CASE RetireAll(t) \/ LookAtSlot(t) \/ EndPass(t)
    <2>1. name' = name /\ slot' = slot /\ handle' = handle
      BY <1>7 DEF RetireAll, LookAtSlot, EndPass, tableVars
    <2>2. \A d \in Context, i \in 0..(slot_size - 1) :
            slot[i] = d /\ handle[d] # 0 => InTable(d)' /\ handle'[d] = handle[d]
      BY <1>2, <2>1 DEF InTable
    <2> QED BY <2>1, <2>2, NamesKept
  <1>8. ASSUME NEW h \in 1..(Handles - 1), NEW n \in Name, NameHandle(t, h, n) PROVE NameFollows
    <2>1. /\ ~ Search(n).found /\ name' = InsertName([name |-> n, handle |-> h], Search(n).at)
          /\ slot' = slot /\ handle' = handle
      BY <1>8 DEF NameHandle
    <2>2. /\ name' \in Seq(Entries)
          /\ \A i \in 1..Len(name) : \E k \in 1..Len(name') : name'[k] = name[i]
      BY <1>0, <2>1, InsertFacts
    <2>3. ToSet(name) \subseteq ToSet(name')
      <3>1. SUFFICES ASSUME NEW e \in ToSet(name) PROVE e \in ToSet(name')
        OBVIOUS
      <3>2. PICK i \in 1..Len(name) : e = name[i]
        BY <1>0 DEF ToSet
      <3>3. PICK k \in 1..Len(name') : name'[k] = e
        BY <2>2, <3>2
      <3> QED BY <2>2, <3>3 DEF ToSet
    <2>4. \A d \in Context, i \in 0..(slot_size - 1) :
            slot[i] = d /\ handle[d] # 0 => InTable(d)' /\ handle'[d] = handle[d]
      BY <1>2, <2>1 DEF InTable
    <2> QED BY <2>3, <2>4, NamesKept
  <1> QED BY <1>1, <1>3, <1>4, <1>5, <1>6, <1>7, <1>8

\* A name goes away with its service, and only then.
THEOREM NamesGoWithServices == Spec /\ Calm => NamesFollowServices
  <1>1. Strong /\ Findable' /\ [Next]_vars /\ [CalmStep]_vars =>
          [\A e \in ToSet(name) :
             e \in ToSet(name') <=> ~ (Grabbed(e.handle) # NULL /\ Grabbed(e.handle)' = NULL)]_vars
    BY NameFollowsStep DEF NameFollows
  <1> QED BY <1>1, Invariant, ServicesFindable, PTL DEF Spec, Calm, NamesFollowServices
=============================================================================
