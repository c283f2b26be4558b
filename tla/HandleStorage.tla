--------------------------- MODULE HandleStorage ---------------------------
(***************************************************************************)
(* The handle table of skynet_handle.c: services by handle, an array that  *)
(* is indexed by the low bits of the handle and doubles when it is full,   *)
(* and services by local name, a sorted array.  Every section under the    *)
(* table's readers-writer lock is one action (RwLock).  What is not under  *)
(* the lock is a step of its own: the assignment of the handle to the new  *)
(* context (skynet_server.c:140) and the loop of skynet_handle_retireall.  *)
(***************************************************************************)
EXTENDS Naturals, Sequences, FiniteSets, SequencesExt

CONSTANTS
  Thread,            \* threads that call the table
  Registrar,         \* those that launch services
  Context,           \* the skynet_contexts, reused after they are gone
  NULL,
  Name,              \* local names, in the order of strcmp
  DEFAULT_SLOT_SIZE, \* slots at the start
  Handles            \* HANDLE_MASK + 1, the number of handles

ASSUME HandleAssumption ==
  /\ Registrar \subseteq Thread
  /\ NULL \notin Context
  /\ Name \subseteq Nat
  /\ DEFAULT_SLOT_SIZE \in Nat \ {0} /\ Handles \in Nat \ {0}
  /\ Handles % DEFAULT_SLOT_SIZE = 0

\* Handles is a power of two: none of its divisors but 1 is odd.
ASSUME HandlesAssumption ==
  \A d \in 1..Handles : Handles % d = 0 /\ 2 * d <= Handles => Handles % (2 * d) = 0

VARIABLES
  slot_size, slot,   \* s->slot: Context or NULL
  handle_index,      \* s->handle_index
  name,              \* s->name: a sequence of names with their handles
  handle,            \* handle[c]: c->handle, 0 until it is assigned
  launching,         \* launching[t]: the context t has registered and whose
                     \* handle it has not assigned yet, NULL if none
  issued,            \* the handle it got for it
  all,               \* all[t]: the slot that retireall of t looks at, or None
  found,             \* the handle it found there, 0 if none
  retired,           \* its n > 0
  targets,           \* ghost: the services registered when its pass began,
                     \* without those whose context was reused since
  aborted            \* an assertion failed

tableVars == <<slot_size, slot, handle_index, name>>
allVars == <<all, found, retired, targets>>
vars == <<slot_size, slot, handle_index, name, handle, launching, issued, all,
          found, retired, targets, aborted>>

None == Handles + 1  \* not a slot

\* skynet_handle_init
Init ==
  /\ slot_size = DEFAULT_SLOT_SIZE
  /\ slot = [i \in 0..(DEFAULT_SLOT_SIZE - 1) |-> NULL]
  /\ handle_index = 1
  /\ name = <<>>
  /\ handle = [c \in Context |-> 0]
  /\ launching = [t \in Thread |-> NULL]
  /\ issued = [t \in Thread |-> 0]
  /\ all = [t \in Thread |-> None]
  /\ found = [t \in Thread |-> 0]
  /\ retired = [t \in Thread |-> FALSE]
  /\ targets = [t \in Thread |-> {}]
  /\ aborted = FALSE

InTable(c) == \E i \in DOMAIN slot : slot[i] = c

\* skynet_handle_grab: the context that handle h leads to.
Grabbed(h) ==
  LET c == slot[h % slot_size]
  IN IF c # NULL /\ handle[c] = h THEN c ELSE NULL

\* The thread is in none of the functions below.
Free(t) == ~ aborted /\ launching[t] = NULL /\ all[t] = None

-----------------------------------------------------------------------------
(* skynet_handle_register                                                  *)

\* The handle that the search loop tries in its turn i.
Candidate(i) == (i + handle_index) % Handles

\* The turns in which it finds a free slot in a table.
Open(sl, size) == {i \in 0..(size - 1) : sl[Candidate(i) % size] = NULL}

\* Where the context in slot i goes when the table doubles.
Rehash(i) == handle[slot[i]] % (2 * slot_size)

\* Mutant of Doubled: the contexts stay where they are.
DoubledInPlace ==
  [j \in 0..(2 * slot_size - 1) |-> IF j < slot_size THEN slot[j] ELSE NULL]

Doubled ==
  [j \in 0..(2 * slot_size - 1) |->
     LET from == {i \in DOMAIN slot : Rehash(i) = j}
     IN IF from = {} THEN NULL ELSE slot[CHOOSE i \in from : TRUE]]

\* assert(new_slot[hash] == NULL) fails.
Collision == \E i, k \in DOMAIN slot : i # k /\ Rehash(i) = Rehash(k)

\* Context c goes to the first free slot from handle_index on.
Place(t, c, sl, size) ==
  LET first == CHOOSE i \in Open(sl, size) : \A k \in Open(sl, size) : i <= k
      h     == Candidate(first)
  IN /\ slot' = [sl EXCEPT ![h % size] = c]
     /\ slot_size' = size
     /\ handle_index' = h + 1
     /\ issued' = [issued EXCEPT ![t] = h]
     /\ launching' = [launching EXCEPT ![t] = c]

Register(t, c) ==
  /\ t \in Registrar /\ Free(t)
  /\ ~ InTable(c) /\ \A u \in Thread : launching[u] # c
  /\ handle' = [handle EXCEPT ![c] = 0]
  /\ IF Open(slot, slot_size) # {}
     THEN Place(t, c, slot, slot_size) /\ UNCHANGED aborted
     ELSE IF Collision \/ 2 * slot_size > Handles
          THEN /\ aborted' = TRUE
               /\ UNCHANGED <<slot_size, slot, handle_index, issued, launching>>
          ELSE Place(t, c, Doubled, 2 * slot_size) /\ UNCHANGED aborted
  /\ targets' = [u \in Thread |-> targets[u] \ {c}]
  /\ UNCHANGED <<name, all, found, retired>>

\* ctx->handle = skynet_handle_register(ctx), outside the lock
AssignHandle(t) ==
  /\ ~ aborted /\ launching[t] # NULL
  /\ handle' = [handle EXCEPT ![launching[t]] = issued[t]]
  /\ launching' = [launching EXCEPT ![t] = NULL]
  /\ issued' = [issued EXCEPT ![t] = 0]
  /\ UNCHANGED <<tableVars, allVars, aborted>>

-----------------------------------------------------------------------------
(* skynet_handle_retire and skynet_handle_retireall                        *)

\* Mutant of Unnamed: only the first name of the service is removed.
UnnamedOnce(h) ==
  LET named == {i \in DOMAIN name : name[i].handle = h}
  IN IF named = {} THEN name
     ELSE RemoveAt(name, CHOOSE i \in named : \A k \in named : i <= k)

\* The names that are left when the service of handle h is gone: the loop that
\* moves them together.
Unnamed(h) ==
  LET kept[i \in 0..Len(name)] ==
        IF i = 0 THEN <<>>
        ELSE IF name[i].handle = h THEN kept[i - 1] ELSE Append(kept[i - 1], name[i])
  IN kept[Len(name)]

\* skynet_handle_retire: TRUE means that the service was there.
RetireHandle(h) ==
  IF Grabbed(h) # NULL
  THEN /\ slot' = [slot EXCEPT ![h % slot_size] = NULL]
       /\ name' = Unnamed(h)
  ELSE UNCHANGED <<slot, name>>

\* KILL and EXIT, for any handle a service may have kept.
Retire(t, h) ==
  /\ Free(t) /\ h # 0
  /\ RetireHandle(h)
  /\ UNCHANGED <<slot_size, handle_index, handle, launching, issued, allVars, aborted>>

Services == {c \in Context : InTable(c) /\ handle[c] # 0}

\* A pass over the table begins.
StartPass(t) ==
  /\ all' = [all EXCEPT ![t] = 0]
  /\ found' = [found EXCEPT ![t] = 0]
  /\ retired' = [retired EXCEPT ![t] = FALSE]
  /\ targets' = [targets EXCEPT ![t] = Services]

RetireAll(t) ==
  /\ Free(t)
  /\ StartPass(t)
  /\ UNCHANGED <<tableVars, handle, launching, issued, aborted>>

\* The handle of the context in the next slot is read under the read lock.
LookAtSlot(t) ==
  /\ ~ aborted /\ all[t] # None /\ found[t] = 0 /\ all[t] < slot_size
  /\ LET c == slot[all[t]]
         h == IF c = NULL THEN 0 ELSE handle[c]
     IN /\ found' = [found EXCEPT ![t] = h]
        /\ all' = IF h = 0 THEN [all EXCEPT ![t] = @ + 1] ELSE all
  /\ UNCHANGED <<tableVars, handle, launching, issued, retired, targets, aborted>>

\* Mutant of RetireFound: passes over the slot after a retired one.
RetireFoundSkips(t) ==
  /\ ~ aborted /\ found[t] # 0
  /\ RetireHandle(found[t])
  /\ found' = [found EXCEPT ![t] = 0]
  /\ all' = [all EXCEPT ![t] = @ + 2]
  /\ retired' = [retired EXCEPT ![t] = @ \/ Grabbed(found[t]) # NULL]
  /\ UNCHANGED <<slot_size, handle_index, handle, launching, issued, targets, aborted>>

\* It is retired under the write lock, by its handle.
RetireFound(t) ==
  /\ ~ aborted /\ found[t] # 0
  /\ RetireHandle(found[t])
  /\ found' = [found EXCEPT ![t] = 0]
  /\ all' = [all EXCEPT ![t] = @ + 1]
  /\ retired' = [retired EXCEPT ![t] = @ \/ Grabbed(found[t]) # NULL]
  /\ UNCHANGED <<slot_size, handle_index, handle, launching, issued, targets, aborted>>

\* A pass that retired nothing is the last one.
EndPass(t) ==
  /\ ~ aborted /\ all[t] # None /\ found[t] = 0 /\ all[t] >= slot_size
  /\ IF retired[t]
     THEN StartPass(t)
     ELSE /\ all' = [all EXCEPT ![t] = None]
          /\ targets' = [targets EXCEPT ![t] = {}]
          /\ UNCHANGED <<found, retired>>
  /\ UNCHANGED <<tableVars, handle, launching, issued, aborted>>

-----------------------------------------------------------------------------
(* Names                                                                   *)

\* The binary search of skynet_handle_findname and _insert_name in the slots
\* begin..end: the position of the name (found) or where it belongs.
Search(n) ==
  LET look[range \in (1..(Len(name) + 1)) \X (0..Len(name))] ==
        LET begin == range[1]
            end   == range[2]
            mid   == (begin + end) \div 2
        IN IF begin > end THEN [found |-> FALSE, at |-> begin]
           ELSE IF name[mid].name = n THEN [found |-> TRUE, at |-> mid]
           ELSE IF name[mid].name < n THEN look[<<mid + 1, end>>]
           ELSE look[<<begin, mid - 1>>]
  IN look[<<1, Len(name)>>]

\* skynet_handle_findname
FindName(n) ==
  LET r == Search(n) IN IF r.found THEN name[r.at].handle ELSE 0

\* Mutant of InsertName: inserts one place too far.
InsertNameAfter(entry, at) == InsertAt(name, IF at <= Len(name) THEN at + 1 ELSE at, entry)

\* _insert_name_before
InsertName(entry, at) == InsertAt(name, at, entry)

\* skynet_handle_namehandle, by REG for the service itself and by NAME for any
\* handle; a name that is taken stays as it is.
NameHandle(t, h, n) ==
  /\ Free(t) /\ h # 0
  /\ ~ Search(n).found
  /\ name' = InsertName([name |-> n, handle |-> h], Search(n).at)
  /\ UNCHANGED <<slot_size, slot, handle_index, handle, launching, issued, allVars, aborted>>

-----------------------------------------------------------------------------
Next ==
  \E t \in Thread :
    \/ \E c \in Context : Register(t, c)
    \/ AssignHandle(t)
    \/ \E h \in 1..(Handles - 1) : Retire(t, h)
    \/ RetireAll(t) \/ LookAtSlot(t) \/ RetireFound(t) \/ EndPass(t)
    \/ \E h \in 1..(Handles - 1), n \in Name : NameHandle(t, h, n)

Spec == Init /\ [][Next]_vars

-----------------------------------------------------------------------------
\* Type invariant.
TypeOK ==
  /\ slot_size \in 1..Handles
  /\ slot \in [0..(slot_size - 1) -> Context \cup {NULL}]
  /\ handle_index \in 0..Handles
  /\ name \in Seq([name : Name, handle : 1..(Handles - 1)])
  /\ handle \in [Context -> 0..(Handles - 1)]
  /\ launching \in [Thread -> Context \cup {NULL}]
  /\ issued \in [Thread -> 0..(Handles - 1)]
  /\ all \in [Thread -> 0..(Handles + 1)] /\ found \in [Thread -> 0..(Handles - 1)]
  /\ retired \in [Thread -> BOOLEAN]
  /\ targets \in [Thread -> SUBSET Context]
  /\ aborted \in BOOLEAN

\* skynet_handle_grab finds every service that has its handle, whatever was
\* registered and retired before and however often the table doubled, and two
\* services never have the same handle.
Findable == \A c \in Services : Grabbed(handle[c]) = c

\* assert(new_slot[hash] == NULL), skynet_handle.c:60: services that fill the
\* table do not collide when it doubles.
NoCollision == ~ aborted

\* The array of names is strictly sorted, so the binary search finds every name
\* and no other.
NamesFound ==
  /\ \A i, k \in DOMAIN name : i < k => name[i].name < name[k].name
  /\ \A n \in Name :
       FindName(n) = IF \E i \in DOMAIN name : name[i].name = n
                     THEN (CHOOSE e \in ToSet(name) : e.name = n).handle
                     ELSE 0

\* A name goes away with its service, and only then.
NamesFollowServices ==
  [][\A e \in ToSet(name) :
       e \in ToSet(name') <=> ~ (Grabbed(e.handle) # NULL /\ Grabbed(e.handle)' = NULL)]_vars

\* skynet_handle_retireall, which takes the lock once per slot, passes over no
\* service: those that were registered when the pass began and still are lie
\* ahead of it, although the table may double meanwhile.  So the last pass has
\* seen them all.
RetireAllMissesNone ==
  \A t \in Thread : all[t] # None =>
    \A c \in targets[t] :
      InTable(c) /\ handle[c] # 0 => \E i \in DOMAIN slot : slot[i] = c /\ i >= all[t]
=============================================================================
