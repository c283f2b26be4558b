------------------------- MODULE SocketServer_proofs -------------------------
(***************************************************************************)
(* Proofs about SocketServer, for any threads, slots, ids, packets and     *)
(* size of the pipe, when no slot is taken before clear_closed_event and   *)
(* no command overtakes the store of an id (Tame): no assertion fails,     *)
(* packets are whole, in order and where they belong, and nothing is said  *)
(* of a socket after its end.                                              *)
(***************************************************************************)
EXTENDS SocketServer, Integers, FiniteSetTheorems, SequenceTheorems, TLAPS

-----------------------------------------------------------------------------
(* The inductive invariant                                                 *)

Opening == {"O", "L", "B"}
Holding == {"claimed", "request"}     \* the thread has reserved the slot of its id
Idle == {"INVALID", "RESERVE"}
Watched == {"LISTEN", "CONNECTING", "CONNECTED", "HALFCLOSE", "BIND"}

\* Where thread t will open its socket.
SlotOf(t) == HASH_ID(newid[t])

\* A thread that opens a socket has an id of its own, which nobody knows yet,
\* and from the compare-and-swap on its slot.
Opens1(t) ==
  /\ at[t] # "out" => newid[t] \in 1..alloc_id /\ use[newid[t]] = None
  /\ at[t] \in Holding => type[SlotOf(t)] = "RESERVE"
  /\ at[t] = "request" => id[SlotOf(t)] = newid[t]
Threads ==
  /\ \A t \in Thread : Opens1(t)
  /\ \A t, u \in Thread :
       /\ at[t] # "out" /\ at[u] # "out" /\ newid[t] = newid[u] => t = u
       /\ at[t] \in Holding /\ at[u] \in Holding /\ SlotOf(t) = SlotOf(u) => t = u

\* Ids that are known have been handed out, and sit in their slot.
Ids ==
  /\ \A i \in Id : (use[i] # None => i <= alloc_id) /\ (ended[i] => use[i] # None)
  /\ \A s \in Slot : id[s] # 0 => HASH_ID(id[s]) = s

\* The command c is about a socket that a service knows of; if it opens the
\* socket, the slot is reserved for it.
Command1(c) ==
  /\ use[c.id] # None
  /\ c.op \in Opening =>
       /\ use[c.id] = c.op /\ ~ ended[c.id]
       /\ type[HASH_ID(c.id)] = "RESERVE" /\ id[HASH_ID(c.id)] = c.id
       /\ \A t \in Thread : at[t] \in Holding => SlotOf(t) # HASH_ID(c.id)
  /\ c.op \in {"D", "P"} =>
       /\ use[c.id] \in {"O", "A"}
       /\ c.n \in 1..Len(packets) /\ packets[c.n] = [to |-> c.id, prio |-> c.op]

\* The command that opens a socket comes before all others about it, and
\* packets are sent in the order of their numbers.
Commands ==
  /\ \A k \in 1..Len(pipe) : Command1(pipe[k])
  /\ \A j, k \in 1..Len(pipe) : j < k =>
       /\ pipe[k].op \in Opening => pipe[j].id # pipe[k].id
       /\ pipe[j].op \in {"D", "P"} /\ pipe[k].op \in {"D", "P"} => pipe[j].n < pipe[k].n

\* A slot is reserved by a thread or by a command on its way.
Reserved ==
  \A s \in Slot : type[s] = "RESERVE" =>
    \/ \E t \in Thread : at[t] \in Holding /\ SlotOf(t) = s
    \/ \E k \in 1..Len(pipe) : pipe[k].op \in Opening /\ HASH_ID(pipe[k].id) = s

\* A socket that is there has not been reported as closed.
Alive ==
  \A s \in Slot : type[s] \notin Idle =>
    /\ id[s] # 0 /\ use[id[s]] # None /\ ~ ended[id[s]]
    /\ type[s] \in {"PLISTEN", "LISTEN"} => use[id[s]] = "L"

\* The events that are left are about sockets that epoll watches, one for each,
\* but for the socket whose events are about to be cleared.
Events ==
  /\ \A k \in 1..Len(ev) : ev[k].s # None =>
       \/ type[ev[k].s] \in Watched
       \/ pc = "clear" /\ type[ev[k].s] = "INVALID" /\ id[ev[k].s] = closed
  /\ \A j, k \in 1..Len(ev) : ev[j].s # None /\ ev[j].s = ev[k].s => j = k

\* What has gone and what will go over the connection of slot s.
Units(s) == wire[s] \o high[s] \o low[s]

\* Units come in pairs, a pair for each packet.
Paired(q) ==
  /\ Len(q) % 2 = 0
  /\ \A k \in 1..Len(q) : k % 2 = 1 => q[k] = q[k + 1]
  /\ \A j, k \in 1..Len(q) : j < k /\ q[j] = q[k] => j % 2 = 1 /\ k = j + 1

\* The packets are those of socket i, in order for each priority.
Proper(q, i) ==
  /\ \A k \in 1..Len(q) : q[k] \in 1..Len(packets) /\ packets[q[k]].to = i
  /\ \A j, k \in 1..Len(q) :
       j < k /\ packets[q[j]].prio = packets[q[k]].prio => q[j] <= q[k]

\* The low buffer holds whole packets of low priority.
LowWhole(q) == Len(q) % 2 = 0 /\ \A k \in 1..Len(q) : packets[q[k]].prio = "P"

Buffers ==
  \A s \in Slot :
    /\ type[s] \in Idle => wire[s] = <<>> /\ high[s] = <<>> /\ low[s] = <<>>
    /\ Paired(Units(s)) /\ Proper(Units(s), id[s]) /\ LowWhole(low[s])

\* What is still to be handled is newer than what is in a buffer.
Newer ==
  \A s \in Slot : \A j \in 1..Len(Units(s)) : \A k \in 1..Len(pipe) :
    pipe[k].op \in {"D", "P"} => Units(s)[j] < pipe[k].n

Control == Threads /\ Ids /\ Commands /\ Reserved /\ Alive /\ Events /\ NoAbort
IInv == TypeOK /\ Control /\ Buffers /\ Newer

-----------------------------------------------------------------------------
(* Numbers and sequences                                                   *)

LEMMA HashInSlot == \A i \in Nat : HASH_ID(i) \in Slot
  BY SocketAssumption DEF HASH_ID, Slot

Cmd == [op : {"O", "L", "B", "S", "K", "D", "P"}, id : Id, n : 0..MaxSends]
Evt == [s : Slot \cup {None}, write : BOOLEAN]
Pack == [to : Id, prio : {"D", "P"}]

LEMMA Typed == TypeOK => pipe \in Seq(Cmd) /\ ev \in Seq(Evt) /\ packets \in Seq(Pack)
  BY DEF TypeOK, Cmd, Evt, Pack

\* The slot of an id.
LEMMA IdSlot == \A i \in Id : HASH_ID(i) \in Slot
  BY HashInSlot, SocketAssumption DEF Id

LEMMA ThreadSlot == TypeOK => \A t \in Thread : SlotOf(t) \in Slot /\ newid[t] \in Nat
  BY HashInSlot, SocketAssumption DEF TypeOK, SlotOf

LEMMA PipeSlots ==
  TypeOK => \A k \in 1..Len(pipe) :
    pipe[k] \in Cmd /\ pipe[k].id \in Id /\ HASH_ID(pipe[k].id) \in Slot
  <1> SUFFICES ASSUME TypeOK, NEW k \in 1..Len(pipe)
               PROVE  pipe[k] \in Cmd /\ pipe[k].id \in Id /\ HASH_ID(pipe[k].id) \in Slot
    OBVIOUS
  <1>1. pipe[k] \in Cmd
    BY Typed
  <1> QED BY <1>1, IdSlot DEF Cmd

LEMMA EventSlots ==
  TypeOK => \A k \in 1..Len(ev) : ev[k] \in Evt /\ (ev[k].s # None => ev[k].s \in Slot)
  <1> SUFFICES ASSUME TypeOK, NEW k \in 1..Len(ev)
               PROVE  ev[k] \in Evt /\ (ev[k].s # None => ev[k].s \in Slot)
    OBVIOUS
  <1>1. ev[k] \in Evt
    BY Typed
  <1> QED BY <1>1 DEF Evt

\* What is left of a sequence without its head.
LEMMA Rest ==
  ASSUME NEW S, NEW q \in Seq(S), q # <<>>
  PROVE  /\ Tail(q) \in Seq(S) /\ Head(q) \in S /\ Head(q) = q[1] /\ Len(q) \in Nat \ {0}
         /\ Len(Tail(q)) = Len(q) - 1
         /\ \A k \in 1..Len(Tail(q)) : Tail(q)[k] = q[k + 1] /\ k + 1 \in 1..Len(q)
         /\ \A k \in 1..Len(q) : k = 1 \/ (k - 1 \in 1..Len(Tail(q)) /\ q[k] = Tail(q)[k - 1])
  OBVIOUS

LEMMA Appended ==
  ASSUME NEW S, NEW q \in Seq(S), NEW x \in S
  PROVE  /\ Append(q, x) \in Seq(S) /\ Len(Append(q, x)) = Len(q) + 1 /\ Len(q) \in Nat
         /\ \A k \in 1..Len(q) : Append(q, x)[k] = q[k]
         /\ Append(q, x)[Len(q) + 1] = x
  OBVIOUS

\* The elements of three sequences in a row.
LEMMA Row ==
  ASSUME NEW S, NEW a \in Seq(S), NEW b \in Seq(S), NEW c \in Seq(S)
  PROVE  LET q == a \o b \o c
         IN /\ q \in Seq(S) /\ Len(q) = Len(a) + Len(b) + Len(c)
            /\ \A k \in 1..Len(a) : q[k] = a[k]
            /\ \A k \in 1..Len(b) : q[Len(a) + k] = b[k]
            /\ \A k \in 1..Len(c) : q[Len(a) + Len(b) + k] = c[k]
  OBVIOUS

-----------------------------------------------------------------------------
(* What keeps the parts of the invariant                                   *)

\* The socket thread leaves the slots of opening threads alone.
LEMMA ThreadsKept ==
  ASSUME TypeOK, Threads, UNCHANGED <<at, newid>>,
         alloc_id' \in Nat, alloc_id <= alloc_id',
         \A i \in Id : i <= alloc_id => use'[i] = use[i],
         \A t \in Thread : at[t] \in Holding =>
            type'[SlotOf(t)] = type[SlotOf(t)] /\ id'[SlotOf(t)] = id[SlotOf(t)]
  PROVE  Threads'
  <1>1. \A t \in Thread : SlotOf(t)' = SlotOf(t)
    BY DEF SlotOf
  <1>2. \A t \in Thread : at[t] # "out" =>
          newid'[t] \in 1..alloc_id' /\ newid[t] \in Id /\ newid[t] <= alloc_id
    BY SocketAssumption DEF Threads, Opens1, TypeOK, Id
  <1>3. \A t \in Thread : Opens1(t)'
    BY <1>1, <1>2 DEF Threads, Opens1, Holding
  <1> QED BY <1>1, <1>3 DEF Threads

LEMMA IdsKept ==
  ASSUME Ids, UNCHANGED <<use, alloc_id, id>>,
         \A i \in Id : ended'[i] => ended[i] \/ use[i] # None
  PROVE  Ids'
  BY DEF Ids

\* A step that does nothing to what commands say: services keep what they know
\* of sockets and packets, and only free slots are reserved.
Kept ==
  /\ \A i \in Id : use[i] # None => use'[i] = use[i]
  /\ packets' \in Seq(Pack) /\ Len(packets) <= Len(packets')
  /\ \A m \in 1..Len(packets) : packets'[m] = packets[m]
  /\ \A t \in Thread : at'[t] \in Holding =>
       \/ at[t] \in Holding /\ newid'[t] = newid[t]
       \/ type[HASH_ID(newid'[t])] = "INVALID"

\* The slot that is reserved for the socket of command c stays so.
Spares(c) ==
  c.op \in Opening =>
    /\ type'[HASH_ID(c.id)] = type[HASH_ID(c.id)] /\ id'[HASH_ID(c.id)] = id[HASH_ID(c.id)]
    /\ ~ ended'[c.id]

\* The commands that stay in the pipe say the same.
LEMMA CommandKept ==
  ASSUME packets \in Seq(Pack), Kept, NEW c \in Cmd, Command1(c), Spares(c)
  PROVE  Command1(c)'
  <1>1. c.id \in Id
    BY DEF Cmd
  <1>2. use'[c.id] = use[c.id] /\ use[c.id] # None
    BY <1>1 DEF Command1, Kept
  <1>4. c.op \in {"D", "P"} =>
          c.n \in 1..Len(packets') /\ packets'[c.n] = [to |-> c.id, prio |-> c.op]
    BY DEF Command1, Kept
  <1>5. c.op \in {"D", "P"} => use'[c.id] \in {"O", "A"}
    BY <1>2 DEF Command1
  <1>6. c.op \in Opening => \A t \in Thread : at'[t] \in Holding => SlotOf(t)' # HASH_ID(c.id)
    BY DEF Command1, Kept, SlotOf
  <1>7. c.op \in Opening => use'[c.id] = c.op /\ ~ ended'[c.id]
    BY <1>2 DEF Command1, Spares
  <1>8. c.op \in Opening => type'[HASH_ID(c.id)] = "RESERVE" /\ id'[HASH_ID(c.id)] = c.id
    BY DEF Command1, Spares
  <1> QED BY <1>2, <1>4, <1>5, <1>6, <1>7, <1>8 DEF Command1

LEMMA CommandsStay ==
  ASSUME TypeOK, Commands, Kept, pipe' = pipe, \A k \in 1..Len(pipe) : Spares(pipe[k])
  PROVE  Commands'
  <1>1. \A c \in Cmd : Command1(c) /\ Spares(c) => Command1(c)'
    BY CommandKept, Typed
  <1>2. \A k \in 1..Len(pipe) : pipe[k] \in Cmd
    BY Typed
  <1>3. \A k \in 1..Len(pipe) : Command1(pipe[k])'
    <2> TAKE k \in 1..Len(pipe)
    <2> DEFINE c == pipe[k]
    <2>1. Command1(c) /\ Spares(c) /\ c \in Cmd
      BY <1>2 DEF Commands
    <2> QED BY <2>1, <1>1 DEF Command1, Spares
  <1> QED BY <1>3 DEF Commands

\* The socket thread takes a command.
LEMMA CommandsTail ==
  ASSUME TypeOK, Commands, Kept, pipe # <<>>, pipe' = Tail(pipe),
         \A k \in 2..Len(pipe) : Spares(pipe[k])
  PROVE  Commands'
  <1>1. \A c \in Cmd : Command1(c) /\ Spares(c) => Command1(c)'
    BY CommandKept, Typed
  <1>2. /\ Len(pipe') = Len(pipe) - 1 /\ Len(pipe) \in Nat \ {0}
        /\ \A k \in 1..Len(pipe') : pipe'[k] = pipe[k + 1] /\ k + 1 \in 2..Len(pipe)
    BY Rest, Typed
  <1>3. \A k \in 1..Len(pipe') : Command1(pipe[k])'
    <2> TAKE k \in 1..Len(pipe')
    <2> PICK c \in Cmd : c = pipe[k + 1]
      BY <1>2, Typed
    <2>1. Command1(c) /\ Spares(c) /\ pipe'[k] = c
      BY <1>2 DEF Commands
    <2> QED BY <2>1, <1>1 DEF Command1, Spares
  <1>4. \A j, k \in 1..Len(pipe') : j < k =>
          /\ pipe'[k].op \in Opening => pipe'[j].id # pipe'[k].id
          /\ pipe'[j].op \in {"D", "P"} /\ pipe'[k].op \in {"D", "P"} => pipe'[j].n < pipe'[k].n
    BY <1>2 DEF Commands
  <1> QED BY <1>3, <1>4 DEF Commands

\* A thread or a service sends a command.
LEMMA CommandsAppend ==
  ASSUME TypeOK, Commands, Kept, NEW d \in Cmd, pipe' = Append(pipe, d), Command1(d)',
         \A k \in 1..Len(pipe) :
           /\ Spares(pipe[k])
           /\ d.op \in Opening => pipe[k].id # d.id
           /\ d.op \in {"D", "P"} /\ pipe[k].op \in {"D", "P"} => pipe[k].n < d.n
  PROVE  Commands'
  <1>1. \A c \in Cmd : Command1(c) /\ Spares(c) => Command1(c)'
    BY CommandKept, Typed
  <1>2. /\ Len(pipe') = Len(pipe) + 1 /\ Len(pipe) \in Nat
        /\ \A k \in 1..Len(pipe) : pipe'[k] = pipe[k] /\ pipe[k] \in Cmd
        /\ pipe'[Len(pipe) + 1] = d
    BY Appended, Typed
  <1>3. \A k \in 1..Len(pipe') : Command1(pipe[k])'
    <2> TAKE k \in 1..Len(pipe')
    <2>1. CASE k = Len(pipe) + 1
      BY <1>2, <2>1 DEF Command1
    <2>2. CASE k \in 1..Len(pipe)
      <3> DEFINE c == pipe[k]
      <3>1. Command1(c) /\ Spares(c) /\ c \in Cmd /\ pipe'[k] = c
        BY <1>2, <2>2 DEF Commands
      <3> QED BY <3>1, <1>1 DEF Command1, Spares
    <2> QED BY <1>2, <2>1, <2>2
  <1>4. \A j, k \in 1..Len(pipe') : j < k =>
          /\ pipe'[k].op \in Opening => pipe'[j].id # pipe'[k].id
          /\ pipe'[j].op \in {"D", "P"} /\ pipe'[k].op \in {"D", "P"} => pipe'[j].n < pipe'[k].n
    BY <1>2 DEF Commands
  <1> QED BY <1>3, <1>4 DEF Commands

\* No slot is newly reserved by the socket thread.
LEMMA ReservedStay ==
  ASSUME TypeOK, Reserved, UNCHANGED <<at, newid>>,
         \A s \in Slot : type'[s] = "RESERVE" => type[s] = "RESERVE",
         \/ pipe' = pipe
         \/ /\ pipe # <<>> /\ pipe' = Tail(pipe)
            /\ Head(pipe).op \in Opening => type'[HASH_ID(Head(pipe).id)] # "RESERVE"
  PROVE  Reserved'
  <1>1. \A t \in Thread : SlotOf(t)' = SlotOf(t)
    BY DEF SlotOf
  <1> SUFFICES ASSUME NEW s \in Slot, type'[s] = "RESERVE"
               PROVE  \/ \E t \in Thread : at[t] \in Holding /\ SlotOf(t) = s
                      \/ \E k \in 1..Len(pipe') : pipe'[k].op \in Opening /\ HASH_ID(pipe'[k].id) = s
    BY <1>1 DEF Reserved
  <1>2. CASE pipe' = pipe
    BY <1>2 DEF Reserved
  <1>3. CASE /\ pipe # <<>> /\ pipe' = Tail(pipe)
             /\ Head(pipe).op \in Opening => type'[HASH_ID(Head(pipe).id)] # "RESERVE"
    <2>1. /\ Len(pipe') = Len(pipe) - 1 /\ Len(pipe) \in Nat \ {0} /\ Head(pipe) = pipe[1]
          /\ \A k \in 1..Len(pipe) : k = 1 \/ (k - 1 \in 1..Len(pipe') /\ pipe[k] = pipe'[k - 1])
      BY <1>3, Rest, Typed
    <2>2. ASSUME NEW k \in 1..Len(pipe), pipe[k].op \in Opening, HASH_ID(pipe[k].id) = s
          PROVE  \E j \in 1..Len(pipe') : pipe'[j].op \in Opening /\ HASH_ID(pipe'[j].id) = s
      <3>1. k # 1
        BY <2>1, <2>2, <1>3
      <3> QED BY <2>1, <2>2, <3>1
    <2>3. \/ \E t \in Thread : at[t] \in Holding /\ SlotOf(t) = s
          \/ \E k \in 1..Len(pipe) : pipe[k].op \in Opening /\ HASH_ID(pipe[k].id) = s
      BY DEF Reserved
    <2> QED BY <2>2, <2>3
  <1> QED BY <1>2, <1>3

-----------------------------------------------------------------------------
(* The steps of threads and services                                       *)

LEMMA ServiceTypes ==
  ASSUME TypeOK, Threads,
         \/ \E t \in Thread :
              \/ Allocate(t) \/ Claim(t) \/ SetId(t)
              \/ \E op \in {"O", "L", "B"} : OpenRequest(t, op)
         \/ \E i \in Id :
              \/ \E op \in {"S", "K"} : ServiceRequest(i, op)
              \/ \E prio \in {"D", "P"} : ServiceSend(i, prio)
  PROVE  TypeOK'
  <1> USE DEF TypeOK
  <1> USE SocketAssumption
  <1>0. 0 \in 0..MaxId
    OBVIOUS
  <1>1. ASSUME NEW t \in Thread, Allocate(t) PROVE TypeOK'
    <2>1. alloc_id + 1 \in 0..MaxId
      BY <1>1 DEF Allocate
    <2> QED BY <1>1, <2>1 DEF Allocate, slotVars, loopVars, serviceVars
  <1>2. ASSUME NEW t \in Thread, Claim(t) PROVE TypeOK'
    <2>1. type' \in [Slot -> {"INVALID", "RESERVE", "PLISTEN", "LISTEN", "CONNECTING",
                                "CONNECTED", "HALFCLOSE", "PACCEPT", "BIND"}]
      BY <1>2 DEF Claim
    <2>2. at' \in [Thread -> {"out", "claim", "claimed", "request"}]
      <3>1. at' = [at EXCEPT ![t] = "claimed"] \/ at' = [at EXCEPT ![t] = "out"]
        BY <1>2 DEF Claim
      <3> QED BY <3>1
    <2>4. newid' \in [Thread -> 0..MaxId]
      <3>1. newid' = newid \/ newid' = [newid EXCEPT ![t] = 0]
        BY <1>2 DEF Claim
      <3> QED BY <1>0, <3>1
    <2>3. UNCHANGED <<id, high, low, writing, wire, alloc_id, pipe, loopVars, serviceVars, ended>>
      BY <1>2 DEF Claim
    <2> QED BY <2>1, <2>2, <2>3, <2>4 DEF loopVars, serviceVars
  <1>3. ASSUME NEW t \in Thread, SetId(t) PROVE TypeOK'
    BY <1>3 DEF SetId, loopVars, serviceVars
  <1>4. ASSUME NEW d \in Cmd, Len(pipe) < PIPE, pipe' = Append(pipe, d)
        PROVE  pipe' \in Seq([op : {"O", "L", "B", "S", "K", "D", "P"}, id : Id, n : 0..MaxSends])
               /\ Len(pipe') <= PIPE
    BY <1>4, Appended DEF Cmd
  <1>5. ASSUME NEW t \in Thread, NEW op \in {"O", "L", "B"}, OpenRequest(t, op) PROVE TypeOK'
    <2>1. newid[t] \in Id
      BY <1>5 DEF OpenRequest, Threads, Opens1, Id
    <2>2. [op |-> op, id |-> newid[t], n |-> 0] \in Cmd
      BY <2>1 DEF Cmd
    <2>3. /\ pipe' \in Seq([op : {"O", "L", "B", "S", "K", "D", "P"}, id : Id, n : 0..MaxSends])
          /\ Len(pipe') <= PIPE
      BY <1>5, <2>2, <1>4 DEF OpenRequest, Requested
    <2>4. use' \in [Id -> {None, "O", "L", "B", "A"}]
      BY <1>5 DEF OpenRequest
    <2>5. at' \in [Thread -> {"out", "claim", "claimed", "request"}]
      BY <1>5 DEF OpenRequest
    <2>7. newid' \in [Thread -> 0..MaxId]
      BY <1>0, <1>5 DEF OpenRequest
    <2>6. UNCHANGED <<slotVars, alloc_id, loopVars, asked, packets, ended>>
      BY <1>5 DEF OpenRequest
    <2> QED BY <2>3, <2>4, <2>5, <2>6, <2>7 DEF slotVars, loopVars
  <1>6. ASSUME NEW i \in Id, NEW op \in {"S", "K"}, ServiceRequest(i, op) PROVE TypeOK'
    <2>1. [op |-> op, id |-> i, n |-> 0] \in Cmd
      BY DEF Cmd
    <2> QED BY <1>6, <2>1, <1>4 DEF ServiceRequest, Requested, slotVars, loopVars, threadVars
  <1>7. ASSUME NEW i \in Id, NEW prio \in {"D", "P"}, ServiceSend(i, prio) PROVE TypeOK'
    <2>1. [op |-> prio, id |-> i, n |-> Len(packets) + 1] \in Cmd
      BY <1>7 DEF Cmd, ServiceSend
    <2>2. [to |-> i, prio |-> prio] \in Pack
      BY DEF Pack
    <2>3. packets' \in Seq(Pack)
      BY <1>7, <2>2, Appended, Typed DEF ServiceSend
    <2> QED BY <1>7, <2>1, <2>3, <1>4 DEF ServiceSend, Requested, slotVars, loopVars, threadVars, Pack
  <1> QED BY <1>1, <1>2, <1>3, <1>5, <1>6, <1>7

\* What does not touch the slots spares those of all commands.
LEMMA SameSpared ==
  ASSUME Commands, UNCHANGED <<type, id, ended>>
  PROVE  \A k \in 1..Len(pipe) : Spares(pipe[k])
  BY DEF Commands, Command1, Spares

\* The slots of all threads but one are as before.
LEMMA OtherThreads ==
  ASSUME TypeOK, NEW t \in Thread, NEW a, NEW n,
         at' = [at EXCEPT ![t] = a], newid' = [newid EXCEPT ![t] = n]
  PROVE  /\ at'[t] = a /\ newid'[t] = n /\ SlotOf(t)' = HASH_ID(n)
         /\ \A u \in Thread : u # t =>
              at'[u] = at[u] /\ newid'[u] = newid[u] /\ SlotOf(u)' = SlotOf(u)
  BY DEF TypeOK, SlotOf

LEMMA AllocateControl ==
  ASSUME TypeOK, Control, NEW t \in Thread, Allocate(t)
  PROVE  Control'
  <1> DEFINE n == alloc_id + 1
  <1>1. /\ at[t] = "out" /\ alloc_id < MaxId /\ alloc_id' = n
        /\ at' = [at EXCEPT ![t] = "claim"] /\ newid' = [newid EXCEPT ![t] = n]
        /\ UNCHANGED <<type, id, pipe, ev, pc, closed, use, packets, ended>>
    BY DEF Allocate, slotVars, loopVars, serviceVars
  <1>2. alloc_id \in 0..MaxId /\ n \in Id /\ MaxId \in Nat /\ n > alloc_id /\ n \notin 1..alloc_id
        /\ n \in 1..n
    BY <1>1, SocketAssumption DEF TypeOK, Id
  <1>3. use[n] = None
    BY <1>2 DEF Control, Ids
  <1> HIDE DEF n
  <1>4. /\ at'[t] = "claim" /\ newid'[t] = n
        /\ \A u \in Thread : u # t =>
              at'[u] = at[u] /\ newid'[u] = newid[u] /\ SlotOf(u)' = SlotOf(u)
    BY <1>1, OtherThreads
  <1>5. \A u \in Thread : Opens1(u)'
    <2> TAKE u \in Thread
    <2>1. CASE u = t
      BY <1>1, <1>2, <1>3, <1>4, <2>1 DEF Opens1, Holding
    <2>2. CASE u # t
      <3>1. at[u] # "out" => newid[u] \in 1..alloc_id'
        BY <1>1, <1>2 DEF Control, Threads, Opens1, n
      <3> QED BY <1>1, <1>4, <2>2, <3>1 DEF Control, Threads, Opens1
    <2> QED BY <2>1, <2>2
  <1>6. \A u \in Thread : at[u] # "out" => newid[u] # n
    BY <1>2 DEF Control, Threads, Opens1
  <1>7. Threads'
    BY <1>1, <1>4, <1>5, <1>6 DEF Control, Threads, Holding
  <1>8. Ids'
    BY <1>1, <1>2 DEF Control, Ids, Id, TypeOK, n
  <1>9. Kept
    BY <1>1, <1>4, Typed DEF Kept, Holding
  <1>10. Commands'
    BY <1>1, <1>9, SameSpared, CommandsStay DEF Control
  <1>11. Reserved'
    BY <1>1, <1>4 DEF Control, Reserved, Holding
  <1> QED BY <1>1, <1>7, <1>8, <1>10, <1>11 DEF Control, Alive, Events, NoAbort

LEMMA ClaimControl ==
  ASSUME Tame, TypeOK, Control, NEW t \in Thread, Claim(t)
  PROVE  Control'
  <1> DEFINE s == SlotOf(t)
  <1>0. s \in Slot /\ \A u \in Thread : SlotOf(u) \in Slot
    BY ThreadSlot
  <1>1. /\ at[t] = "claim" /\ pc # "clear"
        /\ UNCHANGED <<id, alloc_id, pipe, ev, pc, closed, use, packets, ended>>
    BY DEF Claim, loopVars, serviceVars
  <1>2. CASE type[s] # "INVALID"
    <2>1. /\ type' = type /\ at' = [at EXCEPT ![t] = "out"] /\ newid' = [newid EXCEPT ![t] = 0]
      BY <1>2 DEF Claim, SlotOf
    <2>2. /\ at'[t] = "out"
          /\ \A u \in Thread : u # t =>
                at'[u] = at[u] /\ newid'[u] = newid[u] /\ SlotOf(u)' = SlotOf(u)
      BY <2>1, OtherThreads
    <2>3. Threads'
      BY <1>1, <2>1, <2>2 DEF Control, Threads, Opens1, Holding
    <2>4. Kept
      BY <1>1, <2>2, Typed DEF Kept, Holding
    <2>5. Commands'
      BY <1>1, <2>1, <2>4, SameSpared, CommandsStay DEF Control
    <2>6. Reserved'
      BY <1>1, <2>1, <2>2 DEF Control, Reserved, Holding
    <2> QED BY <1>1, <2>1, <2>3, <2>5, <2>6 DEF Control, Ids, Alive, Events, NoAbort
  <1>3. CASE type[s] = "INVALID"
    <2>1. /\ type' = [type EXCEPT ![s] = "RESERVE"] /\ at' = [at EXCEPT ![t] = "claimed"]
          /\ newid' = newid
      BY <1>3 DEF Claim, SlotOf
    <2>2. /\ at'[t] = "claimed" /\ \A u \in Thread : SlotOf(u)' = SlotOf(u)
          /\ \A u \in Thread : u # t => at'[u] = at[u]
      BY <2>1 DEF SlotOf, TypeOK
    <2> HIDE DEF s
    <2>3. type'[s] = "RESERVE" /\ \A r \in Slot : r # s => type'[r] = type[r]
      BY <1>0, <2>1 DEF TypeOK
    <2>4. \A u \in Thread : at[u] \in Holding => SlotOf(u) # s
      BY <1>3 DEF Control, Threads, Opens1
    <2>5. Threads'
      <3>1. \A u \in Thread : Opens1(u)'
        <4> TAKE u \in Thread
        <4>1. CASE u = t
          BY <1>1, <2>1, <2>2, <2>3, <4>1 DEF Control, Threads, Opens1, s
        <4>2. CASE u # t
          BY <1>0, <1>1, <2>1, <2>2, <2>3, <2>4, <4>2 DEF Control, Threads, Opens1, Holding
        <4> QED BY <4>1, <4>2
      <3>2. \A u, v \in Thread :
              at'[u] \in Holding /\ at'[v] \in Holding /\ SlotOf(u) = SlotOf(v) => u = v
        BY <2>2, <2>4 DEF Control, Threads, s
      <3>3. \A u, v \in Thread :
              at'[u] # "out" /\ at'[v] # "out" /\ newid[u] = newid[v] => u = v
        BY <1>1, <2>2 DEF Control, Threads
      <3> QED BY <2>1, <2>2, <3>1, <3>2, <3>3 DEF Threads
    <2>6. Kept
      BY <1>1, <1>3, <2>1, <2>2, Typed DEF Kept, Holding, s, SlotOf
    <2>7. \A k \in 1..Len(pipe) : Spares(pipe[k])
      BY <1>1, <1>3, <2>3, PipeSlots DEF Control, Commands, Command1, Spares
    <2>8. Commands'
      BY <1>1, <2>6, <2>7, CommandsStay DEF Control
    <2>9. Reserved'
      <3> SUFFICES ASSUME NEW r \in Slot, type'[r] = "RESERVE"
                   PROVE  \/ \E u \in Thread : at'[u] \in Holding /\ SlotOf(u) = r
                          \/ \E k \in 1..Len(pipe) : pipe[k].op \in Opening /\ HASH_ID(pipe[k].id) = r
        BY <1>1, <2>2 DEF Reserved
      <3>1. CASE r = s
        BY <2>2, <3>1 DEF Holding, s
      <3>2. CASE r # s
        BY <2>2, <2>3, <3>2 DEF Control, Reserved, Holding
      <3> QED BY <3>1, <3>2
    <2>10. Alive'
      BY <1>1, <2>3 DEF Control, Alive, Idle
    <2>11. Events'
      BY <1>1, <1>3, <2>3, EventSlots DEF Control, Events, Watched
    <2> QED BY <1>1, <2>5, <2>8, <2>9, <2>10, <2>11 DEF Control, Ids, NoAbort
  <1> QED BY <1>2, <1>3

LEMMA SetIdControl ==
  ASSUME TypeOK, Control, NEW t \in Thread, SetId(t)
  PROVE  Control'
  <1> DEFINE s == SlotOf(t)
  <1>0. s \in Slot /\ \A u \in Thread : SlotOf(u) \in Slot
    BY ThreadSlot
  <1>1. /\ at[t] = "claimed" /\ id' = [id EXCEPT ![s] = newid[t]] /\ at' = [at EXCEPT ![t] = "request"]
        /\ UNCHANGED <<type, alloc_id, pipe, ev, pc, closed, use, packets, ended, newid>>
    BY DEF SetId, loopVars, serviceVars, SlotOf
  <1>2. at'[t] = "request" /\ \A u \in Thread : SlotOf(u)' = SlotOf(u) /\ (u # t => at'[u] = at[u])
    BY <1>1 DEF SlotOf, TypeOK
  <1>3. type[s] = "RESERVE" /\ HASH_ID(newid[t]) = s
    BY <1>1 DEF Control, Threads, Opens1, Holding, SlotOf
  <1> HIDE DEF s
  <1>4. id'[s] = newid[t] /\ \A r \in Slot : r # s => id'[r] = id[r]
    BY <1>0, <1>1 DEF TypeOK
  <1>5. \A u \in Thread : at[u] \in Holding /\ u # t => SlotOf(u) # s
    BY <1>1 DEF Control, Threads, Holding, s
  <1>6. Threads'
    <2>1. \A u \in Thread : Opens1(u)'
      <3> TAKE u \in Thread
      <3>1. CASE u = t
        BY <1>1, <1>2, <1>3, <1>4, <3>1 DEF Control, Threads, Opens1, s
      <3>2. CASE u # t
        BY <1>0, <1>1, <1>2, <1>4, <1>5, <3>2 DEF Control, Threads, Opens1, Holding
      <3> QED BY <3>1, <3>2
    <2> QED BY <1>1, <1>2, <2>1 DEF Control, Threads, Holding
  <1>7. Ids'
    BY <1>1, <1>3, <1>4 DEF Control, Ids
  <1>8. Kept
    BY <1>1, <1>2, Typed DEF Kept, Holding
  <1>9. \A k \in 1..Len(pipe) : Spares(pipe[k])
    <2> TAKE k \in 1..Len(pipe)
    <2>1. pipe[k].op \in Opening => HASH_ID(pipe[k].id) # s /\ HASH_ID(pipe[k].id) \in Slot
      BY <1>1, PipeSlots DEF Control, Commands, Command1, Holding, s
    <2> QED BY <1>1, <1>4, <2>1 DEF Control, Commands, Command1, Spares
  <1>10. Commands'
    BY <1>1, <1>8, <1>9, CommandsStay DEF Control
  <1>11. Reserved'
    BY <1>1, <1>2 DEF Control, Reserved, Holding
  <1>12. Alive'
    BY <1>1, <1>3, <1>4 DEF Control, Alive, Idle
  <1>13. Events'
    BY <1>1, <1>3, <1>4, EventSlots DEF Control, Events, Watched
  <1> QED BY <1>1, <1>6, <1>7, <1>10, <1>11, <1>12, <1>13 DEF Control, NoAbort

LEMMA OpenRequestControl ==
  ASSUME TypeOK, Control, NEW t \in Thread, NEW op \in Opening, OpenRequest(t, op)
  PROVE  Control'
  <1>0. /\ newid[t] \in 1..alloc_id /\ use[newid[t]] = None
        /\ type[SlotOf(t)] = "RESERVE" /\ id[SlotOf(t)] = newid[t]
    BY DEF OpenRequest, Control, Threads, Opens1, Holding
  <1> PICK n \in Id : n = newid[t]
    BY <1>0, SocketAssumption DEF TypeOK, Id
  <1>16. [op |-> op, id |-> n, n |-> 0] \in Cmd
    BY SocketAssumption DEF Cmd, Opening
  <1> PICK d \in Cmd : d = [op |-> op, id |-> n, n |-> 0]
    BY <1>16
  <1> DEFINE s == HASH_ID(n)
  <1>1. /\ at[t] = "request" /\ pipe' = Append(pipe, d) /\ use' = [use EXCEPT ![n] = op]
        /\ at' = [at EXCEPT ![t] = "out"] /\ newid' = [newid EXCEPT ![t] = 0]
        /\ UNCHANGED <<type, id, alloc_id, ev, pc, closed, packets, ended>>
    BY DEF OpenRequest, Requested, slotVars, loopVars
  <1>2. /\ n \in Id /\ n <= alloc_id /\ use[n] = None /\ s \in Slot /\ s = SlotOf(t)
        /\ type[s] = "RESERVE" /\ id[s] = n
    BY <1>0, IdSlot, SocketAssumption DEF SlotOf, TypeOK
  <1>3. /\ at'[t] = "out"
        /\ \A u \in Thread : u # t =>
              at'[u] = at[u] /\ newid'[u] = newid[u] /\ SlotOf(u)' = SlotOf(u)
    BY <1>1, OtherThreads
  <1>4. \A u \in Thread : u # t =>
          (at[u] # "out" => newid[u] # n) /\ (at[u] \in Holding => SlotOf(u) # s)
    BY <1>1, <1>2 DEF Control, Threads, Holding
  <1>5. ~ ended[n] /\ op # None
    <2>1. ~ ended[n]
      BY <1>2 DEF Control, Ids
    <2> QED BY <2>1, SocketAssumption DEF Opening
  <1>6. d \in Cmd /\ d.op = op /\ d.id = n
    OBVIOUS
  <1>7. use'[n] = op /\ \A i \in Id : i # n => use'[i] = use[i]
    BY <1>1, <1>2 DEF TypeOK
  <1>8. Threads'
    <2>1. \A u \in Thread : Opens1(u)'
      <3> TAKE u \in Thread
      <3>1. CASE u = t
        BY <1>3, <3>1 DEF Opens1, Holding
      <3>2. CASE u # t
        <4>1. at[u] # "out" => newid[u] \in Id /\ newid[u] # n
          BY <1>4, <3>2, SocketAssumption DEF Control, Threads, Opens1, TypeOK, Id
        <4>2. at[u] # "out" => newid'[u] \in 1..alloc_id' /\ use'[newid'[u]] = None
          BY <1>1, <1>3, <1>7, <3>2, <4>1 DEF Control, Threads, Opens1
        <4>3. at[u] \in Holding => type[SlotOf(u)] = "RESERVE"
          BY DEF Control, Threads, Opens1
        <4>4. at[u] = "request" => id[SlotOf(u)] = newid[u]
          BY DEF Control, Threads, Opens1
        <4> QED BY <1>1, <1>3, <3>2, <4>2, <4>3, <4>4 DEF Opens1
      <3> QED BY <3>1, <3>2
    <2> QED BY <1>1, <1>3, <2>1 DEF Control, Threads, Holding
  <1>9. Ids'
    BY <1>1, <1>2, <1>7, <1>5 DEF Control, Ids
  <1>10. Kept
    BY <1>1, <1>2, <1>3, <1>7, Typed DEF Kept, Holding
  <1>11. Command1(d)'
    <2>1. \A u \in Thread : at'[u] \in Holding => SlotOf(u)' # s
      BY <1>3, <1>4 DEF Holding
    <2> QED BY <1>1, <1>2, <1>5, <1>6, <1>7, <2>1 DEF Command1, Opening
  <1>12. \A k \in 1..Len(pipe) : pipe[k].id # n
    BY <1>2 DEF Control, Commands, Command1
  <1>13. Commands'
    <2>1. \A k \in 1..Len(pipe) :
           /\ Spares(pipe[k])
           /\ d.op \in Opening => pipe[k].id # d.id
           /\ d.op \in {"D", "P"} /\ pipe[k].op \in {"D", "P"} => pipe[k].n < d.n
      <3>1. d.op \notin {"D", "P"}
        BY <1>6 DEF Opening
      <3> QED BY <1>1, <1>6, <1>12, <3>1, SameSpared DEF Control
    <2>2. \A c \in Cmd : /\ pipe' = Append(pipe, c) /\ Command1(c)'
                         /\ \A k \in 1..Len(pipe) :
                              /\ c.op \in Opening => pipe[k].id # c.id
                              /\ c.op \in {"D", "P"} /\ pipe[k].op \in {"D", "P"} => pipe[k].n < c.n
                         => Commands'
      BY <1>10, <2>1, CommandsAppend DEF Control
    <2> QED BY <1>1, <1>11, <2>1, <2>2
  <1>14. Reserved'
    <2> SUFFICES ASSUME NEW r \in Slot, type[r] = "RESERVE"
                 PROVE  \/ \E u \in Thread : at'[u] \in Holding /\ SlotOf(u)' = r
                        \/ \E k \in 1..Len(pipe') : pipe'[k].op \in Opening /\ HASH_ID(pipe'[k].id) = r
      BY <1>1 DEF Reserved
    <2>1. /\ Len(pipe') = Len(pipe) + 1 /\ Len(pipe) \in Nat /\ pipe'[Len(pipe) + 1] = d
          /\ \A k \in 1..Len(pipe) : pipe'[k] = pipe[k]
      BY <1>1, <1>6, Typed, Appended
    <2>2. CASE r = s
      <3>1. pipe'[Len(pipe) + 1].op \in Opening /\ HASH_ID(pipe'[Len(pipe) + 1].id) = r
        BY <1>6, <2>1, <2>2
      <3> QED BY <2>1, <3>1
    <2>3. CASE r # s
      <3>1. \/ \E u \in Thread : at[u] \in Holding /\ SlotOf(u) = r
            \/ \E k \in 1..Len(pipe) : pipe[k].op \in Opening /\ HASH_ID(pipe[k].id) = r
        BY DEF Control, Reserved
      <3>2. ASSUME NEW u \in Thread, at[u] \in Holding, SlotOf(u) = r
            PROVE  at'[u] \in Holding /\ SlotOf(u)' = r
        <4>1. u # t
          BY <1>2, <2>3, <3>2
        <4> QED BY <1>3, <3>2, <4>1
      <3> QED BY <2>1, <3>1, <3>2
    <2> QED BY <2>2, <2>3
  <1>15. Alive'
    <2> SUFFICES ASSUME NEW r \in Slot, type[r] \notin Idle
                 PROVE  /\ id[r] # 0 /\ use'[id[r]] # None /\ ~ ended[id[r]]
                        /\ type[r] \in {"PLISTEN", "LISTEN"} => use'[id[r]] = "L"
      BY <1>1 DEF Alive
    <2>1. /\ id[r] # 0 /\ use[id[r]] # None /\ ~ ended[id[r]]
          /\ type[r] \in {"PLISTEN", "LISTEN"} => use[id[r]] = "L"
      BY DEF Control, Alive
    <2>2. id[r] \in Id /\ id[r] # n
      BY <1>2, <2>1, SocketAssumption DEF TypeOK, Id
    <2> QED BY <1>7, <2>1, <2>2
  <1> QED BY <1>1, <1>8, <1>9, <1>13, <1>14, <1>15 DEF Control, Events, NoAbort

\* A service asks something of a socket, or writes to it.
LEMMA ServiceControl ==
  ASSUME TypeOK, Control, NEW d \in Cmd, pipe' = Append(pipe, d), d.op \notin Opening,
         use[d.id] # None,
         UNCHANGED <<type, id, alloc_id, ev, pc, closed, ended, at, newid, use>>,
         packets' \in Seq(Pack), Len(packets) <= Len(packets'),
         \A m \in 1..Len(packets) : packets'[m] = packets[m],
         d.op \in {"D", "P"} =>
           /\ use[d.id] \in {"O", "A"}
           /\ d.n = Len(packets) + 1 /\ d.n \in 1..Len(packets')
           /\ packets'[d.n] = [to |-> d.id, prio |-> d.op]
  PROVE  Control'
  <1>1. \A t \in Thread : SlotOf(t)' = SlotOf(t)
    BY DEF SlotOf
  <1>2. Threads'
    BY <1>1 DEF Control, Threads, Opens1
  <1>3. Kept
    BY DEF Kept
  <1>4. Command1(d)'
    BY DEF Command1
  <1>5. \A k \in 1..Len(pipe) :
          /\ Spares(pipe[k])
          /\ d.op \in Opening => pipe[k].id # d.id
          /\ d.op \in {"D", "P"} /\ pipe[k].op \in {"D", "P"} => pipe[k].n < d.n
    <2>1. \A k \in 1..Len(pipe) : pipe[k].op \in {"D", "P"} => pipe[k].n \in 1..Len(packets)
      BY DEF Control, Commands, Command1
    <2>2. Len(packets) \in Nat
      BY Typed
    <2> QED BY <2>1, <2>2, SameSpared DEF Control
  <1>6. Commands'
    BY <1>3, <1>4, <1>5, CommandsAppend DEF Control
  <1>7. Reserved'
    <2>1. /\ Len(pipe') = Len(pipe) + 1 /\ Len(pipe) \in Nat
          /\ \A k \in 1..Len(pipe) : pipe'[k] = pipe[k] /\ k \in 1..Len(pipe')
      BY Typed, Appended
    <2> QED BY <1>1, <2>1 DEF Control, Reserved
  <1> QED BY <1>2, <1>6, <1>7 DEF Control, Ids, Alive, Events, NoAbort

LEMMA ServiceRequestControl ==
  ASSUME TypeOK, Control, NEW i \in Id, NEW op \in {"S", "K"}, ServiceRequest(i, op)
  PROVE  Control'
  <1>1. [op |-> op, id |-> i, n |-> 0] \in Cmd
    BY SocketAssumption DEF Cmd
  <1> PICK d \in Cmd : d = [op |-> op, id |-> i, n |-> 0]
    BY <1>1
  <1>2. /\ pipe' = Append(pipe, d) /\ use[i] # None
        /\ UNCHANGED <<type, id, alloc_id, ev, pc, closed, ended, at, newid, use, packets>>
    BY SocketAssumption DEF ServiceRequest, Requested, slotVars, loopVars, threadVars
  <1>3. d.op \notin Opening /\ d.op \notin {"D", "P"} /\ d.id = i
    BY DEF Opening
  <1>4. /\ packets' \in Seq(Pack) /\ Len(packets) <= Len(packets')
        /\ \A m \in 1..Len(packets) : packets'[m] = packets[m]
    BY <1>2, Typed
  <1>5. use[d.id] # None
    BY <1>2, <1>3
  <1> QED BY <1>2, <1>3, <1>4, <1>5, ServiceControl

LEMMA ServiceSendControl ==
  ASSUME TypeOK, Control, NEW i \in Id, NEW prio \in {"D", "P"}, ServiceSend(i, prio)
  PROVE  Control'
  <1> DEFINE n == Len(packets) + 1
  <1>1. n \in 0..MaxSends /\ Len(packets) \in Nat
    BY Typed, SocketAssumption DEF ServiceSend
  <1>2. [op |-> prio, id |-> i, n |-> n] \in Cmd /\ [to |-> i, prio |-> prio] \in Pack
    BY <1>1 DEF Cmd, Pack
  <1>3. PICK d \in Cmd : d = [op |-> prio, id |-> i, n |-> Len(packets) + 1]
    BY <1>2
  <1>4. /\ pipe' = Append(pipe, d) /\ packets' = Append(packets, [to |-> i, prio |-> prio])
        /\ UNCHANGED <<type, id, alloc_id, ev, pc, closed, ended, at, newid, use>>
    BY <1>3 DEF ServiceSend, Requested, slotVars, loopVars, threadVars
  <1>5. /\ d.op \notin Opening /\ d.op = prio /\ d.id = i /\ d.n = n
        /\ use[i] \in {"O", "A"} /\ use[i] # None
    BY <1>3, SocketAssumption DEF Opening, ServiceSend
  <1>6. /\ packets' \in Seq(Pack) /\ Len(packets') = n
        /\ \A m \in 1..Len(packets) : packets'[m] = packets[m]
        /\ packets'[n] = [to |-> i, prio |-> prio]
    BY <1>2, <1>4, Appended, Typed
  <1>7. n \in 1..n /\ Len(packets) <= n
    BY <1>1
  <1> HIDE DEF n
  <1>8. d.n \in 1..Len(packets') /\ packets'[d.n] = [to |-> d.id, prio |-> d.op]
    BY <1>5, <1>6, <1>7
  <1>9. d.n = Len(packets) + 1 /\ use[d.id] # None /\ use[d.id] \in {"O", "A"}
    BY <1>5 DEF n
  <1>10. Len(packets) <= Len(packets')
    BY <1>6, <1>7
  <1> QED BY <1>4, <1>5, <1>6, <1>8, <1>9, <1>10, ServiceControl

-----------------------------------------------------------------------------
(* The steps of the socket thread: what they keep                          *)

\* The socket thread deals with socket i: only its slot changes, if it is still
\* the slot of i, and only what was said of i.
Deals(i) ==
  LET s == HASH_ID(i)
  IN /\ UNCHANGED <<id, alloc_id, use, asked, packets, at, newid>>
     /\ use[i] # None
     /\ \A r \in Slot : r # s => type'[r] = type[r]
     /\ \A j \in Id : j # i => ended'[j] = ended[j]
     /\ ended[i] => ended'[i]
     /\ type'[s] # type[s] =>
          /\ id[s] = i /\ type'[s] # "RESERVE"
          /\ \A t \in Thread : at[t] \in Holding => SlotOf(t) # s
     /\ type'[s] \notin Idle /\ id[s] = i =>
          ~ ended'[i] /\ (type'[s] \in {"PLISTEN", "LISTEN"} => use[i] = "L")

\* It takes the first command, or none.
Takes(i) ==
  /\ pipe' = pipe \/ (pipe # <<>> /\ pipe' = Tail(pipe))
  /\ pipe # <<>> /\ pipe' = Tail(pipe) /\ Head(pipe).op \in Opening =>
       Head(pipe).id = i /\ type'[HASH_ID(i)] # "RESERVE"
  /\ \A k \in 1..Len(pipe') : pipe'[k].op \in Opening => pipe'[k].id # i

\* It goes on with the events that are left, all about sockets that are watched.
Leaves(i) ==
  LET s == HASH_ID(i)
  IN /\ pc # "clear" /\ pc' # "aborted"
     /\ ev' = ev \/ (ev # <<>> /\ ev' = Tail(ev))
     /\ \/ type'[s] = type[s]
        \/ type'[s] \in Watched
        \/ pc' = "clear" /\ type'[s] = "INVALID" /\ closed' = id[s]
        \/ \A k \in 1..Len(ev') : ev'[k].s # s

\* The remaining events come from those of before.
LEMMA EventsLeft ==
  ASSUME TypeOK, Events, pc # "clear", ev' = ev \/ (ev # <<>> /\ ev' = Tail(ev))
  PROVE  /\ \A k \in 1..Len(ev') : ev'[k].s # None => ev'[k].s \in Slot /\ type[ev'[k].s] \in Watched
         /\ \A j, k \in 1..Len(ev') : ev'[j].s # None /\ ev'[j].s = ev'[k].s => j = k
  <1>1. CASE ev' = ev
    BY <1>1, EventSlots DEF Events
  <1>2. CASE ev # <<>> /\ ev' = Tail(ev)
    <2>1. /\ Len(ev') = Len(ev) - 1 /\ Len(ev) \in Nat
          /\ \A k \in 1..Len(ev') : ev'[k] = ev[k + 1] /\ k + 1 \in 1..Len(ev)
      BY <1>2, Rest, Typed
    <2>2. ASSUME NEW k \in 1..Len(ev'), ev'[k].s # None
          PROVE  ev'[k].s \in Slot /\ type[ev'[k].s] \in Watched
      <3>1. ev'[k] = ev[k + 1] /\ k + 1 \in 1..Len(ev)
        BY <2>1
      <3> QED BY <2>2, <3>1, EventSlots DEF Events
    <2>3. ASSUME NEW j \in 1..Len(ev'), NEW k \in 1..Len(ev'), ev'[j].s # None, ev'[j].s = ev'[k].s
          PROVE  j = k
      <3>1. /\ ev'[j] = ev[j + 1] /\ j + 1 \in 1..Len(ev)
            /\ ev'[k] = ev[k + 1] /\ k + 1 \in 1..Len(ev)
        BY <2>1
      <3>2. j + 1 = k + 1
        BY <2>3, <3>1 DEF Events
      <3> QED BY <3>2
    <2> QED BY <2>2, <2>3
  <1> QED BY <1>1, <1>2

LEMMA LoopControl ==
  ASSUME TypeOK, Control, NEW i \in Id, Deals(i), Takes(i), Leaves(i)
  PROVE  Control'
  <1> DEFINE s == HASH_ID(i)
  <1>0. s \in Slot
    BY IdSlot
  <1>1. /\ UNCHANGED <<id, alloc_id, use, packets, at, newid>> /\ use[i] # None
        /\ \A r \in Slot : r # s => type'[r] = type[r]
        /\ \A j \in Id : j # i => ended'[j] = ended[j]
    BY DEF Deals
  <1>2. type'[s] # type[s] =>
          /\ id[s] = i /\ type'[s] # "RESERVE"
          /\ \A t \in Thread : at[t] \in Holding => SlotOf(t) # s
    BY DEF Deals
  <1>3. type'[s] \notin Idle /\ id[s] = i =>
          ~ ended'[i] /\ (type'[s] \in {"PLISTEN", "LISTEN"} => use[i] = "L")
    BY DEF Deals
  <1> HIDE DEF s
  <1>4. Threads'
    <2>1. \A t \in Thread : at[t] \in Holding => type'[SlotOf(t)] = type[SlotOf(t)]
      BY <1>1, <1>2, ThreadSlot
    <2> QED BY <1>1, <2>1, ThreadsKept, SocketAssumption DEF Control, TypeOK
  <1>5. Ids'
    BY <1>1, IdsKept DEF Control
  <1>6. Kept
    BY <1>1, Typed DEF Kept
  <1>7. \A c \in Cmd : Command1(c) /\ c.id # i => Spares(c)
    <2> TAKE c \in Cmd
    <2> SUFFICES ASSUME Command1(c), c.id # i, c.op \in Opening
                 PROVE  /\ type'[HASH_ID(c.id)] = type[HASH_ID(c.id)] /\ ~ ended'[c.id]
      BY <1>1 DEF Spares
    <2>1. c.id \in Id /\ HASH_ID(c.id) \in Slot
      BY IdSlot DEF Cmd
    <2>2. ~ ended[c.id] /\ id[HASH_ID(c.id)] = c.id
      BY DEF Command1
    <2> QED BY <1>1, <1>2, <2>1, <2>2
  <1>8. Commands'
    <2>1. CASE pipe' = pipe
      <3>1. \A k \in 1..Len(pipe) : Spares(pipe[k])
        <4> TAKE k \in 1..Len(pipe)
        <4> PICK c \in Cmd : c = pipe[k]
          BY Typed
        <4>1. Command1(c) /\ (c.op \in Opening => c.id # i)
          BY <2>1 DEF Control, Commands, Takes
        <4> QED BY <1>7, <4>1 DEF Spares
      <3> QED BY <1>6, <2>1, <3>1, CommandsStay DEF Control
    <2>2. CASE pipe # <<>> /\ pipe' = Tail(pipe)
      <3>0. /\ Len(pipe) \in Nat
            /\ \A k \in 1..Len(pipe) : k = 1 \/ (k - 1 \in 1..Len(pipe') /\ pipe[k] = pipe'[k - 1])
        BY <2>2, Rest, Typed
      <3>1. \A k \in 2..Len(pipe) : Spares(pipe[k])
        <4> TAKE k \in 2..Len(pipe)
        <4> PICK c \in Cmd : c = pipe[k]
          BY <3>0, Typed
        <4>1. Command1(c)
          BY <3>0 DEF Control, Commands
        <4>2. c.op \in Opening => c.id # i
          BY <3>0 DEF Takes
        <4> QED BY <1>7, <4>1, <4>2 DEF Spares
      <3> QED BY <1>6, <2>2, <3>1, CommandsTail DEF Control
    <2> QED BY <2>1, <2>2 DEF Takes
  <1>9. Reserved'
    <2>1. \A r \in Slot : type'[r] = "RESERVE" => type[r] = "RESERVE"
      BY <1>1, <1>2
    <2> QED BY <1>1, <2>1, ReservedStay DEF Control, Takes, s
  <1>10. Alive'
    <2> SUFFICES ASSUME NEW r \in Slot, type'[r] \notin Idle
                 PROVE  /\ id[r] # 0 /\ use[id[r]] # None /\ ~ ended'[id[r]]
                        /\ type'[r] \in {"PLISTEN", "LISTEN"} => use[id[r]] = "L"
      BY <1>1 DEF Alive
    <2>0. i # 0
      BY SocketAssumption DEF Id
    <2>1. CASE id[r] = i
      <3>1. r = s
        BY <2>0, <2>1 DEF Control, Ids, s
      <3> QED BY <1>1, <1>3, <2>0, <2>1, <3>1
    <2>2. CASE id[r] # i
      <3>1. type'[r] = type[r]
        BY <1>1, <1>2, <2>2
      <3>2. /\ id[r] # 0 /\ use[id[r]] # None /\ ~ ended[id[r]]
            /\ type'[r] \in {"PLISTEN", "LISTEN"} => use[id[r]] = "L"
        BY <3>1 DEF Control, Alive
      <3>3. id[r] \in Id
        BY <3>2, SocketAssumption DEF TypeOK, Id
      <3> QED BY <1>1, <2>2, <3>2, <3>3
    <2> QED BY <2>1, <2>2
  <1>11. Events'
    <2>1. pc # "clear" /\ (ev' = ev \/ (ev # <<>> /\ ev' = Tail(ev)))
      BY DEF Leaves
    <2>2. /\ \A k \in 1..Len(ev') : ev'[k].s # None => ev'[k].s \in Slot /\ type[ev'[k].s] \in Watched
          /\ \A j, k \in 1..Len(ev') : ev'[j].s # None /\ ev'[j].s = ev'[k].s => j = k
      BY <2>1, EventsLeft DEF Control
    <2>3. \/ type'[s] = type[s]
          \/ type'[s] \in Watched
          \/ pc' = "clear" /\ type'[s] = "INVALID" /\ closed' = id[s]
          \/ \A k \in 1..Len(ev') : ev'[k].s # s
      BY DEF Leaves, s
    <2>4. \A k \in 1..Len(ev') : ev'[k].s # None =>
            \/ type'[ev'[k].s] \in Watched
            \/ pc' = "clear" /\ type'[ev'[k].s] = "INVALID" /\ id'[ev'[k].s] = closed'
      <3> TAKE k \in 1..Len(ev')
      <3> HAVE ev'[k].s # None
      <3>1. CASE ev'[k].s = s
        BY <1>1, <2>2, <2>3, <3>1
      <3>2. CASE ev'[k].s # s
        BY <1>1, <2>2, <3>2
      <3> QED BY <3>1, <3>2
    <2> QED BY <2>2, <2>4 DEF Events
  <1> QED BY <1>4, <1>5, <1>8, <1>9, <1>10, <1>11 DEF Control, NoAbort, Leaves

-----------------------------------------------------------------------------
(* What happens to the buffers                                             *)

Unit == 1..MaxSends

LEMMA Parity ==
  /\ \A x, y \in Nat : x % 2 = 0 => (x + y) % 2 = y % 2
  /\ \A x, y \in Nat : y % 2 = 0 => (x + y) % 2 = x % 2
  /\ \A x \in Nat : x % 2 = 0 \/ x % 2 = 1
  /\ \A x \in Nat : (x + 1) % 2 # x % 2
  /\ \A x, y \in Nat : x % 2 = 1 /\ y % 2 = 0 /\ x <= y => x + 1 <= y
  /\ \A x \in Nat : x % 2 = 0 => x # 1
  /\ \A x \in Nat : x # 0 /\ x # 1 => 1 \in 1..x /\ 2 \in 1..x
  /\ 1 % 2 = 1 /\ 0 % 2 = 0
  OBVIOUS

\* The low buffer begins with the first unit of a packet, and its packets are
\* whole.
LEMMA LowPairs ==
  ASSUME NEW a \in Seq(Unit), NEW h \in Seq(Unit), NEW l \in Seq(Unit),
         Paired(a \o h \o l), Len(l) % 2 = 0
  PROVE  /\ (Len(a) + Len(h)) % 2 = 0
         /\ \A k \in 1..Len(l) : k % 2 = 1 => k + 1 \in 1..Len(l) /\ l[k] = l[k + 1]
         /\ \A k \in 1..Len(l) : k + 1 \in 1..Len(l) /\ l[k] = l[k + 1] => k % 2 = 1
  <1> DEFINE q == a \o h \o l
             m == Len(a) + Len(h)
  <1>1. /\ Len(a) \in Nat /\ Len(h) \in Nat /\ Len(l) \in Nat /\ Len(q) = m + Len(l)
        /\ \A k \in 1..Len(l) : q[m + k] = l[k]
    BY Row
  <1>2. /\ Len(q) % 2 = 0
        /\ \A k \in 1..Len(q) : k % 2 = 1 => q[k] = q[k + 1]
        /\ \A j, k \in 1..Len(q) : j < k /\ q[j] = q[k] => j % 2 = 1 /\ k = j + 1
    BY DEF Paired
  <1> HIDE DEF q
  <1>3. m % 2 = 0 /\ m \in Nat
    <2>1. m \in Nat
      BY <1>1
    <2> HIDE DEF m
    <2>2. (m + Len(l)) % 2 = m % 2
      BY <1>1, <2>1, Parity
    <2> QED BY <1>1, <1>2, <2>1, <2>2
  <1>4. \A k \in Nat : (m + k) % 2 = k % 2
    BY <1>3
  <1> HIDE DEF m
  <1>5. ASSUME NEW k \in 1..Len(l), k % 2 = 1
        PROVE  k + 1 \in 1..Len(l) /\ l[k] = l[k + 1]
    <2>1. k + 1 <= Len(l) /\ k \in Nat
      BY <1>1, <1>5
    <2>2. m + k \in 1..Len(q) /\ (m + k) % 2 = 1 /\ m + k + 1 = m + (k + 1)
      BY <1>1, <1>3, <1>4, <1>5, <2>1
    <2>3. q[m + k] = q[m + (k + 1)]
      BY <1>2, <2>2
    <2>4. k + 1 \in 1..Len(l)
      BY <1>1, <2>1
    <2> QED BY <1>1, <1>5, <2>3, <2>4
  <1>6. ASSUME NEW k \in 1..Len(l), k + 1 \in 1..Len(l), l[k] = l[k + 1]
        PROVE  k % 2 = 1
    <2>1. m + k \in 1..Len(q) /\ m + (k + 1) \in 1..Len(q) /\ m + k < m + (k + 1)
      <3>1. k \in Nat /\ 1 <= k /\ k + 1 <= Len(l) /\ Len(l) \in Nat /\ m \in Nat /\ Len(q) = m + Len(l)
        BY <1>1, <1>3, <1>6
      <3> QED BY ONLY <3>1
    <2>2. q[m + k] = q[m + (k + 1)]
      BY <1>1, <1>6
    <2>3. (m + k) % 2 = 1
      BY <1>2, <2>1, <2>2
    <2> QED BY <1>4, <2>3
  <1> QED BY <1>3, <1>5, <1>6 DEF m

\* A low buffer never begins with a packet that was sent in part.
LEMMA LowComplete ==
  ASSUME NEW a \in Seq(Unit), NEW h \in Seq(Unit), NEW l \in Seq(Unit),
         Paired(a \o h \o l), LowWhole(l)
  PROVE  ~ Uncomplete(l)
  <1>1. Len(l) % 2 = 0 /\ Len(l) \in Nat
    BY DEF LowWhole
  <1>3. 1 % 2 = 1
    BY Parity
  <1>2. l # <<>> => 1 \in 1..Len(l) /\ Len(l) # 1
    <2>1. l # <<>> => Len(l) # 0
      BY EmptySeq
    <2>2. Len(l) # 1
      BY <1>1, Parity
    <2>3. Len(l) \in Nat
      BY <1>1
    <2>4. Len(l) # 0 => 1 \in 1..Len(l)
      BY ONLY <2>3
    <2> QED BY <2>1, <2>2, <2>4
  <1>4. \A k \in 1..Len(l) : k % 2 = 1 => k + 1 \in 1..Len(l) /\ l[k] = l[k + 1]
    BY <1>1, LowPairs
  <1>5. l # <<>> => l[1] = l[2]
    BY <1>2, <1>3, <1>4
  <1> QED BY <1>2, <1>5 DEF Uncomplete

\* A sequence cut in two.
LEMMA Cut ==
  ASSUME NEW S, NEW q \in Seq(S), NEW n \in 0..Len(q)
  PROVE  /\ Prefix(q, n) \in Seq(S) /\ Suffix(q, n) \in Seq(S)
         /\ Len(Prefix(q, n)) = n /\ Len(Suffix(q, n)) = Len(q) - n
         /\ \A k \in 1..(Len(q) - n) : Suffix(q, n)[k] = q[n + k]
         /\ Prefix(q, n) \o Suffix(q, n) = q
  <1>1. Len(q) \in Nat /\ n \in Nat /\ n <= Len(q)
    OBVIOUS
  <1>2. Prefix(q, n) \in Seq(S) /\ Len(Prefix(q, n)) = n /\ \A k \in 1..n : Prefix(q, n)[k] = q[k]
    BY <1>1 DEF Prefix
  <1>3. /\ Suffix(q, n) \in Seq(S) /\ Len(Suffix(q, n)) = Len(q) - n
        /\ \A k \in 1..(Len(q) - n) : Suffix(q, n)[k] = q[n + k]
    BY <1>1 DEF Suffix
  <1>4. Prefix(q, n) \o Suffix(q, n) = q
    <2>1. SubSeq(q, 1, n) \o SubSeq(q, n + 1, Len(q)) = SubSeq(q, 1, Len(q))
      <3>1. 1 \in 1..Len(q) + 1 /\ n \in (1 - 1)..Len(q) /\ Len(q) \in n..Len(q)
        BY <1>1
      <3> QED BY <3>1, ConcatAdjacentSubSeq
    <2> QED BY <2>1, SubSeqFull DEF Prefix, Suffix
  <1> QED BY <1>2, <1>3, <1>4

\* A low buffer of which n units have gone: what is left begins with the second
\* unit of a packet, or has whole packets only.
LEMMA LowLeft ==
  ASSUME NEW a \in Seq(Unit), NEW h \in Seq(Unit), NEW l \in Seq(Unit),
         Paired(a \o h \o l), LowWhole(l), NEW n \in 0..Len(l)
  PROVE  IF Uncomplete(Suffix(l, n))
         THEN Suffix(l, n) # <<>> /\ LowWhole(Tail(Suffix(l, n))) /\ n > 0
         ELSE LowWhole(Suffix(l, n))
  <1> DEFINE r == Suffix(l, n)
  <1>1. /\ Len(l) % 2 = 0 /\ Len(l) \in Nat /\ n \in Nat /\ n <= Len(l)
        /\ \A k \in 1..Len(l) : packets[l[k]].prio = "P"
    BY DEF LowWhole
  <1>2. /\ r \in Seq(Unit) /\ Len(r) = Len(l) - n
        /\ \A k \in 1..Len(r) : r[k] = l[n + k] /\ n + k \in 1..Len(l)
    <2>1. /\ r \in Seq(Unit) /\ Len(r) = Len(l) - n
          /\ \A k \in 1..(Len(l) - n) : r[k] = l[n + k]
      BY Cut
    <2> HIDE DEF r
    <2>2. ASSUME NEW k \in 1..Len(r)
          PROVE  r[k] = l[n + k] /\ n + k \in 1..Len(l)
      <3>1. k \in 1..(Len(l) - n)
        BY <2>1
      <3>2. r[k] = l[n + k]
        BY <2>1, <3>1
      <3>3. n + k \in 1..Len(l)
        BY <1>1, <3>1
      <3> QED BY <3>2, <3>3
    <2> QED BY <2>1, <2>2
  <1>3. /\ \A k \in 1..Len(l) : k % 2 = 1 => k + 1 \in 1..Len(l) /\ l[k] = l[k + 1]
        /\ \A k \in 1..Len(l) : k + 1 \in 1..Len(l) /\ l[k] = l[k + 1] => k % 2 = 1
    BY <1>1, LowPairs
  <1> HIDE DEF r
  <1>4. \A k \in 1..Len(r) : packets[r[k]].prio = "P"
    BY <1>1, <1>2
  <1>5. Len(r) \in Nat /\ n + Len(r) = Len(l)
    BY <1>1, <1>2
  <1>6. CASE n % 2 = 0
    <2>1. Len(r) % 2 = 0
      <3>1. (n + Len(r)) % 2 = Len(r) % 2
        BY <1>1, <1>5, <1>6, Parity
      <3> QED BY <1>1, <1>5, <3>1
    <2>2. LowWhole(r)
      BY <1>4, <2>1 DEF LowWhole
    <2>3. r # <<>> => Len(r) # 1 /\ r[1] = r[2]
      <3> HAVE r # <<>>
      <3>1. Len(r) # 0 /\ Len(r) # 1
        BY <1>2, <1>5, <2>1, Parity, EmptySeq
      <3>2. 1 \in 1..Len(r) /\ 2 \in 1..Len(r)
        BY <1>5, <3>1, Parity
      <3>3. r[1] = l[n + 1] /\ n + 1 \in 1..Len(l) /\ r[2] = l[n + 2]
        BY <1>2, <3>2
      <3>4. (n + 1) % 2 = 1
        BY <1>1, <1>6, Parity
      <3>5. l[n + 1] = l[(n + 1) + 1] /\ (n + 1) + 1 = n + 2
        BY <1>1, <1>3, <3>3, <3>4
      <3> QED BY <3>1, <3>3, <3>5
    <2> QED BY <2>2, <2>3 DEF Uncomplete, r
  <1>7. CASE n % 2 = 1
    <2>1. n + 1 <= Len(l) /\ n > 0
      <3>1. n # 0
        BY <1>7, Parity
      <3>2. n + 1 <= Len(l)
        BY <1>1, <1>7, Parity
      <3> QED BY <1>1, <3>1, <3>2
    <2>2. r # <<>> /\ 1 \in 1..Len(r)
      BY <1>1, <1>2, <2>1, EmptySeq
    <2>3. Len(r) # 1 => r[1] # r[2]
      <3> HAVE Len(r) # 1
      <3>0. Len(r) # 0
        BY <1>5, <2>2
      <3>1. 2 \in 1..Len(r)
        BY <1>5, <3>0, Parity
      <3>2. r[1] = l[n + 1] /\ n + 1 \in 1..Len(l) /\ r[2] = l[n + 2] /\ n + 2 \in 1..Len(l)
        BY <1>2, <2>2, <3>1
      <3>3. (n + 1) % 2 # 1
        BY <1>1, <1>7, Parity
      <3>4. (n + 1) + 1 = n + 2
        BY <1>1
      <3> QED BY <1>3, <3>2, <3>3, <3>4
    <2>4. Uncomplete(r)
      BY <2>2, <2>3 DEF Uncomplete
    <2>5. /\ Len(Tail(r)) = Len(r) - 1
          /\ \A k \in 1..Len(Tail(r)) : Tail(r)[k] = r[k + 1] /\ k + 1 \in 1..Len(r)
      BY <1>2, <2>2, Rest
    <2>6. Len(Tail(r)) % 2 = 0
      <3>1. Len(Tail(r)) \in Nat /\ (n + 1) + Len(Tail(r)) = Len(l)
        BY <1>1, <1>5, <2>2, <2>5
      <3>2. (n + 1) \in Nat /\ (n + 1) % 2 = 0
        BY <1>1, <1>7, Parity
      <3>3. ((n + 1) + Len(Tail(r))) % 2 = Len(Tail(r)) % 2
        BY <3>1, <3>2, Parity
      <3> QED BY <1>1, <3>1, <3>3
    <2>7. LowWhole(Tail(r))
      BY <1>4, <2>5, <2>6 DEF LowWhole
    <2> QED BY <2>1, <2>2, <2>4, <2>7 DEF r
  <1> QED BY <1>1, <1>6, <1>7, Parity

LEMMA Associative ==
  ASSUME NEW x \in Seq(Unit), NEW y \in Seq(Unit), NEW z \in Seq(Unit)
  PROVE  (x \o y) \o z = x \o (y \o z)
  BY ConcatAssociative

\* Writing moves units from the buffers to the connection, and raise_uncomplete
\* one from the low buffer to the end of the high one: their order stays.
LEMMA WrittenUnits ==
  ASSUME NEW a \in Seq(Unit), NEW h \in Seq(Unit), NEW l \in Seq(Unit),
         Paired(a \o h \o l), LowWhole(l),
         NEW m \in 0..Len(h), NEW n \in 0..Len(l), n > 0 => m = Len(h)
  PROVE  LET a2 == a \o Prefix(h, m) \o Prefix(l, n)
             r  == Suffix(l, n)
             h2 == IF Uncomplete(r) THEN Suffix(h, m) \o <<r[1]>> ELSE Suffix(h, m)
             l2 == IF Uncomplete(r) THEN Tail(r) ELSE r
         IN /\ a2 \in Seq(Unit) /\ h2 \in Seq(Unit) /\ l2 \in Seq(Unit)
            /\ a2 \o h2 \o l2 = a \o h \o l
            /\ LowWhole(l2)
  <1> DEFINE ph == Prefix(h, m)
             sh == Suffix(h, m)
             pl == Prefix(l, n)
             r == Suffix(l, n)
  <1>0. Len(h) \in Nat /\ Len(l) \in Nat
    OBVIOUS
  <1>1. /\ ph \in Seq(Unit) /\ sh \in Seq(Unit) /\ ph \o sh = h
        /\ Len(ph) = m /\ Len(sh) = Len(h) - m
    BY Cut
  <1>2. /\ pl \in Seq(Unit) /\ r \in Seq(Unit) /\ pl \o r = l /\ Len(pl) = n
    BY Cut
  <1>3. IF Uncomplete(r) THEN r # <<>> /\ LowWhole(Tail(r)) /\ n > 0 ELSE LowWhole(r)
    BY LowLeft
  <1> HIDE DEF ph, sh, pl, r
  <1>4. CASE n = 0
    <2>1. pl = <<>>
      BY <1>2, <1>4, EmptySeq
    <2>2. ~ Uncomplete(r) /\ r = l
      BY <1>2, <1>3, <1>4, <2>1, ConcatEmptySeq
    <2>3. a \o ph \o pl = a \o ph /\ a \o ph \in Seq(Unit)
      BY <1>1, <2>1, ConcatEmptySeq
    <2>4. a \o ph \o sh \o l = a \o h \o l
      <3>0. ph \in Seq(Unit) /\ sh \in Seq(Unit)
        BY <1>1
      <3>1. (a \o ph) \o sh = a \o (ph \o sh)
        BY ONLY a \in Seq(Unit), <3>0, Associative
      <3> QED BY <1>1, <3>1
    <2> QED BY <1>1, <1>2, <1>3, <2>2, <2>3, <2>4 DEF ph, sh, pl, r
  <1>5. CASE n > 0
    <2>1. sh = <<>> /\ ph = h
      <3>1. Len(sh) = 0
        BY <1>0, <1>1, <1>5
      <3>2. sh = <<>>
        BY <1>1, <3>1, EmptySeq
      <3> QED BY <1>1, <3>2, ConcatEmptySeq
    <2> DEFINE b == a \o h
    <2>2. b \in Seq(Unit)
      OBVIOUS
    <2> HIDE DEF b
    <2>3. b \o pl \in Seq(Unit) /\ b \o pl \o r = b \o l
      <3>1. (b \o pl) \o r = b \o (pl \o r)
        BY <1>2, <2>2, Associative
      <3> QED BY <1>2, <2>2, <3>1
    <2>4. CASE ~ Uncomplete(r)
      <3>1. (b \o pl) \o sh = b \o pl
        BY <2>1, <2>3, ConcatEmptySeq
      <3> QED BY <1>1, <1>2, <1>3, <2>1, <2>3, <2>4, <3>1 DEF ph, sh, pl, r, b
    <2>5. CASE Uncomplete(r)
      <3>1. Tail(r) \in Seq(Unit) /\ <<r[1]>> \in Seq(Unit) /\ <<r[1]>> \o Tail(r) = r
        BY <1>2, <1>3, <2>5
      <3>2. sh \o <<r[1]>> = <<r[1]>>
        BY <2>1, <3>1, ConcatEmptySeq
      <3>3. (b \o pl) \o <<r[1]>> \o Tail(r) = b \o pl \o r
        <4>1. ((b \o pl) \o <<r[1]>>) \o Tail(r) = (b \o pl) \o (<<r[1]>> \o Tail(r))
          BY <2>3, <3>1, Associative
        <4> QED BY <3>1, <4>1
      <3> QED BY <1>1, <1>2, <1>3, <2>1, <2>3, <2>5, <3>1, <3>2, <3>3 DEF ph, sh, pl, r, b
    <2> QED BY <2>4, <2>5
  <1>6. n = 0 \/ n > 0
    BY <1>0
  <1> QED BY <1>4, <1>5, <1>6

\* A packet is put between the units u and v: what stands where.
LEMMA Inserted ==
  ASSUME NEW u \in Seq(Unit), NEW v \in Seq(Unit), NEW n \in Unit
  PROVE  LET q == u \o v
             p == u \o <<n, n>> \o v
             m == Len(u)
         IN /\ p \in Seq(Unit) /\ Len(p) = Len(q) + 2 /\ Len(q) \in Nat /\ m \in Nat /\ m <= Len(q)
            /\ \A k \in 1..Len(v) : q[m + k] = v[k]
            /\ Len(q) = m + Len(v)
            /\ \A k \in 1..Len(p) :
                 \/ k \in 1..m /\ p[k] = q[k]
                 \/ k \in {m + 1, m + 2} /\ p[k] = n
                 \/ k - 2 \in (m + 1)..Len(q) /\ p[k] = q[k - 2]
  <1> DEFINE q == u \o v
             w == <<n, n>>
             p == u \o w \o v
             m == Len(u)
  <1>1. w \in Seq(Unit) /\ Len(w) = 2 /\ w[1] = n /\ w[2] = n
    OBVIOUS
  <1> HIDE DEF w
  <1>2. /\ p \in Seq(Unit) /\ Len(p) = m + 2 + Len(v) /\ m \in Nat /\ Len(v) \in Nat
        /\ \A k \in 1..m : p[k] = u[k]
        /\ \A k \in 1..2 : p[m + k] = w[k]
        /\ \A k \in 1..Len(v) : p[m + 2 + k] = v[k]
    <2>0. w \in Seq(Unit)
      BY <1>1
    <2>1. /\ p \in Seq(Unit) /\ Len(p) = m + Len(w) + Len(v)
          /\ \A k \in 1..m : p[k] = u[k]
          /\ \A k \in 1..Len(w) : p[m + k] = w[k]
          /\ \A k \in 1..Len(v) : p[m + Len(w) + k] = v[k]
      BY <2>0, Row
    <2>2. m \in Nat /\ Len(v) \in Nat
      OBVIOUS
    <2> HIDE DEF p, m
    <2> QED BY <1>1, <2>1, <2>2
  <1>3. /\ Len(q) = m + Len(v)
        /\ \A k \in 1..m : q[k] = u[k]
        /\ \A k \in 1..Len(v) : q[m + k] = v[k]
    OBVIOUS
  <1> HIDE DEF p, q, m
  <1>4. ASSUME NEW k \in 1..Len(p)
        PROVE  \/ k \in 1..m /\ p[k] = q[k]
               \/ k \in {m + 1, m + 2} /\ p[k] = n
               \/ k - 2 \in (m + 1)..Len(q) /\ p[k] = q[k - 2]
    <2>0. k \in Nat /\ 1 <= k /\ k <= m + 2 + Len(v)
      BY <1>2
    <2>1. CASE k <= m
      BY <1>2, <1>3, <2>0, <2>1
    <2>2. CASE k = m + 1
      <3>1. p[k] = w[1]
        BY <1>2, <2>2
      <3> QED BY <1>1, <2>2, <3>1
    <2>3. CASE k = m + 2
      <3>1. p[k] = w[2]
        BY <1>2, <2>3
      <3> QED BY <1>1, <2>3, <3>1
    <2>4. CASE k > m + 2
      <3>0. PICK j \in 1..Len(v) : j = k - m - 2
        BY <1>2, <2>0, <2>4
      <3>1. k = m + 2 + j /\ k - 2 = m + j /\ k - 2 \in (m + 1)..Len(q)
        BY <1>2, <1>3, <2>0, <2>4, <3>0
      <3>2. p[k] = v[j] /\ q[k - 2] = v[j]
        BY <1>2, <1>3, <3>1
      <3> QED BY <3>1, <3>2
    <2> QED BY <1>2, <2>0, <2>1, <2>2, <2>3, <2>4
  <1>5. Len(p) = Len(q) + 2 /\ Len(q) \in Nat /\ m <= Len(q)
    BY <1>2, <1>3
  <1> QED BY <1>2, <1>3, <1>4, <1>5 DEF p, q, w, m

\* A new packet at the end of what goes out, or between the packets of high and
\* those of low priority, is whole and in order.
LEMMA PushedUnits ==
  ASSUME packets \in Seq(Pack),
         NEW i \in Id, NEW u \in Seq(Unit), NEW v \in Seq(Unit), NEW n \in Unit,
         Paired(u \o v), Proper(u \o v, i), Len(u) % 2 = 0,
         n \in 1..Len(packets), packets[n].to = i,
         \A k \in 1..Len(u \o v) : (u \o v)[k] < n,
         \A k \in 1..Len(v) : packets[v[k]].prio # packets[n].prio
  PROVE  LET p == u \o <<n, n>> \o v
         IN Paired(p) /\ Proper(p, i) /\ (\A k \in 1..Len(p) : p[k] <= n)
  <1> DEFINE q == u \o v
             p == u \o <<n, n>> \o v
             m == Len(u)
  <1>1. /\ p \in Seq(Unit) /\ Len(p) = Len(q) + 2 /\ Len(q) \in Nat /\ m \in Nat /\ m <= Len(q)
        /\ \A k \in 1..Len(v) : q[m + k] = v[k]
        /\ Len(q) = m + Len(v)
    BY Inserted
  <1>2. \A k \in 1..Len(p) :
          \/ k \in 1..m /\ p[k] = q[k]
          \/ k \in {m + 1, m + 2} /\ p[k] = n
          \/ k - 2 \in (m + 1)..Len(q) /\ p[k] = q[k - 2]
    BY Inserted
  <1>3. /\ Len(q) % 2 = 0
        /\ \A k \in 1..Len(q) : k % 2 = 1 => q[k] = q[k + 1]
        /\ \A j, k \in 1..Len(q) : j < k /\ q[j] = q[k] => j % 2 = 1 /\ k = j + 1
    BY DEF Paired
  <1>4. /\ \A k \in 1..Len(q) : q[k] \in 1..Len(packets) /\ packets[q[k]].to = i
        /\ \A j, k \in 1..Len(q) :
             j < k /\ packets[q[j]].prio = packets[q[k]].prio => q[j] <= q[k]
    BY DEF Proper
  <1>5. m % 2 = 0 /\ n \in Nat
    BY DEF Unit
  <1>6. \A k \in (m + 1)..Len(q) : packets[q[k]].prio # packets[n].prio
    <2> TAKE k \in (m + 1)..Len(q)
    <2>0. Len(v) \in Nat
      OBVIOUS
    <2> HIDE DEF q, m
    <2>1. k - m \in 1..Len(v) /\ m + (k - m) = k
      BY <1>1, <2>0
    <2>2. q[k] = v[k - m]
      BY <1>1, <2>1
    <2> QED BY <2>1, <2>2
  <1>7. \A k \in 1..Len(q) : q[k] < n /\ q[k] \in Nat
    BY <1>4
  <1> HIDE DEF p, q, m
  <1>8. \A k \in 1..Len(p) : p[k] \in 1..Len(packets) /\ packets[p[k]].to = i /\ p[k] <= n
    <2> TAKE k \in 1..Len(p)
    <2>1. CASE k \in 1..m /\ p[k] = q[k]
      BY <1>1, <1>4, <1>7, <2>1, <1>5
    <2>2. CASE k \in {m + 1, m + 2} /\ p[k] = n
      BY <1>5, <2>2
    <2>3. CASE k - 2 \in (m + 1)..Len(q) /\ p[k] = q[k - 2]
      <3>1. k - 2 \in 1..Len(q)
        BY <1>1, <2>3
      <3> QED BY <1>4, <1>5, <1>7, <2>3, <3>1
    <2> QED BY <1>2, <2>1, <2>2, <2>3
  <1>9. ASSUME NEW j \in 1..Len(p), NEW k \in 1..Len(p), j < k,
               packets[p[j]].prio = packets[p[k]].prio
        PROVE  p[j] <= p[k]
    <2>0. j \in Nat /\ k \in Nat
      BY <1>1
    <2>1. CASE k \in {m + 1, m + 2} /\ p[k] = n
      BY <1>8, <2>1
    <2>2. CASE k \in 1..m /\ p[k] = q[k]
      <3>1. j \in 1..m /\ p[j] = q[j]
        BY <1>1, <1>2, <1>9, <2>0, <2>2
      <3> QED BY <1>1, <1>4, <1>9, <2>2, <3>1
    <2>3. CASE k - 2 \in (m + 1)..Len(q) /\ p[k] = q[k - 2]
      <3>0. k - 2 \in 1..Len(q)
        BY <1>1, <2>3
      <3>1. CASE j \in 1..m /\ p[j] = q[j]
        <4>1. j \in 1..Len(q) /\ j < k - 2
          BY <1>1, <2>0, <2>3, <3>1
        <4> QED BY <1>4, <1>9, <2>3, <3>0, <3>1, <4>1
      <3>2. CASE j \in {m + 1, m + 2} /\ p[j] = n
        BY <1>6, <1>9, <2>3, <3>2
      <3>3. CASE j - 2 \in (m + 1)..Len(q) /\ p[j] = q[j - 2]
        <4>1. j - 2 \in 1..Len(q) /\ j - 2 < k - 2
          BY <1>1, <1>9, <2>0, <3>3
        <4> QED BY <1>4, <1>9, <2>3, <3>0, <3>3, <4>1
      <3> QED BY <1>2, <3>1, <3>2, <3>3
    <2> QED BY <1>2, <2>1, <2>2, <2>3
  <1>10. Proper(p, i)
    BY <1>8, <1>9 DEF Proper
  <1>11. ASSUME NEW j \in 1..Len(p), NEW k \in 1..Len(p), j < k, p[j] = p[k]
         PROVE  j % 2 = 1 /\ k = j + 1
    <2>0. j \in Nat /\ k \in Nat /\ (m + 1) % 2 = 1
      BY <1>1, <1>5, Parity
    <2>1. CASE k \in {m + 1, m + 2} /\ p[k] = n
      <3>1. ~ (j \in 1..m /\ p[j] = q[j])
        BY <1>1, <1>7, <1>11, <2>1
      <3>2. j = m + 1 /\ k = m + 2
        BY <1>1, <1>2, <1>11, <2>0, <2>1, <3>1
      <3> QED BY <2>0, <3>2, <1>1
    <2>2. CASE k \in 1..m /\ p[k] = q[k]
      <3>1. j \in 1..m /\ p[j] = q[j]
        BY <1>1, <1>2, <1>11, <2>0, <2>2
      <3>2. j \in 1..Len(q) /\ k \in 1..Len(q)
        BY <1>1, <2>2, <3>1
      <3> QED BY <1>3, <1>11, <2>2, <3>1, <3>2
    <2>3. CASE k - 2 \in (m + 1)..Len(q) /\ p[k] = q[k - 2]
      <3>0. k - 2 \in 1..Len(q)
        BY <1>1, <2>3
      <3>1. CASE j \in 1..m /\ p[j] = q[j]
        <4>1. j \in 1..Len(q) /\ j < k - 2 /\ j <= m
          BY <1>1, <2>0, <2>3, <3>1
        <4>2. j % 2 = 1 /\ k - 2 = j + 1
          BY <1>3, <1>11, <2>3, <3>0, <3>1, <4>1
        <4>3. j + 1 <= m
          BY <1>1, <1>5, <2>0, <4>1, <4>2, Parity
        <4> QED BY <1>1, <2>0, <2>3, <4>2, <4>3
      <3>2. CASE j \in {m + 1, m + 2} /\ p[j] = n
        BY <1>7, <1>11, <2>3, <3>0, <3>2, <1>5
      <3>3. CASE j - 2 \in (m + 1)..Len(q) /\ p[j] = q[j - 2]
        <4>1. j - 2 \in 1..Len(q) /\ j - 2 < k - 2 /\ j - 2 \in Nat
          BY <1>1, <1>11, <2>0, <3>3
        <4>2. (j - 2) % 2 = 1 /\ k - 2 = (j - 2) + 1
          BY <1>3, <1>11, <2>3, <3>0, <3>3, <4>1
        <4>3. (2 + (j - 2)) % 2 = (j - 2) % 2 /\ 2 + (j - 2) = j
          BY <2>0, <4>1, Parity
        <4> QED BY <2>0, <4>2, <4>3
      <3> QED BY <1>2, <3>1, <3>2, <3>3
    <2> QED BY <1>2, <2>1, <2>2, <2>3
  <1>12. ASSUME NEW k \in 1..Len(p), k % 2 = 1
         PROVE  p[k] = p[k + 1]
    <2>0. k \in Nat /\ Len(p) % 2 = 0 /\ Len(p) \in Nat
      <3>1. Len(q) \in Nat /\ (2 + Len(q)) % 2 = Len(q) % 2 /\ 2 + Len(q) = Len(p)
        BY <1>1, Parity
      <3> QED BY <1>1, <1>3, <3>1
    <2>1. k + 1 \in 1..Len(p)
      <3>1. k <= Len(p)
        BY <2>0
      <3>2. k + 1 <= Len(p)
        BY <1>12, <2>0, <3>1, Parity
      <3> QED BY <2>0, <3>2
    <2>2. CASE k \in 1..m /\ p[k] = q[k]
      <3>1. k + 1 <= m
        BY <1>1, <1>5, <1>12, <2>0, <2>2, Parity
      <3>2. p[k + 1] = q[k + 1]
        BY <1>1, <1>2, <2>0, <2>1, <3>1
      <3>3. k \in 1..Len(q)
        BY <1>1, <2>2
      <3> QED BY <1>3, <1>12, <2>2, <3>2, <3>3
    <2>3. CASE k \in {m + 1, m + 2} /\ p[k] = n
      <3>0. m + 2 \in Nat /\ (m + 2) % 2 # 1
        BY <1>1, <1>5, Parity
      <3>1. k = m + 1
        BY <1>12, <2>3, <3>0
      <3> QED BY <1>1, <1>2, <2>1, <2>3, <3>1
    <2>4. CASE k - 2 \in (m + 1)..Len(q) /\ p[k] = q[k - 2]
      <3>1. k - 2 \in 1..Len(q) /\ k - 2 \in Nat /\ (k - 2) + 1 = k - 1 /\ (k + 1) - 2 = k - 1
        BY <1>1, <2>0, <2>4
      <3>2. (k - 2) % 2 = 1
        <4>1. (2 + (k - 2)) % 2 = (k - 2) % 2 /\ 2 + (k - 2) = k
          BY <2>0, <3>1, Parity
        <4> QED BY <1>12, <4>1
      <3>3. q[k - 2] = q[k - 1]
        BY <1>3, <3>1, <3>2
      <3>4. p[k + 1] = q[k - 1]
        BY <1>1, <1>2, <2>0, <2>1, <2>4, <3>1
      <3> QED BY <2>4, <3>3, <3>4
    <2> QED BY <1>2, <2>2, <2>3, <2>4
  <1>13. Len(p) % 2 = 0
    <2>1. Len(q) \in Nat /\ (2 + Len(q)) % 2 = Len(q) % 2 /\ 2 + Len(q) = Len(p)
      BY <1>1, Parity
    <2> QED BY <1>3, <2>1
  <1>14. Paired(p)
    BY <1>11, <1>12, <1>13 DEF Paired
  <1> QED BY <1>8, <1>10, <1>14 DEF p

\* The steps of the socket thread: what they do to the buffers.
Types == {"INVALID", "RESERVE", "PLISTEN", "LISTEN", "CONNECTING",
          "CONNECTED", "HALFCLOSE", "PACCEPT", "BIND"}
Emptied(s) == wire'[s] = <<>> /\ high'[s] = <<>> /\ low'[s] = <<>>

\* Only the slot s may change; what is in its buffers stays, is gone or has one
\* more packet, that of the first command.
Stores(s) ==
  /\ type' \in [Slot -> Types] /\ writing' \in [Slot -> BOOLEAN]
  /\ high' \in [Slot -> Seq(Unit)] /\ low' \in [Slot -> Seq(Unit)] /\ wire' \in [Slot -> Seq(Unit)]
  /\ \A r \in Slot : r # s =>
       type'[r] = type[r] /\ wire'[r] = wire[r] /\ high'[r] = high[r] /\ low'[r] = low[r]
  /\ type'[s] \in Idle => Emptied(s)
  /\ Paired(Units(s)') /\ Proper(Units(s)', id[s]) /\ LowWhole(low'[s])
  /\ \/ Units(s)' = Units(s)
     \/ Units(s)' = <<>>
     \/ /\ pipe # <<>> /\ pipe' = Tail(pipe) /\ Head(pipe).op \in {"D", "P"}
        /\ \A k \in 1..Len(Units(s)') : Units(s)'[k] <= Head(pipe).n

LEMMA BufferTypes ==
  TypeOK => /\ high \in [Slot -> Seq(Unit)] /\ low \in [Slot -> Seq(Unit)] /\ wire \in [Slot -> Seq(Unit)]
            /\ \A s \in Slot : Units(s) \in Seq(Unit)
  BY DEF TypeOK, Unit, Units

LEMMA StoresBuffers ==
  ASSUME TypeOK, Commands, Buffers, Newer, NEW s \in Slot, Stores(s), UNCHANGED <<id, packets>>,
         pipe' = pipe \/ (pipe # <<>> /\ pipe' = Tail(pipe))
  PROVE  Buffers' /\ Newer'
  <1>1. \A r \in Slot : r # s => Units(r)' = Units(r)
    BY DEF Stores, Units
  <1>2. Buffers'
    <2> SUFFICES ASSUME NEW r \in Slot
                 PROVE  /\ type'[r] \in Idle => Emptied(r)
                        /\ Paired(Units(r)') /\ Proper(Units(r), id[r])' /\ LowWhole(low[r])'
      BY DEF Buffers, Emptied
    <2>1. CASE r = s
      BY <2>1 DEF Stores, Proper, LowWhole
    <2>2. CASE r # s
      <3>1. /\ type[r] \in Idle => wire[r] = <<>> /\ high[r] = <<>> /\ low[r] = <<>>
            /\ Paired(Units(r)) /\ Proper(Units(r), id[r]) /\ LowWhole(low[r])
        BY DEF Buffers
      <3>2. type'[r] = type[r] /\ wire'[r] = wire[r] /\ high'[r] = high[r] /\ low'[r] = low[r]
        BY <2>2 DEF Stores
      <3> QED BY <1>1, <2>2, <3>1, <3>2 DEF Emptied, Proper, LowWhole
    <2> QED BY <2>1, <2>2
  <1>3. /\ Len(pipe') \in Nat
        /\ \A k \in 1..Len(pipe') : \E m \in 1..Len(pipe) : pipe'[k] = pipe[m]
    <2>1. CASE pipe' = pipe
      BY <2>1, Typed
    <2>2. CASE pipe # <<>> /\ pipe' = Tail(pipe)
      BY <2>2, Typed, Rest
    <2> QED BY <2>1, <2>2
  <1>4. ASSUME NEW r \in Slot, NEW j \in 1..Len(Units(r)'), NEW k \in 1..Len(pipe'),
               pipe'[k].op \in {"D", "P"}
        PROVE  Units(r)'[j] < pipe'[k].n
    <2>1. CASE Units(r)' = Units(r)
      <3> PICK m \in 1..Len(pipe) : pipe'[k] = pipe[m]
        BY <1>3
      <3> QED BY <1>4, <2>1 DEF Newer
    <2>2. CASE Units(r)' = <<>>
      BY <1>4, <2>2
    <2>3. CASE /\ r = s /\ pipe # <<>> /\ pipe' = Tail(pipe) /\ Head(pipe).op \in {"D", "P"}
               /\ \A m \in 1..Len(Units(s)') : Units(s)'[m] <= Head(pipe).n
      <3>1. /\ Head(pipe) = pipe[1] /\ pipe'[k] = pipe[k + 1] /\ k + 1 \in 1..Len(pipe)
            /\ 1 \in 1..Len(pipe) /\ 1 < k + 1 /\ pipe[1] \in Cmd /\ pipe[k + 1] \in Cmd
        BY <2>3, Typed, Rest
      <3>2. pipe[1].n < pipe[k + 1].n
        BY <1>4, <2>3, <3>1 DEF Commands
      <3>3. Units(r)'[j] <= pipe[1].n
        BY <2>3, <3>1
      <3>6. pipe[1].n \in Int /\ pipe[k + 1].n \in Int
        BY <3>1, SocketAssumption DEF Cmd
      <3>4. Units(s)' \in Seq(Unit)
        BY DEF Stores, Units
      <3>5. Units(r)'[j] \in Int
        BY <2>3, <3>4, SocketAssumption DEF Unit
      <3> QED BY <3>1, <3>2, <3>3, <3>5, <3>6
    <2> QED BY <1>1, <2>1, <2>2, <2>3 DEF Stores
  <1>5. Newer'
    BY <1>4 DEF Newer
  <1> QED BY <1>2, <1>5

\* The socket goes on or is there, with the same buffers.
LEMMA SameStores ==
  ASSUME TypeOK, Buffers, NEW s \in Slot, UNCHANGED <<high, low, wire>>,
         type' \in [Slot -> Types], writing' \in [Slot -> BOOLEAN],
         \A r \in Slot : r # s => type'[r] = type[r],
         type'[s] \in Idle => type[s] \in Idle
  PROVE  Stores(s)
  <1>1. Units(s)' = Units(s)
    BY DEF Units
  <1>2. Paired(Units(s)) /\ Proper(Units(s), id[s]) /\ LowWhole(low[s])
    BY DEF Buffers
  <1>3. type'[s] \in Idle => Emptied(s)
    BY DEF Buffers, Emptied
  <1> QED BY <1>1, <1>2, <1>3, BufferTypes DEF Stores

LEMMA NoUnits == Paired(<<>>) /\ (\A i : Proper(<<>>, i)) /\ LowWhole(<<>>)
  BY Parity DEF Paired, Proper, LowWhole

LEMMA CloseStores ==
  ASSUME TypeOK, Buffers, NEW s \in Slot, ForceClose(s)
  PROVE  Stores(s) /\ type'[s] = "INVALID" /\ id' = id
  <1>1. /\ type' \in [Slot -> Types] /\ writing' \in [Slot -> BOOLEAN] /\ type'[s] = "INVALID"
        /\ \A r \in Slot : r # s => type'[r] = type[r]
    BY DEF ForceClose, TypeOK, Types
  <1>2. /\ high' \in [Slot -> Seq(Unit)] /\ low' \in [Slot -> Seq(Unit)] /\ wire' \in [Slot -> Seq(Unit)]
        /\ \A r \in Slot : r # s => wire'[r] = wire[r] /\ high'[r] = high[r] /\ low'[r] = low[r]
        /\ Emptied(s)
    BY BufferTypes DEF ForceClose, Emptied
  <1>3. Units(s)' = <<>> /\ low'[s] = <<>>
    BY <1>2, ConcatEmptySeq, EmptySeq DEF Units, Emptied
  <1> QED BY <1>1, <1>2, <1>3, NoUnits DEF Stores, ForceClose

\* Some units are written.
LEMMA WrittenStores ==
  ASSUME TypeOK, Buffers, NEW s \in Slot, NEW p \in Sendings(s), Written(s, p), Keep(s, p),
         type' \in [Slot -> Types], writing' \in [Slot -> BOOLEAN],
         \A r \in Slot : r # s => type'[r] = type[r],
         type'[s] \notin Idle
  PROVE  Stores(s)
  <1> PICK a \in Seq(Unit), h \in Seq(Unit), l \in Seq(Unit) : a = wire[s] /\ h = high[s] /\ l = low[s]
    BY BufferTypes
  <1> PICK m \in 0..Len(h), n \in 0..Len(l) : p[1] = m /\ p[2] = n /\ (n > 0 => m = Len(h))
    <2>1. p[1] \in 0..Len(h) /\ p[2] \in 0..Len(l) /\ (p[2] > 0 => ~ (p[1] < Len(h)))
      BY DEF Sendings, LowWaits
    <2>2. Len(h) \in Nat /\ Len(l) \in Nat
      OBVIOUS
    <2>3. p[2] > 0 => p[1] = Len(h)
      BY <2>1, <2>2
    <2> QED BY <2>1, <2>3
  <1> DEFINE a2 == a \o Prefix(h, m) \o Prefix(l, n)
             r2 == Suffix(l, n)
             h2 == IF Uncomplete(r2) THEN Suffix(h, m) \o <<r2[1]>> ELSE Suffix(h, m)
             l2 == IF Uncomplete(r2) THEN Tail(r2) ELSE r2
  <1>1. Paired(a \o h \o l) /\ Proper(a \o h \o l, id[s]) /\ LowWhole(l) /\ Units(s) = a \o h \o l
    BY DEF Buffers, Units
  <1>2. /\ a2 \in Seq(Unit) /\ h2 \in Seq(Unit) /\ l2 \in Seq(Unit)
        /\ a2 \o h2 \o l2 = a \o h \o l /\ LowWhole(l2)
    <2>1. Paired(a \o h \o l) /\ LowWhole(l) /\ (n > 0 => m = Len(h))
      BY <1>1
    <2> QED BY ONLY a \in Seq(Unit), h \in Seq(Unit), l \in Seq(Unit), m \in 0..Len(h), n \in 0..Len(l),
                   <2>1, WrittenUnits
  <1>3. /\ high' = [high EXCEPT ![s] = h2] /\ low' = [low EXCEPT ![s] = l2]
    <2>1. IF Uncomplete(r2)
          THEN /\ high' = [high EXCEPT ![s] = Suffix(h, m) \o <<r2[1]>>]
               /\ low' = [low EXCEPT ![s] = Tail(r2)]
          ELSE high' = [high EXCEPT ![s] = Suffix(h, m)] /\ low' = [low EXCEPT ![s] = r2]
      BY DEF Keep
    <2> HIDE DEF r2
    <2>2. CASE Uncomplete(r2)
      BY <2>1, <2>2
    <2>3. CASE ~ Uncomplete(r2)
      BY <2>1, <2>3
    <2> QED BY <2>2, <2>3
  <1>4. wire' = [wire EXCEPT ![s] = a2]
    <2>1. wire' = [wire EXCEPT ![s] = @ \o Prefix(h, m) \o Prefix(l, n)]
      BY DEF Written
    <2> QED BY <2>1
  <1> HIDE DEF a2, h2, l2
  <1>5. wire'[s] = a2 /\ high'[s] = h2 /\ low'[s] = l2
    BY <1>3, <1>4, BufferTypes
  <1>6. /\ high' \in [Slot -> Seq(Unit)] /\ low' \in [Slot -> Seq(Unit)] /\ wire' \in [Slot -> Seq(Unit)]
        /\ \A r \in Slot : r # s => wire'[r] = wire[r] /\ high'[r] = high[r] /\ low'[r] = low[r]
    BY <1>2, <1>3, <1>4, BufferTypes
  <1>7. Units(s)' = Units(s)
    BY <1>1, <1>2, <1>5 DEF Units
  <1> QED BY <1>1, <1>2, <1>5, <1>6, <1>7 DEF Stores

\* The packet of the first command joins those that wait, or goes at once.
LEMMA PacketStores ==
  ASSUME TypeOK, Commands, Buffers, Newer, NEW s \in Slot, NEW c \in Cmd,
         pipe # <<>>, pipe' = Tail(pipe), c = Head(pipe), c.op \in {"D", "P"},
         c.id = id[s], type' = type, type[s] \notin Idle, writing' \in [Slot -> BOOLEAN],
         NEW u \in Seq(Unit), NEW v \in Seq(Unit), Units(s) = u \o v, Len(u) % 2 = 0,
         \A k \in 1..Len(v) : packets[v[k]].prio # c.op,
         high' \in [Slot -> Seq(Unit)], low' \in [Slot -> Seq(Unit)], wire' \in [Slot -> Seq(Unit)],
         \A r \in Slot : r # s => wire'[r] = wire[r] /\ high'[r] = high[r] /\ low'[r] = low[r],
         Units(s)' = u \o <<c.n, c.n>> \o v, LowWhole(low'[s])
  PROVE  Stores(s)
  <1>1. 1 \in 1..Len(pipe) /\ pipe[1] = c
    BY Typed, Rest
  <1>2. Command1(c)
    BY <1>1 DEF Commands
  <1>3. /\ c.n \in 1..Len(packets) /\ packets[c.n] = [to |-> c.id, prio |-> c.op]
        /\ packets[c.n].to = c.id /\ packets[c.n].prio = c.op /\ c.id \in Id
    BY <1>2 DEF Command1, Cmd
  <1>4. c.n \in Unit
    BY <1>3, SocketAssumption DEF Unit, Cmd
  <1>5. Paired(u \o v) /\ Proper(u \o v, c.id)
    BY DEF Buffers
  <1>6. \A k \in 1..Len(u \o v) : (u \o v)[k] < c.n
    BY <1>1 DEF Newer
  <1>7. /\ Paired(Units(s)') /\ Proper(Units(s)', c.id)
        /\ \A k \in 1..Len(Units(s)') : Units(s)'[k] <= c.n
    <2>1. packets \in Seq(Pack) /\ c.id \in Id /\ c.n \in 1..Len(packets) /\ packets[c.n].to = c.id
      BY <1>3, Typed
    <2>2. \A k \in 1..Len(v) : packets[v[k]].prio # packets[c.n].prio
      BY <1>3
    <2>3. LET p == u \o <<c.n, c.n>> \o v
          IN Paired(p) /\ Proper(p, c.id) /\ (\A k \in 1..Len(p) : p[k] <= c.n)
      BY <1>4, <1>5, <1>6, <2>1, <2>2, PushedUnits
    <2> QED BY <2>3
  <1>8. type' \in [Slot -> Types]
    BY DEF TypeOK, Types
  <1> QED BY <1>7, <1>8 DEF Stores

-----------------------------------------------------------------------------
(* The commands                                                            *)

Messages ==
  pc' \in {"poll", "clear"} /\ closed' \in 0..MaxId /\ ended' \in [Id -> BOOLEAN]

\* All that a step of the socket thread about socket i does and does not do.
Step(i) ==
  Deals(i) /\ Takes(i) /\ Leaves(i) /\ Stores(HASH_ID(i)) /\ Messages

\* The command c is handled.
Handles(c) ==
  /\ pc = "poll" /\ pipe # <<>> /\ pipe' = Tail(pipe) /\ c = Head(pipe)
  /\ UNCHANGED <<id, alloc_id, use, asked, packets, at, newid>>

\* The commands after one about socket i do not open it.
LEMMA Handled ==
  ASSUME TypeOK, Control, NEW c \in Cmd, Handles(c)
  PROVE  /\ Command1(c) /\ use[c.id] # None /\ c.id \in Id /\ HASH_ID(c.id) \in Slot
         /\ (c.op \in Opening => type'[HASH_ID(c.id)] # "RESERVE") => Takes(c.id)
  <1>1. /\ Len(pipe') = Len(pipe) - 1 /\ Len(pipe) \in Nat \ {0} /\ c = pipe[1] /\ 1 \in 1..Len(pipe)
        /\ \A k \in 1..Len(pipe') : pipe'[k] = pipe[k + 1] /\ k + 1 \in 1..Len(pipe) /\ 1 < k + 1
    BY Typed, Rest DEF Handles
  <1>2. Command1(c)
    BY <1>1 DEF Control, Commands
  <1>3. \A k \in 1..Len(pipe') : pipe'[k].op \in Opening => pipe'[k].id # c.id
    BY <1>1 DEF Control, Commands
  <1>4. c.id \in Id /\ HASH_ID(c.id) \in Slot /\ use[c.id] # None
    BY <1>2, IdSlot DEF Cmd, Command1
  <1> QED BY <1>2, <1>3, <1>4 DEF Takes, Handles

\* No thread has reserved a slot where there is a socket.
LEMMA NotHeld ==
  ASSUME Threads, NEW s, type[s] # "RESERVE"
  PROVE  \A t \in Thread : at[t] \in Holding => SlotOf(t) # s
  BY DEF Threads, Opens1

\* A socket that opens: its slot was reserved for it.
LEMMA OpenSteps ==
  ASSUME TypeOK, Control, Buffers, Newer, NEW c \in Cmd, Handles(c), c.op \in Opening,
         NEW y \in {"INVALID", "CONNECTED", "CONNECTING", "PLISTEN", "BIND"},
         NEW look \in BOOLEAN, NewFd(HASH_ID(c.id), y, look),
         y = "PLISTEN" => c.op = "L",
         \/ y = "INVALID" /\ Ends(c.id, ev)
         \/ y # "INVALID" /\ Reports(c.id, ev)
         \/ y # "INVALID" /\ Goes(ev) /\ UNCHANGED ended
  PROVE  Step(c.id)
  <1> DEFINE i == c.id
             s == HASH_ID(i)
  <1>1. /\ Command1(c) /\ use[i] # None /\ i \in Id /\ s \in Slot
    BY Handled
  <1>2. /\ use[i] = c.op /\ ~ ended[i] /\ type[s] = "RESERVE" /\ id[s] = i
        /\ \A t \in Thread : at[t] \in Holding => SlotOf(t) # s
    BY <1>1 DEF Command1
  <1>3. /\ type' = [type EXCEPT ![s] = y] /\ writing' = [writing EXCEPT ![s] = look]
        /\ UNCHANGED <<id, high, low, wire>>
    BY DEF NewFd, Becomes
  <1> HIDE DEF s, i
  <1>4. /\ type'[s] = y /\ type' \in [Slot -> Types] /\ writing' \in [Slot -> BOOLEAN]
        /\ \A r \in Slot : r # s => type'[r] = type[r]
    BY <1>1, <1>3 DEF TypeOK, Types
  <1>5. Stores(s)
    BY <1>1, <1>2, <1>3, <1>4, SameStores DEF Idle
  <1>6. /\ ended' \in [Id -> BOOLEAN] /\ (y # "INVALID" => ~ ended'[i])
        /\ \A j \in Id : j # i => ended'[j] = ended[j]
    BY <1>1, <1>2 DEF Ends, Reports, Goes, TypeOK, i
  <1>7. ev' = ev /\ pc' \in {"poll", "clear"} /\ closed' \in 0..MaxId
        /\ (y = "INVALID" => pc' = "clear" /\ closed' = i)
    BY <1>1, SocketAssumption DEF Ends, Reports, Goes, TypeOK, i, Id
  <1>8. Messages
    BY <1>6, <1>7 DEF Messages
  <1>9. Takes(i)
    BY <1>4, Handled DEF i, s
  <1>10. Deals(i)
    <2>1. y \in {"PLISTEN", "LISTEN"} => use[i] = "L"
      BY <1>2
    <2> QED BY <1>1, <1>2, <1>3, <1>4, <1>6, <2>1 DEF Deals, Handles, Idle, s
  <1>11. Leaves(i)
    <2>1. \A k \in 1..Len(ev') : ev'[k].s # s
      <3>1. pc # "clear"
        BY DEF Handles
      <3> QED BY <1>1, <1>2, <1>7, <3>1, SocketAssumption DEF Control, Events, Watched
    <2> QED BY <1>7, <2>1 DEF Leaves, Handles, s
  <1> QED BY <1>5, <1>8, <1>9, <1>10, <1>11 DEF Step, s, i

LEMMA OpenCommands ==
  ASSUME TypeOK, Control, Buffers, Newer, NEW c \in Cmd, Handles(c),
         \/ c.op = "O" /\ OpenSocket(c.id)
         \/ c.op = "L" /\ ListenSocket(c.id)
         \/ c.op = "B" /\ BindSocket(c.id)
  PROVE  Step(c.id)
  <1> DEFINE s == HASH_ID(c.id)
  <1>1. c.op \in Opening
    BY DEF Opening
  <1>2. type[s] = "RESERVE" /\ Empty(s)
    BY <1>1, Handled DEF Command1, Buffers, Empty, Idle
  <1>3. \/ NewFd(s, "INVALID", FALSE) /\ Ends(c.id, ev)
        \/ NewFd(s, "CONNECTED", FALSE) /\ Reports(c.id, ev)
        \/ NewFd(s, "CONNECTING", TRUE) /\ Goes(ev) /\ UNCHANGED ended
        \/ c.op = "L" /\ NewFd(s, "PLISTEN", FALSE) /\ Goes(ev) /\ UNCHANGED ended
        \/ NewFd(s, "BIND", FALSE) /\ Reports(c.id, ev)
    BY <1>2 DEF OpenSocket, ListenSocket, BindSocket
  <1> HIDE DEF s
  <1> QED BY <1>1, <1>3, OpenSteps DEF s

\* A command for a socket that is there: its slot is not merely reserved, for the
\* command that opens the socket comes first, and a thread that has taken the slot
\* has stored the id of its own socket.
LEMMA CurrentLives ==
  ASSUME TypeOK, Control, NEW c \in Cmd, Handles(c), c.op \notin Opening, Current(c.id),
         \A t \in Thread : at[t] = "claimed" => SlotOf(t) # HASH_ID(c.id)
  PROVE  type[HASH_ID(c.id)] \notin Idle
  <1> DEFINE s == HASH_ID(c.id)
  <1>1. Command1(c) /\ use[c.id] # None /\ c.id \in Id /\ s \in Slot
    BY Handled
  <1>2. type[s] # "INVALID" /\ id[s] = c.id
    BY DEF Current
  <1>3. c = pipe[1] /\ Len(pipe) \in Nat
    BY Typed, Rest DEF Handles
  <1> HIDE DEF s
  <1> SUFFICES ASSUME type[s] = "RESERVE"
               PROVE  FALSE
    BY <1>2 DEF Idle, s
  <1>4. \/ \E t \in Thread : at[t] \in Holding /\ SlotOf(t) = s
        \/ \E k \in 1..Len(pipe) : pipe[k].op \in Opening /\ HASH_ID(pipe[k].id) = s
    BY <1>1 DEF Control, Reserved
  <1>5. ASSUME NEW t \in Thread, at[t] \in Holding, SlotOf(t) = s
        PROVE  FALSE
    <2>1. at[t] = "request"
      BY <1>5 DEF Holding, s
    <2>2. id[s] = newid[t] /\ use[newid[t]] = None
      BY <1>5, <2>1 DEF Control, Threads, Opens1
    <2> QED BY <1>1, <1>2, <2>2
  <1>6. ASSUME NEW k \in 1..Len(pipe), pipe[k].op \in Opening, HASH_ID(pipe[k].id) = s
        PROVE  FALSE
    <2>1. id[s] = pipe[k].id
      BY <1>6 DEF Control, Commands, Command1
    <2>2. k # 1
      BY <1>3, <1>6
    <2>3. 1 \in 1..Len(pipe) /\ 1 < k
      BY <1>3, <2>2
    <2>4. pipe[1].id # pipe[k].id
      BY <1>6, <2>3 DEF Control, Commands
    <2> QED BY <1>2, <1>3, <2>1, <2>4
  <1> QED BY <1>4, <1>5, <1>6

\* A command for a socket that is gone.
LEMMA StaleSteps ==
  ASSUME TypeOK, Control, Buffers, NEW c \in Cmd, Handles(c), ~ Current(c.id), c.op \notin Opening,
         UNCHANGED slotVars, Ends(c.id, ev) \/ (Goes(ev) /\ UNCHANGED ended)
  PROVE  Step(c.id)
  <1> DEFINE i == c.id
             s == HASH_ID(i)
  <1>1. use[i] # None /\ i \in Id /\ s \in Slot
    BY Handled
  <1>2. ~ (type[s] # "INVALID" /\ id[s] = i)
    BY DEF Current
  <1>3. UNCHANGED <<type, id, high, low, writing, wire>>
    BY DEF slotVars
  <1> HIDE DEF s, i
  <1>4. type' \in [Slot -> Types] /\ writing' \in [Slot -> BOOLEAN]
    BY <1>3 DEF TypeOK, Types
  <1>5. Stores(s)
    BY <1>1, <1>3, <1>4, SameStores DEF Idle
  <1>6. /\ ended' \in [Id -> BOOLEAN] /\ (ended[i] => ended'[i])
        /\ \A j \in Id : j # i => ended'[j] = ended[j]
    BY <1>1 DEF Ends, Goes, TypeOK, i
  <1>7. ev' = ev /\ pc' \in {"poll", "clear"} /\ closed' \in 0..MaxId
    BY <1>1, SocketAssumption DEF Ends, Goes, TypeOK, i, Id
  <1>8. Messages
    BY <1>6, <1>7 DEF Messages
  <1>9. Takes(i)
    BY Handled DEF i
  <1>10. Deals(i)
    BY <1>1, <1>2, <1>3, <1>6 DEF Deals, Handles, Idle, s
  <1>11. Leaves(i)
    BY <1>3, <1>7 DEF Leaves, Handles
  <1> QED BY <1>5, <1>8, <1>9, <1>10, <1>11 DEF Step, s, i

\* A command for a socket that is there: it stays or comes to its end.
LEMMA LiveSteps ==
  ASSUME TypeOK, Control, Buffers, NEW c \in Cmd, Handles(c), c.op \notin Opening,
         Current(c.id), type[HASH_ID(c.id)] \notin Idle, Stores(HASH_ID(c.id)),
         \/ type'[HASH_ID(c.id)] = "INVALID" /\ Ends(c.id, ev)
         \/ /\ type'[HASH_ID(c.id)] \notin Idle
            /\ type'[HASH_ID(c.id)] = type[HASH_ID(c.id)] \/ type'[HASH_ID(c.id)] \in Watched
            /\ type'[HASH_ID(c.id)] \in {"PLISTEN", "LISTEN"} =>
                 type[HASH_ID(c.id)] \in {"PLISTEN", "LISTEN"}
            /\ (Goes(ev) /\ UNCHANGED ended) \/ Reports(c.id, ev)
  PROVE  Step(c.id)
  <1> DEFINE i == c.id
             s == HASH_ID(i)
  <1>1. use[i] # None /\ i \in Id /\ s \in Slot
    BY Handled
  <1>2. type[s] # "INVALID" /\ id[s] = i
    BY DEF Current
  <1>3. /\ Stores(s) /\ type[s] \notin Idle
        /\ \/ type'[s] = "INVALID" /\ Ends(i, ev)
           \/ /\ type'[s] \notin Idle
              /\ type'[s] = type[s] \/ type'[s] \in Watched
              /\ type'[s] \in {"PLISTEN", "LISTEN"} => type[s] \in {"PLISTEN", "LISTEN"}
              /\ (Goes(ev) /\ UNCHANGED ended) \/ Reports(i, ev)
    OBVIOUS
  <1> HIDE DEF s, i
  <1>4. ~ ended[i] /\ (type[s] \in {"PLISTEN", "LISTEN"} => use[i] = "L")
    BY <1>1, <1>2, <1>3 DEF Control, Alive
  <1>5. \A t \in Thread : at[t] \in Holding => SlotOf(t) # s
    <2>1. type[s] # "RESERVE"
      BY <1>3 DEF Idle
    <2> QED BY <2>1, NotHeld DEF Control
  <1>6. /\ ended' \in [Id -> BOOLEAN] /\ (type'[s] \notin Idle => ~ ended'[i])
        /\ \A j \in Id : j # i => ended'[j] = ended[j]
    BY <1>1, <1>3, <1>4 DEF Ends, Goes, Reports, TypeOK, Idle
  <1>7. ev' = ev /\ pc' \in {"poll", "clear"} /\ closed' \in 0..MaxId
        /\ (type'[s] = "INVALID" => pc' = "clear" /\ closed' = i)
    BY <1>1, <1>3, SocketAssumption DEF Ends, Goes, Reports, Idle, Id
  <1>8. Messages
    BY <1>6, <1>7 DEF Messages
  <1>9. Takes(i)
    BY Handled DEF i
  <1>10. type'[s] # "RESERVE" /\ \A r \in Slot : r # s => type'[r] = type[r]
    BY <1>3 DEF Stores, Idle
  <1>11. Deals(i)
    BY <1>1, <1>2, <1>3, <1>4, <1>5, <1>6, <1>10 DEF Deals, Handles, Idle, s
  <1>12. Leaves(i)
    BY <1>2, <1>3, <1>7 DEF Leaves, Handles, s
  <1> QED BY <1>3, <1>8, <1>9, <1>11, <1>12 DEF Step, s, i

\* An end of the socket that a command is about.
LEMMA CloseSteps ==
  ASSUME TypeOK, Control, Buffers, NEW c \in Cmd, Handles(c), c.op \notin Opening,
         Current(c.id), type[HASH_ID(c.id)] \notin Idle, Closes(HASH_ID(c.id), ev)
  PROVE  Step(c.id)
  <1> DEFINE s == HASH_ID(c.id)
  <1>1. s \in Slot
    BY Handled
  <1>2. ForceClose(s) /\ Ends(c.id, ev)
    BY DEF Closes, Current
  <1>3. Stores(s) /\ type'[s] = "INVALID"
    BY <1>1, <1>2, CloseStores
  <1> QED BY <1>2, <1>3, LiveSteps

\* What is left of a socket that no longer has its slot is told to the service.
LEMMA StartCommand ==
  ASSUME TypeOK, Control, Buffers, NEW c \in Cmd, Handles(c), c.op \notin Opening,
         \A t \in Thread : at[t] = "claimed" => SlotOf(t) # HASH_ID(c.id),
         StartSocket(c.id)
  PROVE  Step(c.id)
  <1> DEFINE i == c.id
             s == HASH_ID(i)
  <1>0. s \in Slot /\ UNCHANGED <<id, high, low, writing, wire>>
    BY Handled DEF StartSocket
  <1>1. CASE ~ Current(i)
    <2>1. UNCHANGED type /\ Ends(i, ev)
      BY <1>1 DEF StartSocket
    <2> QED BY <1>0, <1>1, <2>1, StaleSteps DEF slotVars
  <1>2. CASE Current(i)
    <2>1. type[s] \notin Idle
      BY <1>2, CurrentLives
    <2>2. \/ type[s] = "PACCEPT" /\ Becomes(s, "CONNECTED") /\ Reports(i, ev)
          \/ type[s] = "PLISTEN" /\ Becomes(s, "LISTEN") /\ Reports(i, ev)
          \/ type[s] = "CONNECTED" /\ Reports(i, ev) /\ UNCHANGED type
          \/ Goes(ev) /\ UNCHANGED <<type, ended>>
      BY <1>2 DEF StartSocket
    <2>3. /\ \A r \in Slot : r # s => type'[r] = type[r]
          /\ type' \in [Slot -> Types] /\ writing' \in [Slot -> BOOLEAN]
          /\ \/ type[s] = "PACCEPT" /\ type'[s] = "CONNECTED" /\ Reports(i, ev)
             \/ type[s] = "PLISTEN" /\ type'[s] = "LISTEN" /\ Reports(i, ev)
             \/ type'[s] = type[s] /\ Reports(i, ev)
             \/ type'[s] = type[s] /\ Goes(ev) /\ UNCHANGED ended
      <3> HIDE DEF s, i
      <3> QED BY <1>0, <2>2 DEF Becomes, TypeOK, Types
    <2>4. type'[s] \notin Idle /\ (type'[s] = type[s] \/ type'[s] \in Watched)
          /\ (type'[s] \in {"PLISTEN", "LISTEN"} => type[s] \in {"PLISTEN", "LISTEN"})
      BY <2>1, <2>3 DEF Idle, Watched
    <2>5. Stores(s)
      BY <1>0, <2>3, <2>4, SameStores
    <2> QED BY <1>2, <2>1, <2>3, <2>4, <2>5, LiveSteps
  <1> QED BY <1>1, <1>2

LEMMA CloseCommand ==
  ASSUME TypeOK, Control, Buffers, NEW c \in Cmd, Handles(c), c.op \notin Opening,
         \A t \in Thread : at[t] = "claimed" => SlotOf(t) # HASH_ID(c.id),
         CloseSocket(c.id)
  PROVE  Step(c.id)
  <1> DEFINE i == c.id
             s == HASH_ID(i)
  <1>0. s \in Slot
    BY Handled
  <1>1. CASE ~ Current(i)
    <2>1. UNCHANGED slotVars /\ Ends(i, ev)
      BY <1>1 DEF CloseSocket
    <2> QED BY <1>1, <2>1, StaleSteps
  <1>2. CASE Current(i)
    <2>1. type[s] \notin Idle
      BY <1>2, CurrentLives
    <2>2. ~ Uncomplete(low[s])
      <3>1. wire[s] \in Seq(Unit) /\ high[s] \in Seq(Unit) /\ low[s] \in Seq(Unit)
        BY <1>0, BufferTypes
      <3>2. Paired(wire[s] \o high[s] \o low[s]) /\ LowWhole(low[s])
        BY <1>0 DEF Buffers, Units
      <3> HIDE DEF s
      <3> QED BY <3>1, <3>2, LowComplete
    <2>3. \/ Closes(s, ev)
          \/ \E p \in Sendings(s) :
               /\ Written(s, p) /\ Keep(s, p) /\ Becomes(s, "HALFCLOSE")
               /\ Goes(ev) /\ UNCHANGED <<id, writing, ended>>
      <3>1. type[s] # "RESERVE"
        BY <2>1 DEF Idle
      <3>2. \/ WriteFails(s, ev)
            \/ \E p \in Sendings(s) :
                 /\ type[s] = "CONNECTING" => p = <<0, 0>>
                 /\ IF All(s, p)
                    THEN Closes(s, ev)
                    ELSE /\ Written(s, p) /\ Keep(s, p) /\ Becomes(s, "HALFCLOSE")
                         /\ Goes(ev) /\ UNCHANGED <<id, writing, ended>>
        BY <1>2, <2>2, <3>1 DEF CloseSocket
      <3> QED BY <3>2 DEF WriteFails
    <2>4. CASE Closes(s, ev)
      BY <1>2, <2>1, <2>4, CloseSteps
    <2>5. ASSUME NEW p \in Sendings(s), Written(s, p), Keep(s, p), Becomes(s, "HALFCLOSE"),
                 Goes(ev), UNCHANGED <<id, writing, ended>>
          PROVE  Step(c.id)
      <3>1. /\ type'[s] = "HALFCLOSE" /\ \A r \in Slot : r # s => type'[r] = type[r]
            /\ type' \in [Slot -> Types] /\ writing' \in [Slot -> BOOLEAN]
        <4> HIDE DEF s
        <4> QED BY <1>0, <2>5 DEF Becomes, TypeOK, Types
      <3>2. type'[s] \notin Idle /\ type'[s] \in Watched /\ type'[s] \notin {"PLISTEN", "LISTEN"}
        BY <3>1 DEF Idle, Watched
      <3>3. Stores(s)
        BY <1>0, <2>5, <3>1, <3>2, WrittenStores
      <3> QED BY <1>2, <2>1, <2>5, <3>2, <3>3, LiveSteps
    <2> QED BY <2>3, <2>4, <2>5
  <1> QED BY <1>1, <1>2

LEMMA Joined ==
  ASSUME NEW x \in Seq(Unit), NEW y \in Seq(Unit)
  PROVE  /\ x \o y \in Seq(Unit) /\ Len(x \o y) = Len(x) + Len(y) /\ Len(x) \in Nat
         /\ \A k \in 1..Len(x) : (x \o y)[k] = x[k]
         /\ \A k \in 1..Len(y) : (x \o y)[Len(x) + k] = y[k]
  OBVIOUS

\* A low buffer with one more packet of low priority.
LEMMA LowPushed ==
  ASSUME NEW l \in Seq(Unit), NEW n \in Unit, LowWhole(l), packets[n].prio = "P"
  PROVE  LowWhole(l \o <<n, n>>)
  <1> DEFINE w == <<n, n>>
             q == l \o w
  <1>1. w \in Seq(Unit) /\ Len(w) = 2 /\ w[1] = n /\ w[2] = n
    OBVIOUS
  <1> HIDE DEF w
  <1>2. /\ Len(q) = Len(l) + Len(w) /\ Len(l) \in Nat
        /\ \A k \in 1..Len(l) : q[k] = l[k]
        /\ \A k \in 1..Len(w) : q[Len(l) + k] = w[k]
    BY <1>1, Joined
  <1> HIDE DEF q
  <1>3. Len(l) % 2 = 0 /\ \A k \in 1..Len(l) : packets[l[k]].prio = "P"
    BY DEF LowWhole
  <1>4. Len(q) % 2 = 0
    <2>1. (2 + Len(l)) % 2 = Len(l) % 2 /\ 2 + Len(l) = Len(q)
      BY <1>1, <1>2, Parity
    <2> QED BY <1>3, <2>1
  <1>5. ASSUME NEW k \in 1..Len(q)
        PROVE  packets[q[k]].prio = "P"
    <2>1. CASE k \in 1..Len(l)
      BY <1>2, <1>3, <2>1
    <2>2. CASE k \notin 1..Len(l)
      <3>1. k = Len(l) + 1 \/ k = Len(l) + 2
        BY <1>1, <1>2, <2>2
      <3>2. q[Len(l) + 1] = n /\ q[Len(l) + 2] = n
        BY <1>1, <1>2
      <3> QED BY <3>1, <3>2
    <2> QED BY <2>1, <2>2
  <1> QED BY <1>4, <1>5 DEF LowWhole, q, w

\* A packet joins the buffer of its priority.
LEMMA PushStores ==
  ASSUME TypeOK, Control, Buffers, Newer, NEW c \in Cmd, Handles(c), c.op \in {"D", "P"},
         c.id = id[HASH_ID(c.id)], type[HASH_ID(c.id)] \notin Idle,
         Pushed(HASH_ID(c.id), c.op, <<c.n, c.n>>), UNCHANGED <<type, writing, wire>>
  PROVE  Stores(HASH_ID(c.id))
  <1> DEFINE s == HASH_ID(c.id)
             w == <<c.n, c.n>>
  <1>0. s \in Slot /\ Command1(c)
    BY Handled
  <1>1. /\ c.n \in 1..Len(packets) /\ packets[c.n] = [to |-> c.id, prio |-> c.op]
        /\ packets[c.n].prio = c.op
    BY <1>0 DEF Command1
  <1>2. c.n \in Unit /\ w \in Seq(Unit) /\ Len(w) = 2 /\ w[1] = c.n /\ w[2] = c.n
    BY <1>1, SocketAssumption DEF Unit, Cmd
  <1>3. pipe # <<>> /\ pipe' = Tail(pipe) /\ c = Head(pipe) /\ writing' \in [Slot -> BOOLEAN]
    BY DEF Handles, TypeOK
  <1> HIDE DEF s, w
  <1> PICK a \in Seq(Unit), h \in Seq(Unit), l \in Seq(Unit) : a = wire[s] /\ h = high[s] /\ l = low[s]
    BY <1>0, BufferTypes
  <1>4. Paired(a \o h \o l) /\ LowWhole(l) /\ Units(s) = a \o h \o l
    BY <1>0 DEF Buffers, Units
  <1>5. Len(l) % 2 = 0 /\ (\A k \in 1..Len(l) : packets[l[k]].prio = "P") /\ Len(l) \in Nat
    <2>1. Len(l) \in Nat
      OBVIOUS
    <2> QED BY <1>4, <2>1 DEF LowWhole
  <1>6. CASE c.op = "D"
    <2>1. high' = [high EXCEPT ![s] = h \o w] /\ low' = low
      BY <1>6 DEF Pushed, s, w
    <2>2. /\ high' \in [Slot -> Seq(Unit)] /\ low' \in [Slot -> Seq(Unit)] /\ wire' \in [Slot -> Seq(Unit)]
          /\ \A r \in Slot : r # s => wire'[r] = wire[r] /\ high'[r] = high[r] /\ low'[r] = low[r]
          /\ high'[s] = h \o w /\ low'[s] = l /\ wire'[s] = a
      BY <1>0, <1>2, <2>1, BufferTypes
    <2>3. Units(s)' = (a \o h) \o w \o l
      <3>1. a \o (h \o w) = (a \o h) \o w
        BY <1>2, Associative
      <3> QED BY <2>2, <3>1 DEF Units
    <2>4. Len(a \o h) % 2 = 0 /\ a \o h \in Seq(Unit)
      <3>1. (Len(a) + Len(h)) % 2 = 0
        BY <1>4, <1>5, LowPairs
      <3>2. Len(a \o h) = Len(a) + Len(h) /\ a \o h \in Seq(Unit)
        OBVIOUS
      <3> QED BY <3>1, <3>2
    <2>5. \A k \in 1..Len(l) : packets[l[k]].prio # c.op
      BY <1>5, <1>6
    <2> QED BY <1>0, <1>3, <1>4, <2>2, <2>3, <2>4, <2>5, PacketStores DEF s, w, Control
  <1>7. CASE c.op = "P"
    <2>1. low' = [low EXCEPT ![s] = l \o w] /\ high' = high
      BY <1>7 DEF Pushed, s, w
    <2>2. /\ high' \in [Slot -> Seq(Unit)] /\ low' \in [Slot -> Seq(Unit)] /\ wire' \in [Slot -> Seq(Unit)]
          /\ \A r \in Slot : r # s => wire'[r] = wire[r] /\ high'[r] = high[r] /\ low'[r] = low[r]
          /\ high'[s] = h /\ low'[s] = l \o w /\ wire'[s] = a
      BY <1>0, <1>2, <2>1, BufferTypes
    <2> DEFINE u == a \o h \o l
    <2>3. u \in Seq(Unit) /\ u = u \o <<>> /\ <<>> \in Seq(Unit) /\ Len(u) % 2 = 0
      <3>1. u \in Seq(Unit)
        OBVIOUS
      <3>2. Len(u) % 2 = 0
        BY <1>4 DEF Paired
      <3> HIDE DEF u
      <3> QED BY <3>1, <3>2, ConcatEmptySeq, EmptySeq
    <2>4. Units(s)' = u \o w \o <<>>
      <3> DEFINE b == a \o h
      <3>0. b \in Seq(Unit) /\ w \in Seq(Unit)
        BY <1>2
      <3> HIDE DEF b
      <3>4. b \o (l \o w) = (b \o l) \o w
        BY ONLY l \in Seq(Unit), <3>0, Associative
      <3>1. (a \o h) \o (l \o w) = ((a \o h) \o l) \o w
        BY <3>4 DEF b
      <3>2. u \o w \in Seq(Unit)
        BY <1>2, <2>3
      <3>3. (u \o w) \o <<>> = u \o w
        BY <3>2, ConcatEmptySeq
      <3> QED BY <2>2, <3>1, <3>3 DEF Units
    <2>5. LowWhole(l \o w)
      BY <1>1, <1>2, <1>4, <1>7, LowPushed DEF w
    <2>6. \A k \in 1..Len(<<>>) : packets[<<>>[k]].prio # c.op
      OBVIOUS
    <2>7. Units(s) = u \o <<>>
      BY <1>4, <2>3
    <2>8. LowWhole(low'[s])
      BY <2>2, <2>5
    <2> HIDE DEF u
    <2> QED BY <1>0, <1>3, <2>2, <2>3, <2>4, <2>6, <2>7, <2>8, PacketStores DEF s, w, Control
  <1> QED BY <1>6, <1>7

\* The two units of a packet.
LEMMA Halves ==
  ASSUME NEW n \in Unit
  PROVE  /\ <<n>> \in Seq(Unit) /\ <<n, n>> \in Seq(Unit) /\ <<n>> \o <<n>> = <<n, n>>
         /\ Len(<<>>) = 0 /\ SubSeq(<<n, n>>, Len(<<>>) + 1, 2) = <<n, n>>
         /\ SubSeq(<<n, n>>, Len(<<n>>) + 1, 2) = <<n>>
         /\ SubSeq(<<n, n>>, Len(<<n, n>>) + 1, 2) = <<>>
  <1> DEFINE w == <<n, n>>
  <1>1. w \in Seq(Unit) /\ Len(w) = 2 /\ w[1] = n /\ w[2] = n
    OBVIOUS
  <1>2. Len(<<>>) = 0 /\ Len(<<n>>) = 1 /\ <<n>> \in Seq(Unit) /\ <<n>>[1] = n
    OBVIOUS
  <1>3. <<n>> \o <<n>> = w
    <2>1. <<n>> \o <<n>> \in Seq(Unit) /\ Len(<<n>> \o <<n>>) = 2
      OBVIOUS
    <2>2. \A i \in 1..2 : (<<n>> \o <<n>>)[i] = w[i]
      OBVIOUS
    <2> QED BY <1>1, <2>1, <2>2, SeqEqual
  <1> HIDE DEF w
  <1>4. SubSeq(w, 1, 2) = w
    BY <1>1, SubSeqFull
  <1>5. SubSeq(w, 3, 2) = <<>>
    BY SubSeqEmpty
  <1>6. SubSeq(w, 2, 2) = <<n>>
    <2> DEFINE q == SubSeq(w, 2, 2)
               v == <<n>>
    <2>1. q \in Seq(Unit) /\ Len(q) = 1 /\ q[1] = n
      BY <1>1
    <2>2. v \in Seq(Unit) /\ Len(v) = 1 /\ v[1] = n
      BY <1>2
    <2> HIDE DEF q, v
    <2>3. Len(q) = Len(v) /\ \A i \in 1..Len(q) : q[i] = v[i]
      BY <2>1, <2>2
    <2>4. q = v
      BY <2>1, <2>2, <2>3, SeqEqual
    <2> QED BY <2>4 DEF q, v
  <1>7. Len(<<>>) + 1 = 1 /\ Len(<<n>>) + 1 = 2 /\ Len(w) + 1 = 3
    BY <1>1, <1>2
  <1> QED BY <1>1, <1>2, <1>3, <1>4, <1>5, <1>6, <1>7 DEF w

\* A packet goes out at once, or as much of it as can be written.
LEMMA DirectStores ==
  ASSUME TypeOK, Control, Buffers, Newer, NEW c \in Cmd, Handles(c), c.op \in {"D", "P"},
         c.id = id[HASH_ID(c.id)], type[HASH_ID(c.id)] \notin Idle, Empty(HASH_ID(c.id)),
         NEW units \in {<<>>, <<c.n>>, <<c.n, c.n>>},
         wire' = [wire EXCEPT ![HASH_ID(c.id)] = @ \o units],
         Pushed(HASH_ID(c.id), "D", SubSeq(<<c.n, c.n>>, Len(units) + 1, 2)),
         UNCHANGED type, writing' \in [Slot -> BOOLEAN]
  PROVE  Stores(HASH_ID(c.id))
  <1> DEFINE s == HASH_ID(c.id)
             rest == SubSeq(<<c.n, c.n>>, Len(units) + 1, 2)
             w == <<c.n, c.n>>
  <1>0. s \in Slot /\ Command1(c)
    BY Handled
  <1>1. c.n \in Unit
    BY <1>0, SocketAssumption DEF Unit, Cmd, Command1
  <1>2. units \in Seq(Unit) /\ rest \in Seq(Unit) /\ units \o rest = w /\ w \in Seq(Unit)
    <2>1. CASE units = <<>>
      <3>1. rest = w /\ w \in Seq(Unit)
        BY <1>1, <2>1, Halves
      <3>2. units \o rest = w
        BY <2>1, <3>1, ConcatEmptySeq
      <3> QED BY <2>1, <3>1, <3>2, EmptySeq
    <2>2. CASE units = <<c.n>>
      BY <1>1, <2>2, Halves
    <2>3. CASE units = <<c.n, c.n>>
      <3>1. rest = <<>> /\ w \in Seq(Unit)
        BY <1>1, <2>3, Halves
      <3>2. units \o rest = w
        BY <2>3, <3>1, ConcatEmptySeq
      <3> QED BY <2>3, <3>1, <3>2, EmptySeq
    <2> QED BY <2>1, <2>2, <2>3
  <1>3. pipe # <<>> /\ pipe' = Tail(pipe) /\ c = Head(pipe)
    BY DEF Handles
  <1>4. high' = [high EXCEPT ![s] = @ \o rest] /\ low' = low /\ wire' = [wire EXCEPT ![s] = @ \o units]
    BY DEF Pushed
  <1>5. high[s] = <<>> /\ low[s] = <<>>
    BY DEF Empty
  <1> HIDE DEF s, w, rest
  <1> PICK a \in Seq(Unit) : a = wire[s]
    BY <1>0, BufferTypes
  <1>6. /\ high' \in [Slot -> Seq(Unit)] /\ low' \in [Slot -> Seq(Unit)] /\ wire' \in [Slot -> Seq(Unit)]
        /\ \A r \in Slot : r # s => wire'[r] = wire[r] /\ high'[r] = high[r] /\ low'[r] = low[r]
        /\ high'[s] = <<>> \o rest /\ low'[s] = <<>> /\ wire'[s] = a \o units
    <2>1. high' = [high EXCEPT ![s] = <<>> \o rest] /\ wire' = [wire EXCEPT ![s] = a \o units]
      BY <1>4, <1>5
    <2>2. PICK h \in Seq(Unit), u \in Seq(Unit) : h = <<>> \o rest /\ u = a \o units
      <3>1. <<>> \o rest = rest
        BY <1>2, ConcatEmptySeq
      <3>2. a \o units \in Seq(Unit)
        BY <1>2, ConcatProperties
      <3> QED BY <1>2, <3>1, <3>2
    <2>3. high' = [high EXCEPT ![s] = h] /\ wire' = [wire EXCEPT ![s] = u] /\ low' = low
      BY <1>4, <2>1, <2>2
    <2>4. /\ high \in [Slot -> Seq(Unit)] /\ low \in [Slot -> Seq(Unit)]
          /\ wire \in [Slot -> Seq(Unit)]
      BY BufferTypes
    <2>5. high' \in [Slot -> Seq(Unit)] /\ high'[s] = h
          /\ \A r \in Slot : r # s => high'[r] = high[r]
      BY <1>0, <2>2, <2>3, <2>4
    <2>6. wire' \in [Slot -> Seq(Unit)] /\ wire'[s] = u
          /\ \A r \in Slot : r # s => wire'[r] = wire[r]
      BY <1>0, <2>2, <2>3, <2>4
    <2> QED BY <1>5, <2>2, <2>3, <2>4, <2>5, <2>6
  <1>7. Units(s) = a \o <<>>
    BY <1>5, ConcatEmptySeq DEF Units
  <1>8. Units(s)' = a \o w \o <<>>
    <2>1. <<>> \o rest = rest
      BY <1>2, ConcatEmptySeq
    <2>2. (a \o units) \o rest = a \o (units \o rest)
      BY <1>2, Associative
    <2> QED BY <1>2, <1>6, <2>1, <2>2 DEF Units
  <1>9. Len(a) % 2 = 0
    <2>1. Len(a \o <<>>) % 2 = 0
      BY <1>0, <1>7 DEF Buffers, Paired
    <2>2. a \o <<>> = a
      BY ConcatEmptySeq
    <2> QED BY <2>1, <2>2
  <1>10. LowWhole(low'[s])
    BY <1>6, NoUnits
  <1>11. <<>> \in Seq(Unit) /\ \A k \in 1..Len(<<>>) : packets[<<>>[k]].prio # c.op
    BY EmptySeq
  <1>12. Commands /\ type' = type /\ writing' \in [Slot -> BOOLEAN] /\ c.op \in {"D", "P"}
         /\ c.id = id[s] /\ type[s] \notin Idle
    BY DEF Control, s
  <1>13. Units(s)' = a \o <<c.n, c.n>> \o <<>>
    BY <1>8 DEF w
  <1> PICK v \in Seq(Unit) : v = <<>>
    BY <1>11
  <1>14. Units(s) = a \o v /\ Units(s)' = a \o <<c.n, c.n>> \o v
         /\ \A k \in 1..Len(v) : packets[v[k]].prio # c.op
    BY <1>7, <1>11, <1>13
  <1>15. Stores(s)
    <2>1. /\ high' \in [Slot -> Seq(Unit)] /\ low' \in [Slot -> Seq(Unit)] /\ wire' \in [Slot -> Seq(Unit)]
          /\ \A r \in Slot : r # s => wire'[r] = wire[r] /\ high'[r] = high[r] /\ low'[r] = low[r]
      BY <1>6
    <2> QED BY ONLY TypeOK, Buffers, Newer, c \in Cmd, a \in Seq(Unit), v \in Seq(Unit),
                   <1>0, <1>3, <2>1, <1>9, <1>10, <1>12, <1>14, PacketStores
  <1> QED BY <1>15 DEF s

LEMMA SendCommand ==
  ASSUME TypeOK, Control, Buffers, Newer, NEW c \in Cmd, Handles(c), c.op \in {"D", "P"},
         \A t \in Thread : at[t] = "claimed" => SlotOf(t) # HASH_ID(c.id),
         SendSocket(c.id, c.op, c.n)
  PROVE  Step(c.id)
  <1> DEFINE i == c.id
             s == HASH_ID(i)
             direct == Empty(s) /\ type[s] = "CONNECTED"
  <1>0. s \in Slot /\ c.op \notin Opening /\ Command1(c) /\ i \in Id
    BY Handled DEF Opening
  <1>1. CASE ~ Current(i)
    <2>1. Goes(ev) /\ UNCHANGED <<slotVars, ended>>
      BY <1>1 DEF SendSocket
    <2> QED BY <1>0, <1>1, <2>1, StaleSteps
  <1>2. CASE Current(i)
    <2>1. type[s] \notin Idle /\ id[s] = i
      BY <1>0, <1>2, CurrentLives DEF Current
    <2>2. type[s] \notin {"PLISTEN", "LISTEN"}
      <3>1. use[i] \in {"O", "A"} /\ use[i] # "L"
        BY <1>0 DEF Command1
      <3> QED BY <1>0, <2>1, <3>1 DEF Control, Alive
    <2>3. \/ Goes(ev) /\ UNCHANGED <<slotVars, ended>>
          \/ Pushed(s, c.op, <<c.n, c.n>>) /\ Goes(ev) /\ UNCHANGED <<type, id, writing, wire, ended>>
          \/ Closes(s, ev)
          \/ \E units \in {<<>>, <<c.n>>, <<c.n, c.n>>} :
               /\ direct /\ wire' = [wire EXCEPT ![s] = @ \o units]
               /\ Pushed(s, "D", SubSeq(<<c.n, c.n>>, Len(units) + 1, 2))
               /\ writing' = [writing EXCEPT ![s] = Len(units) < 2]
               /\ Goes(ev) /\ UNCHANGED <<type, id, ended>>
      <3>1. CASE type[s] \in {"HALFCLOSE", "PACCEPT"}
        <4> HIDE DEF s
        <4> QED BY <1>2, <2>2, <3>1 DEF SendSocket, s
      <3>2. CASE type[s] \in {"CONNECTING", "CONNECTED", "BIND"} /\ ~ direct
        BY <1>2, <2>2, <3>2 DEF SendSocket
      <3>3. CASE direct
        BY <1>2, <2>2, <3>3 DEF SendSocket
      <3>4. type[s] \in Types
        BY <1>0 DEF TypeOK, Types
      <3> QED BY <2>1, <2>2, <3>1, <3>2, <3>3, <3>4 DEF Types, Idle
    <2>4. CASE Goes(ev) /\ UNCHANGED <<slotVars, ended>>
      <3>1. UNCHANGED <<type, high, low, writing, wire>> /\ type' \in [Slot -> Types]
            /\ writing' \in [Slot -> BOOLEAN]
        BY <2>4 DEF slotVars, TypeOK, Types
      <3>2. Stores(s)
        BY <1>0, <3>1, SameStores
      <3> QED BY <1>0, <1>2, <2>1, <2>4, <3>1, <3>2, LiveSteps
    <2>5. CASE Pushed(s, c.op, <<c.n, c.n>>) /\ Goes(ev) /\ UNCHANGED <<type, id, writing, wire, ended>>
      <3>1. Stores(s)
        BY <2>1, <2>5, PushStores
      <3> QED BY <1>0, <1>2, <2>1, <2>5, <3>1, LiveSteps
    <2>6. CASE Closes(s, ev)
      BY <1>0, <1>2, <2>1, <2>6, CloseSteps
    <2>7. ASSUME NEW units \in {<<>>, <<c.n>>, <<c.n, c.n>>},
                 direct, wire' = [wire EXCEPT ![s] = @ \o units],
                 Pushed(s, "D", SubSeq(<<c.n, c.n>>, Len(units) + 1, 2)),
                 writing' = [writing EXCEPT ![s] = Len(units) < 2],
                 Goes(ev), UNCHANGED <<type, id, ended>>
          PROVE  Step(c.id)
      <3>1. writing' \in [Slot -> BOOLEAN]
        <4> HIDE DEF s
        <4> QED BY <1>0, <2>7 DEF TypeOK
      <3>2. Stores(s)
        BY <2>1, <2>7, <3>1, DirectStores
      <3> QED BY <1>0, <1>2, <2>1, <2>7, <3>2, LiveSteps
    <2> QED BY <2>3, <2>4, <2>5, <2>6, <2>7
  <1> QED BY <1>1, <1>2

\* No command changes which id a slot has.
LEMMA CommandId ==
  ASSUME TypeOK, NEW c \in Cmd,
         \/ OpenSocket(c.id) \/ ListenSocket(c.id) \/ BindSocket(c.id) \/ StartSocket(c.id)
         \/ CloseSocket(c.id) \/ SendSocket(c.id, c.op, c.n)
  PROVE  id' = id
  <1>1. ASSUME NEW s, Closes(s, ev) PROVE id' = id
    BY <1>1 DEF Closes, ForceClose
  <1>2. ASSUME NEW s, WriteFails(s, ev) PROVE id' = id
    BY <1>1, <1>2 DEF WriteFails
  <1>3. CASE OpenSocket(c.id) \/ ListenSocket(c.id) \/ BindSocket(c.id)
    BY <1>3 DEF OpenSocket, ListenSocket, BindSocket, NewFd, Aborts, slotVars
  <1>4. CASE StartSocket(c.id)
    BY <1>4 DEF StartSocket
  <1>5. CASE CloseSocket(c.id)
    <2> DEFINE s == HASH_ID(c.id)
    <2>1. \/ UNCHANGED slotVars /\ Ends(c.id, ev)
          \/ Aborts
          \/ WriteFails(s, ev)
          \/ \E p \in Sendings(s) :
               IF All(s, p)
               THEN Closes(s, ev)
               ELSE /\ Written(s, p) /\ Keep(s, p) /\ Becomes(s, "HALFCLOSE")
                    /\ Goes(ev) /\ UNCHANGED <<id, writing, ended>>
      BY <1>5 DEF CloseSocket
    <2> QED BY <1>1, <1>2, <2>1 DEF Aborts, slotVars
  <1>6. CASE SendSocket(c.id, c.op, c.n)
    <2> DEFINE s == HASH_ID(c.id)
               direct == Empty(s) /\ type[s] = "CONNECTED"
    <2>1. type[s] \in Types
      BY IdSlot DEF TypeOK, Types, Cmd
    <2>2. CASE ~ Current(c.id) \/ type[s] \in {"HALFCLOSE", "PACCEPT"}
      BY <1>6, <2>2 DEF SendSocket, slotVars
    <2>3. CASE Current(c.id) /\ type[s] \in {"PLISTEN", "LISTEN"}
      BY <1>6, <2>3 DEF SendSocket, Aborts, slotVars
    <2>4. CASE Current(c.id) /\ type[s] \in {"RESERVE", "CONNECTING", "CONNECTED", "BIND"} /\ ~ direct
      BY <1>6, <2>4 DEF SendSocket
    <2>5. CASE Current(c.id) /\ direct
      <3>1. id' = id \/ Closes(s, ev)
        BY <1>6, <2>5 DEF SendSocket
      <3> QED BY <1>1, <3>1
    <2>6. Current(c.id) => type[s] # "INVALID"
      BY DEF Current
    <2> QED BY <2>1, <2>2, <2>3, <2>4, <2>5, <2>6 DEF Types
  <1> QED BY <1>3, <1>4, <1>5, <1>6

\* Every command is a step about its socket, and none fails.
LEMMA CommandStep ==
  ASSUME Tame, TypeOK, Control, Buffers, Newer, Command
  PROVE  \E i \in Id : Step(i)
  <1>1. pipe # <<>> /\ pipe' = Tail(pipe) /\ pc = "poll"
        /\ UNCHANGED <<alloc_id, use, asked, packets, at, newid>>
    BY DEF Command, threadVars, serviceVars
  <1> PICK c \in Cmd : c = Head(pipe)
    BY <1>1, Typed, Rest
  <1>2. \/ c.op = "O" /\ OpenSocket(c.id)
        \/ c.op = "L" /\ ListenSocket(c.id)
        \/ c.op = "B" /\ BindSocket(c.id)
        \/ c.op = "S" /\ StartSocket(c.id)
        \/ c.op = "K" /\ CloseSocket(c.id)
        \/ c.op \in {"D", "P"} /\ SendSocket(c.id, c.op, c.n)
    <2>1. c.op \in {"O", "L", "B", "S", "K", "D", "P"}
      BY DEF Cmd
    <2>2. CASE c.op = "O" BY <2>2 DEF Command
    <2>3. CASE c.op = "L" BY <2>3 DEF Command
    <2>4. CASE c.op = "B" BY <2>4 DEF Command
    <2>5. CASE c.op = "S" BY <2>5 DEF Command
    <2>6. CASE c.op = "K" BY <2>6 DEF Command
    <2>7. CASE c.op \in {"D", "P"}
      BY <2>7 DEF Command
    <2> QED BY <2>1, <2>2, <2>3, <2>4, <2>5, <2>6, <2>7
  <1>3. id' = id
    BY <1>2, CommandId
  <1>4. Handles(c) /\ c.id \in Id
    BY <1>1, <1>3 DEF Handles, Cmd
  <1>5. \A t \in Thread : at[t] = "claimed" => SlotOf(t) # HASH_ID(c.id)
    BY DEF Command, SlotOf
  <1>6. CASE \/ c.op = "O" /\ OpenSocket(c.id)
             \/ c.op = "L" /\ ListenSocket(c.id)
             \/ c.op = "B" /\ BindSocket(c.id)
    BY <1>4, <1>6, OpenCommands
  <1>7. CASE c.op = "S" /\ StartSocket(c.id)
    <2>1. c.op \notin Opening
      BY <1>7 DEF Opening
    <2> QED BY <1>4, <1>5, <1>7, <2>1, StartCommand
  <1>8. CASE c.op = "K" /\ CloseSocket(c.id)
    <2>1. c.op \notin Opening
      BY <1>8 DEF Opening
    <2> QED BY <1>4, <1>5, <1>8, <2>1, CloseCommand
  <1>9. CASE c.op \in {"D", "P"} /\ SendSocket(c.id, c.op, c.n)
    BY <1>4, <1>5, <1>9, SendCommand
  <1> QED BY <1>2, <1>6, <1>7, <1>8, <1>9

-----------------------------------------------------------------------------
(* The events                                                              *)

\* The socket of the next event is there, and no other event is about it.
LEMMA HeadEvent ==
  ASSUME TypeOK, Control, pc # "clear", ev # <<>>, NEW s, s = Head(ev).s, s # None
  PROVE  /\ s \in Slot /\ type[s] \in Watched /\ id[s] \in Id /\ HASH_ID(id[s]) = s
         /\ use[id[s]] # None /\ ~ ended[id[s]] /\ (type[s] = "LISTEN" => use[id[s]] = "L")
         /\ \A k \in 1..Len(Tail(ev)) : Tail(ev)[k].s # s
  <1>1. /\ Len(Tail(ev)) = Len(ev) - 1 /\ Len(ev) \in Nat \ {0} /\ Head(ev) = ev[1] /\ 1 \in 1..Len(ev)
        /\ \A k \in 1..Len(Tail(ev)) : Tail(ev)[k] = ev[k + 1] /\ k + 1 \in 1..Len(ev) /\ k + 1 # 1
    BY Typed, Rest
  <1>2. s \in Slot
    BY <1>1, EventSlots
  <1>3. type[s] \in Watched
    BY <1>1 DEF Control, Events
  <1>4. type[s] \notin Idle
    BY <1>3 DEF Watched, Idle
  <1>5. /\ id[s] # 0 /\ use[id[s]] # None /\ ~ ended[id[s]] /\ HASH_ID(id[s]) = s
        /\ type[s] = "LISTEN" => use[id[s]] = "L"
    BY <1>2, <1>4 DEF Control, Alive, Ids
  <1>6. id[s] \in Id
    BY <1>2, <1>5, SocketAssumption DEF TypeOK, Id
  <1>7. \A k \in 1..Len(Tail(ev)) : Tail(ev)[k].s # s
    BY <1>1 DEF Control, Events
  <1> QED BY <1>2, <1>3, <1>5, <1>6, <1>7

LEMMA EventSteps ==
  ASSUME TypeOK, Control, Buffers, pc # "clear", ev # <<>>, NEW s, s = Head(ev).s, s # None,
         pipe' = pipe, UNCHANGED <<id, alloc_id, use, asked, packets, at, newid>>, Stores(s),
         type'[s] # "RESERVE", type'[s] \in {"PLISTEN", "LISTEN"} => type[s] = "LISTEN",
         pc' \in {"poll", "clear"}, ev' = Tail(ev), closed' = 0 \/ closed' = id[s],
         \/ ended' = ended
         \/ ended' = [ended EXCEPT ![id[s]] = FALSE]
         \/ type'[s] = "INVALID" /\ ended' = [ended EXCEPT ![id[s]] = TRUE]
  PROVE  Step(id[s])
  <1> PICK i \in Id : i = id[s]
    BY HeadEvent
  <1>1. /\ s \in Slot /\ type[s] \in Watched /\ HASH_ID(i) = s /\ use[i] # None /\ ~ ended[i]
        /\ type[s] = "LISTEN" => use[i] = "L"
        /\ \A k \in 1..Len(ev') : ev'[k].s # s
    BY HeadEvent
  <1>2. /\ ended' \in [Id -> BOOLEAN] /\ (type'[s] \notin Idle => ~ ended'[i])
        /\ \A j \in Id : j # i => ended'[j] = ended[j]
    BY <1>1 DEF TypeOK, Idle
  <1>3. Messages
    BY <1>2, SocketAssumption DEF Messages, Id
  <1>4. \A t \in Thread : at[t] \in Holding => SlotOf(t) # s
    <2>1. type[s] # "RESERVE"
      BY <1>1 DEF Watched
    <2> QED BY <2>1, NotHeld DEF Control
  <1>5. \A r \in Slot : r # s => type'[r] = type[r]
    BY DEF Stores
  <1>6. Deals(i)
    BY <1>1, <1>2, <1>4, <1>5 DEF Deals
  <1>7. Takes(i)
    <2>1. \A k \in 1..Len(pipe) : pipe[k].op \in Opening => pipe[k].id # i
      BY <1>1 DEF Control, Commands, Command1, Watched
    <2>2. pipe # <<>> => Tail(pipe) # pipe
      <3> HAVE pipe # <<>>
      <3>1. Len(Tail(pipe)) = Len(pipe) - 1 /\ Len(pipe) \in Nat
        BY Typed, Rest
      <3>2. Len(Tail(pipe)) # Len(pipe)
        BY ONLY <3>1
      <3> QED BY <3>2
    <2> QED BY <2>1, <2>2 DEF Takes
  <1>8. Leaves(i)
    BY <1>1 DEF Leaves
  <1> QED BY <1>1, <1>3, <1>6, <1>7, <1>8 DEF Step

\* A socket comes to its end at an event.
LEMMA CloseEvent ==
  ASSUME TypeOK, Control, Buffers, pc # "clear", ev # <<>>, NEW s, s = Head(ev).s, s # None,
         pipe' = pipe, UNCHANGED <<alloc_id, use, asked, packets, at, newid>>,
         Closes(s, Tail(ev)) \/ (ForceClose(s) /\ ended' = [ended EXCEPT ![id[s]] = TRUE] /\ Goes(Tail(ev)))
  PROVE  Step(id[s])
  <1>1. s \in Slot
    BY HeadEvent
  <1>2. ForceClose(s) /\ ended' = [ended EXCEPT ![id[s]] = TRUE] /\ ev' = Tail(ev)
        /\ pc' \in {"poll", "clear"} /\ (closed' = 0 \/ closed' = id[s])
    BY DEF Closes, Ends, Goes
  <1>3. Stores(s) /\ type'[s] = "INVALID" /\ id' = id
    BY <1>1, <1>2, CloseStores
  <1> QED BY <1>2, <1>3, EventSteps

\* A socket stays as it is, or connects, at an event.
LEMMA StayEvent ==
  ASSUME TypeOK, Control, Buffers, pc # "clear", ev # <<>>, NEW s, s = Head(ev).s, s # None,
         pipe' = pipe, UNCHANGED <<id, high, low, wire, alloc_id, use, asked, packets, at, newid>>,
         \/ type' = type /\ writing' = writing
         \/ Becomes(s, "CONNECTED") /\ writing' = [writing EXCEPT ![s] = ~ Empty(s)],
         Reports(id[s], Tail(ev)) \/ (Goes(Tail(ev)) /\ UNCHANGED ended)
  PROVE  Step(id[s])
  <1>1. s \in Slot /\ type[s] \in Watched
    BY HeadEvent
  <1>2. /\ type' \in [Slot -> Types] /\ writing' \in [Slot -> BOOLEAN]
        /\ \A r \in Slot : r # s => type'[r] = type[r]
        /\ type'[s] = type[s] \/ type'[s] = "CONNECTED"
    BY <1>1 DEF TypeOK, Types, Becomes, Empty
  <1>3. type'[s] \notin Idle /\ type'[s] # "RESERVE" /\ (type'[s] \in {"PLISTEN", "LISTEN"} => type[s] = "LISTEN")
    BY <1>1, <1>2 DEF Watched, Idle
  <1>4. Stores(s)
    BY <1>1, <1>2, <1>3, SameStores
  <1>5. /\ ev' = Tail(ev) /\ pc' \in {"poll", "clear"} /\ closed' = 0
        /\ ended' = ended \/ ended' = [ended EXCEPT ![id[s]] = FALSE]
    BY DEF Reports, Goes
  <1> QED BY <1>3, <1>4, <1>5, EventSteps

\* send_buffer for an event.
LEMMA SendEvent ==
  ASSUME TypeOK, Control, Buffers, pc # "clear", ev # <<>>, NEW s, s = Head(ev).s, s # None,
         pipe' = pipe, UNCHANGED <<alloc_id, use, asked, packets, at, newid>>,
         SendBuffer(s, Tail(ev))
  PROVE  Step(id[s])
  <1>1. s \in Slot /\ type[s] \in Watched
    BY HeadEvent
  <1>2. CASE Closes(s, Tail(ev))
    BY <1>2, CloseEvent
  <1>3. ASSUME NEW p \in Sendings(s), NEW done \in BOOLEAN, Written(s, p), Keep(s, p),
               writing' = [writing EXCEPT ![s] = @ /\ ~ done],
               Goes(Tail(ev)), UNCHANGED <<type, id, ended>>
        PROVE  Step(id[s])
    <2>1. type' \in [Slot -> Types] /\ type'[s] \notin Idle /\ type'[s] # "RESERVE"
          /\ (type'[s] \in {"PLISTEN", "LISTEN"} => type[s] = "LISTEN")
      BY <1>1, <1>3 DEF TypeOK, Types, Watched, Idle
    <2>2. writing' \in [Slot -> BOOLEAN]
      BY <1>1, <1>3 DEF TypeOK
    <2>3. Stores(s)
      BY <1>1, <1>3, <2>1, <2>2, WrittenStores
    <2>4. ev' = Tail(ev) /\ pc' \in {"poll", "clear"} /\ closed' = 0
      BY <1>3 DEF Goes
    <2> QED BY <1>3, <2>1, <2>3, <2>4, EventSteps
  <1>4. \/ Closes(s, Tail(ev))
        \/ \E p \in Sendings(s), done \in BOOLEAN :
             /\ Written(s, p) /\ Keep(s, p)
             /\ writing' = [writing EXCEPT ![s] = @ /\ ~ done]
             /\ Goes(Tail(ev)) /\ UNCHANGED <<type, id, ended>>
    <2>1. CASE WriteFails(s, Tail(ev))
      BY <2>1 DEF WriteFails
    <2>2. ASSUME NEW p \in Sendings(s),
                 LET done == p[1] = Len(high[s]) /\ low[s] = <<>>
                 IN /\ Empty(s) \/ p[1] + p[2] > 0
                    /\ IF done /\ LastWritten(s)
                       THEN Closes(s, Tail(ev))
                       ELSE /\ Written(s, p) /\ Keep(s, p)
                            /\ writing' = [writing EXCEPT ![s] = @ /\ ~ done]
                            /\ Goes(Tail(ev)) /\ UNCHANGED <<type, id, ended>>
          PROVE  \/ Closes(s, Tail(ev))
                 \/ \E done \in BOOLEAN :
                      /\ Written(s, p) /\ Keep(s, p)
                      /\ writing' = [writing EXCEPT ![s] = @ /\ ~ done]
                      /\ Goes(Tail(ev)) /\ UNCHANGED <<type, id, ended>>
      <3> DEFINE done == p[1] = Len(high[s]) /\ low[s] = <<>>
      <3>1. done \in BOOLEAN
        OBVIOUS
      <3>2. \/ Closes(s, Tail(ev))
            \/ /\ Written(s, p) /\ Keep(s, p)
               /\ writing' = [writing EXCEPT ![s] = @ /\ ~ done]
               /\ Goes(Tail(ev)) /\ UNCHANGED <<type, id, ended>>
        BY <2>2
      <3> HIDE DEF done
      <3> QED BY <3>1, <3>2
    <2> QED BY <2>1, <2>2 DEF SendBuffer
  <1> QED BY <1>2, <1>3, <1>4

\* A step about one socket keeps the invariant.
LEMMA StepInv ==
  ASSUME IInv, NEW i \in Id, Step(i), checkctrl' \in BOOLEAN
  PROVE  IInv' /\ \A j \in Id : ended[j] => ended'[j]
  <1> DEFINE s == HASH_ID(i)
  <1>0. TypeOK /\ Control /\ Buffers /\ Newer /\ s \in Slot
    BY IdSlot DEF IInv
  <1>1. Deals(i) /\ Takes(i) /\ Leaves(i) /\ Stores(s) /\ Messages
    BY DEF Step
  <1>2. UNCHANGED <<id, alloc_id, use, asked, packets, at, newid>>
    BY <1>1 DEF Deals
  <1>3. Control'
    BY <1>0, <1>1, LoopControl
  <1>4. pipe' = pipe \/ (pipe # <<>> /\ pipe' = Tail(pipe))
    BY <1>1 DEF Takes
  <1>5. Buffers' /\ Newer'
    BY <1>0, <1>1, <1>2, <1>4, StoresBuffers DEF Control
  <1>6. TypeOK'
    <2>1. pipe' \in Seq(Cmd) /\ Len(pipe') <= PIPE
      <3>1. CASE pipe' = pipe
        BY <1>0, <3>1, Typed DEF TypeOK
      <3>2. CASE pipe # <<>> /\ pipe' = Tail(pipe)
        <4>1. pipe \in Seq(Cmd) /\ Len(pipe) <= PIPE
          BY <1>0, Typed DEF TypeOK
        <4>2. pipe' \in Seq(Cmd) /\ Len(pipe') = Len(pipe) - 1 /\ Len(pipe) \in Nat
          BY <3>2, <4>1, Rest
        <4> QED BY <4>1, <4>2, SocketAssumption
      <3> QED BY <1>4, <3>1, <3>2
    <2>2. ev' \in Seq(Evt)
      <3>1. ev' = ev \/ (ev # <<>> /\ ev' = Tail(ev))
        BY <1>1 DEF Leaves
      <3> QED BY <1>0, <3>1, Typed, Rest
    <2>3. pc' \in {"poll", "event", "clear", "aborted"} /\ closed' \in 0..MaxId /\ ended' \in [Id -> BOOLEAN]
      BY <1>1 DEF Messages
    <2>4. /\ type' \in [Slot -> Types] /\ writing' \in [Slot -> BOOLEAN]
          /\ high' \in [Slot -> Seq(Unit)] /\ low' \in [Slot -> Seq(Unit)] /\ wire' \in [Slot -> Seq(Unit)]
      BY <1>1 DEF Stores
    <2> QED BY <1>0, <1>2, <2>1, <2>2, <2>3, <2>4 DEF TypeOK, Cmd, Evt, Types, Unit
  <1>7. \A j \in Id : ended[j] => ended'[j]
    BY <1>1 DEF Deals
  <1> QED BY <1>3, <1>5, <1>6, <1>7 DEF IInv

\* No unit moves, and no packet changes.
LEMMA BuffersKept ==
  ASSUME TypeOK, Buffers, UNCHANGED <<high, low, wire>>,
         packets' \in Seq(Pack), Len(packets) <= Len(packets'),
         \A m \in 1..Len(packets) : packets'[m] = packets[m],
         \A s \in Slot : type'[s] \in Idle => type[s] \in Idle,
         \A s \in Slot : id'[s] = id[s] \/ type[s] \in Idle
  PROVE  Buffers' /\ \A s \in Slot : Units(s)' = Units(s)
  <1>1. \A s \in Slot : Units(s)' = Units(s)
    BY DEF Units
  <1>2. Len(packets) \in Nat /\ Len(packets') \in Nat /\ packets \in Seq(Pack)
    BY Typed
  <1> SUFFICES ASSUME NEW s \in Slot
               PROVE  /\ type'[s] \in Idle => wire[s] = <<>> /\ high[s] = <<>> /\ low[s] = <<>>
                      /\ Paired(Units(s)) /\ Proper(Units(s), id[s])' /\ LowWhole(low[s])'
    BY <1>1 DEF Buffers
  <1>3. /\ type[s] \in Idle => wire[s] = <<>> /\ high[s] = <<>> /\ low[s] = <<>>
        /\ Paired(Units(s)) /\ Proper(Units(s), id[s]) /\ LowWhole(low[s])
    BY DEF Buffers
  <1> PICK q : q = Units(s)
    OBVIOUS
  <1> PICK l : l = low[s]
    OBVIOUS
  <1>4. \A k \in 1..Len(q) : q[k] \in 1..Len(packets) /\ packets'[q[k]] = packets[q[k]]
    BY <1>3 DEF Proper
  <1>5. \A k \in 1..Len(q) : q[k] \in 1..Len(packets') /\ packets'[q[k]].to = id'[s]
    <2>1. CASE id'[s] = id[s]
      BY <1>2, <1>3, <1>4, <2>1 DEF Proper
    <2>2. CASE type[s] \in Idle
      <3>1. q = <<>>
        BY <1>3, <2>2, ConcatEmptySeq, EmptySeq DEF Units
      <3> QED BY <3>1
    <2> QED BY <2>1, <2>2
  <1>6. \A j, k \in 1..Len(q) :
          j < k /\ packets'[q[j]].prio = packets'[q[k]].prio => q[j] <= q[k]
    BY <1>3, <1>4 DEF Proper
  <1>7. Proper(Units(s), id[s])'
    <2>1. Units(s)' = q
      BY <1>1
    <2> QED BY <1>5, <1>6, <2>1 DEF Proper
  <1>8. LowWhole(low[s])'
    <2>1. l \in Seq(Unit) /\ wire[s] \in Seq(Unit) /\ high[s] \in Seq(Unit)
      BY BufferTypes
    <2>2. \A k \in 1..Len(l) : \E j \in 1..Len(q) : q[j] = l[k]
      <3> TAKE k \in 1..Len(l)
      <3> PICK w, h \in Seq(Unit) : w = wire[s] /\ h = high[s]
        BY <2>1
      <3>1. q = w \o h \o l /\ l \in Seq(Unit)
        BY <2>1 DEF Units
      <3>2. Len(q) = Len(w) + Len(h) + Len(l) /\ q[Len(w) + Len(h) + k] = l[k]
        BY ONLY <3>1, w \in Seq(Unit), h \in Seq(Unit), k \in 1..Len(l)
      <3>3. Len(w) + Len(h) + k \in 1..Len(q)
        <4>1. Len(w) \in Nat /\ Len(h) \in Nat /\ Len(l) \in Nat
          BY <3>1
        <4>2. k \in 1..Len(l)
          OBVIOUS
        <4> QED BY ONLY <3>2, <4>1, <4>2
      <3> QED BY <3>2, <3>3
    <2>3. \A k \in 1..Len(l) : packets'[l[k]] = packets[l[k]]
      BY <1>4, <2>2
    <2>4. LowWhole(l) /\ low'[s] = l
      BY <1>3
    <2> QED BY <2>3, <2>4 DEF LowWhole
  <1> QED BY <1>3, <1>7, <1>8

\* What the loop does between messages: only the batch changes.
LEMMA BatchInv ==
  ASSUME IInv, UNCHANGED <<slotVars, alloc_id, pipe, threadVars, serviceVars, ended>>,
         checkctrl' \in BOOLEAN, ev' \in Seq(Evt), pc' \in {"poll", "event", "clear"},
         closed' \in 0..MaxId, Events'
  PROVE  IInv' /\ \A j \in Id : ended[j] => ended'[j]
  <1>1. UNCHANGED <<type, id, high, low, writing, wire, alloc_id, pipe, at, newid, use, asked, packets, ended>>
    BY DEF slotVars, threadVars, serviceVars
  <1>2. TypeOK /\ Control /\ Buffers /\ Newer
    BY DEF IInv
  <1>3. TypeOK'
    BY <1>1, <1>2 DEF TypeOK, Evt
  <1>4. \A t \in Thread : SlotOf(t)' = SlotOf(t)
    BY <1>1 DEF SlotOf
  <1>5. Threads' /\ Ids' /\ Reserved' /\ Alive'
    BY <1>1, <1>2, <1>4 DEF Control, Threads, Opens1, Ids, Reserved, Alive
  <1>6. Commands'
    BY <1>1, <1>2, <1>4 DEF Control, Commands, Command1
  <1>7. packets \in Seq(Pack) /\ Len(packets) \in Nat
    BY <1>2, Typed
  <1>8. Buffers' /\ \A s \in Slot : Units(s)' = Units(s)
    BY <1>1, <1>2, <1>7, BuffersKept
  <1>9. Newer'
    BY <1>1, <1>2, <1>8 DEF Newer
  <1> QED BY <1>1, <1>3, <1>5, <1>6, <1>8, <1>9 DEF IInv, Control, NoAbort

\* A connection is accepted, in a free slot.
LEMMA AcceptInv ==
  ASSUME IInv, pc # "clear", ev # <<>>, NEW s, s = Head(ev).s, s # None, type[s] = "LISTEN",
         UNCHANGED <<pipe, checkctrl, at, newid, asked, packets>>,
         ReportAccept(s, Tail(ev))
  PROVE  IInv' /\ \A j \in Id : ended[j] => ended'[j]
  <1>0. TypeOK /\ Control /\ Buffers /\ Newer
    BY DEF IInv
  <1>1. s \in Slot /\ id[s] \in Id /\ use[id[s]] # None /\ ~ ended[id[s]]
    BY <1>0, HeadEvent
  <1> PICK i \in (alloc_id + 1)..MaxId :
        /\ type[HASH_ID(i)] = "INVALID" /\ alloc_id' = i
        /\ IF Empty(HASH_ID(i))
           THEN /\ Becomes(HASH_ID(i), "PACCEPT")
                /\ id' = [id EXCEPT ![HASH_ID(i)] = i]
                /\ use' = [use EXCEPT ![i] = "A"]
                /\ Reports(id[s], Tail(ev))
                /\ UNCHANGED <<high, low, writing, wire>>
           ELSE Aborts /\ UNCHANGED use
    BY DEF ReportAccept
  <1> DEFINE r == HASH_ID(i)
  <1>2. i \in Id /\ i > alloc_id /\ alloc_id \in Nat
    BY <1>0, SocketAssumption DEF TypeOK, Id
  <1>3. r \in Slot /\ wire[r] = <<>> /\ high[r] = <<>> /\ low[r] = <<>> /\ type[r] = "INVALID" /\ HASH_ID(i) = r
    BY <1>0, <1>2, IdSlot DEF Buffers, Idle
  <1>4. /\ type' = [type EXCEPT ![r] = "PACCEPT"] /\ id' = [id EXCEPT ![r] = i]
        /\ use' = [use EXCEPT ![i] = "A"] /\ alloc_id' = i
        /\ ended' = [ended EXCEPT ![id[s]] = FALSE] /\ ev' = Tail(ev) /\ pc' = "poll" /\ closed' = 0
        /\ UNCHANGED <<high, low, writing, wire>>
    BY <1>3 DEF Empty, Becomes, Reports, Goes
  <1> HIDE DEF r
  <1>5. /\ type'[r] = "PACCEPT" /\ id'[r] = i /\ use'[i] = "A"
        /\ \A q \in Slot : q # r => type'[q] = type[q] /\ id'[q] = id[q]
        /\ \A j \in Id : j # i => use'[j] = use[j]
    BY <1>0, <1>2, <1>3, <1>4 DEF TypeOK
  <1>6. \A j \in Id : ended'[j] = ended[j]
    BY <1>0, <1>1, <1>4 DEF TypeOK
  <1>7. use[i] = None
    BY <1>0, <1>2 DEF Control, Ids
  <1>8. "A" # None
    BY SocketAssumption
  <1>9. TypeOK'
    <2>1. ev' \in Seq(Evt)
      BY <1>0, <1>4, Typed, Rest
    <2>2. type' \in [Slot -> Types]
      BY <1>0, <1>4 DEF TypeOK, Types
    <2>3. i \in 0..MaxId
      BY <1>2, SocketAssumption DEF Id
    <2>4. id' \in [Slot -> 0..MaxId]
      BY <1>0, <1>4, <2>3 DEF TypeOK
    <2>5. use' \in [Id -> {None, "O", "L", "B", "A"}]
      BY <1>0, <1>4 DEF TypeOK
    <2>6. ended' \in [Id -> BOOLEAN]
      BY <1>0, <1>4 DEF TypeOK
    <2>7. alloc_id' \in 0..MaxId /\ closed' \in 0..MaxId
      BY <1>4, <2>3, SocketAssumption
    <2> QED BY <1>0, <1>4, <2>1, <2>2, <2>4, <2>5, <2>6, <2>7 DEF TypeOK, Types, Evt
  <1>10. Threads'
    <2>1. \A j \in Id : j <= alloc_id => use'[j] = use[j]
      BY <1>2, <1>5
    <2>2. \A t \in Thread : at[t] \in Holding => SlotOf(t) # r /\ SlotOf(t) \in Slot
      BY <1>0, <1>3, ThreadSlot DEF Control, Threads, Opens1
    <2>3. alloc_id' \in Nat /\ alloc_id <= alloc_id'
      BY <1>2, <1>4, SocketAssumption DEF Id
    <2> QED BY <1>0, <1>5, <2>1, <2>2, <2>3, ThreadsKept DEF Control
  <1>11. Ids'
    <2>1. \A j \in Id : use'[j] # None => j <= alloc_id'
      BY <1>0, <1>2, <1>4, <1>5, SocketAssumption DEF Control, Ids, Id
    <2>2. \A j \in Id : ended'[j] => use'[j] # None
      BY <1>0, <1>5, <1>6, <1>8 DEF Control, Ids
    <2>3. \A q \in Slot : id'[q] # 0 => HASH_ID(id'[q]) = q
      BY <1>0, <1>3, <1>5 DEF Control, Ids
    <2> QED BY <2>1, <2>2, <2>3 DEF Ids
  <1>12. Commands'
    <2>1. Kept
      BY <1>0, <1>5, <1>7, Typed DEF Kept
    <2>2. \A k \in 1..Len(pipe) : Spares(pipe[k])
      <3> TAKE k \in 1..Len(pipe)
      <3> SUFFICES ASSUME pipe[k].op \in Opening
                   PROVE  /\ type'[HASH_ID(pipe[k].id)] = type[HASH_ID(pipe[k].id)]
                          /\ id'[HASH_ID(pipe[k].id)] = id[HASH_ID(pipe[k].id)]
                          /\ ~ ended'[pipe[k].id]
        BY DEF Spares
      <3>1. pipe[k].id \in Id /\ HASH_ID(pipe[k].id) \in Slot
        BY <1>0, PipeSlots
      <3>2. type[HASH_ID(pipe[k].id)] = "RESERVE" /\ ~ ended[pipe[k].id]
        BY <1>0 DEF Control, Commands, Command1
      <3> QED BY <1>3, <1>5, <1>6, <3>1, <3>2
    <2> QED BY <1>0, <2>1, <2>2, CommandsStay DEF Control
  <1>13. Reserved'
    <2>1. \A q \in Slot : type'[q] = "RESERVE" => type[q] = "RESERVE"
      BY <1>5
    <2> QED BY <1>0, <2>1, ReservedStay DEF Control
  <1>14. Alive'
    <2> SUFFICES ASSUME NEW q \in Slot, type'[q] \notin Idle
                 PROVE  /\ id'[q] # 0 /\ use'[id'[q]] # None /\ ~ ended'[id'[q]]
                        /\ type'[q] \in {"PLISTEN", "LISTEN"} => use'[id'[q]] = "L"
      BY DEF Alive
    <2>1. CASE q = r
      <3>1. ~ ended[i] /\ i # 0
        BY <1>0, <1>2, <1>7 DEF Control, Ids
      <3> QED BY <1>2, <1>5, <1>6, <1>8, <2>1, <3>1
    <2>2. CASE q # r
      <3>1. /\ id[q] # 0 /\ use[id[q]] # None /\ ~ ended[id[q]]
            /\ type[q] \in {"PLISTEN", "LISTEN"} => use[id[q]] = "L"
        BY <1>0, <1>5, <2>2 DEF Control, Alive
      <3>2. id[q] \in Id /\ id[q] # i
        BY <1>0, <1>7, <3>1, SocketAssumption DEF TypeOK, Id
      <3> QED BY <1>5, <1>6, <2>2, <3>1, <3>2
    <2> QED BY <2>1, <2>2
  <1>15. Events'
    <2>1. /\ \A k \in 1..Len(ev') : ev'[k].s # None => ev'[k].s \in Slot /\ type[ev'[k].s] \in Watched
          /\ \A j, k \in 1..Len(ev') : ev'[j].s # None /\ ev'[j].s = ev'[k].s => j = k
      BY <1>0, <1>4, EventsLeft DEF Control
    <2>2. \A k \in 1..Len(ev') : ev'[k].s # None => type'[ev'[k].s] \in Watched
      BY <1>3, <1>5, <2>1 DEF Watched
    <2> QED BY <2>1, <2>2 DEF Events
  <1>16. packets \in Seq(Pack) /\ Len(packets) \in Nat
    BY <1>0, Typed
  <1>17. Buffers' /\ \A q \in Slot : Units(q)' = Units(q)
    <2>1. \A q \in Slot : type'[q] \in Idle => type[q] \in Idle
      BY <1>5, <1>3 DEF Idle
    <2>2. \A q \in Slot : id'[q] = id[q] \/ type[q] \in Idle
      BY <1>5, <1>3 DEF Idle
    <2> QED BY <1>0, <1>4, <1>16, <2>1, <2>2, BuffersKept
  <1>18. Newer'
    BY <1>0, <1>17 DEF Newer
  <1>19. NoAbort'
    BY <1>4 DEF NoAbort
  <1> QED BY <1>6, <1>9, <1>10, <1>11, <1>12, <1>13, <1>14, <1>15, <1>17, <1>18, <1>19 DEF IInv, Control

\* The next event of the batch.
LEMMA EventInv ==
  ASSUME IInv, HandleEvent
  PROVE  IInv' /\ \A j \in Id : ended[j] => ended'[j]
  <1>0. TypeOK /\ Control /\ Buffers
    BY DEF IInv
  <1>1. /\ pc # "clear" /\ ev # <<>> /\ checkctrl' \in BOOLEAN
        /\ UNCHANGED <<pipe, checkctrl, at, newid, asked, packets>>
    BY <1>0 DEF HandleEvent, threadVars, TypeOK
  <1> PICK e \in Evt : e = Head(ev)
    BY <1>0, <1>1, Typed, Rest
  <1> PICK s : s = e.s
    OBVIOUS
  <1> PICK t : t = IF s = None THEN "INVALID" ELSE type[s]
    OBVIOUS
  <1>2. \/ t = "INVALID" /\ Goes(Tail(ev)) /\ UNCHANGED <<slotVars, alloc_id, use, wire, ended>>
        \/ t = "CONNECTING" /\ ReportConnect(s, Tail(ev)) /\ UNCHANGED <<alloc_id, use>>
        \/ t = "LISTEN" /\ ReportAccept(s, Tail(ev))
        \/ t = "LISTEN" /\ Goes(Tail(ev)) /\ UNCHANGED <<slotVars, alloc_id, use, wire, ended>>
        \/ /\ t \notin {"INVALID", "CONNECTING", "LISTEN"} /\ UNCHANGED <<alloc_id, use>>
           /\ IF Uncomplete(low[s]) THEN Aborts ELSE SendBuffer(s, Tail(ev))
        \/ /\ t \notin {"INVALID", "CONNECTING", "LISTEN"} /\ UNCHANGED <<alloc_id, use>>
           /\ IF t = "RESERVE" THEN Aborts ELSE ForwardMessage(s, Tail(ev))
    BY DEF HandleEvent
  <1>3. s # None => /\ s \in Slot /\ type[s] \in Watched /\ id[s] \in Id /\ t = type[s] /\ s = Head(ev).s
                    /\ t # "INVALID" /\ t # "RESERVE"
    <2> HAVE s # None
    <2>1. s \in Slot /\ type[s] \in Watched /\ id[s] \in Id
      BY <1>0, <1>1, HeadEvent
    <2> QED BY <2>1 DEF Watched
  <1>4. s = None => t = "INVALID"
    OBVIOUS
  <1>5. CASE s = None
    <2>1. Goes(Tail(ev)) /\ UNCHANGED <<slotVars, alloc_id, use, wire, ended>>
      BY <1>2, <1>4, <1>5
    <2>2. ev' = Tail(ev) /\ pc' = "poll" /\ closed' = 0 /\ closed' \in 0..MaxId
      BY <2>1, SocketAssumption DEF Goes
    <2>3. ev' \in Seq(Evt)
      BY <1>0, <1>1, <2>2, Typed, Rest
    <2>4. /\ \A k \in 1..Len(ev') : ev'[k].s # None => ev'[k].s \in Slot /\ type[ev'[k].s] \in Watched
          /\ \A j, k \in 1..Len(ev') : ev'[j].s # None /\ ev'[j].s = ev'[k].s => j = k
      BY <1>0, <1>1, <2>2, EventsLeft DEF Control
    <2>5. UNCHANGED <<slotVars, alloc_id, pipe, threadVars, serviceVars, ended>> /\ type' = type
      BY <1>1, <2>1 DEF threadVars, serviceVars, slotVars
    <2>6. Events'
      BY <2>4, <2>5 DEF Events
    <2> QED BY <1>1, <2>2, <2>3, <2>5, <2>6, BatchInv
  <1>6. ASSUME s # None, Step(id[s]) PROVE IInv' /\ \A j \in Id : ended[j] => ended'[j]
    BY <1>1, <1>3, <1>6, StepInv
  <1>7. CASE s # None /\ t = "CONNECTING"
    <2>1. ReportConnect(s, Tail(ev)) /\ UNCHANGED <<alloc_id, use>>
      BY <1>2, <1>7
    <2>2. CASE ForceClose(s) /\ ended' = [ended EXCEPT ![id[s]] = TRUE] /\ Goes(Tail(ev))
      <3>1. UNCHANGED <<alloc_id, use, asked, packets, at, newid>>
        BY <1>1, <2>1
      <3>2. Step(id[s])
        BY <1>0, <1>1, <1>3, <1>7, <2>2, <3>1, CloseEvent
      <3> QED BY <1>6, <1>7, <3>2
    <2>3. CASE /\ Becomes(s, "CONNECTED")
               /\ writing' = [writing EXCEPT ![s] = ~ Empty(s)]
               /\ Reports(id[s], Tail(ev))
               /\ UNCHANGED <<id, high, low, wire>>
      <3>1. UNCHANGED <<id, high, low, wire, alloc_id, use, asked, packets, at, newid>>
        BY <1>1, <2>1, <2>3
      <3>2. Step(id[s])
        BY <1>0, <1>1, <1>3, <1>7, <2>3, <3>1, StayEvent
      <3> QED BY <1>6, <1>7, <3>2
    <2> QED BY <2>1, <2>2, <2>3 DEF ReportConnect
  <1>8. CASE s # None /\ t = "LISTEN"
    <2>1. CASE ReportAccept(s, Tail(ev))
      BY <1>1, <1>3, <1>8, <2>1, AcceptInv
    <2>2. CASE Goes(Tail(ev)) /\ UNCHANGED <<slotVars, alloc_id, use, wire, ended>>
      <3>1. UNCHANGED <<type, writing, id, high, low, wire, alloc_id, use, asked, packets, at, newid>>
        BY <1>1, <2>2 DEF slotVars
      <3>2. Step(id[s])
        BY <1>0, <1>1, <1>3, <1>8, <2>2, <3>1, StayEvent
      <3> QED BY <1>6, <1>8, <3>2
    <2> QED BY <1>2, <1>8, <2>1, <2>2
  <1>9. CASE s # None /\ t \notin {"INVALID", "CONNECTING", "LISTEN"}
    <2>1. UNCHANGED <<alloc_id, use, asked, packets, at, newid>>
      BY <1>1, <1>2, <1>9
    <2>2. CASE IF Uncomplete(low[s]) THEN Aborts ELSE SendBuffer(s, Tail(ev))
      <3>1. ~ Uncomplete(low[s])
        <4>1. wire[s] \in Seq(Unit) /\ high[s] \in Seq(Unit) /\ low[s] \in Seq(Unit)
          BY <1>0, <1>3, <1>9, BufferTypes
        <4>2. Paired(wire[s] \o high[s] \o low[s]) /\ LowWhole(low[s])
          BY <1>0, <1>3, <1>9 DEF Buffers, Units
        <4> QED BY <4>1, <4>2, LowComplete
      <3>2. Step(id[s])
        BY <1>0, <1>1, <1>3, <1>9, <2>1, <2>2, <3>1, SendEvent
      <3> QED BY <1>6, <1>9, <3>2
    <2>3. CASE IF t = "RESERVE" THEN Aborts ELSE ForwardMessage(s, Tail(ev))
      <3>1. ForwardMessage(s, Tail(ev))
        BY <1>3, <1>9, <2>3
      <3>2. CASE Closes(s, Tail(ev))
        <4>1. Step(id[s])
          BY <1>0, <1>1, <1>3, <1>9, <2>1, <3>2, CloseEvent
        <4> QED BY <1>6, <1>9, <4>1
      <3>3. CASE /\ UNCHANGED slotVars
                 /\ IF type[s] = "HALFCLOSE" THEN Goes(Tail(ev)) /\ UNCHANGED ended
                                             ELSE Reports(id[s], Tail(ev))
        <4>1. UNCHANGED <<type, writing, id, high, low, wire, alloc_id, use, asked, packets, at, newid>>
          BY <2>1, <3>3 DEF slotVars
        <4>2. Step(id[s])
          BY <1>0, <1>1, <1>3, <1>9, <3>3, <4>1, StayEvent
        <4> QED BY <1>6, <1>9, <4>2
      <3> QED BY <3>1, <3>2, <3>3 DEF ForwardMessage
    <2> QED BY <1>2, <1>9, <2>2, <2>3
  <1> QED BY <1>3, <1>5, <1>7, <1>8, <1>9

\* clear_closed_event.
LEMMA ClearInv ==
  ASSUME IInv, ClearClosedEvent
  PROVE  IInv' /\ \A j \in Id : ended[j] => ended'[j]
  <1>0. TypeOK /\ Control
    BY DEF IInv
  <1>1. /\ pc = "clear" /\ ev' = Cleared(ev, closed, type) /\ pc' = "poll" /\ closed' = 0
        /\ UNCHANGED <<slotVars, alloc_id, pipe, checkctrl, threadVars, serviceVars, ended>>
    BY DEF ClearClosedEvent, Goes
  <1> DEFINE Gone(k) == ev[k].s # None /\ type[ev[k].s] = "INVALID" /\ id[ev[k].s] = closed
  <1>2. Len(ev) \in Nat /\ DOMAIN ev = 1..Len(ev) /\ \A k \in 1..Len(ev) : ev[k] \in Evt
    BY <1>0, Typed
  <1>3. ev' = [k \in 1..Len(ev) |-> IF Gone(k) THEN [ev[k] EXCEPT !.s = None] ELSE ev[k]]
    BY <1>1, <1>2 DEF Cleared
  <1>4. \A k \in 1..Len(ev) : /\ ev'[k] \in Evt
                              /\ Gone(k) => ev'[k].s = None
                              /\ ~ Gone(k) => ev'[k].s = ev[k].s
    BY <1>2, <1>3 DEF Evt
  <1>5. Len(ev') = Len(ev) /\ ev' \in Seq(Evt)
    <2>1. \A k \in 1..Len(ev) : ev'[k] \in Evt
      BY <1>4
    <2>2. ev' \in [1..Len(ev) -> Evt]
      BY <1>3, <2>1
    <2> QED BY <1>2, <2>2
  <1>6. ASSUME NEW k \in 1..Len(ev'), ev'[k].s # None
        PROVE  ev'[k].s = ev[k].s /\ ev[k].s # None /\ type'[ev'[k].s] \in Watched
    <2>1. k \in 1..Len(ev) /\ ~ Gone(k) /\ ev'[k].s = ev[k].s
      BY <1>4, <1>5, <1>6
    <2>2. type[ev[k].s] \in Watched
      BY <1>0, <1>6, <2>1 DEF Control, Events
    <2> QED BY <1>1, <1>6, <2>1, <2>2 DEF slotVars
  <1>7. Events'
    <2>1. \A k \in 1..Len(ev') : ev'[k].s # None => type'[ev'[k].s] \in Watched
      BY <1>6
    <2>2. \A j, k \in 1..Len(ev') : ev'[j].s # None /\ ev'[j].s = ev'[k].s => j = k
      <3> TAKE j, k \in 1..Len(ev')
      <3> HAVE ev'[j].s # None /\ ev'[j].s = ev'[k].s
      <3>1. ev[j].s = ev[k].s /\ ev[j].s # None
        BY <1>6
      <3> QED BY <1>0, <1>5, <3>1 DEF Control, Events
    <2> QED BY <2>1, <2>2 DEF Events
  <1>8. checkctrl' \in BOOLEAN /\ closed' \in 0..MaxId /\ pc' \in {"poll", "event", "clear"}
    BY <1>0, <1>1, SocketAssumption DEF TypeOK
  <1> QED BY <1>1, <1>5, <1>7, <1>8, BatchInv

\* A batch of epoll is a sequence of events about different sockets, which are
\* watched.
LEMMA BatchEvents ==
  ASSUME NEW q \in Batches
  PROVE  /\ q \in Seq(Evt)
         /\ \A k \in 1..Len(q) : q[k].s # None => q[k].s \in Slot /\ type[q[k].s] \in Watched
         /\ \A j, k \in 1..Len(q) : q[j].s # None /\ q[j].s = q[k].s => j = k
  <1> PICK b \in SUBSET Possible :
        /\ \A e, f \in b : e.s = f.s => e = f
        /\ q \in SetToSeqs(b \cup IF pipe = <<>> THEN {} ELSE {PipeEvent})
    BY DEF Batches
  <1> PICK c : c = b \cup IF pipe = <<>> THEN {} ELSE {PipeEvent}
    OBVIOUS
  <1>1. /\ \A e \in c : e \in b \/ e = PipeEvent
        /\ \A e \in b : e \in Evt /\ e.s \in Slot /\ e.s # None /\ type[e.s] \in Watched
    BY SocketAssumption DEF Possible, Event, Evt, Watched
  <1>2. PipeEvent \in Evt /\ PipeEvent.s = None
    BY DEF PipeEvent, Evt
  <1>3. \A e \in c : e \in Evt /\ (e.s # None => e \in b /\ e.s \in Slot /\ type[e.s] \in Watched)
    BY <1>1, <1>2
  <1>4. \A e, f \in c : e.s = f.s => e = f
    BY <1>1, <1>2
  <1>5. IsFiniteSet(c)
    <2> DEFINE g == [e \in c |-> e.s]
    <2>1. \A e \in c : e.s \in Slot \cup {None}
      BY <1>3
    <2>2. g \in [c -> Slot \cup {None}]
      BY <2>1
    <2>3. \A e, f \in c : g[e] = g[f] => e = f
      BY <1>4
    <2>4. g \in Injection(c, Slot \cup {None})
      BY <2>2, <2>3 DEF Injection, IsInjective
    <2>5. IsFiniteSet(Slot \cup {None})
      <3>1. IsFiniteSet(Slot)
        BY SocketAssumption, FS_Interval DEF Slot
      <3> QED BY <3>1, FS_AddElement
    <2> HIDE DEF g
    <2> QED BY <2>4, <2>5, FS_Injection
  <1> PICK n \in Nat : n = Cardinality(c)
    BY <1>5, FS_CardinalityType
  <1>6. q \in [1..n -> c] /\ \A i, j \in 1..n : i # j => q[i] # q[j]
    BY DEF SetToSeqs
  <1>7. q \in [1..n -> Evt]
    BY <1>3, <1>6
  <1>8. q \in Seq(Evt) /\ Len(q) = n
    BY ONLY <1>7, n \in Nat
  <1>9. \A k \in 1..n : q[k] \in c
    BY <1>6
  <1>10. ASSUME NEW j \in 1..n, NEW k \in 1..n, q[j].s = q[k].s PROVE j = k
    <2>1. q[j] = q[k]
      BY <1>4, <1>9, <1>10
    <2> QED BY <1>6, <2>1
  <1>11. \A k \in 1..n : q[k].s # None => q[k].s \in Slot /\ type[q[k].s] \in Watched
    BY <1>3, <1>9
  <1> QED BY <1>8, <1>10, <1>11

\* sp_wait.
LEMMA WaitInv ==
  ASSUME IInv, Wait
  PROVE  IInv' /\ \A j \in Id : ended[j] => ended'[j]
  <1>0. TypeOK
    BY DEF IInv
  <1>1. /\ ev' \in Batches /\ checkctrl' \in BOOLEAN /\ pc' = "event"
        /\ UNCHANGED <<slotVars, alloc_id, pipe, closed, threadVars, serviceVars, ended>> /\ type' = type
    BY DEF Wait, slotVars
  <1> PICK q \in Batches : q = ev'
    BY <1>1
  <1>2. /\ ev' \in Seq(Evt)
        /\ \A k \in 1..Len(ev') : ev'[k].s # None => ev'[k].s \in Slot /\ type[ev'[k].s] \in Watched
        /\ \A j, k \in 1..Len(ev') : ev'[j].s # None /\ ev'[j].s = ev'[k].s => j = k
    BY BatchEvents
  <1>3. Events'
    BY <1>1, <1>2 DEF Events
  <1>4. closed' \in 0..MaxId
    BY <1>0, <1>1 DEF TypeOK
  <1> QED BY <1>1, <1>2, <1>3, <1>4, BatchInv

\* has_cmd finds none.
LEMMA NoCommandInv ==
  ASSUME IInv, NoCommand
  PROVE  IInv' /\ \A j \in Id : ended[j] => ended'[j]
  <1>0. TypeOK /\ Control
    BY DEF IInv
  <1>1. /\ checkctrl' \in BOOLEAN /\ pc' = "poll" /\ pc = "poll"
        /\ UNCHANGED <<slotVars, alloc_id, pipe, ev, closed, threadVars, serviceVars, ended>> /\ type' = type
    BY DEF NoCommand, slotVars
  <1>2. ev' \in Seq(Evt) /\ closed' \in 0..MaxId
    BY <1>0, <1>1, Typed DEF TypeOK
  <1>3. Events'
    BY <1>0, <1>1 DEF Control, Events, slotVars
  <1> QED BY <1>1, <1>2, <1>3, BatchInv

-----------------------------------------------------------------------------
(* The threads and the services                                            *)

\* A command that is sent speaks of a newer packet than all in the buffers.
LEMMA NewerSent ==
  ASSUME TypeOK, Newer, NEW d \in Cmd, pipe' = Append(pipe, d),
         \A s \in Slot : Units(s)' = Units(s),
         d.op \in {"D", "P"} => \A s \in Slot : \A j \in 1..Len(Units(s)) : Units(s)[j] < d.n
  PROVE  Newer'
  <1>1. /\ Len(pipe') = Len(pipe) + 1 /\ Len(pipe) \in Nat
        /\ \A k \in 1..Len(pipe) : pipe'[k] = pipe[k]
        /\ pipe'[Len(pipe) + 1] = d
    BY Typed, Appended
  <1> SUFFICES ASSUME NEW s \in Slot, NEW j \in 1..Len(Units(s)), NEW k \in 1..Len(pipe'),
                      pipe'[k].op \in {"D", "P"}
               PROVE  Units(s)[j] < pipe'[k].n
    BY DEF Newer
  <1>2. CASE k = Len(pipe) + 1
    BY <1>1, <1>2
  <1>3. CASE k \in 1..Len(pipe)
    BY <1>1, <1>3 DEF Newer
  <1> QED BY <1>1, <1>2, <1>3

LEMMA ThreadBuffers ==
  ASSUME IInv, NEW t \in Thread,
         Allocate(t) \/ Claim(t) \/ SetId(t) \/ \E op \in {"O", "L", "B"} : OpenRequest(t, op)
  PROVE  Buffers' /\ Newer' /\ ended' = ended
  <1>0. TypeOK /\ Control /\ Buffers /\ Newer
    BY DEF IInv
  <1>1. UNCHANGED <<high, low, wire, packets, ended>>
    BY DEF Allocate, Claim, SetId, OpenRequest, slotVars, serviceVars
  <1>2. packets \in Seq(Pack) /\ Len(packets) \in Nat
    BY <1>0, Typed
  <1>3. SlotOf(t) \in Slot
    BY <1>0, ThreadSlot
  <1>4. \A s \in Slot : type'[s] \in Idle => type[s] \in Idle
    <2>1. CASE Claim(t)
      BY <1>0, <1>3, <2>1 DEF Claim, SlotOf, Idle, TypeOK
    <2>2. CASE ~ Claim(t)
      BY <2>2 DEF Allocate, SetId, OpenRequest, slotVars
    <2> QED BY <2>1, <2>2
  <1>5. \A s \in Slot : id'[s] = id[s] \/ type[s] \in Idle
    <2>1. CASE SetId(t)
      <3>1. type[SlotOf(t)] \in Idle
        BY <1>0, <2>1 DEF SetId, Control, Threads, Opens1, Holding, Idle
      <3>2. id' = [id EXCEPT ![SlotOf(t)] = newid[t]]
        BY <2>1 DEF SetId, SlotOf
      <3> QED BY <1>0, <1>3, <3>1, <3>2 DEF TypeOK
    <2>2. CASE ~ SetId(t)
      BY <2>2 DEF Allocate, Claim, OpenRequest, slotVars
    <2> QED BY <2>1, <2>2
  <1>6. Buffers' /\ \A s \in Slot : Units(s)' = Units(s)
    BY <1>0, <1>1, <1>2, <1>4, <1>5, BuffersKept
  <1>7. Newer'
    <2>1. CASE pipe' = pipe
      BY <1>0, <1>6, <2>1 DEF Newer
    <2>2. ASSUME NEW op \in {"O", "L", "B"}, OpenRequest(t, op)
          PROVE  Newer'
      <3>1. newid[t] \in Id
        BY <1>0, <2>2, SocketAssumption DEF OpenRequest, Control, Threads, Opens1, TypeOK, Id
      <3>2. [op |-> op, id |-> newid[t], n |-> 0] \in Cmd
        BY <3>1, SocketAssumption DEF Cmd
      <3> PICK d \in Cmd : d = [op |-> op, id |-> newid[t], n |-> 0]
        BY <3>2
      <3>3. pipe' = Append(pipe, d) /\ d.op \notin {"D", "P"}
        BY <2>2 DEF OpenRequest, Requested
      <3> QED BY <1>0, <1>6, <3>3, NewerSent
    <2> QED BY <2>1, <2>2 DEF Allocate, Claim, SetId
  <1> QED BY <1>1, <1>6, <1>7

LEMMA ServiceBuffers ==
  ASSUME IInv, NEW i \in Id,
         \/ \E op \in {"S", "K"} : ServiceRequest(i, op)
         \/ \E prio \in {"D", "P"} : ServiceSend(i, prio)
  PROVE  Buffers' /\ Newer' /\ ended' = ended
  <1>0. TypeOK /\ Control /\ Buffers /\ Newer
    BY DEF IInv
  <1>1. UNCHANGED <<type, id, high, low, wire, ended>>
    BY DEF ServiceRequest, ServiceSend, slotVars
  <1>2. packets \in Seq(Pack) /\ Len(packets) \in Nat
    BY <1>0, Typed
  <1>3. CASE \E op \in {"S", "K"} : ServiceRequest(i, op)
    <2> PICK op \in {"S", "K"} : ServiceRequest(i, op)
      BY <1>3
    <2>1. packets' = packets
      BY DEF ServiceRequest
    <2>2. Buffers' /\ \A s \in Slot : Units(s)' = Units(s)
      BY <1>0, <1>1, <1>2, <2>1, BuffersKept
    <2>3. [op |-> op, id |-> i, n |-> 0] \in Cmd
      BY SocketAssumption DEF Cmd
    <2> PICK d \in Cmd : d = [op |-> op, id |-> i, n |-> 0]
      BY <2>3
    <2>4. pipe' = Append(pipe, d) /\ d.op \notin {"D", "P"}
      BY DEF ServiceRequest, Requested
    <2> QED BY <1>0, <1>1, <2>2, <2>4, NewerSent
  <1>4. CASE \E prio \in {"D", "P"} : ServiceSend(i, prio)
    <2> PICK prio \in {"D", "P"} : ServiceSend(i, prio)
      BY <1>4
    <2>1. packets' = Append(packets, [to |-> i, prio |-> prio]) /\ Len(packets) < MaxSends
      BY DEF ServiceSend
    <2>2. [to |-> i, prio |-> prio] \in Pack
      BY DEF Pack
    <2>3. /\ packets' \in Seq(Pack) /\ Len(packets') = Len(packets) + 1
          /\ \A m \in 1..Len(packets) : packets'[m] = packets[m]
      BY <1>2, <2>1, <2>2, Appended
    <2>4. Len(packets) <= Len(packets')
      BY <1>2, <2>3
    <2>5. Buffers' /\ \A s \in Slot : Units(s)' = Units(s)
      BY <1>0, <1>1, <2>3, <2>4, BuffersKept
    <2>6. [op |-> prio, id |-> i, n |-> Len(packets) + 1] \in Cmd
      BY <1>2, <2>1, SocketAssumption DEF Cmd
    <2> PICK d \in Cmd : d = [op |-> prio, id |-> i, n |-> Len(packets) + 1]
      BY <2>6
    <2>7. pipe' = Append(pipe, d) /\ d.n = Len(packets) + 1
      BY DEF ServiceSend, Requested
    <2>8. \A s \in Slot : \A j \in 1..Len(Units(s)) : Units(s)[j] < d.n
      <3> TAKE s \in Slot
      <3>1. Proper(Units(s), id[s])
        BY <1>0 DEF Buffers
      <3>2. \A j \in 1..Len(Units(s)) : Units(s)[j] \in 1..Len(packets)
        BY <3>1 DEF Proper
      <3> QED BY <1>2, <2>7, <3>2
    <2> QED BY <1>0, <1>1, <2>5, <2>7, <2>8, NewerSent
  <1> QED BY <1>3, <1>4

\* A step of a thread or of a service keeps the invariant.
LEMMA ServiceInv ==
  ASSUME Tame, IInv,
         \/ \E t \in Thread :
              \/ Allocate(t) \/ Claim(t) \/ SetId(t)
              \/ \E op \in {"O", "L", "B"} : OpenRequest(t, op)
         \/ \E i \in Id :
              \/ \E op \in {"S", "K"} : ServiceRequest(i, op)
              \/ \E prio \in {"D", "P"} : ServiceSend(i, prio)
  PROVE  IInv' /\ \A j \in Id : ended[j] => ended'[j]
  <1>0. TypeOK /\ Control /\ Threads
    BY DEF IInv, Control
  <1>1. TypeOK'
    BY <1>0, ServiceTypes
  <1>2. Buffers' /\ Newer' /\ ended' = ended
    BY ThreadBuffers, ServiceBuffers
  <1>3. Control'
    <2>1. ASSUME NEW t \in Thread, Allocate(t) PROVE Control'
      BY <1>0, <2>1, AllocateControl
    <2>2. ASSUME NEW t \in Thread, Claim(t) PROVE Control'
      BY <1>0, <2>2, ClaimControl
    <2>3. ASSUME NEW t \in Thread, SetId(t) PROVE Control'
      BY <1>0, <2>3, SetIdControl
    <2>4. ASSUME NEW t \in Thread, NEW op \in {"O", "L", "B"}, OpenRequest(t, op) PROVE Control'
      BY <1>0, <2>4, OpenRequestControl DEF Opening
    <2>5. ASSUME NEW i \in Id, NEW op \in {"S", "K"}, ServiceRequest(i, op) PROVE Control'
      BY <1>0, <2>5, ServiceRequestControl
    <2>6. ASSUME NEW i \in Id, NEW prio \in {"D", "P"}, ServiceSend(i, prio) PROVE Control'
      BY <1>0, <2>6, ServiceSendControl
    <2> QED BY <2>1, <2>2, <2>3, <2>4, <2>5, <2>6
  <1> QED BY <1>1, <1>2, <1>3 DEF IInv

-----------------------------------------------------------------------------
(* The invariant                                                           *)

LEMMA InitInv == Init => IInv
  <1> SUFFICES ASSUME Init PROVE IInv
    OBVIOUS
  <1> USE DEF Init
  <1>1. TypeOK
    <2>1. 0 \in 0..MaxId
      BY SocketAssumption
    <2>2. <<>> \in Seq(1..MaxSends) /\ Len(pipe) <= PIPE
      BY SocketAssumption
    <2> QED BY <2>1, <2>2 DEF TypeOK
  <1>2. Control
    BY DEF Control, Threads, Opens1, Holding, Ids, Commands, Reserved, Alive, Idle, Events, NoAbort
  <1>3. \A s \in Slot : Units(s) = <<>>
    BY ConcatEmptySeq, EmptySeq DEF Units
  <1>4. Buffers
    BY <1>3, NoUnits DEF Buffers
  <1>5. Newer
    BY <1>3 DEF Newer
  <1> QED BY <1>1, <1>2, <1>4, <1>5 DEF IInv

LEMMA NextInv ==
  ASSUME Tame, IInv, [Next]_vars
  PROVE  IInv' /\ \A j \in Id : ended[j] => ended'[j]
  <1>1. CASE \/ \E t \in Thread :
                  \/ Allocate(t) \/ Claim(t) \/ SetId(t)
                  \/ \E op \in {"O", "L", "B"} : OpenRequest(t, op)
             \/ \E i \in Id :
                  \/ \E op \in {"S", "K"} : ServiceRequest(i, op)
                  \/ \E prio \in {"D", "P"} : ServiceSend(i, prio)
    BY <1>1, ServiceInv
  <1>2. CASE Command
    <2>1. \E i \in Id : Step(i)
      BY <1>2, CommandStep DEF IInv
    <2>2. checkctrl' \in BOOLEAN
      BY <1>2 DEF Command, IInv, TypeOK
    <2> QED BY <2>1, <2>2, StepInv
  <1>3. CASE NoCommand
    BY <1>3, NoCommandInv
  <1>4. CASE HandleEvent
    BY <1>4, EventInv
  <1>5. CASE ClearClosedEvent
    BY <1>5, ClearInv
  <1>6. CASE Wait
    BY <1>6, WaitInv
  <1>7. CASE UNCHANGED vars
    <2>1. UNCHANGED <<slotVars, alloc_id, pipe, checkctrl, ev, pc, closed, threadVars, serviceVars, ended>>
      BY <1>7 DEF vars, loopVars
    <2>2. pc' \in {"poll", "event", "clear"} /\ checkctrl' \in BOOLEAN /\ closed' \in 0..MaxId /\ ev' \in Seq(Evt)
      BY <2>1, Typed DEF IInv, Control, NoAbort, TypeOK
    <2>3. Events'
      BY <2>1 DEF IInv, Control, Events, slotVars
    <2> QED BY <2>1, <2>2, <2>3, BatchInv
  <1> QED BY <1>1, <1>2, <1>3, <1>4, <1>5, <1>6, <1>7 DEF Next, SocketThread

-----------------------------------------------------------------------------
(* The theorems                                                            *)

\* The inductive invariant of the socket server.
THEOREM Invariant ==
  ASSUME Tame
  PROVE  Spec => []IInv
  <1>1. ASSUME IInv, [Next]_vars PROVE IInv'
    BY <1>1, NextInv
  <1> QED BY <1>1, InitInv, PTL DEF Spec

\* All variables keep their types (the slots, the pipe, the batch of events).
THEOREM TypeCorrect ==
  ASSUME Tame
  PROVE  Spec => []TypeOK
  <1>1. IInv => TypeOK
    BY DEF IInv
  <1> QED BY <1>1, Invariant, PTL

\* NoAbort: no assertion of the socket server fails, however commands and
\* events for sockets that are gone arrive.
THEOREM NoAssertionFails ==
  ASSUME Tame
  PROVE  Spec => []NoAbort
  <1>1. IInv => NoAbort
    BY DEF IInv, Control
  <1> QED BY <1>1, Invariant, PTL

\* The units of a packet are an odd one and the next.
LEMMA SamePair ==
  ASSUME NEW j \in Nat, NEW k \in Nat, j % 2 = 1, k = j + 1
  PROVE  (j + 1) \div 2 = (k + 1) \div 2
  OBVIOUS

\* What has gone over a connection is the beginning of what is to go over it.
LEMMA InvOwnPackets == IInv => OwnPackets
  <1> SUFFICES ASSUME IInv, NEW s \in Slot
               PROVE  LET w == wire[s]
                          packet(k) == packets[w[k]]
                      IN /\ \A k \in DOMAIN w : packet(k).to = id[s]
                         /\ \A k \in DOMAIN w : k % 2 = 1 /\ k < Len(w) => w[k] = w[k + 1]
                         /\ \A j, k \in DOMAIN w :
                              /\ w[j] = w[k] => (j + 1) \div 2 = (k + 1) \div 2
                              /\ j < k /\ packet(j).prio = packet(k).prio => w[j] <= w[k]
    BY DEF OwnPackets
  <1>1. wire[s] \in Seq(Unit) /\ high[s] \in Seq(Unit) /\ low[s] \in Seq(Unit)
    BY BufferTypes DEF IInv
  <1> PICK w, h, l \in Seq(Unit) : w = wire[s] /\ h = high[s] /\ l = low[s]
    BY <1>1
  <1> PICK q : q = Units(s)
    OBVIOUS
  <1>2. q = w \o h \o l
    BY DEF Units
  <1>3. /\ DOMAIN w = 1..Len(w) /\ Len(w) \in Nat
        /\ \A k \in 1..Len(w) : k \in 1..Len(q) /\ q[k] = w[k]
    <2>1. Len(w) \in Nat /\ Len(h) \in Nat /\ Len(l) \in Nat /\ DOMAIN w = 1..Len(w)
      OBVIOUS
    <2>2. Len(q) = Len(w) + Len(h) + Len(l) /\ \A k \in 1..Len(w) : q[k] = w[k]
      BY ONLY <1>2, w \in Seq(Unit), h \in Seq(Unit), l \in Seq(Unit)
    <2> QED BY ONLY <2>1, <2>2
  <1>4. Paired(q) /\ Proper(q, id[s])
    BY DEF IInv, Buffers
  <1>5. \A k \in 1..Len(w) : packets[w[k]].to = id[s]
    BY <1>3, <1>4 DEF Proper
  <1>6. \A k \in 1..Len(w) : k % 2 = 1 /\ k < Len(w) => w[k] = w[k + 1]
    <2> TAKE k \in 1..Len(w)
    <2> HAVE k % 2 = 1 /\ k < Len(w)
    <2>1. k + 1 \in 1..Len(w)
      BY <1>3
    <2>2. q[k] = q[k + 1]
      BY <1>3, <1>4 DEF Paired
    <2> QED BY <1>3, <2>1, <2>2
  <1>7. ASSUME NEW j \in 1..Len(w), NEW k \in 1..Len(w), j < k, w[j] = w[k]
        PROVE  (j + 1) \div 2 = (k + 1) \div 2
    <2>1. j % 2 = 1 /\ k = j + 1
      BY <1>3, <1>4, <1>7 DEF Paired
    <2>2. j \in Nat /\ k \in Nat
      BY <1>3
    <2> QED BY <2>1, <2>2, SamePair
  <1>8. ASSUME NEW j \in 1..Len(w), NEW k \in 1..Len(w), w[j] = w[k]
        PROVE  (j + 1) \div 2 = (k + 1) \div 2
    <2>1. j < k \/ k < j \/ j = k
      BY <1>3
    <2>2. CASE j < k
      BY <1>7, <1>8, <2>2
    <2>3. CASE k < j
      BY <1>7, <1>8, <2>3
    <2>4. CASE j = k
      BY <2>4
    <2> QED BY <2>1, <2>2, <2>3, <2>4
  <1>9. \A j, k \in 1..Len(w) :
          j < k /\ packets[w[j]].prio = packets[w[k]].prio => w[j] <= w[k]
    <2> TAKE j, k \in 1..Len(w)
    <2> HAVE j < k /\ packets[w[j]].prio = packets[w[k]].prio
    <2>1. /\ j \in 1..Len(q) /\ k \in 1..Len(q) /\ q[j] = w[j] /\ q[k] = w[k]
          /\ packets[q[j]].prio = packets[q[k]].prio
      BY <1>3
    <2>2. \A m, n \in 1..Len(q) :
            m < n /\ packets[q[m]].prio = packets[q[n]].prio => q[m] <= q[n]
      BY <1>4 DEF Proper
    <2>3. q[j] <= q[k]
      BY <2>1, <2>2
    <2> QED BY <2>1, <2>3
  <1>10. \A j, k \in 1..Len(w) : w[j] = w[k] => (j + 1) \div 2 = (k + 1) \div 2
    BY <1>8
  <1>11. /\ \A k \in DOMAIN w : packets[w[k]].to = id[s]
         /\ \A k \in DOMAIN w : k % 2 = 1 /\ k < Len(w) => w[k] = w[k + 1]
         /\ \A j, k \in DOMAIN w :
              /\ w[j] = w[k] => (j + 1) \div 2 = (k + 1) \div 2
              /\ j < k /\ packets[w[j]].prio = packets[w[k]].prio => w[j] <= w[k]
    BY ONLY <1>3, <1>5, <1>6, <1>9, <1>10
  <1> QED BY <1>11

\* OwnPackets: over a connection go whole packets that were written to its
\* socket, once each and in order for each priority, also when the slot is used
\* again and when writes are partial.
THEOREM PacketsWhole ==
  ASSUME Tame
  PROVE  Spec => []OwnPackets
  <1> QED BY InvOwnPackets, Invariant, PTL

\* NothingAfterEnd: once a socket was reported as closed, no later message
\* speaks of it as alive.
THEOREM EndIsEnd ==
  ASSUME Tame
  PROVE  Spec => NothingAfterEnd
  <1>1. ASSUME IInv, [Next]_vars PROVE [\A i \in Id : ended[i] => ended'[i]]_vars
    BY <1>1, NextInv
  <1> QED BY <1>1, Invariant, PTL DEF Spec, NothingAfterEnd
=============================================================================
