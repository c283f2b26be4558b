---------------------------- MODULE SocketServer ----------------------------
(***************************************************************************)
(* The socket server of socket_server.c: a table of slots, the pipe        *)
(* through which the services give it commands, and the socket thread,     *)
(* which alternates between the commands and the events of epoll.          *)
(*                                                                         *)
(* An id says in which slot its socket is; a slot is used again with       *)
(* another id, so that every command, and every event that still waits in  *)
(* the batch, may be about a socket that is gone.  What happens to the     *)
(* descriptors (data, end of file, errors, partial writes) is chosen       *)
(* freely.  A packet is two units of data, named by its number.            *)
(*                                                                         *)
(* Left out: the owner of a socket (opaque), options, the exit command, a  *)
(* full table, failures of epoll_ctl and of accept.  Services write to     *)
(* streams only.                                                           *)
(***************************************************************************)
EXTENDS Naturals, Sequences, SequencesExt, FiniteSets

CONSTANTS
  Thread,      \* threads that open sockets
  MAX_SOCKET,  \* slots
  PIPE,        \* commands that fit into the pipe
  Tame,        \* TRUE: a slot is not taken between force_close and
               \* clear_closed_event, and no command for it is handled between
               \* the compare-and-swap and the store of the id in reserve_id
  None,
  MaxId,       \* bound: ids handed out
  Opens,       \* bound: what the id may be opened for, a set for each
  MaxSends     \* bound: packets written by the services

Slot == 0..(MAX_SOCKET - 1)

ASSUME SocketAssumption ==
  /\ MAX_SOCKET \in Nat \ {0} /\ PIPE \in Nat \ {0}
  /\ Tame \in BOOLEAN
  /\ None \notin Slot /\ None \notin {"O", "L", "B", "A"}
  /\ MaxId \in Nat /\ MaxSends \in Nat
  /\ Opens \in [1..MaxId -> SUBSET {"O", "L", "B"}]

Id == 1..MaxId
HASH_ID(i) == i % MAX_SOCKET

VARIABLES
  type, id,      \* of each slot
  high, low,     \* its write buffers, as units
  writing,       \* whether epoll looks for its being writable
  wire,          \* the units written to its descriptor
  alloc_id,
  pipe,          \* the commands, oldest first
  checkctrl,
  ev,            \* the events of the batch that are left
  pc,            \* "poll", "event": the first event after epoll_wait, "clear":
                 \* before clear_closed_event, "aborted": an assertion failed
  closed,        \* the id that clear_closed_event is about
  at, newid,     \* where thread t is in an opening call, and its id
  use,           \* what the services know of an id: None, "O", "L", "B" or "A"
  asked,         \* the commands ("S", "K") that they have sent about it
  packets,       \* the packets written: [to, prio], by number
  ended          \* whether the last message about an id was its end

slotVars == <<type, id, high, low, writing, wire>>
loopVars == <<checkctrl, ev, pc, closed>>
threadVars == <<at, newid>>
serviceVars == <<use, asked, packets>>
vars == <<slotVars, alloc_id, pipe, loopVars, threadVars, serviceVars, ended>>

Init ==
  /\ type = [s \in Slot |-> "INVALID"] /\ id = [s \in Slot |-> 0]
  /\ high = [s \in Slot |-> <<>>] /\ low = [s \in Slot |-> <<>>]
  /\ writing = [s \in Slot |-> FALSE]
  /\ alloc_id = 0
  /\ pipe = <<>>
  /\ checkctrl = TRUE /\ ev = <<>> /\ pc = "poll" /\ closed = 0
  /\ at = [t \in Thread |-> "out"] /\ newid = [t \in Thread |-> 0]
  /\ use = [i \in Id |-> None] /\ asked = [i \in Id |-> {}]
  /\ packets = <<>>
  /\ wire = [s \in Slot |-> <<>>]
  /\ ended = [i \in Id |-> FALSE]

-----------------------------------------------------------------------------
(* The calls of the services                                               *)

\* send_request blocks while the pipe is full.
Requested(op, i, n) ==
  /\ Len(pipe) < PIPE
  /\ pipe' = Append(pipe, [op |-> op, id |-> i, n |-> n])

\* __sync_add_and_fetch(&ss->alloc_id, 1), again after a slot in use.
Allocate(t) ==
  /\ at[t] = "out" /\ alloc_id < MaxId
  /\ alloc_id' = alloc_id + 1
  /\ newid' = [newid EXCEPT ![t] = alloc_id + 1]
  /\ at' = [at EXCEPT ![t] = "claim"]
  /\ UNCHANGED <<slotVars, pipe, loopVars, serviceVars, ended>>

\* The compare-and-swap on the type.
Claim(t) ==
  LET s == HASH_ID(newid[t])
  IN /\ at[t] = "claim" /\ (Tame => pc # "clear")
     /\ IF type[s] = "INVALID"
        THEN /\ type' = [type EXCEPT ![s] = "RESERVE"]
             /\ at' = [at EXCEPT ![t] = "claimed"]
             /\ newid' = newid
        ELSE /\ at' = [at EXCEPT ![t] = "out"]
             /\ newid' = [newid EXCEPT ![t] = 0]
             /\ type' = type
     /\ UNCHANGED <<id, high, low, writing, wire, alloc_id, pipe, loopVars,
                    serviceVars, ended>>

\* s->id = id
SetId(t) ==
  /\ at[t] = "claimed"
  /\ id' = [id EXCEPT ![HASH_ID(newid[t])] = newid[t]]
  /\ at' = [at EXCEPT ![t] = "request"]
  /\ UNCHANGED <<type, high, low, writing, wire, alloc_id, pipe, loopVars, newid,
                 serviceVars, ended>>

\* The request to connect, to listen or to bind; the id is returned.
OpenRequest(t, op) ==
  /\ at[t] = "request" /\ op \in Opens[newid[t]]
  /\ Requested(op, newid[t], 0)
  /\ use' = [use EXCEPT ![newid[t]] = op]
  /\ at' = [at EXCEPT ![t] = "out"] /\ newid' = [newid EXCEPT ![t] = 0]
  /\ UNCHANGED <<slotVars, alloc_id, loopVars, asked, packets, ended>>

\* A service starts a socket that listens or was accepted, or closes one, once.
ServiceRequest(i, op) ==
  /\ use[i] \in (IF op = "S" THEN {"L", "A"} ELSE {"O", "L", "B", "A"})
  /\ op \notin asked[i]
  /\ Requested(op, i, 0)
  /\ asked' = [asked EXCEPT ![i] = @ \cup {op}]
  /\ UNCHANGED <<slotVars, alloc_id, loopVars, threadVars, use, packets, ended>>

\* socket_server_send and its like for low priority look at the slot first.
ServiceSend(i, prio) ==
  /\ use[i] \in {"O", "A"} /\ "K" \notin asked[i] /\ Len(packets) < MaxSends
  /\ id[HASH_ID(i)] = i /\ type[HASH_ID(i)] # "INVALID"
  /\ packets' = Append(packets, [to |-> i, prio |-> prio])
  /\ Requested(prio, i, Len(packets) + 1)
  /\ UNCHANGED <<slotVars, alloc_id, loopVars, threadVars, use, asked, ended>>

-----------------------------------------------------------------------------
(* What the loop does with a socket                                        *)

\* Mutant of Cleared: the events of the closed socket stay.
ClearedNever(events, i, types) == events

\* clear_closed_event: the events about the socket lose their slot.
Cleared(events, i, types) ==
  [k \in DOMAIN events |->
     LET e == events[k]
     IN IF e.s # None /\ types[e.s] = "INVALID" /\ id[e.s] = i THEN [e EXCEPT !.s = None] ELSE e]

\* The loop goes on with the rest of the batch.
Goes(events) == ev' = events /\ pc' = "poll" /\ closed' = 0

\* socket_server_poll returns a message about id i.
Reports(i, events) == ended' = [ended EXCEPT ![i] = FALSE] /\ Goes(events)

\* It returns SOCKET_CLOSE or SOCKET_ERROR; clear_closed_event comes first.
Ends(i, events) ==
  /\ ended' = [ended EXCEPT ![i] = TRUE]
  /\ ev' = events /\ pc' = "clear" /\ closed' = i

Aborts ==
  /\ pc' = "aborted"
  /\ UNCHANGED <<slotVars, ev, closed, ended>>

\* force_close frees the slot and what was not written.
ForceClose(s) ==
  /\ type' = [type EXCEPT ![s] = "INVALID"]
  /\ high' = [high EXCEPT ![s] = <<>>] /\ low' = [low EXCEPT ![s] = <<>>]
  /\ writing' = [writing EXCEPT ![s] = FALSE]
  /\ wire' = [wire EXCEPT ![s] = <<>>]
  /\ id' = id

\* The socket comes to its end.
Closes(s, events) == ForceClose(s) /\ Ends(id[s], events)

ClearClosedEvent ==
  /\ pc = "clear"
  /\ Goes(Cleared(ev, closed, type))
  /\ UNCHANGED <<slotVars, alloc_id, pipe, checkctrl, threadVars, serviceVars, ended>>

-----------------------------------------------------------------------------
(* Writing                                                                 *)

Empty(s) == high[s] = <<>> /\ low[s] = <<>>

\* list_uncomplete: a unit of the first packet has been written.
Uncomplete(list) == list # <<>> /\ (Len(list) = 1 \/ list[1] # list[2])

Prefix(list, n) == SubSeq(list, 1, n)
Suffix(list, n) == SubSeq(list, n + 1, Len(list))

\* Mutant of LowWaits: the low buffer does not wait for the high one.
LowWaitsNever(s, n) == FALSE

\* The low buffer is sent when n units have emptied the high one.
LowWaits(s, n) == n < Len(high[s])

\* How many units send_buffer writes of each buffer.
Sendings(s) ==
  {p \in (0..Len(high[s])) \X (0..Len(low[s])) : p[2] > 0 => ~ LowWaits(s, p[1])}

Written(s, p) ==
  wire' = [wire EXCEPT ![s] = @ \o Prefix(high[s], p[1]) \o Prefix(low[s], p[2])]

\* Every unit was written.
All(s, p) == p = <<Len(high[s]), Len(low[s])>>

\* What is left; raise_uncomplete moves a packet sent in part to the high
\* buffer.
Keep(s, p) ==
  LET h == Suffix(high[s], p[1])
      l == Suffix(low[s], p[2])
  IN IF Uncomplete(l)
     THEN high' = [high EXCEPT ![s] = h \o <<l[1]>>] /\ low' = [low EXCEPT ![s] = Tail(l)]
     ELSE high' = [high EXCEPT ![s] = h] /\ low' = [low EXCEPT ![s] = l]

\* A write fails, possibly after others.
WriteFails(s, events) == ~ Empty(s) /\ Closes(s, events)

\* Mutant of LastWritten: a half-closed socket stays when all is written.
LastWrittenStays(s) == FALSE

\* send_buffer finds nothing more to write on a socket that is closing.
LastWritten(s) == type[s] = "HALFCLOSE"

\* send_buffer for an event of epoll: a socket that can be written takes a unit.
SendBuffer(s, events) ==
  \/ WriteFails(s, events)
  \/ \E p \in Sendings(s) :
       LET done == p[1] = Len(high[s]) /\ low[s] = <<>>
       IN /\ Empty(s) \/ p[1] + p[2] > 0
          /\ IF done /\ LastWritten(s)
             THEN Closes(s, events)
             ELSE /\ Written(s, p) /\ Keep(s, p)
                  /\ writing' = [writing EXCEPT ![s] = @ /\ ~ done]
                  /\ Goes(events) /\ UNCHANGED <<type, id, ended>>

-----------------------------------------------------------------------------
(* The commands                                                            *)

\* Mutant of Current: the id is not compared.
CurrentSlot(i) == type[HASH_ID(i)] # "INVALID"

\* The slot is still that of the socket.
Current(i) == type[HASH_ID(i)] # "INVALID" /\ id[HASH_ID(i)] = i

Becomes(s, t) == type' = [type EXCEPT ![s] = t]

\* new_fd for a reserved slot; epoll takes its descriptor where it is added.
NewFd(s, t, look) ==
  /\ Becomes(s, t)
  /\ writing' = [writing EXCEPT ![s] = look]
  /\ UNCHANGED <<id, high, low, wire>>

\* open_socket: fails, connects at once, or begins to.
OpenSocket(i) ==
  LET s == HASH_ID(i)
  IN IF type[s] # "RESERVE" \/ ~ Empty(s)
     THEN Aborts
     ELSE \/ NewFd(s, "INVALID", FALSE) /\ Ends(i, ev)
          \/ NewFd(s, "CONNECTED", FALSE) /\ Reports(i, ev)
          \/ NewFd(s, "CONNECTING", TRUE) /\ Goes(ev) /\ UNCHANGED ended

ListenSocket(i) ==
  LET s == HASH_ID(i)
  IN IF type[s] # "RESERVE" \/ ~ Empty(s)
     THEN Aborts
     ELSE NewFd(s, "PLISTEN", FALSE) /\ Goes(ev) /\ UNCHANGED ended

BindSocket(i) ==
  LET s == HASH_ID(i)
  IN IF type[s] # "RESERVE" \/ ~ Empty(s)
     THEN Aborts
     ELSE NewFd(s, "BIND", FALSE) /\ Reports(i, ev)

\* start_socket; a socket that is connecting or closing gets no answer.
StartSocket(i) ==
  LET s == HASH_ID(i)
  IN /\ CASE ~ Current(i) -> UNCHANGED type /\ Ends(i, ev)
          [] Current(i) /\ type[s] = "PACCEPT" ->
               Becomes(s, "CONNECTED") /\ Reports(i, ev)
          [] Current(i) /\ type[s] = "PLISTEN" ->
               Becomes(s, "LISTEN") /\ Reports(i, ev)
          [] Current(i) /\ type[s] = "CONNECTED" ->
               Reports(i, ev) /\ UNCHANGED type
          [] OTHER -> Goes(ev) /\ UNCHANGED <<type, ended>>
     /\ UNCHANGED <<id, high, low, writing, wire>>

\* close_socket: what can be written at once is written, and the rest later.
CloseSocket(i) ==
  LET s == HASH_ID(i)
  IN CASE ~ Current(i) -> UNCHANGED slotVars /\ Ends(i, ev)
       [] Current(i) /\ Uncomplete(low[s]) -> Aborts
       [] Current(i) /\ type[s] = "RESERVE" /\ Empty(s) -> Aborts
       [] OTHER ->
            \/ WriteFails(s, ev)
            \/ \E p \in Sendings(s) :
                 /\ type[s] = "CONNECTING" => p = <<0, 0>>
                 /\ IF All(s, p)
                    THEN Closes(s, ev)
                    ELSE /\ Written(s, p) /\ Keep(s, p) /\ Becomes(s, "HALFCLOSE")
                         /\ Goes(ev) /\ UNCHANGED <<id, writing, ended>>

Pushed(s, prio, units) ==
  /\ high' = IF prio = "D" THEN [high EXCEPT ![s] = @ \o units] ELSE high
  /\ low' = IF prio = "P" THEN [low EXCEPT ![s] = @ \o units] ELSE low

\* send_socket: writes at once when nothing waits, and what could not be
\* written goes to the high buffer.
SendSocket(i, prio, n) ==
  LET s == HASH_ID(i)
      direct == Empty(s) /\ type[s] = "CONNECTED"
  IN CASE ~ Current(i) \/ type[s] \in {"HALFCLOSE", "PACCEPT"} ->
            Goes(ev) /\ UNCHANGED <<slotVars, ended>>
       [] Current(i) /\ type[s] \in {"PLISTEN", "LISTEN"} -> Aborts
       [] Current(i) /\ type[s] \in {"RESERVE", "CONNECTING", "CONNECTED", "BIND"} /\ ~ direct ->
            Pushed(s, prio, <<n, n>>) /\ Goes(ev)
              /\ UNCHANGED <<type, id, writing, wire, ended>>
       [] Current(i) /\ direct ->
            \/ Closes(s, ev)
            \/ \E units \in {<<>>, <<n>>, <<n, n>>} :
                 /\ wire' = [wire EXCEPT ![s] = @ \o units]
                 /\ Pushed(s, "D", SubSeq(<<n, n>>, Len(units) + 1, 2))
                 /\ writing' = [writing EXCEPT ![s] = Len(units) < 2]
                 /\ Goes(ev) /\ UNCHANGED <<type, id, ended>>

\* ctrl_cmd
Command ==
  /\ pc = "poll" /\ checkctrl /\ pipe # <<>>
  /\ Tame => \A t \in Thread :
               at[t] = "claimed" => HASH_ID(newid[t]) # HASH_ID(Head(pipe).id)
  /\ pipe' = Tail(pipe)
  /\ LET c == Head(pipe)
     IN CASE c.op = "O" -> OpenSocket(c.id)
          [] c.op = "L" -> ListenSocket(c.id)
          [] c.op = "B" -> BindSocket(c.id)
          [] c.op = "S" -> StartSocket(c.id)
          [] c.op = "K" -> CloseSocket(c.id)
          [] c.op \in {"D", "P"} -> SendSocket(c.id, c.op, c.n)
  /\ UNCHANGED <<alloc_id, checkctrl, threadVars, serviceVars>>

\* has_cmd finds none.
NoCommand ==
  /\ pc = "poll" /\ checkctrl /\ pipe = <<>>
  /\ checkctrl' = FALSE
  /\ UNCHANGED <<slotVars, alloc_id, pipe, ev, pc, closed, threadVars, serviceVars,
                 ended>>

-----------------------------------------------------------------------------
(* The events                                                              *)

\* What epoll may say of a slot, or of the pipe: that it can be written (the
\* loop then leaves reading for another time), or only read.
Event == [s : Slot, write : BOOLEAN]
PipeEvent == [s |-> None, write |-> FALSE]

Possible ==
  {e \in Event :
     /\ type[e.s] \in {"LISTEN", "CONNECTING", "CONNECTED", "HALFCLOSE", "BIND"}
     /\ e.write => writing[e.s]}

Batches ==
  UNION {SetToSeqs(b \cup IF pipe = <<>> THEN {} ELSE {PipeEvent}) :
           b \in {b \in SUBSET Possible : \A e, f \in b : e.s = f.s => e = f}}

\* sp_wait: one event at most for each descriptor, in any order.  The loop goes
\* on with the first of them, before it looks at the pipe again.
Wait ==
  /\ pc = "poll" /\ ~ checkctrl /\ ev = <<>>
  /\ ev' \in Batches \ {<<>>}
  /\ checkctrl' = TRUE /\ pc' = "event"
  /\ UNCHANGED <<slotVars, alloc_id, pipe, closed, threadVars, serviceVars, ended>>

\* Slot s can be written, and epoll says so.
WaitWritable(s) ==
  /\ Wait
  /\ [s |-> s, write |-> TRUE] \in ToSet(ev')

\* report_connect
ReportConnect(s, events) ==
  \/ ForceClose(s) /\ ended' = [ended EXCEPT ![id[s]] = TRUE] /\ Goes(events)
  \/ /\ Becomes(s, "CONNECTED")
     /\ writing' = [writing EXCEPT ![s] = ~ Empty(s)]
     /\ Reports(id[s], events)
     /\ UNCHANGED <<id, high, low, wire>>

\* report_accept, with reserve_id and new_fd: the next id whose slot is free.
ReportAccept(s, events) ==
  LET free == {i \in (alloc_id + 1)..MaxId : type[HASH_ID(i)] = "INVALID"}
  IN \E i \in free :
       /\ \A j \in free : i <= j
       /\ alloc_id' = i
       /\ IF Empty(HASH_ID(i))
          THEN /\ Becomes(HASH_ID(i), "PACCEPT")
               /\ id' = [id EXCEPT ![HASH_ID(i)] = i]
               /\ use' = [use EXCEPT ![i] = "A"]
               /\ Reports(id[s], events)
               /\ UNCHANGED <<high, low, writing, wire>>
          ELSE Aborts /\ UNCHANGED use

\* forward_message: the end of the file, an error, or data, which a half-closed
\* socket throws away.
ForwardMessage(s, events) ==
  \/ Closes(s, events)
  \/ /\ UNCHANGED slotVars
     /\ IF type[s] = "HALFCLOSE" THEN Goes(events) /\ UNCHANGED ended
                                 ELSE Reports(id[s], events)

\* The next event of the batch.
HandleEvent ==
  /\ pc = "event" \/ (pc = "poll" /\ ~ checkctrl)
  /\ ev # <<>>
  /\ LET e == Head(ev)
         s == e.s
         t == IF s = None THEN "INVALID" ELSE type[s]
         rest == Tail(ev)
     IN \/ /\ t = "INVALID" \* the pipe, or "invalid socket"
           /\ Goes(rest) /\ UNCHANGED <<slotVars, alloc_id, use, wire, ended>>
        \/ t = "CONNECTING" /\ ReportConnect(s, rest) /\ UNCHANGED <<alloc_id, use>>
        \/ t = "LISTEN" /\ ReportAccept(s, rest)
        \/ /\ t = "LISTEN" \* accept fails
           /\ Goes(rest) /\ UNCHANGED <<slotVars, alloc_id, use, wire, ended>>
        \/ /\ t \notin {"INVALID", "CONNECTING", "LISTEN"} /\ e.write
           /\ IF Uncomplete(low[s]) THEN Aborts ELSE SendBuffer(s, rest)
           /\ UNCHANGED <<alloc_id, use>>
        \/ /\ t \notin {"INVALID", "CONNECTING", "LISTEN"} /\ ~ e.write
           /\ IF t = "RESERVE" THEN Aborts ELSE ForwardMessage(s, rest)
           /\ UNCHANGED <<alloc_id, use>>
  /\ UNCHANGED <<pipe, checkctrl, threadVars, asked, packets>>

-----------------------------------------------------------------------------
SocketThread == Command \/ NoCommand \/ HandleEvent \/ ClearClosedEvent

Next ==
  \/ \E t \in Thread :
       \/ Allocate(t) \/ Claim(t) \/ SetId(t)
       \/ \E op \in {"O", "L", "B"} : OpenRequest(t, op)
  \/ \E i \in Id :
       \/ \E op \in {"S", "K"} : ServiceRequest(i, op)
       \/ \E prio \in {"D", "P"} : ServiceSend(i, prio)
  \/ SocketThread
  \/ Wait

Spec == Init /\ [][Next]_vars

\* All threads run on, epoll reports a command in the pipe, and the
\* peers go on reading: a socket that epoll watches can be written again and
\* again.
FairSpec ==
  /\ Spec
  /\ WF_vars(SocketThread) /\ \A t \in Thread : WF_vars(SetId(t))
  /\ WF_vars(pipe # <<>> /\ Wait)
  /\ \A s \in Slot : SF_vars(WaitWritable(s))

-----------------------------------------------------------------------------
\* Type invariant.
TypeOK ==
  /\ type \in [Slot -> {"INVALID", "RESERVE", "PLISTEN", "LISTEN", "CONNECTING",
                        "CONNECTED", "HALFCLOSE", "PACCEPT", "BIND"}]
  /\ id \in [Slot -> 0..MaxId]
  /\ high \in [Slot -> Seq(1..MaxSends)] /\ low \in [Slot -> Seq(1..MaxSends)]
  /\ writing \in [Slot -> BOOLEAN]
  /\ alloc_id \in 0..MaxId
  /\ pipe \in Seq([op : {"O", "L", "B", "S", "K", "D", "P"}, id : Id, n : 0..MaxSends])
  /\ Len(pipe) <= PIPE
  /\ checkctrl \in BOOLEAN
  /\ ev \in Seq([s : Slot \cup {None}, write : BOOLEAN])
  /\ pc \in {"poll", "event", "clear", "aborted"} /\ closed \in 0..MaxId
  /\ at \in [Thread -> {"out", "claim", "claimed", "request"}]
  /\ newid \in [Thread -> 0..MaxId]
  /\ use \in [Id -> {None, "O", "L", "B", "A"}]
  /\ asked \in [Id -> SUBSET {"S", "K"}]
  /\ packets \in Seq([to : Id, prio : {"D", "P"}])
  /\ wire \in [Slot -> Seq(1..MaxSends)]
  /\ ended \in [Id -> BOOLEAN]

\* No assertion of the socket server fails (socket_server.c: new_fd wants a
\* reserved slot with empty buffers, force_close one that is not reserved,
\* send_buffer a low buffer without a packet that was sent in part, send_socket
\* no listener), whatever commands and events arrive for sockets that are gone.
NoAbort == pc # "aborted"

\* What goes over a connection are the packets written to it, each whole and
\* once, and those of the same priority in their order: not a packet for
\* another socket that had the slot, nor a packet in the middle of another.
OwnPackets ==
  \A s \in Slot :
    LET w == wire[s]
        packet(k) == packets[w[k]]
    IN /\ \A k \in DOMAIN w : packet(k).to = id[s]
       /\ \A k \in DOMAIN w : k % 2 = 1 /\ k < Len(w) => w[k] = w[k + 1]
       /\ \A j, k \in DOMAIN w :
            /\ w[j] = w[k] => (j + 1) \div 2 = (k + 1) \div 2
            /\ j < k /\ packet(j).prio = packet(k).prio => w[j] <= w[k]

\* After the end of a socket no message speaks of it as alive (services forget
\* an id when it is closed).
NothingAfterEnd ==
  [][\A i \in Id : ended[i] => ended'[i]]_vars

\* Whoever closes a socket hears that it is closed, once everything could be
\* written (close in lualib/socket.lua waits for it): again and again, every
\* close asked for so far has been answered.
CloseAnswered ==
  []<>(pc = "aborted" \/ \A i \in Id : "K" \in asked[i] => ended[i])
=============================================================================
