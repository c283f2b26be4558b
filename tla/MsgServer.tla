----------------------------- MODULE MsgServer -----------------------------
(***************************************************************************)
(* The gate towards its clients: snax/msgserver.lua on snax/gateserver.lua *)
(* and lua-netpack.c, for one user who has logged in.  The client of the   *)
(* user opens one connection after the other, shakes hands on each and     *)
(* sends requests on the newest one, each under a session.  What was not   *)
(* answered it asks again, under the same session, on its next connection. *)
(*                                                                         *)
(* The gate is one service: an action is what a message makes it do up to  *)
(* the next yield, except that every package that the loop of MSG.more     *)
(* handles is an action of its own, which excludes the other ones.  The    *)
(* gate yields in its calls of the agent: at the end of a handshake, and   *)
(* for a request.                                                          *)
(***************************************************************************)
EXTENDS Naturals, Sequences, SequencesExt, FiniteSetsExt

CONSTANTS
  Connections,      \* the connections are 1..Connections; connection f shakes
                    \* hands with index f
  Sessions,         \* the sessions are 1..Sessions, used first in that order
  expired_number,
  QUEUESIZE,
  InTurn,           \* TRUE: what was sent on a connection is read before what
                    \* is sent on newer ones
  MaxSends          \* bound: requests that the client sends, repeated or new

ASSUME MsgAssumption ==
  /\ Connections \in Nat /\ Sessions \in Nat /\ MaxSends \in Nat
  /\ InTurn \in BOOLEAN
  /\ expired_number \in Nat \ {0} /\ QUEUESIZE \in Nat \ {0}

Fd == 1..Connections
Session == 1..Sessions
Entry == 1..MaxSends
None == 0

VARIABLES
  \* the client
  state,      \* state[f]: "new", "hello" sent, "ok" or "closed"
  asked,      \* asked[s]: the last request under session s
  sends,      \* the number of requests sent
  again,      \* requests that were sent twice on one connection
  wire,       \* wire[f]: packages of the client that the gate has not read
  back,       \* back[f]: answers on their way to the client
  \* gateserver and netpack
  conn,       \* gateserver's connection[f]: "nil", "true" or "false"
  queue,      \* packages that wait in the gate for their turn
  gen,        \* the queue was allocated for the gen-th time
  loop,       \* the allocation that the running loop of MSG.more reads, or 0
  \* msgserver
  handshake,  \* handshake[f] is set
  connection, \* connection[f] is the user
  user,       \* user_online[username]
  response,   \* response[s]: the entry in the user's cache
  entry,      \* entry[e]: the e-th entry made for the cache
  calls,      \* calls of the agent that have not returned
  answers     \* history: answers made or made again so far

clientVars == <<state, asked, sends, again>>
gateVars == <<conn, queue, gen, loop>>
cacheVars == <<user, response, entry, answers>>
serverVars == <<handshake, connection, cacheVars, calls>>
vars == <<clientVars, wire, back, gateVars, serverVars>>

NoEntry == [session |-> None, from |-> None, package |-> 0, use |-> 0, fd |-> None, done |-> FALSE,
            version |-> None, index |-> 0, asked |-> None, late |-> FALSE, at |-> 0]

Init ==
  /\ state = [f \in Fd |-> "new"]
  /\ asked = [s \in Session |-> [use |-> 0, first |-> None, fd |-> None, answered |-> TRUE]]
  /\ sends = 0
  /\ again = {}
  /\ wire = [f \in Fd |-> <<>>]
  /\ back = [f \in Fd |-> {}]
  /\ conn = [f \in Fd |-> "nil"]
  /\ queue = <<>> /\ gen = 1 /\ loop = 0
  /\ handshake = [f \in Fd |-> FALSE]
  /\ connection = [f \in Fd |-> FALSE]
  /\ user = [online |-> TRUE, version |-> 0, index |-> 0, fd |-> None]
  /\ response = [s \in Session |-> None]
  /\ entry = [e \in Entry |-> NoEntry]
  /\ calls = {}
  /\ answers = 0

-----------------------------------------------------------------------------
(* The client                                                              *)

\* The n-th package of the client; use is the n of the request that it repeats.
Package(f, kind, s, n, use) == [fd |-> f, kind |-> kind, session |-> s, n |-> n, use |-> use]
Hello(f) == Package(f, "hello", None, 0, 0)
Eof(f) == Package(f, "eof", None, 0, 0)

Sends(f, p) ==
  wire' = IF conn[f] = "true" THEN [wire EXCEPT ![f] = Append(@, p)] ELSE wire

\* The client may send on connection f.
Sending(f) == state[f] = "ok" /\ sends < MaxSends /\ \A g \in Fd : g > f => state[g] = "new"

\* A request under a session that is free: not used yet, or answered on this
\* very connection, where it was asked once.
Request(f, s) ==
  /\ Sending(f)
  /\ asked[s].answered /\ asked[s].fd \in {None, f} /\ asked[s].use \notin again
  /\ \A r \in 1..(s - 1) : asked[r].use # 0
  /\ sends' = sends + 1
  /\ asked' = [asked EXCEPT ![s] = [use |-> sends', first |-> f, fd |-> f, answered |-> FALSE]]
  /\ Sends(f, Package(f, "request", s, sends', sends'))
  /\ UNCHANGED <<state, again, back, gateVars, serverVars>>

\* The client asks again what was not answered on an older connection, or it
\* is impatient and asks a second time on the same one.
Repeat(f, s) ==
  /\ Sending(f)
  /\ ~asked[s].answered
  /\ \/ asked[s].fd = f /\ again' = again \cup {asked[s].use}
     \/ asked[s].fd < f /\ UNCHANGED again
  /\ sends' = sends + 1
  /\ asked' = [asked EXCEPT ![s].fd = f]
  /\ Sends(f, Package(f, "request", s, sends', asked[s].use))
  /\ UNCHANGED <<state, back, gateVars, serverVars>>

\* An answer arrives: 200 (n = 0) to the handshake, or to request n, which
\* counts on the connection that the client asked last.
Receive(f, n) ==
  /\ n \in back[f]
  /\ back' = [back EXCEPT ![f] = @ \ {n}]
  /\ IF n = 0
     THEN state' = [state EXCEPT ![f] = "ok"] /\ UNCHANGED asked
     ELSE /\ asked' = [s \in Session |-> IF asked[s].use = n /\ asked[s].fd = f
                         THEN [asked[s] EXCEPT !.answered = TRUE] ELSE asked[s]]
          /\ UNCHANGED state
  /\ UNCHANGED <<sends, again, wire, gateVars, serverVars>>

Listening(f) == state[f] \in {"hello", "ok"}

\* The connection breaks or the client closes it, or it sees that the gate
\* has; answers on their way are lost.
Break(f) ==
  /\ Listening(f)
  /\ state' = [state EXCEPT ![f] = "closed"]
  /\ back' = [back EXCEPT ![f] = {}]
  /\ Sends(f, Eof(f))
  /\ UNCHANGED <<asked, sends, again, gateVars, serverVars>>

-----------------------------------------------------------------------------
(* What the gate sends and closes                                          *)

Answered(f, n) ==
  back' = IF Listening(f) THEN [back EXCEPT ![f] = @ \cup {n}] ELSE back

\* gateserver.closeclient
CloseClient(f) == conn' = IF conn[f] = "true" THEN [conn EXCEPT ![f] = "false"] ELSE conn

\* MSG.open and handler.connect; the client sends its handshake.
Open(f) ==
  /\ loop = 0
  /\ state[f] = "new" /\ \A g \in 1..(f - 1) : state[g] # "new"
  /\ state' = [state EXCEPT ![f] = "hello"]
  /\ conn' = [conn EXCEPT ![f] = "true"]
  /\ handshake' = [handshake EXCEPT ![f] = TRUE]
  /\ wire' = [wire EXCEPT ![f] = <<Hello(f)>>]
  /\ UNCHANGED <<asked, sends, again, back, queue, gen, loop, connection, cacheVars, calls>>

\* MSG.close and handler.disconnect: the client has closed the connection, or
\* the gate itself, which then loses what it has not read.
Close(f) ==
  /\ loop = 0
  /\ \/ conn[f] = "false"
     \/ wire[f] # <<>> /\ Head(wire[f]).kind = "eof"
  /\ wire' = [wire EXCEPT ![f] = <<>>]
  /\ conn' = [conn EXCEPT ![f] = "nil"]
  /\ handshake' = [handshake EXCEPT ![f] = FALSE]
  /\ connection' = [connection EXCEPT ![f] = FALSE]
  /\ user' = IF connection[f] THEN [user EXCEPT !.fd = None] ELSE user
  /\ UNCHANGED <<clientVars, back, queue, gen, loop, response, entry, answers, calls>>

\* server.logout: the agent or the login server ends the session.
Logout ==
  /\ loop = 0 /\ user.online
  /\ user' = [user EXCEPT !.online = FALSE]
  /\ IF user.fd = None
     THEN UNCHANGED <<conn, connection>>
     ELSE CloseClient(user.fd) /\ connection' = [connection EXCEPT ![user.fd] = FALSE]
  /\ UNCHANGED <<clientVars, wire, back, queue, gen, loop, handshake, response,
                 entry, calls, answers>>

-----------------------------------------------------------------------------
(* The handshake                                                           *)

\* do_auth
Welcome(p) == p.kind = "hello" /\ user.online /\ p.fd > user.version

\* auth up to its call of the agent.  more is the loop that the coroutine is
\* in, or 0.  A package that is no handshake names no user.
Auth(p, more) ==
  IF Welcome(p)
  THEN /\ user' = [user EXCEPT !.version = p.fd, !.fd = p.fd]
       /\ connection' = [connection EXCEPT ![p.fd] = TRUE]
       /\ Answered(p.fd, 0)
       /\ calls' = calls \cup {[kind |-> "heartbeat", of |-> p.fd, more |-> more]}
       /\ loop' = 0
       /\ UNCHANGED <<conn, handshake>>
  ELSE \* 403 or 404
       /\ CloseClient(p.fd)
       /\ handshake' = [handshake EXCEPT ![p.fd] = FALSE]
       /\ loop' = more
       /\ UNCHANGED <<back, user, connection, calls>>

\* The agent has answered the call of auth; or it is gone, the assertion fails
\* and the coroutine ends.
Welcomed(c) ==
  /\ loop = 0 /\ c \in calls /\ c.kind = "heartbeat"
  /\ calls' = calls \ {c}
  /\ \/ handshake' = [handshake EXCEPT ![c.of] = FALSE] /\ loop' = c.more
     \/ ~user.online /\ UNCHANGED <<handshake, loop>>
  /\ UNCHANGED <<clientVars, wire, back, conn, queue, gen, connection, cacheVars>>

-----------------------------------------------------------------------------
(* The requests                                                            *)

Cached == {response[s] : s \in Session} \ {None}

\* p[1] == nil
Complete(e, t) == t[e].done /\ t[e].fd = None

\* Mutant of Expired: the bound is one too high.
ExpiredMore(e, t) == Complete(e, t) /\ t[e].index <= expired_number

\* What retire_response removes.
Expired(e, t) == Complete(e, t) /\ t[e].index < expired_number

\* retire_response, when user and entries have become u and t.
RetireResponse(u, t) ==
  IF u.index < expired_number * 2
  THEN user' = u /\ entry' = t /\ UNCHANGED response
  ELSE LET gone == {e \in Cached : Expired(e, t)}
           kept == {e \in Cached : Complete(e, t)} \ gone
           shifted == [e \in Entry |-> IF e \in kept
                         THEN [t[e] EXCEPT !.index = @ - expired_number] ELSE t[e]]
       IN /\ entry' = shifted
          /\ response' = [s \in Session |-> IF response[s] \in gone THEN None ELSE response[s]]
          /\ user' = [u EXCEPT !.index = 1 + Max({0} \cup {shifted[e].index : e \in kept})]

\* The answer goes to the connection that asked last, if it is still there.
Reply(e, t) ==
  /\ IF connection[t[e].fd] THEN Answered(t[e].fd, t[e].use) ELSE UNCHANGED back
  /\ answers' = answers + 1
  /\ RetireResponse([user EXCEPT !.index = @ + 1],
                    [t EXCEPT ![e].fd = None, ![e].at = answers'])

Used == {e \in Entry : entry[e] # NoEntry}

\* A new request: it gets an entry and goes to the agent.
Execute(p, more) ==
  LET e == Cardinality(Used) + 1 IN
  /\ entry' = [entry EXCEPT ![e] = [NoEntry EXCEPT
                 !.session = p.session, !.from = p.fd, !.package = p.n, !.use = p.use,
                 !.fd = p.fd, !.asked = p.fd]]
  /\ response' = [response EXCEPT ![p.session] = e]
  /\ calls' = calls \cup {[kind |-> "request", of |-> e, more |-> more]}
  /\ loop' = 0
  /\ UNCHANGED <<back, conn, user, answers>>

\* Mutants of Reused: the version is not compared; no session is used anew.
ReusedAlways(e) == e # None
ReusedNever(e) == FALSE

\* "session can be reuse in the same connection"
Reused(e) == e # None /\ entry[e].version = user.version

\* Mutant of Resend: the connection of a request under way does not change.
ResendKeep(p, e) ==
  LET t == [entry EXCEPT ![e].version = user.version, ![e].index = user.index]
  IN IF entry[e].done
     THEN Reply(e, [t EXCEPT ![e].fd = p.fd, ![e].asked = p.fd])
     ELSE entry' = t /\ UNCHANGED <<back, user, response, answers>>

\* The request is known: the answer will go, or goes again, to this connection.
Resend(p, e) ==
  LET t == [entry EXCEPT ![e].fd = p.fd, ![e].asked = p.fd,
              ![e].version = user.version, ![e].index = user.index]
  IN IF entry[e].done
     THEN Reply(e, t)
     ELSE entry' = t /\ UNCHANGED <<back, user, response, answers>>

\* do_request up to its call of the agent, on a connection with a user.
DoRequest(p, more) ==
  LET e == response[p.session] IN
  IF e = None \/ (Reused(e) /\ entry[e].done)
  THEN Execute(p, more)
  ELSE /\ loop' = more
       /\ UNCHANGED calls
       /\ IF Reused(e)
          THEN \* "Conflict session"
               /\ response' = [response EXCEPT ![p.session] = None]
               /\ CloseClient(p.fd)
               /\ UNCHANGED <<back, user, entry, answers>>
          ELSE Resend(p, e) /\ UNCHANGED conn

\* The agent has answered a request, or the error of its exit has arrived.
Done(c) ==
  /\ loop = 0 /\ c \in calls /\ c.kind = "request"
  /\ calls' = calls \ {c}
  /\ loop' = c.more
  /\ Reply(c.of, [entry EXCEPT ![c.of].done = TRUE,
                    ![c.of].version = user.version, ![c.of].index = user.index,
                    ![c.of].late = entry[c.of].asked # user.version])
  /\ UNCHANGED <<clientVars, wire, conn, queue, gen, handshake, connection>>

-----------------------------------------------------------------------------
(* Packages                                                                *)

\* handler.message, if gateserver has not closed the connection.
Handle(p, more) ==
  CASE conn[p.fd] = "true" /\ handshake[p.fd] ->
         Auth(p, more) /\ UNCHANGED <<response, entry, answers>>
    [] conn[p.fd] = "true" /\ ~handshake[p.fd] /\ connection[p.fd] ->
         DoRequest(p, more) /\ UNCHANGED <<handshake, connection>>
    [] OTHER ->   \* dropped, or assert(connection[fd], "invalid fd") fails
         loop' = more /\ UNCHANGED <<back, conn, serverVars>>

\* push_data: when the queue is full a larger one takes its place, and a loop
\* that reads the old one finds it empty.
Pushed(ps) ==
  /\ queue' = queue \o ps
  /\ gen' = IF Len(queue') < gen * QUEUESIZE THEN gen ELSE Len(queue') \div QUEUESIZE + 1

Readable(f, k) ==
  /\ loop = 0
  /\ k \in 1..Len(wire[f]) /\ \A i \in 1..k : wire[f][i].kind # "eof"
  /\ InTurn => \A g \in 1..(f - 1) : wire[g] = <<>> \/ wire[g] = <<Eof(g)>>

Taken(f, k) == wire' = [wire EXCEPT ![f] = SubSeq(@, k + 1, Len(@))]

\* Mutant of ReadOne: one package is handled at once, whatever waits.
ReadOneNow(f) ==
  /\ Readable(f, 1) /\ Taken(f, 1)
  /\ Handle(Head(wire[f]), 0)
  /\ UNCHANGED <<clientVars, queue, gen>>

\* netpack.filter finds one package: it is handled at once (MSG.data), unless
\* others wait.
ReadOne(f) ==
  /\ Readable(f, 1) /\ Taken(f, 1)
  /\ IF queue = <<>>
     THEN Handle(Head(wire[f]), 0) /\ UNCHANGED <<queue, gen>>
     ELSE Pushed(<<Head(wire[f])>>) /\ UNCHANGED <<conn, loop, back, serverVars>>
  /\ UNCHANGED clientVars

\* It finds several: MSG.more.
ReadMore(f, k) ==
  /\ k > 1 /\ Readable(f, k) /\ Taken(f, k)
  /\ Pushed(SubSeq(wire[f], 1, k)) /\ loop' = gen'
  /\ UNCHANGED <<clientVars, conn, back, serverVars>>

\* Mutant of More: the loop ends at a package of a closed connection.
MoreBreaks ==
  /\ loop # 0
  /\ IF loop = gen /\ queue # <<>> /\ conn[Head(queue).fd] = "true"
     THEN queue' = Tail(queue) /\ Handle(Head(queue), loop)
     ELSE loop' = 0 /\ UNCHANGED <<conn, queue, back, serverVars>>
  /\ UNCHANGED <<clientVars, wire, gen>>

\* The loop of MSG.more takes the next package, or ends.
More ==
  /\ loop # 0
  /\ IF loop = gen /\ queue # <<>>
     THEN queue' = Tail(queue) /\ Handle(Head(queue), loop)
     ELSE loop' = 0 /\ UNCHANGED <<conn, queue, back, serverVars>>
  /\ UNCHANGED <<clientVars, wire, gen>>

-----------------------------------------------------------------------------
Read(f) == ReadOne(f) \/ \E k \in 2..Len(wire[f]) : ReadMore(f, k)
Return == \E c \in calls : Welcomed(c) \/ Done(c)
Serve == Return \/ More \/ \E f \in Fd : Read(f) \/ Close(f)
Notice == \E f \in Fd : \/ \E n \in back[f] : Receive(f, n)
                        \/ conn[f] # "true" /\ Break(f)

Next ==
  \/ Serve \/ Notice \/ Logout
  \/ \E f \in Fd :
       \/ Open(f) \/ Break(f)
       \/ \E s \in Session : Request(f, s) \/ Repeat(f, s)

Spec == Init /\ [][Next]_vars

\* The gate reads what arrives and the agent answers; answers and the closing
\* of a connection reach the client.  The client need not do anything.
FairSpec == Spec /\ WF_vars(Serve) /\ WF_vars(Notice)

-----------------------------------------------------------------------------
\* Type invariant.
TypeOK ==
  /\ state \in [Fd -> {"new", "hello", "ok", "closed"}]
  /\ asked \in [Session -> [use : 0..MaxSends, first : Fd \cup {None}, fd : Fd \cup {None},
                             answered : BOOLEAN]]
  /\ sends \in 0..MaxSends /\ again \subseteq 1..MaxSends
  /\ back \in [Fd -> SUBSET (0..MaxSends)]
  /\ conn \in [Fd -> {"nil", "true", "false"}]
  /\ gen \in Nat \ {0} /\ loop \in 0..gen
  /\ handshake \in [Fd -> BOOLEAN] /\ connection \in [Fd -> BOOLEAN]
  /\ user \in [online : BOOLEAN, version : Fd \cup {None}, index : Nat, fd : Fd \cup {None}]
  /\ response \in [Session -> Entry \cup {None}]
  /\ entry \in [Entry -> [session : Session \cup {None}, from : Fd \cup {None}, package : 0..MaxSends,
                  use : 0..MaxSends, fd : Fd \cup {None},
                  done : BOOLEAN, version : Fd \cup {None}, index : Nat,
                  asked : Fd \cup {None}, late : BOOLEAN, at : Nat]]
  /\ calls \subseteq [kind : {"heartbeat", "request"}, of : Nat, more : 0..gen]
  /\ answers \in Nat

\* What the agent has executed, or is executing, it does not execute again
\* while the answer is in the cache, unless the client asked twice on one
\* connection, or the answer was made when the client had shaken hands on
\* another connection and not asked there yet: the version in p[3] is then
\* that of a connection it was never asked on.
AtMostOnce ==
  [][\A d, e \in Entry :
       /\ d \in Used /\ e \notin Used /\ entry'[e].use = entry[d].use
       /\ d \in Cached
       => entry[d].use \in again \/ entry[d].late]_vars

\* The request under session s was lost with an older connection: asked there
\* first, and dropped by the gate before it went to the agent (or it was asked
\* twice on one connection).
Lost(s) ==
  /\ asked[s].first # asked[s].fd
  /\ asked[s].use \in again \/ \A d \in Used : entry[d].use # asked[s].use

\* The answer that is on its way to the client on its newest connection is
\* the one to what it asks now, never that to an earlier request under the
\* same session, although the gate tells them apart only by the version of
\* the connection they were answered on; except to a request that was lost
\* with an older connection: it is given the earlier answer.
AnswerMatches ==
  \A s \in Session, e \in Used :
    /\ entry[e].session = s /\ ~asked[s].answered
    /\ entry[e].use \in back[asked[s].fd]
    => entry[e].use = asked[s].use \/ Lost(s)

\* Requests of one connection go to the agent in the order they were sent,
\* whether they were read one at a time or together, and although the loop of
\* MSG.more yields in every one of them.
InOrder ==
  \A d, e \in Used :
    /\ d < e /\ entry[d].from = entry[e].from
    => entry[d].package < entry[e].package

\* Packages that wait have a coroutine that will handle them, as long as the
\* agent lives and the queue has not been replaced by a larger one.
QueueServed ==
  queue # <<>> /\ user.online /\ gen = 1 =>
    loop = gen \/ \E c \in calls : c.more = gen

\* conf.expired_number: an answer stays in the cache until that many have been
\* sent after it, or the client uses its session again.
CacheKeepsRecent ==
  [][\A s \in Session :
       LET e == response[s]
       IN e # None /\ response'[s] = None =>
            \/ Reused(e)
            \/ entry[e].done /\ answers' - entry[e].at >= expired_number]_vars

\* A request on a connection that stays open is answered there, unless the
\* user logs out or the client opens another connection.
RequestsEnd ==
  \A s \in Session :
    ~asked[s].answered ~>
      \/ asked[s].answered \/ ~user.online \/ gen # 1
      \/ state[asked[s].fd] = "closed" \/ \E f \in Fd : f > asked[s].fd /\ state[f] # "new"
=============================================================================
