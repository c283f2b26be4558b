----------------------------- MODULE LuaService -----------------------------
(***************************************************************************)
(* One Lua service: the coroutine scheduler of lualib/skynet.lua and a     *)
(* critical section of lualib/skynet/queue.lua.                            *)
(*                                                                         *)
(* The service handles one message at a time (dispatch_message).  A        *)
(* message starts or resumes a coroutine; when that yields, suspend notes  *)
(* in tables what it waits for, and then resumes one coroutine that was    *)
(* woken and one whose call has failed.  Those calls of suspend nest, so   *)
(* what is left of them is a stack; an error unwinds all of it.            *)
(*                                                                         *)
(* What the coroutines do is arbitrary.                                    *)
(***************************************************************************)
EXTENDS Naturals, Sequences, SequencesExt, FiniteSetsExt

CONSTANTS
  Co,          \* the coroutines; one that has ended is used again
  Peer,        \* the services that it calls and that call it
  MaxSession,  \* bound: sessions that it uses
  MaxRequest,  \* bound: requests that it gets
  MaxFork,     \* bound: forks
  MaxEnter,    \* bound: entries into the critical section
  timer, BREAK, None

ASSUME LuaAssumption ==
  /\ MaxSession \in Nat /\ MaxRequest \in Nat /\ MaxFork \in Nat /\ MaxEnter \in Nat
  /\ timer \notin Peer /\ None \notin Peer \cup Co /\ BREAK \notin Co
  /\ None # timer /\ None # BREAK

Session == 1..MaxSession

VARIABLES
  pc,          \* pc[c]: where coroutine c is
  session,     \* session[c]: the session that it waits for
  run,         \* the coroutine that runs, or None
  todo,        \* what is left to do in the nested calls of suspend
  phase,       \* "idle", or "busy" with a message (dispatch_message)
  exited,      \* skynet.exit was called
  session_id_coroutine,
  sleep_session,      \* coroutines in sleep or wait (the session is session[c])
  wakeup_session,
  watching_session,
  error_queue, fork_queue, dead_service,
  session_coroutine_address,   \* the source of the request that a coroutine serves
  session_response,            \* coroutines that have called skynet.ret
  heard,       \* history: coroutines whose source was sent an answer or an error
  due,         \* due[s]: who will answer session s: a peer, the timer or None
  used, requests, forks, enters,   \* counters, for the bounds
  current_thread, ref, thread_queue,
  inside,      \* inside[c]: how often c is in the critical section
  stale        \* history: a coroutine that was woken had gone on before

flow == <<pc, session, run, todo, phase, exited>>
tables == <<session_id_coroutine, sleep_session, wakeup_session, watching_session,
            error_queue, fork_queue, dead_service>>
sources == <<session_coroutine_address, session_response, heard>>
world == <<due, used, requests, forks, enters>>
section == <<current_thread, ref, thread_queue, inside, stale>>
vars == <<flow, tables, sources, world, section>>

Init ==
  /\ pc = [c \in Co |-> "free"]
  /\ session = [c \in Co |-> 0]
  /\ run = None /\ todo = <<>> /\ phase = "idle" /\ exited = FALSE
  /\ session_id_coroutine = [s \in Session |-> None]
  /\ sleep_session = {} /\ wakeup_session = {}
  /\ watching_session = [s \in Session |-> None]
  /\ error_queue = <<>> /\ fork_queue = {} /\ dead_service = {}
  /\ session_coroutine_address = [c \in Co |-> None]
  /\ session_response = {} /\ heard = {}
  /\ due = [s \in Session |-> None]
  /\ used = 0 /\ requests = 0 /\ forks = 0 /\ enters = 0
  /\ current_thread = None /\ ref = 0 /\ thread_queue = <<>>
  /\ inside = [c \in Co |-> 0]
  /\ stale = FALSE

-----------------------------------------------------------------------------
(* suspend                                                                 *)

\* Mutant of AfterYield: the errors are forgotten.
WakeupOnly == <<"wakeup">>

\* What suspend does in the end: dispatch_wakeup and dispatch_error_queue.
AfterYield == <<"wakeup", "error">>
Suspended == run' = None /\ todo' = AfterYield \o todo

\* Coroutine c waits in `where` for a new session that d will answer.
WaitsFor(c, where, d) ==
  /\ used < MaxSession /\ used' = used + 1
  /\ pc' = [pc EXCEPT ![c] = where]
  /\ session' = [session EXCEPT ![c] = used']
  /\ due' = [due EXCEPT ![used'] = d]
  /\ session_id_coroutine' = [session_id_coroutine EXCEPT ![used'] = c]
  /\ Suspended

\* Coroutine c goes on; one that waits for the critical section tests ref.
Resume(c) ==
  /\ run' = c
  /\ pc' = [pc EXCEPT ![c] = IF @ = "lock" THEN "granted" ELSE "run"]
  /\ session' = [session EXCEPT ![c] = 0]

\* An error is raised in the coroutine or in suspend: the nested calls end.
Unwound == run' = None /\ todo' = <<>>

\* A message to the sources of the requests that coroutines cs serve.
Hear(cs) ==
  heard' = heard \cup {c \in cs : session_coroutine_address[c] \notin {None} \cup dead_service}

\* co_create; which of the free coroutines it takes makes no difference.
Free == {c \in Co : pc[c] = "free"}
Created == CHOOSE c \in Free : TRUE

-----------------------------------------------------------------------------
(* Messages                                                                *)

Idle == phase = "idle" /\ ~exited

\* A request of a peer starts a coroutine.
Request(p, c) ==
  /\ Idle /\ Free # {} /\ c = Created /\ p \notin dead_service
  /\ requests < MaxRequest /\ requests' = requests + 1
  /\ session_coroutine_address' = [session_coroutine_address EXCEPT ![c] = p]
  /\ phase' = "busy" /\ Resume(c)
  /\ UNCHANGED <<todo, exited, tables, session_response, heard, due, used, forks, enters,
                 section>>

\* The answer to session s: of a call or of the timer.  The timer of a sleep
\* that was broken off finds BREAK.
Response(s) ==
  /\ Idle /\ due[s] # None /\ due[s] \notin dead_service
  /\ due' = [due EXCEPT ![s] = None]
  /\ phase' = "busy"
  /\ LET co == session_id_coroutine[s]
     IN /\ session_id_coroutine' = [session_id_coroutine EXCEPT ![s] = None]
        /\ IF co \in Co
           THEN /\ Resume(co)
                /\ sleep_session' = sleep_session \ {co}
                /\ watching_session' = [watching_session EXCEPT ![s] = None]
                /\ stale' = (stale \/ co \in wakeup_session)
           ELSE \* nothing, or unknown_response
                UNCHANGED <<pc, session, run, sleep_session, watching_session, stale>>
  /\ UNCHANGED <<todo, exited, wakeup_session, error_queue, fork_queue, dead_service,
                 sources, used, requests, forks, enters, current_thread, ref, thread_queue, inside>>

\* Mutant of ErrorMessage: what is left in the queue is lost.
ErrorMessageAnew(failed) ==
  /\ Idle
  /\ phase' = "busy" /\ todo' = AfterYield
  /\ error_queue' = failed

\* _error_dispatch, in a coroutine that ends at once.
ErrorMessage(failed) ==
  /\ Idle
  /\ phase' = "busy" /\ todo' = AfterYield
  /\ error_queue' = error_queue \o failed

\* The error of session s: the handler of the peer has raised one, or the peer
\* is gone.
CallError(s) ==
  /\ due[s] \in Peer /\ due' = [due EXCEPT ![s] = None]
  /\ ErrorMessage(IF watching_session[s] = None THEN <<>> ELSE <<s>>)
  /\ UNCHANGED <<pc, session, run, exited, session_id_coroutine, sleep_session,
                 wakeup_session, watching_session, fork_queue, dead_service,
                 sources, used, requests, forks, enters, section>>

\* A peer that waits for this service is gone.
ServiceDown(p) ==
  /\ p \notin dead_service /\ \E c \in Co \ heard : session_coroutine_address[c] = p
  /\ dead_service' = dead_service \cup {p}
  /\ \E failed \in SetToSeqs({s \in Session : watching_session[s] = p}) :
       ErrorMessage(failed)
  /\ UNCHANGED <<pc, session, run, exited, session_id_coroutine, sleep_session,
                 wakeup_session, watching_session, fork_queue, sources, world, section>>

\* Any other message, of which nothing remains.
OtherMessage ==
  /\ ErrorMessage(<<>>)
  /\ UNCHANGED <<pc, session, run, exited, session_id_coroutine, sleep_session,
                 wakeup_session, watching_session, fork_queue, dead_service,
                 sources, world, section>>

-----------------------------------------------------------------------------
(* Between the slices                                                      *)

Left == wakeup_session # {} \/ error_queue # <<>>
Then(what) == run = None /\ todo # <<>> /\ Head(todo) = what /\ Left

\* dispatch_wakeup
DispatchWakeup ==
  /\ Then("wakeup") /\ todo' = Tail(todo)
  /\ \/ wakeup_session = {} /\ UNCHANGED <<pc, session, run, session_id_coroutine,
                                           sleep_session, wakeup_session>>
     \/ \E c \in wakeup_session :
          /\ wakeup_session' = wakeup_session \ {c}
          /\ IF c \in sleep_session
             THEN /\ Resume(c)
                  /\ sleep_session' = sleep_session \ {c}
                  /\ session_id_coroutine' = [session_id_coroutine EXCEPT ![session[c]] =
                       IF pc[c] = "sleep" THEN BREAK ELSE None]
             ELSE UNCHANGED <<pc, session, run, sleep_session, session_id_coroutine>>
  /\ UNCHANGED <<phase, exited, watching_session, error_queue, fork_queue, dead_service,
                 sources, world, section>>

\* dispatch_error_queue
DispatchError ==
  /\ Then("error")
  /\ IF error_queue = <<>>
     THEN todo' = Tail(todo)
          /\ UNCHANGED <<pc, session, run, session_id_coroutine, error_queue, watching_session>>
     ELSE LET s == Head(error_queue)
              co == session_id_coroutine[s]
          IN /\ error_queue' = Tail(error_queue)
             /\ session_id_coroutine' = [session_id_coroutine EXCEPT ![s] = None]
             /\ IF co = None
                THEN \* coroutine.resume(nil) raises an error
                     todo' = <<>> /\ UNCHANGED <<pc, session, run, watching_session>>
                ELSE /\ todo' = Tail(todo) /\ Resume(co)
                     /\ watching_session' = [watching_session EXCEPT ![s] = None]
  /\ UNCHANGED <<phase, exited, sleep_session, wakeup_session, fork_queue, dead_service,
                 sources, world, section>>

\* dispatch_message runs what was forked when suspend has nothing left to do,
\* and then the message is done.
RunFork ==
  /\ phase # "idle" /\ run = None /\ (todo = <<>> \/ ~Left)
  /\ todo' = <<>>
  /\ \/ /\ fork_queue = {} /\ phase' = "idle"
        /\ UNCHANGED <<fork_queue, pc, session, run>>
     \/ \E c \in fork_queue :
          /\ fork_queue' = fork_queue \ {c} /\ Resume(c)
          /\ UNCHANGED phase
  /\ UNCHANGED <<exited, session_id_coroutine, sleep_session, wakeup_session,
                 watching_session, error_queue, dead_service, sources, world, section>>

-----------------------------------------------------------------------------
(* What a running coroutine does                                           *)

Running(c) == run = c /\ pc[c] = "run"

\* skynet.call
Call(c, p) ==
  /\ Running(c) /\ p \notin dead_service
  /\ WaitsFor(c, "call", p)
  /\ watching_session' = [watching_session EXCEPT ![used'] = p]
  /\ UNCHANGED <<phase, exited, sleep_session, wakeup_session, error_queue, fork_queue,
                 dead_service, sources, requests, forks, enters, section>>

\* skynet.sleep (d is the timer) and skynet.wait
Sleep(c, where, d) ==
  /\ Running(c)
  /\ WaitsFor(c, where, d)
  /\ sleep_session' = sleep_session \cup {c}
  /\ UNCHANGED <<phase, exited, watching_session, wakeup_session, error_queue, fork_queue,
                 dead_service, sources, requests, forks, enters, section>>

\* skynet.wakeup
Wakeup(c, d) ==
  /\ Running(c) /\ d \in sleep_session \ wakeup_session /\ pc[d] # "lock"
  /\ wakeup_session' = wakeup_session \cup {d}
  /\ UNCHANGED <<flow, session_id_coroutine, sleep_session, watching_session, error_queue,
                 fork_queue, dead_service, sources, world, section>>

\* skynet.fork
Fork(c, d) ==
  /\ Running(c) /\ Free # {} /\ d = Created /\ forks < MaxFork
  /\ forks' = forks + 1
  /\ fork_queue' = fork_queue \cup {d}
  /\ pc' = [pc EXCEPT ![d] = "forked"]
  /\ UNCHANGED <<session, run, todo, phase, exited, session_id_coroutine, sleep_session,
                 wakeup_session, watching_session, error_queue, dead_service, sources,
                 due, used, requests, enters, section>>

\* skynet.ret
Ret(c) ==
  /\ Running(c) /\ session_coroutine_address[c] # None /\ c \notin session_response
  /\ session_response' = session_response \cup {c}
  /\ Hear({c})
  /\ UNCHANGED <<flow, tables, session_coroutine_address, world, section>>

\* Mutant of MayEnter: nobody is inside.
NobodyInside(c) == ref = 0 \/ current_thread = c

\* The test of skynet.queue.
MayEnter(c) == current_thread \in {None, c}

\* A function of skynet.queue is called.
Enter(c) ==
  /\ Running(c) /\ enters < MaxEnter /\ enters' = enters + 1
  /\ IF MayEnter(c)
     THEN /\ current_thread' = c /\ ref' = ref + 1
          /\ inside' = [inside EXCEPT ![c] = @ + 1]
          /\ UNCHANGED <<flow, session_id_coroutine, sleep_session, due, used, thread_queue>>
     ELSE /\ thread_queue' = Append(thread_queue, c)
          /\ WaitsFor(c, "lock", None)
          /\ sleep_session' = sleep_session \cup {c}
          /\ UNCHANGED <<current_thread, ref, inside, phase, exited>>
  /\ UNCHANGED <<watching_session, wakeup_session, error_queue, fork_queue, dead_service,
                 sources, requests, forks, stale>>

\* Mutant of Granted: without the assertion.
GrantedAnyway(c) ==
  /\ run = c /\ pc[c] = "granted"
  /\ pc' = [pc EXCEPT ![c] = "run"]
  /\ current_thread' = c /\ ref' = ref + 1
  /\ inside' = [inside EXCEPT ![c] = 1]
  /\ UNCHANGED <<session, run, todo, phase, exited, tables, sources, world, thread_queue, stale>>

\* skynet.wait in skynet.queue returns.
Granted(c) ==
  /\ run = c /\ pc[c] = "granted" /\ ref = 0
  /\ pc' = [pc EXCEPT ![c] = "run"]
  /\ current_thread' = c /\ ref' = 1
  /\ inside' = [inside EXCEPT ![c] = 1]
  /\ UNCHANGED <<session, run, todo, phase, exited, tables, sources, world, thread_queue, stale>>

\* Mutant of Release: the next coroutine is not woken.
ReleaseQuietly(c, n) ==
  /\ inside' = [inside EXCEPT ![c] = @ - n]
  /\ ref' = ref - n
  /\ IF n > 0 /\ ref' = 0
     THEN LET next == IF thread_queue = <<>> THEN None ELSE Head(thread_queue)
          IN /\ current_thread' = next
             /\ thread_queue' = IF next = None THEN <<>> ELSE Tail(thread_queue)
     ELSE UNCHANGED <<current_thread, thread_queue>>
  /\ UNCHANGED wakeup_session

\* c leaves the critical section n times; the last time it passes it on.
Release(c, n) ==
  /\ inside' = [inside EXCEPT ![c] = @ - n]
  /\ ref' = ref - n
  /\ IF n > 0 /\ ref' = 0
     THEN LET next == IF thread_queue = <<>> THEN None ELSE Head(thread_queue)
          IN /\ current_thread' = next
             /\ thread_queue' = IF next = None THEN <<>> ELSE Tail(thread_queue)
             /\ wakeup_session' = wakeup_session \cup ({next} \cap sleep_session)
     ELSE UNCHANGED <<current_thread, thread_queue, wakeup_session>>

\* The function returns.
Leave(c) ==
  /\ Running(c) /\ inside[c] > 0
  /\ Release(c, 1)
  /\ UNCHANGED <<flow, session_id_coroutine, sleep_session, watching_session, error_queue,
                 fork_queue, dead_service, sources, world, stale>>

\* The request of c is over.
Over(c) ==
  /\ session_coroutine_address' = [session_coroutine_address EXCEPT ![c] = None]
  /\ session_response' = session_response \ {c}
  /\ heard' = heard \ {c}

\* The coroutine ends ("EXIT").
Finish(c) ==
  /\ Running(c) /\ inside[c] = 0
  /\ pc' = [pc EXCEPT ![c] = "free"]
  /\ Over(c)
  /\ Suspended
  /\ UNCHANGED <<session, phase, exited, tables, world, section>>

\* The coroutine raises an error, among them that of a call that has failed,
\* of assert(ref == 0) and of a second skynet.ret.  It leaves the critical
\* section; an error message goes to its source, which still waits as far as
\* this service knows; the coroutine is not used again.
Raise(c) ==
  /\ run = c /\ (pc[c] = "run" \/ ref # 0)
  /\ Release(c, inside[c])
  /\ pc' = [pc EXCEPT ![c] =
       IF c \in wakeup_session \/ c \in ToSet(thread_queue) THEN "dead" ELSE "free"]
  /\ Over(c)
  /\ Unwound
  /\ UNCHANGED <<session, phase, exited, session_id_coroutine, sleep_session, watching_session,
                 error_queue, fork_queue, dead_service, world, stale>>

\* skynet.exit: all who wait for an answer hear an error, and the coroutine
\* yields for good; what is left of the message goes on.
Exit(c) ==
  /\ Running(c) /\ ~exited
  /\ exited' = TRUE
  /\ Hear(Co)
  /\ run' = None
  /\ pc' = [pc EXCEPT ![c] = "quit"]
  /\ UNCHANGED <<session, todo, phase, tables, session_coroutine_address, session_response,
                 world, section>>

-----------------------------------------------------------------------------
Message ==
  \/ \E p \in Peer : ServiceDown(p) \/ \E c \in Co : Request(p, c)
  \/ \E s \in Session : Response(s) \/ CallError(s)
  \/ OtherMessage

Scheduler == DispatchWakeup \/ DispatchError \/ RunFork

Slice(c) ==
  \/ \E p \in Peer : Call(c, p)
  \/ Sleep(c, "sleep", timer) \/ Sleep(c, "wait", None)
  \/ \E d \in Co : Wakeup(c, d) \/ Fork(c, d)
  \/ Ret(c) \/ Enter(c) \/ Granted(c) \/ Leave(c)
  \/ Finish(c) \/ Raise(c) \/ Exit(c)

Next == Message \/ Scheduler \/ \E c \in Co : Slice(c)

Spec == Init /\ [][Next]_vars

\* A coroutine goes on until it yields, the scheduler goes on, and messages
\* keep coming, of whatever kind; only one of the three can go on at a time.
FairSpec == Spec /\ WF_vars(Next)

-----------------------------------------------------------------------------
\* Type invariant.
TypeOK ==
  /\ pc \in [Co -> {"free", "forked", "run", "call", "sleep", "wait", "lock", "granted",
                    "dead", "quit"}]
  /\ session \in [Co -> 0..MaxSession]
  /\ run \in Co \cup {None} /\ todo \in Seq({"wakeup", "error"})
  /\ phase \in {"idle", "busy"} /\ exited \in BOOLEAN /\ stale \in BOOLEAN
  /\ session_id_coroutine \in [Session -> Co \cup {BREAK, None}]
  /\ sleep_session \subseteq Co /\ wakeup_session \subseteq Co /\ fork_queue \subseteq Co
  /\ watching_session \in [Session -> Peer \cup {None}]
  /\ error_queue \in Seq(Session) /\ dead_service \subseteq Peer
  /\ session_coroutine_address \in [Co -> Peer \cup {None}]
  /\ session_response \subseteq Co /\ heard \subseteq Co
  /\ due \in [Session -> Peer \cup {timer, None}]
  /\ used \in 0..MaxSession /\ requests \in 0..MaxRequest /\ forks \in 0..MaxFork /\ enters \in 0..MaxEnter
  /\ current_thread \in Co \cup {None} /\ ref \in Nat
  /\ thread_queue \in Seq(Co) /\ inside \in [Co -> Nat]

\* A coroutine in a call or a sleep is in the table under its session, and
\* something will take it from there: the answer is due, its error is in
\* the queue, or it has been woken.
Expected ==
  \A c \in Co :
    pc[c] \in {"call", "sleep"} =>
      /\ session_id_coroutine[session[c]] = c
      /\ due[session[c]] # None \/ session[c] \in ToSet(error_queue)

\* skynet.queue: one coroutine at most is in the critical section, whatever
\* it calls there, whoever is woken, and whatever is raised.
Exclusion ==
  \A c \in Co :
    inside[c] > 0 => /\ current_thread = c /\ ref = inside[c]
                     /\ \A d \in Co \ {c} : inside[d] = 0

\* The critical section is never left to nobody: who waits for it is in the
\* queue or is the next and will be woken, and while there is a queue a
\* coroutine is inside or is the next.
HandedOver ==
  ~stale =>
    /\ \A c \in Co : pc[c] = "lock" =>
         c \in ToSet(thread_queue) \/ (current_thread = c /\ c \in wakeup_session)
    /\ current_thread # None =>
         inside[current_thread] > 0 \/ pc[current_thread] \in {"lock", "granted"}
    /\ current_thread = None => thread_queue = <<>>

\* Coroutines enter in the order they came.
InTurn ==
  [][~stale => \A c \in Co :
       inside[c] = 0 /\ inside'[c] > 0 =>
         \A d \in Co \ {c} : pc[d] = "lock" =>
           pc[c] = "granted" /\ d \in ToSet(thread_queue)]_vars

\* Failed calls return and woken coroutines go on, although an error that a
\* coroutine raises cuts off what suspend had left to do: the next messages
\* make up for it.
LeftoversServed ==
  error_queue # <<>> \/ wakeup_session # {}
    ~> (error_queue = <<>> /\ wakeup_session = {}) \/ exited

\* "no fork coroutine can be execute after skynet.exit", skynet.lua:344.
NoForkAfterExit == [][exited => fork_queue' = fork_queue]_vars
=============================================================================
