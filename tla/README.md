# A TLA+ verification of the skynet core and the login of company_coc

The repository is a game server: the actor framework skynet (C and Lua) and, on
top of it, a login server, a gate and agents (`coc_lua`). It holds the server
twice: `skynet/`, which talks sproto to its clients, and `skynet_pbc/`, which
talks protobuf; the cores are the same but for a handful of lines. Everything
here is about `skynet/`, and paths below are relative to `src/skynet/`.

The project covers the part everything else relies on, the C core in
`skynet-src/` (message queues, the dispatching of services by worker threads, the
handle table, the timer, the start and stop of the threads, the socket server),
the coroutine scheduler on which every Lua service runs, and the services that
let a player into the game: login server, gates, agents and message server.

Files: one module per component, `MC<Module>.tla` with the constants for TLC,
`MC*.cfg` the configurations, `<Module>_proofs.tla` the TLAPS proofs (those of
RwLock, RingQueue, WorkerPool and TimerWheel are in `SkynetCore_proofs.tla`), and
`PROJECT.json` the index of components, runs, source lines, hazards, findings
and theorems.

## 1. Inventory

### The core (skynet-src)

| component | state | operations | used by |
|---|---|---|---|
| message queue (`skynet_mq.c`) | ring `queue` with `cap`, `head`, `tail`; `in_global`, `release`, `overload`, `overload_threshold`; a spin lock | create, push, pop, length, overload, mark_release, release | send and dispatch |
| global queue (`skynet_mq.c:34-107`) | `head`, `tail` tickets, array of 65536 slots, overflow `list`; no lock | push, pop | message queue, dispatch |
| services (`skynet_server.c`) | `ref`, `init`, `handle`, `queue`, `cb`, `logfile` of each context; the number of contexts | new, grab, release, send, message_dispatch, and the commands of services (KILL, EXIT, LAUNCH, ABORT, TIMEOUT, ...) | all threads |
| handle table (`skynet_handle.c`) | `slot`, `slot_size`, `handle_index`, sorted `name` array, under a readers-writer lock | register, retire, retireall, grab, findname, namehandle | services |
| readers-writer lock (`rwlock.h`) | two words, `write` and `read` | rlock, runlock, wlock, wunlock | handle table |
| threads (`skynet_start.c`) | `sleep`, a mutex and a condition variable | worker, timer, socket and monitor loops, wakeup | main |
| timer (`skynet_timer.c`) | `near` and `t[4]` lists, `time`, `current`, `current_point`; a spin lock | timeout, updatetime | services, timer thread |
| monitor (`skynet_monitor.c`) | a version per worker | trigger, check | dispatch, monitor thread |
| modules, environment | tables behind spin locks | query, getenv, setenv | services |
| socket server (`socket_server.c`) | 65536 socket slots, write buffers, a command pipe, the events of a batch | open, listen, send, close, start, poll | socket thread, services |

How they interact. A service is a *context* with a *handle* and a *queue*.
`skynet_send` looks the handle up (the table counts a reference), pushes a
message to the queue and releases the context; a queue that is not scheduled
(`in_global = 0`) is pushed to the global queue. A worker takes a queue from
there, grabs its context, pops messages and runs the callback, and passes the
queue on. The context is deleted by whoever drops the last reference; its queue
outlives it, because a worker may hold it, and is dropped by a worker that finds
`release` set. Timer and socket threads only send. Idle workers sleep on a
condition variable and are woken by the timer and socket threads.

Hard in the core: every operation runs in many threads, with spin locks around
small sections and nothing around their combination; a lost wake-up is silent;
memory is freed by reference counts across threads; the global queue is
lock-free; handles wrap around and are reused; the clock wraps around.

### The services

| component | state | operations | hard |
|---|---|---|---|
| Lua scheduler (`lualib/skynet.lua`) | coroutines by session, sleeping and woken coroutines, error queue, watched services, fork queue | dispatch, call, ret, response, sleep, wait, wakeup, fork, exit | late answers and timeouts, errors of dead services, order of resumptions |
| critical sections (`lualib/skynet/queue.lua`) | current coroutine, depth, waiting coroutines | run | re-entry, wake-ups that are not its own |
| launcher, service_mgr | services, deferred answers; unique services with waiters | launch, kill, remove, query | failures while others wait |
| login server (`snax/loginserver.lua`, `coc_lua/logind.lua`) | online users, login lock, gates, authentication slaves | login, kick, logout, registration | calls across services between check and write |
| gate and agents (`coc_lua/gated.lua`, `msgagent.lua`, `snax/msgserver.lua`) | users, connections, cached responses by session, versions | login, logout, kick, handshake, request, disconnect | reconnection with requests in flight, reuse of sessions, expiry |
| socket library, channels | buffers, blocked coroutines, request queue | read, write, connect, request | closing with requests in flight, reconnection |
| harbor (`service-src/service_harbor.c`) | per peer: descriptor, status, queue; per name: handle, queue | send by handle or name, handshake, data, down | order across queues, peers that come and go |
| cmaster, cslave | peers, names, pending queries | connect, register, query, down | start-up that waits for peers, names that race |
| game data (`userdata.lua`, `buildoperate.lua`, `redisdb.lua`) | player data in redis | read and write | check-then-act across calls |
| cluster, multicast, shared data, snax, http, drivers | see PROJECT.json | | |

What would make each correct: the login server lets a user be online once and
agrees with the gates about it; the gate answers each request once, and a
repeated request with the cached answer; the scheduler resumes each coroutine
with its own answer and every call ends; critical sections exclude each other in
FIFO order; harbor delivers between two services in order and to the right
handle; cslave's start ends. The hazards in PROJECT.json give each at its line.

## 2. Plan

Done: the core (RingQueue with Mailbox, ServiceDispatch, RwLock, GlobalMQ,
WorkerPool, HandleStorage, TimerWheel with AlarmClock), then the services
(LoginSystem, MsgServer, LuaService) and SocketServer, in that order.

Proved: every safety invariant and every action property that a passing run
checks, the refinement of Mailbox by RingQueue, and that of AlarmClock by
TimerWheel but for its fairness (section 5). What is left to TLC is liveness.

Candidates for modelling next: the harbor service with cmaster and cslave
(queues per peer, names that are not yet known), the launcher with service_mgr
(answers put off with `skynet.response`), and the socket channels of the
database drivers.

RECURSIVE operators are avoided throughout, so that every module can be proved
about; the loops of the code (the doubling of a threshold, the two loops of
`skynet_handle_register`, the binary search) are recursive functions.

## 3. The modules

**Mailbox** and **RingQueue**. `Mailbox` is what a service may assume of its
queue: an unbounded FIFO that is scheduled whenever it holds a message.
`RingQueue` is `skynet_mq.c` with the names of the code; each operation runs
under the queue's lock and is one action. `PopMessage` is guarded by `in_global`
(only the owner pops, which ServiceDispatch shows) and by `overload = 0` (the
owner calls `skynet_mq_overload` after each pop). `Garbage` stands for an
unwritten slot, so that reading one would be seen.

**ServiceDispatch** is the centre. Threads are workers and senders (timer,
socket). `pc` is the place in `skynet_context_message_dispatch`, `call` the
place in a `skynet_send`, `lpc` the place in a `skynet_context_new`, `del` a
context that the thread is to delete because it dropped the last reference;
these nest as the code's calls do (a callback launches, the init function sends,
a send deletes). A callback may send to any handle, alive or not, and with any
source (`skynet.redirect`, and the notice to the monitor that a kill sends);
kill any service including itself; launch. An init function may do the same but
launch, and may fail. What is abstracted:
- a service is its handle, and is not reused (reuse is in HandleStorage);
- a message is its source, which is all `drop_message` reads;
- the global queue is an atomic FIFO (its instructions are in GlobalMQ); that it
  may spuriously return NULL is `KeepQueue` and WorkerPool's `TakeNothing`;
- registration, assignment of the handle and `skynet_mq_create` are one step
  (the assignment is separate in HandleStorage);
- the release function of a module does nothing to other services, and the
  reads of a new context after its launch ended (`skynet_server.c:155`, `:475`)
  are left out; both are hazards without a property;
- `Share[w]` is 2 to the weight of the worker, and 0 for weight -1.

**GlobalMQ** refines the atomic queue: one action per atomic instruction or read
of a shared word of push and pop. Its callers are reduced to the discipline
that ServiceDispatch establishes: push only what is idle or what you took out.
`crew` is the number of workers that are started, any of them in the same run.
`Tame` restricts several workers to arrays that do not overflow (`Roomy`), the
normal case of 65536 slots: the next ticket's slot is empty and no push is late
for it. A single worker lets it overflow into the list and reloads it.
`MaxTicket` bounds the tickets; the wrap-around of the 32-bit counters is not
modelled.

**RwLock** is `rwlock.h`, one action per access; **HandleStorage** is
`skynet_handle.c`, where every section under that lock is one action, the
assignment `ctx->handle = skynet_handle_register(ctx)` and the loop of
`skynet_handle_retireall` are not. Handles wrap around at `Handles` (2^24 in the
code, a power of two as the bit mask needs) and contexts are reused; names are numbers, ordered as by `strcmp`.
`DEFAULT_SLOT_SIZE` is 1 in the runs (4 in the code), so that the table doubles
twice. `targets` is a ghost: what a pass of retireall must reach.

**WorkerPool** is `skynet_start.c`: the loops of the four kinds of threads, with
`pthread_cond_wait`, `signal` and `broadcast` as POSIX defines them, spurious
wake-ups included. A call of `skynet_context_message_dispatch` is reduced to
taking queues, scheduling others, and changing the number of contexts.

**AlarmClock** and **TimerWheel**. `AlarmClock` is what services may assume of
`skynet_timeout`: an alarm rings in its tick, alarms of a tick in the order in
which they were set, and every alarm rings. `TimerWheel` is `skynet_timer.c`:
`list` holds both `near` (level 4 here) and `t[0..3]`; `Place` is `add_node`,
`Moved` is `move_list`, `Cascade` the loop of `timer_shift`. The sizes of the
levels are constants, and `Span` is what their shifts and masks divide by. A list is taken
under the lock and dispatched node by node without it, while others add. A delay
is a positive `int`, so less than half of the circle of ticks. `current` counts
from the start; a clock that goes backwards changes nothing but
`current_point`, and the correction of `starttime` after 497 days is left out.

**SocketServer** is `socket_server.c` on epoll. `type`, `id`, `high` and `low` are
the slots with their write buffers; `pipe` is the command pipe, bounded, so that
`send_request` blocks; `ev` is what is left of the batch of events. Service
threads reserve an id in three steps (`Allocate`, `Claim`, `SetId`), because they
do so without a lock; the socket thread takes a command or an event per action,
and `clear_closed_event`, which comes after the slot is free, is a step of its
own. The outside chooses whatever may happen to a descriptor: end of file,
error, how much of a buffer is written. A packet is two units, so that it can be
written in part. `aborted` is the state after a failed assertion. Services
close and start an id once, write to streams only, and start only what listens
or was accepted: the Lua library sees to that, except for writing to a listener,
which makes the server abort.

**LuaService** is one Lua service: `lualib/skynet.lua` with one critical section of
`skynet/queue.lua`. An action is what a coroutine does up to its next call of the
library, or a step of the scheduler. The calls of `suspend` nest in each other;
`todo` is what the outer ones still have to do (`dispatch_wakeup` and
`dispatch_error_queue`), and an error unwinds it. What coroutines do is
arbitrary, which covers every service. Peers answer, raise errors, and die.
Coroutines that have ended are used again, as `co_create` does. `stale` marks
that a wake-up met a coroutine that had been resumed by something else; the two
properties that are about turns are stated without it (see section 6).

**LoginSystem** composes three services: `loginserver.lua` with `logind.lua`
(`accept`, `user_login`, `user_online`), `gated.lua` (`users`, `internal_id`, the
coroutines `login` and `kick`) and `msgagent.lua` (`agent`, `logout`). An action is
one message and all the code up to the next yield. The mailboxes of the login
server and the gates are FIFO; agents, launcher, database and authentication
slaves answer in any order. `GateLoginFails` is an error of the launch or of the
loading of the player's data. An agent whose login failed stays behind unused;
one heartbeat loop per agent is modelled.

**MsgServer** is `msgserver.lua` on `gateserver.lua` and the queue of
`lua-netpack.c`, for one user who is logged in. The client is that of
`examples/login/client.lua`, made general: it connects again and again, shakes
hands, asks under two sessions, and repeats on a new connection what was not
answered. It sends on its newest connection only, and does not reuse a session
under which it asked twice on one connection. `entry` holds the cached responses
with their fields (`p[1]` is `fd`, `p[2]` `done`, `p[3]` `version`, `p[4]` `index`) and
who asked for them. `loop` is the running loop of `MSG.more`: it excludes other
steps until it yields, and `calls` keeps it for the coroutine that is in a call
of the agent. With `InTurn` what was sent on a connection is read before what was
sent on newer ones. `first` in `asked` is a ghost, the connection on which a request
was made first: AnswerMatches exempts the requests that were lost with an older
connection (`Lost`, section 6).

## 4. The runs

| run | instance | shows |
|---|---|---|
| ring | 2 messages, ring of 2 slots that doubles twice | FIFO, always scheduled, alarms |
| dispatch | 2 workers (one takes single messages, one the whole queue), 1 sender, 2 services, one of them launched at run time, 3 sends | no queue lost or freed in use, no re-entry, references; messages leave, the dead are reclaimed |
| rwlock | 4 threads | exclusion, a writer gets in |
| global | 1 or 2 workers, 2 senders, 4 queues, 2 slots, 8 tickets | no queue lost or doubled |
| pool | 2 workers, 2 queues, 3 contexts | sleepers are counted and woken, the other threads stop |
| handle_table | 2 threads, one launches, 3 contexts, 4 handles, 2 names | lookup, growth, retireall, names |
| timer | 2 timeouts, one bit per level: a clock of 5 bits, lag up to 2 | on time, in order, none lost |
| socket | 1 opening thread and the socket thread, 2 slots, 3 ids, a pipe of 2, 2 packets | no assertion fails, packets whole and in order, closing ends |
| lua | 3 coroutines, 1 peer, 3 sessions, 2 requests, 1 fork, 3 entries | nobody waits in vain, the critical section, errors |
| login | 1 user, 3 attempts, 2 gates | one session, logins end |
| msgserver | 2 connections, 2 sessions, 3 requests, cache bound 1 | right answers, once and in order |
| lua_exit | as lua | **violation**: forks run after skynet.exit |

The type invariants (`TypeOK`, and `LockTypeOK`, `RingTypeOK`, `PoolTypeOK` of the
modules that SkynetCore_proofs brings together) and the inductive facts
`ScheduledOnce`, `DeletedOnce`, `ReadersCounted`, `AlarmCoherent`, `WellPlaced` and
`ClockCoherent` are in no run, because they are proved (section 5). `NoCollision` is
neither: section 6 says when it fails.

Why the bounds suffice. The races of the core are between two threads over one
queue or one context, with a third thread to disturb: two workers and a sender
over two or three services give each of them. Rings of two slots wrap and double
after a few messages; a table of one slot doubles with the second and the third
service; with one bit per level of the wheel every cascade, and the overflow of
the clock, happens within 32 ticks, and all 15 delays and all pairs of delays
are tried at each of them. Two socket slots with three ids make a slot come
round while commands and events for its last socket are under way; the pipe of
two fills. Three attempts let a third login meet the kick of the second; two
connections with three requests give a repetition on either side of a reconnect
and a reuse of a session, and with a bound of one the cache retires. Three
coroutines are one inside the critical section, one that waits and one that
disturbs. Every bound is a named constant that guards an action: `MaxLength`,
`MaxSends`, `MaxTicket`, `MaxWork`, `MaxTotal`, `MaxLag`, `MaxId`, `MaxSession`,
`MaxRequest`, `MaxFork`, `MaxEnter`, `Connections`, `Sessions`, `Attempt`.

Every property has a mutant in PROJECT.json, an operator next to the one it
replaces (`...Late`, `...Never`, `...Again`): a plausible slip that TLC must
catch with that property.

`CHECK_DEADLOCK FALSE` is said where the system may stop: when all sends and
tickets are used up, all services are gone, nobody wants the lock, and clients and
coroutines may stop asking for anything.

Fairness.
- *ServiceDispatch*: no thread stops for ever between two steps, and callbacks
  return (weak fairness per thread). Sends, kills and launches are choices and
  are not fair. The bound on sends makes a queue empty eventually; the code has
  no such bound, and an endless stream of messages would keep it non-empty.
- *RwLock*: no thread stops inside a lock operation or a critical section. This
  is all spinning needs; that each single reader gets in does not follow and is
  not claimed.
- *WorkerPool*: each thread's own steps are weakly fair, callbacks need not
  return, socket events need not happen, spurious wake-ups are not relied on.
  `SocketExit` is strongly fair because `socket_server_poll` looks at its command
  pipe before each batch of events, so the exit command is not passed over.
- *TimerWheel*: the clock goes on and the timer thread with it.
- *SocketServer*: the socket thread and a thread in the middle of `reserve_id` go
  on, and epoll reports a command in the pipe. A socket that epoll watches for
  writing can be written again and again (strong fairness of `WaitWritable`),
  which is the peer's doing: CloseAnswered is stated for peers that read.
- *LuaService*: some step is taken as long as there is one. Messages of whatever
  kind keep coming, which a service with timers can count on.
- *LoginSystem*: every service handles its messages and every call is answered,
  by an answer or by the error of an exit. Clients need do nothing, and
  heartbeats need not stop.
- *MsgServer*: the gate reads what arrives and the agent answers; answers reach a
  client that stays connected.

## 5. What is proved

Every theorem is about `Spec` and all values of the constants that the module's
assumption allows, and rests on an inductive invariant that TLC checked on the
run's instance before it was proved. What is assumed beyond that is said with
the theorem.

**ServiceDispatch_proofs**: for any finite sets of workers and senders, any
services, weights and number of messages, the safety properties of the run dispatch
(NoLostQueue, NotReentrant, InitBeforeDispatch, RefCounted, NoFreedQueue) and
TypeOK, ScheduledOnce and DeletedOnce.

The properties need each other and more. A queue is owned by one thread
(ScheduledOnce) because it is pushed only when its flags say that nobody has it
(NoLostQueue); the flags are right because a context is deleted once
(DeletedOnce), which is a matter of the reference count (RefCounted), which
counts the local variables of all threads. `IInv` adds
- `Shape`: what the program counters say of the local variables;
- `Lives`: the life of a service and its queue: not launched, live, context
  freed, queue freed, with what the flags are in each;
- `Launched`: what is in the table is initialised or still being launched;
- `Dispatching`: what a worker knows at each place, above all that the context
  of a queue it found dead stays dead.

The proof follows the parts: first the types (StepType), then Shape, the
scheduling (StepSchedule), the references (StepRefs), the lives (StepLives), and
the launch and dispatch facts, each by one step per action. Reference counting
rests on three lemmas on how the sets of reference holders change (SameRefs,
GrabStep, ReleaseStep). NotReentrant, InitBeforeDispatch and NoFreedQueue follow
from `IInv` without further induction.

**SkynetCore_proofs** has the four small parts of the core, which share no state.

*RwLock*: mutual exclusion and the exactness of the count of readers, for any
finite set of threads. The inductive invariant adds that a thread past its
test-and-set has the flag, and that a writer inside has seen no reader that
stayed.

*RingQueue*: the ring implements the mailbox, initial states and every step
(RingIsMailbox), for any messages, initial capacity and number of doublings;
RingTypeOK, AlarmCoherent, and AlarmsEscalate from it. The content of the
ring is a function of `head`, `tail` and `cap`, and the proof is about what
pushing, popping, wrapping around and `expand_queue` do to that function. The loop
that doubles the threshold is a recursive function, whose existence is shown by
induction over a set (LoopEnds), and whose result is then bounded.

*WorkerPool*: SleepCounted, for any finite set of workers and any number of queues
and contexts, spurious wake-ups included. It goes with `MutexHeld`, who is between
lock and unlock of the mutex (MutexExcludes), because two workers that counted at
once would lose one; and with `EndsLast`, that nothing is told to end before the last
context is gone (ThreadsOutliveServices), which is what the monitor, the timer and
the socket thread each derive from `skynet_context_total() == 0` at different
moments.

*TimerWheel*: for any nodes, sizes of the near and the upper levels of at least two
slots (the code has 256 and 64) and lag of the clock: WellPlaced, ClockCoherent and
WheelIsClock, that every step of the wheel is a step of AlarmClock or none. So a
timeout that rings does so in its tick, those of a tick in the order in which they
were set, for the real clock of 2^32 ticks. The fairness of AlarmClock, that each
does ring, stays with the run timer. `WheelInv` says besides where nodes are
(`WellPlaced`) that what waits for the same tick stands in the order of its
setting in every list (`InOrder`), which a cascade preserves because all such nodes
move together; that a node waits once and for a tick less than half the circle
ahead (`WaitsOnce`, `WaitsSoon`), without which a level could not tell one lap of the
clock from the next; and that what is dispatched is all that is due (`FiringDue`).
The heart is StaysPlaced: when the clock goes on by one, a node that no cascade
moves is where `add_node` would put it at the new time. It comes from lemmas on
nested quotients (NestedQuotient, SamePlace), and CascadesOne, that at most one
list cascades in a tick.

**GlobalMQ_proofs**: OnePlace, for any finite sets of workers and queues, any senders
and any number of slots, and EmptyMeansPushing. Both assume `Tame`, the value
of the runs: with one worker anything may happen, with several the array has room
(section 6 has what happens otherwise). For OnePlace the overflow list must be a
chain of different queues (`Linked`), a push on its way to the list must still have
the link it read (`Locals`), and the only popper must find on the list what it
read first (`Popped`); `NoList` says that with room the list is never used. That
one compare-and-swap fails while another thread is ahead is what the steps turn
on. For EmptyMeansPushing, `Tickets` adds the arithmetic of tickets: there are
never more between head and tail than slots, tickets of one lap have different
slots, and a slot that a pop is about to empty has no other ticket in use.

**HandleStorage_proofs**: NamesFound without any assumption: the array of names is
strictly sorted and the binary search finds exactly what is in it, whatever
threads launch at once. For the handles (Findable, RetireAllMissesNone,
NamesFollowServices, and `Full`: the assertion on the size of the table fails only
when every handle is in use) the theorems assume `Calm`: the table does not double
between the registration of a context and the assignment of its handle. The code
does not enforce this with several launching threads (section 6), so it is a
hypothesis, and OneLauncherIsCalm shows that one launching thread satisfies it,
OneLauncherIsSafe states the properties for it. The invariant: every context
sits in the slot that its handle has in the table's present size (`Placed`,
`Launches`), and a pass of `retireall` has not gone by what it shall retire
(`Passes`). The proof rests on lemmas on remainders by a power of two and its
double, and on the loops of `skynet_handle_register`: that they end, and that what
they find is free.

**LuaService_proofs**: Expected, Exclusion, HandedOver and InTurn, for any coroutines,
peers and bounds. The parts of the invariant are the places of coroutines
(`Places`), the two tables that must mirror each other (`Tables`), what each waiting
coroutine is going to be woken by (`Answers`), the critical section's counter and
owner (`Section`), and, while no stale wake-up has met a coroutine, the order of
those that wait (`Turns`). TypeOK needs the rest: only then does no BREAK get into
`dispatch_error_queue` and `ref` never below zero.

**LoginSystem_proofs**: OneSession, for any users, gates and attempts, with users that
log in at one gate at the same time. OnlineAgrees and LogoutHitsOwn assume
`OneByOne`, the value of the run: at one gate the logins come one by one; section
6 has what happens otherwise. A login is in one place (`OnePlace`: a message, the
login lock, or a coroutine of a gate), the messages say what is so (`Messages`),
sessions at the gates and entries of logind correspond up to the messages on
their way (`Sessions`), and numbers grow (`Numbers`), which is what tells an old logout
from a new session.

**MsgServer_proofs**: for any number of connections, sessions and requests and any
bound of the cache, InOrder, QueueServed and CacheKeepsRecent, without further
assumption. The parts of the invariant: what the client has sent stands in line,
on each connection and in the queue (`Flow`, `Clients`); entries are counted, and each
belongs to one request and one call at most (`Entries`); what is pending has a
larger number than what went to the agent from the same connection, and a number
of its own (`Order`); and the index of a cached answer lags the counter by no more
than the answers made since (`Recent`), through every shift of `retire_response`.

AnswerMatches and AtMostOnce assume `InTurn`, the value of the run: packages of
different connections are read in the order of the connections. The gate tells
requests apart by a session number that is used again and the version of a
connection, so that one has to know of each session where its request is. A
second invariant, `TurnInv`, has a part about all sessions: a request number
belongs to one session (`Owned`), answers on their way are those of entries
(`Backed`), and nothing that waits is older than the version (`Versions`); and parts
about each: what its packages and entries say of each other (`Placed`), that a
request not repeated on one connection is in one place, a package, a call, an
answer or the cache (`Once`), and that an older answer in the cache has the version
of the connection on which the session was used anew, so that the comparison of
versions drops it (`Matches`). The proof takes the kinds of steps one by one, for the
session they are about; for the others `Undisturbed` says what must stay the same.

**SocketServer_proofs**: NoAbort, OwnPackets and NothingAfterEnd, for any threads,
slots, ids, packets and size of the pipe. They assume `Tame`, the value of the run:
no slot is reserved between `force_close` and `clear_closed_event`, and no command
about an id overtakes the store of that id. The code enforces neither (section 6
has what happens otherwise); each needs another thread to act within a few
instructions of the socket thread or of the reserving one. The parts of the
invariant:
- `Threads`, `Ids`: an id that a thread reserves is unknown to all others, and an
  id sits in the slot of its hash, so that slots of equal hash are told apart;
- `Commands`, `Reserved`: a slot is reserved by one thread or by the one command on
  its way that opens it, which comes before all others about its id;
- `Alive`, `Events`: a slot in use has an id that was not reported as closed, and
  what is left of a batch of events is about such slots, one event each, but
  for the slot whose events are about to be cleared. The assertions of `NoAbort` are
  consequences of these parts, which in turn need that no assertion failed before;
- `Buffers`, `Newer`: what went over the wire and what is in the two buffers is one
  sequence of whole packets of the slot's socket, in order for each priority, and
  what is in the pipe is newer. A packet cut by a partial write is kept
  whole because the rest of it is moved to the head of the high list
  (`raise_uncomplete`) before any high packet follows.

OwnPackets follows from `Buffers`; NothingAfterEnd is a property of steps, for which
`Alive` gives that whatever reports on a socket finds it not ended.

Only model-checked: liveness (the prover has no fairness), hence also the part of
AlarmClock that is fairness, and NoForkAfterExit, which fails (section 6). In the
theorem about the mailbox the abstract specification is the safety part, which is all
that Mailbox states.

## 6. Findings and observations

Finding, with a run: **lua_exit** (`lualib/skynet.lua:344`). `skynet.exit` empties
`fork_queue`, "no fork coroutine can be execute after skynet.exit"; but the local
of that name is declared below (`:475`), so a global is assigned, and
`dispatch_message` runs what was forked before.

Observed while modelling, without a run of their own. In the core:
- `skynet_mq.c:86`: taking from the overflow list of the global queue compares a
  pointer that may have gone and come back; the queues behind it disappear
  although their `in_global` is 1 (OnePlace fails with two workers and
  `Tame = FALSE`). It needs more than 65536 scheduled queues. After an overflow
  `head` can also stand on an empty slot for which no push is under way, so that
  pops return NULL until `tail` comes round again.
- `skynet_start.c:114`: the one broadcast at the end is not under the mutex and
  does not reach a worker that is about to wait; the process then does not end.
- `skynet_handle.c:59`: the rehash reads the handle of a context whose handle is
  not assigned yet; when two threads launch services at the moment the table
  grows (NoCollision with two threads in `Registrar`), the assertion on the next line fails.
- After 2^24 registrations a service of a node with harbor 0 may get handle 0,
  although `skynet_handle.c:247` reserves it.
- A timeout is counted from the time of the wheel, not from `TI->current`: set
  while `skynet_updatetime` catches up, it fires early by the remaining lag,
  which `ClockCoherent` makes exact.
- `socket_server.c:158-160`: between the compare-and-swap and the store of the id
  the slot still has its old id; a late close of that id then fails the assertion
  of `force_close`. Likewise a slot that is reserved between `force_close` and
  `clear_closed_event` keeps its old events. (NoAbort with `Tame = FALSE`.)
- The result -1 of `reserve_id`, when all slots are taken, is used as an id
  (`:950`, `:1055`, `:1066`). What is written to a bound descriptor (`:612`) waits
  for an event that is never asked for, and closing it with data left never ends.
  `start_socket` gives no answer for a socket in most states (`:642`).

In the services:
- `gated.lua:33-41`: of two users who log in at one gate at once, both may be told
  the subid of the second, because `internal_id` is read again after two calls; the
  first then cannot connect, and the login server and the gate disagree about him
  (OnlineAgrees with two users and `OneByOne = FALSE`).
- `msgserver.lua:292`: an answer that comes when the client has reconnected but
  not yet repeated its request is stored under the new version; the repetition
  then counts as a reuse of the session, and the request is executed again
  (`late` in AtMostOnce).
- `msgserver.lua:219-266`: a request under a session that was used before may be lost
  with its connection: read by the gate, which drops it because the connection
  has been closed meanwhile. Repeated on the next connection it meets the cached
  answer to the earlier request under that session, whose version is an old one,
  and is given that answer. The proof of AnswerMatches came upon it; `Lost` says
  exactly when it happens.
- `msgserver.lua:328-331`: the handshake counts as over only when the agent has
  answered the heartbeat; a request sent after the 200 but handled before is
  taken for a handshake, and the connection is closed with 404.
- `msgserver.lua:160-165`: when an old connection closes after the user has
  reconnected, `u.fd` is cleared, and a later logout does not close the new one.
- `lua-netpack.c:130`: a queue that grows while a loop of `MSG.more` yields is read
  by no coroutine until the next batch comes; and an assertion that fails inside
  the loop (`msgserver.lua:220`) leaves the rest waiting as well.
- `skynet.lua:134`: `sleep_session` outlives an error in a sleep, and a wake-up may
  then resume a coroutine that waits for something else, which in a critical
  section fails `assert(ref == 0)` (`stale` in LuaService). An error in a coroutine
  also cuts off the wake-ups and errors behind it until the next message, which
  LeftoversServed shows to be made up for.

## 7. Not modelled

The components of section 1 that have no module, listed with their reasons in
PROJECT.json; above all the harbor, the launcher, the socket channels and the game
data. In the core the commands that only read or log, session numbers, the
overload message, harbor routing in `skynet_send`, start-up before the threads
run, and memory: allocation does not fail.
