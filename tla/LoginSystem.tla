---------------------------- MODULE LoginSystem ----------------------------
(***************************************************************************)
(* Logging in and out of the game: the login server (snax/loginserver.lua  *)
(* with coc_lua/logind.lua), the gates (coc_lua/gated.lua) and one agent   *)
(* per login (coc_lua/msgagent.lua).                                       *)
(*                                                                         *)
(* A service takes its messages from a mailbox, one at a time, and runs    *)
(* the coroutine that the message starts or resumes until it yields in a   *)
(* skynet.call.  So an action is one message and all the code up to the    *)
(* next yield; between two actions of a coroutine others run.  The         *)
(* mailboxes of logind and of the gates are FIFO.  Those of the agents,    *)
(* the launcher, the database and the slaves are left out: they answer     *)
(* sooner or later and in any order.                                       *)
(*                                                                         *)
(* An attempt is one client connection to the login server; it names the   *)
(* coroutines that serve it and the agent that it starts as well.          *)
(***************************************************************************)
EXTENDS Naturals, Sequences

CONSTANTS
  User, Gate, Attempt,
  UserOf,        \* UserOf[c]: the user who attempts c
  OneByOne,      \* TRUE: two users do not log in to a gate at the same time
  logind, beat, None

ASSUME LoginAssumption ==
  /\ UserOf \in [Attempt -> User]
  /\ OneByOne \in BOOLEAN
  /\ logind \notin Gate
  /\ None \notin Gate \cup Attempt \cup {logind}
  /\ None \notin [address : Gate, subid : Nat] \cup [agent : Attempt, name : Nat]
  /\ beat \notin Attempt

VARIABLES
  box,           \* the mailboxes of logind and of the gates
  accept,        \* accept[c]: where logind is with attempt c, or its answer
  server,        \* the gate that the client asked for
  given,         \* the subid that it was told
  user_login,    \* the users with a login under way (the lock)
  user_online,   \* user_online[u]: gate and subid of the session of u
  users,         \* users[g][u]: the session of u at gate g
  internal_id,   \* internal_id[g]
  login,         \* login[c]: where the gate's login_handler for c is
  named,         \* named[c]: the number in the username that it made
  kick,          \* kick[c]: the agent that the kick_handler for c waits for
  agent,         \* agent[c]: the life of the agent of attempt c
  subid,         \* subid[c]: what the agent takes for its subid
  logout         \* logout[c][k]: its coroutine in logout(): k is the attempt
                 \* that kicks it, or beat for the heartbeat loop

acceptVars == <<accept, server, given, user_login, user_online>>
gateVars == <<users, internal_id, login, named, kick>>
agentVars == <<agent, subid, logout>>
vars == <<box, acceptVars, gateVars, agentVars>>

Init ==
  /\ box = [s \in {logind} \cup Gate |-> <<>>]
  /\ accept = [c \in Attempt |-> "new"]
  /\ server = [c \in Attempt |-> None]
  /\ given = [c \in Attempt |-> 0]
  /\ user_login = {}
  /\ user_online = [u \in User |-> None]
  /\ users = [g \in Gate |-> [u \in User |-> None]]
  /\ internal_id = [g \in Gate |-> 0]
  /\ login = [c \in Attempt |-> "none"]
  /\ named = [c \in Attempt |-> 0]
  /\ kick = [c \in Attempt |-> None]
  /\ agent = [c \in Attempt |-> "none"]
  /\ subid = [c \in Attempt |-> 0]
  /\ logout = [c \in Attempt |-> [k \in Attempt \cup {beat} |-> "none"]]

-----------------------------------------------------------------------------
(* Messages: a request or an answer that concerns attempt `of`.            *)

Message(type, of, n, ok) == [type |-> type, of |-> of, subid |-> n, ok |-> ok]
LogoutMessage(type, a, k, n) == [type |-> type, of |-> a, by |-> k, subid |-> n]

Arrived(s, type) == box[s] # <<>> /\ Head(box[s]).type = type

Sent(to, m) == box' = [box EXCEPT ![to] = Append(@, m)]
Taken(s) == box' = [box EXCEPT ![s] = Tail(@)]
TakenAndSent(s, to, m) ==
  box' = [box EXCEPT ![s] = Tail(@), ![to] = Append(@, m)]

-----------------------------------------------------------------------------
(* The login server                                                        *)

UnderWay(c) == accept[c] \in {"auth", "kick", "login"}

\* A client connects; a slave checks its token.
Connect(c, g) ==
  /\ accept[c] = "new"
  /\ OneByOne =>
       \A d \in Attempt : UnderWay(d) /\ server[d] = g => UserOf[d] = UserOf[c]
  /\ accept' = [accept EXCEPT ![c] = "auth"]
  /\ server' = [server EXCEPT ![c] = g]
  /\ UNCHANGED <<box, given, user_login, user_online, gateVars, agentVars>>

\* The slave refuses, or a login of the same user is under way.
Refuse(c) ==
  /\ accept[c] = "auth"
  /\ \/ accept' = [accept EXCEPT ![c] = "401"]
     \/ UserOf[c] \in user_login /\ accept' = [accept EXCEPT ![c] = "406"]
  /\ UNCHANGED <<box, server, given, user_login, user_online, gateVars, agentVars>>

\* Mutant of LockUser: the lock is tested but not set.
LockUserNever(u) == u \notin user_login /\ UNCHANGED user_login

\* user_login[uid] = true
LockUser(u) == u \notin user_login /\ user_login' = user_login \cup {u}

\* login_handler up to its first call: the user's last session is kicked.
Authenticated(c) ==
  /\ accept[c] = "auth" /\ LockUser(UserOf[c])
  /\ LET last == user_online[UserOf[c]]
     IN IF last = None
        THEN /\ accept' = [accept EXCEPT ![c] = "login"]
             /\ Sent(server[c], Message("login", c, 0, TRUE))
        ELSE /\ accept' = [accept EXCEPT ![c] = "kick"]
             /\ Sent(last.address, Message("kick", c, last.subid, TRUE))
  /\ UNCHANGED <<server, given, user_online, gateVars, agentVars>>

\* The answer to the client; the lock is given back.
Answer(c, code) ==
  /\ accept' = [accept EXCEPT ![c] = code]
  /\ user_login' = user_login \ {UserOf[c]}

\* The kick has returned.
Kicked ==
  /\ Arrived(logind, "kicked")
  /\ LET m == Head(box[logind])
         c == m.of
     IN IF m.ok /\ user_online[UserOf[c]] = None
        THEN /\ accept' = [accept EXCEPT ![c] = "login"]
             /\ TakenAndSent(logind, server[c], Message("login", c, 0, TRUE))
             /\ UNCHANGED user_login
        ELSE Answer(c, "403") /\ Taken(logind)
  /\ UNCHANGED <<server, given, user_online, gateVars, agentVars>>

\* The gate has answered.
LoggedIn ==
  /\ Arrived(logind, "loggedin")
  /\ LET m == Head(box[logind])
         c == m.of
     IN IF m.ok
        THEN /\ user_online' = [user_online EXCEPT
                  ![UserOf[c]] = [address |-> server[c], subid |-> m.subid]]
             /\ given' = [given EXCEPT ![c] = m.subid]
             /\ Answer(c, "200")
        ELSE Answer(c, "403") /\ UNCHANGED <<user_online, given>>
  /\ Taken(logind)
  /\ UNCHANGED <<server, gateVars, agentVars>>

\* CMD.logout, which forgets the session of the user whatever its subid.
UserLogout ==
  /\ Arrived(logind, "logout")
  /\ LET m == Head(box[logind])
     IN /\ user_online' = [user_online EXCEPT ![UserOf[m.of]] = None]
        /\ TakenAndSent(logind, server[m.of], LogoutMessage("forgotten", m.of, m.by, m.subid))
  /\ UNCHANGED <<accept, server, given, user_login, gateVars, agentVars>>

-----------------------------------------------------------------------------
(* The gates                                                               *)

\* login_handler up to the launch of the agent.
GateLogin(g) ==
  /\ Arrived(g, "login")
  /\ LET c == Head(box[g]).of
     IN IF users[g][UserOf[c]] # None
        THEN /\ TakenAndSent(g, logind, Message("loggedin", c, 0, FALSE))
             /\ UNCHANGED <<internal_id, login, named>>
        ELSE /\ internal_id' = [internal_id EXCEPT ![g] = @ + 1]
             /\ named' = [named EXCEPT ![c] = internal_id[g] + 1]
             /\ login' = [login EXCEPT ![c] = "launch"]
             /\ Taken(g)
  /\ UNCHANGED <<users, kick, acceptVars, agentVars>>

\* login_handler raises an error: the launch, or the login of the agent,
\* which loads the user's data, has failed.
GateLoginFails(c) ==
  /\ login[c] \in {"launch", "agent"}
  /\ login' = [login EXCEPT ![c] = "none"]
  /\ Sent(logind, Message("loggedin", c, 0, FALSE))
  /\ UNCHANGED <<users, internal_id, named, kick, acceptVars, agentVars>>

\* The agent is launched; it is told the internal_id of now.
Launched(c) ==
  /\ login[c] = "launch"
  /\ login' = [login EXCEPT ![c] = "agent"]
  /\ agent' = [agent EXCEPT ![c] = "up"]
  /\ subid' = [subid EXCEPT ![c] = internal_id[server[c]]]
  /\ UNCHANGED <<box, users, internal_id, named, kick, acceptVars, logout>>

\* The agent has loaded the user's data; the session starts, and the
\* internal_id of now is returned.
AgentReady(c) ==
  /\ login[c] = "agent"
  /\ login' = [login EXCEPT ![c] = "none"]
  /\ users' = [users EXCEPT ![server[c]][UserOf[c]] = [agent |-> c, name |-> named[c]]]
  /\ Sent(logind, Message("loggedin", c, internal_id[server[c]], TRUE))
  /\ UNCHANGED <<internal_id, named, kick, acceptVars, agentVars>>

\* pcall(skynet.call, u.agent, "lua", "logout")
KickAgent(g, c, a) ==
  /\ logout' = [logout EXCEPT ![a][c] = "told"]
  /\ kick' = [kick EXCEPT ![c] = a]
  /\ Taken(g)

\* kick_handler.
GateKick(g) ==
  /\ Arrived(g, "kick")
  /\ LET m == Head(box[g])
         u == users[g][UserOf[m.of]]
     IN IF u # None /\ u.name = m.subid /\ agent[u.agent] # "gone"
        THEN KickAgent(g, m.of, u.agent)
        ELSE \* nothing to kick, or assert(u.username == username) fails
             /\ TakenAndSent(g, logind,
                  Message("kicked", m.of, 0, u = None \/ u.name = m.subid))
             /\ UNCHANGED <<kick, logout>>
  /\ UNCHANGED <<users, internal_id, login, named, acceptVars, agent, subid>>

\* Mutant of KickReturns: only an answer ends the call, not the agent's exit.
KickReturnsAnswered(g, c) ==
  /\ kick[c] # None /\ server[kick[c]] = g
  /\ logout[kick[c]][c] = "failed"
  /\ kick' = [kick EXCEPT ![c] = None]
  /\ Sent(logind, Message("kicked", c, 0, TRUE))
  /\ UNCHANGED <<users, internal_id, login, named, acceptVars, agentVars>>

\* The call of the agent returns, mostly with the error of its exit.
KickReturns(g, c) ==
  /\ kick[c] # None /\ server[kick[c]] = g
  /\ agent[kick[c]] = "gone" \/ logout[kick[c]][c] = "failed"
  /\ kick' = [kick EXCEPT ![c] = None]
  /\ Sent(logind, Message("kicked", c, 0, TRUE))
  /\ UNCHANGED <<users, internal_id, login, named, acceptVars, agentVars>>

\* Mutant of ForgetSession: the session stays until logind has answered.
ForgetSessionNever(g, u) == UNCHANGED users

\* users[uid] = nil
ForgetSession(g, u) == users' = [users EXCEPT ![g][u] = None]

\* logout_handler, called by an agent.
GateLogout(g) ==
  /\ Arrived(g, "logout")
  /\ LET m == Head(box[g])
         u == users[g][UserOf[m.of]]
     IN IF u # None /\ u.name = m.subid
        THEN /\ ForgetSession(g, UserOf[m.of])
             /\ TakenAndSent(g, logind, LogoutMessage("logout", m.of, m.by, m.subid))
             /\ UNCHANGED logout
        ELSE \* already logged out, or the assertion on the username fails
             /\ logout' = [logout EXCEPT ![m.of][m.by] = IF u = None THEN "done" ELSE "failed"]
             /\ Taken(g) /\ UNCHANGED users
  /\ UNCHANGED <<internal_id, login, named, kick, acceptVars, agent, subid>>

\* logind has answered the logout, and the gate answers the agent.
Forgotten(g) ==
  /\ Arrived(g, "forgotten")
  /\ LET m == Head(box[g])
     IN logout' = [logout EXCEPT ![m.of][m.by] = "done"]
  /\ Taken(g)
  /\ UNCHANGED <<gateVars, acceptVars, agent, subid>>

\* The client connects to the gate with the subid it was told; the gate starts
\* the heartbeat loop of the agent (agent_handler).  A message of this
\* handshake would change nothing else here.
Handshake(c) ==
  /\ accept[c] = "200"
  /\ LET u == users[server[c]][UserOf[c]]
     IN /\ u # None /\ u.name = given[c]
        /\ agent[u.agent] = "up"
        /\ agent' = [agent EXCEPT ![u.agent] = "beats"]
  /\ UNCHANGED <<box, acceptVars, gateVars, subid, logout>>

-----------------------------------------------------------------------------
(* The agents                                                              *)

Alive(a) == agent[a] \in {"up", "beats"}

\* logout() up to its call of the gate.
AskGate(a, k) ==
  /\ logout' = [logout EXCEPT ![a][k] = "asked"]
  /\ Sent(server[a], LogoutMessage("logout", a, k, subid[a]))
  /\ UNCHANGED <<acceptVars, gateVars, subid>>

\* CMD.logout: the gate kicks the agent.
AgentKicked(a, c) ==
  /\ Alive(a) /\ logout[a][c] = "told"
  /\ AskGate(a, c) /\ UNCHANGED agent

\* No heartbeat for a minute: the loop calls logout() and ends.
BeatStops(a) ==
  /\ agent[a] = "beats" /\ logout[a][beat] \in {"none", "failed"}
  /\ agent' = [agent EXCEPT ![a] = "up"]
  /\ AskGate(a, beat)

\* The gate has answered: skynet.exit.
AgentExits(a) ==
  /\ Alive(a) /\ \E k \in DOMAIN logout[a] : logout[a][k] = "done"
  /\ agent' = [agent EXCEPT ![a] = "gone"]
  /\ UNCHANGED <<box, acceptVars, gateVars, subid, logout>>

-----------------------------------------------------------------------------
LogindStep == Kicked \/ LoggedIn \/ UserLogout
GateStep(g) == GateLogin(g) \/ GateKick(g) \/ GateLogout(g) \/ Forgotten(g)
AgentStep(a) == AgentExits(a) \/ \E c \in Attempt : AgentKicked(a, c)
Answered(c) ==   \* by a slave, by the launcher and the database, by an agent
  \/ Refuse(c) \/ Authenticated(c)
  \/ GateLoginFails(c) \/ Launched(c) \/ AgentReady(c)
  \/ \E g \in Gate : KickReturns(g, c)

Next ==
  \/ LogindStep
  \/ \E g \in Gate : GateStep(g)
  \/ \E c \in Attempt :
       \/ Answered(c) \/ AgentStep(c) \/ Handshake(c) \/ BeatStops(c)
       \/ \E g \in Gate : Connect(c, g)

Spec == Init /\ [][Next]_vars

\* Every service handles its messages and every call is answered.  Clients
\* need not do anything, and heartbeats need not stop.
FairSpec ==
  /\ Spec
  /\ WF_vars(LogindStep)
  /\ \A g \in Gate : WF_vars(GateStep(g))
  /\ \A c \in Attempt : WF_vars(Answered(c)) /\ WF_vars(AgentStep(c))

-----------------------------------------------------------------------------
\* Type invariant.
TypeOK ==
  /\ accept \in [Attempt -> {"new", "auth", "kick", "login", "200", "401", "403", "406"}]
  /\ server \in [Attempt -> Gate \cup {None}]
  /\ given \in [Attempt -> Nat]
  /\ user_login \subseteq User
  /\ user_online \in [User -> {None} \cup [address : Gate, subid : Nat]]
  /\ users \in [Gate -> [User -> {None} \cup [agent : Attempt, name : Nat]]]
  /\ internal_id \in [Gate -> Nat]
  /\ login \in [Attempt -> {"none", "launch", "agent"}]
  /\ named \in [Attempt -> Nat]
  /\ kick \in [Attempt -> Attempt \cup {None}]
  /\ agent \in [Attempt -> {"none", "up", "beats", "gone"}]
  /\ subid \in [Attempt -> Nat]
  /\ logout \in [Attempt -> [Attempt \cup {beat} ->
                  {"none", "told", "asked", "done", "failed"}]]

Mail(s) == {box[s][i] : i \in DOMAIN box[s]}

\* A user has a session at one gate at most, and an agent at most that a new
\* login can meet: the old session is gone, on every gate, before the next
\* one starts (the kick, the lock, and the order of messages).
OneSession ==
  \A u \in User, g, h \in Gate :
    users[g][u] # None /\ users[h][u] # None => g = h

\* logind and the gates agree.  What logind thinks is online has its session,
\* under the same subid, unless the logout is on its way to logind; and a
\* session is known to logind unless the login has yet to be answered.
OnlineAgrees ==
  \A u \in User :
    /\ LET o == user_online[u]
       IN o # None =>
            \/ /\ users[o.address][u] # None
               /\ users[o.address][u].name = o.subid
            \/ \E m \in Mail(logind) : m.type = "logout" /\ UserOf[m.of] = u
    /\ \A g \in Gate :
         users[g][u] # None =>
           \/ user_online[u] # None /\ user_online[u].address = g
           \/ \E m \in Mail(logind) : /\ m.type = "loggedin" /\ m.ok
                                      /\ m.of = users[g][u].agent

\* CMD.logout of logind does not look at the subid: a logout on its way
\* there is of the session that logind knows, never of a later one.
LogoutHitsOwn ==
  \A m \in Mail(logind) :
    m.type = "logout" =>
      LET o == user_online[UserOf[m.of]]
      IN o # None /\ o.address = server[m.of] /\ o.subid = m.subid

\* Every attempt is answered: the calls across logind, gates and agents end,
\* whoever logs out meanwhile, and the lock is given back.
AttemptsEnd == \A c \in Attempt : accept[c] = "auth" ~> ~UnderWay(c)
=============================================================================
