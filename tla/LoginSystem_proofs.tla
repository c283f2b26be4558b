------------------------ MODULE LoginSystem_proofs --------------------------
(***************************************************************************)
(* Proofs about LoginSystem, for any users, gates and attempts: a user has *)
(* one session at most, however many logins, kicks and logouts are under   *)
(* way; and, when users log in to a gate one by one, logind and the gates  *)
(* agree on it.                                                            *)
(***************************************************************************)
EXTENDS LoginSystem, SequenceTheorems, TLAPS

-----------------------------------------------------------------------------
(* The inductive invariant.                                                *)

Server == {logind} \cup Gate

\* A login asks: logind sends a kick or a login to a gate, which answers.
Asks == {"kick", "kicked", "login", "loggedin"}
Mails == [type : Asks, of : Attempt, subid : Nat, ok : BOOLEAN]
           \cup [type : {"logout", "forgotten"}, of : Attempt, by : Attempt \cup {beat}, subid : Nat]
BoxOK == box \in [Server -> Seq(Mails)]

Rival(a, c) == a # c /\ UserOf[a] = UserOf[c] /\ server[a] = server[c]

\* A user has one login at most past the lock; who has connected has a gate.
Locked ==
  /\ \A c \in Attempt :
       /\ accept[c] # "new" => server[c] \in Gate
       /\ accept[c] \in {"kick", "login"} => UserOf[c] \in user_login
  /\ \A c, d \in Attempt :
       /\ accept[c] \in {"kick", "login"} /\ accept[d] \in {"kick", "login"}
            /\ UserOf[c] = UserOf[d] => c = d
       /\ OneByOne /\ UnderWay(c) /\ UnderWay(d) /\ server[c] = server[d] =>
            UserOf[c] = UserOf[d]

\* A login is at one place: a message, the gate's login_handler or kick_handler.
OnePlace ==
  /\ \A s, t \in Server : \A i \in 1..Len(box[s]), j \in 1..Len(box[t]) :
       box[s][i].type \in Asks /\ box[t][j].type \in Asks /\ box[s][i].of = box[t][j].of =>
         s = t /\ i = j
  /\ \A s \in Server : \A i \in 1..Len(box[s]) :
       box[s][i].type \in Asks => login[box[s][i].of] = "none" /\ kick[box[s][i].of] = None
  /\ \A c \in Attempt :
       /\ login[c] # "none" => accept[c] = "login" /\ kick[c] = None
       /\ kick[c] # None => accept[c] = "kick"

\* What a message says of the attempt that it concerns.
MailOK(s, m) ==
  LET c == m.of
  IN /\ m.type = "kick" => s \in Gate /\ accept[c] = "kick"
     /\ m.type = "kicked" => s = logind /\ accept[c] = "kick"
     /\ m.type = "login" => s = server[c] /\ accept[c] = "login" /\ agent[c] = "none"
     /\ m.type = "loggedin" => s = logind /\ accept[c] = "login"
     /\ m.type = "logout" => /\ accept[c] = "200" /\ agent[c] # "none"
                             /\ s # logind => s = server[c] /\ m.subid = subid[c]
     /\ m.type = "forgotten" => s = server[c] /\ accept[c] = "200" /\ agent[c] # "none"

\* A login that has succeeded, until logind has heard of it.
Success(m) ==
  LET c == m.of
  IN m.type = "loggedin" /\ m.ok =>
       /\ users[server[c]][UserOf[c]] = [agent |-> c, name |-> named[c]]
       /\ m.subid <= internal_id[server[c]]
       /\ OneByOne => m.subid = named[c]

\* A logout on its way to logind: the session is gone, logind has not heard.
Leaving(m) ==
  LET c == m.of
  IN m.type = "logout" =>
       /\ \A g \in Gate : users[g][UserOf[c]] = None
       /\ user_online[UserOf[c]] # None
       /\ user_online[UserOf[c]].address = server[c]
       /\ OneByOne => user_online[UserOf[c]].subid = m.subid

Messages ==
  /\ \A s \in Server : \A i \in 1..Len(box[s]) : MailOK(s, box[s][i])
  /\ \A i \in 1..Len(box[logind]) : Success(box[logind][i]) /\ Leaving(box[logind][i])
  /\ \A i, j \in 1..Len(box[logind]) :
       box[logind][i].type = "logout" /\ box[logind][j].type = "logout"
         /\ UserOf[box[logind][i].of] = UserOf[box[logind][j].of] => i = j

\* The success of c, or a logout of user u, is on its way to logind.
Unheard(c) == \E i \in 1..Len(box[logind]) :
                LET m == box[logind][i] IN m.type = "loggedin" /\ m.ok /\ m.of = c
Unknown(u) == \E i \in 1..Len(box[logind]) :
                LET m == box[logind][i] IN m.type = "logout" /\ UserOf[m.of] = u

\* The session of a user at a gate, and what logind knows of it.
SessionOK(g, u) ==
  users[g][u] # None =>
    LET b == users[g][u].agent
    IN /\ UserOf[b] = u /\ server[b] = g /\ users[g][u].name = named[b] /\ agent[b] # "none"
       /\ \/ /\ accept[b] = "200" /\ user_online[u] # None /\ user_online[u].address = g
             /\ OneByOne => user_online[u].subid = named[b]
          \/ accept[b] = "login" /\ Unheard(b)

OnlineOK(u) ==
  user_online[u] # None =>
    LET o == user_online[u]
    IN \/ /\ users[o.address][u] # None
          /\ OneByOne => users[o.address][u].name = o.subid
       \/ Unknown(u)

Sessions ==
  /\ \A g \in Gate, u \in User : SessionOK(g, u)
  /\ \A c \in Attempt : accept[c] = "login" => user_online[UserOf[c]] = None
  /\ \A u \in User : OnlineOK(u)

\* c is making its session, or has it.
Holds(c) ==
  \/ login[c] # "none"
  \/ /\ server[c] \in Gate /\ users[server[c]][UserOf[c]] # None
     /\ users[server[c]][UserOf[c]].agent = c

\* Numbers grow: what an agent or a client was told before a user's login began
\* is less than the number in the name that this login makes.
Older(a, c) ==
  /\ agent[a] # "none" => subid[a] < named[c]
  /\ accept[a] = "200" => given[a] < named[c]

Numbers ==
  /\ \A c \in Attempt :
       /\ agent[c] # "none" =>
            accept[c] \in {"login", "200", "403"} /\ subid[c] <= internal_id[server[c]]
       /\ login[c] = "agent" => agent[c] # "none"
       /\ accept[c] = "200" => given[c] <= internal_id[server[c]]
       /\ agent[c] = "beats" => accept[c] = "200"
       /\ \A k \in Attempt \cup {beat} :
            logout[c][k] # "none" => accept[c] = "200" /\ agent[c] # "none"
       /\ OneByOne => /\ agent[c] # "none" => subid[c] = named[c]
                      /\ login[c] # "none" => named[c] = internal_id[server[c]]
  /\ \A a, c \in Attempt : Holds(c) /\ Rival(a, c) => Older(a, c)

IInv == TypeOK /\ BoxOK /\ Locked /\ OnePlace /\ Messages /\ Sessions /\ Numbers

-----------------------------------------------------------------------------
(* Taking a message from a mailbox and putting one into another.           *)

\* x stays in mailbox t when the first message of mailbox `from` is taken
\* (None: of no mailbox).
Stays(from, t, x) == \E j \in 1..Len(box[t]) : (t = from => j # 1) /\ box[t][j] = x

\* The first message of mailbox `from` is taken and m is put into mailbox `to`;
\* either is None when nothing is taken or sent.
Delivery(from, to, m) ==
  /\ BoxOK'
  /\ \A t \in Server : \A i \in 1..Len(box'[t]) :
       \/ t = to /\ i = Len(box'[t]) /\ box'[t][i] = m
       \/ \E j \in 1..Len(box[t]) : /\ j = IF t = from THEN i + 1 ELSE i
                                    /\ box'[t][i] = box[t][j]
  /\ \A t \in Server : \A x : Stays(from, t, x) => \E i \in 1..Len(box'[t]) : box'[t][i] = x
  /\ to \in Server => \E i \in 1..Len(box'[to]) : box'[to][i] = m

LEMMA Names ==
  /\ logind \in Server /\ Gate \subseteq Server /\ \A g \in Gate : g # logind
  /\ \A c \in Attempt : UserOf[c] \in User /\ c # None
  /\ None \notin Server
  /\ \A g \in Gate, n \in Nat : [address |-> g, subid |-> n] # None
  /\ \A a \in Attempt, n \in Nat : [agent |-> a, name |-> n] # None
  BY LoginAssumption DEF Server

LEMMA OneTaken ==
  ASSUME NEW q \in Seq(Mails), q # <<>>
  PROVE  /\ Head(q) = q[1] /\ q[1] \in Mails /\ Len(q) \in Nat /\ Len(q) > 0
         /\ Tail(q) \in Seq(Mails) /\ Len(Tail(q)) = Len(q) - 1
         /\ \A i \in 1..Len(Tail(q)) : Tail(q)[i] = q[i + 1] /\ i + 1 \in 1..Len(q)
         /\ \A j \in 1..Len(q) : j # 1 => j - 1 \in 1..Len(Tail(q)) /\ Tail(q)[j - 1] = q[j]
  <1>1. /\ Head(q) = q[1] /\ q[1] \in Mails /\ Len(q) \in Nat /\ Len(q) > 0
        /\ Tail(q) \in Seq(Mails) /\ Len(Tail(q)) = Len(q) - 1
        /\ \A i \in 1..Len(Tail(q)) : Tail(q)[i] = q[i + 1]
    OBVIOUS
  <1> QED BY <1>1

LEMMA OneSent ==
  ASSUME NEW q \in Seq(Mails), NEW m \in Mails
  PROVE  /\ Append(q, m) \in Seq(Mails) /\ Len(Append(q, m)) = Len(q) + 1 /\ Len(q) \in Nat
         /\ \A j \in 1..Len(q) : Append(q, m)[j] = q[j] /\ j \in 1..Len(Append(q, m))
         /\ Append(q, m)[Len(q) + 1] = m
  BY AppendProperties

LEMMA TakenDelivery ==
  ASSUME BoxOK, NEW s \in Server, box[s] # <<>>, Taken(s), NEW m
  PROVE  Delivery(s, None, m)
  <1> USE Names
  <1>1. /\ box[s] \in Seq(Mails) /\ box'[s] = Tail(box[s])
        /\ \A t \in Server \ {s} : box'[t] = box[t]
        /\ BoxOK'
    BY OneTaken DEF Taken, BoxOK
  <1>2. ASSUME NEW t \in Server, NEW i \in 1..Len(box'[t])
        PROVE  \E j \in 1..Len(box[t]) : /\ j = IF t = s THEN i + 1 ELSE i
                                         /\ box'[t][i] = box[t][j]
    <2>1. CASE t = s
      <3>1. i \in 1..Len(Tail(box[s])) /\ box'[t][i] = Tail(box[s])[i]
        BY <1>1, <1>2, <2>1
      <3>2. i + 1 \in 1..Len(box[t]) /\ box'[t][i] = box[t][i + 1]
        BY <1>1, <2>1, <3>1, OneTaken
      <3> QED BY <2>1, <3>2
    <2>2. CASE t # s
      BY <1>1, <2>2
    <2> QED BY <2>1, <2>2
  <1>3. ASSUME NEW t \in Server, NEW x, Stays(s, t, x)
        PROVE  \E i \in 1..Len(box'[t]) : box'[t][i] = x
    <2>1. CASE t = s
      <3>1. PICK j \in 1..Len(box[s]) : j # 1 /\ box[s][j] = x
        BY <1>3, <2>1 DEF Stays
      <3>2. j - 1 \in 1..Len(Tail(box[s])) /\ Tail(box[s])[j - 1] = x
        BY <1>1, <3>1, OneTaken
      <3> QED BY <1>1, <2>1, <3>2
    <2>2. CASE t # s
      BY <1>1, <1>3, <2>2 DEF Stays
    <2> QED BY <2>1, <2>2
  <1> QED BY <1>1, <1>2, <1>3 DEF Delivery

LEMMA SentDelivery ==
  ASSUME BoxOK, NEW to \in Server, NEW m \in Mails, Sent(to, m)
  PROVE  Delivery(None, to, m)
  <1> USE Names
  <1>1. /\ box[to] \in Seq(Mails) /\ box'[to] = Append(box[to], m)
        /\ \A t \in Server \ {to} : box'[t] = box[t]
    BY DEF Sent, BoxOK
  <1>2. BoxOK' /\ Len(box'[to]) = Len(box[to]) + 1 /\ Len(box[to]) \in Nat
    BY <1>1, OneSent DEF BoxOK, Sent
  <1>3. ASSUME NEW t \in Server, NEW i \in 1..Len(box'[t])
        PROVE  \/ t = to /\ i = Len(box'[t]) /\ box'[t][i] = m
               \/ \E j \in 1..Len(box[t]) : /\ j = IF t = None THEN i + 1 ELSE i
                                            /\ box'[t][i] = box[t][j]
    <2>1. CASE t # to
      BY <1>1, <2>1
    <2>2. CASE t = to /\ i = Len(box[to]) + 1
      BY <1>1, <1>2, <2>2, OneSent
    <2>3. CASE t = to /\ i \in 1..Len(box[to])
      BY <1>1, <2>3, OneSent
    <2> QED BY <1>2, <1>3, <2>1, <2>2, <2>3
  <1>4. ASSUME NEW t \in Server, NEW x, Stays(None, t, x)
        PROVE  \E i \in 1..Len(box'[t]) : box'[t][i] = x
    BY <1>1, <1>4, OneSent DEF Stays
  <1>5. \E i \in 1..Len(box'[to]) : box'[to][i] = m
    <2>1. Len(box[to]) + 1 \in 1..Len(box'[to])
      BY <1>2
    <2> QED BY <1>1, <2>1, OneSent
  <1> QED BY <1>2, <1>3, <1>4, <1>5 DEF Delivery

LEMMA TakenAndSentDelivery ==
  ASSUME BoxOK, NEW s \in Server, box[s] # <<>>, NEW to \in Server \ {s}, NEW m \in Mails,
         TakenAndSent(s, to, m)
  PROVE  Delivery(s, to, m)
  <1>1. /\ box[s] \in Seq(Mails) /\ box'[s] = Tail(box[s])
        /\ box[to] \in Seq(Mails) /\ box'[to] = Append(box[to], m)
        /\ \A t \in Server \ {s, to} : box'[t] = box[t]
    BY DEF TakenAndSent, BoxOK
  <1>2. BoxOK' /\ Len(box'[to]) = Len(box[to]) + 1 /\ Len(box[to]) \in Nat
    BY <1>1, OneSent, OneTaken DEF BoxOK, TakenAndSent
  <1>3. ASSUME NEW t \in Server, NEW i \in 1..Len(box'[t])
        PROVE  \/ t = to /\ i = Len(box'[t]) /\ box'[t][i] = m
               \/ \E j \in 1..Len(box[t]) : /\ j = IF t = s THEN i + 1 ELSE i
                                            /\ box'[t][i] = box[t][j]
    <2>1. CASE t \notin {s, to}
      BY <1>1, <2>1
    <2>2. CASE t = to /\ i = Len(box[to]) + 1
      BY <1>1, <1>2, <2>2, OneSent
    <2>3. CASE t = to /\ i \in 1..Len(box[to])
      <3>1. box'[t][i] = box[t][i] /\ t # s
        BY <1>1, <2>3, OneSent
      <3> QED BY <2>3, <3>1
    <2>4. CASE t = s
      <3>1. i \in 1..Len(Tail(box[s])) /\ box'[t][i] = Tail(box[s])[i]
        BY <1>1, <1>3, <2>4
      <3>2. i + 1 \in 1..Len(box[t]) /\ box'[t][i] = box[t][i + 1]
        BY <1>1, <2>4, <3>1, OneTaken
      <3> QED BY <2>4, <3>2
    <2> QED BY <1>2, <1>3, <2>1, <2>2, <2>3, <2>4
  <1>4. ASSUME NEW t \in Server, NEW x, Stays(s, t, x)
        PROVE  \E i \in 1..Len(box'[t]) : box'[t][i] = x
    <2>1. CASE t = to
      <3>1. PICK j \in 1..Len(box[to]) : box[to][j] = x
        BY <1>4, <2>1 DEF Stays
      <3>2. j \in 1..Len(box'[to]) /\ box'[to][j] = x
        BY <1>1, <3>1, OneSent
      <3> QED BY <2>1, <3>2
    <2>2. CASE t = s
      <3>1. PICK j \in 1..Len(box[s]) : j # 1 /\ box[s][j] = x
        BY <1>4, <2>2 DEF Stays
      <3>2. j - 1 \in 1..Len(Tail(box[s])) /\ Tail(box[s])[j - 1] = x
        BY <1>1, <3>1, OneTaken
      <3> QED BY <1>1, <2>2, <3>2
    <2>3. CASE t \notin {s, to}
      BY <1>1, <1>4, <2>3 DEF Stays
    <2> QED BY <2>1, <2>2, <2>3
  <1>5. \E i \in 1..Len(box'[to]) : box'[to][i] = m
    <2>1. Len(box[to]) + 1 \in 1..Len(box'[to])
      BY <1>2
    <2> QED BY <1>1, <2>1, OneSent
  <1> QED BY <1>2, <1>3, <1>4, <1>5 DEF Delivery

\* The message that has arrived, and its attempt.
LEMMA Arrival ==
  ASSUME BoxOK, Messages, NEW s \in Server, NEW type, Arrived(s, type)
  PROVE  /\ box[s] # <<>> /\ Len(box[s]) \in Nat /\ 1 \in 1..Len(box[s])
         /\ Head(box[s]) = box[s][1] /\ Head(box[s]) \in Mails
         /\ Head(box[s]).type = type /\ Head(box[s]).of \in Attempt /\ Head(box[s]).subid \in Nat
         /\ MailOK(s, Head(box[s]))
  <1>1. box[s] \in Seq(Mails) /\ box[s] # <<>> /\ Head(box[s]).type = type
    BY DEF Arrived, BoxOK
  <1>2. /\ Head(box[s]) = box[s][1] /\ box[s][1] \in Mails /\ Len(box[s]) \in Nat
        /\ 1 \in 1..Len(box[s])
    BY <1>1, OneTaken
  <1> QED BY <1>1, <1>2 DEF Messages, Mails

-----------------------------------------------------------------------------
(* Types, and the messages that are sent.                                  *)

LEMMA LogoutMail ==
  ASSUME NEW type \in {"logout", "forgotten"}, NEW a \in Attempt,
         NEW k \in Attempt \cup {beat}, NEW n \in Nat
  PROVE  /\ LogoutMessage(type, a, k, n) \in Mails
         /\ LogoutMessage(type, a, k, n).type = type /\ LogoutMessage(type, a, k, n).of = a
         /\ LogoutMessage(type, a, k, n).by = k /\ LogoutMessage(type, a, k, n).subid = n
  BY DEF Mails, LogoutMessage

\* What the fields of a message are.
LEMMA MailFields ==
  ASSUME NEW m \in Mails
  PROVE  /\ m.of \in Attempt /\ m.subid \in Nat
         /\ m.type \in Asks => m.ok \in BOOLEAN
         /\ m.type \in {"logout", "forgotten"} => m.by \in Attempt \cup {beat}
         /\ m.type \in Asks \cup {"logout", "forgotten"}
  BY DEF Mails, Asks

LEMMA InitInv == Init => IInv
  <1> SUFFICES ASSUME Init PROVE IInv
    OBVIOUS
  <1>1. TypeOK
    BY LoginAssumption DEF Init, TypeOK
  <1>2. BoxOK /\ \A s \in Server : box[s] = <<>> /\ Len(box[s]) = 0
    BY DEF Init, BoxOK, Server
  <1>3. Locked
    BY LoginAssumption DEF Init, Locked, UnderWay
  <1>4. OnePlace
    BY <1>2, Names DEF Init, OnePlace
  <1>5. Messages
    BY <1>2, Names DEF Messages
  <1>6. Sessions
    BY DEF Init, Sessions, SessionOK, OnlineOK
  <1>7. Numbers
    BY Names DEF Init, Numbers, Holds
  <1> QED BY <1>1, <1>2, <1>3, <1>4, <1>5, <1>6, <1>7 DEF IInv

\* The fields of the records.
LEMMA Fields ==
  ASSUME TypeOK
  PROVE  /\ \A u \in User : user_online[u] # None =>
              user_online[u].address \in Gate /\ user_online[u].subid \in Nat
         /\ \A g \in Gate, u \in User : users[g][u] # None =>
              users[g][u].agent \in Attempt /\ users[g][u].name \in Nat
  BY DEF TypeOK

\* Updates of the two tables of tables.
LEMMA LogoutUpdate ==
  ASSUME TypeOK, NEW a \in Attempt, NEW k \in Attempt \cup {beat},
         NEW v \in {"none", "told", "asked", "done", "failed"},
         logout' = [logout EXCEPT ![a][k] = v]
  PROVE  /\ logout' \in [Attempt -> [Attempt \cup {beat} ->
                            {"none", "told", "asked", "done", "failed"}]]
         /\ logout'[a][k] = v
         /\ \A b \in Attempt, j \in Attempt \cup {beat} :
              b # a \/ j # k => logout'[b][j] = logout[b][j]
  <1> DEFINE Row == [Attempt \cup {beat} -> {"none", "told", "asked", "done", "failed"}]
  <1>1. logout \in [Attempt -> Row] /\ logout[a] \in Row
    BY DEF TypeOK
  <1> DEFINE row == [logout[a] EXCEPT ![k] = v]
  <1>2. /\ row \in Row /\ row[k] = v
        /\ \A j \in Attempt \cup {beat} : j # k => row[j] = logout[a][j]
    BY <1>1
  <1> HIDE DEF Row, row
  <1>3. logout' = [logout EXCEPT ![a] = row]
    BY DEF row
  <1>4. /\ logout' \in [Attempt -> Row] /\ logout'[a] = row
        /\ \A b \in Attempt : b # a => logout'[b] = logout[b]
    BY <1>1, <1>2, <1>3
  <1> QED BY <1>2, <1>4 DEF Row

LEMMA UsersUpdate ==
  ASSUME TypeOK, NEW g \in Gate, NEW u \in User,
         NEW v \in {None} \cup [agent : Attempt, name : Nat],
         users' = [users EXCEPT ![g][u] = v]
  PROVE  /\ users' \in [Gate -> [User -> {None} \cup [agent : Attempt, name : Nat]]]
         /\ users'[g][u] = v
         /\ \A h \in Gate, w \in User : h # g \/ w # u => users'[h][w] = users[h][w]
  <1> DEFINE Row == [User -> {None} \cup [agent : Attempt, name : Nat]]
  <1>1. users \in [Gate -> Row] /\ users[g] \in Row
    BY DEF TypeOK
  <1> DEFINE row == [users[g] EXCEPT ![u] = v]
  <1>2. /\ row \in Row /\ row[u] = v
        /\ \A w \in User : w # u => row[w] = users[g][w]
    BY <1>1
  <1> HIDE DEF Row, row
  <1>3. users' = [users EXCEPT ![g] = row]
    BY DEF row
  <1>4. /\ users' \in [Gate -> Row] /\ users'[g] = row
        /\ \A h \in Gate : h # g => users'[h] = users[h]
    BY <1>1, <1>2, <1>3
  <1> QED BY <1>2, <1>4 DEF Row

LEMMA StepType ==
  ASSUME IInv, [Next]_vars
  PROVE  TypeOK'
  <1> USE LoginAssumption, Names
  <1>0. TypeOK /\ BoxOK /\ Locked /\ Messages
    BY DEF IInv
  <1>1. ASSUME NEW c \in Attempt, NEW g \in Gate, Connect(c, g)
        PROVE  TypeOK'
    BY <1>0, <1>1 DEF Connect, TypeOK, gateVars, agentVars
  <1>2. ASSUME NEW c \in Attempt, Refuse(c)
        PROVE  TypeOK'
    BY <1>0, <1>2 DEF Refuse, TypeOK, gateVars, agentVars
  <1>3. ASSUME NEW c \in Attempt, Authenticated(c)
        PROVE  TypeOK'
    <2>1. user_login' \subseteq User
      BY <1>0, <1>3 DEF Authenticated, LockUser, TypeOK
    <2>2. accept' = [accept EXCEPT ![c] = "login"] \/ accept' = [accept EXCEPT ![c] = "kick"]
      BY <1>3 DEF Authenticated
    <2>3. UNCHANGED <<server, given, user_online, gateVars, agentVars>>
      BY <1>3 DEF Authenticated
    <2> QED BY <1>0, <2>1, <2>2, <2>3 DEF TypeOK, gateVars, agentVars
  <1>4. CASE Kicked
    <2> DEFINE c == Head(box[logind]).of
    <2>1. c \in Attempt
      BY <1>0, <1>4, Arrival DEF Kicked
    <2> HIDE DEF c
    <2>2. /\ accept' = [accept EXCEPT ![c] = "login"] \/ accept' = [accept EXCEPT ![c] = "403"]
          /\ user_login' = user_login \/ user_login' = user_login \ {UserOf[c]}
          /\ UNCHANGED <<server, given, user_online, gateVars, agentVars>>
      BY <1>4 DEF Kicked, Answer, c
    <2> QED BY <1>0, <2>1, <2>2 DEF TypeOK, gateVars, agentVars
  <1>5. CASE LoggedIn
    <2> DEFINE m == Head(box[logind])
    <2>1. m.of \in Attempt /\ m.subid \in Nat /\ server[m.of] \in Gate
      BY <1>0, <1>5, Arrival DEF LoggedIn, Locked, MailOK
    <2> HIDE DEF m
    <2>2. /\ accept' = [accept EXCEPT ![m.of] = "200"] \/ accept' = [accept EXCEPT ![m.of] = "403"]
          /\ user_login' = user_login \ {UserOf[m.of]}
          /\ \/ user_online' = [user_online EXCEPT
                  ![UserOf[m.of]] = [address |-> server[m.of], subid |-> m.subid]]
             \/ user_online' = user_online
          /\ given' = given \/ given' = [given EXCEPT ![m.of] = m.subid]
          /\ UNCHANGED <<server, gateVars, agentVars>>
      BY <1>5 DEF LoggedIn, Answer, m
    <2>3. user_online' \in [User -> {None} \cup [address : Gate, subid : Nat]]
      BY <1>0, <2>1, <2>2 DEF TypeOK
    <2> QED BY <1>0, <2>1, <2>2, <2>3 DEF TypeOK, gateVars, agentVars
  <1>6. CASE UserLogout
    BY <1>0, <1>6 DEF UserLogout, TypeOK, gateVars, agentVars
  <1>7. ASSUME NEW g \in Gate, GateLogin(g)
        PROVE  TypeOK'
    <2> DEFINE c == Head(box[g]).of
    <2>1. c \in Attempt /\ internal_id[g] + 1 \in Nat
      BY <1>0, <1>7, Arrival DEF GateLogin, TypeOK
    <2> HIDE DEF c
    <2>2. /\ \/ UNCHANGED <<internal_id, login, named>>
             \/ /\ internal_id' = [internal_id EXCEPT ![g] = @ + 1]
                /\ named' = [named EXCEPT ![c] = internal_id[g] + 1]
                /\ login' = [login EXCEPT ![c] = "launch"]
          /\ UNCHANGED <<users, kick, acceptVars, agentVars>>
      BY <1>7 DEF GateLogin, c
    <2>3. internal_id' \in [Gate -> Nat] /\ named' \in [Attempt -> Nat]
      <3>1. internal_id \in [Gate -> Nat] /\ named \in [Attempt -> Nat]
        BY <1>0 DEF TypeOK
      <3>2. internal_id' = internal_id \/ internal_id' = [internal_id EXCEPT ![g] = internal_id[g] + 1]
        BY <2>2
      <3>3. internal_id' \in [Gate -> Nat]
        BY <2>1, <3>1, <3>2
      <3>4. named' \in [Attempt -> Nat]
        BY <2>1, <2>2, <3>1
      <3> QED BY <3>3, <3>4
    <2>4. login' \in [Attempt -> {"none", "launch", "agent"}]
      BY <1>0, <2>1, <2>2 DEF TypeOK
    <2> QED BY <1>0, <2>2, <2>3, <2>4 DEF TypeOK, acceptVars, agentVars
  <1>8. ASSUME NEW c \in Attempt, GateLoginFails(c)
        PROVE  TypeOK'
    BY <1>0, <1>8 DEF GateLoginFails, TypeOK, acceptVars, agentVars
  <1>9. ASSUME NEW c \in Attempt, Launched(c), server[c] \in Gate
        PROVE  TypeOK'
    BY <1>0, <1>9 DEF Launched, TypeOK, acceptVars
  <1>10. ASSUME NEW c \in Attempt, AgentReady(c), server[c] \in Gate
         PROVE  TypeOK'
    <2>1. users' \in [Gate -> [User -> {None} \cup [agent : Attempt, name : Nat]]]
      BY <1>0, <1>10, UsersUpdate DEF AgentReady, TypeOK
    <2> QED BY <1>0, <1>10, <2>1 DEF AgentReady, TypeOK, acceptVars, agentVars
  <1>11. ASSUME NEW g \in Gate, GateKick(g)
         PROVE  TypeOK'
    <2> DEFINE c == Head(box[g]).of
               u == users[g][UserOf[c]]
    <2>1. c \in Attempt /\ (u # None => u.agent \in Attempt)
      BY <1>0, <1>11, Arrival, Fields DEF GateKick
    <2> HIDE DEF c
    <2>2. /\ \/ UNCHANGED <<kick, logout>>
             \/ /\ u # None
                /\ logout' = [logout EXCEPT ![u.agent][c] = "told"]
                /\ kick' = [kick EXCEPT ![c] = u.agent]
          /\ UNCHANGED <<users, internal_id, login, named, acceptVars, agent, subid>>
      BY <1>11 DEF GateKick, KickAgent, c
    <2> HIDE DEF u
    <2>3. logout' \in [Attempt -> [Attempt \cup {beat} ->
                        {"none", "told", "asked", "done", "failed"}]]
      BY <1>0, <2>1, <2>2, LogoutUpdate DEF TypeOK
    <2> QED BY <1>0, <2>1, <2>2, <2>3 DEF TypeOK, acceptVars
  <1>12. ASSUME NEW c \in Attempt, NEW g \in Gate, KickReturns(g, c)
         PROVE  TypeOK'
    BY <1>0, <1>12 DEF KickReturns, TypeOK, acceptVars, agentVars
  <1>13. ASSUME NEW g \in Gate, GateLogout(g)
         PROVE  TypeOK'
    <2> DEFINE m == Head(box[g])
    <2>1. m.of \in Attempt /\ m.by \in Attempt \cup {beat}
      BY <1>0, <1>13, Arrival, MailFields DEF GateLogout
    <2> HIDE DEF m
    <2>2. /\ users' = users \/ users' = [users EXCEPT ![g][UserOf[m.of]] = None]
          /\ \/ logout' = logout \/ logout' = [logout EXCEPT ![m.of][m.by] = "done"]
             \/ logout' = [logout EXCEPT ![m.of][m.by] = "failed"]
          /\ UNCHANGED <<internal_id, login, named, kick, acceptVars, agent, subid>>
      BY <1>13 DEF GateLogout, ForgetSession, m
    <2>3. logout' \in [Attempt -> [Attempt \cup {beat} ->
                        {"none", "told", "asked", "done", "failed"}]]
      BY <1>0, <2>1, <2>2, LogoutUpdate DEF TypeOK
    <2>4. users' \in [Gate -> [User -> {None} \cup [agent : Attempt, name : Nat]]]
      BY <1>0, <2>1, <2>2, UsersUpdate DEF TypeOK
    <2> QED BY <1>0, <2>2, <2>3, <2>4 DEF TypeOK, acceptVars
  <1>14. ASSUME NEW g \in Gate, Forgotten(g)
         PROVE  TypeOK'
    <2> DEFINE m == Head(box[g])
    <2>1. m.of \in Attempt /\ m.by \in Attempt \cup {beat}
      BY <1>0, <1>14, Arrival, MailFields DEF Forgotten
    <2> HIDE DEF m
    <2>2. /\ logout' = [logout EXCEPT ![m.of][m.by] = "done"]
          /\ UNCHANGED <<gateVars, acceptVars, agent, subid>>
      BY <1>14 DEF Forgotten, m
    <2>3. logout' \in [Attempt -> [Attempt \cup {beat} ->
                        {"none", "told", "asked", "done", "failed"}]]
      BY <1>0, <2>1, <2>2, LogoutUpdate DEF TypeOK
    <2> QED BY <1>0, <2>2, <2>3 DEF TypeOK, acceptVars, gateVars
  <1>15. ASSUME NEW c \in Attempt, Handshake(c)
         PROVE  TypeOK'
    BY <1>0, <1>15 DEF Handshake, TypeOK, acceptVars, gateVars
  <1>16. ASSUME NEW a \in Attempt, NEW k \in Attempt \cup {beat}, AskGate(a, k),
                agent' = agent \/ agent' = [agent EXCEPT ![a] = "up"]
         PROVE  TypeOK'
    BY <1>0, <1>16 DEF AskGate, TypeOK, acceptVars, gateVars
  <1>17. ASSUME NEW a \in Attempt, AgentExits(a)
         PROVE  TypeOK'
    BY <1>0, <1>17 DEF AgentExits, TypeOK, acceptVars, gateVars
  <1>18. CASE UNCHANGED vars
    BY <1>0, <1>18 DEF TypeOK, vars, acceptVars, gateVars, agentVars
  <1>19. ASSUME NEW c \in Attempt, login[c] # "none"
         PROVE  server[c] \in Gate
    BY <1>19 DEF IInv, OnePlace, Locked
  <1> QED BY <1>1, <1>2, <1>3, <1>4, <1>5, <1>6, <1>7, <1>8, <1>9, <1>10, <1>11, <1>12, <1>13,
             <1>14, <1>15, <1>16, <1>17, <1>18, <1>19
          DEF Next, LogindStep, GateStep, AgentStep, Answered, AgentKicked, BeatStops,
              Launched, AgentReady

-----------------------------------------------------------------------------
(* What a delivery leaves and brings.                                      *)

\* A message that stays.
LEMMA StaysFacts ==
  ASSUME BoxOK, OnePlace, Messages, NEW from, NEW t \in Server, NEW x, Stays(from, t, x)
  PROVE  /\ x \in Mails /\ x.of \in Attempt /\ MailOK(t, x)
         /\ t = logind => Success(x) /\ Leaving(x)
         /\ x.type \in Asks => login[x.of] = "none" /\ kick[x.of] = None
  <1>1. PICK j \in 1..Len(box[t]) : box[t][j] = x
    BY DEF Stays
  <1>2. x \in Mails
    BY <1>1 DEF BoxOK
  <1> QED BY <1>1, <1>2, MailFields DEF OnePlace, Messages

\* The first message is the only one of its login, and the only logout of its user.
LEMMA StaysAlone ==
  ASSUME BoxOK, OnePlace, Messages, NEW s \in Server, box[s] # <<>>,
         NEW t \in Server, NEW x, Stays(s, t, x)
  PROVE  /\ x.type \in Asks /\ Head(box[s]).type \in Asks => x.of # Head(box[s]).of
         /\ s = logind /\ t = logind /\ x.type = "logout" /\ Head(box[s]).type = "logout" =>
              UserOf[x.of] # UserOf[Head(box[s]).of]
  <1>1. PICK j \in 1..Len(box[t]) : (t = s => j # 1) /\ box[t][j] = x
    BY DEF Stays
  <1>2. Head(box[s]) = box[s][1] /\ 1 \in 1..Len(box[s])
    BY OneTaken DEF BoxOK
  <1> QED BY <1>1, <1>2 DEF OnePlace, Messages

\* Where the messages after a delivery come from.
LEMMA Came ==
  ASSUME NEW from, NEW to, NEW m, Delivery(from, to, m), NEW t \in Server, NEW i \in 1..Len(box'[t])
  PROVE  \/ t = to /\ i = Len(box'[t]) /\ box'[t][i] = m
         \/ /\ Stays(from, t, box'[t][i])
            /\ \E j \in 1..Len(box[t]) : j = (IF t = from THEN i + 1 ELSE i) /\ box'[t][i] = box[t][j]
  <1>1. CASE t = to /\ i = Len(box'[t]) /\ box'[t][i] = m
    BY <1>1
  <1>2. ASSUME NEW j \in 1..Len(box[t]), j = (IF t = from THEN i + 1 ELSE i),
               box'[t][i] = box[t][j]
        PROVE  Stays(from, t, box'[t][i])
    <2>1. t = from => j # 1
      <3>1. i \in Int /\ 1 <= i
        OBVIOUS
      <3> QED BY <1>2, <3>1
    <2> QED BY <1>2, <2>1 DEF Stays
  <1> QED BY <1>1, <1>2 DEF Delivery

\* A login stays at one place when what is sent is at no other place.
LEMMA OnePlaceDelivery ==
  ASSUME BoxOK, OnePlace, NEW from, NEW to, NEW m, Delivery(from, to, m),
         m.type \in Asks =>
           \A t \in Server : \A x : Stays(from, t, x) /\ x.type \in Asks => x.of # m.of,
         \A t \in Server : \A x :
           Stays(from, t, x) /\ x.type \in Asks => login'[x.of] = "none" /\ kick'[x.of] = None,
         to \in Server /\ m.type \in Asks => login'[m.of] = "none" /\ kick'[m.of] = None,
         \A c \in Attempt : /\ login'[c] # "none" => accept'[c] = "login" /\ kick'[c] = None
                            /\ kick'[c] # None => accept'[c] = "kick"
  PROVE  OnePlace'
  <1>1. ASSUME NEW s \in Server, NEW t \in Server,
               NEW i \in 1..Len(box'[s]), NEW j \in 1..Len(box'[t]),
               box'[s][i].type \in Asks, box'[t][j].type \in Asks, box'[s][i].of = box'[t][j].of
        PROVE  s = t /\ i = j
    <2>1. CASE /\ s = to /\ i = Len(box'[s]) /\ box'[s][i] = m
               /\ t = to /\ j = Len(box'[t]) /\ box'[t][j] = m
      BY <2>1
    <2>2. ASSUME NEW k \in 1..Len(box[s]), k = (IF s = from THEN i + 1 ELSE i), box'[s][i] = box[s][k],
                 NEW l \in 1..Len(box[t]), l = (IF t = from THEN j + 1 ELSE j), box'[t][j] = box[t][l]
          PROVE  s = t /\ i = j
      <3>1. s = t /\ k = l
        BY <1>1, <2>2 DEF OnePlace
      <3>2. i \in Int /\ j \in Int
        OBVIOUS
      <3> QED BY <2>2, <3>1, <3>2
    <2>3. CASE box'[s][i] = m /\ Stays(from, t, box'[t][j])
      BY <1>1, <2>3
    <2>4. CASE box'[t][j] = m /\ Stays(from, s, box'[s][i])
      BY <1>1, <2>4
    <2>5. \/ s = to /\ i = Len(box'[s]) /\ box'[s][i] = m
          \/ /\ Stays(from, s, box'[s][i])
             /\ \E k \in 1..Len(box[s]) : k = (IF s = from THEN i + 1 ELSE i) /\ box'[s][i] = box[s][k]
      BY Came
    <2>6. \/ t = to /\ j = Len(box'[t]) /\ box'[t][j] = m
          \/ /\ Stays(from, t, box'[t][j])
             /\ \E l \in 1..Len(box[t]) : l = (IF t = from THEN j + 1 ELSE j) /\ box'[t][j] = box[t][l]
      BY Came
    <2> QED BY <2>1, <2>2, <2>3, <2>4, <2>5, <2>6
  <1>2. ASSUME NEW s \in Server, NEW i \in 1..Len(box'[s]), box'[s][i].type \in Asks
        PROVE  login'[box'[s][i].of] = "none" /\ kick'[box'[s][i].of] = None
    <2>1. (s = to /\ box'[s][i] = m) \/ Stays(from, s, box'[s][i])
      BY Came
    <2> QED BY <1>2, <2>1
  <1> QED BY <1>1, <1>2 DEF OnePlace

\* The messages stay true when those that stay do, and what is sent is true.
LEMMA MessagesDelivery ==
  ASSUME BoxOK, Messages, NEW from, NEW to, NEW m, Delivery(from, to, m),
         \A t \in Server : \A x : Stays(from, t, x) => MailOK(t, x)',
         \A x : Stays(from, logind, x) => Success(x)' /\ Leaving(x)',
         to \in Server => MailOK(to, m)',
         logind = to => Success(m)' /\ Leaving(m)',
         logind = to /\ m.type = "logout" =>
           \A x : Stays(from, logind, x) /\ x.type = "logout" => UserOf[x.of] # UserOf[m.of]
  PROVE  Messages'
  <1>1. ASSUME NEW s \in Server, NEW i \in 1..Len(box'[s]), NEW x, x = box'[s][i]
        PROVE  MailOK(s, x)'
    <2>1. (s = to /\ x = m) \/ Stays(from, s, x)
      BY <1>1, Came
    <2> QED BY <2>1
  <1>2. ASSUME NEW i \in 1..Len(box'[logind]), NEW x, x = box'[logind][i]
        PROVE  Success(x)' /\ Leaving(x)'
    <2>1. (logind = to /\ x = m) \/ Stays(from, logind, x)
      BY <1>2, Came, Names
    <2> QED BY <2>1
  <1>3. ASSUME NEW i \in 1..Len(box'[logind]), NEW j \in 1..Len(box'[logind]),
               box'[logind][i].type = "logout", box'[logind][j].type = "logout",
               UserOf[box'[logind][i].of] = UserOf[box'[logind][j].of]
        PROVE  i = j
    <2> USE Names
    <2>1. CASE /\ logind = to /\ i = Len(box'[logind]) /\ j = Len(box'[logind])
      BY <2>1
    <2>2. ASSUME NEW k \in 1..Len(box[logind]), k = (IF logind = from THEN i + 1 ELSE i),
                 box'[logind][i] = box[logind][k],
                 NEW l \in 1..Len(box[logind]), l = (IF logind = from THEN j + 1 ELSE j),
                 box'[logind][j] = box[logind][l]
          PROVE  i = j
      <3>1. k = l
        BY <1>3, <2>2 DEF Messages
      <3>2. i \in Int /\ j \in Int
        OBVIOUS
      <3> QED BY <2>2, <3>1, <3>2
    <2>3. CASE logind = to /\ box'[logind][i] = m /\ Stays(from, logind, box'[logind][j])
      BY <1>3, <2>3
    <2>4. CASE logind = to /\ box'[logind][j] = m /\ Stays(from, logind, box'[logind][i])
      BY <1>3, <2>4
    <2>5. \/ logind = to /\ i = Len(box'[logind]) /\ box'[logind][i] = m
          \/ /\ Stays(from, logind, box'[logind][i])
             /\ \E k \in 1..Len(box[logind]) :
                  k = (IF logind = from THEN i + 1 ELSE i) /\ box'[logind][i] = box[logind][k]
      BY Came
    <2>6. \/ logind = to /\ j = Len(box'[logind]) /\ box'[logind][j] = m
          \/ /\ Stays(from, logind, box'[logind][j])
             /\ \E l \in 1..Len(box[logind]) :
                  l = (IF logind = from THEN j + 1 ELSE j) /\ box'[logind][j] = box[logind][l]
      BY Came
    <2> QED BY <2>1, <2>2, <2>3, <2>4, <2>5, <2>6
  <1>4. \A s \in Server : \A i \in 1..Len(box'[s]) : MailOK(s, box[s][i])'
    BY <1>1 DEF MailOK
  <1>5. \A i \in 1..Len(box'[logind]) : Success(box[logind][i])' /\ Leaving(box[logind][i])'
    BY <1>2 DEF Success, Leaving
  <1> QED BY <1>3, <1>4, <1>5 DEF Messages

\* Nothing is taken or sent.
LEMMA NoDelivery ==
  ASSUME BoxOK, UNCHANGED box, NEW m
  PROVE  Delivery(None, None, m)
  <1> USE Names
  <1>1. BoxOK'
    BY DEF BoxOK
  <1> QED BY <1>1 DEF Delivery, Stays

\* A message that is not the first one is still on its way to logind.
LEMMA Kept ==
  ASSUME BoxOK, NEW from, NEW to, NEW m, Delivery(from, to, m),
         NEW i \in 1..Len(box[logind]),
         logind = from => box[logind] # <<>> /\ Head(box[logind]) # box[logind][i]
  PROVE  \E j \in 1..Len(box'[logind]) : box'[logind][j] = box[logind][i]
  <1>1. logind = from => i # 1
    <2>1. box[logind] # <<>> => Head(box[logind]) = box[logind][1]
      BY OneTaken, Names DEF BoxOK
    <2> QED BY <2>1
  <1>2. Stays(from, logind, box[logind][i])
    BY <1>1 DEF Stays
  <1> QED BY <1>2, Names DEF Delivery

LEMMA UnheardKept ==
  ASSUME BoxOK, NEW from, NEW to, NEW m, Delivery(from, to, m), NEW c, Unheard(c),
         logind = from =>
           /\ box[logind] # <<>>
           /\ Head(box[logind]).type = "loggedin" /\ Head(box[logind]).ok =>
                Head(box[logind]).of # c
  PROVE  Unheard(c)'
  <1>1. PICK i \in 1..Len(box[logind]) :
          box[logind][i].type = "loggedin" /\ box[logind][i].ok /\ box[logind][i].of = c
    BY DEF Unheard
  <1>2. \E j \in 1..Len(box'[logind]) : box'[logind][j] = box[logind][i]
    BY <1>1, Kept
  <1> QED BY <1>1, <1>2 DEF Unheard

LEMMA UnknownKept ==
  ASSUME BoxOK, NEW from, NEW to, NEW m, Delivery(from, to, m), NEW u, Unknown(u),
         logind = from =>
           /\ box[logind] # <<>>
           /\ Head(box[logind]).type = "logout" => UserOf[Head(box[logind]).of] # u
  PROVE  Unknown(u)'
  <1>1. PICK i \in 1..Len(box[logind]) :
          box[logind][i].type = "logout" /\ UserOf[box[logind][i].of] = u
    BY DEF Unknown
  <1>2. \E j \in 1..Len(box'[logind]) : box'[logind][j] = box[logind][i]
    BY <1>1, Kept
  <1> QED BY <1>1, <1>2 DEF Unknown

-----------------------------------------------------------------------------
(* While a user logs in, no session but the one of this login is there.    *)

LEMMA LoginSession ==
  ASSUME TypeOK, Locked, Sessions, NEW c \in Attempt, accept[c] = "login",
         NEW g \in Gate, users[g][UserOf[c]] # None
  PROVE  users[g][UserOf[c]].agent = c /\ server[c] = g /\ Unheard(c)
  <1>1. UserOf[c] \in User /\ users[g][UserOf[c]].agent \in Attempt
    BY Names, Fields
  <1> QED BY <1>1 DEF Sessions, SessionOK, Locked

\* The session is the one of its agent.
LEMMA SessionAgent ==
  ASSUME TypeOK, Sessions, NEW g \in Gate, NEW u \in User, users[g][u] # None
  PROVE  /\ users[g][u].agent \in Attempt /\ UserOf[users[g][u].agent] = u
         /\ server[users[g][u].agent] = g /\ Holds(users[g][u].agent)
         /\ users[g][u].name = named[users[g][u].agent] /\ users[g][u].name \in Nat
         /\ accept[users[g][u].agent] \in {"200", "login"} /\ agent[users[g][u].agent] # "none"
  BY Fields DEF Sessions, SessionOK, Holds

-----------------------------------------------------------------------------
(* One lemma for each action.                                              *)

LEMMA ConnectStep ==
  ASSUME IInv, TypeOK', NEW c \in Attempt, NEW g \in Gate, Connect(c, g)
  PROVE  IInv'
  <1> USE Names
  <1>0. /\ TypeOK /\ BoxOK /\ Locked /\ OnePlace /\ Messages /\ Sessions /\ Numbers
        /\ accept[c] = "new"
        /\ OneByOne => \A d \in Attempt : UnderWay(d) /\ server[d] = g => UserOf[d] = UserOf[c]
        /\ accept' = [accept EXCEPT ![c] = "auth"] /\ server' = [server EXCEPT ![c] = g]
        /\ UNCHANGED <<box, given, user_login, user_online, users, internal_id, login, named, kick,
                       agent, subid, logout>>
    BY DEF Connect, IInv, gateVars, agentVars
  <1>1. /\ accept'[c] = "auth" /\ server'[c] = g
        /\ \A d \in Attempt : d # c => accept'[d] = accept[d] /\ server'[d] = server[d]
    BY <1>0 DEF TypeOK
  <1>2. Delivery(None, None, c)
    BY <1>0, NoDelivery
  <1>3. Locked'
    BY <1>0, <1>1 DEF Locked, UnderWay
  <1>4. ASSUME NEW t \in Server, NEW x, Stays(None, t, x)
        PROVE  /\ x.type \in Asks => login'[x.of] = "none" /\ kick'[x.of] = None
               /\ MailOK(t, x)' /\ (t = logind => Success(x)' /\ Leaving(x)')
    <2>1. /\ x \in Mails /\ x.of \in Attempt /\ MailOK(t, x)
          /\ t = logind => Success(x) /\ Leaving(x)
          /\ x.type \in Asks => login[x.of] = "none" /\ kick[x.of] = None
      BY <1>0, <1>4, StaysFacts
    <2>2. x.of # c
      BY <1>0, <2>1, MailFields DEF MailOK, Asks
    <2> QED BY <1>0, <1>1, <2>1, <2>2 DEF MailOK, Success, Leaving
  <1>5. OnePlace'
    <2>1. login[c] = "none" /\ kick[c] = None
      BY <1>0 DEF OnePlace
    <2>2. \A d \in Attempt : /\ login'[d] # "none" => accept'[d] = "login" /\ kick'[d] = None
                             /\ kick'[d] # None => accept'[d] = "kick"
      BY <1>0, <1>1, <2>1 DEF OnePlace
    <2> QED BY <1>0, <1>2, <1>4, <2>2 DEF OnePlace
  <1>6. Messages'
    BY <1>0, <1>2, <1>4, MessagesDelivery
  <1>7. \A h \in Gate, u \in User : users[h][u] # None => users[h][u].agent # c
    BY <1>0, SessionAgent
  <1>8. Sessions'
    <2>1. ASSUME NEW h \in Gate, NEW u \in User
          PROVE  SessionOK(h, u)'
      BY <1>0, <1>1, <1>7, SessionAgent DEF Sessions, SessionOK, Unheard
    <2>2. ASSUME NEW u \in User
          PROVE  OnlineOK(u)'
      BY <1>0 DEF Sessions, OnlineOK, Unknown
    <2> QED BY <1>0, <1>1, <2>1, <2>2 DEF Sessions
  <1>9. Numbers'
    <2>1. agent[c] = "none" /\ login[c] = "none"
      BY <1>0 DEF Numbers, OnePlace
    <2>2. ASSUME NEW d \in Attempt, Holds(d)'
          PROVE  Holds(d) /\ d # c
      BY <1>0, <1>1, <1>7, <2>1, <2>2 DEF Holds
    <2>3. \A a, d \in Attempt : Holds(d)' /\ Rival(a, d)' => Older(a, d)'
      BY <1>0, <1>1, <2>1, <2>2 DEF Numbers, Rival, Older
    <2>4. \A d \in Attempt : /\ agent[d] # "none" => d # c
                             /\ accept'[d] = "200" => d # c
                             /\ login[d] # "none" => d # c
                             /\ \A k \in Attempt \cup {beat} : logout[d][k] # "none" => d # c
      BY <1>0, <1>1, <2>1 DEF Numbers
    <2> QED BY <1>0, <1>1, <2>3, <2>4 DEF Numbers
  <1> QED BY <1>2, <1>3, <1>5, <1>6, <1>8, <1>9 DEF IInv, Delivery

LEMMA RefuseStep ==
  ASSUME IInv, TypeOK', NEW c \in Attempt, Refuse(c)
  PROVE  IInv'
  <1> USE Names
  <1>0. /\ TypeOK /\ BoxOK /\ Locked /\ OnePlace /\ Messages /\ Sessions /\ Numbers
        /\ accept[c] = "auth"
        /\ accept' = [accept EXCEPT ![c] = "401"] \/ accept' = [accept EXCEPT ![c] = "406"]
        /\ UNCHANGED <<box, server, given, user_login, user_online, users, internal_id, login, named,
                       kick, agent, subid, logout>>
    BY DEF Refuse, IInv, gateVars, agentVars
  <1>1. /\ accept'[c] \in {"401", "406"}
        /\ \A d \in Attempt : d # c => accept'[d] = accept[d]
    BY <1>0 DEF TypeOK
  <1>2. Delivery(None, None, c)
    BY <1>0, NoDelivery
  <1>3. Locked'
    BY <1>0, <1>1 DEF Locked, UnderWay
  <1>4. ASSUME NEW t \in Server, NEW x, Stays(None, t, x)
        PROVE  MailOK(t, x)' /\ (t = logind => Success(x)' /\ Leaving(x)')
    <2>1. /\ x \in Mails /\ x.of \in Attempt /\ MailOK(t, x)
          /\ t = logind => Success(x) /\ Leaving(x)
      BY <1>0, <1>4, StaysFacts
    <2>2. x.of # c
      BY <1>0, <2>1, MailFields DEF MailOK, Asks
    <2> QED BY <1>0, <1>1, <2>1, <2>2 DEF MailOK, Success, Leaving
  <1>5. OnePlace'
    <2>1. login[c] = "none" /\ kick[c] = None
      BY <1>0 DEF OnePlace
    <2>2. \A d \in Attempt : /\ login'[d] # "none" => accept'[d] = "login" /\ kick'[d] = None
                             /\ kick'[d] # None => accept'[d] = "kick"
      BY <1>0, <1>1, <2>1 DEF OnePlace
    <2> QED BY <1>0, <2>2 DEF OnePlace
  <1>6. Messages'
    BY <1>0, <1>2, <1>4, MessagesDelivery
  <1>7. \A h \in Gate, u \in User : users[h][u] # None => users[h][u].agent # c
    BY <1>0, SessionAgent
  <1>8. Sessions'
    <2>1. ASSUME NEW h \in Gate, NEW u \in User
          PROVE  SessionOK(h, u)'
      BY <1>0, <1>1, <1>7, SessionAgent DEF Sessions, SessionOK, Unheard
    <2>2. ASSUME NEW u \in User
          PROVE  OnlineOK(u)'
      BY <1>0 DEF Sessions, OnlineOK, Unknown
    <2> QED BY <1>0, <1>1, <2>1, <2>2 DEF Sessions
  <1>9. Numbers'
    <2>1. agent[c] = "none" /\ login[c] = "none"
      BY <1>0 DEF Numbers, OnePlace
    <2>2. \A a, d \in Attempt : Holds(d)' /\ Rival(a, d)' => Older(a, d)'
      BY <1>0, <1>1, <2>1 DEF Numbers, Rival, Older, Holds
    <2>3. \A d \in Attempt : /\ agent[d] # "none" => d # c
                             /\ \A k \in Attempt \cup {beat} : logout[d][k] # "none" => d # c
      BY <1>0, <1>1, <2>1 DEF Numbers
    <2> QED BY <1>0, <1>1, <2>2, <2>3 DEF Numbers
  <1> QED BY <1>2, <1>3, <1>5, <1>6, <1>8, <1>9 DEF IInv, Delivery

LEMMA AuthenticatedStep ==
  ASSUME IInv, TypeOK', NEW c \in Attempt, Authenticated(c)
  PROVE  IInv'
  <1> USE Names
  <1>0. /\ TypeOK /\ BoxOK /\ Locked /\ OnePlace /\ Messages /\ Sessions /\ Numbers
        /\ accept[c] = "auth" /\ UserOf[c] \notin user_login
        /\ user_login' = user_login \cup {UserOf[c]}
        /\ UNCHANGED <<server, given, user_online, users, internal_id, login, named,
                       kick, agent, subid, logout>>
    BY DEF Authenticated, LockUser, IInv, gateVars, agentVars
  <1>1. server[c] \in Gate
    BY <1>0 DEF Locked
  <1>2. PICK to \in Gate, m \in Mails :
          /\ accept' = [accept EXCEPT ![c] = m.type] /\ Sent(to, m) /\ m.of = c
          /\ \/ m.type = "login" /\ to = server[c] /\ user_online[UserOf[c]] = None
             \/ m.type = "kick"
    <2>1. CASE user_online[UserOf[c]] = None
      <3>1. /\ accept' = [accept EXCEPT ![c] = "login"]
            /\ Sent(server[c], Message("login", c, 0, TRUE))
        BY <2>1 DEF Authenticated
      <3>2. /\ Message("login", c, 0, TRUE) \in Mails /\ Message("login", c, 0, TRUE).of = c
            /\ Message("login", c, 0, TRUE).type = "login"
        BY DEF Message, Mails, Asks
      <3> QED BY <1>1, <2>1, <3>1, <3>2
    <2>2. CASE user_online[UserOf[c]] # None
      <3> DEFINE o == user_online[UserOf[c]]
      <3>1. /\ accept' = [accept EXCEPT ![c] = "kick"]
            /\ Sent(o.address, Message("kick", c, o.subid, TRUE))
        BY <2>2 DEF Authenticated
      <3>2. o.address \in Gate /\ o.subid \in Nat
        BY <1>0, <2>2, Fields
      <3> HIDE DEF o
      <3>3. /\ Message("kick", c, o.subid, TRUE) \in Mails /\ Message("kick", c, o.subid, TRUE).of = c
            /\ Message("kick", c, o.subid, TRUE).type = "kick"
        BY <3>2 DEF Message, Mails, Asks
      <3> QED BY <3>1, <3>2, <3>3
    <2> QED BY <2>1, <2>2
  <1>3. /\ accept'[c] = m.type /\ m.type \in {"kick", "login"}
        /\ \A d \in Attempt : d # c => accept'[d] = accept[d]
    BY <1>0, <1>2 DEF TypeOK
  <1>4. Delivery(None, to, m)
    BY <1>0, <1>2, SentDelivery
  <1>5. Locked'
    <2>1. \A d \in Attempt : accept[d] \in {"kick", "login"} => UserOf[d] # UserOf[c] /\ d # c
      BY <1>0 DEF Locked
    <2>2. \A d \in Attempt : UnderWay(d)' => UnderWay(d)
      BY <1>0, <1>3 DEF UnderWay
    <2> QED BY <1>0, <1>3, <2>1, <2>2 DEF Locked
  <1>6. ASSUME NEW t \in Server, NEW x, Stays(None, t, x)
        PROVE  /\ x.of # c
               /\ x.type \in Asks => login'[x.of] = "none" /\ kick'[x.of] = None
               /\ MailOK(t, x)' /\ (t = logind => Success(x)' /\ Leaving(x)')
    <2>1. /\ x \in Mails /\ x.of \in Attempt /\ MailOK(t, x)
          /\ t = logind => Success(x) /\ Leaving(x)
          /\ x.type \in Asks => login[x.of] = "none" /\ kick[x.of] = None
      BY <1>0, <1>6, StaysFacts
    <2>2. x.of # c
      BY <1>0, <2>1, MailFields DEF MailOK, Asks
    <2> QED BY <1>0, <1>3, <2>1, <2>2 DEF MailOK, Success, Leaving
  <1>7. agent[c] = "none" /\ login[c] = "none" /\ kick[c] = None
    BY <1>0 DEF Numbers, OnePlace
  <1>8. OnePlace'
    <2>1. \A d \in Attempt : /\ login'[d] # "none" => accept'[d] = "login" /\ kick'[d] = None
                             /\ kick'[d] # None => accept'[d] = "kick"
      BY <1>0, <1>3, <1>7 DEF OnePlace
    <2> QED BY <1>0, <1>2, <1>4, <1>6, <1>7, <2>1, OnePlaceDelivery
  <1>9. Messages'
    <2>1. MailOK(to, m)'
      BY <1>0, <1>2, <1>3, <1>7 DEF MailOK
    <2> QED BY <1>0, <1>2, <1>4, <1>6, <2>1, MessagesDelivery
  <1>10. \A h \in Gate, u \in User : users[h][u] # None => users[h][u].agent # c
    BY <1>0, SessionAgent
  <1>11. Sessions'
    <2>1. ASSUME NEW h \in Gate, NEW u \in User
          PROVE  SessionOK(h, u)'
      <3>1. \A b : Unheard(b) => Unheard(b)'
        BY <1>0, <1>4, UnheardKept
      <3> QED BY <1>0, <1>3, <1>10, <3>1, SessionAgent DEF Sessions, SessionOK
    <2>2. ASSUME NEW u \in User
          PROVE  OnlineOK(u)'
      <3>1. Unknown(u) => Unknown(u)'
        BY <1>0, <1>4, UnknownKept
      <3> QED BY <1>0, <3>1 DEF Sessions, OnlineOK
    <2> QED BY <1>0, <1>2, <1>3, <2>1, <2>2 DEF Sessions
  <1>12. Numbers'
    <2>1. \A a, d \in Attempt : Holds(d)' /\ Rival(a, d)' => Older(a, d)'
      BY <1>0, <1>3, <1>7 DEF Numbers, Rival, Older, Holds
    <2>2. \A d \in Attempt : /\ agent[d] # "none" => d # c
                             /\ \A k \in Attempt \cup {beat} : logout[d][k] # "none" => d # c
      BY <1>0, <1>7 DEF Numbers
    <2> QED BY <1>0, <1>3, <1>7, <2>1, <2>2 DEF Numbers
  <1> QED BY <1>4, <1>5, <1>8, <1>9, <1>11, <1>12 DEF IInv, Delivery

\* The login that the first message asks about is at no other place.
LEMMA AskTaken ==
  ASSUME BoxOK, OnePlace, Messages, NEW s \in Server, NEW type \in Asks, Arrived(s, type),
         NEW h, h = Head(box[s])
  PROVE  /\ h \in Mails /\ h.of \in Attempt /\ h.type = type /\ box[s] # <<>>
         /\ MailOK(s, h) /\ (s = logind => Success(h))
         /\ login[h.of] = "none" /\ kick[h.of] = None
         /\ \A t \in Server : \A x : Stays(s, t, x) /\ x.type \in Asks => x.of # h.of
  <1>1. /\ box[s] # <<>> /\ Len(box[s]) \in Nat /\ 1 \in 1..Len(box[s])
        /\ h = box[s][1] /\ h \in Mails /\ h.type = type /\ h.of \in Attempt /\ MailOK(s, h)
    BY Arrival
  <1>2. s = logind => Success(h)
    BY <1>1 DEF Messages
  <1>3. login[h.of] = "none" /\ kick[h.of] = None
    BY <1>1 DEF OnePlace
  <1>4. \A t \in Server : \A x : Stays(s, t, x) /\ x.type \in Asks => x.of # h.of
    BY <1>1, StaysAlone
  <1> QED BY <1>1, <1>2, <1>3, <1>4

LEMMA KickedStep ==
  ASSUME IInv, TypeOK', Kicked
  PROVE  IInv'
  <1> USE Names
  <1>0. /\ TypeOK /\ BoxOK /\ Locked /\ OnePlace /\ Messages /\ Sessions /\ Numbers
        /\ Arrived(logind, "kicked")
        /\ UNCHANGED <<server, given, user_online, users, internal_id, login, named,
                       kick, agent, subid, logout>>
    BY DEF Kicked, IInv, gateVars, agentVars
  <1>1. PICK h, c : h = Head(box[logind]) /\ c = h.of
    OBVIOUS
  <1>2. "kicked" \in Asks /\ BoxOK /\ OnePlace /\ Messages /\ Arrived(logind, "kicked")
    BY <1>0 DEF Asks
  <1>3. /\ h \in Mails /\ c \in Attempt /\ h.type = "kicked" /\ box[logind] # <<>>
        /\ MailOK(logind, h) /\ login[c] = "none" /\ kick[c] = None
        /\ \A t \in Server : \A x : Stays(logind, t, x) /\ x.type \in Asks => x.of # c
    BY <1>1, <1>2, AskTaken
  <1>4. accept[c] = "kick" /\ server[c] \in Gate /\ agent[c] = "none"
    BY <1>0, <1>1, <1>3 DEF MailOK, Locked, Numbers
  <1>5. PICK to \in Gate \cup {None}, m \in Mails :
          /\ Delivery(logind, to, m) /\ m.of = c /\ m.type \in Asks
          /\ \/ /\ to = None /\ accept' = [accept EXCEPT ![c] = "403"]
                /\ user_login' = user_login \ {UserOf[c]}
             \/ /\ to = server[c] /\ m.type = "login" /\ accept' = [accept EXCEPT ![c] = "login"]
                /\ user_login' = user_login /\ user_online[UserOf[c]] = None
    <2>1. CASE h.ok /\ user_online[UserOf[c]] = None
      <3>1. /\ TakenAndSent(logind, server[c], Message("login", c, 0, TRUE))
            /\ accept' = [accept EXCEPT ![c] = "login"] /\ user_login' = user_login
        BY <1>1, <1>3, <2>1 DEF Kicked
      <3>2. /\ Message("login", c, 0, TRUE) \in Mails /\ Message("login", c, 0, TRUE).of = c
            /\ Message("login", c, 0, TRUE).type = "login" /\ "login" \in Asks
        BY <1>3 DEF Message, Mails, Asks
      <3>3. Delivery(logind, server[c], Message("login", c, 0, TRUE))
        BY <1>0, <1>1, <1>3, <1>4, <3>1, <3>2, TakenAndSentDelivery
      <3> QED BY <1>4, <2>1, <3>1, <3>2, <3>3
    <2>2. CASE ~(h.ok /\ user_online[UserOf[c]] = None)
      <3>1. /\ Taken(logind) /\ accept' = [accept EXCEPT ![c] = "403"]
            /\ user_login' = user_login \ {UserOf[c]}
        BY <1>1, <1>3, <2>2 DEF Kicked, Answer
      <3>2. Delivery(logind, None, h)
        BY <1>0, <1>1, <1>3, <3>1, TakenDelivery
      <3> QED BY <1>1, <1>3, <3>1, <3>2 DEF Asks
    <2> QED BY <2>1, <2>2
  <1>6. /\ accept'[c] \in {"403", "login"} /\ (accept'[c] = "login" => user_login' = user_login)
        /\ accept'[c] = "login" => user_online[UserOf[c]] = None
        /\ user_login' = user_login \/ user_login' = user_login \ {UserOf[c]}
        /\ \A d \in Attempt : d # c => accept'[d] = accept[d]
    BY <1>0, <1>3, <1>5 DEF TypeOK
  <1>7. Locked'
    <2>1. \A d \in Attempt : d # c /\ accept[d] \in {"kick", "login"} => UserOf[d] # UserOf[c]
      BY <1>0, <1>3, <1>4 DEF Locked
    <2>2. \A d \in Attempt : UnderWay(d)' => UnderWay(d)
      BY <1>4, <1>6 DEF UnderWay
    <2> QED BY <1>0, <1>3, <1>4, <1>6, <2>1, <2>2 DEF Locked
  <1>8. ASSUME NEW t \in Server, NEW x, Stays(logind, t, x)
        PROVE  /\ x.type \in Asks => login'[x.of] = "none" /\ kick'[x.of] = None
               /\ MailOK(t, x)' /\ (t = logind => Success(x)' /\ Leaving(x)')
    <2>1. /\ x \in Mails /\ x.of \in Attempt /\ MailOK(t, x)
          /\ t = logind => Success(x) /\ Leaving(x)
          /\ x.type \in Asks => login[x.of] = "none" /\ kick[x.of] = None
      BY <1>0, <1>8, StaysFacts
    <2>2. x.of # c
      BY <1>1, <1>3, <1>4, <1>8, <2>1, MailFields DEF MailOK
    <2> QED BY <1>0, <1>6, <2>1, <2>2 DEF MailOK, Success, Leaving
  <1>9. OnePlace'
    <2>1. \A d \in Attempt : /\ login'[d] # "none" => accept'[d] = "login" /\ kick'[d] = None
                             /\ kick'[d] # None => accept'[d] = "kick"
      BY <1>0, <1>1, <1>3, <1>6 DEF OnePlace
    <2>3. /\ Delivery(logind, to, m)
          /\ \A t \in Server : \A x : Stays(logind, t, x) /\ x.type \in Asks => x.of # m.of
          /\ login'[m.of] = "none" /\ kick'[m.of] = None
      BY <1>0, <1>1, <1>3, <1>5
    <2>4. BoxOK /\ OnePlace
      BY <1>0
    <2> QED BY <1>8, <2>1, <2>3, <2>4, OnePlaceDelivery
  <1>10. Messages'
    <2>1. to \in Server => MailOK(to, m)'
      <3>1. to \in Server => to = server'[c] /\ m.type = "login" /\ m.of = c
        BY <1>0, <1>5
      <3>2. to \in Server => accept'[c] = "login" /\ agent'[c] = "none"
        BY <1>0, <1>3, <1>4, <1>5 DEF TypeOK
      <3> QED BY <3>1, <3>2 DEF MailOK
    <2>2. logind # to /\ Delivery(logind, to, m) /\ BoxOK /\ Messages
      BY <1>0, <1>5
    <2> QED BY <1>8, <2>1, <2>2, MessagesDelivery
  <1>11. \A g \in Gate, u \in User : users[g][u] # None => users[g][u].agent # c
    BY <1>0, <1>4, SessionAgent
  <1>12. Sessions'
    <2>1. ASSUME NEW g \in Gate, NEW u \in User
          PROVE  SessionOK(g, u)'
      <3>1. \A b : Unheard(b) => Unheard(b)'
        BY <1>0, <1>1, <1>3, <1>5, UnheardKept
      <3> QED BY <1>0, <1>6, <1>11, <3>1, SessionAgent DEF Sessions, SessionOK
    <2>2. ASSUME NEW u \in User
          PROVE  OnlineOK(u)'
      <3>1. Unknown(u) => Unknown(u)'
        BY <1>0, <1>1, <1>3, <1>5, UnknownKept
      <3> QED BY <1>0, <3>1 DEF Sessions, OnlineOK
    <2> QED BY <1>0, <1>6, <2>1, <2>2 DEF Sessions
  <1>13. Numbers'
    <2>1. \A a, d \in Attempt : Holds(d)' /\ Rival(a, d)' => Older(a, d)'
      BY <1>0, <1>4, <1>6 DEF Numbers, Rival, Older, Holds
    <2>2. \A d \in Attempt : /\ agent[d] # "none" => d # c
                             /\ \A k \in Attempt \cup {beat} : logout[d][k] # "none" => d # c
      BY <1>0, <1>4 DEF Numbers
    <2> QED BY <1>0, <1>1, <1>3, <1>6, <2>1, <2>2 DEF Numbers
  <1> QED BY <1>5, <1>7, <1>9, <1>10, <1>12, <1>13 DEF IInv, Delivery

LEMMA LoggedInStep ==
  ASSUME IInv, TypeOK', LoggedIn
  PROVE  IInv'
  <1> USE Names
  <1>0. /\ TypeOK /\ BoxOK /\ Locked /\ OnePlace /\ Messages /\ Sessions /\ Numbers
        /\ Arrived(logind, "loggedin") /\ Taken(logind)
        /\ UNCHANGED <<server, users, internal_id, login, named, kick, agent, subid, logout>>
    BY DEF LoggedIn, IInv, gateVars, agentVars
  <1>1. PICK h, c : h = Head(box[logind]) /\ c = h.of
    OBVIOUS
  <1>2. "loggedin" \in Asks /\ BoxOK /\ OnePlace /\ Messages /\ Arrived(logind, "loggedin")
    BY <1>0 DEF Asks
  <1>3. /\ h \in Mails /\ c \in Attempt /\ h.type = "loggedin" /\ box[logind] # <<>>
        /\ MailOK(logind, h) /\ Success(h) /\ login[c] = "none" /\ kick[c] = None
        /\ \A t \in Server : \A x : Stays(logind, t, x) /\ x.type \in Asks => x.of # c
    BY <1>1, <1>2, AskTaken
  <1>4. accept[c] = "login" /\ server[c] \in Gate /\ UserOf[c] \in User /\ h.subid \in Nat
    BY <1>0, <1>1, <1>3, MailFields DEF MailOK, Locked
  <1>5. Delivery(logind, None, h)
    BY <1>0, <1>3, TakenDelivery
  <1>6. /\ accept' = [accept EXCEPT ![c] = IF h.ok THEN "200" ELSE "403"]
        /\ user_login' = user_login \ {UserOf[c]}
        /\ h.ok => /\ user_online' = [user_online EXCEPT
                           ![UserOf[c]] = [address |-> server[c], subid |-> h.subid]]
                   /\ given' = [given EXCEPT ![c] = h.subid]
        /\ ~h.ok => user_online' = user_online /\ given' = given
    BY <1>1 DEF LoggedIn, Answer
  <1>7. /\ accept'[c] = IF h.ok THEN "200" ELSE "403"
        /\ \A d \in Attempt : d # c => accept'[d] = accept[d] /\ given'[d] = given[d]
        /\ h.ok => /\ user_online'[UserOf[c]] = [address |-> server[c], subid |-> h.subid]
                   /\ given'[c] = h.subid
        /\ ~h.ok => user_online'[UserOf[c]] = None
        /\ \A u \in User : u # UserOf[c] => user_online'[u] = user_online[u]
    BY <1>0, <1>3, <1>4, <1>6 DEF TypeOK, Sessions
  <1>8. \A d \in Attempt : d # c /\ accept[d] \in {"kick", "login"} => UserOf[d] # UserOf[c]
    BY <1>0, <1>3, <1>4 DEF Locked
  <1>9. Locked'
    <2>1. \A d \in Attempt : UnderWay(d)' => UnderWay(d)
      BY <1>4, <1>7 DEF UnderWay
    <2> QED BY <1>0, <1>3, <1>4, <1>6, <1>7, <1>8, <2>1 DEF Locked
  <1>10. ASSUME NEW t \in Server, NEW x, Stays(logind, t, x)
         PROVE  /\ x.type \in Asks => login'[x.of] = "none" /\ kick'[x.of] = None
                /\ MailOK(t, x)' /\ (t = logind => Success(x)' /\ Leaving(x)')
    <2>1. /\ x \in Mails /\ x.of \in Attempt /\ MailOK(t, x)
          /\ t = logind => Success(x) /\ Leaving(x)
          /\ x.type \in Asks => login[x.of] = "none" /\ kick[x.of] = None
      BY <1>0, <1>10, StaysFacts
    <2>2. x.of # c
      BY <1>3, <1>4, <1>10, <2>1, MailFields DEF MailOK
    <2>3. t = logind /\ x.type = "logout" => UserOf[x.of] # UserOf[c]
      BY <1>0, <1>3, <1>4, <2>1 DEF Leaving, Sessions
    <2>4. UserOf[x.of] \in User
      BY <2>1
    <2>5. MailOK(t, x)'
      BY <1>0, <1>7, <2>1, <2>2 DEF MailOK
    <2> QED BY <1>0, <1>7, <2>1, <2>2, <2>3, <2>4, <2>5 DEF Success, Leaving
  <1>11. OnePlace'
    <2>1. \A d \in Attempt : /\ login'[d] # "none" => accept'[d] = "login" /\ kick'[d] = None
                             /\ kick'[d] # None => accept'[d] = "kick"
      BY <1>0, <1>3, <1>7 DEF OnePlace
    <2>2. \A t \in Server : \A x : Stays(logind, t, x) /\ x.type \in Asks => x.of # h.of
      BY <1>1, <1>3
    <2> QED BY <1>0, <1>5, <1>10, <2>1, <2>2, OnePlaceDelivery
  <1>12. Messages'
    BY <1>0, <1>5, <1>10, MessagesDelivery
  <1>13. Sessions'
    <2>1. ASSUME NEW g \in Gate, NEW u \in User, users[g][u] # None
          PROVE  SessionOK(g, u)'
      <3>1. users'[g][u] # None /\ users'[g][u] = users[g][u] /\ users[g][u].agent \in Attempt
        BY <1>0, <2>1, Fields
      <3>2. CASE u = UserOf[c]
        <4>1. users[g][u].agent = c /\ server[c] = g /\ Unheard(c)
          BY <1>0, <1>3, <1>4, <2>1, <3>2, LoginSession
        <4>2. users[g][u].name = named[c] /\ agent[c] # "none"
          BY <1>0, <2>1, <4>1, SessionAgent
        <4>3. h.ok
          <5>1. PICK i \in 1..Len(box[logind]) :
                  box[logind][i].type = "loggedin" /\ box[logind][i].ok /\ box[logind][i].of = c
            BY <4>1 DEF Unheard
          <5>2. 1 \in 1..Len(box[logind]) /\ box[logind][1] = h
            BY <1>0, <1>1, Arrival
          <5>3. i = 1
            BY <1>0, <1>1, <1>2, <1>3, <5>1, <5>2 DEF OnePlace
          <5> QED BY <5>1, <5>2, <5>3
        <4>4. OneByOne => h.subid = named[c]
          BY <1>1, <1>3, <4>3 DEF Success
        <4> QED BY <1>0, <1>3, <1>4, <1>7, <3>1, <3>2, <4>1, <4>2, <4>3, <4>4 DEF SessionOK
      <3>3. CASE u # UserOf[c]
        <4>1. users[g][u].agent # c
          BY <1>0, <2>1, <3>3, SessionAgent
        <4>2. Unheard(users[g][u].agent) => Unheard(users[g][u].agent)'
          <5>1. PICK b : b = users[g][u].agent
            OBVIOUS
          <5>2. Unheard(b) => Unheard(b)'
            BY <1>0, <1>1, <1>3, <1>5, <4>1, <5>1, UnheardKept
          <5> QED BY <1>0, <5>1, <5>2 DEF Unheard
        <4>3. SessionOK(g, u)
          BY <1>0 DEF Sessions
        <4> QED BY <1>0, <1>7, <2>1, <3>1, <3>3, <4>1, <4>2, <4>3 DEF SessionOK
      <3> QED BY <3>2, <3>3
    <2>2. ASSUME NEW u \in User
          PROVE  OnlineOK(u)'
      <3>1. Unknown(u) => Unknown(u)'
        BY <1>0, <1>3, <1>1, <1>5, UnknownKept
      <3>2. CASE u = UserOf[c]
        <4>1. h.ok => /\ users'[server[c]][u] = [agent |-> c, name |-> named[c]]
                      /\ users'[server[c]][u] # None
                      /\ OneByOne => h.subid = named[c]
          <5>0. named[c] \in Nat
            BY <1>0, <1>3 DEF TypeOK
          <5>1. h.ok => /\ users'[server[c]][u] = [agent |-> c, name |-> named[c]]
                        /\ OneByOne => h.subid = named[c]
            BY <1>0, <1>1, <1>3, <3>2 DEF Success
          <5> QED BY <1>3, <5>0, <5>1
        <4> QED BY <1>3, <1>4, <1>7, <3>2, <4>1 DEF OnlineOK
      <3>3. CASE u # UserOf[c]
        BY <1>0, <1>7, <3>1, <3>3 DEF Sessions, OnlineOK
      <3> QED BY <3>2, <3>3
    <2>3. \A g \in Gate, u \in User : SessionOK(g, u)'
      BY <1>0, <2>1 DEF SessionOK
    <2>4. \A d \in Attempt : accept'[d] = "login" => user_online'[UserOf[d]] = None
      BY <1>0, <1>7, <1>8 DEF Sessions
    <2> QED BY <2>2, <2>3, <2>4 DEF Sessions
  <1>14. Numbers'
    <2>1. \A a, d \in Attempt : Holds(d)' /\ Rival(a, d)' => Older(a, d)'
      <3>1. ASSUME NEW d \in Attempt, Holds(d), Rival(c, d)
            PROVE  FALSE
        <4>1. login[d] = "none"
          BY <1>0, <1>8, <3>1 DEF OnePlace, Rival
        <4>2. users[server[c]][UserOf[c]] # None /\ users[server[c]][UserOf[c]].agent = d
          BY <3>1, <4>1 DEF Holds, Rival
        <4> QED BY <1>0, <1>3, <1>4, <3>1, <4>2, LoginSession DEF Rival
      <3>2. ASSUME NEW a \in Attempt, NEW d \in Attempt, Holds(d), Rival(a, d)
            PROVE  Older(a, d)'
        <4>1. a # c
          BY <3>1, <3>2
        <4>2. Older(a, d)
          BY <1>0, <3>2 DEF Numbers
        <4> QED BY <1>0, <1>7, <4>1, <4>2 DEF Older
      <3> QED BY <1>0, <3>2 DEF Rival, Holds
    <2>2. h.ok => h.subid <= internal_id[server[c]]
      BY <1>1, <1>3 DEF Success
    <2>3. agent[c] # "beats" /\ \A k \in Attempt \cup {beat} : logout[c][k] = "none"
      BY <1>0, <1>3, <1>4 DEF Numbers
    <2>4. ASSUME NEW d \in Attempt
          PROVE  /\ agent'[d] # "none" => /\ accept'[d] \in {"login", "200", "403"}
                                          /\ subid'[d] <= internal_id'[server'[d]]
                 /\ login'[d] = "agent" => agent'[d] # "none"
                 /\ accept'[d] = "200" => given'[d] <= internal_id'[server'[d]]
                 /\ agent'[d] = "beats" => accept'[d] = "200"
                 /\ \A k \in Attempt \cup {beat} :
                      logout'[d][k] # "none" => accept'[d] = "200" /\ agent'[d] # "none"
                 /\ OneByOne => /\ agent'[d] # "none" => subid'[d] = named'[d]
                                /\ login'[d] # "none" => named'[d] = internal_id'[server'[d]]
      <3>1. CASE d = c
        BY <1>0, <1>3, <1>7, <2>2, <2>3, <3>1 DEF Numbers
      <3>2. CASE d # c
        BY <1>0, <1>7, <3>2 DEF Numbers
      <3> QED BY <3>1, <3>2
    <2> QED BY <2>1, <2>4 DEF Numbers
  <1> QED BY <1>5, <1>9, <1>11, <1>12, <1>13, <1>14 DEF IInv, Delivery

LEMMA UserLogoutStep ==
  ASSUME IInv, TypeOK', UserLogout
  PROVE  IInv'
  <1> USE Names
  <1>0. /\ TypeOK /\ BoxOK /\ Locked /\ OnePlace /\ Messages /\ Sessions /\ Numbers
        /\ Arrived(logind, "logout")
        /\ UNCHANGED <<accept, server, given, user_login, users, internal_id, login, named, kick,
                       agent, subid, logout>>
    BY DEF UserLogout, IInv, gateVars, agentVars
  <1>1. PICK h, a : h = Head(box[logind]) /\ a = h.of
    OBVIOUS
  <1>2. /\ h \in Mails /\ a \in Attempt /\ h.type = "logout" /\ box[logind] # <<>>
        /\ MailOK(logind, h) /\ Leaving(h) /\ UserOf[a] \in User
        /\ h.by \in Attempt \cup {beat} /\ h.subid \in Nat
    <2>1. /\ box[logind] # <<>> /\ 1 \in 1..Len(box[logind]) /\ h = box[logind][1]
          /\ h \in Mails /\ h.type = "logout" /\ a \in Attempt /\ MailOK(logind, h)
      BY <1>0, <1>1, Arrival
    <2>2. Leaving(h)
      BY <1>0, <2>1 DEF Messages
    <2> QED BY <2>1, <2>2, MailFields
  <1>3. /\ accept[a] = "200" /\ agent[a] # "none" /\ server[a] \in Gate
        /\ \A g \in Gate : users[g][UserOf[a]] = None
    BY <1>0, <1>1, <1>2 DEF MailOK, Leaving, Locked
  <1>4. PICK m \in Mails :
          /\ TakenAndSent(logind, server[a], m) /\ m.type = "forgotten" /\ m.of = a
    <2>1. TakenAndSent(logind, server[a], LogoutMessage("forgotten", a, h.by, h.subid))
      BY <1>1 DEF UserLogout
    <2> QED BY <1>2, <2>1, LogoutMail
  <1>5. Delivery(logind, server[a], m)
    BY <1>0, <1>2, <1>3, <1>4, TakenAndSentDelivery
  <1>6. /\ user_online'[UserOf[a]] = None
        /\ \A u \in User : u # UserOf[a] => user_online'[u] = user_online[u]
    BY <1>0, <1>1, <1>2 DEF UserLogout, TypeOK
  <1>7. Locked'
    BY <1>0 DEF Locked, UnderWay
  <1>8. ASSUME NEW t \in Server, NEW x, Stays(logind, t, x)
        PROVE  /\ x.type \in Asks => login'[x.of] = "none" /\ kick'[x.of] = None
               /\ MailOK(t, x)' /\ (t = logind => Success(x)' /\ Leaving(x)')
    <2>1. /\ x \in Mails /\ x.of \in Attempt /\ MailOK(t, x) /\ UserOf[x.of] \in User
          /\ t = logind => Success(x) /\ Leaving(x)
          /\ x.type \in Asks => login[x.of] = "none" /\ kick[x.of] = None
      BY <1>0, <1>8, StaysFacts
    <2>2. t = logind /\ x.type = "logout" => UserOf[x.of] # UserOf[a]
      BY <1>0, <1>1, <1>2, <1>8, StaysAlone
    <2>3. MailOK(t, x)'
      BY <1>0, <2>1 DEF MailOK
    <2> QED BY <1>0, <1>6, <2>1, <2>2, <2>3 DEF Success, Leaving
  <1>9. OnePlace'
    <2>1. \A d \in Attempt : /\ login'[d] # "none" => accept'[d] = "login" /\ kick'[d] = None
                             /\ kick'[d] # None => accept'[d] = "kick"
      BY <1>0 DEF OnePlace
    <2>2. m.type \notin Asks
      BY <1>4 DEF Asks
    <2> QED BY <1>0, <1>5, <1>8, <2>1, <2>2, OnePlaceDelivery
  <1>10. Messages'
    <2>1. MailOK(server[a], m)'
      BY <1>0, <1>3, <1>4 DEF MailOK
    <2> QED BY <1>0, <1>3, <1>5, <1>8, <2>1, MessagesDelivery
  <1>11. Sessions'
    <2>1. ASSUME NEW g \in Gate, NEW u \in User
          PROVE  SessionOK(g, u)'
      <3>1. \A b : Unheard(b) => Unheard(b)'
        BY <1>0, <1>1, <1>2, <1>5, UnheardKept
      <3> QED BY <1>0, <1>3, <1>6, <3>1 DEF Sessions, SessionOK
    <2>2. ASSUME NEW u \in User
          PROVE  OnlineOK(u)'
      <3>1. u # UserOf[a] /\ Unknown(u) => Unknown(u)'
        BY <1>0, <1>1, <1>2, <1>5, UnknownKept
      <3> QED BY <1>0, <1>6, <3>1 DEF Sessions, OnlineOK
    <2> QED BY <1>0, <1>6, <2>1, <2>2 DEF Sessions
  <1>12. Numbers'
    BY <1>0 DEF Numbers, Rival, Older, Holds
  <1> QED BY <1>5, <1>7, <1>9, <1>10, <1>11, <1>12 DEF IInv, Delivery

LEMMA GateLoginStep ==
  ASSUME IInv, TypeOK', NEW g \in Gate, GateLogin(g)
  PROVE  IInv'
  <1> USE Names
  <1>0. /\ TypeOK /\ BoxOK /\ Locked /\ OnePlace /\ Messages /\ Sessions /\ Numbers
        /\ Arrived(g, "login")
        /\ UNCHANGED <<accept, server, given, user_login, user_online, users, kick,
                       agent, subid, logout>>
    BY DEF GateLogin, IInv, acceptVars, agentVars
  <1>1. PICK h, c : h = Head(box[g]) /\ c = h.of
    OBVIOUS
  <1>2. "login" \in Asks /\ g \in Server /\ BoxOK /\ OnePlace /\ Messages /\ Arrived(g, "login")
    BY <1>0 DEF Asks
  <1>3. /\ h \in Mails /\ c \in Attempt /\ h.type = "login" /\ box[g] # <<>>
        /\ MailOK(g, h) /\ login[c] = "none" /\ kick[c] = None
        /\ \A t \in Server : \A x : Stays(g, t, x) /\ x.type \in Asks => x.of # c
    BY <1>1, <1>2, AskTaken
  <1>4. accept[c] = "login" /\ server[c] = g /\ agent[c] = "none" /\ internal_id[g] \in Nat
    BY <1>0, <1>1, <1>3 DEF MailOK, TypeOK
  <1>5. ~Unheard(c)
    <2>1. SUFFICES ASSUME NEW i \in 1..Len(box[logind]),
                          box[logind][i].type = "loggedin", box[logind][i].of = c
                   PROVE  FALSE
      BY DEF Unheard
    <2>2. 1 \in 1..Len(box[g]) /\ box[g][1] = h
      BY <1>0, <1>1, <1>2, Arrival
    <2> QED BY <1>0, <1>1, <1>2, <1>3, <2>1, <2>2 DEF OnePlace, Asks
  <1>6. \A s \in Gate, u \in User : users[s][u] # None => users[s][u].agent # c
    <2>1. SUFFICES ASSUME NEW s \in Gate, NEW u \in User, users[s][u] # None, users[s][u].agent = c
                   PROVE  FALSE
      OBVIOUS
    <2>2. SessionOK(s, u)
      BY <1>0 DEF Sessions
    <2> QED BY <1>4, <1>5, <2>1, <2>2 DEF SessionOK
  <1>7. PICK to \in {None, logind}, m \in Mails :
          /\ Delivery(g, to, m) /\ m.of = c /\ m.type \in Asks
          /\ \/ /\ to = logind /\ m.type = "loggedin" /\ m.ok = FALSE
                /\ UNCHANGED <<internal_id, login, named>>
             \/ /\ to = None /\ users[g][UserOf[c]] = None
                /\ internal_id' = [internal_id EXCEPT ![g] = internal_id[g] + 1]
                /\ named' = [named EXCEPT ![c] = internal_id[g] + 1]
                /\ login' = [login EXCEPT ![c] = "launch"]
    <2>1. CASE users[g][UserOf[c]] # None
      <3>1. /\ TakenAndSent(g, logind, Message("loggedin", c, 0, FALSE))
            /\ UNCHANGED <<internal_id, login, named>>
        BY <1>1, <2>1 DEF GateLogin
      <3>2. /\ Message("loggedin", c, 0, FALSE) \in Mails /\ Message("loggedin", c, 0, FALSE).of = c
            /\ Message("loggedin", c, 0, FALSE).type = "loggedin" /\ "loggedin" \in Asks
            /\ Message("loggedin", c, 0, FALSE).ok = FALSE
        BY <1>3 DEF Message, Mails, Asks
      <3>3. Delivery(g, logind, Message("loggedin", c, 0, FALSE))
        BY <1>0, <1>3, <3>1, <3>2, TakenAndSentDelivery
      <3> QED BY <3>1, <3>2, <3>3
    <2>2. CASE users[g][UserOf[c]] = None
      <3>1. /\ Taken(g)
            /\ internal_id' = [internal_id EXCEPT ![g] = internal_id[g] + 1]
            /\ named' = [named EXCEPT ![c] = internal_id[g] + 1]
            /\ login' = [login EXCEPT ![c] = "launch"]
        BY <1>1, <2>2 DEF GateLogin
      <3>2. Delivery(g, None, h)
        BY <1>0, <1>3, <3>1, TakenDelivery
      <3> QED BY <1>1, <1>2, <1>3, <2>2, <3>1, <3>2
    <2> QED BY <2>1, <2>2
  <1>8. /\ to = logind => login'[c] = "none"
        /\ \A d \in Attempt : d # c => named'[d] = named[d] /\ login'[d] = login[d]
        /\ \A s \in Gate : internal_id[s] \in Nat /\ internal_id'[s] \in Nat
                           /\ internal_id[s] <= internal_id'[s]
        /\ login'[c] # "none" => /\ login'[c] = "launch" /\ named'[c] = internal_id[g] + 1
                                 /\ internal_id'[g] = internal_id[g] + 1
        /\ login'[c] = "none" => internal_id' = internal_id /\ named'[c] = named[c]
        /\ \A s \in Gate : s # g => internal_id'[s] = internal_id[s]
    <2>1. /\ internal_id \in [Gate -> Nat] /\ named \in [Attempt -> Nat]
          /\ login \in [Attempt -> {"none", "launch", "agent"}]
      BY <1>0 DEF TypeOK
    <2>2. CASE to = logind
      BY <1>3, <1>7, <2>1, <2>2
    <2>3. CASE to = None
      <3>1. /\ internal_id' = [internal_id EXCEPT ![g] = internal_id[g] + 1]
            /\ named' = [named EXCEPT ![c] = internal_id[g] + 1]
            /\ login' = [login EXCEPT ![c] = "launch"]
        BY <1>7, <2>3
      <3>2. /\ internal_id'[g] = internal_id[g] + 1
            /\ \A s \in Gate : s # g => internal_id'[s] = internal_id[s]
            /\ \A s \in Gate : internal_id[s] \in Nat
        BY <2>1, <3>1
      <3>3. \A s \in Gate : internal_id'[s] \in Nat /\ internal_id[s] <= internal_id'[s]
        BY <3>2
      <3> QED BY <1>3, <2>1, <2>3, <3>1, <3>2, <3>3
    <2> QED BY <1>7, <2>2, <2>3
  <1>9. Locked'
    BY <1>0 DEF Locked, UnderWay
  <1>10. ASSUME NEW t \in Server, NEW x, Stays(g, t, x)
         PROVE  /\ x.type \in Asks => login'[x.of] = "none" /\ kick'[x.of] = None
                /\ MailOK(t, x)' /\ (t = logind => Success(x)' /\ Leaving(x)')
    <2>1. /\ x \in Mails /\ x.of \in Attempt /\ MailOK(t, x) /\ x.subid \in Nat
          /\ t = logind => Success(x) /\ Leaving(x)
          /\ x.type \in Asks => login[x.of] = "none" /\ kick[x.of] = None
      BY <1>0, <1>10, StaysFacts, MailFields
    <2>2. x.of # c
      BY <1>3, <1>4, <1>10, <2>1, MailFields DEF MailOK
    <2>3. MailOK(t, x)'
      BY <1>0, <2>1 DEF MailOK
    <2>4. t = logind => Leaving(x)'
      BY <1>0, <2>1 DEF Leaving
    <2>5. x.type = "loggedin" => server[x.of] \in Gate
      BY <1>0, <2>1 DEF MailOK, Locked
    <2>6. t = logind => Success(x)'
      BY <1>0, <1>8, <2>1, <2>2, <2>5 DEF Success
    <2> QED BY <1>0, <1>8, <2>1, <2>2, <2>3, <2>4, <2>6
  <1>11. OnePlace'
    <2>1. \A d \in Attempt : /\ login'[d] # "none" => accept'[d] = "login" /\ kick'[d] = None
                             /\ kick'[d] # None => accept'[d] = "kick"
      BY <1>0, <1>3, <1>4, <1>8 DEF OnePlace
    <2>2. /\ Delivery(g, to, m)
          /\ \A t \in Server : \A x : Stays(g, t, x) /\ x.type \in Asks => x.of # m.of
          /\ to \in Server => login'[m.of] = "none" /\ kick'[m.of] = None
      BY <1>0, <1>3, <1>7, <1>8
    <2>3. BoxOK /\ OnePlace
      BY <1>0
    <2> QED BY <1>10, <2>1, <2>2, <2>3, OnePlaceDelivery
  <1>12. Messages'
    <2>1. to \in Server =>
            /\ to = logind /\ m.type = "loggedin" /\ m.ok = FALSE /\ m.of = c /\ accept'[c] = "login"
      BY <1>0, <1>4, <1>7
    <2>2. to \in Server => MailOK(to, m)' /\ Success(m)' /\ Leaving(m)' /\ m.type # "logout"
      BY <2>1 DEF MailOK, Success, Leaving
    <2>3. Delivery(g, to, m) /\ BoxOK /\ Messages
      BY <1>0, <1>7
    <2> QED BY <1>10, <2>2, <2>3, MessagesDelivery
  <1>13. Sessions'
    <2>1. ASSUME NEW s \in Gate, NEW u \in User
          PROVE  SessionOK(s, u)'
      <3>1. \A b : Unheard(b) => Unheard(b)'
        BY <1>0, <1>7, UnheardKept
      <3> QED BY <1>0, <1>6, <1>8, <3>1, Fields DEF Sessions, SessionOK
    <2>2. ASSUME NEW u \in User
          PROVE  OnlineOK(u)'
      <3>1. Unknown(u) => Unknown(u)'
        BY <1>0, <1>7, UnknownKept
      <3> QED BY <1>0, <3>1 DEF Sessions, OnlineOK
    <2> QED BY <1>0, <2>1, <2>2 DEF Sessions
  <1>14. Numbers'
    <2>1. ASSUME NEW a \in Attempt, NEW d \in Attempt, Holds(d)', Rival(a, d)'
          PROVE  Older(a, d)'
      <3>1. Rival(a, d)
        BY <1>0, <2>1 DEF Rival
      <3>2. CASE d = c
        <4>1. login'[c] # "none"
          BY <1>0, <1>4, <1>6, <2>1, <3>2 DEF Holds
        <4>2. server[a] = g
          BY <1>4, <3>1, <3>2 DEF Rival
        <4>3. /\ agent[a] # "none" => subid[a] <= internal_id[g]
              /\ accept[a] = "200" => given[a] <= internal_id[g]
          BY <1>0, <4>2 DEF Numbers
        <4>4. subid[a] \in Nat /\ given[a] \in Nat
          BY <1>0 DEF TypeOK
        <4> QED BY <1>0, <1>4, <1>8, <3>2, <4>1, <4>3, <4>4 DEF Older
      <3>3. CASE d # c
        <4>1. Holds(d)
          BY <1>0, <1>8, <2>1, <3>3 DEF Holds
        <4>2. Older(a, d)
          BY <1>0, <3>1, <4>1 DEF Numbers
        <4> QED BY <1>0, <1>8, <3>3, <4>2 DEF Older
      <3> QED BY <3>2, <3>3
    <2>2. ASSUME NEW d \in Attempt
          PROVE  /\ agent'[d] # "none" => /\ accept'[d] \in {"login", "200", "403"}
                                          /\ subid'[d] <= internal_id'[server'[d]]
                 /\ login'[d] = "agent" => agent'[d] # "none"
                 /\ accept'[d] = "200" => given'[d] <= internal_id'[server'[d]]
                 /\ agent'[d] = "beats" => accept'[d] = "200"
                 /\ \A k \in Attempt \cup {beat} :
                      logout'[d][k] # "none" => accept'[d] = "200" /\ agent'[d] # "none"
                 /\ OneByOne => /\ agent'[d] # "none" => subid'[d] = named'[d]
                                /\ login'[d] # "none" => named'[d] = internal_id'[server'[d]]
      <3>1. /\ agent[d] # "none" => /\ accept[d] \in {"login", "200", "403"} /\ server[d] \in Gate
                                    /\ subid[d] <= internal_id[server[d]]
            /\ accept[d] = "200" => server[d] \in Gate /\ given[d] <= internal_id[server[d]]
            /\ subid[d] \in Nat /\ given[d] \in Nat
        BY <1>0 DEF Numbers, TypeOK, Locked
      <3>2. /\ agent'[d] # "none" => /\ accept'[d] \in {"login", "200", "403"}
                                     /\ subid'[d] <= internal_id'[server'[d]]
            /\ accept'[d] = "200" => given'[d] <= internal_id'[server'[d]]
        BY <1>0, <1>8, <3>1
      <3>3. OneByOne /\ d # c /\ login[d] # "none" => server[d] # g
        BY <1>0, <1>3, <1>4 DEF OnePlace, Locked, UnderWay
      <3>4. login[d] # "none" => server[d] \in Gate
        BY <1>0 DEF OnePlace, Locked
      <3>5. CASE d = c
        BY <1>0, <1>3, <1>4, <1>8, <3>2, <3>5 DEF Numbers
      <3>6. CASE d # c
        <4>1. OneByOne => /\ agent'[d] # "none" => subid'[d] = named'[d]
                          /\ login'[d] # "none" => named'[d] = internal_id'[server'[d]]
          BY <1>0, <1>8, <3>3, <3>4, <3>6 DEF Numbers
        <4> QED BY <1>0, <1>8, <3>2, <3>6, <4>1 DEF Numbers
      <3> QED BY <3>5, <3>6
    <2> QED BY <2>1, <2>2 DEF Numbers
  <1> QED BY <1>7, <1>9, <1>11, <1>12, <1>13, <1>14 DEF IInv, Delivery

\* A login_handler that runs: no message of its login is on its way.
LEMMA Handling ==
  ASSUME BoxOK, Locked, OnePlace, Messages, NEW c \in Attempt, login[c] # "none"
  PROVE  /\ accept[c] = "login" /\ server[c] \in Gate /\ kick[c] = None
         /\ \A t \in Server : \A x : Stays(None, t, x) => x.of # c
  <1>1. /\ accept[c] = "login" /\ server[c] \in Gate /\ kick[c] = None
    BY DEF OnePlace, Locked
  <1>2. ASSUME NEW t \in Server, NEW x, Stays(None, t, x), x.of = c
        PROVE  FALSE
    <2>1. /\ x \in Mails /\ MailOK(t, x) /\ (x.type \in Asks => login[x.of] = "none")
      BY <1>2, StaysFacts
    <2> QED BY <1>1, <1>2, <2>1, MailFields DEF MailOK
  <1> QED BY <1>1, <1>2

LEMMA GateLoginFailsStep ==
  ASSUME IInv, TypeOK', NEW c \in Attempt, GateLoginFails(c)
  PROVE  IInv'
  <1> USE Names
  <1>0. /\ TypeOK /\ BoxOK /\ Locked /\ OnePlace /\ Messages /\ Sessions /\ Numbers
        /\ login[c] # "none" /\ login' = [login EXCEPT ![c] = "none"]
        /\ Sent(logind, Message("loggedin", c, 0, FALSE))
        /\ UNCHANGED <<accept, server, given, user_login, user_online, users, internal_id, named,
                       kick, agent, subid, logout>>
    BY DEF GateLoginFails, IInv, acceptVars, agentVars
  <1>1. /\ accept[c] = "login" /\ server[c] \in Gate /\ kick[c] = None
        /\ \A t \in Server : \A x : Stays(None, t, x) => x.of # c
    BY <1>0, Handling
  <1>2. PICK m \in Mails : /\ Sent(logind, m) /\ m.of = c /\ m.type = "loggedin" /\ m.ok = FALSE
    <2>1. /\ Message("loggedin", c, 0, FALSE) \in Mails /\ Message("loggedin", c, 0, FALSE).of = c
          /\ Message("loggedin", c, 0, FALSE).type = "loggedin"
          /\ Message("loggedin", c, 0, FALSE).ok = FALSE
      BY DEF Message, Mails, Asks
    <2> QED BY <1>0, <2>1
  <1>3. Delivery(None, logind, m)
    BY <1>0, <1>2, SentDelivery
  <1>4. login'[c] = "none" /\ \A d \in Attempt : d # c => login'[d] = login[d]
    BY <1>0 DEF TypeOK
  <1>5. Locked'
    BY <1>0 DEF Locked, UnderWay
  <1>6. ASSUME NEW t \in Server, NEW x, Stays(None, t, x)
        PROVE  /\ x.type \in Asks => login'[x.of] = "none" /\ kick'[x.of] = None
               /\ MailOK(t, x)' /\ (t = logind => Success(x)' /\ Leaving(x)')
    <2>1. /\ x \in Mails /\ x.of \in Attempt /\ MailOK(t, x)
          /\ t = logind => Success(x) /\ Leaving(x)
          /\ x.type \in Asks => login[x.of] = "none" /\ kick[x.of] = None
      BY <1>0, <1>6, StaysFacts
    <2> QED BY <1>0, <1>4, <2>1 DEF MailOK, Success, Leaving
  <1>7. OnePlace'
    <2>1. \A d \in Attempt : /\ login'[d] # "none" => accept'[d] = "login" /\ kick'[d] = None
                             /\ kick'[d] # None => accept'[d] = "kick"
      BY <1>0, <1>4 DEF OnePlace
    <2>2. /\ \A t \in Server : \A x : Stays(None, t, x) /\ x.type \in Asks => x.of # m.of
          /\ login'[m.of] = "none" /\ kick'[m.of] = None
      BY <1>0, <1>1, <1>2, <1>4
    <2>3. BoxOK /\ OnePlace
      BY <1>0
    <2> QED BY <1>3, <1>6, <2>1, <2>2, <2>3, OnePlaceDelivery
  <1>8. Messages'
    <2>1. MailOK(logind, m)' /\ Success(m)' /\ Leaving(m)' /\ m.type # "logout"
      BY <1>0, <1>1, <1>2 DEF MailOK, Success, Leaving
    <2> QED BY <1>0, <1>3, <1>6, <2>1, MessagesDelivery
  <1>9. Sessions'
    <2>1. ASSUME NEW g \in Gate, NEW u \in User
          PROVE  SessionOK(g, u)'
      <3>1. \A b : Unheard(b) => Unheard(b)'
        BY <1>0, <1>3, UnheardKept
      <3> QED BY <1>0, <3>1 DEF Sessions, SessionOK
    <2>2. ASSUME NEW u \in User
          PROVE  OnlineOK(u)'
      <3>1. Unknown(u) => Unknown(u)'
        BY <1>0, <1>3, UnknownKept
      <3> QED BY <1>0, <3>1 DEF Sessions, OnlineOK
    <2> QED BY <1>0, <2>1, <2>2 DEF Sessions
  <1>10. Numbers'
    <2>1. \A d \in Attempt : login'[d] # "none" => login'[d] = login[d]
      BY <1>4
    <2> QED BY <1>0, <2>1 DEF Numbers, Rival, Older, Holds
  <1> QED BY <1>3, <1>5, <1>7, <1>8, <1>9, <1>10 DEF IInv, Delivery

\* While a user logs in, no other attempt of his has a session at the gate or makes one.
LEMMA NoOtherHolds ==
  ASSUME TypeOK, Locked, OnePlace, Sessions, NEW c \in Attempt, accept[c] = "login",
         NEW d \in Attempt, Holds(d), Rival(c, d)
  PROVE  FALSE
  <1> USE Names
  <1>1. login[d] = "none"
    BY DEF OnePlace, Rival, Locked
  <1>2. server[c] \in Gate /\ users[server[c]][UserOf[c]] # None
        /\ users[server[c]][UserOf[c]].agent = d
    BY <1>1 DEF Holds, Rival
  <1> QED BY <1>2, LoginSession DEF Rival

LEMMA LaunchedStep ==
  ASSUME IInv, TypeOK', NEW c \in Attempt, Launched(c)
  PROVE  IInv'
  <1> USE Names
  <1>0. /\ TypeOK /\ BoxOK /\ Locked /\ OnePlace /\ Messages /\ Sessions /\ Numbers
        /\ login[c] # "none" /\ login' = [login EXCEPT ![c] = "agent"]
        /\ agent' = [agent EXCEPT ![c] = "up"]
        /\ subid' = [subid EXCEPT ![c] = internal_id[server[c]]]
        /\ UNCHANGED <<box, accept, server, given, user_login, user_online, users, internal_id, named,
                       kick, logout>>
    BY DEF Launched, IInv, acceptVars
  <1>1. /\ accept[c] = "login" /\ server[c] \in Gate /\ kick[c] = None
        /\ \A t \in Server : \A x : Stays(None, t, x) => x.of # c
    BY <1>0, Handling
  <1>2. Delivery(None, None, c)
    BY <1>0, NoDelivery
  <1>3. /\ login'[c] = "agent" /\ agent'[c] = "up" /\ subid'[c] = internal_id[server[c]]
        /\ internal_id[server[c]] \in Nat
        /\ \A d \in Attempt : d # c =>
             login'[d] = login[d] /\ agent'[d] = agent[d] /\ subid'[d] = subid[d]
    BY <1>0, <1>1 DEF TypeOK
  <1>4. Locked'
    BY <1>0 DEF Locked, UnderWay
  <1>5. ASSUME NEW t \in Server, NEW x, Stays(None, t, x)
        PROVE  MailOK(t, x)' /\ (t = logind => Success(x)' /\ Leaving(x)')
    <2>1. /\ x \in Mails /\ x.of \in Attempt /\ MailOK(t, x) /\ x.of # c
          /\ t = logind => Success(x) /\ Leaving(x)
      BY <1>0, <1>1, <1>5, StaysFacts
    <2> QED BY <1>0, <1>3, <2>1 DEF MailOK, Success, Leaving
  <1>6. OnePlace'
    <2>1. ASSUME NEW s \in Server, NEW i \in 1..Len(box[s]), box[s][i].type \in Asks
          PROVE  login'[box[s][i].of] = "none"
      <3>1. login[box[s][i].of] = "none" /\ box[s][i].of \in Attempt
        BY <1>0, <2>1, MailFields DEF OnePlace, BoxOK
      <3> QED BY <1>0, <1>3, <3>1
    <2> QED BY <1>0, <1>1, <1>3, <2>1 DEF OnePlace
  <1>7. Messages'
    BY <1>0, <1>2, <1>5, MessagesDelivery
  <1>8. Sessions'
    <2>1. ASSUME NEW g \in Gate, NEW u \in User
          PROVE  SessionOK(g, u)'
      BY <1>0, <1>3, Fields DEF Sessions, SessionOK, Unheard
    <2>2. ASSUME NEW u \in User
          PROVE  OnlineOK(u)'
      BY <1>0 DEF Sessions, OnlineOK, Unknown
    <2> QED BY <1>0, <2>1, <2>2 DEF Sessions
  <1>9. Numbers'
    <2>1. ASSUME NEW a \in Attempt, NEW d \in Attempt, Holds(d)', Rival(a, d)'
          PROVE  Older(a, d)'
      <3>1. Holds(d) /\ Rival(a, d)
        BY <1>0, <1>3, <2>1 DEF Holds, Rival
      <3>2. a # c
        BY <1>0, <1>1, <3>1, NoOtherHolds
      <3>3. Older(a, d)
        BY <1>0, <3>1 DEF Numbers
      <3> QED BY <1>0, <1>3, <3>2, <3>3 DEF Older
    <2>2. \A k \in Attempt \cup {beat} : logout[c][k] = "none"
      BY <1>0, <1>1 DEF Numbers
    <2> QED BY <1>0, <1>1, <1>3, <2>1, <2>2 DEF Numbers
  <1> QED BY <1>2, <1>4, <1>6, <1>7, <1>8, <1>9 DEF IInv, Delivery

LEMMA AgentReadyStep ==
  ASSUME IInv, TypeOK', NEW c \in Attempt, AgentReady(c)
  PROVE  IInv'
  <1> USE Names
  <1>0. /\ TypeOK /\ BoxOK /\ Locked /\ OnePlace /\ Messages /\ Sessions /\ Numbers
        /\ login[c] = "agent" /\ login' = [login EXCEPT ![c] = "none"]
        /\ users' = [users EXCEPT ![server[c]][UserOf[c]] = [agent |-> c, name |-> named[c]]]
        /\ Sent(logind, Message("loggedin", c, internal_id[server[c]], TRUE))
        /\ UNCHANGED <<accept, server, given, user_login, user_online, internal_id, named,
                       kick, agent, subid, logout>>
    BY DEF AgentReady, IInv, acceptVars, agentVars
  <1>1. /\ accept[c] = "login" /\ server[c] \in Gate /\ kick[c] = None
        /\ \A t \in Server : \A x : Stays(None, t, x) => x.of # c
    BY <1>0, Handling
  <1>2. /\ internal_id[server[c]] \in Nat /\ named[c] \in Nat /\ UserOf[c] \in User
        /\ agent[c] # "none" /\ (OneByOne => named[c] = internal_id[server[c]])
        /\ user_online[UserOf[c]] = None
    BY <1>0, <1>1 DEF TypeOK, Numbers, Sessions
  <1>3. PICK m \in Mails : /\ Sent(logind, m) /\ m.of = c /\ m.type = "loggedin" /\ m.ok
                           /\ m.subid = internal_id[server[c]]
    <2> DEFINE n == internal_id[server[c]]
    <2>1. Sent(logind, Message("loggedin", c, n, TRUE)) /\ n \in Nat
      BY <1>0, <1>2
    <2> HIDE DEF n
    <2>2. /\ Message("loggedin", c, n, TRUE) \in Mails /\ Message("loggedin", c, n, TRUE).of = c
          /\ Message("loggedin", c, n, TRUE).type = "loggedin"
          /\ Message("loggedin", c, n, TRUE).ok /\ Message("loggedin", c, n, TRUE).subid = n
      BY <2>1 DEF Message, Mails, Asks
    <2> QED BY <2>1, <2>2 DEF n
  <1>4. Delivery(None, logind, m)
    BY <1>0, <1>3, SentDelivery
  <1>5. login'[c] = "none" /\ \A d \in Attempt : d # c => login'[d] = login[d]
    BY <1>0 DEF TypeOK
  <1>6. /\ users'[server[c]][UserOf[c]] = [agent |-> c, name |-> named[c]]
        /\ users'[server[c]][UserOf[c]] # None
        /\ \A h \in Gate, w \in User :
             h # server[c] \/ w # UserOf[c] => users'[h][w] = users[h][w]
    <2>1. PICK g \in Gate, u \in User, v \in [agent : Attempt, name : Nat] :
            g = server[c] /\ u = UserOf[c] /\ v = [agent |-> c, name |-> named[c]]
      BY <1>1, <1>2
    <2>2. /\ users' = [users EXCEPT ![g][u] = v] /\ TypeOK
          /\ v \in {None} \cup [agent : Attempt, name : Nat] /\ v # None
      BY <1>0, <1>2, <2>1
    <2>3. /\ users'[g][u] = v
          /\ \A h \in Gate, w \in User : h # g \/ w # u => users'[h][w] = users[h][w]
      BY <2>2 DEF TypeOK
    <2> QED BY <2>1, <2>2, <2>3
  <1>7. \A g \in Gate : users[g][UserOf[c]] = None
    <2>1. SUFFICES ASSUME NEW g \in Gate, users[g][UserOf[c]] # None
                   PROVE  FALSE
      OBVIOUS
    <2>2. Unheard(c)
      BY <1>0, <1>1, <2>1, LoginSession
    <2> QED BY <1>0, <2>2 DEF Unheard, OnePlace, Asks
  <1>8. Locked'
    BY <1>0 DEF Locked, UnderWay
  <1>9. ASSUME NEW t \in Server, NEW x, Stays(None, t, x)
        PROVE  /\ x.type \in Asks => login'[x.of] = "none" /\ kick'[x.of] = None
               /\ MailOK(t, x)' /\ (t = logind => Success(x)' /\ Leaving(x)')
    <2>1. /\ x \in Mails /\ x.of \in Attempt /\ MailOK(t, x) /\ x.of # c /\ UserOf[x.of] \in User
          /\ t = logind => Success(x) /\ Leaving(x)
          /\ x.type \in Asks => login[x.of] = "none" /\ kick[x.of] = None
      BY <1>0, <1>1, <1>9, StaysFacts
    <2>2. MailOK(t, x)'
      BY <1>0, <2>1 DEF MailOK
    <2>3. t = logind => Success(x)'
      <3>1. x.type = "loggedin" => UserOf[x.of] # UserOf[c] /\ server[x.of] \in Gate
        BY <1>0, <1>1, <2>1 DEF MailOK, Locked
      <3> QED BY <1>0, <1>6, <2>1, <3>1 DEF Success
    <2>4. t = logind => Leaving(x)'
      <3>1. t = logind /\ x.type = "logout" => UserOf[x.of] # UserOf[c]
        BY <1>2, <2>1 DEF Leaving
      <3> QED BY <1>0, <1>6, <2>1, <3>1 DEF Leaving
    <2> QED BY <1>0, <1>5, <2>1, <2>2, <2>3, <2>4
  <1>10. OnePlace'
    <2>1. \A d \in Attempt : /\ login'[d] # "none" => accept'[d] = "login" /\ kick'[d] = None
                             /\ kick'[d] # None => accept'[d] = "kick"
      BY <1>0, <1>5 DEF OnePlace
    <2>2. /\ \A t \in Server : \A x : Stays(None, t, x) /\ x.type \in Asks => x.of # m.of
          /\ login'[m.of] = "none" /\ kick'[m.of] = None
      BY <1>0, <1>1, <1>3, <1>5
    <2>3. BoxOK /\ OnePlace
      BY <1>0
    <2> QED BY <1>4, <1>9, <2>1, <2>2, <2>3, OnePlaceDelivery
  <1>11. Messages'
    <2>1. MailOK(logind, m)' /\ Success(m)' /\ Leaving(m)' /\ m.type # "logout"
      BY <1>0, <1>1, <1>2, <1>3, <1>6 DEF MailOK, Success, Leaving
    <2> QED BY <1>0, <1>4, <1>9, <2>1, MessagesDelivery
  <1>12. Sessions'
    <2>1. ASSUME NEW g \in Gate, NEW u \in User
          PROVE  SessionOK(g, u)'
      <3>1. \A b : Unheard(b) => Unheard(b)'
        BY <1>0, <1>4, UnheardKept
      <3>2. CASE g = server[c] /\ u = UserOf[c]
        <4>1. PICK i \in 1..Len(box'[logind]) : box'[logind][i] = m
          BY <1>4 DEF Delivery
        <4>2. Unheard(c)'
          BY <1>3, <4>1 DEF Unheard
        <4> QED BY <1>0, <1>1, <1>2, <1>6, <3>2, <4>2 DEF SessionOK
      <3>3. CASE g # server[c] \/ u # UserOf[c]
        BY <1>0, <1>6, <3>1, <3>3 DEF Sessions, SessionOK
      <3> QED BY <3>2, <3>3
    <2>2. ASSUME NEW u \in User
          PROVE  OnlineOK(u)'
      <3>1. Unknown(u) => Unknown(u)'
        BY <1>0, <1>4, UnknownKept
      <3>2. user_online[u] # None => u # UserOf[c] /\ user_online[u].address \in Gate
        BY <1>0, <1>2, Fields
      <3> QED BY <1>0, <1>6, <3>1, <3>2 DEF Sessions, OnlineOK
    <2> QED BY <1>0, <2>1, <2>2 DEF Sessions
  <1>13. Numbers'
    <2>1. ASSUME NEW d \in Attempt, Holds(d)'
          PROVE  Holds(d)
      <3>1. CASE d = c
        BY <1>0, <3>1 DEF Holds
      <3>2. CASE d # c
        BY <1>0, <1>5, <1>6, <2>1, <3>2 DEF Holds
      <3> QED BY <3>1, <3>2
    <2>2. \A a, d \in Attempt : Holds(d)' /\ Rival(a, d)' => Older(a, d)'
      BY <1>0, <2>1 DEF Numbers, Rival, Older
    <2>3. \A d \in Attempt : login'[d] # "none" => login'[d] = login[d]
      BY <1>5
    <2> QED BY <1>0, <2>2, <2>3 DEF Numbers
  <1> QED BY <1>4, <1>8, <1>10, <1>11, <1>12, <1>13 DEF IInv, Delivery

LEMMA GateKickStep ==
  ASSUME IInv, TypeOK', NEW g \in Gate, GateKick(g)
  PROVE  IInv'
  <1> USE Names
  <1>0. /\ TypeOK /\ BoxOK /\ Locked /\ OnePlace /\ Messages /\ Sessions /\ Numbers
        /\ Arrived(g, "kick")
        /\ UNCHANGED <<accept, server, given, user_login, user_online, users, internal_id, login,
                       named, agent, subid>>
    BY DEF GateKick, IInv, acceptVars
  <1>1. PICK h, c : h = Head(box[g]) /\ c = h.of
    OBVIOUS
  <1>2. "kick" \in Asks /\ g \in Server /\ BoxOK /\ OnePlace /\ Messages /\ Arrived(g, "kick")
    BY <1>0 DEF Asks
  <1>3. /\ h \in Mails /\ c \in Attempt /\ h.type = "kick" /\ box[g] # <<>>
        /\ MailOK(g, h) /\ login[c] = "none" /\ kick[c] = None
        /\ \A t \in Server : \A x : Stays(g, t, x) /\ x.type \in Asks => x.of # c
    BY <1>1, <1>2, AskTaken
  <1>4. accept[c] = "kick" /\ UserOf[c] \in User
    BY <1>0, <1>1, <1>3 DEF MailOK
  <1>5. PICK to \in {None, logind}, m \in Mails :
          /\ Delivery(g, to, m) /\ m.of = c /\ m.type \in Asks
          /\ \/ to = logind /\ m.type = "kicked" /\ UNCHANGED <<kick, logout>>
             \/ /\ to = None /\ users[g][UserOf[c]] # None
                /\ logout' = [logout EXCEPT ![users[g][UserOf[c]].agent][c] = "told"]
                /\ kick' = [kick EXCEPT ![c] = users[g][UserOf[c]].agent]
    <2> DEFINE u == users[g][UserOf[c]]
    <2>1. CASE u # None /\ u.name = h.subid /\ agent[u.agent] # "gone"
      <3>1. KickAgent(g, c, u.agent)
        BY <1>1, <2>1 DEF GateKick
      <3>2. Delivery(g, None, h)
        BY <1>0, <1>3, <3>1, TakenDelivery DEF KickAgent
      <3> QED BY <1>1, <1>2, <1>3, <2>1, <3>1, <3>2 DEF KickAgent
    <2>2. CASE ~(u # None /\ u.name = h.subid /\ agent[u.agent] # "gone")
      <3> DEFINE ok == (u = None \/ u.name = h.subid)
      <3>1. /\ TakenAndSent(g, logind, Message("kicked", c, 0, ok)) /\ UNCHANGED <<kick, logout>>
        BY <1>1, <2>2 DEF GateKick
      <3>2. ok \in BOOLEAN
        OBVIOUS
      <3> HIDE DEF ok
      <3>3. /\ Message("kicked", c, 0, ok) \in Mails /\ Message("kicked", c, 0, ok).of = c
            /\ Message("kicked", c, 0, ok).type = "kicked" /\ "kicked" \in Asks
        BY <1>3, <3>2 DEF Message, Mails, Asks
      <3>4. Delivery(g, logind, Message("kicked", c, 0, ok))
        BY <1>0, <1>3, <3>1, <3>3, TakenAndSentDelivery
      <3> QED BY <3>1, <3>3, <3>4
    <2> QED BY <2>1, <2>2
  <1>6. to = None =>
          LET a == users[g][UserOf[c]].agent
          IN /\ a \in Attempt /\ accept[a] = "200" /\ agent[a] # "none"
             /\ kick'[c] = a
             /\ \A b \in Attempt, k \in Attempt \cup {beat} :
                  b # a \/ k # c => logout'[b][k] = logout[b][k]
    <2>1. SUFFICES ASSUME to = None, NEW a, a = users[g][UserOf[c]].agent
                   PROVE  /\ a \in Attempt /\ accept[a] = "200" /\ agent[a] # "none"
                          /\ kick'[c] = a
                          /\ \A b \in Attempt, k \in Attempt \cup {beat} :
                               b # a \/ k # c => logout'[b][k] = logout[b][k]
      OBVIOUS
    <2>2. /\ users[g][UserOf[c]] # None /\ logout' = [logout EXCEPT ![a][c] = "told"]
          /\ kick' = [kick EXCEPT ![c] = a]
      BY <1>5, <2>1
    <2>3. a \in Attempt /\ UserOf[a] = UserOf[c] /\ accept[a] \in {"200", "login"} /\ agent[a] # "none"
      BY <1>0, <1>4, <2>1, <2>2, SessionAgent
    <2>4. accept[a] # "login"
      BY <1>0, <1>3, <1>4, <2>3 DEF Locked
    <2> QED BY <1>0, <1>3, <2>2, <2>3, <2>4 DEF TypeOK
  <1>7. /\ kick'[c] # None => to = None
        /\ \A d \in Attempt : d # c => kick'[d] = kick[d]
        /\ to = logind => kick'[c] = None /\ logout' = logout
    BY <1>0, <1>3, <1>5 DEF TypeOK
  <1>8. Locked'
    BY <1>0 DEF Locked, UnderWay
  <1>9. ASSUME NEW t \in Server, NEW x, Stays(g, t, x)
        PROVE  /\ x.type \in Asks => login'[x.of] = "none" /\ kick'[x.of] = None
               /\ MailOK(t, x)' /\ (t = logind => Success(x)' /\ Leaving(x)')
    <2>1. /\ x \in Mails /\ x.of \in Attempt /\ MailOK(t, x)
          /\ t = logind => Success(x) /\ Leaving(x)
          /\ x.type \in Asks => login[x.of] = "none" /\ kick[x.of] = None /\ x.of # c
      BY <1>0, <1>3, <1>9, StaysFacts
    <2> QED BY <1>0, <1>7, <2>1 DEF MailOK, Success, Leaving
  <1>10. OnePlace'
    <2>1. \A d \in Attempt : /\ login'[d] # "none" => accept'[d] = "login" /\ kick'[d] = None
                             /\ kick'[d] # None => accept'[d] = "kick"
      BY <1>0, <1>3, <1>4, <1>7 DEF OnePlace
    <2>2. /\ Delivery(g, to, m)
          /\ \A t \in Server : \A x : Stays(g, t, x) /\ x.type \in Asks => x.of # m.of
          /\ to \in Server => login'[m.of] = "none" /\ kick'[m.of] = None
      BY <1>0, <1>3, <1>5, <1>7
    <2>3. BoxOK /\ OnePlace
      BY <1>0
    <2> QED BY <1>9, <2>1, <2>2, <2>3, OnePlaceDelivery
  <1>11. Messages'
    <2>1. to \in Server => to = logind /\ m.type = "kicked" /\ m.of = c /\ accept'[c] = "kick"
      BY <1>0, <1>4, <1>5
    <2>2. to \in Server => MailOK(to, m)' /\ Success(m)' /\ Leaving(m)' /\ m.type # "logout"
      BY <2>1 DEF MailOK, Success, Leaving
    <2>3. Delivery(g, to, m) /\ BoxOK /\ Messages
      BY <1>0, <1>5
    <2> QED BY <1>9, <2>2, <2>3, MessagesDelivery
  <1>12. Sessions'
    <2>1. ASSUME NEW s \in Gate, NEW u \in User
          PROVE  SessionOK(s, u)'
      <3>1. \A b : Unheard(b) => Unheard(b)'
        BY <1>0, <1>5, UnheardKept
      <3> QED BY <1>0, <3>1 DEF Sessions, SessionOK
    <2>2. ASSUME NEW u \in User
          PROVE  OnlineOK(u)'
      <3>1. Unknown(u) => Unknown(u)'
        BY <1>0, <1>5, UnknownKept
      <3> QED BY <1>0, <3>1 DEF Sessions, OnlineOK
    <2> QED BY <1>0, <2>1, <2>2 DEF Sessions
  <1>13. Numbers'
    <2>1. ASSUME NEW d \in Attempt, NEW k \in Attempt \cup {beat}, logout'[d][k] # "none"
          PROVE  accept[d] = "200" /\ agent[d] # "none"
      <3>1. CASE to = logind
        BY <1>0, <1>7, <2>1, <3>1 DEF Numbers
      <3>2. CASE to = None
        BY <1>0, <1>6, <2>1, <3>2 DEF Numbers
      <3> QED BY <1>5, <3>1, <3>2
    <2> QED BY <1>0, <2>1 DEF Numbers, Rival, Older, Holds
  <1> QED BY <1>5, <1>8, <1>10, <1>11, <1>12, <1>13 DEF IInv, Delivery

LEMMA KickReturnsStep ==
  ASSUME IInv, TypeOK', NEW g \in Gate, NEW c \in Attempt, KickReturns(g, c)
  PROVE  IInv'
  <1> USE Names
  <1>0. /\ TypeOK /\ BoxOK /\ Locked /\ OnePlace /\ Messages /\ Sessions /\ Numbers
        /\ kick[c] # None /\ kick' = [kick EXCEPT ![c] = None]
        /\ Sent(logind, Message("kicked", c, 0, TRUE))
        /\ UNCHANGED <<accept, server, given, user_login, user_online, users, internal_id, login,
                       named, agent, subid, logout>>
    BY DEF KickReturns, IInv, acceptVars, agentVars
  <1>1. accept[c] = "kick" /\ login[c] = "none"
    BY <1>0 DEF OnePlace
  <1>2. PICK m \in Mails : Sent(logind, m) /\ m.of = c /\ m.type = "kicked"
    <2>1. /\ Message("kicked", c, 0, TRUE) \in Mails /\ Message("kicked", c, 0, TRUE).of = c
          /\ Message("kicked", c, 0, TRUE).type = "kicked"
      BY DEF Message, Mails, Asks
    <2> QED BY <1>0, <2>1
  <1>3. Delivery(None, logind, m)
    BY <1>0, <1>2, SentDelivery
  <1>4. kick'[c] = None /\ \A d \in Attempt : d # c => kick'[d] = kick[d]
    BY <1>0 DEF TypeOK
  <1>5. Locked'
    BY <1>0 DEF Locked, UnderWay
  <1>6. ASSUME NEW t \in Server, NEW x, Stays(None, t, x)
        PROVE  /\ x.type \in Asks => login'[x.of] = "none" /\ kick'[x.of] = None /\ x.of # c
               /\ MailOK(t, x)' /\ (t = logind => Success(x)' /\ Leaving(x)')
    <2>1. /\ x \in Mails /\ x.of \in Attempt /\ MailOK(t, x)
          /\ t = logind => Success(x) /\ Leaving(x)
          /\ x.type \in Asks => login[x.of] = "none" /\ kick[x.of] = None
      BY <1>0, <1>6, StaysFacts
    <2> QED BY <1>0, <1>4, <2>1 DEF MailOK, Success, Leaving
  <1>7. OnePlace'
    <2>1. \A d \in Attempt : /\ login'[d] # "none" => accept'[d] = "login" /\ kick'[d] = None
                             /\ kick'[d] # None => accept'[d] = "kick"
      BY <1>0, <1>4 DEF OnePlace
    <2>2. /\ \A t \in Server : \A x : Stays(None, t, x) /\ x.type \in Asks => x.of # m.of
          /\ login'[m.of] = "none" /\ kick'[m.of] = None
      BY <1>0, <1>1, <1>2, <1>4, <1>6
    <2>3. BoxOK /\ OnePlace
      BY <1>0
    <2> QED BY <1>3, <1>6, <2>1, <2>2, <2>3, OnePlaceDelivery
  <1>8. Messages'
    <2>1. MailOK(logind, m)' /\ Success(m)' /\ Leaving(m)' /\ m.type # "logout"
      BY <1>0, <1>1, <1>2 DEF MailOK, Success, Leaving
    <2> QED BY <1>0, <1>3, <1>6, <2>1, MessagesDelivery
  <1>9. Sessions'
    <2>1. ASSUME NEW s \in Gate, NEW u \in User
          PROVE  SessionOK(s, u)'
      <3>1. \A b : Unheard(b) => Unheard(b)'
        BY <1>0, <1>3, UnheardKept
      <3> QED BY <1>0, <3>1 DEF Sessions, SessionOK
    <2>2. ASSUME NEW u \in User
          PROVE  OnlineOK(u)'
      <3>1. Unknown(u) => Unknown(u)'
        BY <1>0, <1>3, UnknownKept
      <3> QED BY <1>0, <3>1 DEF Sessions, OnlineOK
    <2> QED BY <1>0, <2>1, <2>2 DEF Sessions
  <1>10. Numbers'
    BY <1>0 DEF Numbers, Rival, Older, Holds
  <1> QED BY <1>3, <1>5, <1>7, <1>8, <1>9, <1>10 DEF IInv, Delivery

\* A logout or its answer that has arrived at a gate.
LEMMA LogoutTaken ==
  ASSUME BoxOK, Messages, NEW g \in Gate, NEW type \in {"logout", "forgotten"}, Arrived(g, type),
         NEW h, h = Head(box[g])
  PROVE  /\ h \in Mails /\ h.of \in Attempt /\ h.by \in Attempt \cup {beat} /\ h.subid \in Nat
         /\ h.type = type /\ box[g] # <<>> /\ UserOf[h.of] \in User
         /\ accept[h.of] = "200" /\ agent[h.of] # "none" /\ server[h.of] = g
         /\ type = "logout" => h.subid = subid[h.of]
  <1> USE Names
  <1>1. /\ h \in Mails /\ h.of \in Attempt /\ h.type = type /\ box[g] # <<>> /\ MailOK(g, h)
        /\ h.subid \in Nat
    BY Arrival
  <1> QED BY <1>1, MailFields DEF MailOK

\* The coroutine of a logout goes on: whoever logs out, the gate has let him in.
LEMMA NumbersLogout ==
  ASSUME TypeOK, Numbers, NEW a \in Attempt, NEW k \in Attempt \cup {beat},
         NEW v \in {"none", "told", "asked", "done", "failed"},
         logout' = [logout EXCEPT ![a][k] = v],
         accept[a] = "200", agent[a] # "none",
         agent' = agent \/ agent' = [agent EXCEPT ![a] = "up"],
         UNCHANGED <<accept, server, given, users, internal_id, login, named, subid>>
  PROVE  Numbers'
  <1>1. \A b \in Attempt, j \in Attempt \cup {beat} :
          b # a \/ j # k => logout'[b][j] = logout[b][j]
    BY DEF TypeOK
  <1>2. /\ agent'[a] # "none" /\ (agent'[a] = "beats" => agent[a] = "beats")
        /\ \A d \in Attempt : d # a => agent'[d] = agent[d]
    BY DEF TypeOK
  <1>3. ASSUME NEW d \in Attempt, NEW j \in Attempt \cup {beat}, logout'[d][j] # "none"
        PROVE  accept'[d] = "200" /\ agent'[d] # "none"
    BY <1>1, <1>2, <1>3 DEF Numbers
  <1>4. \A d, e \in Attempt : Holds(d)' /\ Rival(e, d)' => Older(e, d)'
    BY <1>2 DEF Numbers, Rival, Older, Holds
  <1> QED BY <1>2, <1>3, <1>4 DEF Numbers

LEMMA ForgottenStep ==
  ASSUME IInv, TypeOK', NEW g \in Gate, Forgotten(g)
  PROVE  IInv'
  <1> USE Names
  <1>0. /\ TypeOK /\ BoxOK /\ Locked /\ OnePlace /\ Messages /\ Sessions /\ Numbers
        /\ Arrived(g, "forgotten") /\ Taken(g)
        /\ UNCHANGED <<accept, server, given, user_login, user_online, users, internal_id, login,
                       named, kick, agent, subid>>
    BY DEF Forgotten, IInv, acceptVars, gateVars
  <1>1. PICK h : h = Head(box[g])
    OBVIOUS
  <1>2. /\ h.of \in Attempt /\ h.by \in Attempt \cup {beat} /\ h.type = "forgotten"
        /\ box[g] # <<>> /\ accept[h.of] = "200" /\ agent[h.of] # "none"
    BY <1>0, <1>1, LogoutTaken
  <1>3. logout' = [logout EXCEPT ![h.of][h.by] = "done"]
    BY <1>1 DEF Forgotten
  <1>4. Delivery(g, None, h)
    BY <1>0, <1>2, TakenDelivery
  <1>5. ASSUME NEW t \in Server, NEW x, Stays(g, t, x)
        PROVE  /\ x.type \in Asks => login'[x.of] = "none" /\ kick'[x.of] = None
               /\ MailOK(t, x)' /\ (t = logind => Success(x)' /\ Leaving(x)')
    <2>1. /\ x \in Mails /\ x.of \in Attempt /\ MailOK(t, x)
          /\ t = logind => Success(x) /\ Leaving(x)
          /\ x.type \in Asks => login[x.of] = "none" /\ kick[x.of] = None
      BY <1>0, <1>5, StaysFacts
    <2> QED BY <1>0, <2>1 DEF MailOK, Success, Leaving
  <1>6. OnePlace'
    <2>1. h.type \notin Asks
      BY <1>2 DEF Asks
    <2>2. \A d \in Attempt : /\ login'[d] # "none" => accept'[d] = "login" /\ kick'[d] = None
                             /\ kick'[d] # None => accept'[d] = "kick"
      BY <1>0 DEF OnePlace
    <2> QED BY <1>0, <1>4, <1>5, <2>1, <2>2, OnePlaceDelivery
  <1>7. Messages'
    BY <1>0, <1>4, <1>5, MessagesDelivery
  <1>8. Sessions'
    <2>1. ASSUME NEW s \in Gate, NEW u \in User
          PROVE  SessionOK(s, u)'
      <3>1. \A b : Unheard(b) => Unheard(b)'
        BY <1>0, <1>4, UnheardKept
      <3> QED BY <1>0, <3>1 DEF Sessions, SessionOK
    <2>2. ASSUME NEW u \in User
          PROVE  OnlineOK(u)'
      <3>1. Unknown(u) => Unknown(u)'
        BY <1>0, <1>4, UnknownKept
      <3> QED BY <1>0, <3>1 DEF Sessions, OnlineOK
    <2> QED BY <1>0, <2>1, <2>2 DEF Sessions
  <1>9. Numbers'
    BY <1>0, <1>2, <1>3, NumbersLogout
  <1>10. Locked'
    BY <1>0 DEF Locked, UnderWay
  <1> QED BY <1>4, <1>6, <1>7, <1>8, <1>9, <1>10 DEF IInv, Delivery

LEMMA GateLogoutStep ==
  ASSUME IInv, TypeOK', NEW g \in Gate, GateLogout(g)
  PROVE  IInv'
  <1> USE Names
  <1>0. /\ TypeOK /\ BoxOK /\ Locked /\ OnePlace /\ Messages /\ Sessions /\ Numbers
        /\ Arrived(g, "logout")
        /\ UNCHANGED <<accept, server, given, user_login, user_online, internal_id, login, named,
                       kick, agent, subid>>
    BY DEF GateLogout, IInv, acceptVars
  <1>1. PICK h, a : h = Head(box[g]) /\ a = h.of
    OBVIOUS
  <1>2. /\ h \in Mails /\ a \in Attempt /\ h.by \in Attempt \cup {beat} /\ h.subid \in Nat
        /\ h.type = "logout" /\ box[g] # <<>> /\ UserOf[a] \in User
        /\ accept[a] = "200" /\ agent[a] # "none" /\ server[a] = g /\ h.subid = subid[a]
    BY <1>0, <1>1, LogoutTaken
  <1>3. CASE users[g][UserOf[a]] # None /\ users[g][UserOf[a]].name = h.subid
    <2>1. /\ users' = [users EXCEPT ![g][UserOf[a]] = None] /\ logout' = logout
          /\ TakenAndSent(g, logind, LogoutMessage("logout", a, h.by, h.subid))
      BY <1>1, <1>3 DEF GateLogout, ForgetSession
    <2>2. PICK m \in Mails : /\ TakenAndSent(g, logind, m) /\ m.type = "logout" /\ m.of = a
                             /\ m.subid = h.subid
      BY <1>2, <2>1, LogoutMail
    <2>3. Delivery(g, logind, m)
      BY <1>0, <1>2, <2>2, TakenAndSentDelivery
    <2>4. /\ users'[g][UserOf[a]] = None
          /\ \A s \in Gate, w \in User : s # g \/ w # UserOf[a] => users'[s][w] = users[s][w]
      BY <1>0, <1>2, <2>1 DEF TypeOK
    <2>5. users[g][UserOf[a]].agent = a
      <3>1. PICK b : b = users[g][UserOf[a]].agent
        OBVIOUS
      <3>2. /\ b \in Attempt /\ UserOf[b] = UserOf[a] /\ server[b] = g /\ Holds(b)
            /\ h.subid = named[b]
        BY <1>0, <1>2, <1>3, <3>1, SessionAgent
      <3>3. b # a => Older(a, b)
        BY <1>0, <1>2, <3>2 DEF Numbers, Rival
      <3>4. subid[a] \in Nat
        BY <1>0, <1>2 DEF TypeOK
      <3> QED BY <1>2, <3>1, <3>2, <3>3, <3>4 DEF Older
    <2>6. /\ user_online[UserOf[a]] # None /\ user_online[UserOf[a]].address = g
          /\ OneByOne => user_online[UserOf[a]].subid = h.subid
      <3>1. SessionOK(g, UserOf[a])
        BY <1>0, <1>2 DEF Sessions
      <3> QED BY <1>2, <1>3, <2>5, <3>1 DEF SessionOK
    <2>7. \A s \in Gate : users'[s][UserOf[a]] = None
      <3>1. ASSUME NEW s \in Gate, s # g, users[s][UserOf[a]] # None
            PROVE  FALSE
        <4>1. SessionOK(s, UserOf[a]) /\ users[s][UserOf[a]].agent \in Attempt
          BY <1>0, <1>2, <3>1, Fields DEF Sessions
        <4>2. \A d \in Attempt : accept[d] = "login" => user_online[UserOf[d]] = None
          BY <1>0 DEF Sessions
        <4> QED BY <2>6, <3>1, <4>1, <4>2 DEF SessionOK
      <3> QED BY <1>2, <2>4, <3>1
    <2>8. \A s \in Gate, w \in User : users'[s][w] # None => users[s][w] = users'[s][w] /\ w # UserOf[a]
      BY <2>4, <2>7
    <2>9. ASSUME NEW t \in Server, NEW x, Stays(g, t, x)
          PROVE  /\ x.type \in Asks => login'[x.of] = "none" /\ kick'[x.of] = None
                 /\ MailOK(t, x)' /\ (t = logind => Success(x)' /\ Leaving(x)')
                 /\ t = logind /\ x.type = "logout" => UserOf[x.of] # UserOf[a]
      <3>1. /\ x \in Mails /\ x.of \in Attempt /\ MailOK(t, x) /\ UserOf[x.of] \in User
            /\ t = logind => Success(x) /\ Leaving(x)
            /\ x.type \in Asks => login[x.of] = "none" /\ kick[x.of] = None
        BY <1>0, <2>9, StaysFacts
      <3>2. MailOK(t, x)'
        BY <1>0, <3>1 DEF MailOK
      <3>3. t = logind /\ x.type = "logout" => UserOf[x.of] # UserOf[a]
        BY <1>2, <1>3, <3>1 DEF Leaving
      <3>4. t = logind => Leaving(x)'
        BY <1>0, <2>4, <3>1, <3>3 DEF Leaving
      <3>5. x.type = "loggedin" => UserOf[x.of] # UserOf[a] /\ server[x.of] \in Gate
        BY <1>0, <2>6, <3>1 DEF MailOK, Sessions, Locked
      <3>6. t = logind => Success(x)'
        BY <1>0, <2>4, <3>1, <3>5 DEF Success
      <3> QED BY <1>0, <3>1, <3>2, <3>3, <3>4, <3>6
    <2>10. OnePlace'
      <3>1. m.type \notin Asks
        BY <2>2 DEF Asks
      <3>2. \A d \in Attempt : /\ login'[d] # "none" => accept'[d] = "login" /\ kick'[d] = None
                               /\ kick'[d] # None => accept'[d] = "kick"
        BY <1>0 DEF OnePlace
      <3> QED BY <1>0, <2>3, <2>9, <3>1, <3>2, OnePlaceDelivery
    <2>11. Messages'
      <3>1. MailOK(logind, m)' /\ Success(m)' /\ Leaving(m)'
        BY <1>0, <1>2, <2>2, <2>6, <2>7 DEF MailOK, Success, Leaving
      <3>2. \A x : Stays(g, logind, x) /\ x.type = "logout" => UserOf[x.of] # UserOf[m.of]
        BY <2>2, <2>9
      <3> QED BY <1>0, <2>3, <2>9, <3>1, <3>2, MessagesDelivery
    <2>12. Sessions'
      <3>1. ASSUME NEW s \in Gate, NEW u \in User
            PROVE  SessionOK(s, u)'
        <4>1. \A b : Unheard(b) => Unheard(b)'
          BY <1>0, <2>3, UnheardKept
        <4> QED BY <1>0, <2>8, <4>1 DEF Sessions, SessionOK
      <3>2. ASSUME NEW u \in User
            PROVE  OnlineOK(u)'
        <4>1. Unknown(u) => Unknown(u)'
          BY <1>0, <2>3, UnknownKept
        <4>2. CASE u = UserOf[a]
          <5>1. PICK i \in 1..Len(box'[logind]) : box'[logind][i] = m
            BY <2>3 DEF Delivery
          <5> QED BY <2>2, <4>2, <5>1 DEF OnlineOK, Unknown
        <4>3. CASE u # UserOf[a]
          <5>1. user_online[u] # None => user_online[u].address \in Gate
            BY <1>0, Fields
          <5> QED BY <1>0, <2>4, <4>1, <4>3, <5>1 DEF Sessions, OnlineOK
        <4> QED BY <4>2, <4>3
      <3> QED BY <1>0, <3>1, <3>2 DEF Sessions
    <2>13. Numbers'
      <3>1. \A d \in Attempt : Holds(d)' => Holds(d)
        BY <1>0, <2>8 DEF Holds
      <3>2. \A d, e \in Attempt : Holds(d)' /\ Rival(e, d)' => Older(e, d)'
        BY <1>0, <3>1 DEF Numbers, Rival, Older
      <3> QED BY <1>0, <2>1, <3>2 DEF Numbers
    <2>14. Locked'
      BY <1>0 DEF Locked, UnderWay
    <2> QED BY <2>3, <2>10, <2>11, <2>12, <2>13, <2>14 DEF IInv, Delivery
  <1>4. CASE ~(users[g][UserOf[a]] # None /\ users[g][UserOf[a]].name = h.subid)
    <2>1. PICK v \in {"done", "failed"} :
            logout' = [logout EXCEPT ![a][h.by] = v] /\ Taken(g) /\ users' = users
      BY <1>1, <1>4 DEF GateLogout
    <2>2. Delivery(g, None, h)
      BY <1>0, <1>2, <2>1, TakenDelivery
    <2>3. ASSUME NEW t \in Server, NEW x, Stays(g, t, x)
          PROVE  /\ x.type \in Asks => login'[x.of] = "none" /\ kick'[x.of] = None
                 /\ MailOK(t, x)' /\ (t = logind => Success(x)' /\ Leaving(x)')
      <3>1. /\ x \in Mails /\ x.of \in Attempt /\ MailOK(t, x)
            /\ t = logind => Success(x) /\ Leaving(x)
            /\ x.type \in Asks => login[x.of] = "none" /\ kick[x.of] = None
        BY <1>0, <2>3, StaysFacts
      <3> QED BY <1>0, <2>1, <3>1 DEF MailOK, Success, Leaving
    <2>4. OnePlace'
      <3>1. h.type \notin Asks
        BY <1>2 DEF Asks
      <3>2. \A d \in Attempt : /\ login'[d] # "none" => accept'[d] = "login" /\ kick'[d] = None
                               /\ kick'[d] # None => accept'[d] = "kick"
        BY <1>0 DEF OnePlace
      <3> QED BY <1>0, <2>2, <2>3, <3>1, <3>2, OnePlaceDelivery
    <2>5. Messages'
      BY <1>0, <2>2, <2>3, MessagesDelivery
    <2>6. Sessions'
      <3>1. ASSUME NEW s \in Gate, NEW u \in User
            PROVE  SessionOK(s, u)'
        <4>1. \A b : Unheard(b) => Unheard(b)'
          BY <1>0, <2>2, UnheardKept
        <4> QED BY <1>0, <2>1, <4>1 DEF Sessions, SessionOK
      <3>2. ASSUME NEW u \in User
            PROVE  OnlineOK(u)'
        <4>1. Unknown(u) => Unknown(u)'
          BY <1>0, <2>2, UnknownKept
        <4> QED BY <1>0, <2>1, <4>1 DEF Sessions, OnlineOK
      <3> QED BY <1>0, <3>1, <3>2 DEF Sessions
    <2>7. Numbers'
      BY <1>0, <1>2, <2>1, NumbersLogout
    <2>8. Locked'
      BY <1>0 DEF Locked, UnderWay
    <2> QED BY <2>2, <2>4, <2>5, <2>6, <2>7, <2>8 DEF IInv, Delivery
  <1> QED BY <1>3, <1>4

LEMMA AskGateStep ==
  ASSUME IInv, TypeOK', NEW a \in Attempt, NEW k \in Attempt \cup {beat}, AskGate(a, k),
         accept[a] = "200", agent[a] # "none",
         agent' = agent \/ agent' = [agent EXCEPT ![a] = "up"]
  PROVE  IInv'
  <1> USE Names
  <1>0. /\ TypeOK /\ BoxOK /\ Locked /\ OnePlace /\ Messages /\ Sessions /\ Numbers
        /\ logout' = [logout EXCEPT ![a][k] = "asked"]
        /\ Sent(server[a], LogoutMessage("logout", a, k, subid[a]))
        /\ UNCHANGED <<accept, server, given, user_login, user_online, users, internal_id, login,
                       named, kick, subid>>
    BY DEF AskGate, IInv, acceptVars, gateVars
  <1>1. server[a] \in Gate /\ subid[a] \in Nat
    BY <1>0 DEF Locked, TypeOK
  <1>2. PICK m \in Mails : /\ Sent(server[a], m) /\ m.type = "logout" /\ m.of = a
                           /\ m.subid = subid[a]
    BY <1>0, <1>1, LogoutMail
  <1>3. Delivery(None, server[a], m)
    BY <1>0, <1>1, <1>2, SentDelivery
  <1>4. \A d \in Attempt : (agent'[d] = "none") = (agent[d] = "none")
    BY <1>0 DEF TypeOK
  <1>5. ASSUME NEW t \in Server, NEW x, Stays(None, t, x)
        PROVE  /\ x.type \in Asks => login'[x.of] = "none" /\ kick'[x.of] = None
               /\ MailOK(t, x)' /\ (t = logind => Success(x)' /\ Leaving(x)')
    <2>1. /\ x \in Mails /\ x.of \in Attempt /\ MailOK(t, x)
          /\ t = logind => Success(x) /\ Leaving(x)
          /\ x.type \in Asks => login[x.of] = "none" /\ kick[x.of] = None
      BY <1>0, <1>5, StaysFacts
    <2> QED BY <1>0, <1>4, <2>1 DEF MailOK, Success, Leaving
  <1>6. OnePlace'
    <2>1. m.type \notin Asks
      BY <1>2 DEF Asks
    <2>2. \A d \in Attempt : /\ login'[d] # "none" => accept'[d] = "login" /\ kick'[d] = None
                             /\ kick'[d] # None => accept'[d] = "kick"
      BY <1>0 DEF OnePlace
    <2> QED BY <1>0, <1>3, <1>5, <2>1, <2>2, OnePlaceDelivery
  <1>7. Messages'
    <2>1. MailOK(server[a], m)'
      BY <1>0, <1>2, <1>4 DEF MailOK
    <2> QED BY <1>0, <1>1, <1>3, <1>5, <2>1, MessagesDelivery
  <1>8. Sessions'
    <2>1. ASSUME NEW s \in Gate, NEW u \in User
          PROVE  SessionOK(s, u)'
      <3>1. \A b : Unheard(b) => Unheard(b)'
        BY <1>0, <1>3, UnheardKept
      <3> QED BY <1>0, <1>4, <3>1, Fields DEF Sessions, SessionOK
    <2>2. ASSUME NEW u \in User
          PROVE  OnlineOK(u)'
      <3>1. Unknown(u) => Unknown(u)'
        BY <1>0, <1>3, UnknownKept
      <3> QED BY <1>0, <3>1 DEF Sessions, OnlineOK
    <2> QED BY <1>0, <2>1, <2>2 DEF Sessions
  <1>9. Numbers'
    BY <1>0, NumbersLogout
  <1>10. Locked'
    BY <1>0 DEF Locked, UnderWay
  <1> QED BY <1>3, <1>6, <1>7, <1>8, <1>9, <1>10 DEF IInv, Delivery

\* An agent begins to beat, when its login has succeeded, or ends.
LEMMA AgentStepInv ==
  ASSUME IInv, TypeOK', NEW b \in Attempt,
         agent[b] # "none",
         \/ agent' = [agent EXCEPT ![b] = "beats"] /\ accept[b] = "200"
         \/ agent' = [agent EXCEPT ![b] = "gone"],
         UNCHANGED <<box, accept, server, given, user_login, user_online, users, internal_id, login,
                     named, kick, subid, logout>>
  PROVE  IInv'
  <1> USE Names
  <1>0. TypeOK /\ BoxOK /\ Locked /\ OnePlace /\ Messages /\ Sessions /\ Numbers
    BY DEF IInv
  <1>1. \A d \in Attempt : /\ (agent'[d] = "none") = (agent[d] = "none")
                           /\ agent'[d] = "beats" => accept[d] = "200"
    BY <1>0 DEF TypeOK, Numbers
  <1>2. Delivery(None, None, b)
    BY <1>0, NoDelivery
  <1>3. ASSUME NEW t \in Server, NEW x, Stays(None, t, x)
        PROVE  MailOK(t, x)' /\ (t = logind => Success(x)' /\ Leaving(x)')
    <2>1. /\ x \in Mails /\ x.of \in Attempt /\ MailOK(t, x)
          /\ t = logind => Success(x) /\ Leaving(x)
      BY <1>0, <1>3, StaysFacts
    <2> QED BY <1>1, <2>1 DEF MailOK, Success, Leaving
  <1>4. Messages'
    BY <1>0, <1>2, <1>3, MessagesDelivery
  <1>5. Sessions'
    <2>1. ASSUME NEW s \in Gate, NEW u \in User
          PROVE  SessionOK(s, u)'
      BY <1>0, <1>1, Fields DEF Sessions, SessionOK, Unheard
    <2>2. ASSUME NEW u \in User
          PROVE  OnlineOK(u)'
      BY <1>0 DEF Sessions, OnlineOK, Unknown
    <2> QED BY <1>0, <2>1, <2>2 DEF Sessions
  <1>6. Numbers'
    BY <1>0, <1>1 DEF Numbers, Rival, Older, Holds
  <1>7. Locked' /\ OnePlace'
    BY <1>0 DEF Locked, UnderWay, OnePlace
  <1> QED BY <1>2, <1>4, <1>5, <1>6, <1>7 DEF IInv, Delivery

LEMMA HandshakeStep ==
  ASSUME IInv, TypeOK', NEW c \in Attempt, Handshake(c)
  PROVE  IInv'
  <1> USE Names
  <1>0. /\ TypeOK /\ Locked /\ Sessions /\ Numbers
        /\ accept[c] = "200"
        /\ users[server[c]][UserOf[c]] # None /\ users[server[c]][UserOf[c]].name = given[c]
        /\ agent' = [agent EXCEPT ![users[server[c]][UserOf[c]].agent] = "beats"]
        /\ UNCHANGED <<box, accept, server, given, user_login, user_online, users, internal_id, login,
                       named, kick, subid, logout>>
    BY DEF Handshake, IInv, acceptVars, gateVars
  <1>1. PICK b : b = users[server[c]][UserOf[c]].agent
    OBVIOUS
  <1>2. /\ server[c] \in Gate /\ b \in Attempt /\ UserOf[b] = UserOf[c] /\ server[b] = server[c]
        /\ Holds(b) /\ given[c] = named[b] /\ agent[b] # "none"
    BY <1>0, <1>1, SessionAgent DEF Locked
  <1>3. b = c
    <2>1. b # c => Older(c, b)
      BY <1>0, <1>2 DEF Numbers, Rival
    <2>2. given[c] \in Nat
      BY <1>0 DEF TypeOK
    <2> QED BY <1>0, <1>2, <2>1, <2>2 DEF Older
  <1> QED BY <1>0, <1>1, <1>2, <1>3, AgentStepInv

-----------------------------------------------------------------------------
(* The theorems.                                                           *)

LEMMA StepInv == IInv /\ [Next]_vars => IInv'
  <1> SUFFICES ASSUME IInv, [Next]_vars
               PROVE  IInv'
    OBVIOUS
  <1>0. TypeOK' /\ TypeOK /\ Numbers
    BY StepType DEF IInv
  <1>1. ASSUME NEW c \in Attempt, NEW g \in Gate, Connect(c, g)
        PROVE  IInv'
    BY <1>0, <1>1, ConnectStep
  <1>2. ASSUME NEW c \in Attempt, Answered(c)
        PROVE  IInv'
    BY <1>0, <1>2, RefuseStep, AuthenticatedStep, GateLoginFailsStep, LaunchedStep, AgentReadyStep,
       KickReturnsStep DEF Answered
  <1>3. CASE LogindStep
    BY <1>0, <1>3, KickedStep, LoggedInStep, UserLogoutStep DEF LogindStep
  <1>4. ASSUME NEW g \in Gate, GateStep(g)
        PROVE  IInv'
    BY <1>0, <1>4, GateLoginStep, GateKickStep, GateLogoutStep, ForgottenStep DEF GateStep
  <1>5. ASSUME NEW c \in Attempt, Handshake(c)
        PROVE  IInv'
    BY <1>0, <1>5, HandshakeStep
  <1>6. ASSUME NEW a \in Attempt, NEW c \in Attempt, AgentKicked(a, c)
        PROVE  IInv'
    <2>1. accept[a] = "200" /\ agent[a] # "none"
      BY <1>0, <1>6 DEF AgentKicked, Numbers
    <2> QED BY <1>0, <1>6, <2>1, AskGateStep DEF AgentKicked
  <1>7. ASSUME NEW a \in Attempt, BeatStops(a)
        PROVE  IInv'
    <2>1. accept[a] = "200" /\ agent[a] # "none"
      BY <1>0, <1>7 DEF BeatStops, Numbers
    <2> QED BY <1>0, <1>7, <2>1, AskGateStep DEF BeatStops
  <1>8. ASSUME NEW a \in Attempt, AgentExits(a)
        PROVE  IInv'
    BY <1>0, <1>8, AgentStepInv DEF AgentExits, Alive, acceptVars, gateVars
  <1>9. CASE UNCHANGED vars
    <2>1. /\ BoxOK /\ Locked /\ OnePlace /\ Messages /\ Sessions /\ Numbers
          /\ UNCHANGED <<box, accept, server, given, user_login, user_online, users, internal_id,
                         login, named, kick, agent, subid, logout>>
      BY <1>9 DEF IInv, vars, acceptVars, gateVars, agentVars
    <2>2. BoxOK' /\ Locked' /\ OnePlace'
      BY <2>1 DEF BoxOK, Locked, UnderWay, OnePlace
    <2>3. Messages'
      BY <2>1 DEF Messages, MailOK, Success, Leaving
    <2>4. Sessions'
      BY <2>1 DEF Sessions, SessionOK, OnlineOK, Unheard, Unknown
    <2>5. Numbers'
      BY <2>1 DEF Numbers, Rival, Older, Holds
    <2> QED BY <1>0, <2>2, <2>3, <2>4, <2>5 DEF IInv
  <1> QED BY <1>1, <1>2, <1>3, <1>4, <1>5, <1>6, <1>7, <1>8, <1>9 DEF Next, AgentStep

\* The inductive invariant: where a login is, what the messages say, which
\* sessions there are and what logind knows of them, and how numbers grow.
THEOREM Invariant == Spec => []IInv
  <1>1. Init => IInv
    BY InitInv
  <1>2. IInv /\ [Next]_vars => IInv'
    BY StepInv
  <1> QED BY <1>1, <1>2, PTL DEF Spec

\* The tables of logind, of the gates and of the agents keep their types.
THEOREM TypeCorrect == Spec => []TypeOK
  <1>1. IInv => TypeOK
    BY DEF IInv
  <1> QED BY <1>1, Invariant, PTL

\* A user has a session at one gate at most (users of coc_lua/gated.lua),
\* however many of his logins, kicks and logouts are under way, and whether or
\* not other users log in meanwhile.
THEOREM SingleSession == Spec => []OneSession
  <1>1. IInv => OneSession
    <2>1. SUFFICES ASSUME IInv, NEW u \in User, NEW g \in Gate, NEW h \in Gate,
                          users[g][u] # None, users[h][u] # None
                   PROVE  g = h
      BY DEF OneSession
    <2>2. /\ TypeOK /\ Locked /\ Sessions /\ SessionOK(g, u) /\ SessionOK(h, u)
          /\ users[g][u].agent \in Attempt /\ users[h][u].agent \in Attempt
      BY <2>1, Fields DEF IInv, Sessions
    <2> QED BY <2>1, <2>2 DEF SessionOK, Sessions, Locked
  <1> QED BY <1>1, Invariant, PTL

\* When users log in to a gate one by one, what logind has in user_online and
\* what the gates have in users agree up to the messages on their way to logind.
THEOREM LogindAgrees ==
  ASSUME OneByOne
  PROVE  Spec => []OnlineAgrees
  <1>1. IInv => OnlineAgrees
    <2>1. SUFFICES ASSUME IInv, NEW u \in User
                   PROVE  /\ user_online[u] # None =>
                               \/ /\ users[user_online[u].address][u] # None
                                  /\ users[user_online[u].address][u].name = user_online[u].subid
                               \/ \E m \in Mail(logind) : m.type = "logout" /\ UserOf[m.of] = u
                          /\ \A g \in Gate :
                               users[g][u] # None =>
                                 \/ user_online[u] # None /\ user_online[u].address = g
                                 \/ \E m \in Mail(logind) :
                                      /\ m.type = "loggedin" /\ m.ok
                                      /\ m.of = users[g][u].agent
      BY DEF OnlineAgrees
    <2>2. Sessions /\ DOMAIN box[logind] = 1..Len(box[logind])
      <3>1. box[logind] \in Seq(Mails)
        BY <2>1, Names DEF IInv, BoxOK
      <3> QED BY <2>1, <3>1 DEF IInv
    <2>3. Unknown(u) => \E m \in Mail(logind) : m.type = "logout" /\ UserOf[m.of] = u
      BY <2>2 DEF Unknown, Mail
    <2>4. \A b : Unheard(b) => \E m \in Mail(logind) : m.type = "loggedin" /\ m.ok /\ m.of = b
      BY <2>2 DEF Unheard, Mail
    <2>5. OnlineOK(u) /\ \A g \in Gate : SessionOK(g, u)
      BY <2>2 DEF Sessions
    <2> QED BY <2>3, <2>4, <2>5 DEF OnlineOK, SessionOK
  <1> QED BY <1>1, Invariant, PTL

\* CMD.logout of logind, which does not look at the subid, forgets the session
\* that has ended and never a later one, when users log in to a gate one by one.
THEOREM OwnLogout ==
  ASSUME OneByOne
  PROVE  Spec => []LogoutHitsOwn
  <1>1. IInv => LogoutHitsOwn
    <2>1. SUFFICES ASSUME IInv, NEW m \in Mail(logind), m.type = "logout"
                   PROVE  /\ user_online[UserOf[m.of]] # None
                          /\ user_online[UserOf[m.of]].address = server[m.of]
                          /\ user_online[UserOf[m.of]].subid = m.subid
      BY DEF LogoutHitsOwn
    <2>2. Messages /\ DOMAIN box[logind] = 1..Len(box[logind])
      <3>1. box[logind] \in Seq(Mails)
        BY <2>1, Names DEF IInv, BoxOK
      <3> QED BY <2>1, <3>1 DEF IInv
    <2>3. PICK i \in 1..Len(box[logind]) : m = box[logind][i]
      BY <2>2 DEF Mail
    <2>4. Leaving(m)
      BY <2>2, <2>3 DEF Messages
    <2> QED BY <2>1, <2>4 DEF Leaving
  <1> QED BY <1>1, Invariant, PTL
=============================================================================
