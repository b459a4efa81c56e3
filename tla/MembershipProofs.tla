--------------------------- MODULE MembershipProofs ---------------------------
(***************************************************************************)
(* What Membership keeps for any finite set of users, any limit and any    *)
(* number of requests and faults: the accounts of who is in the chat       *)
(* agree, the limit holds but for the race, and connected users know.      *)
(***************************************************************************)
EXTENDS Membership, FiniteSetTheorems, TLAPS

\* Until the chat is there, only its creation has written anything.
Early ==
  /\ chat <=> creating = "done"
  /\ Cardinality(people) <= MAX_PARTICIPANTS
  /\ creating \in {"chat_state", "commit"} => people \subseteq membership
  /\ creating = "commit" => people \subseteq state
  /\ ~ chat => /\ membership \subseteq people /\ state \subseteq people /\ members = None
               /\ calls = {} /\ news = {} /\ joined = {} /\ crossed = {}
               /\ \A u \in User : request[u] = None /\ conn[u] # "lists"

\* A handler has a user to itself, unless the user is crossed, and so has
\* every handler when the owner has no members.
Alone ==
  /\ \A c \in calls : c.try <= tries
  /\ \A c, d \in calls : c.user = d.user /\ c.user \notin crossed => c = d
  /\ \A c \in calls : c.old \/ members = None => c.user \in crossed

\* The rows and the members are as far as the handler of their user.
CallFits(c) ==
  /\ c.user \in membership <=> IF c.pc = "row" THEN c.op = "REMOVE" ELSE c.op = "ADD"
  /\ c.user \in state <=> IF c.pc \in {"row", "state"} THEN c.op = "REMOVE" ELSE c.op = "ADD"
  /\ c.user \in members <=> IF c.pc # "append" THEN c.op = "REMOVE" ELSE c.op = "ADD"
CallsFit == \A c \in calls : c.user \notin crossed => CallFits(c)

\* The additions under way are of one user, and there is room for it.
Counted == membership \ crossed
Room ==
  ~ raced =>
    /\ Cardinality(Counted) <= MAX_PARTICIPANTS
    /\ \A c, d \in calls : c.op = "ADD" /\ d.op = "ADD" => c.user = d.user
    /\ \A c \in calls : c.op = "ADD" /\ c.pc = "row" /\ c.user \notin crossed
         => Cardinality(Counted \cup {c.user}) <= MAX_PARTICIPANTS

\* What a user has been told, or is being told, is what the list says, unless
\* a handler that has changed the list has still to tell.
Quiet(u) == \A c \in calls : c.user = u => c.pc \in {"row", "state"}
Heard ==
  chat => \A u \in User \ (crossed \cup disturbed) :
    Quiet(u) => /\ \A n \in news : n.user = u => (n.op = "ADD" <=> u \in state)
                /\ conn[u] = "on" /\ (\A n \in news : n.user # u) => (u \in joined <=> u \in state)

IInv == TypeOK /\ Early /\ Alone /\ CallsFit /\ AccountsMatch /\ Room /\ Heard

-----------------------------------------------------------------------------
LEMMA Constants ==
  /\ IsFiniteSet(User) /\ Creator \in User /\ None \notin User /\ (\A S \in SUBSET User : None # S)
  /\ MAX_PARTICIPANTS \in Nat \ {0} /\ MaxTries \in Nat \ {0} /\ MaxEvents \in Nat
BY MembershipAssumption

LEMMA Smaller ==
  ASSUME NEW T \in SUBSET User, NEW S \in SUBSET T
  PROVE  Cardinality(S) \in Nat /\ Cardinality(T) \in Nat /\ Cardinality(S) <= Cardinality(T)
<1>1. IsFiniteSet(T) BY Constants, FS_Subset
<1>2. IsFiniteSet(S) /\ Cardinality(S) <= Cardinality(T) BY <1>1, FS_Subset
<1> QED BY <1>1, <1>2, FS_CardinalityType

\* One more event from outside is within the bound.
LEMMA OneMore ==
  ASSUME TypeOK, External
  PROVE  outside' \in 0..MaxEvents
BY Constants DEF TypeOK, External

LEMMA TablesStand ==
  ASSUME IInv, UNCHANGED <<creating, people, chat, membership, state, members, calls, tries, crossed, raced>>
  PROVE  Alone' /\ CallsFit' /\ AccountsMatch' /\ Room'
<1>1. Alone' BY DEF IInv, Alone
<1>2. CallsFit' BY DEF IInv, CallsFit, CallFits
<1>3. AccountsMatch' BY DEF IInv, AccountsMatch, Settled
<1>4. Room' BY DEF IInv, Room, Counted
<1> QED BY <1>1, <1>2, <1>3, <1>4

\* What is on its way stays and so does who is connected.
LEMMA HeardStands ==
  ASSUME TypeOK, Heard, chat, UNCHANGED <<news, conn, joined>>, disturbed \subseteq disturbed', crossed \subseteq crossed',
         \A u \in User \ (crossed' \cup disturbed') : Quiet(u)' => Quiet(u) /\ (u \in state' <=> u \in state)
  PROVE  Heard'
BY DEF Heard

-----------------------------------------------------------------------------
(* The creation.                                                           *)

LEMMA CreationKept ==
  ASSUME IInv, CreateMembership \/ CreateState \/ CreateFails
  PROVE  IInv'
<1> USE DEF IInv
<1>1. ~ chat /\ UNCHANGED <<people, chat, members, calls, request, news, conn, joined, tries, crossed, raced, disturbed>>
  BY DEF CreateMembership, CreateState, CreateFails, Early, clients
<1>2. /\ membership' \subseteq people /\ state' \subseteq people
      /\ creating' \in {"membership", "chat_state", "commit", "failed"}
      /\ creating' \in {"chat_state", "commit"} => people \subseteq membership'
      /\ creating' = "commit" => people \subseteq state'
  BY <1>1 DEF CreateMembership, CreateState, CreateFails, Batches, AfterMembership, Early, TypeOK
<1>3. outside' \in 0..MaxEvents
  BY OneMore DEF CreateMembership, CreateState, CreateFails, TypeOK
<1>4. TypeOK' BY <1>1, <1>2, <1>3 DEF TypeOK
<1>5. Early' BY <1>1, <1>2 DEF Early
<1>6. Alone' /\ CallsFit' /\ Heard' BY <1>1 DEF Early, Alone, CallsFit, Heard
<1>7. AccountsMatch' BY <1>1 DEF Early, AccountsMatch
<1>8. Room'
  <2>1. membership' \ crossed' \in SUBSET people /\ people \in SUBSET User BY <1>2, <1>1 DEF TypeOK
  <2>2. Cardinality(membership' \ crossed') <= MAX_PARTICIPANTS
    BY <2>1, Smaller, Constants DEF Early
  <2> QED BY <2>2, <1>1 DEF Room, Counted, Early
<1> QED BY <1>4, <1>5, <1>6, <1>7, <1>8

LEMMA CreateCommitKept ==
  ASSUME IInv, CreateCommit
  PROVE  IInv'
<1> USE DEF IInv
<1>1. /\ creating = "commit" /\ creating' = "done" /\ chat' = TRUE /\ ~ chat
      /\ UNCHANGED <<people, membership, state, members, calls, request, conn, tries, crossed, raced, outside>>
      /\ membership = people /\ state = people /\ calls = {} /\ news = {} /\ joined = {} /\ members = None /\ crossed = {}
  BY DEF CreateCommit, Early
<1> DEFINE told == {[op |-> "ADD", user |-> u] : u \in people}
<1>2. joined' = (IF conn[Creator] = "on" THEN {Creator} ELSE {}) /\ news' = told /\ disturbed' = disturbed
  BY <1>1 DEF CreateCommit, Tell
<1>3. TypeOK'
  <2>1. news' \subseteq [op : Op, user : User] BY <1>2 DEF TypeOK, Op
  <2>2. joined' \subseteq {u \in User : conn'[u] = "on"} BY <1>1, <1>2, Constants
  <2> QED BY <1>1, <1>2, <2>1, <2>2 DEF TypeOK
<1>4. Early' BY <1>1 DEF Early
<1>5. Alone' /\ CallsFit' BY <1>1 DEF Alone, CallsFit
<1>6. AccountsMatch' BY <1>1 DEF AccountsMatch
<1>7. Room' BY <1>1 DEF Room, Counted
<1>8. Heard'
  <2> SUFFICES ASSUME NEW u \in User
               PROVE  /\ \A n \in news' : n.user = u => (n.op = "ADD" <=> u \in state')
                      /\ (\A n \in news' : n.user # u) => (u \in joined' <=> u \in state')
    BY DEF Heard
  <2>1. \A n \in news' : n.op = "ADD" /\ n.user \in people BY <1>2
  <2>2. ASSUME \A n \in news' : n.user # u PROVE u \notin people
    <3>1. u \in people => [op |-> "ADD", user |-> u] \in told OBVIOUS
    <3> QED BY <3>1, <2>2, <1>2
  <2>3. Creator \in people BY DEF TypeOK
  <2> QED BY <1>1, <1>2, <2>1, <2>2, <2>3
<1> QED BY <1>3, <1>4, <1>5, <1>6, <1>7, <1>8

LEMMA CommitFailsKept ==
  ASSUME IInv, CommitFails
  PROVE  IInv'
<1> USE DEF IInv
<1>1. /\ creating = "commit" /\ creating' = "done" /\ chat' = TRUE /\ disturbed' = disturbed \cup people
      /\ UNCHANGED <<people, membership, state, members, calls, request, news, conn, joined, tries, crossed, raced>>
      /\ membership = people /\ state = people /\ calls = {} /\ news = {} /\ joined = {} /\ members = None
  BY DEF CommitFails, Early, clients
<1>2. outside' \in 0..MaxEvents BY OneMore DEF CommitFails, TypeOK
<1>3. TypeOK' BY <1>1, <1>2 DEF TypeOK
<1>4. Early' BY <1>1 DEF Early
<1>5. Alone' /\ CallsFit' /\ AccountsMatch' BY <1>1 DEF Alone, CallsFit, AccountsMatch
<1>6. Room' BY <1>1 DEF Room, Counted
<1>7. Heard' BY <1>1 DEF Heard
<1> QED BY <1>3, <1>4, <1>5, <1>6, <1>7

-----------------------------------------------------------------------------
(* Gateways and connections.                                               *)

\* A request comes, is sent again or is given up.
LEMMA RequestKept ==
  ASSUME IInv, NEW a \in User, TimeOut(a) \/ GiveUp(a) \/ \E op \in Op, u \in User : Modify(a, op, u)
  PROVE  IInv'
<1> USE DEF IInv
<1>1. /\ UNCHANGED <<creating, people, chat, membership, state, members, calls, news, conn, joined, tries, crossed, raced>>
      /\ disturbed \subseteq disturbed'
  BY DEF TimeOut, GiveUp, Modify, creation, clients
<1>2. chat BY DEF TimeOut, GiveUp, Modify, Early
<1>3. request' \in [User -> Request \cup {None}] /\ disturbed' \subseteq User
  <2>1. CASE TimeOut(a)
    <3>1. request[a] \in Request BY <2>1 DEF TimeOut, TypeOK
    <3>2. [request[a] EXCEPT !.try = 0] \in Request BY <3>1, Constants DEF Request
    <3>3. request' = [request EXCEPT ![a] = [request[a] EXCEPT !.try = 0]] BY <2>1 DEF TimeOut, Again
    <3> QED BY <2>1, <3>2, <3>3 DEF TimeOut, TypeOK
  <2>2. CASE GiveUp(a)
    <3>1. request[a].user \in User BY <2>2 DEF GiveUp, TypeOK, Request
    <3> QED BY <2>2, <3>1 DEF GiveUp, Done, TypeOK
  <2>3. ASSUME NEW op \in Op, NEW u \in User, Modify(a, op, u) PROVE <1>3!:
    <3>1. [op |-> op, user |-> u, try |-> 0, retried |-> FALSE] \in Request BY Constants DEF Request
    <3> QED BY <2>3, <3>1 DEF Modify, TypeOK
  <2> QED BY <2>1, <2>2, <2>3
<1>4. outside' \in 0..MaxEvents BY OneMore DEF TimeOut, GiveUp, Modify, TypeOK
<1>5. TypeOK' BY <1>1, <1>3, <1>4 DEF TypeOK
<1>6. Early' BY <1>1, <1>2 DEF Early
<1>7. Heard' BY <1>1, <1>2, HeardStands DEF Quiet
<1> QED BY <1>1, <1>5, <1>6, <1>7, TablesStand

\* A message reaches its user or does not.
LEMMA NewsKept ==
  ASSUME IInv, NEW n \in news, Deliver(n) \/ NewsLost(n)
  PROVE  IInv'
<1> USE DEF IInv
<1>1. /\ UNCHANGED <<creating, people, chat, membership, state, members, calls, request, conn, tries, crossed, raced>>
      /\ disturbed \subseteq disturbed' /\ news' = news \ {n}
      /\ n \in [op : Op, user : User]
  BY DEF Deliver, NewsLost, creation, clients, TypeOK
<1>2. chat BY DEF Early
<1>3. disturbed' \subseteq User /\ joined' \subseteq {u \in User : conn'[u] = "on"}
  BY <1>1 DEF Deliver, NewsLost, clients, With, TypeOK
<1>4. outside' \in 0..MaxEvents BY OneMore DEF Deliver, NewsLost, TypeOK
<1>5. TypeOK' BY <1>1, <1>3, <1>4 DEF TypeOK
<1>6. Early' BY <1>1, <1>2 DEF Early
<1>7. Heard'
  <2> SUFFICES ASSUME NEW u \in User \ (crossed \cup disturbed'), Quiet(u)
               PROVE  /\ \A m \in news' : m.user = u => (m.op = "ADD" <=> u \in state)
                      /\ conn[u] = "on" /\ (\A m \in news' : m.user # u) => (u \in joined' <=> u \in state)
    BY <1>1 DEF Heard, Quiet
  <2>1. /\ \A m \in news : m.user = u => (m.op = "ADD" <=> u \in state)
        /\ conn[u] = "on" /\ (\A m \in news : m.user # u) => (u \in joined <=> u \in state)
    BY <1>1, <1>2 DEF Heard
  <2>2. CASE NewsLost(n)
    <3>1. n.user # u /\ joined' = joined BY <2>2 DEF NewsLost, clients
    <3> QED BY <3>1, <2>1, <1>1
  <2>3. CASE Deliver(n)
    <3>1. joined' = IF conn[n.user] = "on" THEN With(joined, n) ELSE joined BY <2>3 DEF Deliver
    <3>2. CASE n.user = u BY <3>1, <3>2, <2>1, <1>1 DEF With, Op
    <3>3. CASE n.user # u
      <4>1. u \in joined' <=> u \in joined BY <3>1, <3>3 DEF With
      <4> QED BY <4>1, <3>3, <2>1, <1>1
    <3> QED BY <3>2, <3>3
  <2> QED BY <2>2, <2>3
<1> QED BY <1>1, <1>5, <1>6, <1>7, TablesStand

LEMMA ConnectionKept ==
  ASSUME IInv, NEW u \in User, Disconnect(u) \/ Connect(u) \/ Join(u)
  PROVE  IInv'
<1> USE DEF IInv
<1>1. /\ UNCHANGED <<creating, people, chat, membership, state, members, calls, request, news, tries, crossed, raced>>
      /\ disturbed \ {u} \subseteq disturbed' /\ disturbed' \subseteq disturbed \cup {u}
      /\ \A v \in User \ {u} : conn'[v] = conn[v] /\ (v \in joined' <=> v \in joined)
  BY DEF Disconnect, Connect, Join, Leave, creation, TypeOK
<1>2. /\ conn' \in [User -> {"off", "lists", "misses", "on"}] /\ joined' \subseteq {v \in User : conn'[v] = "on"}
      /\ ~ chat => conn'[u] # "lists" /\ joined' \subseteq joined
  <2>1. CASE Disconnect(u) BY <2>1 DEF Disconnect, Leave, TypeOK
  <2>2. CASE Connect(u) BY <2>2 DEF Connect, Listed, get_chats, TypeOK
  <2>3. CASE Join(u) BY <2>3 DEF Join, TypeOK, Early
  <2> QED BY <2>1, <2>2, <2>3
<1>3. outside' \in 0..MaxEvents BY OneMore DEF Disconnect, Connect, Join, TypeOK
<1>4. TypeOK'
  <2>1. disturbed' \subseteq User BY <1>1 DEF TypeOK
  <2> QED BY <1>1, <1>2, <1>3, <2>1 DEF TypeOK
<1>5. Early' BY <1>1, <1>2 DEF Early
<1>6. Heard'
  <2> SUFFICES ASSUME chat, NEW v \in User \ (crossed \cup disturbed'), Quiet(v)
               PROVE  /\ \A n \in news : n.user = v => (n.op = "ADD" <=> v \in state)
                      /\ conn'[v] = "on" /\ (\A n \in news : n.user # v) => (v \in joined' <=> v \in state)
    BY <1>1 DEF Heard, Quiet
  <2>1. CASE v # u BY <2>1, <1>1 DEF Heard
  <2>2. CASE v = u
    <3>1. CASE u \notin disturbed
      <4>1. \A n \in news : n.user = v => (n.op = "ADD" <=> v \in state) BY <3>1, <2>2, <1>1 DEF Heard
      <4>2. CASE Disconnect(u) \/ Connect(u)
        <5>1. conn'[u] # "on" BY <4>2 DEF Disconnect, Connect, TypeOK
        <5> QED BY <4>1, <5>1, <2>2
      <4>3. CASE Join(u)
        <5>1. (conn[u] = "lists") <=> Listed(u) BY <4>3, <2>2 DEF Join
        <5>2. u \in joined' <=> conn[u] = "lists" BY <4>3 DEF Join, TypeOK
        <5> QED BY <4>1, <5>1, <5>2, <2>2 DEF Listed, get_chats
      <4> QED BY <4>2, <4>3
    <3>2. CASE u \in disturbed
      <4>1. Join(u) /\ ((conn[u] = "lists") <=> Listed(u)) /\ \A n \in news : n.user # u
        BY <3>2, <2>2 DEF Disconnect, Connect, Join
      <4>2. u \in joined' <=> conn[u] = "lists" BY <4>1 DEF Join, TypeOK
      <4> QED BY <4>1, <4>2, <2>2 DEF Listed, get_chats
    <3> QED BY <3>1, <3>2
  <2> QED BY <2>1, <2>2
<1> QED BY <1>1, <1>4, <1>5, <1>6, TablesStand

-----------------------------------------------------------------------------
(* The owner.                                                              *)

\* Who is counted does not become more, and no handler is new.
LEMMA RoomStands ==
  ASSUME TypeOK, Room, raced => raced', Counted' \subseteq Counted, crossed \subseteq crossed',
         \A c \in calls' : \E d \in calls : d.user = c.user /\ d.op = c.op /\ (c.pc = "row" => d.pc = "row")
  PROVE  Room'
<1> SUFFICES ASSUME ~ raced
             PROVE  /\ Cardinality(Counted') <= MAX_PARTICIPANTS
                    /\ \A c, d \in calls' : c.op = "ADD" /\ d.op = "ADD" => c.user = d.user
                    /\ \A c \in calls' : c.op = "ADD" /\ c.pc = "row" /\ c.user \notin crossed'
                         => Cardinality(Counted' \cup {c.user}) <= MAX_PARTICIPANTS
  BY DEF Room
<1>1. Counted \in SUBSET User /\ Counted' \in SUBSET Counted BY DEF TypeOK, Counted
<1>2. Cardinality(Counted') <= MAX_PARTICIPANTS BY <1>1, Smaller, Constants DEF Room
<1>3. \A c, d \in calls' : c.op = "ADD" /\ d.op = "ADD" => c.user = d.user BY DEF Room
<1>4. ASSUME NEW c \in calls', c.op = "ADD", c.pc = "row", c.user \notin crossed'
      PROVE  Cardinality(Counted' \cup {c.user}) <= MAX_PARTICIPANTS
  <2>1. PICK d \in calls : d.user = c.user /\ d.op = "ADD" /\ d.pc = "row" BY <1>4
  <2>2. c.user \in User BY <2>1 DEF TypeOK, Call
  <2>3. Counted \cup {c.user} \in SUBSET User /\ Counted' \cup {c.user} \in SUBSET (Counted \cup {c.user})
    BY <1>1, <2>2
  <2>4. Cardinality(Counted \cup {c.user}) <= MAX_PARTICIPANTS BY <1>4, <2>1 DEF Room
  <2> QED BY <2>3, <2>4, Smaller, Constants
<1> QED BY <1>2, <1>3, <1>4

LEMMA LoadChatKept ==
  ASSUME IInv, LoadChat
  PROVE  IInv'
<1> USE DEF IInv
<1>1. /\ chat /\ members = None /\ members' = membership
      /\ UNCHANGED <<creating, people, chat, membership, state, calls, request, news, conn, joined, tries, crossed, raced, disturbed, outside>>
  BY DEF LoadChat, get_chats, list_members, creation, clients
<1>2. \A c \in calls : c.user \in crossed BY <1>1 DEF Alone
<1>3. TypeOK' BY <1>1 DEF TypeOK
<1>4. Early' /\ Alone' /\ CallsFit' BY <1>1, <1>2 DEF Early, Alone, CallsFit
<1>5. AccountsMatch' BY <1>1 DEF AccountsMatch, Settled
<1>6. Room' BY <1>1 DEF Room, Counted
<1>7. Heard' BY <1>1, HeardStands DEF Quiet
<1> QED BY <1>3, <1>4, <1>5, <1>6, <1>7

LEMMA StartModifyKept ==
  ASSUME IInv, NEW a \in User, StartModify(a)
  PROVE  IInv'
<1> USE DEF IInv
<1> DEFINE op == request[a].op
           u == request[a].user
           e == [actor |-> a, try |-> tries', op |-> op, user |-> u, pc |-> "row", old |-> FALSE]
<1>1. /\ members # None /\ request[a] # None /\ tries < MaxTries /\ tries' = tries + 1
      /\ UNCHANGED <<creating, people, chat, membership, state, members, news, conn, joined, disturbed, outside>>
  BY DEF StartModify, creation, clients
<1>2. /\ chat /\ request[a] \in Request /\ op \in Op /\ u \in User /\ tries' \in 1..MaxTries
      /\ tries \in Nat /\ \A c \in calls : c \in Call /\ c.try \in Nat
  BY <1>1, Constants DEF Early, TypeOK, Request, Call
<1>3. CASE Refused(a, op, u) \/ Noop(op, u)
  <2>1. request' = [request EXCEPT ![a] = None] /\ UNCHANGED <<calls, crossed, raced>>
    BY <1>3 DEF StartModify, Done
  <2>2. TypeOK' BY <1>1, <1>2, <2>1, Constants DEF TypeOK
  <2>3. Early' BY <1>1, <1>2, <2>1 DEF Early
  <2>4. Alone' BY <1>1, <1>2, <2>1 DEF Alone
  <2>5. CallsFit' /\ AccountsMatch' /\ Room'
    BY <1>1, <2>1 DEF CallsFit, CallFits, AccountsMatch, Settled, Room, Counted
  <2>6. Heard' BY <1>1, <1>2, <2>1, HeardStands DEF Quiet
  <2> QED BY <2>2, <2>3, <2>4, <2>5, <2>6
<1>4. CASE ~ (Refused(a, op, u) \/ Noop(op, u))
  <2>1. /\ request' = [request EXCEPT ![a].try = tries']
        /\ calls' = calls \cup {e}
        /\ crossed' = IF \E c \in calls : c.user = u THEN crossed \cup {u} ELSE crossed
        /\ raced' = (raced \/ (op = "ADD" /\ \E c \in calls : c.op = "ADD" /\ c.user # u))
    BY <1>4 DEF StartModify
  <2>2. e \in Call BY <1>2 DEF Call
  <2>3. e.user = u /\ e.op = op /\ e.pc = "row" /\ e.try = tries + 1 /\ e.old = FALSE BY <1>1
  <2> HIDE DEF e
  <2>4. /\ op = "ADD" => u \notin members /\ Cardinality(members) < MAX_PARTICIPANTS
        /\ op = "REMOVE" => u \in members
    <3>1. members \in SUBSET User BY <1>1 DEF TypeOK
    <3>2. Cardinality(members) \in Nat BY <3>1, Smaller
    <3> QED BY <1>4, <1>2, <3>2, Constants DEF Refused, Noop, Full, Op
  <2>5. TypeOK'
    <3>1. [request[a] EXCEPT !.try = tries'] \in Request BY <1>2 DEF Request
    <3>2. request' \in [User -> Request \cup {None}] BY <3>1, <2>1 DEF TypeOK
    <3>3. \A c, d \in calls' : c.try = d.try => c = d BY <1>2, <2>1, <2>3 DEF Alone, TypeOK
    <3>4. crossed' \subseteq User BY <1>2, <2>1 DEF TypeOK
    <3>5. raced' \in BOOLEAN BY <2>1 DEF TypeOK
    <3>6. tries' \in 0..MaxTries BY <1>2
    <3>7. calls' \subseteq Call BY <2>1, <2>2 DEF TypeOK
    <3> QED BY <1>1, <3>2, <3>3, <3>4, <3>5, <3>6, <3>7 DEF TypeOK
  <2>6. Early' BY <1>1, <1>2 DEF Early
  <2>7. Alone'
    <3>1. \A c \in calls' : c.try <= tries' BY <1>1, <1>2, <2>1, <2>3 DEF Alone
    <3>2. \A c, d \in calls' : c.user = d.user /\ c.user \notin crossed' => c = d
      BY <2>1, <2>3 DEF Alone
    <3>3. \A c \in calls' : c.old \/ members' = None => c.user \in crossed'
      BY <1>1, <2>1, <2>3 DEF Alone
    <3> QED BY <3>1, <3>2, <3>3 DEF Alone
  <2>8. u \notin crossed' => Settled(u) BY <2>1 DEF Settled
  <2>9. u \notin crossed' => /\ u \in membership <=> u \in members
                             /\ u \in state <=> u \in members
    BY <2>8, <1>1, <1>2 DEF AccountsMatch
  <2>10. CallsFit'
    <3>1. ASSUME NEW c \in calls', c.user \notin crossed' PROVE CallFits(c)'
      <4>1. CASE c \in calls
        <5>1. c.user \notin crossed BY <3>1, <2>1
        <5> QED BY <4>1, <5>1, <1>1 DEF CallsFit, CallFits
      <4>2. CASE c = e
        BY <4>2, <3>1, <2>3, <2>4, <2>9, <1>1, <1>2 DEF CallFits, Op
      <4> QED BY <4>1, <4>2, <2>1
    <3> QED BY <3>1 DEF CallsFit
  <2>11. AccountsMatch'
    <3>1. ASSUME NEW v \in User, Settled(v)' PROVE Settled(v)
      BY <3>1, <2>1 DEF Settled
    <3> QED BY <3>1, <1>1 DEF AccountsMatch
  <2>12. Room'
    <3> SUFFICES ASSUME ~ raced'
                 PROVE  /\ Cardinality(Counted') <= MAX_PARTICIPANTS
                        /\ \A c, d \in calls' : c.op = "ADD" /\ d.op = "ADD" => c.user = d.user
                        /\ \A c \in calls' : c.op = "ADD" /\ c.pc = "row" /\ c.user \notin crossed'
                             => Cardinality(Counted' \cup {c.user}) <= MAX_PARTICIPANTS
      BY DEF Room
    <3>1. Counted \in SUBSET User /\ Counted' \in SUBSET Counted BY <1>1, <2>1 DEF TypeOK, Counted
    <3>2. Cardinality(Counted') <= MAX_PARTICIPANTS
      <4>1. Cardinality(Counted) <= MAX_PARTICIPANTS BY <2>1 DEF Room
      <4>2. Cardinality(Counted') <= Cardinality(Counted) /\ Cardinality(Counted') \in Nat /\ Cardinality(Counted) \in Nat
        BY <3>1, Smaller
      <4> QED BY <4>1, <4>2, Constants
    <3>3. \A c, d \in calls' : c.op = "ADD" /\ d.op = "ADD" => c.user = d.user
      BY <2>1, <2>3 DEF Room
    <3>4. ASSUME NEW c \in calls', c.op = "ADD", c.pc = "row", c.user \notin crossed'
          PROVE  Cardinality(Counted' \cup {c.user}) <= MAX_PARTICIPANTS
      <4>1. CASE c \in calls
        <5>1. c.user \in User /\ c.user \notin crossed BY <4>1, <1>2, <3>4, <2>1 DEF Call
        <5>2. Cardinality(Counted \cup {c.user}) <= MAX_PARTICIPANTS BY <4>1, <3>4, <5>1, <2>1 DEF Room
        <5>3. Counted \cup {c.user} \in SUBSET User /\ Counted' \cup {c.user} \in SUBSET (Counted \cup {c.user})
          BY <3>1, <5>1
        <5> QED BY <5>2, <5>3, Smaller, Constants
      <4>2. CASE c = e
        <5>1. op = "ADD" /\ u \notin crossed' /\ c.user = u BY <4>2, <3>4, <2>3
        <5>2. ASSUME NEW v \in Counted' PROVE v \in members
          <6>1. v \in User /\ v \in membership /\ v \notin crossed BY <5>2, <1>1, <2>1 DEF Counted, TypeOK
          <6>2. CASE Settled(v) BY <6>1, <6>2, <1>1 DEF AccountsMatch
          <6>3. ASSUME NEW d \in calls, d.user = v PROVE v \in members
            <7>1. d.op \in Op /\ CallFits(d) BY <6>1, <6>3, <1>2 DEF CallsFit, Call
            <7>2. CASE d.op = "ADD"
              <8>1. d.user = u BY <5>1, <7>2, <2>1
              <8> QED BY <8>1, <5>1, <2>1
            <7>3. CASE d.op = "REMOVE" BY <7>1, <7>3, <6>1, <6>3 DEF CallFits
            <7> QED BY <7>1, <7>2, <7>3 DEF Op
          <6> QED BY <6>1, <6>2, <6>3 DEF Settled
        <5>3. members \in SUBSET User BY <1>1 DEF TypeOK
        <5>4. IsFiniteSet(members) BY <5>3, Constants, FS_Subset
        <5>5. members \cup {u} \in SUBSET User /\ Counted' \cup {u} \in SUBSET (members \cup {u})
          BY <5>2, <5>3, <1>2
        <5>6. Cardinality(members \cup {u}) = Cardinality(members) + 1
          BY <5>4, <5>1, <2>4, FS_AddElement
        <5>7. Cardinality(members) \in Nat BY <5>3, Smaller
        <5>8. Cardinality(Counted' \cup {u}) <= Cardinality(members \cup {u}) /\ Cardinality(Counted' \cup {u}) \in Nat
          BY <5>5, Smaller
        <5> QED BY <5>1, <5>6, <5>7, <5>8, <2>4, Constants
      <4> QED BY <4>1, <4>2, <2>1
    <3> QED BY <3>2, <3>3, <3>4
  <2>13. Heard' BY <1>1, <1>2, <2>1, HeardStands DEF Quiet
  <2> QED BY <2>5, <2>6, <2>7, <2>10, <2>11, <2>12, <2>13
<1> QED BY <1>3, <1>4

\* A handler goes on: nobody else's users, requests or answers change.
LEMMA HandlerMoves ==
  ASSUME IInv, NEW c \in calls, NEW pc \in {"state", "apply", "append"}, After(c, pc),
         UNCHANGED <<tries, crossed>>, members' = None => members = None
  PROVE  /\ calls' \subseteq Call /\ \A d, e \in calls' : d.try = e.try => d = e
         /\ Alone'
         /\ \E e \in calls' : /\ e = [c EXCEPT !.pc = pc] /\ e.pc = pc /\ e.user = c.user /\ e.op = c.op /\ e.old = c.old
                              /\ \A d \in calls' : d = e \/ (d \in calls /\ d # c)
                              /\ calls \ {c} \subseteq calls'
         /\ \A u \in User : Settled(u)' => Settled(u)
<1> DEFINE e == [c EXCEPT !.pc = pc]
<1>1. c \in Call BY DEF IInv, TypeOK
<1>2. e \in Call /\ e.pc = pc /\ e.user = c.user /\ e.op = c.op /\ e.old = c.old /\ e.try = c.try BY <1>1 DEF Call
<1>3. calls' = (calls \ {c}) \cup {e} BY DEF After
<1> HIDE DEF e
<1>4. calls' \subseteq Call /\ \A d, f \in calls' : d.try = f.try => d = f
  BY <1>2, <1>3 DEF IInv, TypeOK
<1>5. Alone'
  <2>1. \A d \in calls' : d.try <= tries' BY <1>2, <1>3 DEF IInv, Alone
  <2>2. \A d, f \in calls' : d.user = f.user /\ d.user \notin crossed' => d = f
    BY <1>2, <1>3 DEF IInv, Alone
  <2>3. \A d \in calls' : d.old \/ members' = None => d.user \in crossed'
    BY <1>2, <1>3 DEF IInv, Alone
  <2> QED BY <2>1, <2>2, <2>3 DEF Alone
<1>6. \A u \in User : Settled(u)' => Settled(u) BY <1>2, <1>3 DEF Settled
<1> QED BY <1>2, <1>3, <1>4, <1>5, <1>6 DEF e

\* What a handler writes concerns the user it is for.
LEMMA WriteKept ==
  ASSUME IInv, NEW c \in calls, WriteRow(c) \/ WriteState(c) \/ Apply(c)
  PROVE  IInv'
<1> USE DEF IInv
<1>1. /\ UNCHANGED <<creating, people, chat, request, news, conn, joined, tries, crossed, raced, disturbed, outside>>
      /\ chat /\ c \in Call /\ c.op \in Op /\ c.user \in User
  BY DEF WriteRow, WriteState, Apply, creation, clients, Early, TypeOK, Call
<1>2. PICK pc \in {"state", "apply", "append"} :
        /\ After(c, pc)
        /\ pc = "state" => c.pc = "row" /\ membership' = With(membership, c) /\ UNCHANGED <<state, members>>
        /\ pc = "apply" => c.pc = "state" /\ state' = With(state, c) /\ UNCHANGED <<membership, members>>
        /\ pc = "append" => /\ c.pc = "apply" /\ UNCHANGED <<membership, state>>
                            /\ members' = IF c.old \/ members = None THEN members ELSE With(members, c)
  BY DEF WriteRow, WriteState, Apply
<1>4. /\ membership' \subseteq User /\ state' \subseteq User /\ (members' = None \/ members' \subseteq User)
      /\ \A v \in User \ {c.user} : /\ v \in membership' <=> v \in membership
                                    /\ v \in state' <=> v \in state
                                    /\ v \in members' <=> v \in members
  BY <1>1, <1>2 DEF With, TypeOK
<1>5. members' = None => members = None
  BY <1>1, <1>2, Constants DEF With, TypeOK
<1>6. /\ calls' \subseteq Call /\ \A d, f \in calls' : d.try = f.try => d = f
      /\ \E f \in calls' : /\ f.pc = pc /\ f.user = c.user /\ f.op = c.op /\ f.old = c.old
                           /\ \A d \in calls' : d = f \/ (d \in calls /\ d # c)
                           /\ calls \ {c} \subseteq calls'
      /\ \A u \in User : Settled(u)' => Settled(u)
      /\ Alone'
  BY <1>1, <1>2, <1>5, HandlerMoves
<1>7. PICK e \in calls' : /\ e.pc = pc /\ e.user = c.user /\ e.op = c.op /\ e.old = c.old
                          /\ \A d \in calls' : d = e \/ (d \in calls /\ d # c)
                          /\ calls \ {c} \subseteq calls'
  BY <1>6
<1>8. TypeOK' BY <1>1, <1>4, <1>6 DEF TypeOK
<1>9. Early' BY <1>1 DEF Early
<1>10. CallsFit'
  <2>1. ASSUME NEW d \in calls', d.user \notin crossed' PROVE CallFits(d)'
    <3>1. CASE d = e
      <4>1. c.user \notin crossed /\ CallFits(c) /\ members # None /\ ~ c.old
        BY <2>1, <3>1, <1>1, <1>7 DEF CallsFit, Alone
      <4> QED BY <3>1, <4>1, <1>1, <1>2, <1>7 DEF CallFits, With, Op
    <3>2. CASE d # e
      <4>1. d \in calls /\ d # c /\ d.user \notin crossed BY <3>2, <2>1, <1>1, <1>7
      <4>2. d.user # c.user /\ d.user \in User BY <4>1 DEF Alone, TypeOK, Call
      <4>3. CallFits(d) BY <4>1 DEF CallsFit
      <4> QED BY <4>2, <4>3, <1>4 DEF CallFits
    <3> QED BY <3>1, <3>2
  <2> QED BY <2>1 DEF CallsFit
<1>11. AccountsMatch'
  <2>1. ASSUME NEW u \in User, Settled(u)' PROVE u # c.user /\ Settled(u)
    BY <2>1, <1>6, <1>7 DEF Settled
  <2>2. ASSUME NEW u \in User, Settled(u)'
        PROVE  /\ u \in membership' <=> u \in state'
               /\ members' # None => (u \in members' <=> u \in membership')
    BY <2>1, <2>2, <1>1, <1>2, <1>4 DEF AccountsMatch
  <2> QED BY <2>2, <1>1 DEF AccountsMatch
<1>12. Room'
  <2>1. \A d \in calls' : \E f \in calls : f.user = d.user /\ f.op = d.op /\ (d.pc = "row" => f.pc = "row")
    BY <1>7
  <2>2. CASE Counted' \subseteq Counted BY <2>1, <2>2, <1>1, RoomStands
  <2>3. CASE ~ (Counted' \subseteq Counted)
    <3>1. /\ pc = "state" /\ c.pc = "row" /\ c.op = "ADD" /\ c.user \notin crossed
          /\ Counted' \subseteq Counted \cup {c.user}
      BY <2>3, <1>1, <1>2 DEF Counted, With, Op
    <3> SUFFICES ASSUME ~ raced
                 PROVE  /\ Cardinality(Counted') <= MAX_PARTICIPANTS
                        /\ \A d, f \in calls' : d.op = "ADD" /\ f.op = "ADD" => d.user = f.user
                        /\ \A d \in calls' : d.op = "ADD" /\ d.pc = "row" /\ d.user \notin crossed'
                             => Cardinality(Counted' \cup {d.user}) <= MAX_PARTICIPANTS
      BY <1>1 DEF Room
    <3>2. Cardinality(Counted \cup {c.user}) <= MAX_PARTICIPANTS BY <3>1 DEF Room
    <3>3. \A d, f \in calls' : d.op = "ADD" /\ f.op = "ADD" => d.user = f.user BY <2>1 DEF Room
    <3>4. Counted \cup {c.user} \in SUBSET User BY <1>1 DEF Counted, TypeOK
    <3>5. Cardinality(Counted') <= MAX_PARTICIPANTS BY <3>1, <3>2, <3>4, Smaller, Constants
    <3>6. ASSUME NEW d \in calls', d.op = "ADD", d.user \notin crossed' PROVE Counted' \cup {d.user} \subseteq Counted \cup {c.user}
      <4>1. d.user = c.user BY <3>6, <3>3, <1>7, <3>1
      <4> QED BY <4>1, <3>1
    <3>7. ASSUME NEW d \in calls', d.op = "ADD", d.user \notin crossed'
          PROVE  Cardinality(Counted' \cup {d.user}) <= MAX_PARTICIPANTS
      BY <3>6, <3>7, <3>2, <3>4, Smaller, Constants
    <3> QED BY <3>3, <3>5, <3>7
  <2> QED BY <2>2, <2>3
<1>13. Heard'
  <2>1. ASSUME NEW u \in User \ (crossed' \cup disturbed'), Quiet(u)'
        PROVE  Quiet(u) /\ (u \in state' <=> u \in state)
    <3>1. CASE u = c.user
      <4>1. pc = "state" BY <2>1, <3>1, <1>7 DEF Quiet
      <4>2. u \notin crossed /\ c.pc = "row" /\ UNCHANGED state BY <2>1, <4>1, <1>1, <1>2
      <4>3. \A d \in calls : d.user = u => d = c BY <3>1, <4>2 DEF Alone
      <4> QED BY <4>2, <4>3 DEF Quiet
    <3>2. CASE u # c.user BY <2>1, <3>2, <1>4, <1>7 DEF Quiet
    <3> QED BY <3>1, <3>2
  <2> QED BY <2>1, <1>1, HeardStands
<1> QED BY <1>6, <1>8, <1>9, <1>10, <1>11, <1>12, <1>13

\* A handler ends, with or without having done its work.
LEMMA HandlerEnds ==
  ASSUME IInv, NEW c \in calls, WriteFails(c) \/ Appended(c) \/ AppendFails(c)
  PROVE  IInv'
<1> USE DEF IInv
<1>1. /\ UNCHANGED <<creating, people, chat, membership, state, members, conn, joined, tries, raced>>
      /\ calls' = calls \ {c} /\ crossed \subseteq crossed' /\ disturbed \subseteq disturbed'
      /\ chat /\ c \in Call /\ c.op \in Op /\ c.user \in User /\ c.actor \in User
  BY DEF WriteFails, Appended, AppendFails, Tell, creation, clients, Early, TypeOK, Call
<1>2. /\ crossed' \subseteq User /\ disturbed' \subseteq User /\ news' \subseteq [op : Op, user : User]
      /\ request' \in [User -> Request \cup {None}]
  <2>1. CASE WriteFails(c) BY <2>1, <1>1 DEF WriteFails, TypeOK
  <2>2. CASE Appended(c)
    <3>1. [op |-> c.op, user |-> c.user] \in [op : Op, user : User] BY <1>1
    <3> QED BY <2>2, <3>1, <1>1 DEF Appended, Tell, Told, Done, TypeOK
  <2>3. CASE AppendFails(c)
    <3>1. UNCHANGED <<crossed, news>> /\ disturbed' = disturbed \cup {c.user} BY <2>3 DEF AppendFails
    <3>2. request' \in [User -> Request \cup {None}]
      <4>1. CASE ~ Awaited(c) BY <2>3, <4>1 DEF AppendFails, TypeOK
      <4>2. CASE Awaited(c)
        <5>1. request[c.actor] \in Request BY <4>2, <1>1 DEF Awaited, TypeOK
        <5>2. [request[c.actor] EXCEPT !.try = 0] \in Request BY <5>1, Constants DEF Request
        <5>3. [request[c.actor] EXCEPT !.try = 0, !.retried = TRUE] \in Request
          <6>1. \A x \in Request : [x EXCEPT !.retried = TRUE] \in Request BY DEF Request
          <6> QED BY <5>2, <6>1
        <5>4. \/ request' = [request EXCEPT ![c.actor] = None]
              \/ request' = [request EXCEPT ![c.actor] = [request[c.actor] EXCEPT !.try = 0]]
              \/ request' = [request EXCEPT ![c.actor] = [request[c.actor] EXCEPT !.try = 0, !.retried = TRUE]]
          BY <2>3, <4>2, <1>1 DEF AppendFails, Done, Again, TypeOK
        <5> QED BY <5>2, <5>3, <5>4 DEF TypeOK
      <4> QED BY <4>1, <4>2
    <3> QED BY <3>1, <3>2, <1>1 DEF TypeOK
  <2> QED BY <2>1, <2>2, <2>3
<1>3. outside' \in 0..MaxEvents
  BY OneMore DEF WriteFails, Appended, AppendFails, TypeOK
<1>4. TypeOK' BY <1>1, <1>2, <1>3 DEF TypeOK
<1>5. Early' BY <1>1 DEF Early
<1>6. Alone' BY <1>1 DEF Alone
<1>7. CallsFit' BY <1>1 DEF CallsFit, CallFits
<1>8. AccountsMatch'
  <2> SUFFICES ASSUME NEW u \in User, Settled(u)'
               PROVE  (u \in membership <=> u \in state) /\ (members # None => (u \in members <=> u \in membership))
    BY <1>1 DEF AccountsMatch
  <2>1. u \notin crossed /\ \A d \in calls : d # c => d.user # u BY <1>1 DEF Settled
  <2>2. CASE c.user # u BY <2>1, <2>2, <1>1 DEF AccountsMatch, Settled
  <2>3. CASE c.user = u
    <3>1. CallFits(c) BY <2>1, <2>3 DEF CallsFit
    <3>2. c.pc \in {"row", "append"} BY <2>3, <1>1 DEF Settled, WriteFails, Appended, AppendFails
    <3> QED BY <2>3, <3>1, <3>2 DEF CallFits
  <2> QED BY <2>2, <2>3
<1>9. Room' BY <1>1, RoomStands DEF Counted
<1>10. Heard'
  <2> SUFFICES ASSUME NEW u \in User \ (crossed' \cup disturbed'), Quiet(u)'
               PROVE  /\ \A n \in news' : n.user = u => (n.op = "ADD" <=> u \in state)
                      /\ conn[u] = "on" /\ (\A n \in news' : n.user # u) => (u \in joined <=> u \in state)
    BY <1>1 DEF Heard
  <2>1. u \notin crossed /\ u \notin disturbed BY <1>1
  <2>2. CASE c.user # u
    <3>1. \A n : n.user = u => (n \in news' <=> n \in news)
      BY <2>2, <1>1 DEF WriteFails, Appended, AppendFails, Tell, Told
    <3>2. Quiet(u) BY <2>2, <1>1 DEF Quiet
    <3> QED BY <2>1, <3>1, <3>2, <1>1 DEF Heard
  <2>3. CASE c.user = u
    <3>1. CASE WriteFails(c)
      <4>1. Quiet(u) BY <3>1, <2>3, <1>1 DEF Quiet, WriteFails
      <4> QED BY <3>1, <4>1, <2>1, <1>1 DEF Heard, WriteFails
    <3>2. CASE Appended(c)
      <4> DEFINE r == [op |-> c.op, user |-> u]
      <4>1. news' = news \cup {r} /\ r.op = c.op /\ r.user = u /\ \A n \in news : n.user # u
        <5>1. Awaited(c) /\ Tell(Told(c)) BY <3>2, <2>3 DEF Appended
        <5>2. Told(c) = {r} BY <2>3 DEF Told
        <5>3. r.op = c.op /\ r.user = u OBVIOUS
        <5>4. ASSUME NEW n \in news, n.user = u PROVE FALSE
          <6>1. r \in {m \in Told(c) : \E o \in news : o.user = m.user} BY <5>2, <5>3, <5>4
          <6>2. r.user \in disturbed' BY <6>1, <5>1 DEF Tell
          <6> QED BY <6>2, <5>3
        <5> QED BY <5>1, <5>2, <5>3, <5>4 DEF Tell
      <4> HIDE DEF r
      <4>2. u \in state <=> c.op = "ADD" BY <3>2, <2>1, <2>3 DEF CallsFit, CallFits, Appended
      <4> QED BY <4>1, <4>2
    <3>3. CASE AppendFails(c) BY <3>3, <2>3 DEF AppendFails
    <3> QED BY <3>1, <3>2, <3>3
  <2> QED BY <2>2, <2>3
<1> QED BY <1>4, <1>5, <1>6, <1>7, <1>8, <1>9, <1>10

\* A row is written by a call that fails: its user is crossed.
LEMMA WrittenFailsKept ==
  ASSUME IInv, NEW c \in calls, WrittenFails(c)
  PROVE  IInv'
<1> USE DEF IInv
<1>1. /\ UNCHANGED <<creating, people, chat, members, request, news, conn, joined, tries, raced, disturbed>>
      /\ calls' = calls \ {c} /\ crossed' = crossed \cup {c.user}
      /\ chat /\ c \in Call /\ c.user \in User
  BY DEF WrittenFails, creation, clients, Early, TypeOK, Call
<1>2. /\ membership' \subseteq User /\ state' \subseteq User
      /\ \A v \in User \ {c.user} : (v \in membership' <=> v \in membership) /\ (v \in state' <=> v \in state)
  BY <1>1 DEF WrittenFails, With, TypeOK
<1>3. outside' \in 0..MaxEvents BY OneMore DEF WrittenFails, TypeOK
<1>4. TypeOK' BY <1>1, <1>2, <1>3 DEF TypeOK
<1>5. Early' BY <1>1 DEF Early
<1>6. Alone' BY <1>1 DEF Alone
<1>7. CallsFit'
  <2>1. ASSUME NEW d \in calls', d.user \notin crossed' PROVE CallFits(d)'
    <3>1. d \in calls /\ d.user \in User \ {c.user} /\ CallFits(d) BY <2>1, <1>1 DEF CallsFit, TypeOK, Call
    <3> QED BY <3>1, <1>1, <1>2 DEF CallFits
  <2> QED BY <2>1 DEF CallsFit
<1>8. AccountsMatch'
  <2>1. ASSUME NEW u \in User, Settled(u)' PROVE u # c.user /\ Settled(u) BY <2>1, <1>1 DEF Settled
  <2> QED BY <2>1, <1>1, <1>2 DEF AccountsMatch
<1>9. Room'
  <2>1. Counted' \subseteq Counted BY <1>1, <1>2 DEF Counted
  <2> QED BY <2>1, <1>1, RoomStands
<1>10. Heard'
  <2>1. ASSUME NEW u \in User \ (crossed' \cup disturbed'), Quiet(u)'
        PROVE  Quiet(u) /\ (u \in state' <=> u \in state)
    BY <2>1, <1>1, <1>2 DEF Quiet
  <2> QED BY <2>1, <1>1, HeardStands
<1> QED BY <1>4, <1>5, <1>6, <1>7, <1>8, <1>9, <1>10

\* The owner changes or dies: its handlers' users are crossed.
LEMMA OwnerGoes ==
  ASSUME IInv, ShardMoves \/ OwnerCrashes
  PROVE  IInv'
<1> USE DEF IInv
<1>1. /\ UNCHANGED <<creating, people, chat, membership, state, request, news, conn, joined, tries, disturbed>>
      /\ members # None /\ members' = None /\ chat
      /\ crossed' = crossed \cup {c.user : c \in calls}
      /\ raced' \in {TRUE, raced}
      /\ calls' = {} \/ calls' = {[c EXCEPT !.old = TRUE] : c \in calls}
  <2>1. members # None => chat BY DEF Early
  <2>2. CASE ShardMoves
    <3>1. raced' \in {TRUE, raced} BY <2>2 DEF ShardMoves, TypeOK
    <3> QED BY <2>1, <2>2, <3>1 DEF ShardMoves, creation, clients
  <2>3. CASE OwnerCrashes BY <2>1, <2>3 DEF OwnerCrashes, creation, clients
  <2> QED BY <2>2, <2>3
<1>2. ASSUME NEW d \in calls'
      PROVE  \E c \in calls : d = [c EXCEPT !.old = TRUE] /\ c \in Call /\ d \in Call
                              /\ d.user = c.user /\ d.op = c.op /\ d.pc = c.pc /\ d.try = c.try
  <2>1. PICK c \in calls : d = [c EXCEPT !.old = TRUE] BY <1>2, <1>1
  <2>2. c \in Call BY DEF TypeOK
  <2> QED BY <2>1, <2>2 DEF Call
<1>3. \A d \in calls' : d.user \in crossed' BY <1>1, <1>2
<1>4. TypeOK'
  <2>1. calls' \subseteq Call BY <1>2
  <2>2. \A d, f \in calls' : d.try = f.try => d = f
    <3> SUFFICES ASSUME NEW d \in calls', NEW f \in calls', d.try = f.try PROVE d = f OBVIOUS
    <3>1. PICK c \in calls : d = [c EXCEPT !.old = TRUE] /\ d.try = c.try BY <1>2
    <3>2. PICK g \in calls : f = [g EXCEPT !.old = TRUE] /\ f.try = g.try BY <1>2
    <3> QED BY <3>1, <3>2 DEF TypeOK
  <2>3. crossed' \subseteq User BY <1>1 DEF TypeOK, Call
  <2>4. raced' \in BOOLEAN BY <1>1 DEF TypeOK
  <2>5. outside' \in 0..MaxEvents BY OneMore DEF ShardMoves, OwnerCrashes
  <2> QED BY <1>1, <2>1, <2>2, <2>3, <2>4, <2>5 DEF TypeOK
<1>5. Early' BY <1>1 DEF Early
<1>6. Alone'
  <2>1. \A d \in calls' : d.try <= tries' BY <1>1, <1>2 DEF Alone
  <2> QED BY <2>1, <1>3 DEF Alone
<1>7. CallsFit' BY <1>3 DEF CallsFit
<1>8. AccountsMatch'
  <2>1. \A u \in User : Settled(u)' => Settled(u) BY <1>1 DEF Settled
  <2> QED BY <2>1, <1>1 DEF AccountsMatch
<1>9. Room'
  <2>1. Counted' \subseteq Counted BY <1>1 DEF Counted
  <2>2. \A d \in calls' : \E c \in calls : c.user = d.user /\ c.op = d.op /\ (d.pc = "row" => c.pc = "row")
    BY <1>2
  <2>3. raced => raced' BY <1>1
  <2> QED BY <2>1, <2>2, <2>3, <1>1, RoomStands
<1>10. Heard'
  <2>1. \A u \in User \ (crossed' \cup disturbed') : Quiet(u) BY <1>1 DEF Quiet
  <2> QED BY <2>1, <1>1, HeardStands
<1> QED BY <1>4, <1>5, <1>6, <1>7, <1>8, <1>9, <1>10

-----------------------------------------------------------------------------
(* The invariant and what follows.                                         *)

LEMMA Initially == Init => IInv
<1> SUFFICES ASSUME Init PROVE IInv OBVIOUS
<1>1. TypeOK
  <2>1. people \subseteq User /\ Creator \in people BY DEF Init
  <2>2. request \in [User -> Request \cup {None}] /\ conn \in [User -> {"off", "lists", "misses", "on"}] BY DEF Init
  <2>3. tries \in 0..MaxTries /\ outside \in 0..MaxEvents BY Constants DEF Init
  <2> QED BY <2>1, <2>2, <2>3 DEF Init, TypeOK
<1>2. Early /\ Alone /\ CallsFit /\ AccountsMatch /\ Heard
  BY DEF Init, Early, Alone, CallsFit, AccountsMatch, Heard
<1>3. Room BY FS_EmptySet, Constants DEF Init, Room, Counted
<1> QED BY <1>1, <1>2, <1>3 DEF IInv

LEMMA StepKept == IInv /\ [Next]_vars => IInv'
<1> SUFFICES ASSUME IInv, [Next]_vars PROVE IInv' OBVIOUS
<1>1. CASE UNCHANGED vars
  <2>1. TypeOK' /\ Early' BY <1>1 DEF vars, IInv, TypeOK, Early
  <2>2. Heard' BY <1>1 DEF vars, IInv, Heard, Quiet
  <2> QED BY <2>1, <2>2, <1>1, TablesStand DEF vars, IInv
<1>2. CASE CreateMembership \/ CreateState \/ CreateCommit \/ CreateFails \/ CommitFails
  BY <1>2, CreationKept, CreateCommitKept, CommitFailsKept
<1>3. CASE LoadChat \/ ShardMoves \/ OwnerCrashes BY <1>3, LoadChatKept, OwnerGoes
<1>4. CASE \E a, u \in User, op \in Op : Modify(a, op, u) BY <1>4, RequestKept
<1>5. CASE \E a \in User : TimeOut(a) \/ GiveUp(a) \/ StartModify(a) BY <1>5, RequestKept, StartModifyKept
<1>6. CASE \/ \E c \in calls : WriteRow(c) \/ WriteState(c) \/ WriteFails(c) \/ WrittenFails(c)
           \/ \E c \in calls : Apply(c) \/ Appended(c) \/ AppendFails(c)
  BY <1>6, WriteKept, WrittenFailsKept, HandlerEnds
<1>7. CASE \E n \in news : Deliver(n) \/ NewsLost(n) BY <1>7, NewsKept
<1>8. CASE \E u \in User : Disconnect(u) \/ Connect(u) \/ Join(u) BY <1>8, ConnectionKept
<1> QED BY <1>1, <1>2, <1>3, <1>4, <1>5, <1>6, <1>7, <1>8 DEF Next

\* Every step of owners, gateways and clients keeps IInv.
THEOREM Invariant == Spec => []IInv
BY Initially, StepKept, PTL DEF Spec

\* Every variable keeps its type, and no two handlers are the same attempt.
THEOREM TypeCorrect == Spec => []TypeOK
BY Invariant, PTL DEF IInv

\* _modify: the two tables and the owner's members say the same of every user
\* whom no two handlers were at and whose rows no fault tore.
THEOREM AccountsAgree == Spec => []AccountsMatch
BY Invariant, PTL DEF IInv

\* _modify reads the members, awaits, and writes: only additions that overlap
\* let in more than the limit.
THEOREM LimitHolds == Spec => []LimitUnraced
<1>1. IInv => LimitUnraced BY DEF IInv, Room, Counted, LimitUnraced
<1> QED BY Invariant, <1>1, PTL

\* serve, _on_deliver and the gateway's _modify: a connected user gets the
\* messages of a chat exactly if the list shows it, unless a change was not told.
THEOREM UsersInformed == Spec => []Informed
<1>1. IInv => Informed
  BY DEF IInv, Heard, Quiet, Informed, Settled, Listed, get_chats
<1> QED BY Invariant, <1>1, PTL

\* DynamoStore.create_chat: the row of the chat is written last.
THEOREM ChatRowLast == Spec => CommitLast
<1>1. IInv /\ [Next]_vars => [chat' # chat => people \subseteq membership /\ people \subseteq state]_vars
  <2> SUFFICES ASSUME IInv, Next, chat' # chat PROVE people \subseteq membership /\ people \subseteq state
    BY DEF vars
  <2>1. CreateCommit \/ CommitFails
    BY DEF Next, CreateMembership, CreateState, CreateFails, LoadChat, ShardMoves, OwnerCrashes, Modify, TimeOut, GiveUp,
           StartModify, WriteRow, WriteState, WriteFails, WrittenFails, Apply, Appended, AppendFails, Deliver, NewsLost,
           Disconnect, Connect, Join, creation
  <2> QED BY <2>1 DEF CreateCommit, CommitFails, IInv, Early
<1> QED BY Invariant, <1>1, PTL DEF Spec, CommitLast

=============================================================================
