----------------------------- MODULE Membership -----------------------------
(***************************************************************************)
(* Who is in ONE chat: its creation, the owner's modify handler            *)
(* (app/pubsub.py), the two tables a membership is in (app/store.py,       *)
(* DynamoDB), the gateways that send and repeat a change and tell the user *)
(* of it, and the users' connections (app/gateway.py).                     *)
(*                                                                         *)
(* The owner is an asyncio process whose writes run in a thread pool: a    *)
(* handler is a sequence of calls, and every write is a step.              *)
(***************************************************************************)
EXTENDS Integers, FiniteSets

CONSTANTS
  User, Creator, None,
  MAX_PARTICIPANTS,
  MaxTries,   \* bound on the attempts of all requests
  MaxEvents   \* bound on requests, connections, faults and moves of the shard

ASSUME MembershipAssumption ==
  /\ IsFiniteSet(User) /\ Creator \in User /\ None \notin User /\ (\A S \in SUBSET User : None # S)
  /\ {MAX_PARTICIPANTS, MaxTries} \subseteq Nat \ {0} /\ MaxEvents \in Nat

VARIABLES
  creating,    \* how far the creation of the chat is
  people,      \* the participants it is created with
  chat,        \* is the row of the chat there? then the chat is
  membership,  \* the users with a row in membership
  state,       \* the users with a row in chat_state
  members,     \* ChatSeq.members of the owner, or None: not loaded
  calls,       \* the modify handlers under way
  request,     \* actor -> the change its gateway is at, or None
  news,        \* chatAdded and chatRemoved on their way to a user
  conn,        \* user -> its connection: off, connecting (has it read the chat?) or on
  joined,      \* the users whose connection gets the chat's messages
  tries,       \* attempts so far
  crossed,     \* users two handlers were at, or whose rows a fault tore (history)
  raced,       \* two additions were under way at once (history)
  disturbed,   \* users who were not told of a change (history)
  outside      \* what came from outside so far

vars == <<creating, people, chat, membership, state, members, calls, request, news, conn, joined,
          tries, crossed, raced, disturbed, outside>>
creation == <<creating, people, chat>>
clients == <<conn, joined>>

Op == {"ADD", "REMOVE"}
Call == [actor : User, try : 1..MaxTries, op : Op, user : User, pc : {"row", "state", "apply", "append"}, old : BOOLEAN]
Request == [op : Op, user : User, try : 0..MaxTries, retried : BOOLEAN]

TypeOK ==
  /\ creating \in {"membership", "chat_state", "commit", "done", "failed"}
  /\ people \subseteq User /\ Creator \in people /\ chat \in BOOLEAN
  /\ membership \subseteq User /\ state \subseteq User
  /\ members = None \/ members \subseteq User
  /\ calls \subseteq Call /\ \A c, d \in calls : c.try = d.try => c = d
  /\ request \in [User -> Request \cup {None}]
  /\ news \subseteq [op : Op, user : User]
  /\ conn \in [User -> {"off", "lists", "misses", "on"}] /\ joined \subseteq {u \in User : conn[u] = "on"}
  /\ tries \in 0..MaxTries /\ crossed \subseteq User /\ raced \in BOOLEAN
  /\ disturbed \subseteq User /\ outside \in 0..MaxEvents

Init ==
  /\ creating = "membership" /\ chat = FALSE
  /\ people \in {P \in SUBSET User : Creator \in P /\ Cardinality(P) <= MAX_PARTICIPANTS}
  /\ membership = {} /\ state = {} /\ members = None /\ calls = {}
  /\ request = [u \in User |-> None] /\ news = {}
  /\ conn = [u \in User |-> "on"] /\ joined = {}
  /\ tries = 0 /\ crossed = {} /\ raced = FALSE /\ disturbed = {} /\ outside = 0

External == outside < MaxEvents /\ outside' = outside + 1

get_chats == chat
list_members == membership

\* list_user_chats shows the chat only if its own row is there.
Listed(u) == get_chats /\ u \in state

\* A second message on its way may overtake the first.
Tell(told) ==
  /\ news' = news \cup told
  /\ disturbed' = disturbed \cup {n.user : n \in {n \in told : \E o \in news : o.user = n.user}}

-----------------------------------------------------------------------------
(* create_chat: batches of membership rows, then of chat_state rows, then  *)
(* the row of the chat.                                                    *)

\* A batch is written as far as the table takes it, the rest is sent again.
Batches(rows) == SUBSET rows \ {{}}

AfterMembership == "chat_state"

CreateMembership ==
  /\ creating = "membership"
  /\ \E batch \in Batches(people \ membership) :
       /\ membership' = membership \cup batch
       /\ creating' = IF people \subseteq membership' THEN AfterMembership ELSE creating
  /\ UNCHANGED <<people, chat, state, members, calls, request, news, clients, tries, crossed, raced, disturbed, outside>>

CreateState ==
  /\ creating = "chat_state"
  /\ \E batch \in Batches(people \ state) :
       /\ state' = state \cup batch
       /\ creating' = IF people \subseteq state' THEN "commit" ELSE creating
  /\ UNCHANGED <<people, chat, membership, members, calls, request, news, clients, tries, crossed, raced, disturbed, outside>>

\* The connection that asked joins at once, everybody is told.
CreateCommit ==
  /\ creating = "commit" /\ creating' = "done" /\ chat' = TRUE
  /\ joined' = IF conn[Creator] = "on" THEN joined \cup {Creator} ELSE joined
  /\ Tell({[op |-> "ADD", user |-> u] : u \in people})
  /\ UNCHANGED <<people, membership, state, members, calls, request, conn, tries, crossed, raced, outside>>

CreateFails ==
  /\ External /\ creating \in {"membership", "chat_state", "commit"} /\ creating' = "failed"
  /\ UNCHANGED <<people, chat, membership, state, members, calls, request, news, clients, tries, crossed, raced, disturbed>>

\* The row of the chat is written although the call raises: nobody is told.
CommitFails ==
  /\ External /\ creating = "commit" /\ creating' = "done" /\ chat' = TRUE
  /\ disturbed' = disturbed \cup people
  /\ UNCHANGED <<people, membership, state, members, calls, request, news, clients, tries, crossed, raced>>

-----------------------------------------------------------------------------
(* The gateway: _modify and call_owner                                     *)

Modify(a, op, u) ==
  /\ External /\ chat /\ conn[a] = "on" /\ request[a] = None
  /\ request' = [request EXCEPT ![a] = [op |-> op, user |-> u, try |-> 0, retried |-> FALSE]]
  /\ UNCHANGED <<creation, membership, state, members, calls, news, clients, tries, crossed, raced, disturbed>>

Done(a) == request' = [request EXCEPT ![a] = None]
Again(a) == request' = [request EXCEPT ![a].try = 0]

\* The answer, if any, comes too late: the request is sent again, while the
\* owner goes on with the first.
TimeOut(a) ==
  /\ External /\ request[a] # None /\ request[a].try # 0 /\ Again(a)
  /\ UNCHANGED <<creation, membership, state, members, calls, news, clients, tries, crossed, raced, disturbed>>

\* PUBLISH_DEADLINE_S, in which the owner was not to be reached, or not in time.
GiveUp(a) ==
  /\ request[a] # None /\ request[a].try = 0 /\ Done(a)
  /\ disturbed' = disturbed \cup {request[a].user}
  /\ UNCHANGED <<creation, membership, state, members, calls, news, clients, tries, crossed, raced, outside>>

-----------------------------------------------------------------------------
(* The owner: _modify                                                      *)

LoadChat ==
  /\ get_chats /\ members = None /\ members' = list_members
  /\ UNCHANGED <<creation, membership, state, calls, request, news, clients, tries, crossed, raced, disturbed, outside>>

\* Mutant: one more than the limit is let in.
Full_Beyond == Cardinality(members) > MAX_PARTICIPANTS
Full == Cardinality(members) >= MAX_PARTICIPANTS

Refused(a, op, u) ==
  \/ a \notin members
  \/ op = "ADD" /\ u \notin members /\ Full
  \/ op = "REMOVE" /\ u \notin members
Noop(op, u) == op = "ADD" /\ u \in members

\* The handler up to its first await, at the members it finds.
StartModify(a) ==
  /\ members # None /\ request[a] # None /\ request[a].try = 0 /\ tries < MaxTries
  /\ tries' = tries + 1
  /\ LET op == request[a].op  u == request[a].user IN
     IF Refused(a, op, u) \/ Noop(op, u) THEN Done(a) /\ UNCHANGED <<calls, crossed, raced>>
     ELSE /\ request' = [request EXCEPT ![a].try = tries']
          /\ calls' = calls \cup {[actor |-> a, try |-> tries', op |-> op, user |-> u, pc |-> "row", old |-> FALSE]}
          /\ crossed' = IF \E c \in calls : c.user = u THEN crossed \cup {u} ELSE crossed
          /\ raced' = (raced \/ (op = "ADD" /\ \E c \in calls : c.op = "ADD" /\ c.user # u))
  /\ UNCHANGED <<creation, membership, state, members, news, clients, disturbed, outside>>

After(c, pc) == calls' = (calls \ {c}) \cup {[c EXCEPT !.pc = pc]}
With(set, c) == IF c.op = "ADD" THEN set \cup {c.user} ELSE set \ {c.user}

WriteRow(c) ==
  /\ c.pc = "row" /\ membership' = With(membership, c) /\ After(c, "state")
  /\ UNCHANGED <<creation, state, members, request, news, clients, tries, crossed, raced, disturbed, outside>>

WriteState(c) ==
  /\ c.pc = "state" /\ state' = With(state, c) /\ After(c, "apply")
  /\ UNCHANGED <<creation, membership, members, request, news, clients, tries, crossed, raced, disturbed, outside>>

\* The exception leaves the handler; nobody answers.
WriteFails(c) ==
  /\ External /\ c.pc \in {"row", "state"} /\ calls' = calls \ {c}
  /\ crossed' = IF c.pc = "state" THEN crossed \cup {c.user} ELSE crossed
  /\ UNCHANGED <<creation, membership, state, members, request, news, clients, tries, raced, disturbed>>

\* The row is written although the call raises.
WrittenFails(c) ==
  /\ External /\ calls' = calls \ {c} /\ crossed' = crossed \cup {c.user}
  /\ \/ c.pc = "row" /\ membership' = With(membership, c) /\ UNCHANGED state
     \/ c.pc = "state" /\ state' = With(state, c) /\ UNCHANGED membership
  /\ UNCHANGED <<creation, members, request, news, clients, tries, raced, disturbed>>

\* Mutant: the members are not updated.
Apply_Forget(c) ==
  /\ c.pc = "apply" /\ After(c, "append")
  /\ UNCHANGED <<creation, membership, state, members, request, news, clients, tries, crossed, raced, disturbed, outside>>

\* A handler whose shard has moved changes a ChatSeq that nobody uses.
Apply(c) ==
  /\ c.pc = "apply" /\ After(c, "append")
  /\ members' = IF c.old \/ members = None THEN members ELSE With(members, c)
  /\ UNCHANGED <<creation, membership, state, request, news, clients, tries, crossed, raced, disturbed, outside>>

Awaited(c) == request[c.actor] # None /\ request[c.actor].try = c.try

\* Mutant: the user who is removed is not told.
Told_AddOnly(c) == IF c.op = "ADD" THEN {[op |-> c.op, user |-> c.user]} ELSE {}
Told(c) == {[op |-> c.op, user |-> c.user]}

\* The system message is stored and the gateway, if it still waits for this
\* answer, tells the user.
Appended(c) ==
  /\ c.pc = "append" /\ ~ c.old /\ calls' = calls \ {c}
  /\ IF Awaited(c) THEN Done(c.actor) /\ Tell(Told(c))
     ELSE UNCHANGED <<request, news>> /\ disturbed' = disturbed \cup {c.user}
  /\ UNCHANGED <<creation, membership, state, members, clients, tries, crossed, raced, outside>>

\* STORE_ERROR is sent again once, NOT_OWNER always.
AppendFails(c) ==
  /\ c.pc = "append" /\ calls' = calls \ {c}
  /\ IF c.old THEN UNCHANGED outside ELSE External
  /\ disturbed' = disturbed \cup {c.user}
  /\ IF ~ Awaited(c) THEN UNCHANGED request
     ELSE IF c.old THEN Again(c.actor)
     ELSE IF request[c.actor].retried THEN Done(c.actor)
     ELSE request' = [request EXCEPT ![c.actor].try = 0, ![c.actor].retried = TRUE]
  /\ UNCHANGED <<creation, membership, state, members, news, clients, tries, crossed, raced>>

\* Another node owns the shard; the old one's threads go on.
ShardMoves ==
  /\ External /\ members # None /\ members' = None
  /\ calls' = {[c EXCEPT !.old = TRUE] : c \in calls}
  /\ crossed' = crossed \cup {c.user : c \in calls} /\ raced' = (raced \/ \E c \in calls : c.op = "ADD")
  /\ UNCHANGED <<creation, membership, state, request, news, clients, tries, disturbed>>

\* The owner dies with its threads.
OwnerCrashes ==
  /\ External /\ members # None /\ members' = None /\ calls' = {}
  /\ crossed' = crossed \cup {c.user : c \in calls}
  /\ UNCHANGED <<creation, membership, state, request, news, clients, tries, raced, disturbed>>

-----------------------------------------------------------------------------
(* The connections: serve and _on_deliver                                  *)

Deliver(n) ==
  /\ n \in news /\ news' = news \ {n}
  /\ joined' = IF conn[n.user] = "on" THEN With(joined, n) ELSE joined
  /\ UNCHANGED <<creation, membership, state, members, calls, request, conn, tries, crossed, raced, disturbed, outside>>

NewsLost(n) ==
  /\ External /\ n \in news /\ news' = news \ {n} /\ disturbed' = disturbed \cup {n.user}
  /\ UNCHANGED <<creation, membership, state, members, calls, request, clients, tries, crossed, raced>>

Leave(u) == joined \ {u}

Disconnect(u) ==
  /\ External /\ conn[u] = "on" /\ conn' = [conn EXCEPT ![u] = "off"] /\ joined' = Leave(u)
  /\ UNCHANGED <<creation, membership, state, members, calls, request, news, tries, crossed, raced, disturbed>>

Connect(u) ==
  /\ conn[u] = "off" /\ conn' = [conn EXCEPT ![u] = IF Listed(u) THEN "lists" ELSE "misses"]
  /\ UNCHANGED <<creation, membership, state, members, calls, request, news, joined, tries, crossed, raced, disturbed, outside>>

\* What was read is joined; a change since then was told to nobody.
Join(u) ==
  /\ conn[u] \in {"lists", "misses"} /\ conn' = [conn EXCEPT ![u] = "on"]
  /\ joined' = IF conn[u] = "lists" THEN joined \cup {u} ELSE joined
  /\ disturbed' = IF (conn[u] = "lists") # Listed(u) THEN disturbed \cup {u}
                  ELSE IF \E n \in news : n.user = u THEN disturbed ELSE disturbed \ {u}
  /\ UNCHANGED <<creation, membership, state, members, calls, request, news, tries, crossed, raced, outside>>

-----------------------------------------------------------------------------
Next ==
  \/ CreateMembership \/ CreateState \/ CreateCommit \/ CreateFails \/ CommitFails
  \/ LoadChat \/ ShardMoves \/ OwnerCrashes
  \/ \E a, u \in User, op \in Op : Modify(a, op, u)
  \/ \E a \in User : TimeOut(a) \/ GiveUp(a) \/ StartModify(a)
  \/ \E c \in calls : WriteRow(c) \/ WriteState(c) \/ WriteFails(c) \/ WrittenFails(c)
  \/ \E c \in calls : Apply(c) \/ Appended(c) \/ AppendFails(c)
  \/ \E n \in news : Deliver(n) \/ NewsLost(n)
  \/ \E u \in User : Disconnect(u) \/ Connect(u) \/ Join(u)

Spec == Init /\ [][Next]_vars

-----------------------------------------------------------------------------
Settled(u) == u \notin crossed /\ \A c \in calls : c.user # u

\* The two tables say the same, and the owner believes what they say, once no
\* handler is at the user, unless two were at once or a fault tore the rows:
\* who is in the chat finds it in the list, and publish lets in nobody else.
AccountsMatch ==
  \A u \in User : Settled(u) =>
    /\ chat => (u \in membership <=> u \in state)
    /\ members # None => (u \in members <=> u \in membership)

\* Until everybody's rows are written the chat is in nobody's list.
CommitLast == [][chat' # chat => people \subseteq membership /\ people \subseteq state]_vars

\* The limit holds, unless two additions were under way at once; users whose
\* rows a fault tore are in the table and count for nobody.
LimitUnraced == raced \/ Cardinality(membership \ crossed) <= MAX_PARTICIPANTS

\* A connected user gets the messages of the chat exactly if the chat is in
\* the list, once nothing is on its way, unless a change was not told.
Informed ==
  \A u \in User :
    /\ chat /\ conn[u] = "on" /\ Settled(u) /\ u \notin disturbed
    /\ (\A n \in news : n.user # u) /\ \A a \in User : request[a] # None => request[a].user # u
    => (u \in joined <=> Listed(u))

\* DESIGN.md: the owner refuses who would exceed the limit.
WithinLimit == Cardinality(membership) <= MAX_PARTICIPANTS

=============================================================================
