-------------------------- MODULE GatewayDelivery --------------------------
(***************************************************************************)
(* How the messages of ONE chat reach the clients of ONE gateway           *)
(* (app/gateway.py): the subscription at the owner and its reconciliation, *)
(* the links to the pub/sub nodes, the repair after a subscription, the    *)
(* catch-up of a new connection, and the client page that puts the         *)
(* messages in order (static/index.html).                                  *)
(*                                                                         *)
(* Messages are their ids: ChatOwner shows that the database holds 1..k    *)
(* without a gap.  Who may serve is ShardOwnership.  The gateway is one    *)
(* asyncio process: an action is what it does between two awaits.          *)
(***************************************************************************)
EXTENDS ShardOwnership, Integers, Sequences

CONSTANTS
  Conn,         \* client connections: one user with one page each
  Situations,   \* the situations of the run: see Situation
  MaxMessages   \* bound on the messages

\* late: a node may take the shard while a write that was called before is under
\* way, and a publish may go on with a ChatSeq that its node has forgotten.
FaultKinds == {"crash", "link", "ambiguous", "late", "repair", "fetch"}

\* limit: CATCHUP_LIMIT, and the limit of the page's fetchMessages; server,
\* connected: the owner, and the clients connected and subscribed, at the start;
\* prompt: an answer to `subscribe` is used before the next event; oneServer: a node takes the
\* shard when no other believes to own it; faulty: what may go wrong; messages,
\* moves, faults, connects: bounds.
Situation == [limit : Nat, server : Node, connected : SUBSET Conn, prompt : BOOLEAN, oneServer : BOOLEAN, faulty : SUBSET FaultKinds,
              messages : Nat, moves : Nat, faults : Nat, connects : Nat]

ASSUME GatewayAssumption ==
  /\ NoNode \notin Node
  /\ MaxMessages \in Nat
  /\ \A s \in Situations : s \in Situation /\ s.limit > 0 /\ s.messages <= MaxMessages

VARIABLES
  stored,    \* the database holds the messages 1..stored
  head,      \* node -> ChatSeq.head, or None: not loaded
  appends,   \* the calls of append_message under way, those of dead processes too
  fanouts,   \* appends whose answer a node has not handled: no fan-out yet
  subs,      \* the nodes that have the gateway among the topic's subscribers
  up,        \* the nodes to which the link is up
  toNode,    \* node -> frames of the gateway on their way
  toGw,      \* node -> frames to the gateway on their way
  map,       \* the gateway's ShardMap.owner of the topic
  watch,     \* the watch events that the gateway has not handled
  sub_at,    \* sub_at[topic], or NoNode
  last_forwarded, \* last_forwarded[chat], or None
  rec,       \* the reconcile() that holds _rec_lock
  conn,      \* connection -> what its serve() does
  floor,     \* connection -> floor[chat]
  toClient,  \* connection -> frames on their way to the client
  client,    \* connection -> the page's state of the chat
  last_read, \* connection -> chat_state.last_read of its user
  used,      \* how many moves, faults and connects happened
  situation  \* one of Situations; it does not change

chatVars == <<stored, head, appends, fanouts, subs>>
linkVars == <<up, toNode, toGw>>
subVars == <<map, watch, sub_at, last_forwarded, rec>>
connVars == <<conn, floor, toClient, client, last_read>>
steps == <<ownershipVars, chatVars, linkVars, subVars, connVars, used>>
vars == <<steps, situation>>

None == -1
Ids == 1..MaxMessages
Heads == Ids \cup {None, 0}
AtMost(a, b) == IF a < b THEN a ELSE b
AtLeast(a, b) == IF a < b THEN b ELSE a

\* fresh: its ChatSeq, whose lock it holds, is still the node's.
Call == [node : Node \cup {NoNode}, id : Ids, fresh : BOOLEAN]
FanOut == [node : Node, id : Ids, fresh : BOOLEAN]
NodeFrame == [type : {"deliver", "subscribed", "rejected", "shard_moved"}, id : Heads]
ClientFrame == [type : {"newMessage", "catchupDone", "messages"},
                from : 0..MaxMessages, to : 0..MaxMessages, more : BOOLEAN]
Reconciling == [st : {"idle", "sent", "answered", "repair", "read"},
                by : Conn \cup {None}, node : Node \cup {NoNode}, from : Heads, to : Heads]
Serving == [st : {"off", "reconcile", "catchup", "read", "on"},
            after : 0..MaxMessages, to : 0..MaxMessages, more : BOOLEAN]
Page == [lastSeen : 0..MaxMessages, buffer : SUBSET Ids, fetching : BOOLEAN,
         asked : SUBSET (0..MaxMessages)]

TypeOK ==
  /\ OwnershipTypeOK
  /\ stored \in 0..MaxMessages
  /\ head \in [Node -> Heads] /\ appends \subseteq Call /\ fanouts \subseteq FanOut
  /\ subs \subseteq Node /\ up \subseteq Node
  /\ toNode \in [Node -> Seq({"subscribe", "unsubscribe"})]
  /\ toGw \in [Node -> Seq(NodeFrame)]
  /\ map \in Node \cup {NoNode} /\ watch \in Seq(Node \cup {NoNode})
  /\ sub_at \in Node \cup {NoNode} /\ last_forwarded \in Heads
  /\ rec \in Reconciling
  /\ conn \in [Conn -> Serving] /\ floor \in [Conn -> 0..MaxMessages]
  /\ toClient \in [Conn -> Seq(ClientFrame)] /\ client \in [Conn -> Page]
  /\ last_read \in [Conn -> 0..MaxMessages]
  /\ situation \in Situations
  /\ used \in [moves : 0..situation.moves, faults : 0..situation.faults, connects : 0..situation.connects]

Idle == [st |-> "idle", by |-> None, node |-> NoNode, from |-> None, to |-> None]
Off == [st |-> "off", after |-> 0, to |-> 0, more |-> FALSE]

\* One node owns the chat's shard.
Init ==
  /\ situation \in Situations
  /\ holder = situation.server /\ owned = {holder} /\ suspended = {}
  /\ stored = 0 /\ appends = {} /\ fanouts = {}
  /\ up = Node
  /\ toNode = [n \in Node |-> <<>>] /\ toGw = [n \in Node |-> <<>>]
  /\ map = holder /\ watch = <<>> /\ rec = Idle
  /\ conn = [c \in Conn |-> IF c \in situation.connected THEN [Off EXCEPT !.st = "on"] ELSE Off]
  /\ LET subscribed == situation.connected # {} IN
     /\ head = [n \in Node |-> IF subscribed /\ n = holder THEN 0 ELSE None]
     /\ subs = IF subscribed THEN {holder} ELSE {}
     /\ sub_at = IF subscribed THEN holder ELSE NoNode
     /\ last_forwarded = IF subscribed THEN 0 ELSE None
  /\ floor = [c \in Conn |-> 0] /\ toClient = [c \in Conn |-> <<>>]
  /\ client = [c \in Conn |-> [lastSeen |-> 0, buffer |-> {}, fetching |-> FALSE, asked |-> {}]]
  /\ last_read = [c \in Conn |-> 0]
  /\ used = [moves |-> 0, faults |-> 0, connects |-> 0]

Move == used.moves < situation.moves /\ used' = [used EXCEPT !.moves = @ + 1]
Fault(kind) == /\ kind \in situation.faulty /\ used.faults < situation.faults
               /\ used' = [used EXCEPT !.faults = @ + 1]

-----------------------------------------------------------------------------
(* The store, as far as the gateway and the owner read it.                 *)

max_message_id == stored

\* messages_after(id, limit) reads id+1..upto; are there more?
Upto(id) == AtMost(id + situation.limit, AtLeast(max_message_id, id))
HasMore(upto) == upto < max_message_id

\* An older acknowledgement does not take the user back.
update_last_read(c, id) == last_read' = [last_read EXCEPT ![c] = AtLeast(@, id)]

-----------------------------------------------------------------------------
(* The connections that get what is pushed.                                *)

Frame(type, from, to, more) == [type |-> type, from |-> from, to |-> to, more |-> more]
Messages(from, to) == [i \in 1 .. to - from |-> Frame("newMessage", from + i, from + i, FALSE)]

\* chat_conns[chat], which is what the gateway's reference count counts.
chat_conns == {c \in Conn : conn[c].st # "off"}

\* c.send of the messages from+1..to, then of the other frames, to each c in cs.
Push(cs, from, to, others) ==
  /\ toClient' = [c \in Conn |-> IF c \in cs THEN toClient[c] \o Messages(from, to) \o others
                                 ELSE toClient[c]]

RaiseFloor(cs, id) ==
  floor' = [c \in Conn |-> IF c \in cs THEN AtLeast(floor[c], id) ELSE floor[c]]

\* _on_deliver of a live message.
OnDeliver(id) ==
  IF id <= last_forwarded THEN UNCHANGED <<last_forwarded, floor, toClient>>
  ELSE LET cs == {c \in chat_conns : id > floor[c]}
       IN /\ last_forwarded' = id
          /\ RaiseFloor(cs, id)
          /\ Push(cs, id - 1, id, <<>>)

-----------------------------------------------------------------------------
(* Who serves the shard.                                                   *)

\* What is under way goes on with a ChatSeq that is not the node's any more.
Outdated(n, calls) == {[f EXCEPT !.fresh = @ /\ f.node # n] : f \in calls}

Forget(n) ==
  /\ head' = [head EXCEPT ![n] = None]
  /\ appends' = Outdated(n, appends) /\ fanouts' = Outdated(n, fanouts)
  /\ subs' = subs \ {n}
  /\ UNCHANGED stored

\* Frames are sent if the link is up.
SendToGw(n, frame) ==
  toGw' = IF n \in up THEN [toGw EXCEPT ![n] = Append(@, frame)] ELSE toGw
SendToNode(n, frame) ==
  toNode' = IF n \in up THEN [toNode EXCEPT ![n] = Append(@, frame)] ELSE toNode

NodeSays(type, id) == [type |-> type, id |-> id]

Claim(n) ==
  /\ situation.oneServer => owned \subseteq {n}
  /\ ClaimKey(n) /\ watch' = Append(watch, n)
  /\ UNCHANGED <<chatVars, linkVars, map, sub_at, last_forwarded, rec, connVars, used>>

KeyDeleted ==
  /\ KeyGone /\ Move /\ watch' = Append(watch, NoNode)
  /\ UNCHANGED <<chatVars, linkVars, map, sub_at, last_forwarded, rec, connVars>>

\* The former owner's last write has ended, or it comes late.
WritesEnded == "late" \in situation.faulty \/ appends = {}

ClaimAnswered(n) ==
  /\ holder = n /\ n \notin owned /\ WritesEnded
  /\ Claimed(n)
  /\ UNCHANGED <<chatVars, linkVars, subVars, connVars, used>>

\* A fresh process has its lease before it knows which shards it owns.
LeaseGranted(n) ==
  /\ situation.oneServer => owned = {n} /\ holder \in {n, NoNode}
  /\ WritesEnded
  /\ n \in suspended /\ suspended' = suspended \ {n} /\ UNCHANGED <<holder, owned>>
  /\ UNCHANGED <<chatVars, linkVars, subVars, connVars, used>>

DropShard(n) ==
  /\ n \in owned /\ holder # n
  /\ Drop(n) /\ suspended' = suspended \ {n}
  /\ Forget(n) /\ SendToGw(n, NodeSays("shard_moved", None))
  /\ UNCHANGED <<up, toNode, subVars, connVars, used>>

-----------------------------------------------------------------------------
(* The owner: publish and subscribe, as far as the gateway sees them.      *)

\* A loaded ChatSeq keeps its head; load_chat reads it from the database.
Loaded(n) == IF head[n] = None THEN max_message_id ELSE head[n]

\* Somebody holds the lock of the node's ChatSeq.
Locked(n) == \E f \in appends \cup fanouts : f.node = n /\ f.fresh

Calls(n, id, fresh) == appends' = appends \cup {[node |-> n, id |-> id, fresh |-> fresh]}

\* The publisher that gets the lock calls append_message of head+1 if its node serves.
CallAppend(n) ==
  /\ can_serve(n) /\ ~ Locked(n) /\ Loaded(n) < situation.messages
  /\ head' = [head EXCEPT ![n] = Loaded(n)]
  /\ Calls(n, Loaded(n) + 1, TRUE)
  /\ UNCHANGED <<ownershipVars, stored, fanouts, subs, linkVars, subVars, connVars, used>>

\* A publisher that waited for the lock of a ChatSeq which was forgotten since, or
\* holds it after an IdConflict: its node serves again.  It changes nothing with an id
\* that is written already.
CallForgotten(n) ==
  /\ can_serve(n) /\ stored < situation.messages /\ Fault("late")
  /\ Calls(n, stored + 1, FALSE)
  /\ UNCHANGED <<ownershipVars, stored, head, fanouts, subs, linkVars, subVars, connVars>>

\* The store takes the message, whoever serves by then.
Commits(a) ==
  /\ a \in appends /\ a.id = stored + 1
  /\ stored' = stored + 1 /\ appends' = appends \ {a}
  /\ UNCHANGED <<ownershipVars, head, subs, linkVars, subVars, connVars>>

\* A process that died has no use for the answer.
AppendMessage(a) ==
  /\ Commits(a)
  /\ fanouts' = IF a.node \in Node THEN fanouts \cup {a} ELSE fanouts
  /\ UNCHANGED used

\* append_message raises StoreError although the message was written.
AmbiguousAppend(a) ==
  /\ Commits(a) /\ Fault("ambiguous")
  /\ UNCHANGED fanouts

\* Nothing is written: StoreError, Duplicate of an earlier attempt, or IdConflict
\* and a second look at max_message_id.  The node learns of message k, or of none.
NotAppended(a) ==
  /\ a \in appends /\ appends' = appends \ {a}
  /\ \E k \in 0..stored :
       head' = IF a.fresh THEN [head EXCEPT ![a.node] = AtLeast(@, k)] ELSE head
  /\ UNCHANGED <<ownershipVars, stored, fanouts, subs, linkVars, subVars, connVars, used>>

\* The answer of the append: the head moves and the message is fanned out.
Fanout(f) ==
  LET n == f.node IN
  /\ f \in fanouts /\ fanouts' = fanouts \ {f}
  /\ head' = IF f.fresh THEN [head EXCEPT ![n] = f.id] ELSE head
  /\ IF n \in subs THEN SendToGw(n, NodeSays("deliver", f.id)) ELSE UNCHANGED toGw
  /\ UNCHANGED <<ownershipVars, stored, appends, subs, up, toNode, subVars, connVars, used>>

Takes(n, frame) ==
  /\ toNode[n] # <<>> /\ Head(toNode[n]) = frame
  /\ toNode' = [toNode EXCEPT ![n] = Tail(@)]
  /\ UNCHANGED <<ownershipVars, stored, appends, fanouts, up, subVars, connVars, used>>

Subscribe(n) ==
  /\ can_serve(n) /\ Takes(n, "subscribe")
  /\ head' = [head EXCEPT ![n] = Loaded(n)]
  /\ subs' = subs \cup {n}
  /\ SendToGw(n, NodeSays("subscribed", Loaded(n)))

RejectSubscribe(n) ==
  /\ ~ can_serve(n) /\ Takes(n, "subscribe")
  /\ SendToGw(n, NodeSays("rejected", None))
  /\ UNCHANGED <<head, subs>>

Unsubscribe(n) ==
  /\ Takes(n, "unsubscribe")
  /\ subs' = subs \ {n}
  /\ UNCHANGED <<head, toGw>>

-----------------------------------------------------------------------------
(* reconcile(): its callers are the loop and serve().                      *)

\* reconcile() returns; serve() goes on with the catch-up.
Returns(by) ==
  conn' = IF by = None THEN conn ELSE [conn EXCEPT ![by].st = "catchup"]

Done == rec' = Idle /\ Returns(rec.by)

MayReconcile(by) == rec.st = "idle" /\ (by \in Conn => conn[by].st = "reconcile")

UnsubscribeUnwanted ==
  /\ MayReconcile(None) /\ chat_conns = {} /\ sub_at # NoNode
  /\ SendToNode(sub_at, "unsubscribe")
  /\ sub_at' = NoNode
  /\ UNCHANGED <<ownershipVars, chatVars, up, toGw, map, watch, last_forwarded, rec, connVars, used>>

Missing == chat_conns # {} /\ map # NoNode /\ sub_at # map /\ map \in up

SubscribeMissing(by) ==
  /\ MayReconcile(by) /\ Missing
  /\ SendToNode(map, "subscribe")
  /\ rec' = [Idle EXCEPT !.st = "sent", !.by = by, !.node = map]
  /\ UNCHANGED <<ownershipVars, chatVars, up, toGw, map, watch, sub_at, last_forwarded, connVars, used>>

NothingMissing(c) ==
  /\ MayReconcile(c) /\ ~ Missing
  /\ Returns(c)
  /\ UNCHANGED <<ownershipVars, chatVars, linkVars, subVars, floor, toClient, client,
                 last_read, used>>

\* In a prompt situation nothing happens between the answer and its use.
Responsive == situation.prompt => rec.st # "answered"

Receives(n, type) ==
  /\ Responsive
  /\ toGw[n] # <<>> /\ Head(toGw[n]).type = type
  /\ toGw' = [toGw EXCEPT ![n] = Tail(@)]
  /\ UNCHANGED <<ownershipVars, chatVars, up, toNode, map, watch, client, last_read, used>>

ReceiveDeliver(n) ==
  /\ Receives(n, "deliver")
  /\ OnDeliver(Head(toGw[n]).id)
  /\ UNCHANGED <<sub_at, rec, conn>>

\* The link's task wakes up the task that waits for the answer.
ReceiveSubscribed(n) ==
  /\ Receives(n, "subscribed")
  /\ rec' = [rec EXCEPT !.st = "answered", !.to = Head(toGw[n]).id]
  /\ UNCHANGED <<sub_at, last_forwarded, conn, floor, toClient>>

ReceiveRejected(n) ==
  /\ Receives(n, "rejected")
  /\ Done
  /\ UNCHANGED <<sub_at, last_forwarded, floor, toClient>>

\* Mutant: the gateway goes on believing in its subscription.
Unsubscribed_Not(n) == UNCHANGED sub_at

\* del self.sub_at[topic], if it is there that the topic is subscribed.
Unsubscribed(n) == sub_at' = IF sub_at = n THEN NoNode ELSE sub_at

ReceiveMoved(n) ==
  /\ Receives(n, "shard_moved")
  /\ Unsubscribed(n)
  /\ UNCHANGED <<last_forwarded, rec, conn, floor, toClient>>

\* Mutant: what was forwarded so far is not compared with the owner's head.
NothingToRepair_Always == TRUE

NothingToRepair == last_forwarded = None \/ rec.to <= last_forwarded

\* _subscribe_on after the answer, and _repair up to its read.
UseAnswer ==
  /\ rec.st = "answered"
  /\ sub_at' = rec.node
  /\ IF NothingToRepair
     THEN /\ last_forwarded' = AtLeast(AtLeast(last_forwarded, 0), rec.to)
          /\ Done
     ELSE /\ rec' = [rec EXCEPT !.st = "repair", !.from = last_forwarded]
          /\ UNCHANGED <<last_forwarded, conn>>
  /\ UNCHANGED <<ownershipVars, chatVars, linkVars, map, watch, floor, toClient, client,
                 last_read, used>>

RepairRead ==
  /\ rec.st = "repair"
  /\ rec' = [rec EXCEPT !.st = "read", !.to = Upto(rec.from)]
  /\ UNCHANGED <<ownershipVars, chatVars, linkVars, map, watch, sub_at, last_forwarded, connVars, used>>

\* What was read goes to every connection, whatever was pushed meanwhile.
RepairPush ==
  /\ rec.st = "read"
  /\ last_forwarded' = AtLeast(last_forwarded, rec.to)
  /\ RaiseFloor(chat_conns, rec.to)
  /\ Push(chat_conns, rec.from, rec.to, <<>>)
  /\ Done
  /\ UNCHANGED <<ownershipVars, chatVars, linkVars, map, watch, sub_at, client, last_read, used>>

-----------------------------------------------------------------------------
(* Links and the shard map.                                                *)

\* Both ends forget a lost link: on_peer_closed, _forget_node.  A request that
\* waits for an answer fails, and reconcile() returns.
LinkLost(n) ==
  /\ up' = up \ {n}
  /\ toNode' = [toNode EXCEPT ![n] = <<>>] /\ toGw' = [toGw EXCEPT ![n] = <<>>]
  /\ Unsubscribed(n)
  /\ IF rec.st = "sent" /\ rec.node = n THEN Done ELSE UNCHANGED <<rec, conn>>
  /\ UNCHANGED <<map, watch, last_forwarded, floor, toClient, client, last_read>>

LinkDown(n) ==
  /\ Responsive /\ n \in up /\ Fault("link")
  /\ LinkLost(n)
  /\ subs' = subs \ {n}
  /\ UNCHANGED <<ownershipVars, stored, head, appends, fanouts>>

LinkUp(n) ==
  /\ n \notin up /\ up' = up \cup {n}
  /\ UNCHANGED <<ownershipVars, chatVars, toNode, toGw, subVars, connVars, used>>

\* The process dies, the answers it waits for with it, and starts again.  What it
\* has called is under way.
Crash(n) ==
  /\ Responsive /\ Fault("crash")
  /\ Restart(n)
  /\ LinkLost(n)
  /\ subs' = subs \ {n}
  /\ head' = [head EXCEPT ![n] = None]
  /\ appends' = {IF a.node = n THEN [a EXCEPT !.node = NoNode, !.fresh = FALSE] ELSE a : a \in appends}
  /\ fanouts' = {f \in fanouts : f.node # n}
  /\ UNCHANGED stored

\* _on_map_change; the shard is among the changed ones if another node, or
\* none, owns it now.
Changed(owner) == owner # map
OnMapChange(owner) == sub_at' = IF Changed(owner) /\ sub_at # owner THEN NoNode ELSE sub_at

\* The watch of the gateway: set_owner, then the callback.
MapLearns ==
  /\ Responsive /\ watch # <<>>
  /\ map' = Head(watch) /\ watch' = Tail(watch)
  /\ OnMapChange(map')
  /\ UNCHANGED <<ownershipVars, chatVars, linkVars, last_forwarded, rec, connVars, used>>

-----------------------------------------------------------------------------
(* serve(): the connections of the gateway.                                *)

\* Mutant: serve() does not await the subscription before the catch-up.
Connect_NoWait(c) ==
  /\ conn[c].st = "off" /\ used.connects < situation.connects
  /\ used' = [used EXCEPT !.connects = @ + 1]
  /\ conn' = [conn EXCEPT ![c] = [Off EXCEPT !.st = "catchup", !.after = last_read[c]]]
  /\ floor' = [floor EXCEPT ![c] = 0]
  /\ UNCHANGED <<ownershipVars, chatVars, linkVars, subVars, toClient, client, last_read>>

\* welcome, _join; last_read was read with the list of the user's chats.
Connect(c) ==
  /\ conn[c].st = "off" /\ used.connects < situation.connects
  /\ used' = [used EXCEPT !.connects = @ + 1]
  /\ conn' = [conn EXCEPT ![c] = [Off EXCEPT !.st = "reconcile", !.after = last_read[c]]]
  /\ floor' = [floor EXCEPT ![c] = 0]
  /\ UNCHANGED <<ownershipVars, chatVars, linkVars, subVars, toClient, client, last_read>>

CatchupRead(c) ==
  /\ conn[c].st = "catchup"
  /\ LET to == Upto(conn[c].after)
     IN conn' = [conn EXCEPT ![c].st = "read", ![c].to = to, ![c].more = HasMore(to)]
  /\ UNCHANGED <<ownershipVars, chatVars, linkVars, subVars, floor, toClient, client,
                 last_read, used>>

\* The messages that were read are sent, pushed meanwhile or not.
CatchupSend(c) ==
  /\ conn[c].st = "read"
  /\ Push({c}, conn[c].after, conn[c].to, <<Frame("catchupDone", 0, 0, conn[c].more)>>)
  /\ IF conn[c].to > conn[c].after THEN RaiseFloor({c}, conn[c].to) ELSE UNCHANGED floor
  /\ conn' = [conn EXCEPT ![c].st = "on"]
  /\ UNCHANGED <<ownershipVars, chatVars, linkVars, subVars, client, last_read, used>>

\* _ref: the last connection that leaves takes last_forwarded with it.
Unref(c) == last_forwarded' = IF chat_conns = {c} THEN None ELSE last_forwarded

\* The frames on their way are lost.
Leave(c) ==
  /\ conn' = [conn EXCEPT ![c] = Off]
  /\ toClient' = [toClient EXCEPT ![c] = <<>>]
  /\ client' = [client EXCEPT ![c].asked = {}]
  /\ Unref(c)

Disconnect(c) ==
  /\ conn[c].st = "on" /\ used.connects < situation.connects
  /\ Leave(c)
  /\ UNCHANGED <<ownershipVars, chatVars, linkVars, map, watch, sub_at, rec, floor,
                 last_read, used>>

\* Frames of the client are read once the catch-up is over.
FetchAnswered(c, after) ==
  /\ conn[c].st = "on" /\ after \in client[c].asked
  /\ client' = [client EXCEPT ![c].asked = @ \ {after}]
  /\ toClient' = [toClient EXCEPT ![c] = Append(@, Frame("messages", after, Upto(after), HasMore(Upto(after))))]
  /\ UNCHANGED <<ownershipVars, chatVars, linkVars, subVars, conn, floor, last_read, used>>

\* The read raises StoreError: the page ignores the result.
FetchFails(c, after) ==
  /\ conn[c].st = "on" /\ after \in client[c].asked /\ Fault("fetch")
  /\ client' = [client EXCEPT ![c].asked = @ \ {after}]
  /\ UNCHANGED <<ownershipVars, chatVars, linkVars, subVars, conn, floor, toClient, last_read>>

\* scheduleAck of the page, _flush_acks of the gateway.
Ack(c) ==
  /\ conn[c].st = "on" /\ last_read[c] < client[c].lastSeen
  /\ update_last_read(c, client[c].lastSeen)
  /\ UNCHANGED <<ownershipVars, chatVars, linkVars, subVars, conn, floor, toClient, client, used>>

\* The read raises StoreError: reconcile() fails, and with it serve().
RepairFails ==
  /\ rec.st = "repair" /\ Fault("repair")
  /\ rec' = Idle
  /\ IF rec.by = None THEN UNCHANGED <<conn, toClient, client, last_forwarded>> ELSE Leave(rec.by)
  /\ UNCHANGED <<ownershipVars, chatVars, linkVars, map, watch, sub_at, floor, last_read>>

-----------------------------------------------------------------------------
(* The page.                                                               *)

fetchAfter(p) == [p EXCEPT !.fetching = TRUE, !.asked = @ \cup {p.lastSeen}]

\* Mutant: a gap is buffered, and nothing is fetched.
onNewMessage_NoFetch(p, id) ==
  IF id <= p.lastSeen THEN p
  ELSE IF id = p.lastSeen + 1 THEN [p EXCEPT !.lastSeen = id, !.buffer = @ \ {id}]
  ELSE [p EXCEPT !.buffer = @ \cup {id}]

\* The next message is shown, with what the buffer has after it; a message
\* after a gap is buffered, and the gap fetched.
onNewMessage(p, id) ==
  LET have == p.buffer \cup {id}
      last == CHOOSE k \in p.lastSeen .. MaxMessages :
                /\ p.lastSeen + 1 .. k \subseteq have /\ k + 1 \notin have
  IN IF id <= p.lastSeen THEN p
     ELSE IF id = p.lastSeen + 1 THEN [p EXCEPT !.lastSeen = last, !.buffer = have \ (id .. last)]
     ELSE LET q == [p EXCEPT !.buffer = have] IN IF p.fetching THEN q ELSE fetchAfter(q)

\* The messages from+1..to of a page, one after the other.
onMessages(p, from, to, more) ==
  LET shown[k \in from .. to] ==
        IF k = from THEN [p EXCEPT !.fetching = FALSE] ELSE onNewMessage(shown[k - 1], k)
  IN IF more THEN fetchAfter(shown[to]) ELSE shown[to]

\* onFrame
After(p, f) ==
  CASE f.type = "newMessage" -> onNewMessage(p, f.to)
    [] f.type = "catchupDone" -> IF f.more THEN fetchAfter(p) ELSE p
    [] f.type = "messages" -> onMessages(p, f.from, f.to, f.more)

ClientReceives(c) ==
  /\ toClient[c] # <<>>
  /\ client' = [client EXCEPT ![c] = After(@, Head(toClient[c]))]
  /\ toClient' = [toClient EXCEPT ![c] = Tail(@)]
  /\ UNCHANGED <<ownershipVars, chatVars, linkVars, subVars, conn, floor, last_read, used>>

-----------------------------------------------------------------------------
Ownership(n) == Claim(n) \/ ClaimAnswered(n) \/ LeaseGranted(n) \/ DropShard(n)

Publish(n) == CallAppend(n) \/ CallForgotten(n)

StoreAnswers(a) == AppendMessage(a) \/ AmbiguousAppend(a) \/ NotAppended(a)

NodeHandles(n) == Subscribe(n) \/ RejectSubscribe(n) \/ Unsubscribe(n)

GatewayReceives(n) == \/ ReceiveDeliver(n) \/ ReceiveSubscribed(n)
                      \/ ReceiveRejected(n) \/ ReceiveMoved(n)

Repair == UseAnswer \/ RepairRead \/ RepairPush

Reconcile == UnsubscribeUnwanted \/ \E by \in Conn \cup {None} : SubscribeMissing(by)

Serve(c) == NothingMissing(c) \/ CatchupRead(c) \/ CatchupSend(c)
              \/ \E after \in 0..MaxMessages : FetchAnswered(c, after)

Step ==
  \/ KeyDeleted \/ MapLearns \/ Repair \/ Reconcile \/ RepairFails
  \/ \E a \in appends : StoreAnswers(a)
  \/ \E f \in fanouts : Fanout(f)
  \/ \E n \in Node : \/ Ownership(n) \/ Publish(n) \/ NodeHandles(n) \/ GatewayReceives(n)
                     \/ LinkDown(n) \/ LinkUp(n) \/ Crash(n)
  \/ \E c \in Conn : \/ Connect(c) \/ Disconnect(c) \/ Serve(c) \/ ClientReceives(c) \/ Ack(c)
                     \/ \E after \in 0..MaxMessages : FetchFails(c, after)

Next == Step /\ UNCHANGED situation

Spec == Init /\ [][Next]_vars

\* The tasks of the processes run, frames on a link that stays up arrive, the
\* ownership loops and the reconnecting links go on.
FairSpec ==
  /\ Spec
  /\ WF_steps(MapLearns) /\ WF_steps(Repair)
  /\ WF_steps(UnsubscribeUnwanted) /\ WF_steps(SubscribeMissing(None))
  /\ WF_steps(\E a \in appends : StoreAnswers(a)) /\ WF_steps(\E n \in Node : Claim(n))
  /\ \A n \in Node :
       /\ WF_steps(ClaimAnswered(n)) /\ WF_steps(LeaseGranted(n)) /\ WF_steps(DropShard(n))
       /\ WF_steps(\E f \in fanouts : f.node = n /\ Fanout(f))
       /\ WF_steps(NodeHandles(n)) /\ WF_steps(GatewayReceives(n)) /\ WF_steps(LinkUp(n))
  /\ \A c \in Conn : WF_steps(Serve(c)) /\ WF_steps(ClientReceives(c))

-----------------------------------------------------------------------------
(* What the clients are promised.                                          *)

\* Nothing is under way between the chat and the client of c, and the gateway
\* has followed the shard to a node that serves it and knows the last message.
Quiet(c) ==
  /\ conn[c].st = "on" /\ toClient[c] = <<>> /\ client[c].asked = {}
  /\ rec.st = "idle" /\ watch = <<>> /\ appends = {} /\ fanouts = {}
  /\ \A n \in Node : toNode[n] = <<>> /\ toGw[n] = <<>>
  /\ map = holder /\ sub_at = holder /\ holder \in up /\ can_serve(holder)
  /\ head[holder] \in {None, stored}

\* Clients come and go, and nothing else happens to them, the nodes and the links.
Calm == situation.moves = 0 /\ situation.faults = 0

\* The clients stay, and a page of the store holds whatever they have missed.
Staying == situation.connects = 0 /\ situation.messages <= situation.limit

\* The situations in which the gateway can learn of every message: the others
\* have an append or a repair that fails, a write that commits when the next owner may
\* have read the head, an answer used late, two servers, a repair that stops at the
\* limit, or a client that connects while the shard moves.
Lossless ==
  /\ situation.prompt /\ situation.oneServer
  /\ situation.faulty \cap {"ambiguous", "late", "repair"} = {}
  /\ Calm \/ Staying

\* The page's fetches have an answer, on the connection on which they were made.
FetchesAnswered == "fetch" \notin situation.faulty /\ situation.connects = 0

\* When everything has come to rest, a connected client has every message of
\* the chat: subscription, repair and catch-up leave no hole between them.
QuiescentDelivered == Lossless => \A c \in Conn : Quiet(c) => client[c].lastSeen = stored

\* When everything has come to rest, no message is kept back behind a gap that
\* nobody fills: whoever saw message k will show 1..k.
NothingHeldBack ==
  Lossless \/ FetchesAnswered => \A c \in Conn : Quiet(c) => client[c].buffer = {}

\* Where the gateway believes that it is subscribed, the owner pushes to it.
SubscriptionHolds == Lossless => \A c \in Conn : Quiet(c) => sub_at \in subs

\* In those situations a client that stays connected ends up with every message
\* of the chat, whatever moves and breaks meanwhile.
DeliveredEventually ==
  Lossless => \A c \in Conn : <>[](conn[c].st = "on") => <>[](client[c].lastSeen = stored)

=============================================================================
