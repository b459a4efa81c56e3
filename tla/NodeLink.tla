------------------------------- MODULE NodeLink -------------------------------
(***************************************************************************)
(* The link between one gateway and one pub/sub node (app/links.py,        *)
(* app/routes_pubsub.py), and the calls that a gateway makes over it       *)
(* (call_owner and reconcile in app/gateway.py).                           *)
(*                                                                         *)
(* WsLink keeps one connection to the node and opens the next when it is   *)
(* lost; requests are told apart by req_id.  The node serves a connection  *)
(* by a QueuePeer: a bounded queue and a writer; one that cannot take a    *)
(* delivered event is closed, and the connection with it.                  *)
(***************************************************************************)
EXTENDS Integers, Sequences

CONSTANTS
  Publishes,       \* calls made by call_owner
  Subscribes,      \* calls made by reconcile: a topic to be subscribed
  SEND_QUEUE_MAX,  \* frames a QueuePeer holds
  MaxAttempts,     \* bound on the requests
  MaxLinks,        \* bound on the connections, one after the other
  MaxEvents,       \* bound on the events fanned out
  Situations       \* which calls are made, and the bounds on requests and events

ASSUME LinkAssumption ==
  /\ Publishes \cap Subscribes = {} /\ SEND_QUEUE_MAX \in Nat \ {0}
  /\ MaxAttempts \in Nat /\ MaxLinks \in Nat \ {0} /\ MaxEvents \in Nat
  /\ Situations \subseteq [calls : SUBSET (Publishes \cup Subscribes), requests : 0..MaxAttempts, events : 0..MaxEvents]

VARIABLES
  ws,        \* WsLink._ws: the connection in use, or 0
  lastWs,    \* the last connection opened
  pending,   \* WsLink._pending: req_ids
  future,    \* req_id -> the state of its future, and the answer
  calls,     \* call -> where it is
  late,      \* calls whose PUBLISH_DEADLINE_S is over
  attempts,  \* requests so far
  open,      \* connections that are open
  down,      \* connection -> frames on their way to the gateway
  q,         \* connection -> QueuePeer.q
  peer,      \* connection -> state of its QueuePeer
  handling,  \* connection -> requests on their way, or being handled by the node
  subs,      \* PubSubNode.subs: the peers subscribed to the topic
  fanned,    \* events fanned out so far
  situation, \* the calls and bounds of this behaviour
  got        \* connection -> events handled by the gateway (history)

wsVars == <<ws, lastWs, pending, future, open>>
callVars == <<calls, late, attempts>>
nodeVars == <<q, peer, handling, subs, fanned>>
linkVars == <<wsVars, callVars, nodeVars, down, got, situation>>

Call == Publishes \cup Subscribes
Conn == 1..MaxLinks
Req == [id : 1..MaxAttempts, call : Call]
Code == {"published", "subscribed", "NOT_OWNER", "STORE_ERROR"}
Reply == [id : 1..MaxAttempts, code : Code]
Deliver == [id : {0}, event : 1..MaxEvents]
Frame == Reply \cup Deliver
Event(e) == [id |-> 0, event |-> e]
Future == [state : {"none", "waiting", "answered", "timeout", "LinkClosed"}, code : Code \cup {"none"}]
Pending(state) == [state |-> state, code |-> "none"]
Answered(f) == [state |-> "answered", code |-> f.code]
Waits(r) == future[r].state = "waiting"

LinkTypeOK ==
  /\ ws \in 0..MaxLinks /\ lastWs \in 0..MaxLinks /\ open \subseteq Conn
  /\ pending \subseteq 1..MaxAttempts /\ late \subseteq Call /\ attempts \in 0..MaxAttempts
  /\ future \in [1..MaxAttempts -> Future]
  /\ calls \in [Call -> [pc : {"asking", "waiting", "resting", "done"}, id : 0..MaxAttempts, stored : BOOLEAN]]
  /\ down \in [Conn -> Seq(Frame)] /\ q \in [Conn -> Seq(Frame)]
  /\ got \in [Conn -> Seq(Deliver)] /\ handling \in [Conn -> SUBSET Req]
  /\ situation \in Situations
  /\ peer \in [Conn -> {"none", "open", "closed", "gone"}] /\ subs \subseteq Conn /\ fanned \in 0..MaxEvents

LinkInit ==
  /\ ws = 0 /\ lastWs = 0 /\ open = {} /\ pending = {}
  /\ future = [r \in 1..MaxAttempts |-> Pending("none")]
  /\ situation \in Situations
  /\ calls = [c \in Call |-> [pc |-> IF c \in situation.calls THEN "asking" ELSE "done", id |-> 0, stored |-> FALSE]]
  /\ late = {} /\ attempts = 0
  /\ down = [w \in Conn |-> <<>>] /\ q = [w \in Conn |-> <<>>]
  /\ peer = [w \in Conn |-> "none"] /\ handling = [w \in Conn |-> {}]
  /\ subs = {} /\ fanned = 0 /\ got = [w \in Conn |-> <<>>]

-----------------------------------------------------------------------------
(* The gateway's calls.                                                    *)

\* Each request of a frame has a req_id of its own.
ReqId(c) == attempts + 1

\* The request is registered before it is sent; if the connection is gone
\* already, sending raises.
SendRequest(c) ==
  /\ calls[c].pc = "asking" /\ c \notin late /\ ws # 0 /\ attempts < situation.requests
  /\ LET id == ReqId(c) IN
     /\ attempts' = attempts + 1
     /\ IF ws \in open
        THEN /\ pending' = pending \cup {id} /\ future' = [future EXCEPT ![id] = Pending("waiting")]
             /\ handling' = [handling EXCEPT ![ws] = @ \cup {[id |-> id, call |-> c]}]
             /\ calls' = [calls EXCEPT ![c] = [@ EXCEPT !.pc = "waiting", !.id = id]]
        ELSE /\ calls' = [calls EXCEPT ![c] = [@ EXCEPT !.pc = "resting", !.id = id]]
             /\ UNCHANGED <<pending, future, handling>>
  /\ UNCHANGED <<ws, lastWs, open, late, q, peer, subs, fanned, down, got, situation>>

\* Mutant: nothing ends a request but its answer and the loss of the link.
Expire_Never(c) == FALSE /\ UNCHANGED linkVars
\* wait_for cancels the future; request removes it when it runs again.
Expire(c) ==
  /\ calls[c].pc = "waiting" /\ Waits(calls[c].id)
  /\ future' = [future EXCEPT ![calls[c].id] = Pending("timeout")]
  /\ UNCHANGED <<ws, lastWs, pending, open, callVars, nodeVars, down, got, situation>>

\* Does call_owner, or the next reconcile, ask again?
Retries(c, result) ==
  \/ result.state \in {"timeout", "LinkClosed"}
  \/ result.code = "NOT_OWNER"
  \/ result.code = "STORE_ERROR" /\ (c \in Publishes => ~ calls[c].stored)

Resume(c) ==
  /\ calls[c].pc = "waiting" /\ ~ Waits(calls[c].id)
  /\ LET result == future[calls[c].id] IN
     /\ pending' = pending \ {calls[c].id} /\ future' = [future EXCEPT ![calls[c].id] = Pending("none")]
     /\ calls' = [calls EXCEPT ![c] = [@ EXCEPT !.pc = IF Retries(c, result) THEN "resting" ELSE "done",
                    !.stored = calls[c].stored \/ result.code = "STORE_ERROR"]]
  /\ UNCHANGED <<ws, lastWs, open, late, attempts, nodeVars, down, got, situation>>

\* After the back-off; a subscription is asked for again by a later reconcile.
Wake(c) ==
  /\ calls[c].pc = "resting" /\ calls' = [calls EXCEPT ![c].pc = "asking"]
  /\ UNCHANGED <<wsVars, late, attempts, nodeVars, down, got, situation>>

DeadlinePasses(c) ==
  /\ c \in Publishes \ late /\ calls[c].pc # "done" /\ late' = late \cup {c}
  /\ UNCHANGED <<wsVars, calls, attempts, nodeVars, down, got, situation>>

\* publish_failed, UNAVAILABLE
GiveUp(c) ==
  /\ calls[c].pc = "asking" /\ c \in late
  /\ calls' = [calls EXCEPT ![c].pc = "done"]
  /\ UNCHANGED <<wsVars, late, attempts, nodeVars, down, got, situation>>

CallOwner(c) == SendRequest(c) \/ Expire(c) \/ Resume(c) \/ Wake(c) \/ GiveUp(c)
-----------------------------------------------------------------------------
(* WsLink._run                                                             *)

\* The node accepts the connection and gives it a QueuePeer.
Connect ==
  /\ ws = 0 /\ lastWs < MaxLinks
  /\ ws' = lastWs + 1 /\ lastWs' = lastWs + 1 /\ open' = open \cup {lastWs + 1}
  /\ peer' = [peer EXCEPT ![lastWs + 1] = "open"]
  /\ UNCHANGED <<pending, future, callVars, q, handling, subs, fanned, down, got, situation>>

\* An answer nobody waits for is a frame that the gateway has no use for.
Read ==
  /\ ws # 0 /\ down[ws] # <<>>
  /\ LET f == Head(down[ws]) IN
     /\ pending' = pending \ {f.id}
     /\ future' = IF f.id \in pending /\ Waits(f.id) THEN [future EXCEPT ![f.id] = Answered(f)] ELSE future
     /\ got' = IF f.id = 0 THEN [got EXCEPT ![ws] = Append(@, f)] ELSE got
  /\ down' = [down EXCEPT ![ws] = Tail(@)]
  /\ UNCHANGED <<ws, lastWs, open, callVars, nodeVars, situation>>

\* Mutant: the requests of the lost connection are left to their timeouts.
Closing_None == {}
\* The requests that end with the connection.
Closing == {r \in pending : Waits(r)}

\* The subscriptions at the node are forgotten (on_link_down), so that they are asked for again.
LinkDown ==
  /\ ws # 0 /\ ws \notin open
  /\ ws' = 0 /\ pending' = {}
  /\ future' = [r \in 1..MaxAttempts |-> IF r \in Closing THEN Pending("LinkClosed") ELSE future[r]]
  /\ calls' = [c \in Call |-> IF c \in Subscribes \cap situation.calls /\ calls[c].pc = "done"
                              THEN [calls[c] EXCEPT !.pc = "asking"] ELSE calls[c]]
  /\ UNCHANGED <<lastWs, open, late, attempts, nodeVars, down, got, situation>>

\* The network breaks the connection, or a ping has no answer in time.
Break ==
  /\ ws \in open /\ lastWs < MaxLinks /\ open' = open \ {ws}
  /\ UNCHANGED <<ws, lastWs, pending, future, callVars, nodeVars, down, got, situation>>
-----------------------------------------------------------------------------
(* internal_ws, QueuePeer and PubSubNode                                   *)

Takes(w) == peer[w] = "open" /\ Len(q[w]) < SEND_QUEUE_MAX
SendTo(w, f) == IF Takes(w) THEN [q EXCEPT ![w] = Append(@, f)] ELSE q

\* Each frame is handled by a task of its own, in any order or, as far as the gateway
\* can tell, never. The task goes on when the connection is gone: it may subscribe a
\* closed peer. An answer for which the queue has no room is dropped.
Handle(w, m, code) ==
  /\ m \in handling[w]
  /\ code \in IF m.call \in Subscribes THEN {"subscribed", "NOT_OWNER"} ELSE {"published", "NOT_OWNER", "STORE_ERROR"}
  /\ handling' = [handling EXCEPT ![w] = @ \ {m}]
  /\ subs' = IF code = "subscribed" THEN subs \cup {w} ELSE subs
  /\ q' = SendTo(w, [id |-> m.id, code |-> code])
  /\ UNCHANGED <<wsVars, callVars, peer, fanned, down, got, situation>>

\* Mutant: a slow peer only misses the event.
Slow_Kept(w) == FALSE
\* A peer that cannot take an event is closed.
Slow(w) == w \in subs /\ peer[w] = "open" /\ ~ Takes(w)

Fanout ==
  /\ fanned < situation.events /\ fanned' = fanned + 1
  /\ peer' = [w \in Conn |-> IF Slow(w) THEN "closed" ELSE peer[w]]
  /\ q' = [w \in Conn |-> IF Slow(w) THEN <<>>
                          ELSE IF w \in subs /\ Takes(w) THEN Append(q[w], Event(fanned + 1)) ELSE q[w]]
  /\ UNCHANGED <<wsVars, callVars, handling, subs, down, got, situation>>

\* The writer stops when the connection is gone.
Drain(w) ==
  /\ peer[w] = "open" /\ q[w] # <<>>
  /\ IF w \in open THEN /\ down' = [down EXCEPT ![w] = Append(@, Head(q[w]))] /\ q' = [q EXCEPT ![w] = Tail(@)]
                        /\ peer' = peer
     ELSE /\ peer' = [peer EXCEPT ![w] = "closed"] /\ q' = [q EXCEPT ![w] = <<>>] /\ UNCHANGED down
  /\ UNCHANGED <<wsVars, callVars, handling, subs, fanned, got, situation>>

PeerEnds(w) ==
  /\ peer[w] \in {"open", "closed"} /\ (peer[w] = "closed" \/ w \notin open)
  /\ peer' = [peer EXCEPT ![w] = "gone"] /\ subs' = subs \ {w} /\ q' = [q EXCEPT ![w] = <<>>]
  /\ open' = open \ {w}
  /\ UNCHANGED <<ws, lastWs, pending, future, callVars, handling, fanned, down, got, situation>>

NodeSide(w) == Drain(w) \/ PeerEnds(w) \/ \E m \in handling[w], code \in Code : Handle(w, m, code)
Serve == \E w \in Conn : NodeSide(w)
-----------------------------------------------------------------------------
MakeCalls == \E c \in Call : CallOwner(c) \/ DeadlinePasses(c)
RunLink == Connect \/ Read \/ LinkDown

LinkNext == MakeCalls \/ RunLink \/ Serve \/ Break \/ Fanout

\* Timers fire and tasks that can run do; nothing makes the node answer.
LinkFairness ==
  /\ \A c \in Publishes : WF_linkVars(Expire(c) \/ Resume(c) \/ Wake(c) \/ GiveUp(c)) /\ WF_linkVars(DeadlinePasses(c))
  /\ WF_linkVars(LinkDown) /\ \A w \in Conn : WF_linkVars(PeerEnds(w))

LinkSpec == LinkInit /\ [][LinkNext]_linkVars /\ LinkFairness
-----------------------------------------------------------------------------
\* A request waits only while the connection that carried it is in use and it is
\* registered there: a lost link ends it at once, not at its timeout.
WaitsOnLiveLink ==
  \A c \in Call : calls[c].pc = "waiting" /\ Waits(calls[c].id) => ws # 0 /\ calls[c].id \in pending

\* What the connection has carried and still carries, and the events in it.
Stream(w) == got[w] \o down[w] \o q[w]
Told(w) == {e \in 1..MaxEvents : \E i \in DOMAIN Stream(w) : Stream(w)[i] = Event(e)}

\* The events that a connection carries, from its subscription to its end, come in
\* their order and have no hole, however slow the gateway: one that is missed ends
\* the connection.
NoHole ==
  \A w \in Conn :
    /\ \A d, e \in 1..MaxEvents : \A i, j \in DOMAIN Stream(w) :
         Stream(w)[i] = Event(d) /\ Stream(w)[j] = Event(e) /\ d <= e => i <= j
    /\ \A d, e \in Told(w) : d..e \subseteq Told(w)
    /\ w \in subs /\ peer[w] = "open" /\ Told(w) # {} => fanned \in Told(w)

\* Every call of call_owner returns: at the latest when its deadline is over.
CallsReturn == \A c \in Publishes : <>(calls[c].pc = "done")

=============================================================================
