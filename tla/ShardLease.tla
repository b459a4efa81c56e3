----------------------------- MODULE ShardLease -----------------------------
(***************************************************************************)
(* One shard, with the clocks: EtcdMember (app/registry.py) with its lease,*)
(* keepalive loop and self-fencing, the ownership loop of PubSubNode       *)
(* (app/pubsub.py) and the local ShardMap that the etcd watch feeds.       *)
(*                                                                         *)
(* Time passes in ticks.  A call to etcd is sent, takes effect, and is     *)
(* answered, some ticks later; it may also fail, before or after it took   *)
(* effect.  A node runs two tasks: the                                     *)
(* keepalive loop (`loop`) and the ownership loop (`own`), each waiting    *)
(* for at most one call.  The other shards of a node are not modelled: it  *)
(* may find at any time that it holds more shards than its fair share.     *)
(***************************************************************************)
EXTENDS Integers, Sequences, SequencesExt

CONSTANTS
  Node, NoNode,
  Lease,          \* lease ids
  NoLease,
  MaxLag,         \* bound on the watch events a node has not handled yet
  Situations      \* the situations of the run: see Situation

FaultKinds == {"crash", "shutdown", "outage", "keepalive", "grant", "put",
               "claim", "release", "revoke"}

\* nodes: the nodes that run; ttl: LEASE_TTL_S; margin: the 1s of lease_healthy;
\* keepalive: KEEPALIVE_EVERY_S; grace: the 2s of _reconcile_ownership; call: the
\* longest a call to etcd takes (all in ticks); promptWatch: watch events are
\* handled before the next tick; faulty, faults: what may go wrong, and how often.
Situation == [nodes : SUBSET Node, ttl : Nat, margin : Nat, keepalive : Nat, grace : Nat, call : Nat,
              promptWatch : BOOLEAN, faulty : SUBSET FaultKinds, faults : Nat]

ASSUME ShardLeaseAssumption ==
  /\ NoNode \notin Node /\ NoLease \notin Lease /\ MaxLag \in Nat \ {0}
  /\ \A s \in Situations : s \in Situation /\ s.margin < s.ttl

VARIABLES
  situation,  \* which one this is
  left,       \* etcd: lease -> ticks until it expires; 0: it does not exist
  holder,     \* etcd: node_id in the key shards/{i}, or NoNode
  keyLease,   \* etcd: the lease the key is attached to, or NoLease
  etcdUp,     \* etcd answers
  lease,      \* node -> EtcdMember.lease
  age,        \* node -> ticks since last_ok (saturated at TTL)
  owned,      \* the nodes whose `owned` contains the shard
  sinceClaim, \* node -> ticks since _last_claim (saturated)
  map,        \* node -> ShardMap.owner(shard)
  events,     \* node -> watch events on the key that it has not handled
  loop,       \* node -> what the keepalive task waits for
  own,        \* node -> what the ownership task waits for
  under,      \* node -> the lease under which it claimed the shard (history)
  faults      \* how often something went wrong so far

etcdVars == <<left, holder, keyLease, etcdUp>>
nodeVars == <<lease, age, owned, sinceClaim, map, under>>
steps == <<etcdVars, nodeVars, events, loop, own, faults>>
vars == <<steps, situation>>

TTL == situation.ttl
Margin == situation.margin
DropDelay == situation.grace

\* What a task waits for: a sleep, or a call to etcd.  st: the call is on its
\* way ("sent"), or took effect with this outcome; wait: ticks since it began.
Task == [op : {"sleep", "boot", "idle", "drain", "exit", "keepalive", "grant",
               "put", "claim", "release", "revoke"},
         st : {"sent", "ok", "refused"}, lease : Lease \cup {NoLease}, wait : Nat]

Begin(op, l) == [op |-> op, st |-> "sent", lease |-> l, wait |-> 0]
Calls == {"keepalive", "grant", "put", "claim", "release", "revoke"}

TypeOK ==
  /\ left \in [Lease -> 0..TTL]
  /\ holder \in Node \cup {NoNode}
  /\ keyLease \in Lease \cup {NoLease}
  /\ etcdUp \in BOOLEAN
  /\ lease \in [Node -> Lease \cup {NoLease}]
  /\ age \in [Node -> 0..TTL]
  /\ owned \subseteq Node
  /\ sinceClaim \in [Node -> 0 .. DropDelay + 1]
  /\ map \in [Node -> Node \cup {NoNode}]
  /\ events \in [Node -> Seq(Node \cup {NoNode})]
  /\ loop \in [Node -> Task] /\ own \in [Node -> Task]
  /\ under \in [Node -> Lease \cup {NoLease}]
  /\ faults \in 0..situation.faults /\ situation \in Situations

-----------------------------------------------------------------------------
(* EtcdMember.lease_healthy, PubSubNode.can_serve.                         *)

\* Mutant: no margin; the node trusts its lease for the whole TTL.
lease_healthy_NoMargin(n) == lease[n] # NoLease /\ age[n] < TTL

lease_healthy(n) == lease[n] # NoLease /\ age[n] < TTL - Margin

fenced(n) == loop[n].op \in {"revoke", "exit"}
draining(n) == own[n].op \in {"drain", "release"}

can_serve(n) == n \in owned /\ ~ fenced(n) /\ ~ draining(n) /\ lease_healthy(n)

Init ==
  /\ situation \in Situations
  /\ left = [l \in Lease |-> 0]
  /\ holder = NoNode /\ keyLease = NoLease /\ etcdUp = TRUE
  /\ lease = [n \in Node |-> NoLease]
  /\ age = [n \in Node |-> TTL]
  /\ owned = Node
  /\ sinceClaim = [n \in Node |-> DropDelay + 1]
  /\ map = [n \in Node |-> NoNode]
  /\ events = [n \in Node |-> <<>>]
  /\ loop = [n \in Node |-> Begin(IF n \in situation.nodes THEN "grant" ELSE "exit", NoLease)]
  /\ own = [n \in Node |-> Begin("boot", NoLease)]
  /\ under = [n \in Node |-> NoLease]
  /\ faults = 0

-----------------------------------------------------------------------------
(* etcd.                                                                   *)

Live(l) == l # NoLease /\ left[l] > 0

\* Lease ids are only compared: any one that nobody uses will do.
FreshLeases == {l \in Lease : left[l] = 0 /\ keyLease # l
                                /\ \A n \in Node : l \notin {lease[n], under[n], loop[n].lease, own[n].lease}}

\* The process has started its view of the cluster and its ownership loop.
Running(n) == own[n].op # "boot" /\ loop[n].op # "exit"

\* Every watcher gets an event for a change of the key, in order.
KeyBecomes(n, l) ==
  /\ \A m \in Node : Len(events[m]) < MaxLag
  /\ holder' = n /\ keyLease' = l
  /\ events' = [m \in Node |-> IF Running(m) THEN Append(events[m], n) ELSE <<>>]

KeyStays == UNCHANGED <<holder, keyLease, events>>

\* A call of the task takes effect with this outcome.
Outcome(task, n, st) == [task EXCEPT ![n].st = st]

Sent(task, n, op) == etcdUp /\ task[n].op = op /\ task[n].st = "sent"

EtcdKeepalive(n) ==
  LET l == loop[n].lease IN
  /\ Sent(loop, n, "keepalive")
  /\ left' = [left EXCEPT ![l] = IF Live(l) THEN TTL ELSE 0]
  /\ loop' = Outcome(loop, n, IF Live(l) THEN "ok" ELSE "refused")
  /\ KeyStays
  /\ UNCHANGED <<etcdUp, nodeVars, own, faults>>

EtcdGrant(n) ==
  /\ Sent(loop, n, "grant")
  /\ FreshLeases # {}
  /\ LET l == CHOOSE l \in FreshLeases : TRUE IN
       /\ left' = [left EXCEPT ![l] = TTL]
       /\ loop' = [loop EXCEPT ![n].st = "ok", ![n].lease = l]
  /\ KeyStays
  /\ UNCHANGED <<etcdUp, nodeVars, own, faults>>

\* The put of nodes/{id}; etcd rejects a lease that it does not know.
EtcdPut(n) ==
  /\ Sent(loop, n, "put")
  /\ loop' = Outcome(loop, n, IF Live(loop[n].lease) THEN "ok" ELSE "refused")
  /\ UNCHANGED <<etcdVars, nodeVars, events, own, faults>>

\* Mutant: a plain put instead of the comparison create_revision == 0.
EtcdClaim_Put(n) ==
  /\ Sent(own, n, "claim")
  /\ IF Live(own[n].lease)
     THEN KeyBecomes(n, own[n].lease) /\ own' = Outcome(own, n, "ok")
     ELSE KeyStays /\ own' = Outcome(own, n, "refused")
  /\ UNCHANGED <<left, etcdUp, nodeVars, loop, faults>>

\* create_if_absent
EtcdClaim(n) ==
  /\ Sent(own, n, "claim")
  /\ IF holder = NoNode /\ Live(own[n].lease)
     THEN KeyBecomes(n, own[n].lease) /\ own' = Outcome(own, n, "ok")
     ELSE KeyStays /\ own' = Outcome(own, n, "refused")
  /\ UNCHANGED <<left, etcdUp, nodeVars, loop, faults>>

\* delete_if_value
EtcdRelease(n) ==
  /\ Sent(own, n, "release")
  /\ own' = Outcome(own, n, IF holder = n THEN "ok" ELSE "refused")
  /\ IF holder = n THEN KeyBecomes(NoNode, NoLease) ELSE KeyStays
  /\ UNCHANGED <<left, etcdUp, nodeVars, loop, faults>>

\* The lease goes, and the key if it is attached to it.
EtcdRevoke(n) ==
  LET l == loop[n].lease IN
  /\ Sent(loop, n, "revoke")
  /\ left' = [k \in Lease |-> IF k = l THEN 0 ELSE left[k]]
  /\ loop' = Outcome(loop, n, "ok")
  /\ IF keyLease # NoLease /\ keyLease = l THEN KeyBecomes(NoNode, NoLease) ELSE KeyStays
  /\ UNCHANGED <<etcdUp, nodeVars, own, faults>>

\* etcd notices, sooner or later, that the lease of the key has expired.
EtcdExpire ==
  /\ etcdUp /\ keyLease # NoLease /\ left[keyLease] = 0
  /\ KeyBecomes(NoNode, NoLease)
  /\ UNCHANGED <<left, etcdUp, nodeVars, loop, own, faults>>

-----------------------------------------------------------------------------
(* The node's ShardMap, and the keepalive task.                            *)

set_owner(n, owner) == map' = [map EXCEPT ![n] = owner]
replace(n, owner) == map' = [map EXCEPT ![n] = owner]

\* _drop_shard
DropShard(n) ==
  /\ owned' = owned \ {n}
  /\ under' = [under EXCEPT ![n] = NoLease]

LoopWaits(n, op, l) == loop' = [loop EXCEPT ![n] = Begin(op, l)]

\* on_lease_lost drops the shard; then _acquire asks for a new lease.
LeaseLost(n) ==
  /\ DropShard(n)
  /\ LoopWaits(n, "grant", NoLease)
  /\ UNCHANGED <<lease, age>>

SendKeepalive(n) ==
  /\ loop[n].op = "sleep" /\ loop[n].wait = situation.keepalive
  /\ LoopWaits(n, "keepalive", lease[n])
  /\ UNCHANGED <<etcdVars, nodeVars, events, own, faults>>

KeepaliveAnswered(n) ==
  /\ loop[n].op = "keepalive"
  /\ \/ /\ loop[n].st = "ok"
        /\ age' = [age EXCEPT ![n] = 0]
        /\ LoopWaits(n, "sleep", NoLease)
        /\ UNCHANGED <<lease, owned, under>>
     \/ /\ loop[n].st = "refused"
        /\ LeaseLost(n)
  /\ UNCHANGED <<etcdVars, sinceClaim, map, events, own, faults>>

\* The first lease is part of the startup of the process.
Booted(n) == IF own[n].op = "boot" THEN [own EXCEPT ![n] = Begin("idle", NoLease)]
                                   ELSE own

GrantAnswered(n) ==
  /\ loop[n].op = "grant" /\ loop[n].st = "ok"
  /\ lease' = [lease EXCEPT ![n] = loop[n].lease]
  /\ LoopWaits(n, "put", loop[n].lease)
  /\ UNCHANGED <<etcdVars, age, owned, sinceClaim, map, under, events, own, faults>>

\* _acquire returns: last_ok is set; a new process starts its view and loop.
PutAnswered(n) ==
  /\ loop[n].op = "put" /\ loop[n].st = "ok"
  /\ age' = [age EXCEPT ![n] = 0]
  /\ LoopWaits(n, "sleep", NoLease)
  /\ own' = Booted(n)
  /\ events' = IF own[n].op = "boot" THEN [events EXCEPT ![n] = <<holder>>] ELSE events
  /\ UNCHANGED <<etcdVars, lease, owned, sinceClaim, map, under, faults>>

\* A process that has no state yet: PubSubNode built without a member, so
\* that `owned` holds every shard, then member.start().
FreshProcess(n) ==
  /\ lease' = [lease EXCEPT ![n] = NoLease]
  /\ age' = [age EXCEPT ![n] = TTL]
  /\ owned' = owned \cup {n}
  /\ sinceClaim' = [sinceClaim EXCEPT ![n] = DropDelay + 1]
  /\ map' = [map EXCEPT ![n] = NoNode]
  /\ under' = [under EXCEPT ![n] = NoLease]
  /\ events' = [events EXCEPT ![n] = <<>>]
  /\ LoopWaits(n, "grant", NoLease)
  /\ own' = [own EXCEPT ![n] = Begin("boot", NoLease)]

\* _acquire fails: at startup the process exits and is started again, later
\* the loop goes on ("etcd re-register failed").
AcquireFails(n) ==
  IF own[n].op = "boot" THEN FreshProcess(n)
  ELSE LoopWaits(n, "sleep", NoLease) /\ UNCHANGED <<nodeVars, events, own>>

-----------------------------------------------------------------------------
(* The ownership task: _reconcile_ownership and release_shard.             *)

OwnWaits(n, op, l) == own' = [own EXCEPT ![n] = Begin(op, l)]

\* Mutant: no grace period after a claim.
OwnedAfterDrop_NoGrace(n) == IF map[n] # n THEN owned \ {n} ELSE owned

\* After step 1: the shard is dropped if the map says it is not mine, unless
\* a claim was answered within the grace period.
OwnedAfterDrop(n) ==
  IF map[n] # n /\ sinceClaim[n] > DropDelay THEN owned \ {n} ELSE owned

Reconcile(n) ==
  /\ own[n].op = "idle" /\ ~ fenced(n)
  /\ owned' = OwnedAfterDrop(n)
  /\ under' = [under EXCEPT ![n] = IF n \in owned' THEN @ ELSE NoLease]
  /\ \/ /\ lease_healthy(n) /\ map[n] = NoNode             \* an orphan: claim it
        /\ OwnWaits(n, "claim", lease[n])
     \/ /\ n \in owned' /\ sinceClaim[n] > DropDelay       \* a surplus: hand it over
        /\ OwnWaits(n, "drain", NoLease)
     \/ /\ owned' # owned
        /\ UNCHANGED own
  /\ UNCHANGED <<etcdVars, lease, age, sinceClaim, map, events, loop, faults>>

ClaimAnswered(n) ==
  /\ own[n].op = "claim" /\ own[n].st # "sent"
  /\ OwnWaits(n, "idle", NoLease)
  /\ IF own[n].st = "ok"
     THEN /\ owned' = owned \cup {n}
          /\ sinceClaim' = [sinceClaim EXCEPT ![n] = 0]
          /\ set_owner(n, n)
          /\ under' = [under EXCEPT ![n] = own[n].lease]
     ELSE UNCHANGED <<owned, sinceClaim, map, under>>
  /\ UNCHANGED <<etcdVars, lease, age, events, loop, faults>>

\* The locks of the shard's chats are free, or 2s have passed.
Drained(n) ==
  /\ own[n].op = "drain"
  /\ OwnWaits(n, "release", NoLease)
  /\ UNCHANGED <<etcdVars, nodeVars, events, loop, faults>>

\* release_shard's finally: the shard is dropped whatever etcd said.
Released(n) ==
  /\ DropShard(n)
  /\ OwnWaits(n, "idle", NoLease)
  /\ UNCHANGED <<lease, age, sinceClaim, map>>

ReleaseAnswered(n) ==
  /\ own[n].op = "release" /\ own[n].st # "sent"
  /\ Released(n)
  /\ UNCHANGED <<etcdVars, events, loop, faults>>

-----------------------------------------------------------------------------
(* The watch: set_owner for the next event, or a reload after an error.    *)
Watch(n) ==
  /\ etcdUp /\ Running(n) /\ events[n] # <<>>
  /\ set_owner(n, Head(events[n]))
  /\ events' = [events EXCEPT ![n] = Tail(@)]
  /\ UNCHANGED <<etcdVars, lease, age, owned, sinceClaim, under, loop, own, faults>>

Reload(n) ==
  /\ etcdUp /\ Running(n) /\ events[n] # <<>>
  /\ replace(n, holder)
  /\ events' = [events EXCEPT ![n] = <<>>]
  /\ UNCHANGED <<etcdVars, lease, age, owned, sinceClaim, under, loop, own, faults>>

-----------------------------------------------------------------------------
(* What goes wrong.                                                        *)

Fault(kind) ==
  /\ kind \in situation.faulty
  /\ faults < situation.faults
  /\ faults' = faults + 1

\* The call of a task raises: it never reached etcd, or the answer is lost.
CallFails(kind) == Fault(kind) \/ (~ etcdUp /\ UNCHANGED faults)

KeepaliveFails(n) ==
  /\ loop[n].op = "keepalive" /\ CallFails("keepalive")
  /\ IF lease_healthy(n) THEN LoopWaits(n, "sleep", NoLease) /\ UNCHANGED <<lease, age, owned, under>>
                         ELSE LeaseLost(n)
  /\ UNCHANGED <<etcdVars, sinceClaim, map, events, own>>

\* The call is lost, or etcd refused the lease of the put.
RegisterFails(n) ==
  /\ loop[n].op \in {"grant", "put"}
  /\ IF loop[n].st = "refused" THEN UNCHANGED faults ELSE CallFails(loop[n].op)
  /\ AcquireFails(n)
  /\ UNCHANGED etcdVars

ClaimFails(n) ==
  /\ own[n].op = "claim" /\ CallFails("claim")
  /\ OwnWaits(n, "idle", NoLease)
  /\ UNCHANGED <<etcdVars, nodeVars, events, loop>>

ReleaseFails(n) ==
  /\ own[n].op = "release" /\ CallFails("release")
  /\ Released(n)
  /\ UNCHANGED <<etcdVars, events, loop>>

\* SIGKILL; the new process has the same NODE_ID.
Crash(n) ==
  /\ Fault("crash")
  /\ FreshProcess(n)
  /\ UNCHANGED etcdVars

\* SIGTERM: PubSubNode.shutdown, fenced = True, then the lease is revoked.
Shutdown(n) ==
  /\ Running(n) /\ loop[n].op # "revoke"
  /\ Fault("shutdown")
  /\ LoopWaits(n, "revoke", lease[n])
  /\ OwnWaits(n, "idle", NoLease)
  /\ IF draining(n) THEN DropShard(n) ELSE UNCHANGED <<owned, under>>
  /\ UNCHANGED <<etcdVars, lease, age, sinceClaim, map, events>>

Exit(n) ==
  /\ loop[n].op = "revoke"
  /\ \/ loop[n].st = "ok" /\ UNCHANGED faults
     \/ CallFails("revoke")
  /\ LoopWaits(n, "exit", NoLease)
  /\ UNCHANGED <<etcdVars, nodeVars, events, own>>

StartAgain(n) ==
  /\ loop[n].op = "exit"
  /\ FreshProcess(n)
  /\ UNCHANGED <<etcdVars, faults>>

Outage ==
  /\ etcdUp /\ Fault("outage")
  /\ etcdUp' = FALSE
  /\ UNCHANGED <<left, holder, keyLease, nodeVars, events, loop, own>>

Recovery ==
  /\ ~ etcdUp
  /\ etcdUp' = TRUE
  /\ UNCHANGED <<left, holder, keyLease, nodeVars, events, loop, own, faults>>

-----------------------------------------------------------------------------
\* The longest a task stays where it is.
Limit(task) ==
  IF task.op = "sleep" THEN situation.keepalive
  ELSE IF task.op \in Calls THEN situation.call ELSE TTL

Waits(task) ==
  IF task.op = "sleep" \/ task.op \in Calls THEN [task EXCEPT !.wait = @ + 1] ELSE task

Least(a, b) == IF a < b THEN a ELSE b

Tick ==
  /\ \A n \in Node : loop[n].wait < Limit(loop[n]) /\ own[n].wait < Limit(own[n])
  /\ situation.promptWatch => \A n \in Node : events[n] = <<>>
  /\ left' = [l \in Lease |-> IF left[l] > 0 THEN left[l] - 1 ELSE 0]
  /\ age' = [n \in Node |-> Least(age[n] + 1, TTL)]
  /\ sinceClaim' = [n \in Node |-> Least(sinceClaim[n] + 1, DropDelay + 1)]
  /\ loop' = [n \in Node |-> Waits(loop[n])]
  /\ own' = [n \in Node |-> Waits(own[n])]
  /\ UNCHANGED <<holder, keyLease, etcdUp, lease, owned, map, under, events, faults>>

Etcd(n) == EtcdKeepalive(n) \/ EtcdGrant(n) \/ EtcdPut(n) \/ EtcdClaim(n)
             \/ EtcdRelease(n) \/ EtcdRevoke(n)

KeepaliveTask(n) == SendKeepalive(n) \/ KeepaliveAnswered(n) \/ GrantAnswered(n)
                      \/ PutAnswered(n) \/ Exit(n) \/ StartAgain(n)

OwnershipTask(n) == Reconcile(n) \/ ClaimAnswered(n) \/ Drained(n) \/ ReleaseAnswered(n)

Fails(n) == KeepaliveFails(n) \/ RegisterFails(n) \/ ClaimFails(n) \/ ReleaseFails(n)
              \/ Crash(n) \/ Shutdown(n)

Step ==
  \/ Tick \/ EtcdExpire \/ Outage \/ Recovery
  \/ \E n \in situation.nodes : \/ Etcd(n) \/ KeepaliveTask(n) \/ OwnershipTask(n)
                                \/ Watch(n) \/ Reload(n) \/ Fails(n)

Next == Step /\ UNCHANGED situation

Spec == Init /\ [][Next]_vars

\* Sleeps end, runnable tasks run, etcd serves what reaches it while it is up,
\* the watch delivers, and an outage ends.
Fairness ==
  /\ WF_steps(Tick) /\ WF_steps(EtcdExpire) /\ WF_steps(Recovery)
  /\ \A n \in Node : n \in situation.nodes =>
       /\ WF_steps(Etcd(n)) /\ WF_steps(KeepaliveTask(n))
       /\ WF_steps(OwnershipTask(n)) /\ WF_steps(Watch(n))

FairSpec == Spec /\ Fairness

-----------------------------------------------------------------------------
(* Self-fencing (registry.py, EtcdMember): a node that serves under the    *)
(* lease with which it claimed the shard still holds the key; it stops     *)
(* before etcd can give the shard away.  True as long as two calls in a    *)
(* row (grant and put) fit into the margin.                                *)
CallsFitMargin == 2 * situation.call <= Margin
SelfFencing ==
  CallsFitMargin =>
    \A n \in Node : can_serve(n) /\ under[n] # NoLease /\ under[n] = lease[n] => holder = n

(* One owner at any time (pubsub.py, DESIGN appendix A).  The code does     *)
(* not keep it while a process starts (README, scenarios).                   *)
OneServer == \A n, m \in Node : can_serve(n) /\ can_serve(m) => n = m

(* "etcd down: the existing owners go on" (DESIGN appendix B): no step      *)
(* during an outage ends the service of a node that holds the key, unless  *)
(* the node hands the shard over.  The code does not keep it.              *)
KeepsServing ==
  [][\A n \in Node : ~ etcdUp /\ holder = n /\ can_serve(n)
                     => can_serve(n)' \/ draining(n)']_vars

(* The absence of an owner is temporary (DESIGN, error handling), if the   *)
(* watch is quicker than the grace period and only processes fail.         *)
ServedAgain ==
  situation.promptWatch /\ situation.faulty \subseteq {"crash", "shutdown"} => []<>(\E n \in Node : can_serve(n))

(* With its clocks and calls forgotten this is ShardOwnership.             *)
suspended == {n \in Node : ~ lease_healthy(n) \/ fenced(n) \/ draining(n)}
Ownership == INSTANCE ShardOwnership
ImplementsOwnership == Ownership!OwnershipSpec
=============================================================================
