--------------------------- MODULE ShardOwnership ---------------------------
(***************************************************************************)
(* Who may serve ONE shard of the messenger, as the pub/sub nodes see it:  *)
(* the etcd key shards/{i}, each node's in-memory `owned` set, and the     *)
(* conditions of can_serve that come and go (a keepalive that is overdue,  *)
(* draining, shutdown).                                                    *)
(*                                                                         *)
(* Nothing here relates the three by time: the etcd key may vanish while   *)
(* its last holder still believes that it owns the shard, and a keepalive  *)
(* may come back late.  This is the interface that the modules of the      *)
(* message path compose with; what they prove therefore holds whatever the *)
(* clocks, the etcd watch and the rebalancing do.  ShardLease, which has    *)
(* the clocks, leases and calls of the code, implements it.                *)
(***************************************************************************)

CONSTANTS
  Node,       \* the pub/sub processes
  NoNode      \* etcd holds no key for the shard

VARIABLES
  holder,     \* node_id stored under shards/{i} in etcd, or NoNode
  owned,      \* the nodes whose `owned` contains the shard
  suspended   \* the nodes that are fenced, draining it, or overdue on keepalive

ownershipVars == <<holder, owned, suspended>>

OwnershipTypeOK ==
  /\ holder \in Node \cup {NoNode}
  /\ owned \subseteq Node
  /\ suspended \subseteq Node

\* A pub/sub process is built before it has a lease: owned = all shards.
OwnershipInit ==
  /\ holder = NoNode
  /\ owned = Node
  /\ suspended = Node

can_serve(n) == n \in owned /\ n \notin suspended

\* EtcdMember.claim takes effect in etcd: the CAS on the absent key.
ClaimKey(n) ==
  /\ holder = NoNode
  /\ holder' = n
  /\ UNCHANGED <<owned, suspended>>

\* The answer of a claim reaches the node: owned.add(shard).  It may be late,
\* and etcd may have given the shard to another node in the meantime.
Claimed(n) ==
  /\ owned' = owned \cup {n}
  /\ UNCHANGED <<holder, suspended>>

\* The key disappears: lease expiry, revoke at shutdown, delete_if_value.
KeyGone ==
  /\ holder # NoNode
  /\ holder' = NoNode
  /\ UNCHANGED <<owned, suspended>>

\* Time passes (a keepalive is overdue by TTL - 1s) or a keepalive comes back,
\* draining.add(shard), fenced = True.
SuspensionChanges ==
  /\ suspended' \in SUBSET Node
  /\ UNCHANGED <<holder, owned>>

\* _drop_shard: reconcile, on_lease_lost, release_shard or a failed verify;
\* the shard is not draining afterwards.
Drop(n) ==
  /\ owned' = owned \ {n}
  /\ suspended' \in {suspended, suspended \ {n}}
  /\ UNCHANGED holder

\* The process dies and a new one starts under the same NODE_ID.
Restart(n) ==
  /\ owned' = owned \cup {n}
  /\ suspended' = suspended \cup {n}
  /\ UNCHANGED holder

OwnershipNext ==
  \/ \E n \in Node : ClaimKey(n) \/ Claimed(n) \/ Drop(n) \/ Restart(n)
  \/ KeyGone \/ SuspensionChanges

OwnershipSpec == OwnershipInit /\ [][OwnershipNext]_ownershipVars

=============================================================================
