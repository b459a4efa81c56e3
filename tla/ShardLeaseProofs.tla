-------------------------- MODULE ShardLeaseProofs --------------------------
(***************************************************************************)
(* What ShardLease keeps for any nodes, leases, periods, failures and      *)
(* number of them: a node stops serving before etcd can give its shard     *)
(* away, and with the clocks forgotten the shard is a ShardOwnership.      *)
(***************************************************************************)
EXTENDS ShardLease, TLAPS

\* A lease belongs to one node.
LeasesApart ==
  \A n, m \in Node : n # m => /\ lease[n] = lease[m] => lease[n] = NoLease
                              /\ loop[n].lease = lease[m] => lease[m] = NoLease
                              /\ loop[n].lease = loop[m].lease => loop[n].lease = NoLease

\* The keepalive task's call is about the node's lease, or about a new one.
LoopFits(n) ==
  /\ loop[n].op \in {"sleep", "keepalive", "grant", "put", "revoke", "exit"}
  /\ loop[n].op \in Calls => loop[n].wait <= situation.call
  /\ loop[n].op = "keepalive" => loop[n].lease = lease[n]
  /\ loop[n].op = "keepalive" /\ loop[n].st = "ok" => lease[n] # NoLease
  /\ loop[n].op = "put" => loop[n].lease = lease[n] /\ lease[n] # NoLease
  /\ loop[n].op = "grant" /\ loop[n].st = "ok" =>
       loop[n].lease # NoLease /\ loop[n].lease \notin {lease[n], under[n], own[n].lease}

\* What the node concludes from its clock about the lease in etcd: the answer
\* it has is at most two calls old, and a lease that it trusts is not refused.
ClockFits(n) ==
  /\ lease[n] = NoLease => age[n] = TTL
  /\ loop[n].op \in {"grant", "put"} => age[n] >= TTL - Margin
  /\ loop[n].op = "grant" /\ loop[n].st = "ok" => left[loop[n].lease] + loop[n].wait >= TTL
  /\ loop[n].op = "put" => left[lease[n]] + situation.call + loop[n].wait >= TTL
  /\ loop[n].op = "keepalive" /\ loop[n].st = "ok" => left[lease[n]] + loop[n].wait >= TTL
  /\ loop[n].op = "keepalive" /\ loop[n].st = "refused" => age[n] >= TTL - Margin
  /\ loop[n].op \in {"sleep", "keepalive"} /\ age[n] < TTL - Margin =>
       left[lease[n]] + age[n] + 2 * situation.call >= TTL

\* While the lease of a claim lives, the key is the claimer's, unless it is
\* releasing it.
KeyFits(n) ==
  /\ under[n] # NoLease /\ own[n].op # "release" /\ left[under[n]] > 0 => holder = n /\ keyLease = under[n]
  /\ own[n].op = "claim" /\ own[n].st = "ok" =>
       own[n].lease # NoLease /\ (left[own[n].lease] > 0 => holder = n /\ keyLease = own[n].lease)

LoopsFit == \A n \in Node : LoopFits(n)
ClocksFit == CallsFitMargin => \A n \in Node : ClockFits(n)
KeysFit == \A n \in Node : KeyFits(n)

IInv == TypeOK /\ LeasesApart /\ LoopsFit /\ ClocksFit /\ KeysFit

-----------------------------------------------------------------------------
LEMMA Constants ==
  ASSUME situation \in Situations
  PROVE  /\ NoNode \notin Node /\ NoLease \notin Lease /\ MaxLag \in Nat
         /\ situation.nodes \subseteq Node
         /\ TTL \in Nat /\ Margin \in Nat /\ DropDelay \in Nat /\ situation.call \in Nat
         /\ situation.keepalive \in Nat /\ situation.faults \in Nat /\ Margin < TTL
BY ShardLeaseAssumption DEF Situation, TTL, Margin, DropDelay

Op == {"sleep", "boot", "idle", "drain", "exit", "keepalive", "grant", "put", "claim", "release", "revoke"}

LEMMA TaskOf ==
  ASSUME NEW op \in Op, NEW l \in Lease \cup {NoLease}
  PROVE  Begin(op, l) \in Task
BY DEF Begin, Task, Op

\* What no action but its own touches.
LEMMA Stands ==
  ASSUME IInv, UNCHANGED situation
  PROVE  /\ UNCHANGED <<lease, loop>> => LeasesApart'
         /\ UNCHANGED <<lease, loop, under, own>> => LoopsFit'
         /\ UNCHANGED <<left, lease, age, loop>> => ClocksFit'
         /\ UNCHANGED <<left, holder, keyLease, under, own>> => KeysFit'
<1>1. UNCHANGED <<lease, loop>> => LeasesApart' BY DEF IInv, LeasesApart
<1>2. UNCHANGED <<lease, loop, under, own>> => LoopsFit' BY DEF IInv, LoopsFit, LoopFits
<1>3. UNCHANGED <<left, lease, age, loop>> => ClocksFit'
  BY DEF IInv, ClocksFit, ClockFits, CallsFitMargin, TTL, Margin
<1>4. UNCHANGED <<left, holder, keyLease, under, own>> => KeysFit' BY DEF IInv, KeysFit, KeyFits
<1> QED BY <1>1, <1>2, <1>3, <1>4

\* A change of the key is announced to the watchers.
LEMMA KeyType ==
  ASSUME TypeOK, NEW n \in Node \cup {NoNode}, NEW l \in Lease \cup {NoLease}, KeyBecomes(n, l) \/ KeyStays
  PROVE  /\ holder' \in Node \cup {NoNode} /\ keyLease' \in Lease \cup {NoLease}
         /\ events' \in [Node -> Seq(Node \cup {NoNode})]
<1>1. CASE KeyStays BY <1>1 DEF KeyStays, TypeOK
<1>2. CASE KeyBecomes(n, l)
  <2>1. \A m \in Node : (IF Running(m) THEN Append(events[m], n) ELSE <<>>) \in Seq(Node \cup {NoNode})
    BY DEF TypeOK
  <2> QED BY <1>2, <2>1 DEF KeyBecomes
<1> QED BY <1>1, <1>2

\* The fields of a task whose call takes effect.
LEMMA OutcomeOf ==
  ASSUME NEW task \in [Node -> Task], NEW n \in Node, NEW st \in {"ok", "refused"}, NEW new, new = Outcome(task, n, st)
  PROVE  /\ new \in [Node -> Task]
         /\ \A m \in Node : m # n => new[m] = task[m]
         /\ new[n].op = task[n].op /\ new[n].st = st /\ new[n].lease = task[n].lease /\ new[n].wait = task[n].wait
BY DEF Outcome, Task

\* The types of what a node and a lease have.
LEMMA Types ==
  ASSUME TypeOK, NEW n \in Node
  PROVE  /\ loop[n].wait \in Nat /\ loop[n].lease \in Lease \cup {NoLease} /\ loop[n].st \in {"sent", "ok", "refused"}
         /\ own[n].lease \in Lease \cup {NoLease} /\ own[n].wait \in Nat
         /\ age[n] \in 0..TTL /\ lease[n] \in Lease \cup {NoLease} /\ under[n] \in Lease \cup {NoLease}
         /\ \A l \in Lease : left[l] \in 0..TTL
         /\ TTL \in Nat /\ Margin \in Nat /\ situation.call \in Nat /\ Margin < TTL /\ NoLease \notin Lease
BY Constants DEF TypeOK, Task

\* A node stays as it is, and so do the leases that it knows of.
LEMMA ClockStands ==
  ASSUME TypeOK, LoopsFit, NEW n \in Node, ClockFits(n), UNCHANGED situation,
         lease'[n] = lease[n], age'[n] = age[n], loop'[n] = loop[n],
         \A l \in Lease : l \in {lease[n], loop[n].lease} => left'[l] \in Nat /\ left'[l] >= left[l]
  PROVE  ClockFits(n)'
<1>1. LoopFits(n) BY DEF LoopsFit
<1>2. /\ lease[n] # NoLease => left'[lease[n]] \in Nat /\ left'[lease[n]] >= left[lease[n]] /\ left[lease[n]] \in Nat
      /\ loop[n].lease # NoLease => left'[loop[n].lease] \in Nat /\ left'[loop[n].lease] >= left[loop[n].lease] /\ left[loop[n].lease] \in Nat
  BY Types
<1>3. loop[n].wait \in Nat /\ age[n] \in 0..TTL /\ TTL \in Nat /\ Margin \in Nat /\ Margin < TTL /\ situation.call \in Nat
  BY Types
<1>4. TTL' = TTL /\ Margin' = Margin BY DEF TTL, Margin
<1> QED BY <1>1, <1>2, <1>3, <1>4 DEF ClockFits, LoopFits

-----------------------------------------------------------------------------
(* etcd.                                                                   *)

LEMMA KeepaliveKept ==
  ASSUME IInv, NEW n \in Node, EtcdKeepalive(n), UNCHANGED situation
  PROVE  IInv'
<1> USE DEF IInv
<1> DEFINE l == loop[n].lease
           st == IF Live(l) THEN "ok" ELSE "refused"
<1>1. /\ loop[n].op = "keepalive" /\ loop[n].st = "sent" /\ l = lease[n]
      /\ left' = [left EXCEPT ![l] = IF Live(l) THEN TTL ELSE 0] /\ loop' = Outcome(loop, n, st)
      /\ UNCHANGED <<holder, keyLease, etcdUp, lease, age, owned, sinceClaim, map, under, events, own, faults>>
  BY DEF EtcdKeepalive, Sent, KeyStays, nodeVars, LoopsFit, LoopFits
<1>2. /\ loop' \in [Node -> Task] /\ \A m \in Node : m # n => loop'[m] = loop[m]
      /\ loop'[n].op = "keepalive" /\ loop'[n].st = st /\ loop'[n].lease = l /\ loop'[n].wait = loop[n].wait
  <2>1. loop \in [Node -> Task] /\ st \in {"ok", "refused"} BY DEF TypeOK
  <2> HIDE DEF st
  <2> QED BY <1>1, <2>1, OutcomeOf
<1>3. /\ left' \in [Lease -> 0..TTL] /\ \A k \in Lease : k # l => left'[k] = left[k]
      /\ Live(l) => l \in Lease /\ left'[l] = TTL
      /\ l \in Lease /\ ~ Live(l) => left'[l] = 0 /\ left[l] = 0
  <2>1. left \in [Lease -> 0..TTL] /\ l \in Lease \cup {NoLease} /\ TTL \in Nat /\ NoLease \notin Lease
    BY Types DEF TypeOK
  <2>2. \A k \in Lease : left[k] \in 0..TTL BY <2>1
  <2>3. (IF Live(l) THEN TTL ELSE 0) \in 0..TTL BY <2>1
  <2>4. left' \in [Lease -> 0..TTL] BY <1>1, <2>1, <2>3
  <2>5. \A k \in Lease : left'[k] = IF k = l THEN (IF Live(l) THEN TTL ELSE 0) ELSE left[k] BY <1>1, <2>1
  <2> QED BY <2>1, <2>2, <2>4, <2>5 DEF Live
<1>4. TypeOK' BY <1>1, <1>2, <1>3 DEF TypeOK, TTL, DropDelay
<1>5. LeasesApart' BY <1>1, <1>2 DEF LeasesApart
<1>6. LoopsFit' BY <1>1, <1>2 DEF LoopsFit, LoopFits, Live
<1>7. ClocksFit'
  <2> SUFFICES ASSUME CallsFitMargin, NEW m \in Node PROVE ClockFits(m)'
    BY DEF ClocksFit, CallsFitMargin, Margin
  <2>1. ClockFits(m) BY DEF ClocksFit
  <2>2. CASE m = n
    <3>1. /\ loop'[n].wait \in Nat /\ age[n] \in 0..TTL /\ TTL \in Nat /\ Margin \in Nat /\ situation.call \in Nat
          /\ Margin < TTL /\ 2 * situation.call <= Margin /\ NoLease \notin Lease
      BY <1>2, Types DEF CallsFitMargin
    <3>2. TTL' = TTL /\ Margin' = Margin BY DEF TTL, Margin
    <3>3. CASE Live(l)
      BY <3>1, <3>2, <3>3, <2>1, <2>2, <1>1, <1>2, <1>3 DEF ClockFits
    <3>4. CASE ~ Live(l)
      <4>1. age[n] >= TTL - Margin
        BY <3>1, <3>4, <2>1, <2>2, <1>1, <1>3, Types DEF ClockFits
      <4> QED BY <4>1, <3>1, <3>2, <3>4, <2>1, <2>2, <1>1, <1>2 DEF ClockFits
    <3> QED BY <3>3, <3>4
  <2>3. CASE m # n
    <3>1. \A k \in Lease : k \in {lease[m], loop[m].lease} => k # l
      BY <1>1, <2>3, Types DEF LeasesApart
    <3> QED BY <3>1, <2>1, <2>3, <1>1, <1>2, <1>3, Types, ClockStands
  <2> QED BY <2>2, <2>3
<1>8. KeysFit'
  <2>1. \A k \in Lease : left'[k] > 0 => left[k] > 0
    BY <1>1, <1>3, Types DEF Live
  <2>2. \A m \in Node : under[m] \in Lease \cup {NoLease} /\ own[m].lease \in Lease \cup {NoLease} BY Types
  <2> QED BY <2>1, <2>2, <1>1 DEF KeysFit, KeyFits
<1> QED BY <1>4, <1>5, <1>6, <1>7, <1>8

LEMMA GrantKept ==
  ASSUME IInv, NEW n \in Node, EtcdGrant(n), UNCHANGED situation
  PROVE  IInv'
<1> USE DEF IInv
<1>1. PICK l \in FreshLeases :
        /\ loop[n].op = "grant" /\ loop[n].st = "sent"
        /\ left' = [left EXCEPT ![l] = TTL] /\ loop' = [loop EXCEPT ![n].st = "ok", ![n].lease = l]
        /\ UNCHANGED <<holder, keyLease, etcdUp, lease, age, owned, sinceClaim, map, under, events, own, faults>>
  BY DEF EtcdGrant, Sent, KeyStays, nodeVars
<1>2. /\ l \in Lease /\ l # NoLease /\ left[l] = 0 /\ keyLease # l
      /\ \A m \in Node : l # lease[m] /\ l # under[m] /\ l # loop[m].lease /\ l # own[m].lease
  BY Types DEF FreshLeases
<1>3. /\ loop' \in [Node -> Task] /\ \A m \in Node : m # n => loop'[m] = loop[m]
      /\ loop'[n].op = "grant" /\ loop'[n].st = "ok" /\ loop'[n].lease = l /\ loop'[n].wait = loop[n].wait
  <2>1. loop' = [loop EXCEPT ![n] = [loop[n] EXCEPT !.st = "ok", !.lease = l]]
    BY <1>1 DEF TypeOK
  <2>2. loop \in [Node -> Task] BY DEF TypeOK
  <2>3. [loop[n] EXCEPT !.st = "ok", !.lease = l] \in Task BY <2>2, <1>2 DEF Task
  <2> QED BY <1>1, <2>1, <2>2, <2>3 DEF Task
<1>4. left' \in [Lease -> 0..TTL] /\ left'[l] = TTL /\ \A k \in Lease : k # l => left'[k] = left[k]
  <2>1. left \in [Lease -> 0..TTL] /\ TTL \in 0..TTL BY Types DEF TypeOK
  <2> QED BY <2>1, <1>1, <1>2
<1>5. TypeOK' BY <1>1, <1>3, <1>4 DEF TypeOK, TTL, DropDelay
<1>6. LeasesApart' BY <1>1, <1>2, <1>3 DEF LeasesApart
<1>7. LoopsFit' BY <1>1, <1>2, <1>3 DEF LoopsFit, LoopFits
<1>8. ClocksFit'
  <2> SUFFICES ASSUME CallsFitMargin, NEW m \in Node PROVE ClockFits(m)'
    BY DEF ClocksFit, CallsFitMargin, Margin
  <2>1. ClockFits(m) BY DEF ClocksFit
  <2>2. CASE m = n
    <3>1. loop'[n].wait \in Nat /\ TTL \in Nat BY <1>3, Types
    <3>2. TTL' = TTL /\ Margin' = Margin BY DEF TTL, Margin
    <3> QED BY <3>1, <3>2, <2>1, <2>2, <1>1, <1>3, <1>4 DEF ClockFits
  <2>3. CASE m # n
    <3>1. \A k \in Lease : k \in {lease[m], loop[m].lease} => left'[k] = left[k] /\ left[k] \in Nat
      BY <1>2, <1>4, Types
    <3> QED BY <3>1, <2>1, <2>3, <1>1, <1>3, ClockStands, Types
  <2> QED BY <2>2, <2>3
<1>9. KeysFit'
  <2>1. \A m \in Node : /\ under[m] # NoLease => left'[under[m]] = left[under[m]]
                        /\ own[m].lease # NoLease => left'[own[m].lease] = left[own[m].lease]
    BY <1>2, <1>4, Types
  <2> QED BY <2>1, <1>1 DEF KeysFit, KeyFits
<1> QED BY <1>5, <1>6, <1>7, <1>8, <1>9

\* The node's entry: an answer that changes nothing else.
LEMMA PutKept ==
  ASSUME IInv, NEW n \in Node, EtcdPut(n), UNCHANGED situation
  PROVE  IInv'
<1> USE DEF IInv
<1> DEFINE st == IF Live(loop[n].lease) THEN "ok" ELSE "refused"
<1>1. /\ loop[n].op = "put" /\ loop' = Outcome(loop, n, st)
      /\ UNCHANGED <<left, holder, keyLease, etcdUp, lease, age, owned, sinceClaim, map, under, events, own, faults>>
  BY DEF EtcdPut, Sent, etcdVars, nodeVars
<1>2. /\ loop' \in [Node -> Task] /\ \A m \in Node : m # n => loop'[m] = loop[m]
      /\ loop'[n].op = "put" /\ loop'[n].lease = loop[n].lease /\ loop'[n].wait = loop[n].wait
  <2>1. loop \in [Node -> Task] /\ st \in {"ok", "refused"} BY DEF TypeOK
  <2> HIDE DEF st
  <2> QED BY <1>1, <2>1, OutcomeOf
<1>3. TypeOK' BY <1>1, <1>2 DEF TypeOK, TTL, DropDelay
<1>4. LeasesApart' BY <1>1, <1>2 DEF LeasesApart
<1>5. LoopsFit' BY <1>1, <1>2 DEF LoopsFit, LoopFits
<1>6. ClocksFit' BY <1>1, <1>2 DEF ClocksFit, ClockFits, CallsFitMargin, TTL, Margin
<1>7. KeysFit' BY <1>1, Stands
<1> QED BY <1>3, <1>4, <1>5, <1>6, <1>7

LEMMA RevokeKept ==
  ASSUME IInv, NEW n \in Node, EtcdRevoke(n), UNCHANGED situation
  PROVE  IInv'
<1> USE DEF IInv
<1> DEFINE l == loop[n].lease
<1>1. /\ loop[n].op = "revoke" /\ loop' = Outcome(loop, n, "ok")
      /\ left' = [k \in Lease |-> IF k = l THEN 0 ELSE left[k]]
      /\ UNCHANGED <<etcdUp, lease, age, owned, sinceClaim, map, under, own, faults>>
      /\ IF keyLease # NoLease /\ keyLease = l THEN KeyBecomes(NoNode, NoLease) ELSE KeyStays
  BY DEF EtcdRevoke, Sent, nodeVars
<1>2. /\ loop' \in [Node -> Task] /\ \A m \in Node : m # n => loop'[m] = loop[m]
      /\ loop'[n].op = "revoke" /\ loop'[n].lease = l /\ loop'[n].wait = loop[n].wait
  <2>1. loop \in [Node -> Task] BY DEF TypeOK
  <2> QED BY <1>1, <2>1, OutcomeOf
<1>3. left' \in [Lease -> 0..TTL]
  BY <1>1, Types
<1>4. TypeOK' BY <1>1, <1>2, <1>3, KeyType DEF TypeOK, TTL, DropDelay
<1>5. LeasesApart' BY <1>1, <1>2 DEF LeasesApart
<1>6. LoopsFit' BY <1>1, <1>2 DEF LoopsFit, LoopFits, Calls
<1>7. ClocksFit'
  <2> SUFFICES ASSUME CallsFitMargin, NEW m \in Node PROVE ClockFits(m)'
    BY DEF ClocksFit, CallsFitMargin, Margin
  <2>1. ClockFits(m) BY DEF ClocksFit
  <2>2. CASE m = n
    BY <2>1, <2>2, <1>1, <1>2 DEF ClockFits, TTL
  <2>3. CASE m # n
    <3>1. \A k \in Lease : k \in {lease[m], loop[m].lease} => k # l
      BY <1>1, <2>3, Types DEF LeasesApart
    <3>2. \A k \in Lease : k # l => left'[k] = left[k] /\ left[k] \in Nat BY <1>1, Types
    <3> QED BY <3>1, <3>2, <2>1, <2>3, <1>1, <1>2, ClockStands, Types
  <2> QED BY <2>2, <2>3
<1>8. KeysFit'
  <2> SUFFICES ASSUME NEW m \in Node PROVE KeyFits(m)' BY DEF KeysFit
  <2>1. KeyFits(m) BY DEF KeysFit
  <2>2. \A k \in Lease : left'[k] > 0 => k # l /\ left[k] > 0 BY <1>1, Types
  <2>3. keyLease # l => holder' = holder /\ keyLease' = keyLease BY <1>1 DEF KeyStays
  <2> QED BY <2>1, <2>2, <2>3, <1>1, Types DEF KeyFits
<1> QED BY <1>4, <1>5, <1>6, <1>7, <1>8

LEMMA ClaimKept ==
  ASSUME IInv, NEW n \in Node, EtcdClaim(n), UNCHANGED situation
  PROVE  IInv'
<1> USE DEF IInv
<1> DEFINE taken == holder = NoNode /\ Live(own[n].lease)
           st == IF taken THEN "ok" ELSE "refused"
<1>1. /\ own[n].op = "claim" /\ own' = Outcome(own, n, st)
      /\ IF taken THEN KeyBecomes(n, own[n].lease) ELSE KeyStays
      /\ UNCHANGED <<left, etcdUp, lease, age, owned, sinceClaim, map, under, loop, faults>>
  BY DEF EtcdClaim, Sent, nodeVars
<1>2. /\ own' \in [Node -> Task] /\ \A m \in Node : m # n => own'[m] = own[m]
      /\ own'[n].op = "claim" /\ own'[n].st = st /\ own'[n].lease = own[n].lease
  <2>1. own \in [Node -> Task] /\ st \in {"ok", "refused"} BY DEF TypeOK
  <2> HIDE DEF st
  <2> QED BY <1>1, <2>1, OutcomeOf
<1>3. TypeOK'
  <2>1. own[n].lease \in Lease \cup {NoLease} BY Types
  <2> QED BY <1>1, <1>2, <2>1, KeyType DEF TypeOK, TTL, DropDelay
<1>4. LeasesApart' /\ ClocksFit' BY <1>1, Stands
<1>5. LoopsFit' BY <1>1, <1>2 DEF LoopsFit, LoopFits
<1>6. KeysFit'
  <2> SUFFICES ASSUME NEW m \in Node PROVE KeyFits(m)' BY DEF KeysFit
  <2>1. KeyFits(m) BY DEF KeysFit
  <2>2. CASE taken
    <3>1. NoNode \notin Node BY Constants DEF TypeOK
    <3>2. holder' = n /\ keyLease' = own[n].lease /\ own[n].lease # NoLease BY <1>1, <2>2 DEF KeyBecomes, Live
    <3> QED BY <2>1, <2>2, <3>1, <3>2, <1>1, <1>2 DEF KeyFits
  <2>3. CASE ~ taken
    <3>1. holder' = holder /\ keyLease' = keyLease BY <1>1, <2>3 DEF KeyStays
    <3> QED BY <2>1, <2>3, <3>1, <1>1, <1>2 DEF KeyFits
  <2> QED BY <2>2, <2>3
<1> QED BY <1>3, <1>4, <1>5, <1>6

LEMMA ReleaseKept ==
  ASSUME IInv, NEW n \in Node, EtcdRelease(n), UNCHANGED situation
  PROVE  IInv'
<1> USE DEF IInv
<1> DEFINE st == IF holder = n THEN "ok" ELSE "refused"
<1>1. /\ own[n].op = "release" /\ own' = Outcome(own, n, st)
      /\ IF holder = n THEN KeyBecomes(NoNode, NoLease) ELSE KeyStays
      /\ UNCHANGED <<left, etcdUp, lease, age, owned, sinceClaim, map, under, loop, faults>>
  BY DEF EtcdRelease, Sent, nodeVars
<1>2. /\ own' \in [Node -> Task] /\ \A m \in Node : m # n => own'[m] = own[m]
      /\ own'[n].op = "release" /\ own'[n].st = st /\ own'[n].lease = own[n].lease
  <2>1. own \in [Node -> Task] /\ st \in {"ok", "refused"} BY DEF TypeOK
  <2> HIDE DEF st
  <2> QED BY <1>1, <2>1, OutcomeOf
<1>3. TypeOK' BY <1>1, <1>2, KeyType DEF TypeOK, TTL, DropDelay
<1>4. LeasesApart' /\ ClocksFit' BY <1>1, Stands
<1>5. LoopsFit' BY <1>1, <1>2 DEF LoopsFit, LoopFits
<1>6. KeysFit'
  <2> SUFFICES ASSUME NEW m \in Node PROVE KeyFits(m)' BY DEF KeysFit
  <2>1. KeyFits(m) BY DEF KeysFit
  <2>2. holder # n => holder' = holder /\ keyLease' = keyLease BY <1>1 DEF KeyStays
  <2> QED BY <2>1, <2>2, <1>1, <1>2 DEF KeyFits
<1> QED BY <1>3, <1>4, <1>5, <1>6

LEMMA ExpireKept ==
  ASSUME IInv, EtcdExpire, UNCHANGED situation
  PROVE  IInv'
<1> USE DEF IInv
<1>1. /\ keyLease # NoLease /\ left[keyLease] = 0 /\ KeyBecomes(NoNode, NoLease)
      /\ UNCHANGED <<left, etcdUp, lease, age, owned, sinceClaim, map, under, loop, own, faults>>
  BY DEF EtcdExpire, nodeVars
<1>2. TypeOK' BY <1>1, KeyType DEF TypeOK, TTL, DropDelay
<1>3. LeasesApart' /\ LoopsFit' /\ ClocksFit' BY <1>1, Stands
<1>4. KeysFit'
  <2>1. \A m \in Node : /\ under[m] # NoLease /\ left[under[m]] > 0 => keyLease # under[m]
                        /\ own[m].lease # NoLease /\ left[own[m].lease] > 0 => keyLease # own[m].lease
    BY <1>1
  <2> QED BY <2>1, <1>1 DEF KeysFit, KeyFits
<1> QED BY <1>2, <1>3, <1>4

\* What only the watch, the map and outages touch.
LEMMA ViewKept ==
  ASSUME IInv, UNCHANGED <<left, holder, keyLease, lease, age, owned, sinceClaim, under, loop, own, situation>>,
         map' \in [Node -> Node \cup {NoNode}], events' \in [Node -> Seq(Node \cup {NoNode})],
         etcdUp' \in BOOLEAN, faults' \in 0..situation.faults
  PROVE  IInv'
<1>1. TypeOK' BY DEF IInv, TypeOK, TTL, DropDelay
<1> QED BY <1>1, Stands DEF IInv

-----------------------------------------------------------------------------
(* The two tasks of a node.                                                *)

\* What a step of the keepalive task may do to its node.
LEMMA LoopMoves ==
  ASSUME IInv, NEW n \in Node,
         NEW op \in {"sleep", "keepalive", "grant", "put", "revoke", "exit"},
         NEW k \in {lease[n], loop[n].lease, NoLease}, NEW l \in {k, NoLease},
         NEW a \in 0..TTL, NEW u \in {under[n], NoLease}, NEW t \in {own[n], Begin("idle", NoLease), Begin("boot", NoLease)},
         loop' = [loop EXCEPT ![n] = Begin(op, l)], lease' = [lease EXCEPT ![n] = k], age' = [age EXCEPT ![n] = a],
         under' = [under EXCEPT ![n] = u], own' = [own EXCEPT ![n] = t],
         UNCHANGED <<left, holder, keyLease, etcdUp, situation>>,
         owned' \subseteq Node, sinceClaim' \in [Node -> 0 .. DropDelay + 1], map' \in [Node -> Node \cup {NoNode}],
         events' \in [Node -> Seq(Node \cup {NoNode})], faults' \in 0..situation.faults,
         own[n].op = "release" => t = own[n] \/ u = NoLease,
         op \in {"keepalive", "put"} => l = k, op = "put" => k # NoLease,
         CallsFitMargin =>
           /\ k = NoLease => a = TTL
           /\ op \in {"grant", "put"} => a >= TTL - Margin
           /\ op = "put" => left[k] + situation.call >= TTL
           /\ op \in {"sleep", "keepalive"} /\ a < TTL - Margin => left[k] + a + 2 * situation.call >= TTL
  PROVE  IInv'
<1> USE DEF IInv
<1>1. /\ k \in Lease \cup {NoLease} /\ l \in Lease \cup {NoLease} /\ u \in Lease \cup {NoLease}
      /\ lease[n] \in Lease \cup {NoLease} /\ loop[n].lease \in Lease \cup {NoLease}
  BY Types
<1>2. /\ loop \in [Node -> Task] /\ own \in [Node -> Task] /\ lease \in [Node -> Lease \cup {NoLease}]
      /\ under \in [Node -> Lease \cup {NoLease}] /\ age \in [Node -> 0..TTL]
  BY DEF TypeOK
<1>3. Begin(op, l) \in Task /\ Begin("idle", NoLease) \in Task /\ Begin("boot", NoLease) \in Task
  BY <1>1, TaskOf DEF Op
<1>4. /\ loop' \in [Node -> Task] /\ own' \in [Node -> Task] /\ lease' \in [Node -> Lease \cup {NoLease}]
      /\ under' \in [Node -> Lease \cup {NoLease}] /\ age' \in [Node -> 0..TTL]
  BY <1>1, <1>2, <1>3
<1>5. /\ loop'[n].op = op /\ loop'[n].st = "sent" /\ loop'[n].lease = l /\ loop'[n].wait = 0
      /\ lease'[n] = k /\ age'[n] = a /\ under'[n] = u /\ own'[n] = t
      /\ \A m \in Node : m # n => /\ loop'[m] = loop[m] /\ lease'[m] = lease[m] /\ age'[m] = age[m]
                                  /\ under'[m] = under[m] /\ own'[m] = own[m]
  BY <1>2 DEF Begin
<1>6. TypeOK' BY <1>4 DEF TypeOK, TTL, DropDelay
<1>7. LeasesApart' BY <1>5 DEF LeasesApart
<1>8. LoopsFit'
  <2>1. LoopFits(n)'
    <3>1. situation.call \in Nat BY Types
    <3> QED BY <1>5, <3>1 DEF LoopFits
  <2>2. ASSUME NEW m \in Node, m # n PROVE LoopFits(m)'
    BY <2>2, <1>5 DEF LoopsFit, LoopFits
  <2> QED BY <2>1, <2>2 DEF LoopsFit
<1>9. ClocksFit'
  <2> SUFFICES ASSUME CallsFitMargin, NEW m \in Node PROVE ClockFits(m)'
    BY DEF ClocksFit, CallsFitMargin, Margin
  <2>1. TTL' = TTL /\ Margin' = Margin BY DEF TTL, Margin
  <2>2. CASE m = n
    <3>1. TTL \in Nat /\ Margin \in Nat /\ situation.call \in Nat BY Types
    <3>2. op = "put" => left[k] \in Nat BY <1>1, Types
    <3> QED BY <2>1, <2>2, <3>1, <3>2, <1>5 DEF ClockFits
  <2>3. CASE m # n
    <3>1. ClockFits(m) BY DEF ClocksFit
    <3> QED BY <3>1, <2>1, <2>3, <1>5 DEF ClockFits
  <2> QED BY <2>2, <2>3
<1>10. KeysFit'
  <2>1. KeyFits(n)' BY <1>5 DEF KeysFit, KeyFits, Begin
  <2>2. ASSUME NEW m \in Node, m # n PROVE KeyFits(m)'
    BY <2>2, <1>5 DEF KeysFit, KeyFits
  <2> QED BY <2>1, <2>2 DEF KeysFit
<1> QED BY <1>6, <1>7, <1>8, <1>9, <1>10

\* What a step of the ownership task may do to its node.
LEMMA OwnMoves ==
  ASSUME IInv, NEW n \in Node, NEW t \in Task, NEW u \in {under[n], own[n].lease, NoLease},
         own' = [own EXCEPT ![n] = t], under' = [under EXCEPT ![n] = u],
         UNCHANGED <<left, holder, keyLease, etcdUp, lease, age, events, loop, situation>>,
         owned' \subseteq Node, sinceClaim' \in [Node -> 0 .. DropDelay + 1], map' \in [Node -> Node \cup {NoNode}],
         faults' \in 0..situation.faults,
         t.lease \in {own[n].lease, lease[n], NoLease}, t.op = "claim" => t.st # "ok",
         u # NoLease /\ left[u] > 0 /\ t.op # "release" => holder = n /\ keyLease = u
  PROVE  IInv'
<1> USE DEF IInv
<1>1. u \in Lease \cup {NoLease} BY Types
<1>2. own' \in [Node -> Task] /\ under' \in [Node -> Lease \cup {NoLease}] BY <1>1 DEF TypeOK
<1>3. own'[n] = t /\ under'[n] = u /\ \A m \in Node : m # n => own'[m] = own[m] /\ under'[m] = under[m]
  BY DEF TypeOK
<1>4. TypeOK' BY <1>2 DEF TypeOK, TTL, DropDelay
<1>5. LeasesApart' /\ ClocksFit' BY Stands
<1>6. LoopsFit' BY <1>3 DEF LoopsFit, LoopFits
<1>7. KeysFit' BY <1>3 DEF KeysFit, KeyFits
<1> QED BY <1>4, <1>5, <1>6, <1>7

\* What a table of the nodes is if n keeps its entry.
LEMMA Same ==
  ASSUME TypeOK, NEW n \in Node
  PROVE  /\ lease = [lease EXCEPT ![n] = lease[n]] /\ age = [age EXCEPT ![n] = age[n]]
         /\ under = [under EXCEPT ![n] = under[n]] /\ own = [own EXCEPT ![n] = own[n]]
         /\ own[n] \in Task /\ 0 \in 0..TTL /\ TTL \in 0..TTL /\ age[n] \in 0..TTL
BY Types DEF TypeOK

\* One more fault is within the bound.
LEMMA FaultsFit ==
  ASSUME TypeOK, NEW kind, CallFails(kind) \/ Fault(kind) \/ UNCHANGED faults
  PROVE  faults' \in 0..situation.faults
<1>1. faults \in 0..situation.faults /\ situation.faults \in Nat BY Constants DEF TypeOK
<1> QED BY <1>1 DEF CallFails, Fault

LEMMA SendKeepaliveKept ==
  ASSUME IInv, NEW n \in Node, SendKeepalive(n), UNCHANGED situation
  PROVE  IInv'
<1> USE DEF IInv
<1>1. /\ loop[n].op = "sleep" /\ loop' = [loop EXCEPT ![n] = Begin("keepalive", lease[n])]
      /\ UNCHANGED <<left, holder, keyLease, etcdUp, lease, age, owned, sinceClaim, map, under, events, own, faults>>
  BY DEF SendKeepalive, LoopWaits, etcdVars, nodeVars
<1>2. CallsFitMargin => ClockFits(n) BY DEF ClocksFit
<1>3. CallsFitMargin =>
        /\ lease[n] = NoLease => age[n] = TTL
        /\ age[n] < TTL - Margin => left[lease[n]] + age[n] + 2 * situation.call >= TTL
  BY <1>1, <1>2 DEF ClockFits
<1>4. TypeOK BY DEF TypeOK
<1> QED BY <1>1, <1>3, <1>4, Same, LoopMoves DEF TypeOK

LEMMA LeaseLostKept ==
  ASSUME IInv, NEW n \in Node, LeaseLost(n), ~ lease_healthy(n) \/ (loop[n].op = "keepalive" /\ loop[n].st = "refused"),
         UNCHANGED <<etcdVars, sinceClaim, map, events, own, situation>>, faults' \in 0..situation.faults
  PROVE  IInv'
<1> USE DEF IInv
<1>1. /\ loop' = [loop EXCEPT ![n] = Begin("grant", NoLease)] /\ under' = [under EXCEPT ![n] = NoLease]
      /\ owned' \subseteq Node
      /\ UNCHANGED <<left, holder, keyLease, etcdUp, lease, age, sinceClaim, map, events, own>>
  BY DEF LeaseLost, LoopWaits, DropShard, etcdVars, TypeOK
<1>2. CallsFitMargin => ClockFits(n) BY DEF ClocksFit
<1>3. CallsFitMargin => (lease[n] = NoLease => age[n] = TTL) /\ age[n] >= TTL - Margin
  BY <1>2, Types DEF ClockFits, lease_healthy
<1>4. TypeOK BY DEF TypeOK
<1>5. /\ lease' = [lease EXCEPT ![n] = lease[n]] /\ age' = [age EXCEPT ![n] = age[n]]
      /\ own' = [own EXCEPT ![n] = own[n]] /\ age[n] \in 0..TTL
  BY <1>1, <1>4, Same
<1>6. /\ sinceClaim' \in [Node -> 0 .. DropDelay + 1] /\ map' \in [Node -> Node \cup {NoNode}]
      /\ events' \in [Node -> Seq(Node \cup {NoNode})]
  BY <1>1 DEF TypeOK
<1> HIDE DEF IInv
<1> QED BY <1>1, <1>3, <1>5, <1>6, LoopMoves

LEMMA KeepaliveAnsweredKept ==
  ASSUME IInv, NEW n \in Node, KeepaliveAnswered(n), UNCHANGED situation
  PROVE  IInv'
<1> USE DEF IInv
<1>1. CASE loop[n].st = "ok"
  <2>1. /\ loop[n].op = "keepalive" /\ loop' = [loop EXCEPT ![n] = Begin("sleep", NoLease)]
        /\ age' = [age EXCEPT ![n] = 0]
        /\ UNCHANGED <<left, holder, keyLease, etcdUp, lease, owned, sinceClaim, map, under, events, own, faults>>
    BY <1>1 DEF KeepaliveAnswered, LoopWaits, etcdVars
  <2>2. CallsFitMargin => ClockFits(n) BY DEF ClocksFit
  <2>3. lease[n] # NoLease /\ loop[n].wait <= situation.call BY <1>1, <2>1 DEF LoopsFit, LoopFits, Calls
  <2>4. left[lease[n]] \in Nat BY <2>3, Types
  <2>5. CallsFitMargin => left[lease[n]] + 0 + 2 * situation.call >= TTL
    BY <1>1, <2>1, <2>2, <2>3, <2>4, Types DEF ClockFits
  <2>6. TypeOK BY DEF TypeOK
  <2> QED BY <2>1, <2>3, <2>5, <2>6, Same, LoopMoves DEF TypeOK
<1>2. CASE loop[n].st # "ok"
  BY <1>2, LeaseLostKept DEF KeepaliveAnswered, TypeOK
<1> QED BY <1>1, <1>2

LEMMA GrantAnsweredKept ==
  ASSUME IInv, NEW n \in Node, GrantAnswered(n), UNCHANGED situation
  PROVE  IInv'
<1> USE DEF IInv
<1> DEFINE l == loop[n].lease
<1>1. /\ loop[n].op = "grant" /\ loop[n].st = "ok"
      /\ loop' = [loop EXCEPT ![n] = Begin("put", l)] /\ lease' = [lease EXCEPT ![n] = l]
      /\ UNCHANGED <<left, holder, keyLease, etcdUp, age, owned, sinceClaim, map, under, events, own, faults>>
  BY DEF GrantAnswered, LoopWaits, etcdVars
<1>2. CallsFitMargin => ClockFits(n) BY DEF ClocksFit
<1>3. l # NoLease /\ loop[n].wait <= situation.call BY <1>1 DEF LoopsFit, LoopFits, Calls
<1>4. left[l] \in Nat BY <1>3, Types
<1>5. CallsFitMargin => age[n] >= TTL - Margin /\ left[l] + situation.call >= TTL
  BY <1>1, <1>2, <1>3, <1>4, Types DEF ClockFits
<1>6. TypeOK BY DEF TypeOK
<1> QED BY <1>1, <1>3, <1>5, <1>6, Same, LoopMoves DEF TypeOK

LEMMA PutAnsweredKept ==
  ASSUME IInv, NEW n \in Node, PutAnswered(n), UNCHANGED situation
  PROVE  IInv'
<1> USE DEF IInv
<1> DEFINE t == IF own[n].op = "boot" THEN Begin("idle", NoLease) ELSE own[n]
<1>1. /\ loop[n].op = "put" /\ loop' = [loop EXCEPT ![n] = Begin("sleep", NoLease)]
      /\ age' = [age EXCEPT ![n] = 0] /\ own' = Booted(n)
      /\ events' = IF own[n].op = "boot" THEN [events EXCEPT ![n] = <<holder>>] ELSE events
      /\ UNCHANGED <<left, holder, keyLease, etcdUp, lease, owned, sinceClaim, map, under, faults>>
  BY DEF PutAnswered, LoopWaits, etcdVars
<1>2. CallsFitMargin => ClockFits(n) BY DEF ClocksFit
<1>3. lease[n] # NoLease /\ loop[n].wait <= situation.call BY <1>1 DEF LoopsFit, LoopFits, Calls
<1>4. left[lease[n]] \in Nat BY <1>3, Types
<1>5. CallsFitMargin => left[lease[n]] + 0 + 2 * situation.call >= TTL
  BY <1>1, <1>2, <1>3, <1>4, Types DEF ClockFits
<1>6. TypeOK BY DEF TypeOK
<1>7. events' \in [Node -> Seq(Node \cup {NoNode})]
  <2>1. <<holder>> \in Seq(Node \cup {NoNode}) BY DEF TypeOK
  <2> QED BY <1>1, <2>1 DEF TypeOK
<1>8. own' = [own EXCEPT ![n] = t] /\ (own[n].op = "release" => t = own[n])
  BY <1>1, <1>6, Same DEF Booted
<1>9. t \in {own[n], Begin("idle", NoLease), Begin("boot", NoLease)} OBVIOUS
<1> HIDE DEF t
<1> QED BY <1>1, <1>3, <1>5, <1>6, <1>7, <1>8, <1>9, Same, LoopMoves DEF TypeOK

\* A process that has no state yet.
LEMMA FreshKept ==
  ASSUME IInv, NEW n \in Node, FreshProcess(n), UNCHANGED <<etcdVars, situation>>, faults' \in 0..situation.faults
  PROVE  IInv'
<1> USE DEF IInv
<1>1. /\ loop' = [loop EXCEPT ![n] = Begin("grant", NoLease)] /\ lease' = [lease EXCEPT ![n] = NoLease]
      /\ age' = [age EXCEPT ![n] = TTL] /\ under' = [under EXCEPT ![n] = NoLease]
      /\ own' = [own EXCEPT ![n] = Begin("boot", NoLease)]
      /\ UNCHANGED <<left, holder, keyLease, etcdUp>>
  BY DEF FreshProcess, LoopWaits, etcdVars
<1>2. /\ owned' \subseteq Node /\ sinceClaim' \in [Node -> 0 .. DropDelay + 1]
      /\ map' \in [Node -> Node \cup {NoNode}] /\ events' \in [Node -> Seq(Node \cup {NoNode})]
  <2>1. <<>> \in Seq(Node \cup {NoNode}) OBVIOUS
  <2>2. DropDelay \in Nat BY Constants DEF TypeOK
  <2> QED BY <2>1, <2>2 DEF FreshProcess, TypeOK
<1>3. TypeOK /\ TTL >= TTL - Margin /\ ~ (TTL < TTL - Margin) BY Types DEF TypeOK
<1> QED BY <1>1, <1>2, <1>3, Same, LoopMoves

LEMMA FailuresKept ==
  ASSUME IInv, NEW n \in Node, KeepaliveFails(n) \/ RegisterFails(n), UNCHANGED situation
  PROVE  IInv'
<1> USE DEF IInv
<1>1. TypeOK /\ faults' \in 0..situation.faults
  BY FaultsFit DEF KeepaliveFails, RegisterFails
<1>2. CallsFitMargin => ClockFits(n) BY DEF ClocksFit
<1>3. CASE KeepaliveFails(n) /\ lease_healthy(n)
  <2>1. /\ loop[n].op = "keepalive" /\ loop' = [loop EXCEPT ![n] = Begin("sleep", NoLease)]
        /\ UNCHANGED <<left, holder, keyLease, etcdUp, lease, age, owned, sinceClaim, map, under, events, own>>
    BY <1>3 DEF KeepaliveFails, LoopWaits, etcdVars
  <2>2. CallsFitMargin => /\ lease[n] = NoLease => age[n] = TTL
                          /\ age[n] < TTL - Margin => left[lease[n]] + age[n] + 2 * situation.call >= TTL
    BY <1>2, <2>1 DEF ClockFits
  <2> QED BY <2>1, <2>2, <1>1, Same, LoopMoves DEF TypeOK
<1>4. CASE KeepaliveFails(n) /\ ~ lease_healthy(n)
  BY <1>1, <1>4, LeaseLostKept DEF KeepaliveFails
<1>5. CASE RegisterFails(n) /\ own[n].op = "boot"
  BY <1>1, <1>5, FreshKept DEF RegisterFails, AcquireFails
<1>6. CASE RegisterFails(n) /\ own[n].op # "boot"
  <2>1. /\ loop[n].op \in {"grant", "put"} /\ loop' = [loop EXCEPT ![n] = Begin("sleep", NoLease)]
        /\ UNCHANGED <<left, holder, keyLease, etcdUp, lease, age, owned, sinceClaim, map, under, events, own>>
    BY <1>6 DEF RegisterFails, AcquireFails, LoopWaits, etcdVars, nodeVars
  <2>2. CallsFitMargin => (lease[n] = NoLease => age[n] = TTL) /\ ~ (age[n] < TTL - Margin)
    BY <1>1, <1>2, <2>1, Types DEF ClockFits
  <2> QED BY <2>1, <2>2, <1>1, Same, LoopMoves DEF TypeOK
<1> QED BY <1>3, <1>4, <1>5, <1>6

LEMMA ProcessKept ==
  ASSUME IInv, NEW n \in Node, Crash(n) \/ StartAgain(n) \/ Shutdown(n) \/ Exit(n), UNCHANGED situation
  PROVE  IInv'
<1> USE DEF IInv
<1>1. TypeOK /\ faults' \in 0..situation.faults
  BY FaultsFit DEF Crash, StartAgain, Shutdown, Exit
<1>2. CallsFitMargin => (lease[n] = NoLease => age[n] = TTL) BY DEF ClocksFit, ClockFits
<1>3. CASE Crash(n) \/ StartAgain(n) BY <1>1, <1>3, FreshKept DEF Crash, StartAgain
<1>4. CASE Shutdown(n)
  <2> DEFINE u == IF draining(n) THEN NoLease ELSE under[n]
  <2>1. /\ loop' = [loop EXCEPT ![n] = Begin("revoke", lease[n])] /\ own' = [own EXCEPT ![n] = Begin("idle", NoLease)]
        /\ UNCHANGED <<left, holder, keyLease, etcdUp, lease, age, sinceClaim, map, events>>
        /\ owned' \subseteq Node
    BY <1>4 DEF Shutdown, LoopWaits, OwnWaits, DropShard, etcdVars, TypeOK
  <2>2. under' = [under EXCEPT ![n] = u] BY <1>1, <1>4, Same DEF Shutdown, DropShard
  <2>3. u \in {under[n], NoLease} /\ (own[n].op = "release" => u = NoLease) BY DEF draining
  <2> HIDE DEF u
  <2>4. /\ lease' = [lease EXCEPT ![n] = lease[n]] /\ age' = [age EXCEPT ![n] = age[n]] /\ age[n] \in 0..TTL
    BY <2>1, <1>1, Same
  <2>5. /\ sinceClaim' \in [Node -> 0 .. DropDelay + 1] /\ map' \in [Node -> Node \cup {NoNode}]
        /\ events' \in [Node -> Seq(Node \cup {NoNode})]
    BY <2>1 DEF TypeOK
  <2> HIDE DEF IInv
  <2> QED BY <2>1, <2>2, <2>3, <2>4, <2>5, <1>1, <1>2, LoopMoves
<1>5. CASE Exit(n)
  <2>1. /\ loop' = [loop EXCEPT ![n] = Begin("exit", NoLease)]
        /\ UNCHANGED <<left, holder, keyLease, etcdUp, lease, age, owned, sinceClaim, map, under, events, own>>
    BY <1>5 DEF Exit, LoopWaits, etcdVars, nodeVars
  <2> QED BY <2>1, <1>1, <1>2, Same, LoopMoves DEF TypeOK
<1> QED BY <1>3, <1>4, <1>5

LEMMA OwnershipTaskKept ==
  ASSUME IInv, NEW n \in Node, Reconcile(n) \/ Drained(n) \/ ReleaseAnswered(n) \/ ClaimFails(n) \/ ReleaseFails(n),
         UNCHANGED situation
  PROVE  IInv'
<1> USE DEF IInv
<1>1. /\ TypeOK /\ faults' \in 0..situation.faults
      /\ UNCHANGED <<left, holder, keyLease, etcdUp, lease, age, events, loop, situation, sinceClaim, map>>
      /\ owned' \subseteq Node /\ sinceClaim' \in [Node -> 0 .. DropDelay + 1] /\ map' \in [Node -> Node \cup {NoNode}]
  <2>1. faults' \in 0..situation.faults
    BY FaultsFit DEF Reconcile, Drained, ReleaseAnswered, ClaimFails, ReleaseFails
  <2> QED BY <2>1 DEF Reconcile, Drained, ReleaseAnswered, ClaimFails, ReleaseFails, Released, DropShard, OwnedAfterDrop,
                      etcdVars, nodeVars, TypeOK
<1>2. /\ own[n].op # "release" /\ under[n] # NoLease /\ left[under[n]] > 0 => holder = n /\ keyLease = under[n]
  BY DEF KeysFit, KeyFits
<1>3. /\ own[n].op \notin {"boot", "drain", "release"} => own[n].op # "release"
      /\ lease[n] \in Lease \cup {NoLease}
  BY Types
<1>4. CASE Reconcile(n)
  <2> DEFINE u == IF n \in owned' THEN under[n] ELSE NoLease
  <2>1. PICK t \in {own[n], Begin("claim", lease[n]), Begin("drain", NoLease)} : own' = [own EXCEPT ![n] = t]
    BY <1>1, <1>4, Same DEF Reconcile, OwnWaits
  <2>2. own[n].op = "idle" /\ under' = [under EXCEPT ![n] = u] BY <1>4 DEF Reconcile
  <2>3. u \in {under[n], own[n].lease, NoLease} /\ (u # NoLease => u = under[n]) OBVIOUS
  <2>4. /\ t \in Task /\ t.lease \in {own[n].lease, lease[n], NoLease} /\ t.op # "release"
        /\ (t.op = "claim" => t.st # "ok")
    <3>1. Begin("claim", lease[n]) \in Task /\ Begin("drain", NoLease) \in Task BY <1>3, TaskOf DEF Op
    <3> QED BY <2>1, <2>2, <3>1, <1>1, Same DEF Begin
  <2> HIDE DEF u, IInv
  <2> QED BY <2>1, <2>2, <2>3, <2>4, <1>1, <1>2, OwnMoves
<1>5. CASE Drained(n) \/ ClaimFails(n)
  <2>1. PICK t \in {Begin("idle", NoLease), Begin("release", NoLease)} : own' = [own EXCEPT ![n] = t]
    BY <1>5 DEF Drained, ClaimFails, OwnWaits
  <2>2. own[n].op # "release" /\ under' = [under EXCEPT ![n] = under[n]]
    BY <1>1, <1>5, Same DEF Drained, ClaimFails, nodeVars
  <2>3. t \in Task /\ t.lease = NoLease /\ t.op # "claim"
    <3>1. Begin("idle", NoLease) \in Task /\ Begin("release", NoLease) \in Task BY TaskOf DEF Op
    <3> QED BY <2>1, <3>1 DEF Begin
  <2> HIDE DEF IInv
  <2> QED BY <2>1, <2>2, <2>3, <1>1, <1>2, OwnMoves
<1>6. CASE ReleaseAnswered(n) \/ ReleaseFails(n)
  <2>1. own' = [own EXCEPT ![n] = Begin("idle", NoLease)] /\ under' = [under EXCEPT ![n] = NoLease]
    BY <1>6 DEF ReleaseAnswered, ReleaseFails, Released, OwnWaits, DropShard
  <2>2. LET t == Begin("idle", NoLease) IN t \in Task /\ t.lease = NoLease /\ t.op # "claim"
    <3>1. Begin("idle", NoLease) \in Task BY TaskOf DEF Op
    <3> QED BY <3>1 DEF Begin
  <2> HIDE DEF IInv
  <2> QED BY <2>1, <2>2, <1>1, OwnMoves
<1> QED BY <1>4, <1>5, <1>6

LEMMA ClaimAnsweredKept ==
  ASSUME IInv, NEW n \in Node, ClaimAnswered(n), UNCHANGED situation
  PROVE  IInv'
<1> USE DEF IInv
<1> DEFINE u == IF own[n].st = "ok" THEN own[n].lease ELSE under[n]
<1>1. /\ own[n].op = "claim" /\ own[n].st # "sent"
      /\ own' = [own EXCEPT ![n] = Begin("idle", NoLease)]
      /\ UNCHANGED <<left, holder, keyLease, etcdUp, lease, age, events, loop, situation, faults>>
      /\ IF own[n].st = "ok" THEN /\ owned' = owned \cup {n} /\ sinceClaim' = [sinceClaim EXCEPT ![n] = 0]
                                  /\ map' = [map EXCEPT ![n] = n] /\ under' = [under EXCEPT ![n] = own[n].lease]
                             ELSE UNCHANGED <<owned, sinceClaim, map, under>>
  BY DEF ClaimAnswered, OwnWaits, set_owner, etcdVars
<1>2. TypeOK /\ DropDelay \in Nat BY Constants DEF TypeOK
<1>3. /\ owned' \subseteq Node /\ sinceClaim' \in [Node -> 0 .. DropDelay + 1] /\ map' \in [Node -> Node \cup {NoNode}]
      /\ faults' \in 0..situation.faults
  <2>1. owned \subseteq Node /\ faults \in 0..situation.faults /\ map \in [Node -> Node \cup {NoNode}] BY DEF TypeOK
  <2>2. sinceClaim \in [Node -> 0 .. DropDelay + 1] /\ 0 \in 0 .. DropDelay + 1 BY <1>2 DEF TypeOK
  <2> HIDE DEF IInv
  <2>3. CASE own[n].st = "ok" BY <1>1, <2>1, <2>2, <2>3
  <2>4. CASE own[n].st # "ok" BY <1>1, <2>1, <2>2, <2>4
  <2> QED BY <2>3, <2>4
<1>4. under' = [under EXCEPT ![n] = u] BY <1>1, <1>2, Same
<1>5. u \in {under[n], own[n].lease, NoLease} /\ (u # NoLease /\ left[u] > 0 => holder = n /\ keyLease = u)
  BY <1>1 DEF KeysFit, KeyFits
<1>6. LET t == Begin("idle", NoLease) IN t \in Task /\ t.lease = NoLease /\ t.op # "claim"
  <2>1. Begin("idle", NoLease) \in Task BY TaskOf DEF Op
  <2> QED BY <2>1 DEF Begin
<1> HIDE DEF u, IInv
<1> QED BY <1>1, <1>3, <1>4, <1>5, <1>6, OwnMoves

-----------------------------------------------------------------------------
(* Time.                                                                   *)

LEMMA TickKept ==
  ASSUME IInv, Tick, UNCHANGED situation
  PROVE  IInv'
<1> USE DEF IInv
<1>1. /\ \A n \in Node : loop[n].wait < Limit(loop[n])
      /\ left' = [l \in Lease |-> IF left[l] > 0 THEN left[l] - 1 ELSE 0]
      /\ age' = [n \in Node |-> Least(age[n] + 1, TTL)]
      /\ sinceClaim' = [n \in Node |-> Least(sinceClaim[n] + 1, DropDelay + 1)]
      /\ loop' = [n \in Node |-> Waits(loop[n])] /\ own' = [n \in Node |-> Waits(own[n])]
      /\ UNCHANGED <<holder, keyLease, etcdUp, lease, owned, map, under, events, faults>>
  BY DEF Tick
<1>2. /\ TTL' = TTL /\ Margin' = Margin /\ DropDelay' = DropDelay /\ DropDelay \in Nat
  BY Constants DEF TTL, Margin, DropDelay, TypeOK
<1>3. ASSUME NEW t \in Task
      PROVE  /\ Waits(t) \in Task /\ Waits(t).op = t.op /\ Waits(t).st = t.st /\ Waits(t).lease = t.lease
             /\ Waits(t).wait = IF t.op = "sleep" \/ t.op \in Calls THEN t.wait + 1 ELSE t.wait
  BY DEF Waits, Task
<1>4. \A n \in Node : loop[n] \in Task /\ own[n] \in Task BY DEF TypeOK
<1>5. \A n \in Node : /\ loop'[n].op = loop[n].op /\ loop'[n].st = loop[n].st /\ loop'[n].lease = loop[n].lease
                      /\ loop'[n].wait = IF loop[n].op = "sleep" \/ loop[n].op \in Calls THEN loop[n].wait + 1 ELSE loop[n].wait
                      /\ own'[n].op = own[n].op /\ own'[n].st = own[n].st /\ own'[n].lease = own[n].lease
  BY <1>1, <1>3, <1>4
<1>6. TypeOK'
  <2>1. loop' \in [Node -> Task] /\ own' \in [Node -> Task] BY <1>1, <1>3, <1>4
  <2>2. left' \in [Lease -> 0..TTL]
    <3>1. ASSUME NEW l \in Lease PROVE (IF left[l] > 0 THEN left[l] - 1 ELSE 0) \in 0..TTL
      <4>1. left[l] \in 0..TTL /\ TTL \in Nat BY Constants DEF TypeOK
      <4> QED BY <4>1
    <3> QED BY <1>1, <3>1
  <2>3. age' \in [Node -> 0..TTL]
    <3>1. \A n \in Node : Least(age[n] + 1, TTL) \in 0..TTL BY Types DEF Least
    <3> QED BY <1>1, <3>1
  <2>4. sinceClaim' \in [Node -> 0 .. DropDelay + 1]
    <3>1. ASSUME NEW n \in Node PROVE Least(sinceClaim[n] + 1, DropDelay + 1) \in 0 .. DropDelay + 1
      <4>1. sinceClaim[n] \in 0 .. DropDelay + 1 BY DEF TypeOK
      <4> QED BY <4>1, <1>2 DEF Least
    <3> QED BY <1>1, <3>1
  <2> QED BY <1>1, <1>2, <2>1, <2>2, <2>3, <2>4 DEF TypeOK
<1>7. LeasesApart' BY <1>1, <1>5 DEF LeasesApart
<1>8. LoopsFit'
  <2> SUFFICES ASSUME NEW n \in Node PROVE LoopFits(n)' BY DEF LoopsFit
  <2>1. LoopFits(n) BY DEF LoopsFit
  <2>2. loop[n].op \in Calls => loop'[n].wait <= situation.call
    <3>1. loop[n].wait \in Nat /\ situation.call \in Nat BY Types
    <3> QED BY <1>1, <1>5, <3>1 DEF Limit, Calls
  <2> QED BY <2>1, <2>2, <1>1, <1>5 DEF LoopFits
<1>9. ClocksFit'
  <2> SUFFICES ASSUME CallsFitMargin, NEW n \in Node PROVE ClockFits(n)'
    BY DEF ClocksFit, CallsFitMargin, Margin
  <2>1. ClockFits(n) /\ LoopFits(n) BY DEF ClocksFit, LoopsFit
  <2>2. \A l \in Lease : left'[l] \in Nat /\ left'[l] + 1 >= left[l] /\ left[l] \in Nat BY <1>1, Types
  <2>3. age'[n] = IF age[n] = TTL THEN TTL ELSE age[n] + 1
    <3>1. age'[n] = Least(age[n] + 1, TTL) BY <1>1
    <3>2. age[n] \in 0..TTL /\ TTL \in Nat BY Types
    <3> QED BY <3>1, <3>2 DEF Least
  <2>4. /\ loop[n].wait \in Nat /\ age[n] \in 0..TTL /\ TTL \in Nat /\ Margin \in Nat /\ Margin < TTL /\ situation.call \in Nat
        /\ lease[n] \in Lease \cup {NoLease} /\ loop[n].lease \in Lease \cup {NoLease}
    BY Types
  <2>5. loop[n].op \in {"grant", "put", "keepalive"} => loop'[n].wait = loop[n].wait + 1 BY <1>5 DEF Calls
  <2> QED BY <2>1, <2>2, <2>3, <2>4, <2>5, <1>1, <1>2, <1>5 DEF ClockFits, LoopFits
<1>10. KeysFit'
  <2>1. \A l \in Lease : left'[l] > 0 => left[l] > 0 BY <1>1, Types
  <2> QED BY <2>1, <1>1, <1>5, Types DEF KeysFit, KeyFits
<1> QED BY <1>6, <1>7, <1>8, <1>9, <1>10

-----------------------------------------------------------------------------
LEMMA Initially == Init => IInv
<1> SUFFICES ASSUME Init PROVE IInv OBVIOUS
<1>1. situation \in Situations BY DEF Init
<1>2. \A n \in Node : /\ loop[n].op \in {"grant", "exit"} /\ loop[n].st = "sent" /\ loop[n].lease = NoLease /\ loop[n].wait = 0
                      /\ own[n].op = "boot" /\ own[n].st = "sent" /\ own[n].lease = NoLease
                      /\ lease[n] = NoLease /\ under[n] = NoLease /\ age[n] = TTL
  BY DEF Init, Begin
<1>3. TypeOK
  <2>1. \A op \in Op : Begin(op, NoLease) \in Task BY TaskOf
  <2>2. loop \in [Node -> Task] /\ own \in [Node -> Task] BY <2>1 DEF Init, Op
  <2>3. TTL \in Nat /\ DropDelay \in Nat /\ situation.faults \in Nat BY <1>1, Constants
  <2>4. events \in [Node -> Seq(Node \cup {NoNode})]
    <3>1. <<>> \in Seq(Node \cup {NoNode}) OBVIOUS
    <3> QED BY <3>1 DEF Init
  <2> QED BY <2>2, <2>3, <2>4 DEF Init, TypeOK
<1>4. LeasesApart BY <1>2 DEF LeasesApart
<1>5. LoopsFit
  <2>1. situation.call \in Nat BY <1>1, Constants
  <2> QED BY <1>2, <2>1 DEF LoopsFit, LoopFits
<1>6. ClocksFit
  <2>1. TTL \in Nat /\ Margin \in Nat BY <1>1, Constants
  <2> QED BY <1>2, <2>1 DEF ClocksFit, ClockFits
<1>7. KeysFit BY <1>2 DEF KeysFit, KeyFits
<1> QED BY <1>3, <1>4, <1>5, <1>6, <1>7 DEF IInv

LEMMA NodeStepKept ==
  ASSUME IInv, NEW n \in Node, UNCHANGED situation,
         Etcd(n) \/ KeepaliveTask(n) \/ OwnershipTask(n) \/ Watch(n) \/ Reload(n) \/ Fails(n)
  PROVE  IInv'
<1>1. CASE Etcd(n)
  BY <1>1, KeepaliveKept, GrantKept, PutKept, ClaimKept, ReleaseKept, RevokeKept DEF Etcd
<1>2. CASE KeepaliveTask(n)
  BY <1>2, SendKeepaliveKept, KeepaliveAnsweredKept, GrantAnsweredKept, PutAnsweredKept, ProcessKept DEF KeepaliveTask
<1>3. CASE OwnershipTask(n) BY <1>3, OwnershipTaskKept, ClaimAnsweredKept DEF OwnershipTask
<1>4. CASE Fails(n) BY <1>4, FailuresKept, OwnershipTaskKept, ProcessKept DEF Fails
<1>5. CASE Watch(n) \/ Reload(n)
  <2>1. TypeOK /\ etcdUp' = etcdUp /\ faults' = faults BY <1>5 DEF IInv, Watch, Reload, etcdVars
  <2>2. events[n] \in Seq(Node \cup {NoNode}) /\ <<>> \in Seq(Node \cup {NoNode}) BY <2>1 DEF TypeOK
  <2>3. events[n] # <<>> BY <1>5 DEF Watch, Reload
  <2>4. Head(events[n]) \in Node \cup {NoNode} /\ Tail(events[n]) \in Seq(Node \cup {NoNode}) BY <2>2, <2>3
  <2>5. map' \in [Node -> Node \cup {NoNode}] /\ events' \in [Node -> Seq(Node \cup {NoNode})]
    <3>1. events \in [Node -> Seq(Node \cup {NoNode})] /\ map \in [Node -> Node \cup {NoNode}] /\ holder \in Node \cup {NoNode}
      BY <2>1 DEF TypeOK
    <3>2. CASE Watch(n)
      <4>1. map' = [map EXCEPT ![n] = Head(events[n])] /\ events' = [events EXCEPT ![n] = Tail(events[n])]
        BY <3>2 DEF Watch, set_owner
      <4> QED BY <4>1, <3>1, <2>4
    <3>3. CASE Reload(n)
      <4>1. map' = [map EXCEPT ![n] = holder] /\ events' = [events EXCEPT ![n] = <<>>]
        BY <3>3 DEF Reload, replace
      <4> QED BY <4>1, <3>1, <2>2
    <3> QED BY <1>5, <3>2, <3>3
  <2> QED BY <1>5, <2>1, <2>5, ViewKept DEF Watch, Reload, etcdVars, TypeOK
<1> QED BY <1>1, <1>2, <1>3, <1>4, <1>5

LEMMA StepKept == IInv /\ [Next]_vars => IInv'
<1> SUFFICES ASSUME IInv, [Next]_vars PROVE IInv' OBVIOUS
<1>1. CASE UNCHANGED vars
  BY <1>1, ViewKept DEF vars, steps, etcdVars, nodeVars, IInv, TypeOK
<1>2. CASE Next
  <2>1. UNCHANGED situation /\ situation.nodes \subseteq Node BY <1>2, Constants DEF Next, IInv, TypeOK
  <2>2. CASE Tick BY <2>1, <2>2, TickKept
  <2>3. CASE EtcdExpire BY <2>1, <2>3, ExpireKept
  <2>4. CASE Outage \/ Recovery
    <3>1. faults' \in 0..situation.faults BY <2>4, FaultsFit DEF Outage, Recovery, IInv
    <3> QED BY <2>1, <2>4, <3>1, ViewKept DEF Outage, Recovery, nodeVars, IInv, TypeOK
  <2>5. CASE \E n \in situation.nodes :
               Etcd(n) \/ KeepaliveTask(n) \/ OwnershipTask(n) \/ Watch(n) \/ Reload(n) \/ Fails(n)
    BY <2>1, <2>5, NodeStepKept
  <2> QED BY <1>2, <2>2, <2>3, <2>4, <2>5 DEF Next, Step
<1> QED BY <1>1, <1>2

\* Every step of etcd, of the two tasks of a node, of the watch and of the
\* clock keeps IInv, whatever fails.
THEOREM Invariant == Spec => []IInv
BY Initially, StepKept, PTL DEF Spec

\* Every variable keeps its type, clocks and faults within their bounds.
THEOREM TypeCorrect == Spec => []TypeOK
BY Invariant, PTL DEF IInv

\* EtcdMember's self-fencing: if two calls fit into the margin, a node that
\* serves under the lease of its claim holds the key in etcd.
THEOREM Fencing == Spec => []SelfFencing
<1>1. IInv => SelfFencing
  <2> SUFFICES ASSUME IInv, CallsFitMargin, NEW n \in Node, can_serve(n), under[n] # NoLease, under[n] = lease[n]
               PROVE  holder = n
    BY DEF SelfFencing
  <2>1. ClockFits(n) /\ LoopFits(n) /\ KeyFits(n) /\ TypeOK BY DEF IInv, ClocksFit, LoopsFit, KeysFit
  <2>2. age[n] < TTL - Margin /\ loop[n].op \notin {"revoke", "exit"} /\ own[n].op # "release"
    BY DEF can_serve, lease_healthy, fenced, draining
  <2>3. loop[n].op \in {"sleep", "keepalive"} BY <2>1, <2>2, Types DEF LoopFits, ClockFits
  <2>4. left[lease[n]] \in Nat BY <2>1, Types
  <2>5. left[lease[n]] > 0 BY <2>1, <2>2, <2>3, <2>4, Types DEF ClockFits, CallsFitMargin
  <2> QED BY <2>1, <2>2, <2>5 DEF KeyFits
<1> QED BY Invariant, <1>1, PTL

-----------------------------------------------------------------------------
(* With its clocks and calls forgotten the shard is a ShardOwnership.      *)

Abstract == [Ownership!OwnershipNext]_<<holder, owned, suspended>>

\* A step that leaves the key and `owned` alone.
LEMMA ClocksAlone ==
  ASSUME owned' = owned, holder' = holder
  PROVE  Abstract
<1>1. suspended' \in SUBSET Node BY DEF suspended
<1> QED BY <1>1 DEF Abstract, Ownership!OwnershipNext, Ownership!SuspensionChanges

\* Whether nodes are suspended depends on their leases, clocks and tasks.
LEMMA SuspendedStands ==
  ASSUME UNCHANGED situation, NEW S \in SUBSET Node,
         \A n \in S : lease'[n] = lease[n] /\ age'[n] = age[n] /\ loop'[n].op = loop[n].op /\ own'[n].op = own[n].op
  PROVE  \A n \in S : n \in suspended' <=> n \in suspended
BY DEF suspended, lease_healthy, fenced, draining, TTL, Margin

\* A call that changes the key takes effect.
LEMMA KeyAlone ==
  ASSUME TypeOK, UNCHANGED <<situation, lease, age, owned>>,
         \A n \in Node : loop'[n].op = loop[n].op /\ own'[n].op = own[n].op,
         holder' \in {holder, NoNode} \/ (holder = NoNode /\ holder' \in Node)
  PROVE  Abstract
<1>1. suspended' = suspended
  <2>1. \A n \in Node : n \in suspended' <=> n \in suspended BY SuspendedStands
  <2> QED BY <2>1 DEF suspended
<1>2. CASE holder' = holder BY <1>2, ClocksAlone
<1>3. CASE holder' = NoNode /\ holder # NoNode
  BY <1>1, <1>3 DEF Abstract, Ownership!OwnershipNext, Ownership!KeyGone
<1>4. CASE holder = NoNode /\ holder' \in Node
  BY <1>1, <1>4 DEF Abstract, Ownership!OwnershipNext, Ownership!ClaimKey
<1> QED BY <1>2, <1>3, <1>4

\* What a step of n does to `owned` and to the others.
LEMMA NodeAlone ==
  ASSUME NEW n \in Node, UNCHANGED <<situation, holder>>,
         \A m \in Node \ {n} : lease'[m] = lease[m] /\ age'[m] = age[m] /\ loop'[m].op = loop[m].op /\ own'[m].op = own[m].op,
         \/ owned' = owned \ {n} /\ (n \in suspended' => n \in suspended)
         \/ owned' = owned \cup {n} /\ n \in suspended'
         \/ owned' = owned \cup {n} /\ (n \in suspended' <=> n \in suspended)
  PROVE  Abstract
<1>1. \A m \in Node \ {n} : m \in suspended' <=> m \in suspended BY SuspendedStands
<1>2. suspended \subseteq Node /\ suspended' \subseteq Node BY DEF suspended
<1>3. CASE owned' = owned \ {n} /\ (n \in suspended' => n \in suspended)
  <2>1. suspended' \in {suspended, suspended \ {n}} BY <1>1, <1>2, <1>3
  <2> QED BY <1>3, <2>1 DEF Abstract, Ownership!OwnershipNext, Ownership!Drop
<1>4. CASE owned' = owned \cup {n} /\ n \in suspended'
  <2>1. suspended' = suspended \cup {n} BY <1>1, <1>2, <1>4
  <2> QED BY <1>4, <2>1 DEF Abstract, Ownership!OwnershipNext, Ownership!Restart
<1>5. CASE owned' = owned \cup {n} /\ (n \in suspended' <=> n \in suspended)
  <2>1. suspended' = suspended BY <1>1, <1>2, <1>5
  <2> QED BY <1>5, <2>1 DEF Abstract, Ownership!OwnershipNext, Ownership!Claimed
<1> QED BY <1>3, <1>4, <1>5

LEMMA FreshRestarts ==
  ASSUME TypeOK, NEW n \in Node, FreshProcess(n), UNCHANGED <<etcdVars, situation>>
  PROVE  Abstract
<1>1. lease'[n] = NoLease BY DEF FreshProcess, TypeOK
<1>2. n \in suspended' BY <1>1 DEF suspended, lease_healthy
<1>3. \A m \in Node \ {n} : lease'[m] = lease[m] /\ age'[m] = age[m] /\ loop'[m] = loop[m] /\ own'[m] = own[m]
  BY DEF FreshProcess, LoopWaits, TypeOK
<1>4. owned' = owned \cup {n} /\ holder' = holder BY DEF FreshProcess, etcdVars
<1> QED BY <1>2, <1>3, <1>4, NodeAlone

LEMMA LostDrops ==
  ASSUME TypeOK, NEW n \in Node, LeaseLost(n), UNCHANGED <<etcdVars, own, situation>>, loop[n].op = "keepalive"
  PROVE  Abstract
<1>1. \A m \in Node \ {n} : loop'[m] = loop[m] BY DEF LeaseLost, LoopWaits, TypeOK
<1>2. loop'[n].op = "grant" BY DEF LeaseLost, LoopWaits, TypeOK, Begin
<1>3. n \in suspended' => n \in suspended
  BY <1>2 DEF suspended, lease_healthy, fenced, draining, LeaseLost, TTL, Margin
<1> QED BY <1>1, <1>3, NodeAlone DEF LeaseLost, DropShard, etcdVars

LEMMA EtcdImplements ==
  ASSUME TypeOK, NEW n \in Node, UNCHANGED situation, Etcd(n)
  PROVE  Abstract
<1>0. loop \in [Node -> Task] /\ own \in [Node -> Task] /\ NoNode \notin Node BY Constants DEF TypeOK
<1>1. CASE EtcdKeepalive(n) \/ EtcdGrant(n) \/ EtcdPut(n)
  BY <1>1, ClocksAlone DEF EtcdKeepalive, EtcdGrant, EtcdPut, KeyStays, nodeVars, etcdVars
<1>2. CASE EtcdClaim(n)
  <2>1. \A m \in Node : own'[m].op = own[m].op
    <3>1. PICK st \in {"ok", "refused"} : own' = Outcome(own, n, st) BY <1>2 DEF EtcdClaim
    <3>2. own'[n].op = own[n].op /\ \A m \in Node : m # n => own'[m] = own[m] BY <1>0, <3>1, OutcomeOf
    <3> QED BY <3>2
  <2> QED BY <1>2, <2>1, KeyAlone DEF EtcdClaim, KeyBecomes, KeyStays, nodeVars
<1>3. CASE EtcdRelease(n)
  <2>1. \A m \in Node : own'[m].op = own[m].op
    <3>1. PICK st \in {"ok", "refused"} : own' = Outcome(own, n, st) BY <1>3 DEF EtcdRelease
    <3>2. own'[n].op = own[n].op /\ \A m \in Node : m # n => own'[m] = own[m] BY <1>0, <3>1, OutcomeOf
    <3> QED BY <3>2
  <2> QED BY <1>3, <2>1, KeyAlone DEF EtcdRelease, KeyBecomes, KeyStays, nodeVars
<1>4. CASE EtcdRevoke(n)
  <2>1. \A m \in Node : loop'[m].op = loop[m].op
    <3>1. PICK st \in {"ok", "refused"} : loop' = Outcome(loop, n, st) BY <1>4 DEF EtcdRevoke
    <3>2. loop'[n].op = loop[n].op /\ \A m \in Node : m # n => loop'[m] = loop[m] BY <1>0, <3>1, OutcomeOf
    <3> QED BY <3>2
  <2> QED BY <1>4, <2>1, KeyAlone DEF EtcdRevoke, KeyBecomes, KeyStays, nodeVars
<1> QED BY <1>1, <1>2, <1>3, <1>4 DEF Etcd

LEMMA LoopImplements ==
  ASSUME TypeOK, NEW n \in Node, UNCHANGED situation, KeepaliveTask(n) \/ KeepaliveFails(n) \/ RegisterFails(n)
  PROVE  Abstract
<1>1. CASE SendKeepalive(n) \/ GrantAnswered(n) \/ PutAnswered(n) \/ Exit(n)
  BY <1>1, ClocksAlone DEF SendKeepalive, GrantAnswered, PutAnswered, Exit, etcdVars, nodeVars
<1>2. CASE KeepaliveAnswered(n) /\ loop[n].st = "ok"
  BY <1>2, ClocksAlone DEF KeepaliveAnswered, etcdVars
<1>3. CASE KeepaliveAnswered(n) /\ loop[n].st # "ok"
  BY <1>3, LostDrops DEF KeepaliveAnswered
<1>4. CASE StartAgain(n) BY <1>4, FreshRestarts DEF StartAgain
<1>5. CASE KeepaliveFails(n) /\ lease_healthy(n) BY <1>5, ClocksAlone DEF KeepaliveFails, etcdVars
<1>6. CASE KeepaliveFails(n) /\ ~ lease_healthy(n) BY <1>6, LostDrops DEF KeepaliveFails
<1>7. CASE RegisterFails(n) /\ own[n].op = "boot" BY <1>7, FreshRestarts DEF RegisterFails, AcquireFails
<1>8. CASE RegisterFails(n) /\ own[n].op # "boot"
  BY <1>8, ClocksAlone DEF RegisterFails, AcquireFails, etcdVars, nodeVars
<1> QED BY <1>1, <1>2, <1>3, <1>4, <1>5, <1>6, <1>7, <1>8 DEF KeepaliveTask

LEMMA OwnImplements ==
  ASSUME TypeOK, NEW n \in Node, UNCHANGED situation,
         OwnershipTask(n) \/ ClaimFails(n) \/ ReleaseFails(n) \/ Crash(n) \/ Shutdown(n) \/ Watch(n) \/ Reload(n)
  PROVE  Abstract
<1>0. /\ loop \in [Node -> Task] /\ own \in [Node -> Task]
      /\ \A op \in Op, m \in Node : own' = [own EXCEPT ![n] = Begin(op, NoLease)] =>
           own'[n].op = op /\ (m # n => own'[m] = own[m])
  BY DEF TypeOK, Begin
<1>1. CASE Drained(n) \/ ClaimFails(n) \/ Watch(n) \/ Reload(n)
  BY <1>1, ClocksAlone DEF Drained, ClaimFails, Watch, Reload, etcdVars, nodeVars
<1>2. CASE Crash(n) BY <1>2, FreshRestarts DEF Crash
<1>3. CASE ReleaseAnswered(n) \/ ReleaseFails(n)
  <2>1. n \in suspended BY <1>3 DEF ReleaseAnswered, ReleaseFails, suspended, draining
  <2>2. \A m \in Node \ {n} : own'[m] = own[m]
    BY <1>0, <1>3 DEF ReleaseAnswered, ReleaseFails, OwnWaits, Released, Op
  <2> QED BY <1>3, <2>1, <2>2, NodeAlone DEF ReleaseAnswered, ReleaseFails, Released, DropShard, etcdVars
<1>4. CASE Shutdown(n)
  <2>1. CASE ~ draining(n) BY <1>4, <2>1, ClocksAlone DEF Shutdown, etcdVars
  <2>2. CASE draining(n)
    <3>1. n \in suspended BY <2>2 DEF suspended
    <3>2. \A m \in Node \ {n} : own'[m] = own[m] /\ loop'[m] = loop[m]
      BY <1>0, <1>4 DEF Shutdown, LoopWaits, OwnWaits
    <3> QED BY <1>4, <2>2, <3>1, <3>2, NodeAlone DEF Shutdown, DropShard, etcdVars
  <2> QED BY <2>1, <2>2
<1>5. CASE ClaimAnswered(n)
  <2>1. CASE own[n].st # "ok" BY <1>5, <2>1, ClocksAlone DEF ClaimAnswered, etcdVars
  <2>2. CASE own[n].st = "ok"
    <3>1. own[n].op = "claim" /\ own'[n].op = "idle" /\ \A m \in Node \ {n} : own'[m] = own[m]
      BY <1>0, <1>5 DEF ClaimAnswered, OwnWaits, Op
    <3>2. n \in suspended' <=> n \in suspended
      BY <1>5, <3>1 DEF ClaimAnswered, suspended, lease_healthy, fenced, draining, TTL, Margin
    <3> QED BY <1>5, <2>2, <3>1, <3>2, NodeAlone DEF ClaimAnswered, etcdVars
  <2> QED BY <2>1, <2>2
<1>6. CASE Reconcile(n)
  <2>1. UNCHANGED <<holder, lease, age, loop>> BY <1>6 DEF Reconcile, etcdVars
  <2>2. CASE owned' = owned BY <2>1, <2>2, ClocksAlone
  <2>3. CASE owned' # owned
    <3>1. owned' = owned \ {n} BY <1>6, <2>3 DEF Reconcile, OwnedAfterDrop
    <3>2. own[n].op = "idle" /\ (own' = own \/ own' = [own EXCEPT ![n] = Begin("claim", lease[n])])
      BY <1>6, <3>1 DEF Reconcile, OwnWaits
    <3>3. own'[n].op \in {"idle", "claim"} /\ \A m \in Node \ {n} : own'[m] = own[m]
      BY <1>0, <3>2 DEF Begin
    <3>4. n \in suspended' => n \in suspended
      BY <2>1, <3>2, <3>3 DEF suspended, lease_healthy, fenced, draining, TTL, Margin
    <3> QED BY <2>1, <3>1, <3>3, <3>4, NodeAlone
  <2> QED BY <2>2, <2>3
<1> QED BY <1>1, <1>2, <1>3, <1>4, <1>5, <1>6 DEF OwnershipTask

\* What ChatOwner and GatewayDelivery assume of a shard is all that leases,
\* clocks and failing calls can do to it.
THEOREM ImplementsOwner == Spec => ImplementsOwnership
<1>1. Init => Ownership!OwnershipInit
  <2>1. ASSUME Init PROVE suspended = Node
    <3>1. \A n \in Node : lease[n] = NoLease BY <2>1 DEF Init
    <3> QED BY <3>1 DEF suspended, lease_healthy
  <2> QED BY <2>1 DEF Init, Ownership!OwnershipInit
<1>2. IInv /\ [Next]_vars => Abstract
  <2> SUFFICES ASSUME IInv, [Next]_vars PROVE Abstract OBVIOUS
  <2>1. TypeOK BY DEF IInv
  <2>2. CASE UNCHANGED vars BY <2>2, ClocksAlone DEF vars, steps, etcdVars, nodeVars
  <2>3. CASE Next
    <3>1. UNCHANGED situation /\ situation.nodes \subseteq Node BY <2>1, <2>3, Constants DEF Next, TypeOK
    <3>2. CASE Tick \/ Outage \/ Recovery BY <3>2, ClocksAlone DEF Tick, Outage, Recovery, nodeVars
    <3>3. CASE EtcdExpire BY <2>1, <3>1, <3>3, KeyAlone DEF EtcdExpire, KeyBecomes, nodeVars
    <3>4. CASE \E n \in situation.nodes :
                 Etcd(n) \/ KeepaliveTask(n) \/ OwnershipTask(n) \/ Watch(n) \/ Reload(n) \/ Fails(n)
      BY <2>1, <3>1, <3>4, EtcdImplements, LoopImplements, OwnImplements DEF Fails
    <3> QED BY <2>3, <3>2, <3>3, <3>4 DEF Next, Step
  <2> QED BY <2>2, <2>3
<1> QED BY <1>1, <1>2, Invariant, PTL DEF Spec, ImplementsOwnership, Abstract, Ownership!OwnershipSpec, Ownership!ownershipVars

=============================================================================
