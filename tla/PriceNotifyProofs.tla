-------------------------- MODULE PriceNotifyProofs --------------------------
(***************************************************************************)
(* What PriceNotify keeps for any users, prices, thresholds, batch sizes   *)
(* and faults: the checkpoint passes no price without its event, the       *)
(* worker takes the prices in order, and a subscription remembers only     *)
(* what a notification of its own told.  The last part is about StreamTail,*)
(* the tailer that stands in for the one of PriceNotify on DynamoDB.       *)
(***************************************************************************)
EXTENDS PriceNotify, SequenceTheorems, FiniteSetTheorems, WellFoundedInduction, TLAPS

\* The rows a poll has left behind are in the stream, or were dropped.
TailFits ==
  /\ tail.pc = "read" => tail.from <= Len(prices)
  /\ tail.pc = "publish" => tail.from <= tail.to /\ tail.to <= Len(prices)
  /\ tail.pc # "rest" => 1..tail.from \subseteq published \cup dropped

\* The worker is done with the event of x, has it, or will never get it.
Settled(x) == x <= last \/ x \in dropped \/ x = event

\* What is published is settled or on its way, and so is everything before an
\* event that is on its way, no later than that event.
InTurn ==
  /\ \A i \in 1..Len(events) : events[i] <= Len(prices)
  /\ \A x \in published : Settled(x) \/ \E j \in 1..Len(events) : events[j] = x
  /\ \A i \in 1..Len(events) : \A x \in 1..events[i] - 1 :
       Settled(x) \/ \E j \in 1..i - 1 : events[j] = x
  /\ \A x \in 1..event - 1 : Settled(x)

\* Notifications are about rows of the table.
KeysFit ==
  /\ \A k \in jobs : k[2] <= Len(prices)
  /\ \A i \in 1..Len(stream) : stream[i][2] <= Len(prices)
  /\ sender.pc # "idle" => sender.key \in Key /\ sender.key[2] <= Len(prices)

IInv == TypeOK /\ NothingSkipped /\ TailFits /\ InTurn /\ KeysFit /\ NotifiedIsOwn


-----------------------------------------------------------------------------
(* The table, the streams, the smaller and the larger of two.              *)

LEMMA Sizes ==
  /\ MaxRows \in Nat \ {0} /\ MaxIds \in Nat \ {0} /\ CDC_BATCH \in Nat \ {0}
  /\ MIN_CHANGE \in Nat \ {0} /\ MaxEvents \in Nat
  /\ Price \subseteq Nat \ {0} /\ Threshold \subseteq Nat \ {0} /\ None \notin Nat
BY PriceAssumption

LEMMA MaxOfTwo ==
  ASSUME NEW a \in Int, NEW b \in Int
  PROVE  Max({a, b}) = IF a >= b THEN a ELSE b
BY DEF Max

LEMMA MinOfTwo ==
  ASSUME NEW a \in Int, NEW b \in Int
  PROVE  Min({a, b}) = IF a <= b THEN a ELSE b
BY DEF Min

\* A row is added behind the others.
LEMMA TableGrows ==
  ASSUME TypeOK, NEW p \in Price, NEW seed \in BOOLEAN, Inserted(p, seed)
  PROVE  /\ prices' \in Seq([price : Price, seed : BOOLEAN])
         /\ Len(prices') = Len(prices) + 1 /\ Len(prices') <= MaxRows
         /\ \A i \in 1..Len(prices) : prices'[i] = prices[i]
         /\ Len(prices) \in Nat
<1> DEFINE r == [price |-> p, seed |-> seed]
<1>1. r \in [price : Price, seed : BOOLEAN] OBVIOUS
<1>2. prices' = Append(prices, r) /\ Len(prices) < MaxRows BY DEF Inserted
<1>3. prices \in Seq([price : Price, seed : BOOLEAN]) BY DEF TypeOK
<1> QED BY <1>1, <1>2, <1>3, AppendProperties, LenProperties, Sizes

\* One is put at the end of a stream.
LEMMA Queued ==
  ASSUME NEW S, NEW q \in Seq(S), NEW x \in S
  PROVE  /\ enqueue(q, x) \in Seq(S) /\ Len(enqueue(q, x)) = Len(q) + 1 /\ Len(q) \in Nat
         /\ \A i \in 1..Len(q) : enqueue(q, x)[i] = q[i]
         /\ enqueue(q, x)[Len(q) + 1] = x
BY AppendProperties, LenProperties DEF enqueue

\* One is taken from its head.
LEMMA Dequeued ==
  ASSUME NEW S, NEW q \in Seq(S), q # <<>>
  PROVE  /\ dequeue(q) \in Seq(S) /\ Len(dequeue(q)) = Len(q) - 1 /\ Len(q) \in Nat \ {0}
         /\ \A i \in 1..Len(dequeue(q)) : dequeue(q)[i] = q[i + 1]
         /\ Head(q) = q[1] /\ q[1] \in S
BY HeadTailProperties, LenProperties, EmptySeq DEF dequeue

-----------------------------------------------------------------------------
(* What a step leaves alone.                                               *)

\* The table has the rows it had, perhaps with new ones behind them.
Grown == Len(prices) <= Len(prices') /\ \A i \in 1..Len(prices) : prices'[i] = prices[i]

LEMMA TailStands ==
  ASSUME TypeOK, TailFits, Grown, prices' \in Seq([price : Price, seed : BOOLEAN]),
         UNCHANGED tail, published \subseteq published', dropped \subseteq dropped'
  PROVE  TailFits'
<1>1. Len(prices) \in Nat /\ Len(prices') \in Nat /\ tail.from \in Nat /\ tail.to \in Nat
  BY LenProperties, Sizes DEF TypeOK
<1> QED BY <1>1 DEF TailFits, Grown

LEMMA TurnStands ==
  ASSUME TypeOK, InTurn, Grown, prices' \in Seq([price : Price, seed : BOOLEAN]),
         UNCHANGED <<events, event, last, published>>, dropped \subseteq dropped'
  PROVE  InTurn'
<1>1. Len(prices) \in Nat /\ Len(prices') \in Nat BY LenProperties DEF TypeOK
<1>2. \A i \in 1..Len(events) : events[i] \in Nat BY ElementOfSeq, Sizes DEF TypeOK, Seqs
<1>3. \A x : Settled(x) => Settled(x)' BY DEF Settled
<1>4. \A i \in 1..Len(events) : events[i] <= Len(prices') BY <1>1, <1>2 DEF InTurn, Grown
<1>5. \A x \in published : Settled(x)' \/ \E j \in 1..Len(events) : events[j] = x BY <1>3 DEF InTurn
<1>6. \A i \in 1..Len(events) : \A x \in 1..events[i] - 1 :
        Settled(x)' \/ \E j \in 1..i - 1 : events[j] = x
  BY <1>3 DEF InTurn
<1>7. \A x \in 1..event - 1 : Settled(x)' BY <1>3 DEF InTurn
<1> QED BY <1>4, <1>5, <1>6, <1>7 DEF InTurn

LEMMA KeysStand ==
  ASSUME TypeOK, KeysFit, Grown, prices' \in Seq([price : Price, seed : BOOLEAN]),
         jobs' \subseteq jobs, UNCHANGED <<stream, sender>>
  PROVE  KeysFit'
<1>1. Len(prices) \in Nat /\ Len(prices') \in Nat BY LenProperties DEF TypeOK
<1>2. \A k \in Key : k[2] \in Nat BY Sizes DEF Key, Seqs
<1>3. \A i \in 1..Len(stream) : stream[i] \in Key BY ElementOfSeq DEF TypeOK
<1>4. jobs \subseteq Key BY DEF TypeOK
<1> QED BY <1>1, <1>2, <1>3, <1>4 DEF KeysFit, Grown

LEMMA OwnStands ==
  ASSUME TypeOK, NotifiedIsOwn, Grown, prices' \in Seq([price : Price, seed : BOOLEAN]),
         UNCHANGED <<subs, outbox>>
  PROVE  NotifiedIsOwn'
<1>1. Len(prices) \in Nat /\ Len(prices') \in Nat BY LenProperties DEF TypeOK
<1>2. ASSUME NEW u \in User, subs'[u] # None, subs'[u].notified # None
      PROVE  \E i \in 1..Len(prices') : prices'[i].price = subs'[u].notified
                                       /\ outbox'[<<<<u, subs'[u].id>>, i>>] = "VENDOR_ACCEPTED"
  <2>1. PICK i \in 1..Len(prices) : prices[i].price = subs[u].notified
                                   /\ outbox[<<<<u, subs[u].id>>, i>>] = "VENDOR_ACCEPTED"
    BY <1>2 DEF NotifiedIsOwn, PriceOf, KeyOf
  <2>2. i \in 1..Len(prices') /\ prices'[i] = prices[i] BY <1>1 DEF Grown
  <2> QED BY <2>1, <2>2
<1> QED BY <1>2 DEF NotifiedIsOwn, PriceOf, KeyOf

LEMMA SameTable ==
  ASSUME TypeOK, UNCHANGED prices
  PROVE  Grown /\ prices' \in Seq([price : Price, seed : BOOLEAN]) /\ Len(prices) \in Nat
BY LenProperties DEF TypeOK, Grown

-----------------------------------------------------------------------------
(* What comes in.                                                          *)

LEMMA PriceKept ==
  ASSUME IInv, NEW p \in Price, AppendPrice(p) \/ SeedHistory(p)
  PROVE  IInv'
<1> USE DEF IInv
<1>1. PICK seed \in BOOLEAN : Inserted(p, seed) BY DEF AppendPrice, SeedHistory
<1>2. /\ prices' \in Seq([price : Price, seed : BOOLEAN]) /\ Len(prices') \in Nat
      /\ Len(prices') = Len(prices) + 1 /\ Len(prices') <= MaxRows /\ Len(prices) \in Nat /\ Grown
  <2>1. /\ prices' \in Seq([price : Price, seed : BOOLEAN])
        /\ Len(prices') = Len(prices) + 1 /\ Len(prices') <= MaxRows
        /\ \A i \in 1..Len(prices) : prices'[i] = prices[i]
        /\ Len(prices) \in Nat
    BY <1>1, TableGrows
  <2> QED BY <2>1 DEF Grown
<1>3. /\ UNCHANGED <<checkpoint, tail, events, published, dropped>> /\ UNCHANGED notifying
      /\ seeding' \in {seeding, Len(prices')} /\ outside' = outside + 1 /\ outside < MaxEvents
  BY DEF AppendPrice, SeedHistory, External
<1>4. TypeOK'
  <2>1. checkpoint \in 0..Len(prices') /\ seeding' \in 0..Len(prices') BY <1>2, <1>3 DEF TypeOK
  <2>2. event \in 0..Len(prices') /\ last \in 0..Len(prices') BY <1>2 DEF TypeOK
  <2>3. outside' \in 0..MaxEvents BY <1>3, Sizes DEF TypeOK
  <2> QED BY <1>2, <1>3, <2>1, <2>2, <2>3 DEF TypeOK, notifying
<1>5. NothingSkipped' BY <1>3 DEF NothingSkipped
<1>6. TailFits' BY <1>2, <1>3, TailStands
<1>7. InTurn' BY <1>2, <1>3, TurnStands DEF notifying
<1>8. KeysFit' BY <1>2, <1>3, KeysStand DEF notifying
<1>9. NotifiedIsOwn' BY <1>2, <1>3, OwnStands DEF notifying
<1> QED BY <1>4, <1>5, <1>6, <1>7, <1>8, <1>9

LEMMA AdvanceToKept ==
  ASSUME IInv, AdvanceTo
  PROVE  IInv'
<1> USE DEF IInv
<1>1. PICK seq \in seeding..Len(prices) : /\ checkpoint' = Max({checkpoint, seq})
                                          /\ dropped' = dropped \cup (checkpoint + 1..seq)
  BY DEF AdvanceTo
<1>2. UNCHANGED <<prices, tail, events, event, last, published>> /\ UNCHANGED notifying /\ UNCHANGED outside /\ seeding' = 0
  BY DEF AdvanceTo, notifying
<1>3. Grown /\ prices' \in Seq([price : Price, seed : BOOLEAN]) /\ Len(prices) \in Nat
  BY <1>2, SameTable
<1>4. /\ checkpoint \in Nat /\ seq \in Nat /\ seq <= Len(prices) /\ checkpoint <= Len(prices)
      /\ Len(prices) <= MaxRows
  BY <1>3 DEF TypeOK
<1>5. checkpoint' = IF checkpoint >= seq THEN checkpoint ELSE seq BY <1>1, <1>4, MaxOfTwo
<1>6. TypeOK'
  <2>1. checkpoint' \in 0..Len(prices) BY <1>4, <1>5
  <2>2. dropped' \subseteq Seqs 
    <3>1. checkpoint + 1..seq \subseteq 1..MaxRows BY <1>4, Sizes
    <3>2. dropped \subseteq Seqs BY DEF TypeOK
    <3> QED BY <1>1, <3>1, <3>2 DEF Seqs
  <2> QED BY <1>2, <1>3, <2>1, <2>2 DEF TypeOK, notifying
<1>7. NothingSkipped' BY <1>1, <1>2, <1>4, <1>5 DEF NothingSkipped
<1>8. dropped \subseteq dropped' BY <1>1
<1>9. TailFits' /\ InTurn' /\ KeysFit' /\ NotifiedIsOwn'
  BY <1>2, <1>3, <1>8, TailStands, TurnStands, KeysStand, OwnStands DEF notifying
<1> QED BY <1>6, <1>7, <1>9

\* A user's subscription changes, and remembers nothing.
LEMMA SubscriptionKept ==
  ASSUME IInv, NEW u \in User, Unsubscribe(u) \/ \E t \in Threshold : Subscribe(u, t)
  PROVE  IInv'
<1> USE DEF IInv
<1>1. /\ UNCHANGED <<prices, checkpoint, tail, seeding, published, events, event, last, outbox, jobs, stream,
                     sender, dropped, lost>>
      /\ outside' = outside + 1 /\ outside < MaxEvents
  BY DEF Subscribe, Unsubscribe, External, tailing
<1>2. /\ ids' \in [User -> 0..MaxIds] /\ subs' \in [User -> Row \cup {None}]
      /\ \A v \in User : subs'[v] # None => subs'[v].id = ids'[v]
      /\ subs'[u] # None => subs'[u].notified = None
      /\ \A v \in User \ {u} : subs'[v] = subs[v]
  <2>1. ASSUME NEW t \in Threshold, Subscribe(u, t) PROVE <1>2!:
    <3>1. ids' \in [User -> 0..MaxIds] /\ ids'[u] \in 1..MaxIds /\ \A v \in User \ {u} : ids'[v] = ids[v]
      <4>1. CASE subs[u] = None
        <5>1. ids \in [User -> 0..MaxIds] /\ ids[u] \in Nat BY Sizes DEF TypeOK
        <5>2. ids[u] < MaxIds /\ ids' = [ids EXCEPT ![u] = @ + 1] BY <2>1, <4>1 DEF Subscribe
        <5> QED BY <5>1, <5>2, Sizes
      <4>2. CASE subs[u] # None
        <5>1. subs[u] \in Row /\ subs[u].id = ids[u] BY <4>2 DEF TypeOK
        <5> QED BY <2>1, <4>2, <5>1 DEF Subscribe, TypeOK, Row
      <4> QED BY <4>1, <4>2
    <3> DEFINE r == [id |-> ids'[u], threshold |-> t, notified |-> None]
    <3>2. r \in Row BY <3>1 DEF Row
    <3>3. subs' = [subs EXCEPT ![u] = r] BY <2>1 DEF Subscribe
    <3>4. subs'[u] = r /\ (\A v \in User \ {u} : subs'[v] = subs[v]) /\ subs' \in [User -> Row \cup {None}]
      BY <3>2, <3>3 DEF TypeOK
    <3>5. r.id = ids'[u] /\ r.notified = None OBVIOUS
    <3> HIDE DEF r
    <3> QED BY <3>1, <3>4, <3>5 DEF TypeOK
  <2>2. CASE Unsubscribe(u)
    BY <2>2 DEF Unsubscribe, TypeOK
  <2> QED BY <2>1, <2>2
<1>3. Grown /\ prices' \in Seq([price : Price, seed : BOOLEAN]) /\ Len(prices) \in Nat
  BY <1>1, SameTable
<1>4. TypeOK'
  <2>1. outside' \in 0..MaxEvents BY <1>1, Sizes DEF TypeOK
  <2> QED BY <1>1, <1>2, <2>1 DEF TypeOK
<1>5. NothingSkipped' /\ TailFits' /\ InTurn' /\ KeysFit'
  BY <1>1, <1>3, TailStands, TurnStands, KeysStand DEF NothingSkipped
<1>6. NotifiedIsOwn' BY <1>1, <1>2 DEF NotifiedIsOwn, PriceOf, KeyOf
<1> QED BY <1>4, <1>5, <1>6

-----------------------------------------------------------------------------
(* The tailer.                                                             *)

\* A step that reads, rests or saves publishes nothing.
LEMMA PollKept ==
  ASSUME IInv, ReadCheckpoint \/ ReadAfter \/ SaveCheckpoint \/ PublishFails
  PROVE  IInv'
<1> USE DEF IInv
<1>1. /\ UNCHANGED <<prices, seeding, published, events, event, last, subs, ids, outbox, jobs, stream, sender,
                     dropped, lost>>
      /\ outside' \in {outside, outside + 1} /\ (outside' # outside => outside < MaxEvents)
  BY DEF ReadCheckpoint, ReadAfter, SaveCheckpoint, PublishFails, notifying, External
<1>2. Grown /\ prices' \in Seq([price : Price, seed : BOOLEAN]) /\ Len(prices) \in Nat
  BY <1>1, SameTable
<1>3. /\ checkpoint \in 0..Len(prices) /\ Len(prices) <= MaxRows /\ MaxRows \in Nat
      /\ tail \in [pc : {"rest", "read", "publish"}, from : 0..MaxRows, to : 0..MaxRows]
  BY Sizes DEF TypeOK
<1>4. /\ tail' \in [pc : {"rest", "read", "publish"}, from : 0..MaxRows, to : 0..MaxRows]
      /\ checkpoint' \in 0..Len(prices) /\ TailFits' /\ NothingSkipped'
  <2>1. CASE ReadCheckpoint
    BY <2>1, <1>1, <1>2, <1>3 DEF ReadCheckpoint, TailFits, NothingSkipped
  <2>2. CASE ReadAfter
    <3>1. tail.pc = "read" /\ tail.from \in Nat /\ tail.from <= Len(prices) /\ UNCHANGED checkpoint
      BY <2>2, <1>3 DEF ReadAfter, TailFits
    <3>2. NothingSkipped' BY <3>1, <1>1 DEF NothingSkipped
    <3>3. CASE Len(prices) <= tail.from
      <4>1. tail' = Resting BY <2>2, <3>3 DEF ReadAfter
      <4> QED BY <4>1, <3>1, <3>2, <1>3 DEF Resting, TailFits
    <3>4. CASE ~ (Len(prices) <= tail.from)
      <4> DEFINE to == Min({tail.from + CDC_BATCH, Len(prices)})
      <4>1. tail' = [tail EXCEPT !.pc = "publish", !.to = to] BY <2>2, <3>4 DEF ReadAfter
      <4>2. to = (IF tail.from + CDC_BATCH <= Len(prices) THEN tail.from + CDC_BATCH ELSE Len(prices))
        BY <3>1, <1>2, Sizes, MinOfTwo
      <4>3. to \in 0..MaxRows /\ tail.from <= to /\ to <= Len(prices)
        BY <4>2, <3>1, <3>4, <1>2, <1>3, Sizes
      <4> HIDE DEF to
      <4>4. tail'.pc = "publish" /\ tail'.from = tail.from /\ tail'.to = to BY <4>1, <1>3
      <4>5. tail' \in [pc : {"rest", "read", "publish"}, from : 0..MaxRows, to : 0..MaxRows]
        BY <4>1, <4>3, <1>3
      <4> QED BY <4>3, <4>4, <4>5, <3>1, <3>2, <1>1, <1>3 DEF TailFits
    <3> QED BY <3>3, <3>4
  <2>3. CASE SaveCheckpoint
    <3>1. tail.pc = "publish" /\ tail.from = tail.to /\ checkpoint' = tail.to /\ tail' = Resting
      BY <2>3 DEF SaveCheckpoint
    <3>2. checkpoint' \in 0..Len(prices) BY <3>1, <1>2, <1>3 DEF TailFits
    <3> QED BY <3>1, <3>2, <1>1, <1>3 DEF TailFits, NothingSkipped, Resting
  <2>4. CASE PublishFails
    BY <2>4, <1>1, <1>3 DEF PublishFails, TailFits, NothingSkipped, Resting
  <2> QED BY <2>1, <2>2, <2>3, <2>4
<1>5. outside' \in 0..MaxEvents BY <1>1, Sizes DEF TypeOK
<1>6. TypeOK' BY <1>1, <1>2, <1>4, <1>5 DEF TypeOK
<1>7. InTurn' /\ KeysFit' /\ NotifiedIsOwn' BY <1>1, <1>2, TurnStands, KeysStand, OwnStands
<1> QED BY <1>4, <1>6, <1>7

LEMMA PublishKept ==
  ASSUME IInv, PublishEvent
  PROVE  IInv'
<1> USE DEF IInv
<1> DEFINE e == tail.from + 1
<1>1. /\ tail.pc = "publish" /\ tail.from < tail.to /\ events' = enqueue(events, e)
      /\ tail' = [tail EXCEPT !.from = e] /\ published' = published \cup {e}
      /\ UNCHANGED <<prices, checkpoint, seeding, event, last, subs, ids, outbox, jobs, stream, sender,
                     dropped, lost, outside>>
  BY DEF PublishEvent, notifying
<1>2. Grown /\ prices' \in Seq([price : Price, seed : BOOLEAN]) /\ Len(prices) \in Nat
  BY <1>1, SameTable
<1>3. /\ Len(prices) <= MaxRows /\ MaxRows \in Nat /\ events \in Seq(Seqs) /\ published \subseteq Seqs
      /\ tail \in [pc : {"rest", "read", "publish"}, from : 0..MaxRows, to : 0..MaxRows]
  BY Sizes DEF TypeOK
<1>4. tail.from \in Nat /\ tail.to \in Nat /\ tail.to <= Len(prices) /\ e \in Seqs /\ e <= Len(prices) /\ e \in 0..MaxRows
  BY <1>1, <1>2, <1>3 DEF TailFits, Seqs
<1>5. 1..tail.from \subseteq published \cup dropped BY <1>1 DEF TailFits
<1> HIDE DEF e
<1>6. /\ events' \in Seq(Seqs) /\ Len(events') = Len(events) + 1 /\ Len(events) \in Nat
      /\ \A i \in 1..Len(events) : events'[i] = events[i]
      /\ events'[Len(events) + 1] = e
  <2>1. events \in Seq(Seqs) /\ e \in Seqs BY <1>3, <1>4
  <2>2. events' = enqueue(events, e) BY <1>1
  <2> HIDE DEF IInv
  <2> QED BY <2>1, <2>2, Queued
<1>7. TypeOK'
  <2>1. tail' \in [pc : {"rest", "read", "publish"}, from : 0..MaxRows, to : 0..MaxRows]
    BY <1>1, <1>3, <1>4
  <2>2. published' \subseteq Seqs BY <1>1, <1>3, <1>4
  <2> QED BY <1>1, <1>2, <1>6, <2>1, <2>2 DEF TypeOK
<1>8. NothingSkipped' BY <1>1 DEF NothingSkipped
<1>9. TailFits'
  <2>1. tail'.pc = "publish" /\ tail'.from = e /\ tail'.to = tail.to BY <1>1, <1>3
  <2>2. 1..e \subseteq published' \cup dropped BY <1>1, <1>4, <1>5 DEF e
  <2>3. e <= tail.to BY <1>1, <1>4 DEF e
  <2> QED BY <2>1, <2>2, <2>3, <1>1, <1>4 DEF TailFits
<1>10. InTurn'
  <2>1. \A x : Settled(x)' <=> Settled(x) BY <1>1 DEF Settled
  <2>2. \A i \in 1..Len(events') : events'[i] <= Len(prices')
    BY <1>1, <1>4, <1>6 DEF InTurn
  <2>3. ASSUME NEW x \in published' PROVE Settled(x)' \/ \E j \in 1..Len(events') : events'[j] = x
    <3>1. CASE x = e BY <3>1, <1>6
    <3>2. CASE x # e
      <4>1. x \in published BY <2>3, <3>2, <1>1
      <4>2. CASE Settled(x) BY <4>2, <2>1
      <4>3. CASE \E j \in 1..Len(events) : events[j] = x BY <4>3, <1>6
      <4> QED BY <4>1, <4>2, <4>3 DEF InTurn
    <3> QED BY <3>1, <3>2
  <2>4. ASSUME NEW i \in 1..Len(events'), NEW x \in 1..events'[i] - 1
        PROVE  Settled(x)' \/ \E j \in 1..i - 1 : events'[j] = x
    <3>1. CASE i \in 1..Len(events)
      <4>1. x \in 1..events[i] - 1 BY <2>4, <3>1, <1>6
      <4>2. Settled(x) \/ \E j \in 1..i - 1 : events[j] = x BY <3>1, <4>1 DEF InTurn
      <4> QED BY <4>2, <3>1, <1>6, <2>1
    <3>2. CASE i = Len(events) + 1
      <4>1. x \in 1..tail.from BY <2>4, <3>2, <1>6, <1>4 DEF e
      <4>2. CASE x \in dropped BY <4>2, <2>1 DEF Settled
      <4>3. CASE x \in published
        <5>1. Settled(x) \/ \E j \in 1..Len(events) : events[j] = x BY <4>3 DEF InTurn
        <5> QED BY <5>1, <3>2, <1>6, <2>1
      <4> QED BY <4>1, <4>2, <4>3, <1>5
    <3> QED BY <3>1, <3>2, <1>6
  <2>5. \A x \in 1..event' - 1 : Settled(x)' BY <2>1, <1>1 DEF InTurn
  <2> QED BY <2>2, <2>3, <2>4, <2>5 DEF InTurn
<1>11. KeysFit' /\ NotifiedIsOwn' BY <1>1, <1>2, KeysStand, OwnStands
<1> QED BY <1>7, <1>8, <1>9, <1>10, <1>11

-----------------------------------------------------------------------------
(* The worker.                                                             *)

LEMMA TakeEventKept ==
  ASSUME IInv, TakeEvent
  PROVE  IInv'
<1> USE DEF IInv
<1>1. /\ event = 0 /\ events # <<>> /\ event' = Head(events) /\ events' = dequeue(events)
      /\ UNCHANGED <<prices, checkpoint, tail, seeding, published, last, subs, ids, outbox, jobs, stream, sender,
                     dropped, lost, outside>>
  BY DEF TakeEvent, tailing
<1>2. Grown /\ prices' \in Seq([price : Price, seed : BOOLEAN]) /\ Len(prices) \in Nat
  BY <1>1, SameTable
<1>3. events \in Seq(Seqs) BY DEF TypeOK
<1>4. /\ events' \in Seq(Seqs) /\ Len(events') = Len(events) - 1 /\ Len(events) \in Nat \ {0}
      /\ \A i \in 1..Len(events') : events'[i] = events[i + 1]
      /\ event' = events[1] /\ events[1] \in Seqs
  BY <1>1, <1>3, Dequeued
<1>5. event' \in 0..Len(prices) /\ event' # 0 BY <1>4, <1>2, Sizes DEF InTurn, Seqs
<1>6. TypeOK' BY <1>1, <1>2, <1>4, <1>5 DEF TypeOK
<1>7. NothingSkipped' BY <1>1 DEF NothingSkipped
<1>8. TailFits' /\ KeysFit' /\ NotifiedIsOwn' BY <1>1, <1>2, TailStands, KeysStand, OwnStands
<1>9. InTurn'
  <2>1. \A x \in Nat \ {0} : Settled(x) => Settled(x)' BY <1>1 DEF Settled
  <2>2. \A x : x = events[1] => Settled(x)' BY <1>4 DEF Settled
  <2>3. published \subseteq Nat \ {0} BY Sizes DEF TypeOK, Seqs
  <2>4. \A i \in 1..Len(events) : events[i] \in Nat BY <1>3, ElementOfSeq, Sizes DEF Seqs
  <2>5. \A i \in 1..Len(events') : events'[i] <= Len(prices') BY <1>1, <1>4 DEF InTurn
  <2>6. ASSUME NEW x \in published' PROVE Settled(x)' \/ \E j \in 1..Len(events') : events'[j] = x
    <3>1. Settled(x) \/ \E j \in 1..Len(events) : events[j] = x BY <2>6, <1>1 DEF InTurn
    <3>2. CASE Settled(x) BY <3>2, <2>1, <2>3, <2>6, <1>1
    <3>3. ASSUME NEW j \in 1..Len(events), events[j] = x PROVE Settled(x)' \/ \E i \in 1..Len(events') : events'[i] = x
      <4>1. CASE j = 1 BY <4>1, <3>3, <2>2
      <4>2. CASE j # 1
        <5>1. j - 1 \in 1..Len(events') /\ events'[j - 1] = x BY <4>2, <3>3, <1>4
        <5> QED BY <5>1
      <4> QED BY <4>1, <4>2
    <3> QED BY <3>1, <3>2, <3>3
  <2>7. ASSUME NEW i \in 1..Len(events'), NEW x \in 1..events'[i] - 1
        PROVE  Settled(x)' \/ \E j \in 1..i - 1 : events'[j] = x
    <3>1. i + 1 \in 1..Len(events) /\ events'[i] = events[i + 1] BY <1>4
    <3>2. x \in 1..events[i + 1] - 1 /\ x \in Nat \ {0} BY <3>1, <2>4
    <3>3. Settled(x) \/ \E j \in 1..(i + 1) - 1 : events[j] = x BY <3>1, <3>2 DEF InTurn
    <3>4. ASSUME NEW j \in 1..i, events[j] = x PROVE Settled(x)' \/ \E k \in 1..i - 1 : events'[k] = x
      <4>1. CASE j = 1 BY <4>1, <3>4, <2>2
      <4>2. CASE j # 1
        <5>1. j - 1 \in 1..i - 1 /\ events'[j - 1] = x BY <4>2, <3>4, <3>1, <1>4
        <5> QED BY <5>1
      <4> QED BY <4>1, <4>2
    <3> QED BY <3>2, <3>3, <3>4, <2>1
  <2>8. ASSUME NEW x \in 1..event' - 1 PROVE Settled(x)'
    <3>1. x \in 1..events[1] - 1 /\ x \in Nat \ {0} /\ 1 \in 1..Len(events) BY <1>4, <1>5, <2>4
    <3>2. Settled(x) \/ \E j \in 1..1 - 1 : events[j] = x BY <3>1 DEF InTurn
    <3> QED BY <3>1, <3>2, <2>1
  <2> QED BY <2>5, <2>6, <2>7, <2>8 DEF InTurn
<1> QED BY <1>6, <1>7, <1>8, <1>9

\* The statuses that the worker may change: none that a sender has set but FAILED.
LEMMA HandleEventOutbox ==
  ASSUME IInv, HandleEvent
  PROVE  /\ outbox' \in [Key -> Status]
         /\ \A k \in Key : outbox[k] \in {"ATTEMPTED", "VENDOR_ACCEPTED"} => outbox'[k] = outbox[k]
         /\ jobs' \subseteq Key
         /\ \A k \in jobs' : k \in jobs \/ k[2] = event
         /\ subs' \in [User -> Row \cup {None}]
         /\ \A u \in User : subs'[u] # None => /\ subs[u] # None /\ subs'[u].id = subs[u].id
                                               /\ subs'[u].notified \in {None, subs[u].notified}
         /\ last' = IF event > last THEN event ELSE last
<1> USE DEF IInv
<1>1. /\ event \in Nat /\ last \in Nat /\ event # 0 /\ outbox \in [Key -> Status] /\ jobs \subseteq Key
      /\ subs \in [User -> Row \cup {None}]
  BY LenProperties DEF TypeOK, HandleEvent
<1>2. CASE Replayed(event) BY <1>1, <1>2 DEF HandleEvent, Replayed
<1>3. CASE ~ Replayed(event) /\ Filtered(event) BY <1>1, <1>3 DEF HandleEvent, Replayed
<1>4. CASE ~ Replayed(event) /\ ~ Filtered(event)
  <2> DEFINE told == {k \in Keys(event, FALSE) : outbox[k] \in {"none", "FAILED"}}
             left(u) == IF subs[u] # None /\ subs[u].threshold < PriceOf(event)
                        THEN [subs[u] EXCEPT !.notified = None] ELSE subs[u]
  <2>1. /\ outbox' = [k \in Key |-> IF k \in told THEN "ENQUEUED"
                                    ELSE IF k \in Keys(event, TRUE) /\ outbox[k] = "none" THEN "SKIPPED_COOLDOWN"
                                    ELSE outbox[k]]
        /\ jobs' = told /\ subs' = [u \in User |-> left(u)] /\ last' = event
    BY <1>4 DEF HandleEvent
  <2>2. told \subseteq Key /\ \A k \in told : k[2] = event
    <3>1. ASSUME NEW u \in Matching(event) PROVE KeyOf(u, event) \in Key /\ KeyOf(u, event)[2] = event
      <4>1. u \in User /\ subs[u] \in Row BY <1>1 DEF Matching
      <4>2. event \in Seqs BY <1>1, LenProperties, Sizes DEF TypeOK, Seqs
      <4> QED BY <4>1, <4>2 DEF KeyOf, Key, Subscription, Row
    <3> QED BY <3>1 DEF Keys
  <2>3. outbox' \in [Key -> Status] BY <2>1, <1>1 DEF Status
  <2>4. \A k \in Key : outbox[k] \in {"ATTEMPTED", "VENDOR_ACCEPTED"} => outbox'[k] = outbox[k] BY <2>1
  <2>5. ASSUME NEW u \in User
        PROVE  /\ left(u) \in Row \cup {None}
               /\ left(u) # None => /\ subs[u] # None /\ left(u).id = subs[u].id
                                    /\ left(u).notified \in {None, subs[u].notified}
    <3>1. CASE subs[u] = None BY <3>1
    <3>2. CASE subs[u] # None BY <3>2, <1>1 DEF Row
    <3> QED BY <3>1, <3>2
  <2> HIDE DEF left, told
  <2>6. /\ subs' \in [User -> Row \cup {None}]
        /\ \A u \in User : subs'[u] # None => /\ subs[u] # None /\ subs'[u].id = subs[u].id
                                              /\ subs'[u].notified \in {None, subs[u].notified}
    BY <2>1, <2>5, ZenonT(30)
  <2>7. last' = IF event > last THEN event ELSE last BY <2>1, <1>1, <1>4 DEF Replayed
  <2>8. jobs' \subseteq Key /\ \A k \in jobs' : k[2] = event BY <2>1, <2>2
  <2> QED BY <2>3, <2>4, <2>6, <2>7, <2>8
<1> QED BY <1>2, <1>3, <1>4

LEMMA HandleEventKept ==
  ASSUME IInv, HandleEvent
  PROVE  IInv' /\ (last' # last => last' > last /\ last + 1..last' - 1 \subseteq dropped)
<1> USE DEF IInv
<1>1. /\ event # 0 /\ event' = 0
      /\ UNCHANGED <<prices, checkpoint, tail, seeding, published, events, ids, stream, sender, dropped, lost, outside>>
  BY DEF HandleEvent, tailing
<1>2. Grown /\ prices' \in Seq([price : Price, seed : BOOLEAN]) /\ Len(prices) \in Nat
  BY <1>1, SameTable
<1>3. /\ event \in 0..Len(prices) /\ last \in 0..Len(prices) /\ sender.key \in Key \cup {None}
      /\ \A u \in User : subs[u] # None => subs[u].id = ids[u]
  BY DEF TypeOK
<1>4. TypeOK'
  <2>1. last' \in 0..Len(prices) BY <1>2, <1>3, HandleEventOutbox
  <2>2. sender'.pc \in {"attempted", "sent", "failed"} => outbox'[sender'.key] = "ATTEMPTED"
    BY <1>1, <1>3, HandleEventOutbox DEF TypeOK, KeysFit
  <2>3. \A u \in User : subs'[u] # None => subs'[u].id = ids'[u] BY <1>1, <1>3, HandleEventOutbox
  <2> QED BY <1>1, <1>2, <2>1, <2>2, <2>3, HandleEventOutbox DEF TypeOK
<1>5. NothingSkipped' BY <1>1 DEF NothingSkipped
<1>6. TailFits' BY <1>1, <1>2, TailStands
<1>7. InTurn'
  <2>1. \A x \in Nat \ {0} : Settled(x) => Settled(x)' BY <1>1, <1>2, <1>3, HandleEventOutbox DEF Settled
  <2>2. published \subseteq Nat \ {0} BY Sizes DEF TypeOK, Seqs
  <2>3. \A i \in 1..Len(events) : events[i] \in Nat BY ElementOfSeq, Sizes DEF TypeOK, Seqs
  <2>4. \A x \in 1..event' - 1 : Settled(x)' BY <1>1
  <2> QED BY <1>1, <2>1, <2>2, <2>3, <2>4 DEF InTurn
<1>8. KeysFit'
  <2>1. \A k \in jobs' : k[2] <= Len(prices') BY <1>1, <1>2, <1>3, HandleEventOutbox DEF KeysFit
  <2> QED BY <2>1, <1>1 DEF KeysFit
<1>9. NotifiedIsOwn'
  <2>1. ASSUME NEW u \in User, subs'[u] # None, subs'[u].notified # None
        PROVE  \E i \in 1..Len(prices') : prices'[i].price = subs'[u].notified
                                         /\ outbox'[<<<<u, subs'[u].id>>, i>>] = "VENDOR_ACCEPTED"
    <3>1. subs[u] # None /\ subs'[u].id = subs[u].id /\ subs[u].notified = subs'[u].notified
      BY <2>1, HandleEventOutbox
    <3>2. PICK i \in 1..Len(prices) : prices[i].price = subs[u].notified
                                     /\ outbox[<<<<u, subs[u].id>>, i>>] = "VENDOR_ACCEPTED"
      BY <3>1, <2>1 DEF NotifiedIsOwn, PriceOf, KeyOf
    <3>3. <<<<u, subs[u].id>>, i>> \in Key
      <4>1. subs[u] \in Row BY <3>1 DEF TypeOK
      <4>2. i \in Seqs BY <1>2, Sizes DEF TypeOK, Seqs
      <4> QED BY <4>1, <4>2 DEF Row, Key, Subscription
    <3> QED BY <3>1, <3>2, <3>3, <1>1, HandleEventOutbox
  <2> QED BY <2>1 DEF NotifiedIsOwn, PriceOf, KeyOf
<1>10. last' # last => last' > last /\ last + 1..last' - 1 \subseteq dropped
  <2> SUFFICES ASSUME last' # last, NEW x \in last + 1..last' - 1
               PROVE  last' > last /\ x \in dropped
    BY HandleEventOutbox, <1>2, <1>3
  <2>1. last' = event /\ event > last BY HandleEventOutbox
  <2>2. Settled(x) BY <2>1, <1>2, <1>3 DEF InTurn
  <2> QED BY <2>1, <2>2, <1>2, <1>3 DEF Settled
<1> QED BY <1>4, <1>5, <1>6, <1>7, <1>8, <1>9, <1>10

\* A job is put on the stream, or the jobs that are left are given up.
LEMMA EnqueueKept ==
  ASSUME IInv, EnqueueJobFails \/ \E k \in Key : EnqueueJob(k)
  PROVE  IInv'
<1> USE DEF IInv
<1>1. /\ UNCHANGED <<prices, checkpoint, tail, seeding, published, events, event, last, subs, ids, outbox, sender, dropped>>
      /\ outside' \in {outside, outside + 1} /\ (outside' # outside => outside < MaxEvents)
      /\ jobs' \subseteq jobs /\ lost' \subseteq lost \cup jobs
      /\ stream' = stream \/ \E k \in jobs : stream' = enqueue(stream, k)
  BY DEF EnqueueJob, EnqueueJobFails, tailing, External
<1>2. Grown /\ prices' \in Seq([price : Price, seed : BOOLEAN]) /\ Len(prices) \in Nat
  BY <1>1, SameTable
<1>3. stream \in Seq(Key) /\ jobs \subseteq Key BY DEF TypeOK
<1>4. stream' \in Seq(Key) /\ \A i \in 1..Len(stream') : stream'[i][2] <= Len(prices)
  <2>1. CASE stream' = stream BY <2>1, <1>3 DEF KeysFit
  <2>2. ASSUME NEW k \in jobs, stream' = enqueue(stream, k) PROVE <1>4!:
    <3>1. /\ stream' \in Seq(Key) /\ Len(stream') = Len(stream) + 1 /\ Len(stream) \in Nat
          /\ \A i \in 1..Len(stream) : stream'[i] = stream[i]
          /\ stream'[Len(stream) + 1] = k
      <4>1. k \in Key /\ stream \in Seq(Key) BY <1>3
      <4>2. /\ enqueue(stream, k) \in Seq(Key) /\ Len(enqueue(stream, k)) = Len(stream) + 1 /\ Len(stream) \in Nat
            /\ \A i \in 1..Len(stream) : enqueue(stream, k)[i] = stream[i]
            /\ enqueue(stream, k)[Len(stream) + 1] = k
        BY ONLY <4>1, Queued
      <4> QED BY <4>2, <2>2
    <3>2. k[2] <= Len(prices) BY <2>2 DEF KeysFit
    <3>3. ASSUME NEW i \in 1..Len(stream') PROVE stream'[i][2] <= Len(prices)
      <4>1. CASE i \in 1..Len(stream) BY <4>1, <3>1 DEF KeysFit
      <4>2. CASE i = Len(stream) + 1 BY <4>2, <3>1, <3>2
      <4> QED BY <4>1, <4>2, <3>1, <3>3
    <3> QED BY <3>1, <3>3
  <2> QED BY <1>1, <2>1, <2>2
<1>5. TypeOK'
  <2>1. outside' \in 0..MaxEvents BY <1>1, Sizes DEF TypeOK
  <2> QED BY <1>1, <1>2, <1>4, <2>1 DEF TypeOK
<1>6. KeysFit' BY <1>1, <1>4 DEF KeysFit
<1>7. NothingSkipped' /\ TailFits' /\ InTurn' /\ NotifiedIsOwn'
  BY <1>1, <1>2, TailStands, TurnStands, OwnStands DEF NothingSkipped
<1> QED BY <1>5, <1>6, <1>7

-----------------------------------------------------------------------------
(* The sender.                                                             *)

\* The sender takes a notification.
LEMMA TakeJobKept ==
  ASSUME IInv, TakeJob
  PROVE  IInv'
<1> USE DEF IInv
<1>1. /\ sender.pc = "idle" /\ stream # <<>> /\ sender' = [pc |-> "job", key |-> Head(stream)]
      /\ stream' = dequeue(stream)
      /\ UNCHANGED <<prices, checkpoint, tail, seeding, published, events, event, last, subs, ids, outbox, jobs,
                     dropped, lost, outside>>
  BY DEF TakeJob, tailing
<1>2. Grown /\ prices' \in Seq([price : Price, seed : BOOLEAN]) /\ Len(prices) \in Nat
  BY <1>1, SameTable
<1>3. stream \in Seq(Key) BY DEF TypeOK
<1>4. /\ stream' \in Seq(Key) /\ Len(stream') = Len(stream) - 1 /\ Len(stream) \in Nat \ {0}
      /\ \A i \in 1..Len(stream') : stream'[i] = stream[i + 1]
      /\ Head(stream) = stream[1] /\ stream[1] \in Key
  BY <1>1, <1>3, Dequeued
<1>5. TypeOK' BY <1>1, <1>2, <1>4 DEF TypeOK
<1>6. KeysFit'
  <2>1. \A i \in 1..Len(stream') : stream'[i][2] <= Len(prices') BY <1>1, <1>4 DEF KeysFit
  <2>2. stream[1][2] <= Len(prices') BY <1>1, <1>4 DEF KeysFit
  <2> QED BY <2>1, <2>2, <1>1, <1>4 DEF KeysFit
<1>7. NothingSkipped' /\ TailFits' /\ InTurn' /\ NotifiedIsOwn'
  BY <1>1, <1>2, TailStands, TurnStands, OwnStands DEF NothingSkipped
<1> QED BY <1>5, <1>6, <1>7

\* The sender goes on with its notification k and may set its status.
LEMMA SenderKept ==
  ASSUME IInv, Attempt \/ Send \/ SendFails \/ RecordDelivery
  PROVE  IInv'
<1> USE DEF IInv
<1> DEFINE k == sender.key
           u == k[1][1]
<1>1. /\ UNCHANGED <<prices, checkpoint, tail, seeding, published, events, event, last, ids, jobs, stream,
                     dropped, lost>>
      /\ outside' \in {outside, outside + 1} /\ (outside' # outside => outside < MaxEvents)
      /\ sender.pc # "idle"
  BY DEF Attempt, Send, SendFails, Sends, RecordDelivery, tailing, External
<1>2. Grown /\ prices' \in Seq([price : Price, seed : BOOLEAN]) /\ Len(prices) \in Nat
  BY <1>1, SameTable
<1>3. /\ sender \in [pc : {"idle", "job", "attempted", "sent", "failed"}, key : Key \cup {None}]
      /\ outbox \in [Key -> Status] /\ subs \in [User -> Row \cup {None}]
      /\ prices \in Seq([price : Price, seed : BOOLEAN])
  BY DEF TypeOK
<1>4. k \in Key /\ k[2] <= Len(prices) /\ k[2] \in 1..Len(prices) /\ u \in User
  BY <1>1, <1>2, Sizes DEF KeysFit, Key, Subscription, Seqs
<1>5. /\ sender' \in [pc : {"idle", "job", "attempted", "sent", "failed"}, key : Key \cup {None}]
      /\ sender'.pc # "idle" => sender'.key = k
      /\ outbox' \in [Key -> Status]
      /\ \A q \in Key : outbox[q] = "VENDOR_ACCEPTED" => outbox'[q] = "VENDOR_ACCEPTED"
      /\ sender'.pc \in {"attempted", "sent", "failed"} => outbox'[sender'.key] = "ATTEMPTED"
      /\ \A v \in User \ {u} : subs'[v] = subs[v]
      /\ \/ subs' = subs
         \/ /\ subs[u] # None /\ subs[u] \in Row /\ subs[u].id = k[1][2]
            /\ subs' = [subs EXCEPT ![u].notified = PriceOf(k[2])]
            /\ outbox'[k] = "VENDOR_ACCEPTED"
  <2>1. CASE Attempt
    BY <2>1, <1>3, <1>4 DEF Attempt, NoJob, Status, TERMINAL
  <2>2. CASE Send \/ SendFails
    BY <2>2, <1>3, <1>4 DEF Send, SendFails, Sends, TypeOK
  <2>3. CASE RecordDelivery
    <3>1. /\ sender.pc \in {"sent", "failed"} /\ sender' = NoJob
          /\ outbox' = [outbox EXCEPT ![k] = IF sender.pc = "sent" THEN "VENDOR_ACCEPTED" ELSE "FAILED"]
          /\ subs' = IF sender.pc = "sent" /\ Notified(u, k[1][2])
                     THEN [subs EXCEPT ![u].notified = PriceOf(k[2])] ELSE subs
      BY <2>3 DEF RecordDelivery
    <3>2. outbox[k] = "ATTEMPTED" BY <3>1 DEF TypeOK
    <3>3. /\ outbox' \in [Key -> Status]
          /\ \A q \in Key : outbox[q] = "VENDOR_ACCEPTED" => outbox'[q] = "VENDOR_ACCEPTED"
          /\ sender.pc = "sent" => outbox'[k] = "VENDOR_ACCEPTED"
      BY <3>1, <3>2, <1>3, <1>4 DEF Status, TERMINAL
    <3>4. /\ \A v \in User \ {u} : subs'[v] = subs[v]
          /\ \/ subs' = subs
             \/ /\ subs[u] # None /\ subs[u] \in Row /\ subs[u].id = k[1][2]
                /\ subs' = [subs EXCEPT ![u].notified = PriceOf(k[2])]
                /\ sender.pc = "sent"
      <4>1. CASE sender.pc = "sent" /\ Notified(u, k[1][2])
        BY <4>1, <3>1, <1>3, <1>4 DEF Notified
      <4>2. CASE ~ (sender.pc = "sent" /\ Notified(u, k[1][2]))
        BY <4>2, <3>1
      <4> QED BY <4>1, <4>2
    <3>5. /\ sender' \in [pc : {"idle", "job", "attempted", "sent", "failed"}, key : Key \cup {None}]
          /\ sender'.pc = "idle"
      BY <3>1 DEF NoJob
    <3> QED BY <3>3, <3>4, <3>5
  <2> QED BY <2>1, <2>2, <2>3
<1> HIDE DEF k, u
<1>6. /\ subs' \in [User -> Row \cup {None}]
      /\ \A v \in User : subs'[v] # None => subs'[v].id = ids'[v]
  <2>1. CASE subs' = subs BY <2>1, <1>1 DEF TypeOK
  <2>2. CASE subs' # subs
    <3>1. subs[u] # None /\ subs[u] \in Row /\ subs' = [subs EXCEPT ![u].notified = PriceOf(k[2])]
      BY <2>2, <1>5
    <3>2. PriceOf(k[2]) \in Price
      <4>1. prices[k[2]] \in [price : Price, seed : BOOLEAN] BY <1>3, <1>4, ElementOfSeq
      <4> QED BY <4>1 DEF PriceOf
    <3>3. subs[u].id = ids[u] BY <1>4, <3>1 DEF TypeOK
    <3>4. subs'[u] = [subs[u] EXCEPT !.notified = PriceOf(k[2])] BY <3>1, <1>3, <1>4
    <3>5. subs'[u] \in Row /\ subs'[u].id = ids[u] BY <3>1, <3>2, <3>3, <3>4 DEF Row
    <3>6. subs' \in [User -> Row \cup {None}] BY <3>1, <3>4, <3>5, <1>3, <1>4
    <3> QED BY <3>5, <3>6, <1>1, <1>5 DEF TypeOK
  <2> QED BY <2>1, <2>2
<1>7. TypeOK'
  <2>1. outside' \in 0..MaxEvents BY <1>1, Sizes DEF TypeOK
  <2> QED BY <1>1, <1>2, <1>5, <1>6, <2>1 DEF TypeOK
<1>8. KeysFit' BY <1>1, <1>4, <1>5 DEF KeysFit
<1>9. NotifiedIsOwn'
  <2>1. ASSUME NEW v \in User, subs'[v] # None, subs'[v].notified # None
        PROVE  \E i \in 1..Len(prices) : prices[i].price = subs'[v].notified
                                        /\ outbox'[<<<<v, subs'[v].id>>, i>>] = "VENDOR_ACCEPTED"
    <3>1. CASE subs'[v] = subs[v]
      <4>1. PICK i \in 1..Len(prices) : prices[i].price = subs[v].notified
                                       /\ outbox[<<<<v, subs[v].id>>, i>>] = "VENDOR_ACCEPTED"
        BY <2>1, <3>1 DEF NotifiedIsOwn, PriceOf, KeyOf
      <4>2. <<<<v, subs[v].id>>, i>> \in Key
        <5>1. subs[v] \in Row BY <2>1, <3>1, <1>3
        <5>2. i \in Seqs BY <1>2, Sizes DEF TypeOK, Seqs
        <5> QED BY <5>1, <5>2 DEF Row, Key, Subscription
      <4> QED BY <4>1, <4>2, <3>1, <1>5
    <3>2. CASE subs'[v] # subs[v]
      <4>1. v = u BY <3>2, <1>5
      <4>2. /\ subs[u] \in Row /\ subs[u].id = k[1][2]
            /\ subs' = [subs EXCEPT ![u].notified = PriceOf(k[2])]
            /\ outbox'[k] = "VENDOR_ACCEPTED"
        BY <3>2, <1>5
      <4>3. subs'[u].notified = PriceOf(k[2]) /\ subs'[u].id = k[1][2] BY <4>2, <1>3, <1>4 DEF Row
      <4>4. k = <<<<u, k[1][2]>>, k[2]>> BY <1>4 DEF Key, Subscription, u
      <4> QED BY <4>1, <4>2, <4>3, <4>4, <1>4 DEF PriceOf
    <3> QED BY <3>1, <3>2
  <2> QED BY <2>1, <1>1 DEF NotifiedIsOwn, PriceOf, KeyOf
<1>10. NothingSkipped' /\ TailFits' /\ InTurn'
  BY <1>1, <1>2, TailStands, TurnStands DEF NothingSkipped
<1> QED BY <1>7, <1>8, <1>9, <1>10

-----------------------------------------------------------------------------
(* The process dies.                                                       *)

LEMMA CrashKept ==
  ASSUME IInv, Crash
  PROVE  IInv'
<1> USE DEF IInv
<1>1. /\ UNCHANGED <<prices, checkpoint, events, last, subs, ids, outbox, stream, published>>
      /\ tail' = Resting /\ event' = 0 /\ jobs' = {} /\ sender' = NoJob /\ seeding' = 0
      /\ dropped' = dropped \cup ({event} \ {0})
      /\ lost' = lost \cup jobs \cup ({sender.key} \ {None})
      /\ outside' = outside + 1 /\ outside < MaxEvents
  BY DEF Crash, External
<1>2. Grown /\ prices' \in Seq([price : Price, seed : BOOLEAN]) /\ Len(prices) \in Nat
  BY <1>1, SameTable
<1>3. dropped' \subseteq Seqs /\ lost' \subseteq Key
  BY <1>1, <1>2, Sizes DEF TypeOK, Seqs
<1>4. /\ tail' \in [pc : {"rest", "read", "publish"}, from : 0..MaxRows, to : 0..MaxRows]
      /\ sender' \in [pc : {"idle", "job", "attempted", "sent", "failed"}, key : Key \cup {None}]
      /\ sender'.pc = "idle" /\ tail'.pc = "rest"
  BY <1>1, Sizes DEF Resting, NoJob
<1>5. TypeOK'
  <2>1. outside' \in 0..MaxEvents BY <1>1, Sizes DEF TypeOK
  <2> QED BY <1>1, <1>2, <1>3, <1>4, <2>1 DEF TypeOK
<1>6. NothingSkipped' BY <1>1 DEF NothingSkipped
<1>7. TailFits' BY <1>4 DEF TailFits
<1>8. InTurn'
  <2>1. \A x \in Nat \ {0} : Settled(x) => Settled(x)' BY <1>1 DEF Settled
  <2>2. published \subseteq Nat \ {0} BY Sizes DEF TypeOK, Seqs
  <2>3. \A i \in 1..Len(events) : events[i] \in Nat BY ElementOfSeq, Sizes DEF TypeOK, Seqs
  <2> QED BY <1>1, <2>1, <2>2, <2>3 DEF InTurn
<1>9. KeysFit' BY <1>1, <1>4 DEF KeysFit
<1>10. NotifiedIsOwn' BY <1>1, <1>2, OwnStands
<1> QED BY <1>5, <1>6, <1>7, <1>8, <1>9, <1>10

-----------------------------------------------------------------------------
(* The invariant and what follows.                                         *)

LEMMA Initially == Init => IInv
<1> SUFFICES ASSUME Init PROVE IInv OBVIOUS
<1>1. Len(prices) = 0 /\ Len(events) = 0 /\ Len(stream) = 0 BY DEF Init
<1>2. TypeOK
  BY <1>1, Sizes, EmptySeq DEF Init, TypeOK, Resting, NoJob, Status
<1>3. NothingSkipped /\ TailFits /\ NotifiedIsOwn BY DEF Init, NothingSkipped, TailFits, Resting, NotifiedIsOwn
<1>4. InTurn /\ KeysFit BY <1>1 DEF Init, InTurn, KeysFit, NoJob
<1> QED BY <1>2, <1>3, <1>4 DEF IInv

\* Every step keeps the invariant and moves `last` on in order.
LEMMA StepKept ==
  ASSUME IInv, [Next]_vars
  PROVE  IInv' /\ (last' # last => last' > last /\ last + 1..last' - 1 \subseteq dropped)
<1>1. CASE UNCHANGED vars
  <2>1. TypeOK' /\ NothingSkipped' /\ UNCHANGED last BY <1>1 DEF vars, IInv, TypeOK, NothingSkipped
  <2>2. Grown /\ prices' \in Seq([price : Price, seed : BOOLEAN]) BY <1>1, SameTable DEF vars, IInv
  <2>3. TailFits' /\ InTurn' /\ KeysFit' /\ NotifiedIsOwn'
    BY <1>1, <2>2, TailStands, TurnStands, KeysStand, OwnStands DEF vars, IInv
  <2> QED BY <2>1, <2>3 DEF IInv
<1>2. CASE HandleEvent BY <1>2, HandleEventKept
<1>3. CASE \/ Tailer \/ PublishFails \/ AdvanceTo
  <2>1. UNCHANGED last
    BY <1>3 DEF Tailer, ReadCheckpoint, ReadAfter, PublishEvent, SaveCheckpoint, PublishFails, AdvanceTo, notifying
  <2> QED BY <2>1, <1>3, PollKept, PublishKept, AdvanceToKept DEF Tailer
<1>4. CASE TakeEvent \/ EnqueueJobFails \/ \E k \in Key : EnqueueJob(k)
  <2>1. UNCHANGED last BY <1>4 DEF TakeEvent, EnqueueJobFails, EnqueueJob
  <2> QED BY <2>1, <1>4, TakeEventKept, EnqueueKept
<1>5. CASE Sender
  <2>1. UNCHANGED last BY <1>5 DEF Sender, TakeJob, Attempt, Send, SendFails, Sends, RecordDelivery
  <2> QED BY <2>1, <1>5, TakeJobKept, SenderKept DEF Sender
<1>6. CASE Crash
  <2>1. UNCHANGED last BY <1>6 DEF Crash
  <2> QED BY <2>1, <1>6, CrashKept
<1>7. CASE \E p \in Price : AppendPrice(p) \/ SeedHistory(p)
  <2>1. UNCHANGED last BY <1>7 DEF AppendPrice, SeedHistory, notifying
  <2> QED BY <2>1, <1>7, PriceKept
<1>8. CASE \E u \in User : Unsubscribe(u) \/ \E t \in Threshold : Subscribe(u, t)
  <2>1. UNCHANGED last BY <1>8 DEF Unsubscribe, Subscribe
  <2> QED BY <2>1, <1>8, SubscriptionKept
<1> QED BY <1>1, <1>2, <1>3, <1>4, <1>5, <1>6, <1>7, <1>8 DEF Next, Worker

\* Every step of the tailer, the worker, the sender and the requests keeps IInv.
THEOREM Invariant == Spec => []IInv
<1>1. IInv /\ [Next]_vars => IInv' BY StepKept
<1> QED BY Initially, <1>1, PTL DEF Spec

\* Every variable keeps its type; the sender's mark and its step agree.
THEOREM TypeCorrect == Spec => []TypeOK
BY Invariant, PTL DEF IInv

\* SqlSeqTailer.poll_once: no price is passed over without its event, wherever a
\* poll, a backfill or the process is cut short.
THEOREM NoneSkipped == Spec => []NothingSkipped
BY Invariant, PTL DEF IInv

\* handle_price_event and _deliver: what a subscription was last notified of was
\* told by a notification of its own, even if it was deleted and made again.
THEOREM OwnNotified == Spec => []NotifiedIsOwn
BY Invariant, PTL DEF IInv

\* handle_price_event: last_event_seq goes up and leaves out no price that was
\* not dropped, though events are published again after a failure.
THEOREM TakenInOrder == Spec => InOrder
<1>1. IInv /\ [Next]_vars => [last' # last => last' > last /\ last + 1..last' - 1 \subseteq dropped]_vars
  BY StepKept
<1> QED BY Invariant, <1>1, PTL DEF Spec, InOrder

=============================================================================
