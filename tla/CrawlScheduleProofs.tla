------------------------- MODULE CrawlScheduleProofs -------------------------
(***************************************************************************)
(* What CrawlSchedule keeps for any products, weights, intervals, pages    *)
(* and faults: a product has one job on its way unless its mark went       *)
(* early, and a report that waits keeps its product's flag.  And what      *)
(* StreamTail keeps for any shards, batches and faults: nothing is passed  *)
(* over, and the order is kept where a call reads a shard to its end.      *)
(* And what PriceHistory keeps for any prices, months and aggregations:    *)
(* the buckets say what their rows said, and a chart shows its period.     *)
(***************************************************************************)
EXTENDS CrawlSchedule, StreamTail, PriceHistory, FiniteSetTheorems, FunctionTheorems, SequenceTheorems, WellFoundedInduction, TLAPS

\* As long as its mark has not gone early, the mark of a product is there
\* while a job is on its way, and there is one job.
MarkHolds(p) ==
  p \notin unmarked => Underway(p) <= 1 /\ (Underway(p) > 0 => product[p].inflight > 0)

IInv == TypeOK /\ (\A p \in Product : MarkHolds(p)) /\ WaitingIsFlagged

-----------------------------------------------------------------------------
(* Positions of a job in the stream.                                       *)

Count(q, p) == Cardinality({i \in DOMAIN q : q[i] = p})

LEMMA Positions ==
  ASSUME NEW q \in Seq(Product), NEW p
  PROVE  IsFiniteSet({i \in DOMAIN q : q[i] = p}) /\ Count(q, p) \in Nat
<1>1. DOMAIN q = 1..Len(q) /\ Len(q) \in Nat OBVIOUS
<1>2. IsFiniteSet(1..Len(q)) BY <1>1, FS_Interval
<1>3. {i \in DOMAIN q : q[i] = p} \in SUBSET (1..Len(q)) BY <1>1
<1>4. IsFiniteSet({i \in DOMAIN q : q[i] = p}) BY <1>2, <1>3, FS_Subset
<1> QED BY <1>4, FS_CardinalityType DEF Count

LEMMA CountAppend ==
  ASSUME NEW q \in Seq(Product), NEW p \in Product, NEW x \in Product
  PROVE  Count(Append(q, x), p) = Count(q, p) + (IF x = p THEN 1 ELSE 0)
<1> DEFINE at == {i \in DOMAIN q : q[i] = p}
           after == {i \in DOMAIN Append(q, x) : Append(q, x)[i] = p}
<1>1. Len(q) \in Nat /\ DOMAIN q = 1..Len(q) /\ DOMAIN Append(q, x) = 1..Len(q) + 1 OBVIOUS
<1>2. IsFiniteSet(at) /\ Cardinality(at) \in Nat BY Positions DEF Count
<1>3. \A i \in 1..Len(q) : Append(q, x)[i] = q[i] OBVIOUS
<1>4. Append(q, x)[Len(q) + 1] = x OBVIOUS
<1>5. CASE x = p
  <2>1. after = at \cup {Len(q) + 1} BY <1>1, <1>3, <1>4, <1>5
  <2>2. Len(q) + 1 \notin at BY <1>1
  <2>3. Cardinality(at \cup {Len(q) + 1}) = Cardinality(at) + 1 BY <1>2, <2>2, FS_AddElement
  <2> QED BY <1>5, <2>1, <2>3 DEF Count
<1>6. CASE x # p
  <2>1. after = at BY <1>1, <1>3, <1>4, <1>6
  <2>2. Count(Append(q, x), p) = Count(q, p) BY <2>1 DEF Count
  <2>3. Count(q, p) \in Nat BY Positions
  <2> QED BY <1>6, <2>2, <2>3
<1> QED BY <1>5, <1>6

LEMMA CountTail ==
  ASSUME NEW q \in Seq(Product), q # <<>>, NEW p \in Product
  PROVE  Count(q, p) = Count(Tail(q), p) + (IF Head(q) = p THEN 1 ELSE 0)
<1> DEFINE at == {i \in DOMAIN Tail(q) : Tail(q)[i] = p}
           later == {i \in DOMAIN q : q[i] = p} \ {1}
           next == [i \in at |-> i + 1]
<1>1. /\ Tail(q) \in Seq(Product) /\ Len(q) \in Nat \ {0} /\ Len(Tail(q)) = Len(q) - 1
      /\ DOMAIN q = 1..Len(q) /\ DOMAIN Tail(q) = 1..Len(q) - 1
  OBVIOUS
<1>2. (\A i \in 1..Len(q) - 1 : Tail(q)[i] = q[i + 1]) /\ Head(q) = q[1] OBVIOUS
<1>3. IsFiniteSet(at) /\ Cardinality(at) \in Nat BY <1>1, Positions DEF Count
<1>4. ExistsBijection(at, later)
  <2>1. next \in [at -> later] BY <1>1, <1>2
  <2>2. \A i, j \in at : next[i] = next[j] => i = j BY <1>1
  <2>3. \A k \in later : \E i \in at : next[i] = k
    <3> SUFFICES ASSUME NEW k \in later PROVE k - 1 \in at /\ next[k - 1] = k OBVIOUS
    <3> QED BY <1>1, <1>2
  <2>4. next \in Bijection(at, later)
    BY <2>1, <2>2, <2>3 DEF Bijection, Injection, Surjection, IsInjective
  <2> QED BY <2>4 DEF ExistsBijection
<1>5. Cardinality(later) = Cardinality(at) BY <1>3, <1>4, FS_Bijection
<1>6. IsFiniteSet({i \in DOMAIN q : q[i] = p}) /\ Count(q, p) \in Nat BY Positions
<1>7. Cardinality(later) = IF 1 \in {i \in DOMAIN q : q[i] = p} THEN Count(q, p) - 1 ELSE Count(q, p)
  BY <1>6, FS_RemoveElement DEF Count
<1>8. 1 \in {i \in DOMAIN q : q[i] = p} <=> Head(q) = p BY <1>1, <1>2
<1>9. Count(Tail(q), p) = Cardinality(at) BY DEF Count
<1>10. Cardinality(later) = IF Head(q) = p THEN Count(q, p) - 1 ELSE Count(q, p) BY <1>7, <1>8
<1> HIDE DEF at, later
<1> QED BY <1>3, <1>5, <1>6, <1>9, <1>10

-----------------------------------------------------------------------------
(* The jobs of a product.                                                  *)

AtWorker(p) == IF crawl["worker"] # None /\ crawl["worker"].product = p THEN 1 ELSE 0

LEMMA UnderwayIs ==
  ASSUME TypeOK, NEW p \in Product
  PROVE  /\ Underway(p) = adding[<<p, "tick">>] + adding[<<p, "urgent">>] + Count(queue, p) + AtWorker(p)
         /\ {adding[<<p, "tick">>], adding[<<p, "urgent">>], Count(queue, p), AtWorker(p), Underway(p)} \subseteq Nat
<1>1. <<p, "tick">> \in Job /\ <<p, "urgent">> \in Job BY DEF Job
<1>2. adding[<<p, "tick">>] \in Nat /\ adding[<<p, "urgent">>] \in Nat BY <1>1 DEF TypeOK
<1>3. queue \in Seq(Product) BY DEF TypeOK
<1>4. Count(queue, p) \in Nat BY <1>3, Positions
<1>5. AtWorker(p) \in Nat BY DEF AtWorker
<1>6. Underway(p) = adding[<<p, "tick">>] + adding[<<p, "urgent">>] + Count(queue, p) + AtWorker(p)
  BY DEF Underway, Count, AtWorker
<1> QED BY <1>2, <1>4, <1>5, <1>6

LEMMA UnderwayIsNext ==
  ASSUME TypeOK', NEW p \in Product
  PROVE  /\ Underway(p)' = adding'[<<p, "tick">>] + adding'[<<p, "urgent">>] + Count(queue', p) + AtWorker(p)'
         /\ {adding'[<<p, "tick">>], adding'[<<p, "urgent">>], Count(queue', p), AtWorker(p)', Underway(p)'} \subseteq Nat
<1>1. <<p, "tick">> \in Job /\ <<p, "urgent">> \in Job BY DEF Job
<1>2. adding'[<<p, "tick">>] \in Nat /\ adding'[<<p, "urgent">>] \in Nat BY <1>1 DEF TypeOK
<1>3. queue' \in Seq(Product) BY DEF TypeOK
<1>4. Count(queue', p) \in Nat BY <1>3, Positions
<1>5. AtWorker(p)' \in Nat BY DEF AtWorker
<1>6. Underway(p)' = adding'[<<p, "tick">>] + adding'[<<p, "urgent">>] + Count(queue', p) + AtWorker(p)'
  BY DEF Underway, Count, AtWorker
<1> QED BY <1>2, <1>4, <1>5, <1>6

\* A step that touches no job on its way into the stream.
LEMMA UnderwayMoves ==
  ASSUME TypeOK, TypeOK', adding' = adding, NEW p \in Product
  PROVE  /\ {Underway(p), Underway(p)', Count(queue, p), Count(queue', p), AtWorker(p), AtWorker(p)'} \subseteq Nat
         /\ Underway(p)' = Underway(p) + Count(queue', p) - Count(queue, p) + AtWorker(p)' - AtWorker(p)
<1> DEFINE a == adding[<<p, "tick">>]
           b == adding[<<p, "urgent">>]
<1>1. Underway(p) = a + b + Count(queue, p) + AtWorker(p) /\ {a, b, Count(queue, p), AtWorker(p), Underway(p)} \subseteq Nat
  BY UnderwayIs
<1>2. /\ Underway(p)' = a + b + Count(queue', p) + AtWorker(p)'
      /\ {Count(queue', p), AtWorker(p)', Underway(p)'} \subseteq Nat
  BY UnderwayIsNext
<1> HIDE DEF a, b
<1> QED BY <1>1, <1>2

LEMMA UnderwayStands ==
  ASSUME adding' = adding, queue' = queue, crawl'["worker"] = crawl["worker"], NEW p \in Product
  PROVE  Underway(p)' = Underway(p)
BY DEF Underway

\* A step that keeps or lessens a product's jobs and keeps its mark.
LEMMA MarkStands ==
  ASSUME NEW p \in Product, MarkHolds(p), Underway(p) \in Nat, Underway(p)' \in Nat, Underway(p)' <= Underway(p),
         p \in unmarked => p \in unmarked', product[p].inflight > 0 => product'[p].inflight > 0
  PROVE  MarkHolds(p)'
BY DEF MarkHolds

-----------------------------------------------------------------------------
(* The rows of the products.                                               *)

LEMMA OfTwo ==
  ASSUME NEW a \in Int, NEW b \in Int
  PROVE  /\ Max({a, b}) = IF a >= b THEN a ELSE b
         /\ Min({a, b}) = IF a <= b THEN a ELSE b
<1>1. Max({a, b}) = IF a >= b THEN a ELSE b
  <2> DEFINE m == IF a >= b THEN a ELSE b
  <2>1. m \in {a, b} /\ \A y \in {a, b} : m >= y OBVIOUS
  <2>2. \A x \in {a, b} : (\A y \in {a, b} : x >= y) => x = m OBVIOUS
  <2> QED BY <2>1, <2>2 DEF Max
<1>2. Min({a, b}) = IF a <= b THEN a ELSE b
  <2> DEFINE m == IF a <= b THEN a ELSE b
  <2>1. m \in {a, b} /\ \A y \in {a, b} : m <= y OBVIOUS
  <2>2. \A x \in {a, b} : (\A y \in {a, b} : x <= y) => x = m OBVIOUS
  <2> QED BY <2>1, <2>2 DEF Min
<1> QED BY <1>1, <1>2

LEMMA Sizes ==
  /\ MaxAge \in Nat /\ INFLIGHT_TTL \in Nat \ {0} /\ 0 \in 0..MaxAge /\ 0 \in 0..INFLIGHT_TTL
  /\ MaxSubs \in Nat /\ MaxEvents \in Nat /\ SCHEDULER_BATCH \in Nat
<1>1. {W_SUB, W_SUSPICIOUS, TRACK_BOOST, BOOST, BASE, MAX_INTERVAL, INFLIGHT_TTL, SCHEDULER_BATCH, MaxAge, MaxJobs} \subseteq Nat \ {0}
  BY CrawlAssumption
<1>2. MaxAge \in Nat \ {0} /\ INFLIGHT_TTL \in Nat \ {0} /\ SCHEDULER_BATCH \in Nat \ {0} BY <1>1
<1>3. MaxSubs \in Nat /\ MaxEvents \in Nat BY CrawlAssumption
<1> QED BY <1>2, <1>3

LEMMA MarkedRow ==
  ASSUME NEW row \in Row
  PROVE  Marked(row) \in Row /\ Marked(row).inflight > 0 /\ Marked(row).flag = row.flag
BY CrawlAssumption DEF Marked, Row

LEMMA BoostedRow ==
  ASSUME NEW row \in Row, NEW boost \in {TRACK_BOOST, BOOST}
  PROVE  LET boosted == [row EXCEPT !.boost = Max({@, boost})] IN
         boosted \in Row /\ boosted.inflight = row.inflight /\ boosted.flag = row.flag
<1>1. row.boost \in {0, TRACK_BOOST, BOOST} /\ {0, TRACK_BOOST, BOOST} \subseteq Int BY CrawlAssumption DEF Row
<1>2. Max({row.boost, boost}) \in {0, TRACK_BOOST, BOOST} BY <1>1, OfTwo
<1> QED BY <1>2 DEF Row

LEMMA AgedRow ==
  ASSUME NEW row \in Row
  PROVE  Aged(row) \in Row /\ Aged(row).inflight = (IF row.inflight > 0 THEN row.inflight - 1 ELSE 0) /\ Aged(row).flag = row.flag
<1>1. row.age \in 0..MaxAge /\ row.inflight \in 0..INFLIGHT_TTL /\ MaxAge \in Nat /\ INFLIGHT_TTL \in Nat
  BY Sizes DEF Row
<1>2. Min({row.age + 1, MaxAge}) \in 0..MaxAge
  <2>1. row.age + 1 \in Int /\ MaxAge \in Int BY <1>1
  <2>2. Min({row.age + 1, MaxAge}) = IF row.age + 1 <= MaxAge THEN row.age + 1 ELSE MaxAge BY <2>1, OfTwo
  <2> QED BY <1>1, <2>2
<1>3. Max({row.inflight - 1, 0}) = (IF row.inflight > 0 THEN row.inflight - 1 ELSE 0) BY <1>1, OfTwo
<1>4. Max({row.inflight - 1, 0}) \in 0..INFLIGHT_TTL BY <1>1, <1>3
<1> QED BY <1>2, <1>3, <1>4 DEF Aged, Row

\* A crawl clears the flag only when it has found something out.
LEMMA CrawledRow ==
  ASSUME NEW row \in Row, NEW status
  PROVE  /\ RecordCrawl(row, status) \in Row
         /\ row.flag /\ status \notin {"ok", "free", "unavailable", "region_locked"} => RecordCrawl(row, status).flag
<1> DEFINE seen == [row EXCEPT !.inflight = 0, !.captcha = (status = "captcha")]
<1>1. seen \in Row /\ seen.flag = row.flag BY Sizes DEF Row
<1>2. ASSUME NEW r \in Row PROVE Seen(r) \in Row /\ Digested(r) \in Row /\ Seen(r).flag = r.flag
  BY Sizes DEF Seen, Digested, Row
<1>3. ASSUME NEW r \in Row, NEW price \in {"price", "zero"} PROVE [r EXCEPT !.price = price] \in Row
  BY DEF Row, Text, Amount
<1>4. ASSUME NEW r \in Row, NEW gone \in BOOLEAN PROVE [r EXCEPT !.gone = gone] \in Row /\ [r EXCEPT !.gone = gone].flag = r.flag
  BY DEF Row
<1>5. Outcome(seen, status) \in Row
  <2> HIDE DEF seen
  <2> QED BY <1>1, <1>2, <1>3, <1>4 DEF Outcome
<1>6. status \notin {"ok", "free", "unavailable", "region_locked"} => Outcome(seen, status).flag = row.flag
  <2> HIDE DEF seen
  <2> QED BY <1>1, <1>2, <1>4 DEF Outcome
<1> QED BY <1>5, <1>6 DEF RecordCrawl

\* What enqueue_urgent does to a row that has the product's mark.
LEMMA Urgent ==
  ASSUME TypeOK, NEW p \in Product, NEW row \in Row, row.inflight = product[p].inflight,
         NEW boost \in {TRACK_BOOST, BOOST}, EnqueueUrgent(p, row, boost)
  PROVE  /\ product' \in [Product -> Row] /\ adding' \in [Job -> Nat]
         /\ product'[p].flag = row.flag /\ \A q \in Product \ {p} : product'[q] = product[q]
         /\ \/ product[p].inflight > 0 /\ product'[p].inflight > 0 /\ adding' = adding
            \/ /\ product[p].inflight = 0 /\ product'[p].inflight > 0
               /\ adding' = [adding EXCEPT ![<<p, "urgent">>] = @ + 1]
<1> DEFINE boosted == [row EXCEPT !.boost = Max({@, boost})]
<1>1. boosted \in Row /\ boosted.inflight = row.inflight /\ boosted.flag = row.flag BY BoostedRow
<1>2. Marked(boosted) \in Row /\ Marked(boosted).inflight > 0 /\ Marked(boosted).flag = row.flag BY <1>1, MarkedRow
<1>3. product \in [Product -> Row] /\ adding \in [Job -> Nat] /\ <<p, "urgent">> \in Job BY DEF TypeOK, Job
<1>4. row.inflight \in Nat BY CrawlAssumption DEF Row
<1> HIDE DEF boosted
<1>5. CASE Inflight(row)
  <2>1. product' = [product EXCEPT ![p] = boosted] /\ adding' = adding BY <1>5 DEF EnqueueUrgent, boosted
  <2> QED BY <1>1, <1>3, <1>5, <2>1 DEF Inflight
<1>6. CASE ~ Inflight(row)
  <2>1. /\ product' = [product EXCEPT ![p] = Marked(boosted)]
        /\ adding' = [adding EXCEPT ![<<p, "urgent">>] = @ + 1]
    BY <1>6 DEF EnqueueUrgent, boosted
  <2>2. adding' \in [Job -> Nat] BY <1>3, <2>1
  <2> QED BY <1>2, <1>3, <1>4, <1>6, <2>1, <2>2 DEF Inflight
<1> QED BY <1>5, <1>6

-----------------------------------------------------------------------------
(* Action by action.                                                       *)

LEMMA ExternalKept == TypeOK /\ External => outside' \in 0..MaxEvents
BY Sizes DEF TypeOK, External

\* What a step must do to the marks and the flags, where the jobs stay.
LEMMA JobsStand ==
  ASSUME TypeOK, TypeOK', \A p \in Product : MarkHolds(p),
         adding' = adding, queue' = queue, crawl'["worker"] = crawl["worker"], unmarked' = unmarked,
         \A p \in Product : product[p].inflight > 0 => product'[p].inflight > 0
  PROVE  (\A p \in Product : MarkHolds(p))'
<1> SUFFICES ASSUME NEW p \in Product PROVE MarkHolds(p)' OBVIOUS
<1>1. Underway(p)' = Underway(p) /\ Underway(p) \in Nat BY UnderwayStands, UnderwayIs
<1> QED BY <1>1, MarkStands

LEMMA TickKept == IInv /\ Tick => IInv'
<1> SUFFICES ASSUME IInv, Tick PROVE IInv' OBVIOUS
<1> USE DEF IInv
<1>1. PICK picked \in SUBSET Due :
        /\ product' = [p \in Product |-> IF p \in picked THEN Marked(product[p]) ELSE product[p]]
        /\ adding' = [j \in Job |-> IF j[2] = "tick" /\ j[1] \in picked THEN 1 ELSE adding[j]]
  BY DEF Tick, kSubset
<1>2. \A p \in Product : product[p] \in Row BY DEF TypeOK
<1>3. product' \in [Product -> Row] BY <1>1, <1>2, MarkedRow
<1>4. adding' \in [Job -> Nat] BY <1>1 DEF TypeOK
<1>5. TypeOK' BY <1>3, <1>4 DEF TypeOK, Tick
<1>6. ASSUME NEW p \in Product PROVE MarkHolds(p)'
  <2>1. <<p, "tick">> \in Job /\ <<p, "urgent">> \in Job BY DEF Job
  <2>2. adding'[<<p, "urgent">>] = adding[<<p, "urgent">>] BY <1>1, <2>1
  <2>3. adding[<<p, "tick">>] = 0 BY DEF Tick
  <2>4. Count(queue', p) = Count(queue, p) /\ AtWorker(p)' = AtWorker(p) /\ unmarked' = unmarked BY DEF Tick, AtWorker
  <2>5. CASE p \in picked
    <3>1. product[p].inflight = 0
      <4>1. product[p].inflight \in Nat /\ ~ Inflight(product[p]) BY <1>2, <2>5, Sizes DEF Row, Due
      <4> QED BY <4>1 DEF Inflight
    <3>2. product'[p].inflight > 0 BY <1>1, <1>2, <2>5, MarkedRow
    <3>3. adding'[<<p, "tick">>] = 1 BY <1>1, <2>1, <2>5
    <3>4. Underway(p)' = Underway(p) + 1 BY <1>5, <2>2, <2>3, <2>4, <3>3, UnderwayIs, UnderwayIsNext
    <3>5. Underway(p) \in Nat BY UnderwayIs
    <3>6. p \notin unmarked => Underway(p) = 0 BY <3>1, <3>5 DEF MarkHolds
    <3> QED BY <2>4, <3>2, <3>4, <3>5, <3>6 DEF MarkHolds
  <2>6. CASE p \notin picked
    <3>1. product'[p] = product[p] /\ adding'[<<p, "tick">>] = adding[<<p, "tick">>] BY <1>1, <2>1, <2>6
    <3>2. Underway(p)' = Underway(p) BY <1>5, <2>2, <2>4, <3>1, UnderwayIs, UnderwayIsNext
    <3> QED BY <2>4, <3>1, <3>2 DEF MarkHolds
  <2> QED BY <2>5, <2>6
<1>7. WaitingIsFlagged'
  <2>1. \A p \in Product : product'[p].flag = product[p].flag BY <1>1, <1>2, MarkedRow
  <2> QED BY <2>1 DEF WaitingIsFlagged, Tick, TypeOK
<1> QED BY <1>5, <1>6, <1>7

\* A step that calls enqueue_urgent and otherwise leaves the jobs alone.
LEMMA UrgentMarks ==
  ASSUME TypeOK, TypeOK', \A p \in Product : MarkHolds(p), queue' = queue, crawl' = crawl, unmarked' = unmarked,
         NEW p \in Product, NEW row \in Row, row.inflight = product[p].inflight,
         NEW boost \in {TRACK_BOOST, BOOST}, EnqueueUrgent(p, row, boost)
  PROVE  (\A q \in Product : MarkHolds(q))'
<1> SUFFICES ASSUME NEW q \in Product PROVE MarkHolds(q)' OBVIOUS
<1>1. /\ \A o \in Product \ {p} : product'[o] = product[o]
      /\ \/ product[p].inflight > 0 /\ product'[p].inflight > 0 /\ adding' = adding
         \/ /\ product[p].inflight = 0 /\ product'[p].inflight > 0
            /\ adding' = [adding EXCEPT ![<<p, "urgent">>] = @ + 1]
  BY Urgent
<1>2. Underway(q) \in Nat BY UnderwayIs
<1>3. CASE adding' = adding
  <2>1. Underway(q)' = Underway(q) BY <1>3, UnderwayStands
  <2>2. product[q].inflight > 0 => product'[q].inflight > 0 BY <1>1
  <2> QED BY <1>2, <2>1, <2>2, MarkStands
<1>4. CASE product[p].inflight = 0 /\ product'[p].inflight > 0 /\ adding' = [adding EXCEPT ![<<p, "urgent">>] = @ + 1]
  <2>1. /\ <<p, "urgent">> \in Job /\ <<q, "tick">> \in Job /\ <<q, "urgent">> \in Job /\ adding \in [Job -> Nat]
    BY DEF Job, TypeOK
  <2>2. adding'[<<q, "tick">>] = adding[<<q, "tick">>] BY <1>4, <2>1
  <2>3. AtWorker(q)' = AtWorker(q) BY DEF AtWorker
  <2>4. CASE q = p
    <3>1. adding'[<<q, "urgent">>] = adding[<<q, "urgent">>] + 1 BY <1>4, <2>1, <2>4
    <3>2. Underway(q)' = Underway(q) + 1 BY <2>2, <2>3, <3>1, UnderwayIs, UnderwayIsNext
    <3>3. q \notin unmarked => Underway(q) = 0 BY <1>2, <1>4, <2>4 DEF MarkHolds
    <3> QED BY <1>2, <1>4, <2>4, <3>2, <3>3 DEF MarkHolds
  <2>5. CASE q # p
    <3>1. adding'[<<q, "urgent">>] = adding[<<q, "urgent">>] BY <1>4, <2>1, <2>5
    <3>2. Underway(q)' = Underway(q) BY <2>2, <2>3, <3>1, UnderwayIs, UnderwayIsNext
    <3> QED BY <1>1, <1>2, <2>5, <3>2, MarkStands
  <2> QED BY <2>4, <2>5
<1> QED BY <1>1, <1>3, <1>4

\* The job goes from the awaiting enqueue to the stream.
LEMMA EnqueueKept == ASSUME NEW j \in Job, IInv, Enqueue(j) PROVE IInv'
<1> USE DEF IInv
<1>1. /\ adding[j] > 0 /\ adding' = [adding EXCEPT ![j] = @ - 1] /\ queue' = Append(queue, j[1])
      /\ adding \in [Job -> Nat] /\ queue \in Seq(Product) /\ j[1] \in Product
  BY DEF Enqueue, TypeOK, Job
<1>2. adding' \in [Job -> Nat] /\ queue' \in Seq(Product) BY <1>1
<1>3. TypeOK' BY <1>2 DEF TypeOK, Enqueue
<1>4. ASSUME NEW p \in Product PROVE MarkHolds(p)'
  <2>1. AtWorker(p)' = AtWorker(p) /\ product' = product /\ unmarked' = unmarked BY DEF Enqueue, AtWorker
  <2>2. /\ <<p, "tick">> \in Job /\ <<p, "urgent">> \in Job /\ <<p, "tick">> # <<p, "urgent">>
        /\ j = <<p, "tick">> \/ j = <<p, "urgent">> <=> j[1] = p
    BY DEF Job
  <2>3. Count(queue', p) = Count(queue, p) + (IF j[1] = p THEN 1 ELSE 0) BY <1>1, CountAppend
  <2>4. adding'[<<p, "tick">>] + adding'[<<p, "urgent">>]
          = adding[<<p, "tick">>] + adding[<<p, "urgent">>] - (IF j[1] = p THEN 1 ELSE 0)
    <3> DEFINE t == <<p, "tick">>
               u == <<p, "urgent">>
    <3>1. t \in Job /\ u \in Job /\ t # u /\ (j = t \/ j = u <=> j[1] = p) BY <2>2
    <3> HIDE DEF t, u
    <3>2. \A k \in Job : adding'[k] = adding[k] - (IF j = k THEN 1 ELSE 0) /\ adding[k] \in Nat BY <1>1
    <3>3. adding'[t] = adding[t] - (IF j = t THEN 1 ELSE 0) /\ adding[t] \in Nat BY <3>1, <3>2
    <3>4. adding'[u] = adding[u] - (IF j = u THEN 1 ELSE 0) /\ adding[u] \in Nat BY <3>1, <3>2
    <3>5. adding'[t] + adding'[u] = adding[t] + adding[u] - (IF j[1] = p THEN 1 ELSE 0) BY <3>1, <3>3, <3>4
    <3> QED BY <3>5 DEF t, u
  <2>5. Underway(p)' = Underway(p) BY <1>3, <2>1, <2>3, <2>4, UnderwayIs, UnderwayIsNext
  <2> QED BY <2>1, <2>5 DEF MarkHolds
<1>5. WaitingIsFlagged' BY DEF WaitingIsFlagged, Enqueue
<1> QED BY <1>3, <1>4, <1>5

LEMMA EnqueueFailsKept == ASSUME NEW j \in Job, IInv, EnqueueFails(j) PROVE IInv'
<1> USE DEF IInv
<1>1. PICK failed \in SUBSET Job :
        /\ \A k \in failed : adding[k] > 0
        /\ adding' = [k \in Job |-> IF k \in failed THEN adding[k] - 1 ELSE adding[k]]
  <2> DEFINE failed == IF j[2] = "tick" THEN {k \in Job : k[2] = "tick" /\ adding[k] > 0} ELSE {j}
  <2>1. failed \in SUBSET Job /\ \A k \in failed : adding[k] > 0 BY DEF EnqueueFails
  <2>2. adding' = [k \in Job |-> IF k \in failed THEN adding[k] - 1 ELSE adding[k]] BY DEF EnqueueFails
  <2> HIDE DEF failed
  <2> QED BY <2>1, <2>2
<1>2. adding' \in [Job -> Nat] BY <1>1 DEF TypeOK
<1>3. TypeOK' BY <1>2, ExternalKept DEF TypeOK, EnqueueFails
<1>4. ASSUME NEW p \in Product PROVE MarkHolds(p)'
  <2>1. AtWorker(p)' = AtWorker(p) /\ queue' = queue /\ product' = product /\ unmarked' = unmarked
    BY DEF EnqueueFails, AtWorker
  <2>2. <<p, "tick">> \in Job /\ <<p, "urgent">> \in Job /\ adding \in [Job -> Nat] BY DEF Job, TypeOK
  <2>3. adding'[<<p, "tick">>] <= adding[<<p, "tick">>] /\ adding'[<<p, "urgent">>] <= adding[<<p, "urgent">>]
    BY <1>1, <2>2
  <2>4. Underway(p)' <= Underway(p) /\ Underway(p) \in Nat /\ Underway(p)' \in Nat
    BY <1>3, <2>1, <2>3, UnderwayIs, UnderwayIsNext
  <2> QED BY <2>1, <2>4, MarkStands
<1>5. WaitingIsFlagged' BY DEF WaitingIsFlagged, EnqueueFails
<1> QED BY <1>3, <1>4, <1>5

LEMMA TrackKept ==
  ASSUME NEW p \in Product, NEW boost \in {TRACK_BOOST, BOOST}, IInv, Track(p, boost) PROVE IInv'
<1> USE DEF IInv
<1>1. EnqueueUrgent(p, product[p], boost) /\ product[p] \in Row BY DEF Track, TypeOK
<1>2. /\ product' \in [Product -> Row] /\ adding' \in [Job -> Nat]
      /\ product'[p].flag = product[p].flag /\ \A q \in Product \ {p} : product'[q] = product[q]
  BY <1>1, Urgent
<1>3. TypeOK' BY <1>2, ExternalKept DEF TypeOK, Track
<1>4. (\A q \in Product : MarkHolds(q))' BY <1>1, <1>3, UrgentMarks DEF Track
<1>5. WaitingIsFlagged' BY <1>2 DEF WaitingIsFlagged, Track, TypeOK
<1> QED BY <1>3, <1>4, <1>5

LEMMA SubscribeKept == ASSUME NEW p \in Product, IInv, Subscribe(p) PROVE IInv'
<1> USE DEF IInv
<1> DEFINE row == [product[p] EXCEPT !.subs = @ + 1]
<1>1. product \in [Product -> Row] /\ product[p] \in Row /\ product[p].subs + 1 \in 0..MaxSubs
  BY Sizes DEF TypeOK, Row, Subscribe
<1>2. row \in Row /\ row.inflight = product[p].inflight /\ row.flag = product[p].flag BY <1>1 DEF Row
<1>3. /\ pending' = pending /\ queue' = queue /\ crawl' = crawl /\ unmarked' = unmarked
      /\ stuck' = stuck /\ fresh' = fresh /\ External
  BY DEF Subscribe
<1>4. \/ product' = [product EXCEPT ![p] = row] /\ adding' = adding
      \/ EnqueueUrgent(p, row, TRACK_BOOST)
  BY DEF Subscribe
<1> HIDE DEF row
<1>5. CASE product' = [product EXCEPT ![p] = row] /\ adding' = adding
  <2>1. product' \in [Product -> Row] /\ product'[p] = row /\ \A q \in Product \ {p} : product'[q] = product[q]
    BY <1>1, <1>2, <1>5
  <2>2. TypeOK' BY <1>3, <1>5, <2>1, ExternalKept DEF TypeOK
  <2>3. (\A q \in Product : MarkHolds(q))' BY <1>2, <1>3, <1>5, <2>1, <2>2, JobsStand
  <2>4. WaitingIsFlagged' BY <1>2, <1>3, <2>1 DEF WaitingIsFlagged, TypeOK
  <2> QED BY <2>2, <2>3, <2>4
<1>6. CASE EnqueueUrgent(p, row, TRACK_BOOST)
  <2>1. /\ product' \in [Product -> Row] /\ adding' \in [Job -> Nat]
        /\ product'[p].flag = row.flag /\ \A q \in Product \ {p} : product'[q] = product[q]
    BY <1>2, <1>6, Urgent
  <2>2. TypeOK' BY <1>3, <2>1, ExternalKept DEF TypeOK
  <2>3. (\A q \in Product : MarkHolds(q))' BY <1>2, <1>3, <1>6, <2>2, UrgentMarks
  <2>4. WaitingIsFlagged' BY <1>2, <1>3, <2>1 DEF WaitingIsFlagged, TypeOK
  <2> QED BY <2>2, <2>3, <2>4
<1> QED BY <1>4, <1>5, <1>6

LEMMA BumpKept == ASSUME NEW p \in Product, NEW n \in 0..MaxSubs, IInv, Bump(p, n) PROVE IInv'
<1> USE DEF IInv
<1> DEFINE row == [product[p] EXCEPT !.subs = n]
<1>1. product \in [Product -> Row] /\ row \in Row /\ row.inflight = product[p].inflight /\ row.flag = product[p].flag
  BY DEF TypeOK, Row
<1>2. product' = [product EXCEPT ![p] = row] BY DEF Bump
<1> HIDE DEF row
<1>3. product' \in [Product -> Row] /\ product'[p] = row /\ \A q \in Product \ {p} : product'[q] = product[q] BY <1>1, <1>2
<1>4. TypeOK' BY <1>3, ExternalKept DEF TypeOK, Bump
<1>5. (\A q \in Product : MarkHolds(q))' BY <1>1, <1>3, <1>4, JobsStand DEF Bump
<1>6. WaitingIsFlagged' BY <1>1, <1>3 DEF WaitingIsFlagged, TypeOK, Bump
<1> QED BY <1>4, <1>5, <1>6

LEMMA ReportKept == ASSUME NEW p \in Product, NEW suspicious \in BOOLEAN, IInv, Report(p, suspicious) PROVE IInv'
<1> USE DEF IInv
<1>1. product \in [Product -> Row] /\ product[p] \in Row BY DEF TypeOK
<1>2. queue' = queue /\ crawl' = crawl /\ unmarked' = unmarked /\ fresh' = fresh /\ External BY DEF Report
<1>3. CASE suspicious
  <2> DEFINE row == [product[p] EXCEPT !.flag = TRUE]
  <2>1. row \in Row /\ row.inflight = product[p].inflight /\ row.flag BY <1>1 DEF Row
  <2>2. pending' = pending \cup {p} /\ stuck' = stuck \ {p} /\ EnqueueUrgent(p, row, BOOST) BY <1>3 DEF Report
  <2> HIDE DEF row
  <2>3. /\ product' \in [Product -> Row] /\ adding' \in [Job -> Nat]
        /\ product'[p].flag = row.flag /\ \A q \in Product \ {p} : product'[q] = product[q]
    BY <2>1, <2>2, Urgent
  <2>4. TypeOK' BY <1>2, <2>2, <2>3, ExternalKept DEF TypeOK
  <2>5. (\A q \in Product : MarkHolds(q))' BY <1>2, <2>1, <2>2, <2>4, UrgentMarks
  <2>6. WaitingIsFlagged' BY <2>1, <2>2, <2>3 DEF WaitingIsFlagged, TypeOK
  <2> QED BY <2>4, <2>5, <2>6
<1>4. CASE ~ suspicious
  <2> DEFINE row == [product[p] EXCEPT !.age = 0, !.price = "price"]
  <2>1. row \in Row /\ row.inflight = product[p].inflight /\ row.flag = product[p].flag
    BY <1>1, Sizes DEF Row, Text, Amount
  <2>2. product' = [product EXCEPT ![p] = row] /\ pending' = pending /\ adding' = adding /\ stuck' = stuck
    BY <1>1, <1>4 DEF Report
  <2> HIDE DEF row
  <2>3. product' \in [Product -> Row] /\ product'[p] = row /\ \A q \in Product \ {p} : product'[q] = product[q]
    BY <1>1, <2>1, <2>2
  <2>4. TypeOK' BY <1>2, <2>2, <2>3, ExternalKept DEF TypeOK
  <2>5. (\A q \in Product : MarkHolds(q))' BY <1>2, <2>1, <2>2, <2>3, <2>4, JobsStand
  <2>6. WaitingIsFlagged' BY <2>1, <2>2, <2>3 DEF WaitingIsFlagged, TypeOK
  <2> QED BY <2>4, <2>5, <2>6
<1> QED BY <1>3, <1>4

\* A fetch is never taken for the absence of one.
LEMMA FetchTypes ==
  ASSUME TypeOK
  PROVE  /\ crawl \in [Crawler -> Fetch \cup {None}] /\ None \notin Fetch
         /\ LastAttempt \in {2, 3} /\ (LastAttempt = 3 <=> FALLBACK)
BY CrawlAssumption DEF TypeOK, Fetch, LastAttempt

LEMMA StartTypes ==
  ASSUME TypeOK, NEW c \in Crawler, NEW p \in Product, Start(c, p)
  PROVE  /\ crawl' \in [Crawler -> Fetch \cup {None}] /\ crawl'[c] # None /\ crawl'[c].product = p
         /\ \A d \in Crawler \ {c} : crawl'[d] = crawl[d]
         /\ \A d \in Crawler : crawl'[d] # None /\ ~ FALLBACK => crawl'[d].attempt # 3
<1> DEFINE first == [product |-> p, attempt |-> 1]
<1>1. first \in Fetch /\ first.product = p /\ first.attempt = 1 BY DEF Fetch
<1>2. crawl' = [crawl EXCEPT ![c] = first] BY DEF Start
<1> HIDE DEF first
<1>3. crawl' \in [Crawler -> Fetch \cup {None}] /\ crawl'[c] = first /\ \A d \in Crawler \ {c} : crawl'[d] = crawl[d]
  BY <1>1, <1>2, FetchTypes
<1>4. first # None BY <1>1, FetchTypes
<1>5. \A d \in Crawler : crawl[d] # None /\ ~ FALLBACK => crawl[d].attempt # 3 BY DEF TypeOK
<1> QED BY <1>1, <1>3, <1>4, <1>5

LEMMA TakeJobKept == IInv /\ TakeJob => IInv'
<1> SUFFICES ASSUME IInv, TakeJob PROVE IInv' OBVIOUS
<1> USE DEF IInv
<1>1. queue \in Seq(Product) /\ queue # <<>> /\ Head(queue) \in Product /\ Tail(queue) \in Seq(Product)
  BY DEF TakeJob, TypeOK
<1>2. "worker" \in Crawler /\ crawl["worker"] = None /\ Start("worker", Head(queue)) BY DEF TakeJob, Crawler
<1>3. /\ crawl' \in [Crawler -> Fetch \cup {None}] /\ crawl'["worker"] # None /\ crawl'["worker"].product = Head(queue)
      /\ \A d \in Crawler : crawl'[d] # None /\ ~ FALLBACK => crawl'[d].attempt # 3
  BY <1>1, <1>2, StartTypes
<1>4. TypeOK' BY <1>1, <1>3 DEF TypeOK, TakeJob
<1>5. ASSUME NEW p \in Product PROVE MarkHolds(p)'
  <2>1. Count(queue, p) = Count(queue', p) + (IF Head(queue) = p THEN 1 ELSE 0) BY <1>1, CountTail DEF TakeJob
  <2>2. AtWorker(p) = 0 /\ AtWorker(p)' = (IF Head(queue) = p THEN 1 ELSE 0) BY <1>2, <1>3 DEF AtWorker
  <2>3. adding' = adding /\ product' = product /\ unmarked' = unmarked BY DEF TakeJob
  <2>4. /\ {Underway(p), Underway(p)', Count(queue, p), Count(queue', p)} \subseteq Nat
        /\ Underway(p)' = Underway(p) + Count(queue', p) - Count(queue, p) + AtWorker(p)' - AtWorker(p)
    BY <1>4, <2>3, UnderwayMoves
  <2>5. Underway(p)' = Underway(p)
    <3>1. CASE Head(queue) = p BY <2>1, <2>2, <2>4, <3>1
    <3>2. CASE Head(queue) # p BY <2>1, <2>2, <2>4, <3>2
    <3> QED BY <3>1, <3>2
  <2> QED BY <2>3, <2>5 DEF MarkHolds
<1>6. WaitingIsFlagged' BY DEF WaitingIsFlagged, TakeJob
<1> QED BY <1>4, <1>5, <1>6

LEMMA CrawlNowKept == ASSUME NEW p \in Product, IInv, CrawlNow(p) PROVE IInv'
<1> USE DEF IInv
<1>1. "sync" \in Crawler /\ "worker" \in Crawler /\ Start("sync", p) BY DEF CrawlNow, Crawler
<1>2. /\ crawl' \in [Crawler -> Fetch \cup {None}] /\ crawl'["worker"] = crawl["worker"]
      /\ \A d \in Crawler : crawl'[d] # None /\ ~ FALLBACK => crawl'[d].attempt # 3
  BY <1>1, StartTypes
<1>3. TypeOK' BY <1>2, ExternalKept DEF TypeOK, CrawlNow
<1>4. (\A q \in Product : MarkHolds(q))' BY <1>2, <1>3, JobsStand DEF CrawlNow
<1>5. WaitingIsFlagged' BY DEF WaitingIsFlagged, CrawlNow
<1> QED BY <1>3, <1>4, <1>5

LEMMA RetryKept == ASSUME NEW c \in Crawler, NEW status, IInv, Retry(c, status) PROVE IInv'
<1> USE DEF IInv
<1> DEFINE next == [crawl[c] EXCEPT !.attempt = @ + 1]
<1>1. crawl[c] \in Fetch /\ crawl[c].attempt < LastAttempt /\ crawl' = [crawl EXCEPT ![c] = next]
  BY FetchTypes DEF Retry
<1>2. next \in Fetch /\ next.product = crawl[c].product /\ (~ FALLBACK => next.attempt # 3)
  BY <1>1, FetchTypes DEF Fetch
<1> HIDE DEF next
<1>3. crawl' \in [Crawler -> Fetch \cup {None}] /\ crawl'[c] = next /\ \A d \in Crawler \ {c} : crawl'[d] = crawl[d]
  BY <1>1, <1>2, FetchTypes
<1>4. \A d \in Crawler : crawl'[d] # None /\ ~ FALLBACK => crawl'[d].attempt # 3 BY <1>2, <1>3 DEF TypeOK
<1>5. TypeOK' BY <1>3, <1>4, ExternalKept DEF TypeOK, Retry
<1>6. ASSUME NEW p \in Product PROVE MarkHolds(p)'
  <2>1. AtWorker(p)' = AtWorker(p)
    <3>1. next # None /\ crawl[c] # None BY <1>1, <1>2, FetchTypes
    <3> QED BY <1>2, <1>3, <3>1 DEF AtWorker, Crawler
  <2>2. queue' = queue /\ adding' = adding /\ product' = product /\ unmarked' = unmarked BY DEF Retry
  <2>3. Underway(p)' = Underway(p) BY <1>5, <2>1, <2>2, UnderwayIs, UnderwayIsNext
  <2> QED BY <2>2, <2>3 DEF MarkHolds
<1>7. WaitingIsFlagged' BY DEF WaitingIsFlagged, Retry
<1> QED BY <1>5, <1>6, <1>7

LEMMA CrawlEndsKept == ASSUME NEW c \in Crawler, NEW status, IInv, CrawlEnds(c, status) PROVE IInv'
<1> USE DEF IInv
<1> DEFINE p == crawl[c].product
           row == RecordCrawl(product[p], status)
<1>1. crawl[c] # None /\ crawl[c] \in Fetch /\ p \in Product BY FetchTypes DEF CrawlEnds, Fetch
<1>2. product \in [Product -> Row] /\ product[p] \in Row BY <1>1 DEF TypeOK
<1>3. /\ product' = [product EXCEPT ![p] = row] /\ crawl' = [crawl EXCEPT ![c] = None]
      /\ adding' = adding /\ queue' = queue /\ fresh' = fresh \cup {p}
      /\ pending' = Resolved(p, status)
      /\ stuck' = IF status = "free" THEN stuck \cup (pending \cap {p}) ELSE stuck \ {p}
      /\ unmarked' = IF Underway(p) > (IF c = "worker" THEN 1 ELSE 0) THEN unmarked \cup {p} ELSE unmarked \ {p}
      /\ outside' \in 0..MaxEvents
  BY ExternalKept DEF CrawlEnds, TypeOK
<1>4. row \in Row /\ (product[p].flag /\ status \notin {"ok", "free", "unavailable", "region_locked"} => row.flag)
  BY <1>2, CrawledRow
<1> HIDE DEF row, p
<1>5. product' \in [Product -> Row] /\ product'[p] = row /\ \A q \in Product \ {p} : product'[q] = product[q]
  BY <1>1, <1>2, <1>3, <1>4
<1>6. /\ crawl' \in [Crawler -> Fetch \cup {None}] /\ crawl'[c] = None
      /\ \A d \in Crawler \ {c} : crawl'[d] = crawl[d]
  BY <1>3, FetchTypes
<1>7. pending' = (IF status = "free" THEN pending ELSE pending \ {p}) BY <1>3 DEF Resolved
<1>8. pending' \subseteq Product /\ stuck' \subseteq pending' /\ fresh' \subseteq Product /\ unmarked' \subseteq Product
  BY <1>1, <1>3, <1>7 DEF TypeOK
<1>9. TypeOK' BY <1>3, <1>5, <1>6, <1>8 DEF TypeOK
<1>10. ASSUME NEW q \in Product PROVE MarkHolds(q)'
  <2>1. Underway(q) \in Nat /\ Underway(q)' \in Nat /\ Underway(q)' = Underway(q) - AtWorker(q) + AtWorker(q)'
    <3>1. Count(queue', q) = Count(queue, q) /\ adding' = adding BY <1>3
    <3>2. /\ {Underway(q), Underway(q)', Count(queue, q), AtWorker(q), AtWorker(q)'} \subseteq Nat
          /\ Underway(q)' = Underway(q) + Count(queue', q) - Count(queue, q) + AtWorker(q)' - AtWorker(q)
      BY <1>9, <3>1, UnderwayMoves
    <3> QED BY <3>1, <3>2
  <2>2. "worker" \in Crawler /\ "sync" \in Crawler BY DEF Crawler
  <2>3. CASE q = p
    <3>1. Underway(q)' = Underway(q) - (IF c = "worker" THEN 1 ELSE 0)
      <4>1. CASE c = "worker"
        <5>1. AtWorker(q) = 1 /\ AtWorker(q)' = 0 BY <1>1, <1>6, <2>3, <4>1 DEF AtWorker, p
        <5> QED BY <2>1, <4>1, <5>1
      <4>2. CASE c # "worker"
        <5>1. AtWorker(q)' = AtWorker(q) /\ AtWorker(q) \in Nat BY <1>6, <2>2, <4>2 DEF AtWorker
        <5> QED BY <2>1, <4>2, <5>1
      <4> QED BY <4>1, <4>2
    <3>2. q \notin unmarked' => Underway(q)' = 0 BY <1>3, <2>1, <2>3, <3>1
    <3> QED BY <3>2 DEF MarkHolds
  <2>4. CASE q # p
    <3>1. AtWorker(q)' = AtWorker(q) /\ AtWorker(q) \in Nat BY <1>6, <2>2, <2>4 DEF AtWorker, p
    <3>2. Underway(q)' = Underway(q) BY <2>1, <3>1
    <3>3. q \in unmarked => q \in unmarked' BY <1>3, <2>4
    <3> QED BY <1>5, <2>1, <2>4, <3>2, <3>3, MarkStands
  <2> QED BY <2>3, <2>4
<1>11. WaitingIsFlagged'
  <2> SUFFICES ASSUME NEW q \in pending' \ stuck' PROVE product'[q].flag BY DEF WaitingIsFlagged
  <2>1. q \in pending /\ q \in Product /\ (q = p => status = "free") BY <1>7 DEF TypeOK
  <2>2. q # p BY <1>3, <2>1
  <2>3. q \notin stuck BY <1>3, <2>2
  <2> QED BY <1>5, <2>1, <2>2, <2>3 DEF WaitingIsFlagged
<1> QED BY <1>9, <1>10, <1>11

LEMMA TimePassesKept == IInv /\ TimePasses => IInv'
<1> SUFFICES ASSUME IInv, TimePasses PROVE IInv' OBVIOUS
<1> USE DEF IInv
<1>1. \A p \in Product : product[p] \in Row BY DEF TypeOK
<1>2. product' = [p \in Product |-> Aged(product[p])] BY DEF TimePasses
<1>3. \A p \in Product : /\ product'[p] \in Row /\ product'[p].flag = product[p].flag
                         /\ product'[p].inflight = (IF product[p].inflight > 0 THEN product[p].inflight - 1 ELSE 0)
  BY <1>1, <1>2, AgedRow
<1>4. product' \in [Product -> Row] BY <1>2, <1>3
<1>5. TypeOK' BY <1>4 DEF TypeOK, TimePasses
<1>6. ASSUME NEW p \in Product PROVE MarkHolds(p)'
  <2>1. Underway(p)' = Underway(p) /\ Underway(p) \in Nat BY UnderwayStands, UnderwayIs DEF TimePasses
  <2>2. unmarked' = unmarked \cup {q \in Product : product[q].inflight = 1 /\ Underway(q) > 0} BY DEF TimePasses
  <2>3. p \notin unmarked' => p \notin unmarked /\ ~ (product[p].inflight = 1 /\ Underway(p) > 0) BY <2>2
  <2>4. product[p].inflight \in Nat BY <1>1, Sizes DEF Row
  <2> QED BY <1>3, <2>1, <2>3, <2>4 DEF MarkHolds
<1>7. WaitingIsFlagged' BY <1>3 DEF WaitingIsFlagged, TimePasses, TypeOK
<1> QED BY <1>5, <1>6, <1>7

LEMMA CrashKept == IInv /\ Crash => IInv'
<1> SUFFICES ASSUME IInv, Crash PROVE IInv' OBVIOUS
<1> USE DEF IInv
<1>1. /\ adding' = [j \in Job |-> 0] /\ crawl' = [c \in Crawler |-> None]
      /\ product' = product /\ pending' = pending /\ queue' = queue /\ unmarked' = unmarked /\ stuck' = stuck /\ fresh' = fresh
  BY DEF Crash
<1>2. adding' \in [Job -> Nat] /\ crawl' \in [Crawler -> Fetch \cup {None}] /\ \A c \in Crawler : crawl'[c] = None
  BY <1>1
<1>3. TypeOK' BY <1>1, <1>2, ExternalKept DEF TypeOK, Crash
<1>4. ASSUME NEW p \in Product PROVE MarkHolds(p)'
  <2>1. adding'[<<p, "tick">>] = 0 /\ adding'[<<p, "urgent">>] = 0 BY <1>1 DEF Job
  <2>2. AtWorker(p)' = 0 BY <1>2 DEF AtWorker, Crawler
  <2>3. Underway(p)' <= Underway(p) /\ Underway(p) \in Nat /\ Underway(p)' \in Nat
    BY <1>1, <1>3, <2>1, <2>2, UnderwayIs, UnderwayIsNext
  <2> QED BY <1>1, <2>3, MarkStands
<1>5. WaitingIsFlagged' BY <1>1 DEF WaitingIsFlagged
<1> QED BY <1>3, <1>4, <1>5

-----------------------------------------------------------------------------
LEMMA Initially == Init => IInv
<1> SUFFICES ASSUME Init PROVE IInv OBVIOUS
<1>1. NewRow \in Row BY Sizes DEF NewRow, Row, Text
<1>2. <<>> \in Seq(Product) /\ 0 \in 0..MaxEvents BY Sizes
<1>3. TypeOK BY <1>1, <1>2 DEF Init, TypeOK, Crawler
<1>4. ASSUME NEW p \in Product PROVE MarkHolds(p)
  <2>1. adding[<<p, "tick">>] = 0 /\ adding[<<p, "urgent">>] = 0 BY DEF Init, Job
  <2>2. AtWorker(p) = 0 BY DEF Init, AtWorker, Crawler
  <2>3. Count(queue, p) = 0
    <3>1. {i \in DOMAIN <<>> : <<>>[i] = p} = {} OBVIOUS
    <3> QED BY <3>1, FS_EmptySet DEF Init, Count
  <2>4. Underway(p) = 0 BY <1>3, <2>1, <2>2, <2>3, UnderwayIs
  <2> QED BY <2>4 DEF MarkHolds
<1>5. WaitingIsFlagged BY DEF Init, WaitingIsFlagged
<1> QED BY <1>3, <1>4, <1>5 DEF IInv

LEMMA StepKept == IInv /\ [Next]_vars => IInv'
<1> SUFFICES ASSUME IInv, [Next]_vars PROVE IInv' OBVIOUS
<1>1. CASE UNCHANGED vars
  BY <1>1 DEF vars, IInv, TypeOK, MarkHolds, Underway, WaitingIsFlagged
<1>2. CASE Tick \/ Enqueuing \/ TakeJob \/ TimePasses \/ Crash
  BY <1>2, TickKept, EnqueueKept, TakeJobKept, TimePassesKept, CrashKept DEF Enqueuing
<1>3. CASE \E c \in Crawler : Fetching(c) BY <1>3, RetryKept, CrawlEndsKept DEF Fetching
<1>4. CASE \E j \in Job : EnqueueFails(j) BY <1>4, EnqueueFailsKept
<1>5. CASE \E p \in Product :
             \/ Subscribe(p) \/ CrawlNow(p)
             \/ \E boost \in {TRACK_BOOST, BOOST} : Track(p, boost)
             \/ \E n \in 0..MaxSubs : Bump(p, n)
             \/ \E suspicious \in BOOLEAN : Report(p, suspicious)
  BY <1>5, SubscribeKept, CrawlNowKept, TrackKept, BumpKept, ReportKept
<1> QED BY <1>1, <1>2, <1>3, <1>4, <1>5 DEF Next

\* Every step of scheduler, worker and requests keeps IInv.
THEOREM Invariant == Spec => []IInv
BY Initially, StepKept, PTL DEF Spec

\* Every variable keeps its type: no age, mark or boost leaves its range.
THEOREM TypeCorrect == Spec => []TypeOK
BY Invariant, PTL DEF IInv

\* tick, enqueue_urgent and crawl_one: the mark of a product keeps a second
\* job from it, until it runs out or another crawl clears it.
THEOREM OneJobAtATime == Spec => []OneJob
<1>1. IInv => OneJob
  <2> SUFFICES ASSUME IInv, NEW p \in Product, Underway(p) > 1 PROVE p \in unmarked BY DEF OneJob
  <2>1. Underway(p) \in Nat BY UnderwayIs DEF IInv
  <2> QED BY <2>1 DEF IInv, MarkHolds
<1> QED BY Invariant, <1>1, PTL

\* ingest and crawl_one: no crawl clears the flag of a product with a report
\* that it does not resolve.
THEOREM WaitingFlagged == Spec => []WaitingIsFlagged
BY Invariant, PTL DEF IInv

-----------------------------------------------------------------------------
(* The tailer of DynamoDB Streams (app/cdc.py) is the module StreamTail.   *)

ShardOf(i) == records[i].shard
Busy == tail.pc \in {"batch", "save"}

\* The tailer is where run() can be, and numbers name records that exist.
CdcPlace ==
  /\ \A s \in Shard : checkpoint[s] <= Len(records) /\ iters[s] <= Len(records)
  /\ Held \subseteq 1..open /\ tail.todo \subseteq 1..open
  /\ tail.pass \subseteq Held
  /\ tail.pc = "pass" => tail.pass # {}
  /\ tail.pc # "iterators" => tail.todo = {}
  /\ Busy => /\ tail.at \in Held \ tail.pass /\ tail.batch \subseteq In(tail.at)
              /\ tail.next <= Len(records)
  /\ tail.pc = "save" => tail.batch # {}
  /\ \A k \in DOMAIN events : events[k] \in DOMAIN records

\* The records appear in the order of their shards.
ShardsInOrder ==
  /\ \A i \in DOMAIN records : ShardOf(i) <= open
  /\ \A i, j \in DOMAIN records : i <= j => ShardOf(i) <= ShardOf(j)

\* What an iterator stands behind is checkpointed, and what a checkpoint
\* covers is an event.
Covered ==
  /\ \A i \in DOMAIN records : IsEvent(i) /\ i <= checkpoint[ShardOf(i)] => \E k \in DOMAIN events : events[k] = i
  /\ \A s \in Held : \A i \in In(s) : i <= iters[s] => i <= checkpoint[s]
  /\ \A s \in Held : (Busy /\ s = tail.at) \/ checkpoint[s] <= iters[s]

\* The batch is what comes next in its shard, and the next iterator stands
\* behind it.
BatchIsNext ==
  Busy =>
    /\ \A i \in tail.batch : checkpoint[tail.at] < i
    /\ \A i \in In(tail.at) : \A j \in tail.batch : i < j => i \in tail.batch \/ i <= checkpoint[tail.at]
    /\ tail.next # NoIterator =>
         /\ checkpoint[tail.at] <= tail.next
         /\ \A i \in tail.batch : i <= tail.next
         /\ \A i \in In(tail.at) : i <= tail.next => i \in tail.batch \/ i <= checkpoint[tail.at]
    /\ tail.pc = "save" /\ IsEvent(Min(tail.batch)) => \E k \in DOMAIN events : events[k] = Min(tail.batch)

\* With large batches a pass ends a closed shard before it reads the next.
PassEndsShards ==
  limit >= MaxRecords =>
    /\ tail.pc \in {"pass", "batch", "save"} => Held \subseteq tail.pass \cup {tail.at}
    /\ tail.pc = "pass" => Held \subseteq tail.pass
    /\ Busy => /\ \A s \in tail.pass : tail.at < s
               /\ tail.pass # {} => tail.next = NoIterator

\* With large batches what is still to be read comes after every event.
NothingBehind ==
  limit >= MaxRecords =>
    \A k \in DOMAIN events :
      /\ \A i \in In(ShardOf(events[k])) : checkpoint[ShardOf(events[k])] < i => events[k] <= i
      /\ \A s \in Held \cup tail.todo : ShardOf(events[k]) <= s

CdcInv ==
  /\ TailTypeOK /\ CdcPlace /\ ShardsInOrder /\ Covered /\ BatchIsNext
  /\ PassEndsShards /\ NothingBehind /\ PublishedInOrder

-----------------------------------------------------------------------------
\* A set of numbers has a least one.
LEMMA LeastNumber == ASSUME NEW T \in SUBSET Nat, T # {} PROVE \E m \in T : \A k \in T : m <= k
<1>1. IsWellFoundedOn(OpToRel(<, Nat), Nat) BY NatLessThanWellFounded
<1>2. PICK x \in T : \A y \in T : ~ (<<y, x>> \in OpToRel(<, Nat)) BY <1>1, WFMin, Zenon
<1>3. OpToRel(<, Nat) = {ss \in Nat \X Nat : ss[1] < ss[2]} BY Zenon DEF OpToRel
<1>4. \A y \in T : ~ (y < x) BY <1>2, <1>3
<1> QED BY <1>4

LEMMA MinIsLeast == ASSUME NEW T \in SUBSET Nat, T # {} PROVE Min(T) \in T /\ \A k \in T : Min(T) <= k
BY LeastNumber DEF Min

LEMMA GreatestNumber ==
  ASSUME NEW n \in Nat, NEW T \in SUBSET Nat, T # {}, \A k \in T : k <= n
  PROVE  Max(T) \in T /\ \A k \in T : k <= Max(T)
<1> DEFINE U == {n - t : t \in T}
<1>1. U \in SUBSET Nat /\ U # {}
  <2>1. PICK t \in T : n - t \in U OBVIOUS
  <2>2. \A u \in U : u \in Nat OBVIOUS
  <2> QED BY <2>1, <2>2
<1>2. PICK m \in U : \A k \in U : m <= k BY <1>1, LeastNumber
<1>3. PICK x \in T : m = n - x BY <1>2
<1>4. \A k \in T : k <= x BY <1>2, <1>3
<1> QED BY <1>4 DEF Max

LEMMA MaxIsGreatest ==
  ASSUME NEW n \in Nat, NEW T \in SUBSET (1..n), T # {}
  PROVE  Max(T) \in T /\ \A k \in T : k <= Max(T)
<1>1. T \in SUBSET Nat /\ \A k \in T : k <= n OBVIOUS
<1> QED BY <1>1, GreatestNumber

LEMMA CdcNumbers ==
  ASSUME TailTypeOK
  PROVE  /\ MaxRecords \in Nat /\ MaxShards \in Nat /\ limit \in Nat
         /\ open \in Nat /\ open >= 1 /\ Len(records) \in Nat /\ Len(records) <= MaxRecords
         /\ \A i \in DOMAIN records : ShardOf(i) \in Shard /\ records[i].name \in {"INSERT", "MODIFY"}
         /\ DOMAIN records = 1..Len(records)
         /\ Shard \subseteq Nat /\ open \in Shard
         /\ \A s \in Shard : checkpoint[s] \in Nat /\ iters[s] \in Int /\ iters[s] >= -1
         /\ \A s : In(s) \subseteq 1..Len(records)
         /\ tail.next \in Int /\ tail.todo \subseteq Shard /\ tail.pass \subseteq Shard
<1> DEFINE Rec == [shard : Shard, name : {"INSERT", "MODIFY"}]
<1>1. MaxRecords \in Nat /\ MaxShards \in Nat /\ limit \in Nat BY StreamAssumption DEF TailTypeOK
<1>2. open \in Shard /\ open >= 1 /\ Shard \subseteq Nat BY <1>1 DEF TailTypeOK, Shard
<1>3. records \in Seq(Rec) /\ Len(records) <= MaxRecords BY DEF TailTypeOK
<1>4. \A r \in Rec : r.shard \in Shard /\ r.name \in {"INSERT", "MODIFY"} OBVIOUS
<1> HIDE DEF Rec
<1>5. /\ Len(records) \in Nat /\ DOMAIN records = 1..Len(records)
      /\ \A i \in DOMAIN records : ShardOf(i) \in Shard /\ records[i].name \in {"INSERT", "MODIFY"}
  BY <1>3, <1>4 DEF ShardOf
<1>6. \A s \in Shard : checkpoint[s] \in Nat /\ iters[s] \in Int /\ iters[s] >= -1
  BY <1>1 DEF TailTypeOK, Position, NoIterator
<1>7. \A s : In(s) \subseteq 1..Len(records) BY <1>5 DEF In
<1>8. tail.next \in Int /\ tail.todo \subseteq Shard /\ tail.pass \subseteq Shard
  BY <1>1 DEF TailTypeOK, Loop, Position, NoIterator
<1> QED BY <1>1, <1>2, <1>3, <1>5, <1>6, <1>7, <1>8

\* A record is written to the open shard.
LEMMA NewRecordKept ==
  ASSUME CdcInv, Len(records) < MaxRecords,
         NEW name \in {"INSERT", "MODIFY"}, latest' \in BOOLEAN,
         records' = Append(records, [shard |-> open, name |-> name]),
         UNCHANGED <<open, checkpoint, iters, listed, relist, tail, events, limit, faults>>
  PROVE  CdcInv'
<1> USE CdcNumbers, StreamAssumption DEF CdcInv
<1> DEFINE n == Len(records) + 1
<1> DEFINE row == [shard |-> open, name |-> name]
           Rec == [shard : Shard, name : {"INSERT", "MODIFY"}]
<1>1. row \in Rec /\ row.shard = open /\ row.name = name /\ records \in Seq(Rec) /\ records' = Append(records, row) BY DEF TailTypeOK
<1> HIDE DEF row, Rec
<1>2. /\ records' \in Seq(Rec) /\ Len(records') = n /\ DOMAIN records' = 1..n
      /\ \A i \in DOMAIN records : records'[i] = records[i]
      /\ records'[n].shard = open /\ records'[n].name = name
  BY <1>1
<1>3. TailTypeOK' BY <1>2 DEF TailTypeOK, Rec
<1>4. \A s : In(s) \subseteq In(s)' /\ In(s)' \subseteq In(s) \cup {n} BY <1>2 DEF In
<1>5. Held' = Held /\ Busy' = Busy BY DEF Held, Busy
<1>6. CdcPlace'
  <2>1. \A s \in Shard : checkpoint[s] <= n /\ iters[s] <= n BY DEF CdcPlace
  <2>2. Busy => tail.at \in Held \ tail.pass /\ tail.batch \subseteq In(tail.at)' /\ tail.next <= n BY <1>4 DEF CdcPlace
  <2>3. \A k \in DOMAIN events : events[k] \in 1..n BY DEF CdcPlace
  <2> QED BY <1>2, <1>5, <2>1, <2>2, <2>3 DEF CdcPlace
<1>7. ShardsInOrder' BY <1>2 DEF ShardsInOrder, ShardOf
<1>8. Covered' BY <1>2, <1>4, <1>5 DEF Covered, IsEvent, ShardOf, CdcPlace, Held
<1>9. BatchIsNext'
  <2>1. CASE ~ Busy BY <2>1, <1>5 DEF BatchIsNext
  <2>2. CASE Busy
    <3>1. tail.batch \subseteq 1..Len(records) /\ tail.next <= Len(records) BY <2>2 DEF CdcPlace
    <3>2. tail.pc = "save" => Min(tail.batch) \in 1..Len(records)
      <4>1. tail.batch \in SUBSET Nat BY <3>1
      <4> QED BY <3>1, <4>1, MinIsLeast DEF CdcPlace
    <3>3. tail.pc = "save" => records'[Min(tail.batch)] = records[Min(tail.batch)] BY <1>2, <3>2
    <3>4. \A i \in In(tail.at)' : i \in In(tail.at) \/ i = Len(records) + 1 BY <1>4
    <3>5. \A i \in In(tail.at)' : \A j \in tail.batch : i < j => i \in tail.batch \/ i <= checkpoint[tail.at]
      BY <2>2, <3>1, <3>4 DEF BatchIsNext
    <3>6. tail.next # NoIterator => \A i \in In(tail.at)' : i <= tail.next => i \in tail.batch \/ i <= checkpoint[tail.at]
      <4>1. ASSUME NEW i \in In(tail.at), tail.next # NoIterator, i <= tail.next PROVE i \in tail.batch \/ i <= checkpoint[tail.at]
        BY <2>2, <4>1 DEF BatchIsNext
      <4>2. ASSUME NEW i \in In(tail.at)', tail.next # NoIterator, i <= tail.next PROVE i \in tail.batch \/ i <= checkpoint[tail.at]
        <5>1. Len(records) \in Nat /\ tail.next \in Int OBVIOUS
        <5>2. i # Len(records) + 1 BY <3>1, <4>2, <5>1
        <5>3. i \in In(tail.at) BY <3>4, <4>2, <5>2, Zenon
        <5> QED BY <4>1, <4>2, <5>3
      <4> QED BY <4>2
    <3>7. tail.pc = "save" /\ IsEvent(Min(tail.batch))' => \E k \in DOMAIN events : events[k] = Min(tail.batch)
      BY <2>2, <3>3 DEF BatchIsNext, IsEvent
    <3>8. Min(tail.batch)' = Min(tail.batch) BY DEF Min
    <3> QED BY <2>2, <3>5, <3>6, <3>7, <3>8 DEF BatchIsNext, IsEvent
  <2> QED BY <2>1, <2>2
<1>10. PassEndsShards' BY <1>5 DEF PassEndsShards
<1>11. NothingBehind'
  <2> SUFFICES ASSUME limit >= MaxRecords, NEW k \in DOMAIN events
               PROVE  /\ \A i \in In(ShardOf(events[k]))' : checkpoint[ShardOf(events[k])] < i => events[k] <= i
                      /\ \A s \in Held \cup tail.todo : ShardOf(events[k]) <= s
    BY <1>2, <1>5 DEF NothingBehind, ShardOf, CdcPlace
  <2>1. events[k] \in 1..Len(records) BY DEF CdcPlace
  <2>2. \A i \in In(ShardOf(events[k])) : checkpoint[ShardOf(events[k])] < i => events[k] <= i BY DEF NothingBehind
  <2>3. ASSUME NEW i \in In(ShardOf(events[k]))', checkpoint[ShardOf(events[k])] < i PROVE events[k] <= i
    <3>1. i \in In(ShardOf(events[k])) \/ i = n BY <1>2, <2>1, <2>3 DEF In, ShardOf
    <3> QED BY <2>1, <2>2, <2>3, <3>1
  <2>4. \A s \in Held \cup tail.todo : ShardOf(events[k]) <= s BY DEF NothingBehind
  <2> QED BY <2>3, <2>4
<1>12. PublishedInOrder' BY DEF PublishedInOrder
<1> QED BY <1>3, <1>6, <1>7, <1>8, <1>9, <1>10, <1>11, <1>12

LEMMA SplitKept == ASSUME CdcInv, Split PROVE CdcInv'
<1> USE CdcNumbers, StreamAssumption DEF CdcInv
<1>1. open' = open + 1 /\ UNCHANGED <<records, latest, checkpoint, iters, listed, relist, tail, events, limit, faults>>
  BY DEF Split
<1>2. open' \in Shard BY <1>1 DEF Split, Shard
<1>3. TailTypeOK' BY <1>1, <1>2 DEF TailTypeOK
<1>4. Held' = Held /\ Busy' = Busy /\ (\A s : In(s)' = In(s)) BY <1>1 DEF Held, Busy, In
<1>5. CdcPlace' BY <1>1, <1>4 DEF CdcPlace
<1>6. ShardsInOrder' BY <1>1 DEF ShardsInOrder, ShardOf
<1>7. Covered' /\ BatchIsNext' BY <1>1, <1>4 DEF Covered, BatchIsNext, IsEvent, ShardOf
<1>8. PassEndsShards' /\ NothingBehind' /\ PublishedInOrder' BY <1>1, <1>4 DEF PassEndsShards, NothingBehind, PublishedInOrder, ShardOf
<1> QED BY <1>3, <1>5, <1>6, <1>7, <1>8

\* The tailer can go back to the top, or on to a pass.
LEMMA TopIsPlace ==
  /\ Top \in Loop
  /\ \A some \in SUBSET Shard : [Top EXCEPT !.pc = "iterators", !.todo = some] \in Loop
  /\ \A some \in SUBSET Shard, pc \in {"top", "pass"} : [Top EXCEPT !.pc = pc, !.pass = some] \in Loop
<1>1. 0 \in 0..MaxShards /\ NoIterator \in Position BY StreamAssumption DEF Position
<1> QED BY <1>1 DEF Top, Loop

-----------------------------------------------------------------------------
\* A step of run() that leaves the table, the checkpoints and the events.
LEMMA ListShardsKept == ASSUME CdcInv, ListShards PROVE CdcInv'
<1> USE CdcNumbers, StreamAssumption DEF CdcInv
<1> DEFINE todo == {s \in 1..open : ~ Closed(s) /\ s \notin Held}
<1>1. /\ tail' = [Top EXCEPT !.pc = "iterators", !.todo = todo]
      /\ UNCHANGED <<records, latest, open, checkpoint, iters, listed, relist, events, limit, faults>>
  BY DEF ListShards, streamVars
<1>2. todo \subseteq {open} BY DEF Closed
<1> HIDE DEF todo
<1>3. tail' \in Loop
  <2>1. todo \in SUBSET Shard BY <1>2
  <2> QED BY <1>1, <2>1, TopIsPlace
<1>4. tail'.pc = "iterators" /\ tail'.todo = todo /\ tail'.pass = {} BY <1>1 DEF Top
<1>5. TailTypeOK' BY <1>1, <1>3 DEF TailTypeOK
<1>6. Held' = Held /\ ~ Busy' /\ ~ Busy /\ (\A s : In(s)' = In(s))
  BY <1>1, <1>4 DEF ListShards, Held, Busy, In
<1>7. CdcPlace'
  <2>1. tail'.todo \subseteq 1..open BY <1>2, <1>4
  <2> QED BY <1>1, <1>4, <1>6, <2>1 DEF CdcPlace
<1>8. ShardsInOrder' BY <1>1 DEF ShardsInOrder, ShardOf
<1>9. Covered' /\ BatchIsNext' BY <1>1, <1>6 DEF Covered, BatchIsNext, IsEvent, ShardOf
<1>10. PassEndsShards' BY <1>4, <1>6 DEF PassEndsShards
<1>11. NothingBehind'
  <2>1. \A k \in DOMAIN events : ShardOf(events[k]) <= open BY DEF CdcPlace, ShardsInOrder
  <2> QED BY <1>1, <1>2, <1>4, <1>6, <2>1 DEF NothingBehind, ShardOf
<1>12. PublishedInOrder' BY <1>1 DEF PublishedInOrder
<1> QED BY <1>5, <1>7, <1>8, <1>9, <1>10, <1>11, <1>12

LEMMA GetIteratorKept == ASSUME CdcInv, NEW s \in Shard, GetIterator(s) PROVE CdcInv'
<1> USE CdcNumbers, StreamAssumption DEF CdcInv
<1>1. /\ tail' = [tail EXCEPT !.todo = tail.todo \ {s}] /\ iters' = [iters EXCEPT ![s] = checkpoint[s]]
      /\ listed' = listed \cup {s} /\ tail.pc = "iterators" /\ s \in tail.todo
      /\ UNCHANGED <<records, latest, open, checkpoint, relist, events, limit, faults>>
  BY DEF GetIterator, streamVars, Iterator
<1>2. /\ tail' \in Loop /\ tail'.pc = "iterators" /\ tail'.todo = tail.todo \ {s}
      /\ tail'.pass = tail.pass /\ tail'.batch = tail.batch
  BY <1>1 DEF TailTypeOK, Loop
<1>3. iters' \in [Shard -> Position] /\ iters'[s] = checkpoint[s] /\ \A z \in Shard \ {s} : iters'[z] = iters[z]
  BY <1>1 DEF TailTypeOK, Position
<1>4. TailTypeOK' BY <1>1, <1>2, <1>3 DEF TailTypeOK
<1>5. Held' = Held \cup {s} /\ ~ Busy /\ ~ Busy' /\ \A z : In(z)' = In(z)
  BY <1>1, <1>2, <1>3 DEF Held, NoIterator, Busy, In
<1>6. CdcPlace' BY <1>1, <1>2, <1>3, <1>5 DEF CdcPlace
<1>7. ShardsInOrder' BY <1>1 DEF ShardsInOrder, ShardOf
<1>8. Covered'
  <2>1. \A z \in Held' : \A i \in In(z) : i <= iters'[z] => i <= checkpoint[z] BY <1>3, <1>5 DEF Covered, Held
  <2>2. \A z \in Held' : checkpoint[z] <= iters'[z] BY <1>3, <1>5 DEF Covered, Held
  <2> QED BY <1>1, <1>5, <2>1, <2>2 DEF Covered, IsEvent, ShardOf
<1>12. BatchIsNext' BY <1>5 DEF BatchIsNext
<1>9. PassEndsShards' BY <1>2, <1>5 DEF PassEndsShards
<1>10. NothingBehind' BY <1>1, <1>2, <1>5 DEF NothingBehind, ShardOf
<1>11. PublishedInOrder' BY <1>1 DEF PublishedInOrder
<1> QED BY <1>4, <1>6, <1>7, <1>8, <1>9, <1>10, <1>11, <1>12

LEMMA StartPassKept == ASSUME CdcInv, StartPass PROVE CdcInv'
<1> USE CdcNumbers, StreamAssumption DEF CdcInv
<1>1. /\ tail' = [Top EXCEPT !.pc = IF Held = {} THEN "top" ELSE "pass", !.pass = Held]
      /\ relist' = FALSE /\ tail.pc \in {"top", "iterators"}
      /\ UNCHANGED <<records, latest, open, checkpoint, iters, listed, events, limit, faults>>
  BY DEF StartPass, streamVars
<1>2. Held \subseteq Shard BY DEF Held
<1>3. tail' \in Loop
  <2>1. Held \in SUBSET Shard BY <1>2
  <2> QED BY <1>1, <2>1, TopIsPlace
<1>4. tail'.pc = (IF Held = {} THEN "top" ELSE "pass") /\ tail'.todo = {} /\ tail'.pass = Held BY <1>1 DEF Top
<1>5. TailTypeOK' BY <1>1, <1>3 DEF TailTypeOK
<1>6. Held' = Held /\ ~ Busy' /\ ~ Busy /\ (\A s : In(s)' = In(s))
  BY <1>1, <1>4 DEF Held, Busy, In
<1>7. CdcPlace' BY <1>1, <1>4, <1>6 DEF CdcPlace
<1>8. ShardsInOrder' BY <1>1 DEF ShardsInOrder, ShardOf
<1>9. Covered' /\ BatchIsNext' BY <1>1, <1>6 DEF Covered, BatchIsNext, IsEvent, ShardOf
<1>10. PassEndsShards' BY <1>4, <1>6 DEF PassEndsShards
<1>11. NothingBehind' BY <1>1, <1>4, <1>6 DEF NothingBehind, ShardOf
<1>12. PublishedInOrder' BY <1>1 DEF PublishedInOrder
<1> QED BY <1>5, <1>7, <1>8, <1>9, <1>10, <1>11, <1>12

LEMMA CdcCounts == \A S : Cardinality(S) = Cardinality(S)
BY DEF Cardinality, Cardinality

\* What NextIterator says of a batch: the records of a closed shard that has been
\* read to its end are all in it.
LEMMA GetRecordsKept == ASSUME CdcInv, GetRecords PROVE CdcInv'
<1> DEFINE s == Min(tail.pass)
           ahead == {i \in In(s) : i > iters[s]}
           batch == {i \in ahead : Cardinality({j \in ahead : j <= i}) <= limit}
           next == NextIterator(s, batch)
<1>1. /\ tail' = [tail EXCEPT !.pc = "batch", !.at = s, !.pass = tail.pass \ {s}, !.batch = batch, !.next = next]
      /\ tail.pc = "pass"
      /\ UNCHANGED <<records, latest, open, checkpoint, iters, listed, relist, events, limit, faults>>
  BY DEF GetRecords, streamVars
<1> USE CdcNumbers, StreamAssumption DEF CdcInv
<1>2. s \in tail.pass /\ (\A z \in tail.pass : s <= z) /\ s \in Shard /\ s \in Held /\ s \in 0..MaxShards
  <2>1. tail.pass \in SUBSET Nat /\ tail.pass # {} BY <1>1 DEF CdcPlace
  <2>2. s \in tail.pass /\ \A z \in tail.pass : s <= z BY <2>1, MinIsLeast
  <2> QED BY <2>2 DEF CdcPlace, Shard
<1>3. ahead \subseteq 1..Len(records) /\ ahead \subseteq In(s) /\ batch \subseteq ahead OBVIOUS
<1>4. \A i \in batch, j \in ahead : j <= i => j \in batch
  <2> SUFFICES ASSUME NEW i \in batch, NEW j \in ahead, j <= i PROVE Cardinality({k \in ahead : k <= j}) <= limit BY CdcCounts
  <2>1. IsFiniteSet({k \in ahead : k <= i})
    <3>1. IsFiniteSet(1..Len(records)) BY FS_Interval
    <3> QED BY <1>3, <3>1, FS_Subset
  <2>2. {k \in ahead : k <= j} \subseteq {k \in ahead : k <= i} BY <1>3
  <2>3. Cardinality({k \in ahead : k <= j}) <= Cardinality({k \in ahead : k <= i}) BY <2>1, <2>2, FS_Subset
  <2>4. Cardinality({k \in ahead : k <= j}) \in Nat /\ Cardinality({k \in ahead : k <= i}) \in Nat BY <2>1, <2>2, FS_Subset, FS_CardinalityType
  <2>5. Cardinality({k \in ahead : k <= i}) <= limit BY CdcCounts
  <2> QED BY <2>3, <2>4, <2>5
<1>5. limit >= MaxRecords => batch = ahead
  <2> SUFFICES ASSUME limit >= MaxRecords, NEW i \in ahead PROVE Cardinality({j \in ahead : j <= i}) <= limit BY CdcCounts
  <2>1. {j \in ahead : j <= i} \subseteq 1..Len(records) BY <1>3
  <2>2. IsFiniteSet(1..Len(records)) /\ Cardinality(1..Len(records)) = Len(records)
    <3>1. 1 \in Int /\ Len(records) \in Int OBVIOUS
    <3>2. Cardinality(1..Len(records)) = IF 1 > Len(records) THEN 0 ELSE Len(records) - 1 + 1 BY <3>1, FS_Interval
    <3>3. IsFiniteSet(1..Len(records)) BY <3>1, FS_Interval
    <3> QED BY <3>2, <3>3
  <2>3. Cardinality({j \in ahead : j <= i}) <= Len(records) /\ Cardinality({j \in ahead : j <= i}) \in Nat
    BY <2>1, <2>2, FS_Subset, FS_CardinalityType
  <2> QED BY <2>3
<1>6. In(s) \cap {i \in Record : i > iters[s]} = ahead BY DEF Record, In
<1> HIDE DEF s
<1> HIDE DEF ahead, batch
<1>7. iters[s] \in Nat /\ checkpoint[s] <= iters[s] /\ iters[s] <= Len(records)
  <2>1. iters[s] # -1 BY <1>2 DEF Held, NoIterator
  <2>2. ~ Busy BY <1>1 DEF Busy
  <2> QED BY <1>2, <2>1, <2>2 DEF Covered, CdcPlace
<1>8. /\ next \in Position /\ next <= Len(records)
      /\ next # NoIterator =>
           /\ checkpoint[s] <= next
           /\ \A i \in batch : i <= next
           /\ \A i \in In(s) : i <= next => i \in batch \/ i <= checkpoint[s]
  <2>1. CASE next = NoIterator BY <2>1 DEF Position, NoIterator
  <2>2. CASE batch = {} /\ next = iters[s] BY <1>2, <1>7, <2>2 DEF Position, Covered
  <2>3. CASE batch # {} /\ next = Max(batch)
    <3>1. batch \in SUBSET (1..Len(records)) BY <1>3
    <3>2. next \in batch /\ \A i \in batch : i <= next BY <2>3, <3>1, MaxIsGreatest
    <3>3. iters[s] < next BY <1>3, <3>2 DEF ahead
    <3>4. ASSUME NEW i \in In(s), i <= next PROVE i \in batch \/ i <= checkpoint[s]
      <4>1. CASE i <= iters[s] BY <1>2, <4>1 DEF Covered
      <4>2. CASE i > iters[s] BY <1>4, <3>2, <3>4, <4>2 DEF ahead
      <4> QED BY <1>7, <4>1, <4>2
    <3>5. next \in 1..Len(records) BY <3>1, <3>2
    <3>6. next \in Position BY <3>5 DEF Position
    <3>7. checkpoint[s] <= next BY <1>2, <1>7, <3>3, <3>5
    <3> QED BY <3>2, <3>4, <3>5, <3>6, <3>7
  <2> QED BY <2>1, <2>2, <2>3 DEF NextIterator
<1>9. limit >= MaxRecords /\ tail.pass \ {s} # {} => next = NoIterator
  <2>1. ASSUME NEW z \in tail.pass \ {s} PROVE s < open
    <3>1. z \in 1..open /\ s \in 1..open /\ s <= z BY <1>2 DEF CdcPlace
    <3> QED BY <2>1, <3>1
  <2> QED BY <1>5, <1>6, <2>1 DEF NextIterator, Closed
<1> HIDE DEF next
<1>10. batch \in SUBSET Record
  <2>1. batch \subseteq 1..Len(records) BY <1>3
  <2> QED BY <2>1 DEF Record
<1>11. /\ tail' \in Loop /\ tail'.pc = "batch" /\ tail'.at = s /\ tail'.pass = tail.pass \ {s}
       /\ tail'.batch = batch /\ tail'.next = next /\ tail'.todo = tail.todo
  <2>1. tail \in Loop /\ tail.pass \ {s} \in SUBSET Shard BY DEF TailTypeOK
  <2> QED BY <1>1, <1>2, <1>8, <1>10, <2>1 DEF Loop
<1>12. TailTypeOK' BY <1>1, <1>11 DEF TailTypeOK
<1>13. Held' = Held /\ Busy' /\ ~ Busy /\ (\A z : In(z)' = In(z))
  BY <1>1, <1>11 DEF Held, Busy, In
<1>14. CdcPlace'
  <2>1. tail'.batch \subseteq In(s) BY <1>3, <1>11
  <2> QED BY <1>1, <1>2, <1>8, <1>11, <1>13, <2>1 DEF CdcPlace
<1>15. ShardsInOrder' BY <1>1 DEF ShardsInOrder, ShardOf
<1>16. Covered' BY <1>1, <1>11, <1>13 DEF Covered, IsEvent, ShardOf
<1>17. BatchIsNext'
  <2>1. \A i \in batch : checkpoint[s] < i BY <1>2, <1>3, <1>7 DEF ahead
  <2>2. ASSUME NEW i \in In(s), NEW j \in batch, i < j PROVE i \in batch \/ i <= checkpoint[s]
    <3>1. CASE i <= iters[s] BY <1>2, <3>1 DEF Covered
    <3>2. CASE i > iters[s] BY <1>3, <1>4, <2>2, <3>2 DEF ahead
    <3> QED BY <1>7, <3>1, <3>2
  <2> QED BY <1>1, <1>8, <1>11, <1>13, <2>1, <2>2 DEF BatchIsNext
<1>18. PassEndsShards'
  <2>1. limit >= MaxRecords => Held \subseteq tail.pass BY <1>1 DEF PassEndsShards
  <2>2. ASSUME NEW z \in tail.pass \ {s} PROVE s < z
    <3>1. z \in Nat /\ s \in Nat /\ s <= z BY <1>2 DEF CdcPlace
    <3> QED BY <2>2, <3>1
  <2> QED BY <1>1, <1>9, <1>11, <1>13, <2>1, <2>2 DEF PassEndsShards
<1>19. NothingBehind' BY <1>1, <1>11, <1>13 DEF NothingBehind, ShardOf
<1>20. PublishedInOrder' BY <1>1 DEF PublishedInOrder
<1> QED BY <1>12, <1>14, <1>15, <1>16, <1>17, <1>18, <1>19, <1>20

\* An event is enqueued after all that come before it in the stream.
LEMMA PublishEventKept == ASSUME CdcInv, PublishEvent PROVE CdcInv'
<1> USE CdcNumbers, StreamAssumption DEF CdcInv
<1> DEFINE m == Min(tail.batch)
<1>1. /\ tail' = [tail EXCEPT !.pc = "save"] /\ tail.pc = "batch" /\ tail.batch # {}
      /\ events' = IF IsEvent(m) THEN Append(events, m) ELSE events
      /\ UNCHANGED <<records, latest, open, checkpoint, iters, listed, relist, limit, faults>>
  BY DEF PublishEvent, streamVars
<1>2. Busy /\ tail.at \in Held /\ tail.at \in Shard /\ tail.batch \subseteq In(tail.at)
  BY <1>1 DEF Busy, CdcPlace, Held
<1>3. m \in tail.batch /\ (\A i \in tail.batch : m <= i) /\ m \in In(tail.at) /\ m \in 1..Len(records)
  <2>1. tail.batch \in SUBSET Nat /\ tail.batch # {} BY <1>1, <1>2
  <2> QED BY <1>2, <2>1, MinIsLeast
<1> HIDE DEF m
<1>4. ShardOf(m) = tail.at BY <1>3 DEF In, ShardOf
<1>5. /\ tail' \in Loop /\ tail'.pc = "save" /\ tail'.at = tail.at /\ tail'.pass = tail.pass
      /\ tail'.batch = tail.batch /\ tail'.next = tail.next /\ tail'.todo = tail.todo
  BY <1>1 DEF TailTypeOK, Loop
<1>6. events \in Seq(Record) /\ m \in Record BY <1>3 DEF TailTypeOK, Record
<1>7. /\ events' \in Seq(Record)
      /\ \A k \in DOMAIN events : k \in DOMAIN events' /\ events'[k] = events[k]
      /\ \A k \in DOMAIN events' : k \in DOMAIN events \/ (k = Len(events) + 1 /\ events'[k] = m)
      /\ IsEvent(m) => \E k \in DOMAIN events' : events'[k] = m
  <2>1. CASE IsEvent(m)
    <3>1. events' = Append(events, m) BY <1>1, <2>1
    <3>2. events' \in Seq(Record) /\ Len(events') = Len(events) + 1 /\ events'[Len(events) + 1] = m BY <1>6, <3>1
    <3>3. \A k \in 1..Len(events) : events'[k] = events[k] BY <1>6, <3>1
    <3>4. DOMAIN events = 1..Len(events) /\ DOMAIN events' = 1..Len(events) + 1 BY <1>6, <3>2
    <3> QED BY <1>6, <3>2, <3>3, <3>4
  <2>2. CASE ~ IsEvent(m) BY <1>1, <1>6, <2>2
  <2> QED BY <2>1, <2>2
<1>8. TailTypeOK' BY <1>1, <1>5, <1>7 DEF TailTypeOK
<1>9. Held' = Held /\ Busy' /\ (\A z : In(z)' = In(z)) /\ Min(tail.batch)' = m
  BY <1>1, <1>5 DEF Held, Busy, In, Min, m
<1>10. CdcPlace'
  <2>1. \A k \in DOMAIN events' : events'[k] \in DOMAIN records' BY <1>1, <1>3, <1>7 DEF CdcPlace
  <2> QED BY <1>1, <1>2, <1>5, <1>9, <2>1 DEF CdcPlace
<1>11. ShardsInOrder' BY <1>1 DEF ShardsInOrder, ShardOf
<1>12. Covered'
  <2>1. \A i \in DOMAIN records : IsEvent(i) /\ i <= checkpoint[ShardOf(i)] => \E k \in DOMAIN events' : events'[k] = i
    BY <1>7 DEF Covered
  <2> QED BY <1>1, <1>2, <1>5, <1>9, <2>1 DEF Covered, IsEvent, ShardOf
<1>13. BatchIsNext'
  <2>1. records'[m].name = "INSERT" => \E k \in DOMAIN events' : events'[k] = m BY <1>1, <1>7 DEF IsEvent
  <2>2. \A i : IsEvent(i)' <=> records'[i].name = "INSERT" BY DEF IsEvent
  <2> QED BY <1>1, <1>2, <1>5, <1>9, <2>1, <2>2 DEF BatchIsNext
<1>14. PassEndsShards' BY <1>1, <1>2, <1>5, <1>9 DEF PassEndsShards
<1>15. ASSUME limit >= MaxRecords, NEW k \in DOMAIN events PROVE events[k] <= m
  <2>1. events[k] \in 1..Len(records) BY DEF CdcPlace
  <2>2. ShardOf(events[k]) <= tail.at /\ ShardOf(events[k]) \in Nat BY <1>2, <1>15, <2>1 DEF NothingBehind
  <2>3. CASE ShardOf(events[k]) = tail.at BY <1>2, <1>3, <1>15, <2>3 DEF NothingBehind, BatchIsNext
  <2>4. CASE ShardOf(events[k]) < tail.at BY <1>2, <1>3, <1>4, <2>1, <2>2, <2>4 DEF ShardsInOrder
  <2> QED BY <1>2, <2>2, <2>3, <2>4
<1>16. NothingBehind'
  <2> SUFFICES ASSUME limit >= MaxRecords, NEW k \in DOMAIN events'
               PROVE  /\ \A i \in In(ShardOf(events'[k])) : checkpoint[ShardOf(events'[k])] < i => events'[k] <= i
                      /\ \A s \in Held \cup tail.todo : ShardOf(events'[k]) <= s
    BY <1>1, <1>5, <1>9 DEF NothingBehind, ShardOf
  <2>1. CASE k \in DOMAIN events BY <1>7, <2>1 DEF NothingBehind
  <2>2. CASE events'[k] = m
    <3>1. \A i \in In(tail.at) : checkpoint[tail.at] < i => m <= i
      <4> SUFFICES ASSUME NEW i \in In(tail.at), checkpoint[tail.at] < i, i < m PROVE FALSE BY <1>3
      <4>1. i \in Nat /\ m \in Nat /\ checkpoint[tail.at] \in Nat BY <1>2, <1>3
      <4>2. i \in tail.batch \/ i <= checkpoint[tail.at] BY <1>2, <1>3 DEF BatchIsNext
      <4> QED BY <1>3, <4>1, <4>2
    <3>2. ASSUME NEW s \in Held PROVE tail.at <= s
      <4>1. s \in Nat /\ tail.at \in Nat BY <1>2 DEF CdcPlace
      <4>2. s = tail.at \/ tail.at < s BY <1>1, <1>2 DEF PassEndsShards
      <4> QED BY <4>1, <4>2
    <3>3. tail.todo = {} BY <1>1 DEF CdcPlace
    <3> QED BY <1>4, <2>2, <3>1, <3>2, <3>3
  <2> QED BY <1>7, <2>1, <2>2
<1>17. PublishedInOrder'
  <2> SUFFICES ASSUME limit >= MaxRecords, NEW j \in 2..Len(events') PROVE events'[j - 1] <= events'[j]
    BY <1>1 DEF PublishedInOrder
  <2>1. Len(events) \in Nat /\ DOMAIN events = 1..Len(events) /\ DOMAIN events' = 1..Len(events') BY <1>6, <1>7
  <2>2. CASE j \in DOMAIN events BY <1>7, <2>1, <2>2 DEF PublishedInOrder
  <2>3. CASE j = Len(events) + 1 /\ events'[j] = m BY <1>7, <1>15, <2>1, <2>3
  <2> QED BY <1>7, <2>1, <2>2, <2>3
<1> QED BY <1>8, <1>10, <1>11, <1>12, <1>13, <1>14, <1>16, <1>17

LEMMA SaveCheckpointKept == ASSUME CdcInv, SaveCheckpoint PROVE CdcInv'
<1> DEFINE m == Min(tail.batch)
<1>1. /\ tail' = [tail EXCEPT !.pc = "batch", !.batch = tail.batch \ {m}] /\ tail.pc = "save"
      /\ checkpoint' = [checkpoint EXCEPT ![tail.at] = m]
      /\ UNCHANGED <<records, latest, open, iters, listed, relist, events, limit, faults>>
  BY DEF SaveCheckpoint, Saved, streamVars
<1> USE CdcNumbers, StreamAssumption DEF CdcInv
<1>2. Busy /\ tail.at \in Held /\ tail.at \in Shard /\ tail.batch \subseteq In(tail.at) /\ tail.batch # {}
  BY <1>1 DEF Busy, CdcPlace, Held
<1>3. m \in tail.batch /\ (\A i \in tail.batch : m <= i) /\ m \in In(tail.at) /\ m \in 1..Len(records)
  <2>1. tail.batch \in SUBSET Nat BY <1>2
  <2> QED BY <1>2, <2>1, MinIsLeast
<1>4. IsEvent(m) => \E k \in DOMAIN events : events[k] = m BY <1>1, <1>2 DEF BatchIsNext
<1> HIDE DEF m
<1>5. /\ tail' \in Loop /\ tail'.pc = "batch" /\ tail'.at = tail.at /\ tail'.pass = tail.pass
      /\ tail'.batch = tail.batch \ {m} /\ tail'.next = tail.next /\ tail'.todo = tail.todo
  <2>1. tail \in Loop /\ tail.batch \in SUBSET Record BY DEF TailTypeOK, Loop
  <2> QED BY <1>1, <2>1 DEF Loop
<1>6. /\ checkpoint' \in [Shard -> 0..MaxRecords] /\ checkpoint'[tail.at] = m
      /\ \A s \in Shard \ {tail.at} : checkpoint'[s] = checkpoint[s]
      /\ checkpoint[tail.at] < m
  <2>1. m \in 0..MaxRecords BY <1>3
  <2>2. checkpoint[tail.at] < m BY <1>2, <1>3 DEF BatchIsNext
  <2> QED BY <1>1, <1>2, <2>1, <2>2 DEF TailTypeOK
<1>7. TailTypeOK' BY <1>1, <1>5, <1>6 DEF TailTypeOK
<1>8. Held' = Held /\ Busy' /\ (\A z : In(z)' = In(z))
  BY <1>1, <1>5 DEF Held, Busy, In
<1>9. CdcPlace'
  <2>1. ASSUME NEW s \in Shard PROVE checkpoint'[s] <= Len(records)
    <3>1. checkpoint[s] <= Len(records) /\ m <= Len(records) BY <1>3 DEF CdcPlace
    <3> QED BY <1>6, <3>1
  <2>2. tail'.batch \subseteq In(tail.at) /\ tail'.next <= Len(records) /\ tail'.todo = {} BY <1>1, <1>2, <1>5 DEF CdcPlace
  <2> QED BY <1>1, <1>2, <1>5, <1>8, <2>1, <2>2 DEF CdcPlace
<1>10. ShardsInOrder' BY <1>1 DEF ShardsInOrder, ShardOf
<1>11. ASSUME NEW i \in In(tail.at), i <= m PROVE i = m \/ i <= checkpoint[tail.at]
  <2>1. i \in Nat /\ m \in Nat BY <1>3
  <2>2. CASE i < m
    <3>1. i \in tail.batch \/ i <= checkpoint[tail.at] BY <1>2, <1>3, <2>2 DEF BatchIsNext
    <3> QED BY <1>3, <2>1, <2>2, <3>1
  <2> QED BY <1>11, <2>1, <2>2
<1>12. Covered'
  <2>1. ASSUME NEW i \in DOMAIN records, IsEvent(i), i <= checkpoint'[ShardOf(i)] PROVE \E k \in DOMAIN events : events[k] = i
    <3>1. CASE ShardOf(i) = tail.at
      <4>1. i \in In(tail.at) BY <3>1 DEF ShardOf, In
      <4>2. i = m \/ i <= checkpoint[tail.at] BY <1>6, <1>11, <2>1, <3>1, <4>1
      <4> QED BY <1>4, <2>1, <3>1, <4>2 DEF Covered
    <3>2. CASE ShardOf(i) # tail.at BY <1>6, <2>1, <3>2 DEF Covered
    <3> QED BY <3>1, <3>2
  <2>2. ASSUME NEW s \in Held, NEW i \in In(s), i <= iters[s] PROVE i <= checkpoint'[s]
    <3>1. i <= checkpoint[s] /\ s \in Shard /\ i \in Nat BY <2>2 DEF Covered, Held
    <3>2. CASE s = tail.at
      <4>1. checkpoint[s] < m /\ checkpoint'[s] = m /\ checkpoint[s] \in Nat /\ m \in Nat BY <1>2, <1>3, <1>6, <3>2
      <4> QED BY <3>1, <4>1
    <3>3. CASE s # tail.at BY <1>6, <3>1, <3>3
    <3> QED BY <3>2, <3>3
  <2>3. ASSUME NEW s \in Held, s # tail.at PROVE checkpoint'[s] <= iters[s]
    BY <1>6, <2>3 DEF Covered, Held
  <2> QED BY <1>1, <1>5, <1>8, <2>1, <2>2, <2>3 DEF Covered, IsEvent, ShardOf
<1>13. BatchIsNext'
  <2>1. ASSUME NEW i \in tail.batch \ {m} PROVE m < i
    <3>1. i \in Nat /\ m \in Nat /\ m <= i BY <1>2, <1>3
    <3> QED BY <2>1, <3>1
  <2>2. \A i \in In(tail.at), j \in tail.batch \ {m} : i < j => i \in tail.batch \ {m} \/ i <= m
    <3> SUFFICES ASSUME NEW i \in In(tail.at), NEW j \in tail.batch, i < j PROVE i \in tail.batch \ {m} \/ i <= m OBVIOUS
    <3>1. i \in tail.batch \/ i <= checkpoint[tail.at] BY <1>2 DEF BatchIsNext
    <3>2. i \in Nat /\ m \in Nat BY <1>3
    <3> QED BY <1>2, <1>6, <3>1, <3>2
  <2>3. tail.next # NoIterator =>
          /\ m <= tail.next
          /\ \A i \in tail.batch \ {m} : i <= tail.next
          /\ \A i \in In(tail.at) : i <= tail.next => i \in tail.batch \ {m} \/ i <= m
    <3>1. ASSUME tail.next # NoIterator, NEW i \in In(tail.at), i <= tail.next PROVE i \in tail.batch \ {m} \/ i <= m
      <4>1. i \in tail.batch \/ i <= checkpoint[tail.at] BY <1>2, <3>1 DEF BatchIsNext
      <4>2. i \in Nat /\ m \in Nat BY <1>3
      <4> QED BY <1>2, <1>6, <4>1, <4>2
    <3> QED BY <1>2, <1>3, <3>1 DEF BatchIsNext
  <2>4. tail'.pc # "save" BY <1>5
  <2> QED BY <1>1, <1>5, <1>6, <1>8, <2>1, <2>2, <2>3, <2>4 DEF BatchIsNext
<1>14. PassEndsShards' BY <1>1, <1>2, <1>5, <1>8 DEF PassEndsShards
<1>15. NothingBehind'
  <2> SUFFICES ASSUME limit >= MaxRecords, NEW k \in DOMAIN events
               PROVE  /\ \A i \in In(ShardOf(events[k])) : checkpoint'[ShardOf(events[k])] < i => events[k] <= i
                      /\ \A s \in Held \cup tail.todo : ShardOf(events[k]) <= s
    BY <1>1, <1>5, <1>8 DEF NothingBehind, ShardOf
  <2>1. events[k] \in DOMAIN records /\ ShardOf(events[k]) \in Shard BY DEF CdcPlace
  <2>2. ASSUME NEW i \in In(ShardOf(events[k])), checkpoint'[ShardOf(events[k])] < i PROVE events[k] <= i
    <3>1. checkpoint[ShardOf(events[k])] < i
      <4>1. i \in Nat BY <2>1
      <4>2. CASE ShardOf(events[k]) = tail.at
        <5>1. checkpoint[tail.at] < m /\ m < i /\ checkpoint[tail.at] \in Nat /\ m \in Nat BY <1>2, <1>3, <1>6, <2>2, <4>2
        <5> QED BY <4>1, <4>2, <5>1
      <4>3. CASE ShardOf(events[k]) # tail.at BY <1>6, <2>1, <2>2, <4>3
      <4> QED BY <4>2, <4>3
    <3> QED BY <3>1 DEF NothingBehind
  <2> QED BY <2>2 DEF NothingBehind
<1>16. PublishedInOrder' BY <1>1 DEF PublishedInOrder
<1> QED BY <1>7, <1>9, <1>10, <1>12, <1>13, <1>14, <1>15, <1>16

LEMMA BatchDoneKept == ASSUME CdcInv, BatchDone PROVE CdcInv'
<1>1. /\ tail' = IF tail.pass = {} THEN Top ELSE [Top EXCEPT !.pc = "pass", !.pass = tail.pass]
      /\ tail.pc = "batch" /\ tail.batch = {} /\ iters' = [iters EXCEPT ![tail.at] = tail.next]
      /\ UNCHANGED <<records, latest, open, checkpoint, listed, relist, events, limit, faults>>
  BY DEF BatchDone, streamVars
<1> USE CdcNumbers, StreamAssumption DEF CdcInv
<1>2. Busy /\ tail.at \in Held /\ tail.at \in Shard /\ tail.next \in Position /\ tail.next <= Len(records)
  BY <1>1 DEF Busy, CdcPlace, Held, TailTypeOK, Loop
<1>3. tail' \in Loop
  <2>1. tail.pass \in SUBSET Shard OBVIOUS
  <2> QED BY <1>1, <2>1, TopIsPlace
<1>4. tail'.pc = (IF tail.pass = {} THEN "top" ELSE "pass") /\ tail'.todo = {} /\ tail'.pass = tail.pass
  BY <1>1 DEF Top
<1>5. iters' \in [Shard -> Position] /\ iters'[tail.at] = tail.next /\ \A s \in Shard \ {tail.at} : iters'[s] = iters[s]
  BY <1>1, <1>2 DEF TailTypeOK
<1>6. TailTypeOK' BY <1>1, <1>3, <1>5 DEF TailTypeOK
<1>7. /\ Held' \subseteq Held /\ Held \ {tail.at} \subseteq Held'
      /\ tail.next = NoIterator => tail.at \notin Held'
  BY <1>2, <1>5 DEF Held, NoIterator
<1>8. ~ Busy' /\ (\A s : In(s)' = In(s)) BY <1>1, <1>4 DEF Busy, In
<1>9. tail.pass \subseteq Held' /\ tail.at \notin tail.pass BY <1>2, <1>7 DEF CdcPlace
<1>10. CdcPlace'
  <2>1. \A s \in Shard : iters'[s] <= Len(records) BY <1>2, <1>5 DEF CdcPlace
  <2>2. Held' \subseteq 1..open BY <1>7 DEF CdcPlace
  <2> QED BY <1>1, <1>4, <1>8, <1>9, <2>1, <2>2 DEF CdcPlace
<1>11. ShardsInOrder' BY <1>1 DEF ShardsInOrder, ShardOf
<1>12. Covered'
  <2>1. ASSUME NEW s \in Held' PROVE (\A i \in In(s) : i <= iters'[s] => i <= checkpoint[s]) /\ checkpoint[s] <= iters'[s]
    <3>1. CASE s = tail.at BY <1>1, <1>2, <1>5, <1>7, <2>1, <3>1 DEF BatchIsNext
    <3>2. CASE s # tail.at
      <4>1. s \in Held /\ s \in Shard BY <1>7, <2>1 DEF Held
      <4> QED BY <1>5, <3>2, <4>1 DEF Covered
    <3> QED BY <3>1, <3>2
  <2> QED BY <1>1, <1>8, <2>1 DEF Covered, IsEvent, ShardOf
<1>13. BatchIsNext' BY <1>8 DEF BatchIsNext
<1>14. PassEndsShards'
  <2> SUFFICES ASSUME limit >= MaxRecords, tail'.pc = "pass" PROVE Held' \subseteq tail.pass
    BY <1>1, <1>4, <1>8 DEF PassEndsShards
  <2>1. tail.pass # {} BY <1>4
  <2>2. Held \subseteq tail.pass \cup {tail.at} /\ tail.next = NoIterator BY <1>1, <1>2, <2>1 DEF PassEndsShards
  <2> QED BY <1>7, <2>2
<1>15. NothingBehind' BY <1>1, <1>4, <1>7, <1>8 DEF NothingBehind, ShardOf
<1>16. PublishedInOrder' BY <1>1 DEF PublishedInOrder
<1> QED BY <1>6, <1>10, <1>11, <1>12, <1>13, <1>14, <1>15, <1>16

\* After an error or a restart every iterator is opened anew.
LEMMA FailsKept == ASSUME CdcInv, Fails PROVE CdcInv'
<1>1. /\ tail' = Top /\ iters' = [s \in Shard |-> NoIterator] /\ listed' = {} /\ relist' = TRUE
      /\ faults' = faults + 1 /\ faults < MaxFaults
      /\ UNCHANGED <<records, latest, open, checkpoint, events, limit>>
  BY DEF Fails, streamVars
<1> USE CdcNumbers, StreamAssumption DEF CdcInv
<1>2. tail' \in Loop /\ tail'.pc = "top" /\ tail'.todo = {} /\ tail'.pass = {}
  BY <1>1, TopIsPlace DEF Top
<1>3. iters' \in [Shard -> Position] BY <1>1 DEF Position
<1>4. faults' \in 0..MaxFaults BY <1>1, StreamAssumption DEF TailTypeOK
<1>5. TailTypeOK' BY <1>1, <1>2, <1>3, <1>4 DEF TailTypeOK
<1>6. Held' = {} /\ ~ Busy' /\ (\A s : In(s)' = In(s)) BY <1>1, <1>2 DEF Held, Busy, In
<1>7. CdcPlace'
  <2>1. \A s \in Shard : iters'[s] <= Len(records) BY <1>1 DEF NoIterator
  <2> QED BY <1>1, <1>2, <1>6, <2>1 DEF CdcPlace
<1>8. ShardsInOrder' BY <1>1 DEF ShardsInOrder, ShardOf
<1>9. Covered' /\ BatchIsNext' BY <1>1, <1>6 DEF Covered, BatchIsNext, IsEvent, ShardOf
<1>10. PassEndsShards' BY <1>2, <1>6 DEF PassEndsShards
<1>11. NothingBehind' BY <1>1, <1>2, <1>6 DEF NothingBehind, ShardOf
<1>12. PublishedInOrder' BY <1>1 DEF PublishedInOrder
<1> QED BY <1>5, <1>7, <1>8, <1>9, <1>10, <1>11, <1>12

\* Only the time of the last listing may change.
LEMMA ClockKept ==
  ASSUME CdcInv, relist' \in BOOLEAN,
         UNCHANGED <<records, latest, open, checkpoint, iters, listed, tail, events, limit, faults>>
  PROVE  CdcInv'
<1>1. Held' = Held /\ Busy' = Busy /\ (\A s : In(s)' = In(s)) BY DEF Held, Busy, In
<1>2. TailTypeOK' /\ CdcPlace' /\ ShardsInOrder' BY <1>1 DEF CdcInv, TailTypeOK, CdcPlace, ShardsInOrder, ShardOf
<1>3. Covered' /\ BatchIsNext' BY <1>1 DEF CdcInv, Covered, BatchIsNext, IsEvent, ShardOf
<1>4. PassEndsShards' /\ NothingBehind' BY <1>1 DEF CdcInv, PassEndsShards, NothingBehind, ShardOf
<1>5. PublishedInOrder' BY DEF CdcInv, PublishedInOrder
<1> QED BY <1>2, <1>3, <1>4, <1>5 DEF CdcInv

-----------------------------------------------------------------------------
LEMMA CdcInitially == TailInit => CdcInv
<1> SUFFICES ASSUME TailInit PROVE CdcInv OBVIOUS
<1>1. TailTypeOK
  <2>1. 1 \in Shard BY StreamAssumption DEF Shard
  <2>2. checkpoint \in [Shard -> 0..MaxRecords] /\ iters \in [Shard -> Position] BY StreamAssumption DEF TailInit, Position
  <2>3. records \in Seq([shard : Shard, name : {"INSERT", "MODIFY"}]) /\ Len(records) <= MaxRecords BY StreamAssumption DEF TailInit
  <2>4. events \in Seq(Record) /\ faults \in 0..MaxFaults /\ limit \in Limits BY StreamAssumption DEF TailInit
  <2> QED BY <2>1, <2>2, <2>3, <2>4, TopIsPlace DEF TailInit, TailTypeOK
<1>2. Held = {} /\ tail.pc = "top" /\ tail.todo = {} /\ tail.pass = {} /\ records = <<>> /\ events = <<>>
  BY DEF TailInit, Held, Top
<1>3. DOMAIN records = {} /\ DOMAIN events = {} /\ Len(records) = 0 /\ Len(events) = 0 BY <1>2
<1>4. CdcPlace BY <1>2, <1>3 DEF CdcPlace, TailInit, NoIterator, Busy
<1>5. ShardsInOrder /\ Covered /\ BatchIsNext BY <1>2, <1>3 DEF ShardsInOrder, Covered, BatchIsNext, Busy
<1>6. PassEndsShards BY <1>2 DEF PassEndsShards, Busy
<1>7. NothingBehind /\ PublishedInOrder BY <1>3 DEF NothingBehind, PublishedInOrder
<1> QED BY <1>1, <1>4, <1>5, <1>6, <1>7 DEF CdcInv

LEMMA CdcStep == CdcInv /\ [TailNext]_tailVars => CdcInv'
<1> SUFFICES ASSUME CdcInv, [TailNext]_tailVars PROVE CdcInv' OBVIOUS
<1>1. CASE UNCHANGED tailVars
  <2>1. UNCHANGED <<records, latest, open, checkpoint, iters, listed, relist, tail, events, limit, faults>> BY <1>1 DEF tailVars
  <2> QED BY <2>1, ClockKept DEF CdcInv, TailTypeOK
<1>2. CASE Run
  BY <1>2, ListShardsKept, GetIteratorKept, StartPassKept, GetRecordsKept, PublishEventKept, SaveCheckpointKept, BatchDoneKept
  DEF Run, GetIterators
<1>3. CASE Fails BY <1>3, FailsKept
<1>4. CASE Split BY <1>4, SplitKept
<1>5. CASE MinutePasses BY <1>5, ClockKept DEF MinutePasses, streamVars
<1>6. CASE Backfill \/ \E same \in BOOLEAN : PutItem(same)
  <2>1. PICK name \in {"INSERT", "MODIFY"} :
          /\ Len(records) < MaxRecords /\ latest' \in BOOLEAN
          /\ records' = Append(records, [shard |-> open, name |-> name])
          /\ UNCHANGED <<open, checkpoint, iters, listed, relist, tail, events, limit, faults>>
    BY <1>6 DEF Backfill, PutItem
  <2> QED BY <2>1, NewRecordKept
<1> QED BY <1>1, <1>2, <1>3, <1>4, <1>5, <1>6 DEF TailNext

\* Every step of the table, the stream and the tailer keeps CdcInv.
THEOREM CdcInvariant == TailSpec => []CdcInv
<1>1. TailInit => CdcInv BY CdcInitially
<1>2. CdcInv /\ [TailNext]_tailVars => CdcInv' BY CdcStep
<1> QED BY <1>1, <1>2, PTL DEF TailSpec

\* Every variable of the tailer and its stream keeps its type.
THEOREM CdcTypeCorrect == TailSpec => []TailTypeOK
<1>1. CdcInv => TailTypeOK BY DEF CdcInv
<1> QED BY <1>1, CdcInvariant, PTL

\* DynamoStreamTailer.run: what a checkpoint or an iterator is past has become an
\* event, wherever an error or a restart cuts a pass short.
THEOREM PassedOverIsPublished == TailSpec => []NothingPassedOver
<1>1. CdcInv => NothingPassedOver
  <2> SUFFICES ASSUME CdcInv PROVE NothingPassedOver OBVIOUS
  <2> USE CdcNumbers, StreamAssumption DEF CdcInv
  <2>1. ASSUME NEW i \in DOMAIN records, IsEvent(i), i <= checkpoint[records[i].shard] \/ i <= iters[records[i].shard]
        PROVE  \E k \in DOMAIN events : events[k] = i
    <3>1. i <= iters[ShardOf(i)] => ShardOf(i) \in Held BY DEF Held, NoIterator
    <3>2. i \in In(ShardOf(i)) BY DEF In, ShardOf
    <3> QED BY <2>1, <3>1, <3>2 DEF Covered, ShardOf
  <2> QED BY <2>1 DEF NothingPassedOver, Range
<1> QED BY <1>1, CdcInvariant, PTL

\* DynamoStreamTailer.run: with batches that hold a whole shard, the prices become
\* events in the order in which they were stored, over splits and restarts.
THEOREM PublishedAscending == TailSpec => []PublishedInOrder
<1>1. CdcInv => PublishedInOrder BY DEF CdcInv
<1> QED BY <1>1, CdcInvariant, PTL

-----------------------------------------------------------------------------
(* PriceHistory.  Induction, with the statement as the set of the things   *)
(* it holds for.                                                           *)

LEMMA NumberInduction ==
  ASSUME NEW Q, 0 \in Q, \A n \in Nat : n \in Q => n + 1 \in Q
  PROVE  Nat \subseteq Q
<1> SUFFICES ASSUME Nat \ Q # {} PROVE FALSE OBVIOUS
<1>1. PICK m \in Nat \ Q : \A k \in Nat \ Q : m <= k BY LeastNumber
<1>2. m # 0 /\ m - 1 \in Nat /\ m - 1 \in Q BY <1>1
<1> QED BY <1>1, <1>2

LEMMA SubsetInduction ==
  ASSUME NEW S, IsFiniteSet(S), NEW Q,
         \A s \in SUBSET S : (\A t \in SUBSET S : Cardinality(t) < Cardinality(s) => t \in Q) => s \in Q
  PROVE  SUBSET S \subseteq Q
<1> DEFINE B == (SUBSET S) \ Q
<1> SUFFICES ASSUME B # {} PROVE FALSE OBVIOUS
<1> DEFINE T == {Cardinality(s) : s \in B}
<1>1. \A s \in SUBSET S : Cardinality(s) \in Nat BY FS_Subset, FS_CardinalityType
<1>2. T \in SUBSET Nat /\ T # {} BY <1>1
<1>3. PICK m \in T : \A k \in T : m <= k BY <1>2, LeastNumber
<1>4. PICK s \in B : m = Cardinality(s) BY <1>3
<1>5. ASSUME NEW t \in SUBSET S, Cardinality(t) < Cardinality(s) PROVE t \in Q
  <2>1. t \notin Q => m <= Cardinality(t) BY <1>3
  <2> QED BY <1>1, <1>4, <1>5, <2>1
<1> QED BY <1>4, <1>5

\* What is left of a part of a finite set without one of its members.
LEMMA OneLess ==
  ASSUME NEW S, IsFiniteSet(S), NEW s \in SUBSET S, NEW x \in s
  PROVE  s \ {x} \in SUBSET S /\ Cardinality(s \ {x}) = Cardinality(s) - 1 /\ Cardinality(s) \in Nat
         /\ Cardinality(s \ {x}) < Cardinality(s)
<1>1. IsFiniteSet(s) /\ Cardinality(s) \in Nat BY FS_Subset, FS_CardinalityType
<1>2. Cardinality(s \ {x}) = IF x \in s THEN Cardinality(s) - 1 ELSE Cardinality(s) BY <1>1, FS_RemoveElement
<1> QED BY <1>1, <1>2

\* h is the fold over the parts of S that takes pick[s] from s last.
IsFold(h, S, V, base, step, pick) ==
  /\ h \in [SUBSET S -> V]
  /\ \A s \in SUBSET S : h[s] = IF s = {} THEN base ELSE step[<<pick[s], h[s \ {pick[s]}]>>]

\* A fold over a finite set has a value.
LEMMA FoldExists ==
  ASSUME NEW S, IsFiniteSet(S), NEW V, NEW base \in V, NEW step \in [S \X V -> V],
         NEW pick, \A s \in SUBSET S : s # {} => pick[s] \in s
  PROVE  \E h : IsFold(h, S, V, base, step, pick)
<1> DEFINE Small(n) == {s \in SUBSET S : Cardinality(s) <= n}
           Folds(h, n) == /\ h \in [Small(n) -> V]
                          /\ \A s \in Small(n) : h[s] = IF s = {} THEN base ELSE step[<<pick[s], h[s \ {pick[s]}]>>]
           Q == {n \in Nat : \E h : Folds(h, n)}
<1>1. \A s \in SUBSET S : Cardinality(s) \in Nat BY FS_Subset, FS_CardinalityType
<1>2. 0 \in Q
  <2> DEFINE h == [s \in Small(0) |-> base]
  <2>1. \A s \in Small(0) : s = {} BY <1>1, FS_EmptySet, FS_Subset
  <2>2. Folds(h, 0) BY <2>1
  <2> QED BY <2>2
<1>3. ASSUME NEW n \in Nat, n \in Q PROVE n + 1 \in Q
  <2>1. PICK h : Folds(h, n) BY <1>3
  <2> DEFINE k == [s \in Small(n + 1) |-> IF s = {} THEN base ELSE step[<<pick[s], h[s \ {pick[s]}]>>]]
  <2>2. ASSUME NEW s \in Small(n + 1), s # {} PROVE s \ {pick[s]} \in Small(n) /\ pick[s] \in S
    <3>1. pick[s] \in s /\ s \in SUBSET S BY <2>2
    <3>2. s \ {pick[s]} \in SUBSET S /\ Cardinality(s \ {pick[s]}) = Cardinality(s) - 1 /\ Cardinality(s) \in Nat BY <3>1, OneLess
    <3>3. Cardinality(s) <= n + 1 OBVIOUS
    <3> QED BY <3>1, <3>2, <3>3
  <2>3. k \in [Small(n + 1) -> V] BY <2>1, <2>2
  <2>4. \A s \in Small(n) : s \in Small(n + 1) /\ k[s] = h[s] BY <1>1, <2>1
  <2>5. \A s \in Small(n + 1) : k[s] = IF s = {} THEN base ELSE step[<<pick[s], k[s \ {pick[s]}]>>] BY <2>2, <2>4
  <2>6. Folds(k, n + 1) BY <2>3, <2>5
  <2> HIDE DEF k, Folds
  <2> QED BY <2>6
<1>4. Cardinality(S) \in Nat /\ Cardinality(S) \in Q
  <2> HIDE DEF Q
  <2>1. Cardinality(S) \in Nat BY FS_CardinalityType
  <2> QED BY <1>2, <1>3, <2>1, NumberInduction
<1>5. PICK h : Folds(h, Cardinality(S)) BY <1>4
<1>6. Small(Cardinality(S)) = SUBSET S BY FS_Subset
<1> QED BY <1>5, <1>6 DEF IsFold

-----------------------------------------------------------------------------
(* The sum of the prices of a set of rows does not depend on their order.  *)

SomeOf(s) == CHOOSE x \in s : TRUE

\* The running sums of the parts of S, by a row taken from each.
Sums(c, S) == \A s \in SUBSET S : c[s] = IF s = {} THEN 0 ELSE SomeOf(s).price + c[s \ {SomeOf(s)}]

LEMMA PaidIsSum ==
  ASSUME NEW S, IsFiniteSet(S), \A r \in S : r.price \in Nat
  PROVE  \E c : Sums(c, S) /\ Paid(S) = c[S]
<1> DEFINE Body(c) == [s \in SUBSET S |-> IF s = {} THEN 0 ELSE SomeOf(s).price + c[s \ {SomeOf(s)}]]
           c == CHOOSE c : c = Body(c)
           step == [z \in S \X Nat |-> z[1].price + z[2]]
           pick == [s \in SUBSET S |-> SomeOf(s)]
<1>1. Paid(S) = c[S] BY DEF Paid, MapThenSumSet, MapThenFoldSet, SomeOf
<1>2. \A s \in SUBSET S : s # {} => pick[s] \in s /\ pick[s] = SomeOf(s) /\ SomeOf(s) \in S BY DEF SomeOf
<1>3. step \in [S \X Nat -> Nat] OBVIOUS
<1>4. PICK h : IsFold(h, S, Nat, 0, step, pick)
  <2>1. \A s \in SUBSET S : s # {} => pick[s] \in s BY <1>2
  <2>2. 0 \in Nat OBVIOUS
  <2> HIDE DEF step, pick
  <2> QED BY <1>3, <2>1, <2>2, FoldExists
<1>5. h = Body(h)
  <2>0. /\ h \in [SUBSET S -> Nat]
        /\ \A s \in SUBSET S : h[s] = IF s = {} THEN 0 ELSE step[<<pick[s], h[s \ {pick[s]}]>>]
    BY <1>4 DEF IsFold
  <2>1. ASSUME NEW s \in SUBSET S, s # {} PROVE h[s] = SomeOf(s).price + h[s \ {SomeOf(s)}]
    <3>1. s \ {SomeOf(s)} \in SUBSET S /\ h[s \ {SomeOf(s)}] \in Nat BY <2>0
    <3>2. h[s] = step[<<SomeOf(s), h[s \ {SomeOf(s)}]>>] BY <1>2, <2>0, <2>1
    <3> QED BY <1>2, <2>1, <3>1, <3>2
  <2> QED BY <2>0, <2>1
<1>6. c = Body(c)
  <2> HIDE DEF Body
  <2> QED BY <1>5
<1>7. Sums(c, S) 
  <2> HIDE DEF c
  <2> QED BY <1>6 DEF Sums
<1> QED BY <1>1, <1>7

LEMMA SumsAgree ==
  ASSUME NEW S, IsFiniteSet(S), NEW T \in SUBSET S, NEW c, NEW d, Sums(c, S), Sums(d, T)
  PROVE  c[T] = d[T]
<1> DEFINE Q == {s \in SUBSET T : c[s] = d[s]}
<1>1. IsFiniteSet(T) BY FS_Subset
<1>2. ASSUME NEW s \in SUBSET T, \A t \in SUBSET T : Cardinality(t) < Cardinality(s) => t \in Q PROVE s \in Q
  <2>1. CASE s = {} BY <2>1 DEF Sums
  <2>2. CASE s # {}
    <3>1. SomeOf(s) \in s BY <2>2 DEF SomeOf
    <3>2. s \ {SomeOf(s)} \in Q
      <4> DEFINE p == SomeOf(s)
      <4> HIDE DEF p, Q
      <4>1. p \in s BY <3>1 DEF p
      <4>2. s \ {p} \in SUBSET T /\ Cardinality(s \ {p}) < Cardinality(s) BY <1>1, <4>1, OneLess
      <4>3. s \ {p} \in Q BY <1>2, <4>2
      <4> QED BY <4>3 DEF p
    <3> QED BY <2>2, <3>2 DEF Sums
  <2> QED BY <2>1, <2>2
<1>3. SUBSET T \subseteq Q
  <2> HIDE DEF Q
  <2> QED BY <1>1, <1>2, SubsetInduction
<1> QED BY <1>3

\* Whichever member of a part is taken, its price is added to the sum of the rest.
LEMMA AnyOrder ==
  ASSUME NEW S, IsFiniteSet(S), \A r \in S : r.price \in Nat, NEW c, Sums(c, S)
  PROVE  \A s \in SUBSET S : c[s] \in Nat /\ \A x \in s : c[s] = x.price + c[s \ {x}]
<1> DEFINE Q == {s \in SUBSET S : c[s] \in Nat /\ \A x \in s : c[s] = x.price + c[s \ {x}]}
<1>1. ASSUME NEW s \in SUBSET S, \A t \in SUBSET S : Cardinality(t) < Cardinality(s) => t \in Q PROVE s \in Q
  <2>1. CASE s = {}
    <3>1. c[s] = 0 BY <2>1 DEF Sums
    <3> QED BY <2>1, <3>1
  <2>2. CASE s # {}
    <3> DEFINE p == SomeOf(s)
    <3>1. p \in s BY <2>2 DEF SomeOf
    <3>2. s \ {p} \in Q
      <4> HIDE DEF p, Q
      <4>1. s \ {p} \in SUBSET S /\ Cardinality(s \ {p}) < Cardinality(s) BY <3>1, OneLess
      <4> QED BY <1>1, <4>1
    <3>3. c[s] = p.price + c[s \ {p}] /\ p.price \in Nat /\ c[s \ {p}] \in Nat BY <2>2, <3>1, <3>2 DEF Sums
    <3> HIDE DEF p
    <3>4. ASSUME NEW x \in s, x # p PROVE c[s] = x.price + c[s \ {x}]
      <4>1. s \ {x} \in Q
        <5> HIDE DEF Q
        <5>1. s \ {x} \in SUBSET S /\ Cardinality(s \ {x}) < Cardinality(s) BY OneLess
        <5> QED BY <1>1, <5>1
      <4>2. c[s \ {x}] = p.price + c[(s \ {x}) \ {p}] BY <3>1, <3>4, <4>1
      <4>3. c[s \ {p}] = x.price + c[(s \ {p}) \ {x}] BY <3>2, <3>4
      <4>4. (s \ {x}) \ {p} = (s \ {p}) \ {x} OBVIOUS
      <4>5. x.price \in Nat /\ (s \ {p}) \ {x} \in SUBSET S OBVIOUS
      <4>6. (s \ {p}) \ {x} \in Q
        <5>1. Cardinality(s \ {p}) < Cardinality(s) /\ s \ {p} \in SUBSET S /\ Cardinality(s) \in Nat /\ Cardinality(s \ {p}) \in Nat
          BY <3>1, OneLess, FS_Subset, FS_CardinalityType
        <5>2. x \in s \ {p} BY <3>4
        <5>3. Cardinality((s \ {p}) \ {x}) < Cardinality(s \ {p}) /\ Cardinality((s \ {p}) \ {x}) = Cardinality(s \ {p}) - 1
          BY <5>1, <5>2, OneLess
        <5>4. Cardinality((s \ {p}) \ {x}) < Cardinality(s) BY <5>1, <5>3
        <5> HIDE DEF Q
        <5> QED BY <1>1, <4>5, <5>4
      <4>7. c[(s \ {p}) \ {x}] \in Nat BY <4>6
      <4>8. c[s] = p.price + (x.price + c[(s \ {p}) \ {x}]) BY <3>3, <4>3
      <4>9. c[s \ {x}] = p.price + c[(s \ {p}) \ {x}] BY <4>2, <4>4
      <4> QED BY <3>3, <4>5, <4>7, <4>8, <4>9
    <3>5. \A x \in s : c[s] = x.price + c[s \ {x}] BY <3>3, <3>4
    <3>6. c[s] \in Nat BY <3>3
    <3> QED BY <3>5, <3>6
  <2> QED BY <2>1, <2>2
<1>2. SUBSET S \subseteq Q
  <2> HIDE DEF Q
  <2> QED BY <1>1, SubsetInduction
<1> QED BY <1>2

LEMMA PaidSplits ==
  ASSUME NEW S, IsFiniteSet(S), \A r \in S : r.price \in Nat
  PROVE  Paid(S) \in Nat /\ (S = {} => Paid(S) = 0) /\ \A x \in S : Paid(S) = x.price + Paid(S \ {x})
<1>1. PICK c : Sums(c, S) /\ Paid(S) = c[S] BY PaidIsSum
<1>2. c[S] \in Nat /\ \A x \in S : c[S] = x.price + c[S \ {x}] BY <1>1, AnyOrder
<1>3. S = {} => Paid(S) = 0 BY <1>1 DEF Sums
<1>4. ASSUME NEW x \in S PROVE Paid(S \ {x}) = c[S \ {x}]
  <2>1. IsFiniteSet(S \ {x}) BY FS_Subset
  <2>2. PICK d : Sums(d, S \ {x}) /\ Paid(S \ {x}) = d[S \ {x}] BY <2>1, PaidIsSum
  <2> QED BY <1>1, <2>2, SumsAgree
<1> QED BY <1>1, <1>2, <1>3, <1>4

-----------------------------------------------------------------------------
(* Buckets and their rows.                                                 *)

LEMMA Divided ==
  ASSUME NEW d \in Nat \ {0}, NEW a \in Nat
  PROVE  d * (a \div d) \in Nat /\ d * (a \div d) <= a /\ a \div d \in Nat /\ a < d * (a \div d) + d
OBVIOUS

LEMMA ProductsOrdered == ASSUME NEW d \in Nat, NEW x \in Int, NEW y \in Int, x <= y PROVE d * x <= d * y
OBVIOUS

LEMMA DividedOrdered ==
  ASSUME NEW d \in Nat \ {0}, NEW a \in Nat, NEW b \in Nat, a <= b
  PROVE  d * (a \div d) <= d * (b \div d)
<1> DEFINE x == a \div d
           y == b \div d
<1>1. x \in Nat /\ y \in Nat /\ d * x <= a /\ b < d * y + d BY Divided
<1> HIDE DEF x, y
<1>2. ASSUME y + 1 <= x PROVE FALSE
  <2>1. d * (y + 1) <= d * x BY <1>1, <1>2, ProductsOrdered
  <2>2. d * (y + 1) = d * y + d BY <1>1
  <2> QED BY <1>1, <2>1, <2>2
<1>3. d * x <= d * y BY <1>1, <1>2, ProductsOrdered
<1> QED BY <1>3 DEF x, y

LEMMA HistoryNumbers ==
  /\ DAY \in Nat \ {0} /\ WEEK \in Nat \ {0} /\ MaxTime \in Nat /\ MaxRows \in Nat /\ MaxRows >= 1 /\ MaxRequests \in Nat
  /\ MonthStart \subseteq Nat /\ 0 \in MonthStart /\ Price \subseteq Nat
BY HistoryAssumption

LEMMA MonthBegins ==
  ASSUME NEW ts \in Nat
  PROVE  LET last == Max({m \in MonthStart : m <= ts}) IN
           last \in MonthStart /\ last <= ts /\ \A k \in MonthStart : k <= ts => k <= last
<1> DEFINE T == {m \in MonthStart : m <= ts}
<1>0. MonthStart \subseteq Nat /\ 0 \in MonthStart BY HistoryNumbers
<1>1. \A m \in T : m \in Nat /\ m <= ts BY <1>0
<1>3. 0 \in T BY <1>0
<1>2. Max(T) \in T /\ \A k \in T : k <= Max(T)
  <2>1. T \in SUBSET Nat /\ T # {} /\ \A k \in T : k <= ts BY <1>1, <1>3
  <2> HIDE DEF T
  <2> QED BY <2>1, GreatestNumber
<1> QED BY <1>2

LEMMA BucketBegins ==
  ASSUME NEW ts \in Nat, NEW g \in Granularity
  PROVE  BucketStart(ts, g) \in Nat /\ BucketStart(ts, g) <= ts
<1>1. CASE g = "daily" BY <1>1, HistoryNumbers, Divided DEF BucketStart
<1>2. CASE g = "weekly" BY <1>2, HistoryNumbers, Divided DEF BucketStart
<1>3. CASE g = "monthly"
  <2>1. BucketStart(ts, g) = Max({m \in MonthStart : m <= ts}) BY <1>3 DEF BucketStart
  <2> QED BY <2>1, HistoryNumbers, MonthBegins
<1> QED BY <1>1, <1>2, <1>3 DEF Granularity

\* bucket_start keeps the order of times.
LEMMA BucketsOrdered ==
  ASSUME NEW a \in Nat, NEW b \in Nat, a <= b, NEW g \in Granularity
  PROVE  BucketStart(a, g) <= BucketStart(b, g)
<1>1. CASE g = "daily" BY <1>1, HistoryNumbers, DividedOrdered DEF BucketStart
<1>2. CASE g = "weekly" BY <1>2, HistoryNumbers, DividedOrdered DEF BucketStart
<1>3. CASE g = "monthly"
  <2>1. \A ts : BucketStart(ts, g) = Max({m \in MonthStart : m <= ts}) BY <1>3 DEF BucketStart
  <2> DEFINE first == Max({m \in MonthStart : m <= a})
             last == Max({m \in MonthStart : m <= b})
  <2>2. first \in MonthStart /\ first <= a BY MonthBegins
  <2>3. \A k \in MonthStart : k <= b => k <= last BY MonthBegins
  <2>4. first \in Nat BY <2>2, HistoryNumbers
  <2> HIDE DEF first, last
  <2>5. first <= last BY <2>2, <2>3, <2>4
  <2> QED BY <2>1, <2>5 DEF first, last
<1> QED BY <1>1, <1>2, <1>3 DEF Granularity

\* The latest of some rows.
LEMMA LatestIsLast ==
  ASSUME NEW s \in SUBSET PriceRow, s # {}
  PROVE  Latest(s) \in s /\ \A o \in s : o.ts <= Latest(s).ts
<1> DEFINE T == {r.ts : r \in s}
<1>1. T \in SUBSET Nat /\ T # {} /\ \A k \in T : k <= MaxTime BY HistoryNumbers DEF PriceRow, Time
<1>2. PICK m \in T : \A k \in T : k <= m BY <1>1, HistoryNumbers, GreatestNumber
<1>3. PICK r \in s : \A o \in s : o.ts <= r.ts BY <1>2
<1> QED BY <1>3 DEF Latest

\* What _bucketize makes of the rows s.
MadeOf(out, s, g) ==
  /\ DOMAIN out = {BucketStart(r.ts, g) : r \in s}
  /\ \A b \in DOMAIN out : out[b] \in Bucket /\ Says(out[b], {r \in s : BucketStart(r.ts, g) = b})

LEMMA ExtendedType == ASSUME NEW s \in Bucket, NEW r \in PriceRow PROVE Extended(s, r) \in Bucket
<1>1. r.price \in Price /\ r.price \in Nat BY HistoryNumbers DEF PriceRow
<1>2. s.n + 1 \in Nat \ {0} /\ s.sum + r.price \in Nat BY <1>1 DEF Bucket
<1> QED BY <1>1, <1>2 DEF Extended, Bucket

LEMMA OpenedType == ASSUME NEW r \in PriceRow PROVE Opened(r) \in Bucket
<1>1. r.price \in Price /\ r.price \in Nat BY HistoryNumbers DEF PriceRow
<1> QED BY <1>1 DEF Opened, Bucket

LEMMA RowsPriced ==
  ASSUME NEW s \in SUBSET PriceRow
  PROVE  \A r \in s : r.price \in Nat /\ r.ts \in Nat /\ r.price \in Price /\ r.ts <= MaxTime
<1>1. Price \subseteq Nat /\ MaxTime \in Nat BY HistoryNumbers
<1> SUFFICES ASSUME NEW r \in s PROVE r.price \in Nat /\ r.ts \in Nat /\ r.price \in Price /\ r.ts <= MaxTime OBVIOUS
<1>2. r.price \in Price /\ r.ts \in 0..MaxTime BY DEF PriceRow, Time
<1>3. r.price \in Nat BY <1>1, <1>2
<1>4. r.ts \in Nat /\ r.ts <= MaxTime BY <1>1, <1>2
<1> QED BY <1>2, <1>3, <1>4

LEMMA OpenedSays == ASSUME NEW p \in PriceRow PROVE Says(Opened(p), {p})
<1>1. p.price \in Nat /\ p.ts \in Nat
  <2>1. {p} \in SUBSET PriceRow OBVIOUS
  <2> QED BY <2>1, RowsPriced
<1>2. IsFiniteSet({p}) /\ Cardinality({p}) = 1 BY FS_Singleton
<1>3. Paid({p}) = p.price
  <2>1. IsFiniteSet({}) BY FS_EmptySet
  <2>2. Paid({p}) = p.price + Paid({p} \ {p}) BY <1>1, <1>2, PaidSplits
  <2>3. Paid({}) = 0 BY <2>1, PaidSplits
  <2>4. {p} \ {p} = {} OBVIOUS
  <2> QED BY <1>1, <2>2, <2>3, <2>4
<1> QED BY <1>1, <1>2, <1>3 DEF Says, Opened

\* The row that comes last makes a bucket of one row more.
LEMMA ExtendedSays ==
  ASSUME NEW u \in SUBSET PriceRow, IsFiniteSet(u), NEW p \in u, \A o \in u : o.ts <= p.ts,
         NEW s \in Bucket, Says(s, u \ {p})
  PROVE  Says(Extended(s, p), u)
<1> DEFINE old == u \ {p}
           new == Extended(s, p)
<1>1. \A r \in u : r.price \in Nat /\ r.ts \in Nat BY RowsPriced
<1>2. /\ s.sum \in Nat /\ s.n \in Nat /\ s.min \in Nat /\ s.max \in Nat BY HistoryNumbers DEF Bucket
<1>3. /\ new.sum = s.sum + p.price /\ new.n = s.n + 1 /\ new.close = p.price
      /\ new.min = (IF p.price < s.min THEN p.price ELSE s.min)
      /\ new.max = (IF p.price > s.max THEN p.price ELSE s.max)
  BY DEF Extended, Bucket
<1>4. /\ s.n = Cardinality(old) /\ s.sum = Paid(old)
      /\ \A r \in old : s.min <= r.price /\ r.price <= s.max
      /\ \E r \in old : r.price = s.min
      /\ \E r \in old : r.price = s.max
  BY DEF Says
<1>5. new.n = Cardinality(u)
  <2>1. Cardinality(u) \in Nat /\ Cardinality(u \ {p}) = Cardinality(u) - 1 BY OneLess, FS_CardinalityType
  <2> QED BY <1>3, <1>4, <2>1
<1>6. new.sum = Paid(u)
  <2>1. Paid(u) = p.price + Paid(u \ {p}) BY <1>1, PaidSplits
  <2> QED BY <1>1, <1>2, <1>3, <1>4, <2>1
<1> HIDE DEF new
<1>7. \A r \in u : new.min <= r.price /\ r.price <= new.max BY <1>1, <1>2, <1>3, <1>4
<1>8. \E r \in u : r.price = new.min BY <1>3, <1>4
<1>9. \E r \in u : r.price = new.max BY <1>3, <1>4
<1>10. p.price = new.close BY <1>3
<1>11. Says(new, u) BY <1>5, <1>6, <1>7, <1>8, <1>9, <1>10 DEF Says
<1> QED BY <1>11 DEF new

\* One turn of the loop of _bucketize.
LEMMA AddedMakes ==
  ASSUME NEW s \in SUBSET PriceRow, IsFiniteSet(s), NEW p \in s, \A o \in s : o.ts <= p.ts,
         NEW g \in Granularity, NEW out, MadeOf(out, s \ {p}, g)
  PROVE  MadeOf(Added(out, p, BucketStart(p.ts, g)), s, g)
<1> DEFINE b == BucketStart(p.ts, g)
           new == Added(out, p, b)
           Begun(t, c) == {r \in t : BucketStart(r.ts, g) = c}
<1>1. DOMAIN out = {BucketStart(r.ts, g) : r \in s \ {p}} BY DEF MadeOf
<1>2. \A c \in DOMAIN out : out[c] \in Bucket /\ Says(out[c], Begun(s \ {p}, c)) BY DEF MadeOf
<1>3. DOMAIN new = DOMAIN out \cup {b} BY DEF Added
<1>4. DOMAIN new = {BucketStart(r.ts, g) : r \in s} BY <1>1, <1>3
<1>5. ASSUME NEW c \in DOMAIN new PROVE new[c] \in Bucket /\ Says(new[c], Begun(s, c))
  <2>1. CASE c # b
    <3>1. new[c] = out[c] /\ c \in DOMAIN out BY <1>3, <2>1 DEF Added
    <3>2. Begun(s, c) = Begun(s \ {p}, c) BY <2>1
    <3> QED BY <1>2, <3>1, <3>2
  <2>2. CASE c = b /\ b \in DOMAIN out
    <3>1. new[c] = Extended(out[b], p) BY <2>2 DEF Added
    <3>2. Begun(s, b) \ {p} = Begun(s \ {p}, b) /\ p \in Begun(s, b) /\ Begun(s, b) \in SUBSET PriceRow OBVIOUS
    <3>3. out[b] \in Bucket /\ Says(out[b], Begun(s, b) \ {p}) BY <1>2, <2>2, <3>2
    <3>4. IsFiniteSet(Begun(s, b)) BY FS_Subset
    <3>5. \A o \in Begun(s, b) : o.ts <= p.ts OBVIOUS
    <3> HIDE DEF Begun, b
    <3>6. Says(Extended(out[b], p), Begun(s, b)) BY <3>2, <3>3, <3>4, <3>5, ExtendedSays
    <3> QED BY <2>2, <3>1, <3>3, <3>6, ExtendedType
  <2>3. CASE c = b /\ b \notin DOMAIN out
    <3>1. new[c] = Opened(p) BY <2>3 DEF Added
    <3>2. Begun(s, b) = {p}
      <4>1. \A r \in s \ {p} : BucketStart(r.ts, g) # b BY <1>1, <2>3
      <4> QED BY <4>1
    <3> QED BY <2>3, <3>1, <3>2, OpenedSays, OpenedType
  <2> QED BY <1>3, <2>1, <2>2, <2>3
<1> QED BY <1>4, <1>5 DEF MadeOf

-----------------------------------------------------------------------------
(* _bucketize as a whole.                                                  *)

\* What the loop has made of each part of the rows that it takes in order.
Loops(c, rows, g) ==
  \A s \in SUBSET rows :
    c[s] = IF s = {} THEN <<>> ELSE Added(c[s \ {Latest(s)}], Latest(s), BucketStart(Latest(s).ts, g))

LEMMA BucketizeLoops ==
  ASSUME NEW rows \in SUBSET PriceRow, IsFiniteSet(rows), NEW g \in Granularity
  PROVE  \E c : Loops(c, rows, g) /\ Bucketize(rows, g) = c[rows]
<1> DEFINE Out == UNION {[d -> Bucket] : d \in SUBSET Time}
           Body(c) == [s \in SUBSET rows |->
                         IF s = {} THEN <<>> ELSE Added(c[s \ {Latest(s)}], Latest(s), BucketStart(Latest(s).ts, g))]
           c == CHOOSE c : c = Body(c)
           step == [z \in rows \X Out |-> Added(z[2], z[1], BucketStart(z[1].ts, g))]
           pick == [s \in SUBSET rows |-> Latest(s)]
<1>1. Bucketize(rows, g) = c[rows] BY DEF Bucketize, MapThenFoldSet
<1>2. \A s \in SUBSET rows : s # {} => Latest(s) \in s BY LatestIsLast
<1>3. <<>> \in Out
  <2>1. <<>> \in [{} -> Bucket] OBVIOUS
  <2> QED BY <2>1
<1>4. ASSUME NEW r \in rows, NEW out \in Out PROVE Added(out, r, BucketStart(r.ts, g)) \in Out
  <2> DEFINE b == BucketStart(r.ts, g)
             new == Added(out, r, b)
  <2>1. PICK d \in SUBSET Time : out \in [d -> Bucket] OBVIOUS
  <2>2. r \in PriceRow /\ r.ts \in Nat /\ r.ts <= MaxTime BY RowsPriced
  <2>3. b \in Time BY <2>2, BucketBegins, HistoryNumbers DEF Time
  <2> HIDE DEF b
  <2>4. d \cup {b} \in SUBSET Time BY <2>3
  <2>5. new = [x \in d \cup {b} |-> IF x # b THEN out[x] ELSE IF b \in d THEN Extended(out[b], r) ELSE Opened(r)]
    BY <2>1 DEF Added
  <2>6. new \in [d \cup {b} -> Bucket]
    <3>1. Opened(r) \in Bucket /\ (b \in d => Extended(out[b], r) \in Bucket) BY <2>1, <2>2, OpenedType, ExtendedType
    <3> HIDE DEF new
    <3> QED BY <2>1, <2>5, <3>1
  <2> HIDE DEF new
  <2>7. new \in Out BY <2>4, <2>6
  <2> QED BY <2>7 DEF new, b
<1>5. step \in [rows \X Out -> Out]
  <2> HIDE DEF Out
  <2> QED BY <1>4
<1>6. PICK h : IsFold(h, rows, Out, <<>>, step, pick)
  <2>1. \A s \in SUBSET rows : s # {} => pick[s] \in s BY <1>2
  <2> HIDE DEF Out, step, pick
  <2> QED BY <1>3, <1>5, <2>1, FoldExists
<1>7. h = Body(h)
  <2>0. /\ h \in [SUBSET rows -> Out]
        /\ \A s \in SUBSET rows : h[s] = IF s = {} THEN <<>> ELSE step[<<pick[s], h[s \ {pick[s]}]>>]
    <3> HIDE DEF Out, step, pick
    <3> QED BY <1>6 DEF IsFold
  <2>1. ASSUME NEW s \in SUBSET rows, s # {} PROVE h[s] = Added(h[s \ {Latest(s)}], Latest(s), BucketStart(Latest(s).ts, g))
    <3> HIDE DEF Out
    <3>1. s \ {Latest(s)} \in SUBSET rows /\ h[s \ {Latest(s)}] \in Out /\ Latest(s) \in rows BY <1>2, <2>0, <2>1
    <3>2. h[s] = step[<<Latest(s), h[s \ {Latest(s)}]>>] BY <2>0, <2>1
    <3> QED BY <3>1, <3>2
  <2> HIDE DEF Out, step, pick
  <2>2. h = [s \in SUBSET rows |-> h[s]] BY <2>0
  <2> QED BY <2>0, <2>1, <2>2
<1>8. c = Body(c)
  <2> HIDE DEF Body
  <2> QED BY <1>7
<1>9. Loops(c, rows, g)
  <2> HIDE DEF c
  <2> QED BY <1>8 DEF Loops
<1> QED BY <1>1, <1>9

\* _bucketize makes one bucket of each day, week or month that has a row, and
\* each says what its rows say.
LEMMA BucketizeMakes ==
  ASSUME NEW rows \in SUBSET PriceRow, IsFiniteSet(rows), NEW g \in Granularity
  PROVE  MadeOf(Bucketize(rows, g), rows, g)
<1>1. PICK c : Loops(c, rows, g) /\ Bucketize(rows, g) = c[rows] BY BucketizeLoops
<1> DEFINE Q == {s \in SUBSET rows : MadeOf(c[s], s, g)}
<1>2. ASSUME NEW s \in SUBSET rows, \A t \in SUBSET rows : Cardinality(t) < Cardinality(s) => t \in Q PROVE s \in Q
  <2>1. CASE s = {}
    <3>1. c[s] = <<>> BY <1>1, <2>1 DEF Loops
    <3>2. DOMAIN c[s] = {} BY <3>1
    <3>3. MadeOf(c[s], s, g) BY <2>1, <3>2 DEF MadeOf
    <3> QED BY <3>3
  <2>2. CASE s # {}
    <3> DEFINE p == Latest(s)
    <3>1. p \in s /\ \A o \in s : o.ts <= p.ts BY <2>2, LatestIsLast
    <3>2. c[s] = Added(c[s \ {p}], p, BucketStart(p.ts, g)) BY <1>1, <2>2 DEF Loops
    <3> HIDE DEF p
    <3>3. s \ {p} \in SUBSET rows /\ Cardinality(s \ {p}) < Cardinality(s) BY <3>1, OneLess
    <3>4. MadeOf(c[s \ {p}], s \ {p}, g) BY <1>2, <3>3
    <3>5. IsFiniteSet(s) /\ s \in SUBSET PriceRow BY FS_Subset
    <3>6. MadeOf(c[s], s, g) BY <3>1, <3>2, <3>4, <3>5, AddedMakes
    <3> QED BY <3>6
  <2> QED BY <2>1, <2>2
<1>3. SUBSET rows \subseteq Q
  <2> HIDE DEF Q
  <2> QED BY <1>2, SubsetInduction
<1> QED BY <1>1, <1>3

-----------------------------------------------------------------------------
(* The state machine.                                                      *)

\* No aggregation has read, and no bucket counts, a row that is not there.
ReadsExist ==
  /\ \A g \in Granularity : \A b \in DOMAIN buckets[g] : buckets[g][b].upto <= Len(prices)
  /\ \A a \in Aggregator : agg[a].pc = "read" => agg[a].read \in 1..Len(prices)

HistoryInv == HistoryTypeOK /\ ReadsExist /\ BucketsAreSnapshots

LEMMA RowsThere ==
  ASSUME HistoryTypeOK
  PROVE  /\ Len(prices) \in Nat /\ DOMAIN prices = 1..Len(prices) /\ Len(prices) <= MaxRows
         /\ \A i \in DOMAIN prices : prices[i] \in PriceRow /\ prices[i].ts \in Nat /\ prices[i].ts <= MaxTime
<1>1. prices \in Seq(PriceRow) /\ Len(prices) <= MaxRows BY DEF HistoryTypeOK
<1>2. Len(prices) \in Nat /\ DOMAIN prices = 1..Len(prices) /\ \A i \in DOMAIN prices : prices[i] \in PriceRow
  <2> HIDE DEF PriceRow
  <2> QED BY <1>1
<1>3. ASSUME NEW i \in DOMAIN prices PROVE prices[i].ts \in Nat /\ prices[i].ts <= MaxTime
  <2>1. {prices[i]} \in SUBSET PriceRow BY <1>2
  <2> QED BY <2>1, RowsPriced
<1> QED BY <1>1, <1>2, <1>3

LEMMA QueryIsFinite ==
  ASSUME HistoryTypeOK, NEW since, NEW k \in 0..Len(prices)
  PROVE  QueryRange(since, k) \in SUBSET PriceRow /\ IsFiniteSet(QueryRange(since, k))
<1> DEFINE all == {prices[i] : i \in DOMAIN prices}
<1>1. DOMAIN prices = 1..Len(prices) /\ Len(prices) \in Nat BY RowsThere
<1>2. QueryRange(since, k) \in SUBSET all /\ all \subseteq PriceRow BY <1>1, RowsThere DEF QueryRange
<1>3. IsFiniteSet(all)
  <2>1. IsFiniteSet(1..Len(prices)) BY <1>1, FS_Interval
  <2>2. prices \in [1..Len(prices) -> all]
    <3>1. prices = [i \in DOMAIN prices |-> prices[i]]
      <4>1. prices \in Seq(PriceRow) BY DEF HistoryTypeOK
      <4> HIDE DEF PriceRow
      <4> QED BY <4>1
    <3>2. \A i \in DOMAIN prices : prices[i] \in all OBVIOUS
    <3> QED BY <1>1, <3>1, <3>2
  <2>3. prices \in Surjection(1..Len(prices), all) BY <1>1, <2>2 DEF Surjection
  <2> HIDE DEF all
  <2> QED BY <2>1, <2>3, FS_Surjection
<1> HIDE DEF all
<1> QED BY <1>2, <1>3, FS_Subset

LEMMA BucketTyped ==
  ASSUME HistoryTypeOK, NEW g \in Granularity, NEW b \in DOMAIN buckets[g]
  PROVE  /\ b \in Time /\ buckets[g][b] \in Stored /\ buckets[g][b].says \in Bucket
         /\ buckets[g][b].upto \in Nat /\ 1 <= buckets[g][b].upto /\ buckets[g][b].upto <= MaxRows
<1>1. b \in Time /\ buckets[g][b] \in Stored BY DEF HistoryTypeOK
<1>2. buckets[g][b].says \in Bucket /\ buckets[g][b].upto \in 1..MaxRows
  <2> HIDE DEF Bucket
  <2> QED BY <1>1 DEF Stored
<1> QED BY <1>1, <1>2, HistoryNumbers

\* A row is appended to the table.
LEMMA RowAppended ==
  ASSUME HistoryInv, Len(prices) < MaxRows, NEW row \in PriceRow, prices' = Append(prices, row),
         \A i \in DOMAIN prices : prices[i].ts # row.ts, UNCHANGED <<buckets, agg>>
  PROVE  /\ Len(prices') = Len(prices) + 1 /\ prices' \in Seq(PriceRow) /\ Len(prices') <= MaxRows
         /\ \A i, j \in DOMAIN prices' : i # j => prices'[i].ts # prices'[j].ts
         /\ ReadsExist' /\ BucketsAreSnapshots'
<1> DEFINE n == Len(prices)
<1>1. n \in Nat /\ DOMAIN prices = 1..n /\ MaxRows \in Nat BY RowsThere, HistoryNumbers DEF HistoryInv
<1>2. /\ prices' \in Seq(PriceRow) /\ Len(prices') = n + 1 /\ DOMAIN prices' = 1..n + 1
      /\ prices'[n + 1] = row /\ \A i \in 1..n : prices'[i] = prices[i]
  <2>1. prices \in Seq(PriceRow) BY DEF HistoryInv, HistoryTypeOK
  <2> HIDE DEF PriceRow
  <2> QED BY <2>1
<1>3. \A i, j \in DOMAIN prices' : i # j => prices'[i].ts # prices'[j].ts
  <2>1. \A i, j \in 1..n : i # j => prices[i].ts # prices[j].ts BY <1>1 DEF HistoryInv, HistoryTypeOK
  <2>2. \A i \in 1..n : prices[i].ts # row.ts BY <1>1
  <2> HIDE DEF n
  <2>3. \A i \in 1..n + 1 : i \in 1..n \/ i = n + 1 BY <1>1
  <2> QED BY <1>2, <2>1, <2>2, <2>3
<1>4. ReadsExist'
  <2>1. ASSUME NEW g \in Granularity, NEW b \in DOMAIN buckets[g] PROVE buckets[g][b].upto <= n + 1
    <3>1. buckets[g][b].upto <= n BY DEF ReadsExist, HistoryInv
    <3>2. buckets[g][b].upto \in Nat BY BucketTyped DEF HistoryInv
    <3> HIDE DEF n
    <3> QED BY <1>1, <3>1, <3>2
  <2>2. ASSUME NEW a \in Aggregator, agg[a].pc = "read" PROVE agg[a].read \in 1..n + 1
    <3>1. agg[a].read \in 1..n BY <2>2 DEF ReadsExist, HistoryInv
    <3> HIDE DEF n
    <3> QED BY <1>1, <3>1
  <2> HIDE DEF n
  <2> QED BY <1>2, <2>1, <2>2 DEF ReadsExist
<1>5. \A b, g : \A k \in 1..n : RowsOf(b, g, k)' = RowsOf(b, g, k)
  <2> SUFFICES ASSUME NEW b, NEW g, NEW k \in 1..n PROVE RowsOf(b, g, k)' = RowsOf(b, g, k) OBVIOUS
  <2>1. \A i \in 1..k : i \in 1..n /\ prices'[i] = prices[i] BY <1>1, <1>2
  <2> QED BY <2>1 DEF RowsOf, BucketStart
<1>6. BucketsAreSnapshots'
  <2>1. ASSUME NEW g \in Granularity, NEW b \in DOMAIN buckets[g]
        PROVE  Says(buckets[g][b].says, RowsOf(b, g, buckets[g][b].upto))'
    <3>1. buckets[g][b].upto <= n BY DEF ReadsExist, HistoryInv
    <3>2. buckets[g][b].upto \in 1..n
      <4>1. buckets[g][b].upto \in Nat /\ 1 <= buckets[g][b].upto BY BucketTyped DEF HistoryInv
      <4> HIDE DEF n
      <4> QED BY <1>1, <3>1, <4>1
    <3>3. Says(buckets[g][b].says, RowsOf(b, g, buckets[g][b].upto)) BY DEF HistoryInv, BucketsAreSnapshots
    <3>4. RowsOf(b, g, buckets[g][b].upto)' = RowsOf(b, g, buckets[g][b].upto) BY <1>5, <3>2
    <3> QED BY <3>3, <3>4
  <2> QED BY <2>1 DEF BucketsAreSnapshots
<1> QED BY <1>1, <1>2, <1>3, <1>4, <1>6

\* What stays when the table and its rows are left alone.
LEMMA SameRows ==
  ASSUME HistoryInv, UNCHANGED <<prices, buckets>>
  PROVE  BucketsAreSnapshots'
<1>1. ASSUME NEW g \in Granularity, NEW b \in DOMAIN buckets[g]
      PROVE  Says(buckets[g][b].says, RowsOf(b, g, buckets[g][b].upto))'
  <2>1. Says(buckets[g][b].says, RowsOf(b, g, buckets[g][b].upto)) BY DEF HistoryInv, BucketsAreSnapshots
  <2>2. RowsOf(b, g, buckets[g][b].upto)' = RowsOf(b, g, buckets[g][b].upto) BY DEF RowsOf
  <2> QED BY <2>1, <2>2
<1> QED BY <1>1 DEF BucketsAreSnapshots

LEMMA AppendPriceKept == ASSUME HistoryInv, NEW p \in Price, AppendPrice(p) PROVE HistoryInv'
<1> DEFINE row == [ts |-> now, price |-> p]
<1>1. row \in PriceRow BY DEF PriceRow, HistoryInv, HistoryTypeOK
<1>2. /\ Len(prices) < MaxRows /\ prices' = Append(prices, row) /\ UNCHANGED <<buckets, agg>>
      /\ \A i \in DOMAIN prices : prices[i].ts # row.ts
  BY DEF AppendPrice, Free
<1> HIDE DEF row
<1>3. /\ Len(prices') = Len(prices) + 1 /\ prices' \in Seq(PriceRow) /\ Len(prices') <= MaxRows
      /\ \A i, j \in DOMAIN prices' : i # j => prices'[i].ts # prices'[j].ts
      /\ ReadsExist' /\ BucketsAreSnapshots'
  BY <1>1, <1>2, RowAppended
<1>4. Len(prices) \in Nat /\ MaxRows \in Nat BY RowsThere, HistoryNumbers DEF HistoryInv
<1>5. seeing' \in 0..Len(prices') /\ missed' \in SUBSET (1..MaxRows)
  <2>1. seeing' = Len(prices') /\ missed' \in {missed, missed \cup {Len(prices')}} BY DEF AppendPrice
  <2>2. missed \in SUBSET (1..MaxRows) BY DEF HistoryInv, HistoryTypeOK
  <2>3. Len(prices') \in 1..MaxRows BY <1>3, <1>4
  <2> QED BY <2>1, <2>2, <2>3
<1>6. HistoryTypeOK' BY <1>2, <1>3, <1>5 DEF HistoryInv, HistoryTypeOK, AppendPrice
<1> QED BY <1>3, <1>6 DEF HistoryInv

LEMMA BulkAppendKept ==
  ASSUME HistoryInv, NEW ts \in Time, NEW p \in Price, BulkAppend(ts, p) PROVE HistoryInv'
<1> DEFINE row == [ts |-> ts, price |-> p]
<1>1. row \in PriceRow BY DEF PriceRow
<1>2. /\ Len(prices) < MaxRows /\ prices' = Append(prices, row) /\ UNCHANGED <<buckets, agg>>
      /\ \A i \in DOMAIN prices : prices[i].ts # row.ts
  BY DEF BulkAppend, Free
<1> HIDE DEF row
<1>3. /\ Len(prices') = Len(prices) + 1 /\ prices' \in Seq(PriceRow) /\ Len(prices') <= MaxRows
      /\ \A i, j \in DOMAIN prices' : i # j => prices'[i].ts # prices'[j].ts
      /\ ReadsExist' /\ BucketsAreSnapshots'
  BY <1>1, <1>2, RowAppended
<1>4. Len(prices) \in Nat /\ MaxRows \in Nat /\ MaxRequests \in Nat BY RowsThere, HistoryNumbers DEF HistoryInv
<1>5. seeing' \in 0..Len(prices') /\ missed' \in SUBSET (1..MaxRows) /\ requests' \in 0..MaxRequests
  <2>1. seeing' = seeing /\ missed' = missed \cup {Len(prices')} /\ requests' = requests + 1 /\ requests < MaxRequests
    BY DEF BulkAppend, Requested
  <2>2. missed \in SUBSET (1..MaxRows) /\ seeing \in 0..Len(prices) /\ requests \in 0..MaxRequests
    BY DEF HistoryInv, HistoryTypeOK
  <2>3. Len(prices') \in 1..MaxRows BY <1>3, <1>4
  <2>4. seeing' \in 0..Len(prices')
    <3>1. seeing' \in 0..Len(prices) /\ Len(prices') = Len(prices) + 1 BY <1>3, <2>1, <2>2
    <3> QED BY <1>4, <3>1
  <2>5. requests' \in 0..MaxRequests
    <3>1. requests \in 0..MaxRequests /\ requests < MaxRequests /\ requests' = requests + 1 BY <2>1, <2>2
    <3> QED BY <1>4, <3>1
  <2> QED BY <2>1, <2>2, <2>3, <2>4, <2>5
<1>6. HistoryTypeOK' BY <1>2, <1>3, <1>5 DEF HistoryInv, HistoryTypeOK, BulkAppend
<1> QED BY <1>3, <1>6 DEF HistoryInv

LEMMA RecordSeenKept == ASSUME HistoryInv, RecordSeen PROVE HistoryInv'
<1>1. UNCHANGED <<prices, now, buckets, agg, missed, requests>> /\ seeing' = 0 /\ stale' = TRUE BY DEF RecordSeen
<1>2. Len(prices) \in Nat BY RowsThere DEF HistoryInv
<1>3. HistoryTypeOK' BY <1>1, <1>2 DEF HistoryInv, HistoryTypeOK
<1>4. ReadsExist' BY <1>1 DEF HistoryInv, ReadsExist
<1> QED BY <1>1, <1>3, <1>4, SameRows DEF HistoryInv

LEMMA ClockTicksKept == ASSUME HistoryInv, ClockTicks PROVE HistoryInv'
<1>1. UNCHANGED <<prices, seeing, stale, buckets, agg, missed, requests>> /\ now < MaxTime /\ now' = now + 1 BY DEF ClockTicks
<1>2. now' \in Time BY <1>1, HistoryNumbers DEF HistoryInv, HistoryTypeOK, Time
<1>3. HistoryTypeOK' BY <1>1, <1>2 DEF HistoryInv, HistoryTypeOK
<1>4. ReadsExist' BY <1>1 DEF HistoryInv, ReadsExist
<1> QED BY <1>1, <1>3, <1>4, SameRows DEF HistoryInv

LEMMA ServerDiesKept == ASSUME HistoryInv, ServerDies PROVE HistoryInv'
<1>1. /\ UNCHANGED <<prices, now, stale, buckets>> /\ agg' = [a \in Aggregator |-> Resting] /\ seeing' = 0
      /\ missed' = missed \cup ({seeing} \ {0}) /\ requests < MaxRequests /\ requests' = requests + 1
  BY DEF ServerDies, Requested
<1>2. Len(prices) \in Nat /\ Len(prices) <= MaxRows /\ MaxRows \in Nat /\ MaxRequests \in Nat
  BY RowsThere, HistoryNumbers DEF HistoryInv
<1>3. missed' \in SUBSET (1..MaxRows) /\ requests' \in 0..MaxRequests /\ 0 \in 0..Len(prices)
  <2>1. missed \in SUBSET (1..MaxRows) /\ seeing \in 0..Len(prices) /\ requests \in 0..MaxRequests
    BY DEF HistoryInv, HistoryTypeOK
  <2> QED BY <1>1, <1>2, <2>1
<1>4. agg' \in [Aggregator -> [pc : {"rest", "picked", "read"}, read : 0..MaxRows]] BY <1>1, <1>2 DEF Resting
<1>5. HistoryTypeOK' BY <1>1, <1>3, <1>4 DEF HistoryInv, HistoryTypeOK
<1>6. ReadsExist' BY <1>1 DEF HistoryInv, ReadsExist, Resting
<1> QED BY <1>1, <1>5, <1>6, SameRows DEF HistoryInv

LEMMA PickKept ==
  ASSUME HistoryInv, NEW a \in Aggregator, Pick(a), requests' \in 0..MaxRequests PROVE HistoryInv'
<1>1. /\ UNCHANGED <<prices, now, seeing, stale, buckets, missed>>
      /\ agg' = [agg EXCEPT ![a].pc = "picked"]
  BY DEF Pick
<1>2. agg \in [Aggregator -> [pc : {"rest", "picked", "read"}, read : 0..MaxRows]] BY DEF HistoryInv, HistoryTypeOK
<1>3. agg' \in [Aggregator -> [pc : {"rest", "picked", "read"}, read : 0..MaxRows]] BY <1>1, <1>2
<1>4. HistoryTypeOK' BY <1>1, <1>3 DEF HistoryInv, HistoryTypeOK
<1>5. \A o \in Aggregator : agg'[o].pc = "read" => agg'[o] = agg[o] BY <1>1, <1>2
<1>6. ReadsExist' BY <1>1, <1>5 DEF HistoryInv, ReadsExist
<1> QED BY <1>1, <1>4, <1>6, SameRows DEF HistoryInv

LEMMA ReadKept == ASSUME HistoryInv, NEW a \in Aggregator, Read(a) PROVE HistoryInv'
<1> DEFINE new == IF prices = <<>> THEN Resting ELSE [pc |-> "read", read |-> Len(prices)]
<1>1. UNCHANGED <<prices, now, seeing, stale, buckets, missed, requests>> /\ agg' = [agg EXCEPT ![a] = new] BY DEF Read
<1>2. agg \in [Aggregator -> [pc : {"rest", "picked", "read"}, read : 0..MaxRows]] BY DEF HistoryInv, HistoryTypeOK
<1>3. Len(prices) \in Nat /\ Len(prices) <= MaxRows /\ MaxRows \in Nat BY RowsThere, HistoryNumbers DEF HistoryInv
<1>4. new \in [pc : {"rest", "picked", "read"}, read : 0..MaxRows] BY <1>3 DEF Resting
<1>5. new.pc = "read" => new.read \in 1..Len(prices)
  <2>1. prices \in Seq(PriceRow) BY DEF HistoryInv, HistoryTypeOK
  <2>2. prices # <<>> => Len(prices) # 0
    <3> HIDE DEF PriceRow
    <3> QED BY <2>1
  <2> QED BY <1>3, <2>2 DEF Resting
<1> HIDE DEF new
<1>6. agg' \in [Aggregator -> [pc : {"rest", "picked", "read"}, read : 0..MaxRows]] BY <1>1, <1>2, <1>4
<1>7. HistoryTypeOK' BY <1>1, <1>6 DEF HistoryInv, HistoryTypeOK
<1>8. \A o \in Aggregator : agg'[o] = new \/ agg'[o] = agg[o] BY <1>1, <1>2
<1>9. ReadsExist' BY <1>1, <1>5, <1>8 DEF HistoryInv, ReadsExist
<1> QED BY <1>1, <1>7, <1>9, SameRows DEF HistoryInv

\* The buckets an aggregation computes of the first k rows, and those it leaves.
LEMMA AggregatedMakes ==
  ASSUME HistoryInv, NEW k \in 1..Len(prices), NEW g \in Granularity
  PROVE  \A b \in DOMAIN Aggregated(k, g) :
           LET w == Aggregated(k, g)[b] IN
             b \in Time /\ w \in Stored /\ w.upto <= Len(prices) /\ Says(w.says, RowsOf(b, g, w.upto))
<1> DEFINE rows == QueryRange(0, k)
           made == Bucketize(rows, g)
<1>1. /\ Len(prices) \in Nat /\ Len(prices) <= MaxRows /\ DOMAIN prices = 1..Len(prices) /\ MaxRows \in Nat
      /\ \A i \in DOMAIN prices : prices[i] \in PriceRow /\ prices[i].ts \in Nat /\ prices[i].ts <= MaxTime
  BY RowsThere, HistoryNumbers DEF HistoryInv
<1>2. k \in Nat /\ k \in 0..Len(prices) /\ k \in 1..MaxRows /\ k <= Len(prices) /\ \A i \in 1..k : i \in DOMAIN prices BY <1>1
<1>3. rows \in SUBSET PriceRow /\ IsFiniteSet(rows) BY <1>2, QueryIsFinite DEF HistoryInv
<1> HIDE DEF rows
<1>4. MadeOf(made, rows, g) BY <1>3, BucketizeMakes
<1> HIDE DEF made
<1>5. ASSUME NEW b \in DOMAIN made
      PROVE  b \in Time /\ made[b] \in Bucket /\ Says(made[b], RowsOf(b, g, k))
  <2>1. {r \in rows : BucketStart(r.ts, g) = b} = RowsOf(b, g, k)
    <3>1. \A i \in 1..k : prices[i].ts >= 0 BY <1>1, <1>2
    <3>2. rows = {prices[i] : i \in 1..k} BY <3>1 DEF rows, QueryRange
    <3> QED BY <3>2 DEF RowsOf
  <2>2. made[b] \in Bucket /\ Says(made[b], {r \in rows : BucketStart(r.ts, g) = b}) BY <1>4 DEF MadeOf
  <2>3. PICK r \in rows : b = BucketStart(r.ts, g) BY <1>4 DEF MadeOf
  <2>4. r.ts \in Nat /\ r.ts <= MaxTime BY <1>3, RowsPriced
  <2>5. b \in Nat /\ b <= r.ts BY <2>3, <2>4, BucketBegins
  <2>6. b \in Time BY <2>4, <2>5, HistoryNumbers DEF Time
  <2> QED BY <2>1, <2>2, <2>6
<1>6. Aggregated(k, g) = [b \in DOMAIN made \cup DOMAIN buckets[g] |->
                            IF b \in DOMAIN made THEN [says |-> made[b], upto |-> k] ELSE buckets[g][b]]
  BY DEF Aggregated, made, rows
<1>7. ASSUME NEW b \in DOMAIN made \cup DOMAIN buckets[g]
      PROVE  LET w == Aggregated(k, g)[b] IN
               b \in Time /\ w \in Stored /\ w.upto <= Len(prices) /\ Says(w.says, RowsOf(b, g, w.upto))
  <2>1. CASE b \in DOMAIN made
    <3>1. Aggregated(k, g)[b] = [says |-> made[b], upto |-> k] BY <1>6, <2>1
    <3>2. [says |-> made[b], upto |-> k] \in Stored
      <4>1. made[b] \in Bucket BY <1>5, <2>1
      <4> QED BY <1>2, <4>1 DEF Stored
    <3> QED BY <1>2, <1>5, <2>1, <3>1, <3>2
  <2>2. CASE b \notin DOMAIN made
    <3>1. Aggregated(k, g)[b] = buckets[g][b] /\ b \in DOMAIN buckets[g] BY <1>6, <2>2
    <3>2. b \in Time /\ buckets[g][b] \in Stored BY <3>1, BucketTyped DEF HistoryInv
    <3>3. buckets[g][b].upto <= Len(prices) BY <3>1 DEF HistoryInv, ReadsExist
    <3>4. Says(buckets[g][b].says, RowsOf(b, g, buckets[g][b].upto)) BY <3>1 DEF HistoryInv, BucketsAreSnapshots
    <3> QED BY <3>1, <3>2, <3>3, <3>4
  <2> QED BY <2>1, <2>2
<1> QED BY <1>6, <1>7

LEMMA MergeKept == ASSUME HistoryInv, NEW a \in Aggregator, Merge(a) PROVE HistoryInv'
<1> DEFINE k == agg[a].read
<1>1. /\ UNCHANGED <<prices, now, seeing, missed, requests>> /\ stale' = FALSE /\ agg' = [agg EXCEPT ![a] = Resting]
      /\ agg[a].pc = "read" /\ buckets' = [g \in Granularity |-> Aggregated(k, g)]
  BY DEF Merge
<1>2. agg \in [Aggregator -> [pc : {"rest", "picked", "read"}, read : 0..MaxRows]] BY DEF HistoryInv, HistoryTypeOK
<1>3. k \in 1..Len(prices) BY <1>1 DEF HistoryInv, ReadsExist
<1>4. Resting \in [pc : {"rest", "picked", "read"}, read : 0..MaxRows] BY HistoryNumbers DEF Resting
<1>5. agg' \in [Aggregator -> [pc : {"rest", "picked", "read"}, read : 0..MaxRows]] BY <1>1, <1>2, <1>4
<1> HIDE DEF k
<1>6. \A g \in Granularity : \A b \in DOMAIN buckets'[g] :
        /\ b \in Time /\ buckets'[g][b] \in Stored /\ buckets'[g][b].upto <= Len(prices)
        /\ Says(buckets'[g][b].says, RowsOf(b, g, buckets'[g][b].upto))
  <2>1. \A g \in Granularity : buckets'[g] = Aggregated(k, g) BY <1>1
  <2> QED BY <1>3, <2>1, AggregatedMakes
<1>7. HistoryTypeOK'
  <2>1. DOMAIN buckets' = Granularity BY <1>1
  <2> QED BY <1>1, <1>5, <1>6, <2>1 DEF HistoryInv, HistoryTypeOK
<1>8. ReadsExist'
  <2>1. \A o \in Aggregator : agg'[o].pc = "read" => agg'[o] = agg[o] BY <1>1, <1>2 DEF Resting
  <2> QED BY <1>1, <1>6, <2>1 DEF HistoryInv, ReadsExist
<1>9. BucketsAreSnapshots'
  <2>1. ASSUME NEW g \in Granularity, NEW b \in DOMAIN buckets'[g]
        PROVE  Says(buckets[g][b].says, RowsOf(b, g, buckets[g][b].upto))'
    <3>1. Says(buckets'[g][b].says, RowsOf(b, g, buckets'[g][b].upto)) BY <1>6
    <3>2. RowsOf(b, g, buckets[g][b].upto)' = RowsOf(b, g, buckets'[g][b].upto) BY <1>1 DEF RowsOf
    <3> QED BY <3>1, <3>2
  <2> QED BY <2>1 DEF BucketsAreSnapshots
<1> QED BY <1>7, <1>8, <1>9 DEF HistoryInv

LEMMA HistoryBegins == ASSUME HistoryInit PROVE HistoryInv
<1>1. /\ prices = <<>> /\ now = 0 /\ seeing = 0 /\ stale = FALSE /\ buckets = [g \in Granularity |-> <<>>]
      /\ agg = [a \in Aggregator |-> Resting] /\ missed = {} /\ requests = 0
  BY DEF HistoryInit
<1>2. prices \in Seq(PriceRow) /\ Len(prices) = 0 /\ DOMAIN prices = {}
  <2> HIDE DEF PriceRow
  <2> QED BY <1>1
<1>3. \A g \in Granularity : DOMAIN buckets[g] = {} BY <1>1
<1>4. agg \in [Aggregator -> [pc : {"rest", "picked", "read"}, read : 0..MaxRows]] BY <1>1, HistoryNumbers DEF Resting
<1>5. now \in Time /\ requests \in 0..MaxRequests BY <1>1, HistoryNumbers DEF Time
<1>6. HistoryTypeOK
  <2>1. Len(prices) <= MaxRows /\ seeing \in 0..Len(prices) BY <1>1, <1>2, HistoryNumbers
  <2>2. \A i, j \in DOMAIN prices : i # j => prices[i].ts # prices[j].ts BY <1>2
  <2>3. DOMAIN buckets = Granularity /\ missed \subseteq 1..MaxRows /\ stale \in BOOLEAN BY <1>1
  <2>4. \A g \in Granularity : DOMAIN buckets[g] \subseteq Time /\ \A b \in DOMAIN buckets[g] : buckets[g][b] \in Stored
    BY <1>3
  <2> QED BY <1>2, <1>4, <1>5, <2>1, <2>2, <2>3, <2>4 DEF HistoryTypeOK
<1>7. ReadsExist BY <1>1, <1>3 DEF ReadsExist, Resting
<1>8. BucketsAreSnapshots BY <1>3 DEF BucketsAreSnapshots
<1> QED BY <1>6, <1>7, <1>8 DEF HistoryInv

LEMMA HistorySteps == ASSUME HistoryInv, [HistoryNext]_historyVars PROVE HistoryInv'
<1>1. ASSUME NEW p \in Price, AppendPrice(p) PROVE HistoryInv' BY <1>1, AppendPriceKept
<1>2. ASSUME NEW p \in Price, NEW ts \in Time, BulkAppend(ts, p) PROVE HistoryInv' BY <1>2, BulkAppendKept
<1>3. CASE RecordSeen BY <1>3, RecordSeenKept
<1>4. CASE PickPeriodic
  <2>1. requests' \in 0..MaxRequests BY <1>4 DEF PickPeriodic, HistoryInv, HistoryTypeOK
  <2> QED BY <1>4, <2>1, PickKept, HistoryAssumption DEF PickPeriodic
<1>5. CASE ClockTicks BY <1>5, ClockTicksKept
<1>6. CASE ServerDies BY <1>6, ServerDiesKept
<1>7. ASSUME NEW a \in Aggregator, PickOnRequest(a) PROVE HistoryInv'
  <2>1. requests \in 0..MaxRequests /\ requests < MaxRequests /\ requests' = requests + 1
    BY <1>7 DEF PickOnRequest, Requested, HistoryInv, HistoryTypeOK
  <2>2. requests' \in 0..MaxRequests BY <2>1, HistoryNumbers
  <2> QED BY <1>7, <2>2, PickKept DEF PickOnRequest
<1>8. ASSUME NEW a \in Aggregator, Read(a) PROVE HistoryInv' BY <1>8, ReadKept
<1>9. ASSUME NEW a \in Aggregator, Merge(a) PROVE HistoryInv' BY <1>9, MergeKept
<1>10. CASE UNCHANGED historyVars
  <2>1. UNCHANGED <<prices, now, seeing, stale, buckets, agg, missed, requests>> BY <1>10 DEF historyVars
  <2>2. HistoryTypeOK' BY <2>1 DEF HistoryInv, HistoryTypeOK
  <2>3. ReadsExist' BY <2>1 DEF HistoryInv, ReadsExist
  <2> QED BY <2>1, <2>2, <2>3, SameRows DEF HistoryInv
<1> QED BY <1>1, <1>2, <1>3, <1>4, <1>5, <1>6, <1>7, <1>8, <1>9, <1>10 DEF HistoryNext

\* Type correctness of the price table, its buckets and their aggregations.
THEOREM HistoryTypeCorrect == HistorySpec => []HistoryTypeOK
<1>1. HistoryInit => HistoryInv BY HistoryBegins
<1>2. HistoryInv /\ [HistoryNext]_historyVars => HistoryInv' BY HistorySteps
<1>3. HistoryInv => HistoryTypeOK BY DEF HistoryInv
<1> QED BY <1>1, <1>2, <1>3, PTL DEF HistorySpec

\* Whatever threads aggregate and whenever they read and commit, the loop of
\* _bucketize leaves in each bucket what the rows of its period said.
THEOREM BucketsSay == HistorySpec => []BucketsAreSnapshots
<1>1. HistoryInit => HistoryInv BY HistoryBegins
<1>2. HistoryInv /\ [HistoryNext]_historyVars => HistoryInv' BY HistorySteps
<1>3. HistoryInv => BucketsAreSnapshots BY DEF HistoryInv
<1> QED BY <1>1, <1>2, <1>3, PTL DEF HistorySpec

LEMMA SinceIsATime == ASSUME HistoryTypeOK, NEW days \in Nat PROVE Since(days) \in Nat
<1>1. now \in Nat /\ DAY \in Nat BY HistoryNumbers DEF HistoryTypeOK, Time
<1> DEFINE x == now - days * DAY
<1>2. x \in Int BY <1>1
<1> HIDE DEF x
<1>3. Max({0, x}) \in Nat /\ Max({0, x}) \in {0, x}
  <2>1. CASE x <= 0
    <3>1. 0 \in {0, x} /\ \A y \in {0, x} : y <= 0 BY <1>2, <2>1
    <3>2. \A m \in {0, x} : (\A y \in {0, x} : m >= y) => m = 0 BY <1>2, <2>1
    <3> QED BY <1>2, <2>1, <3>1, <3>2 DEF Max
  <2>2. CASE x > 0
    <3>1. x \in {0, x} /\ \A y \in {0, x} : y <= x BY <1>2, <2>2
    <3>2. \A m \in {0, x} : (\A y \in {0, x} : m >= y) => m = x BY <1>2, <2>2
    <3> QED BY <1>2, <2>2, <3>1, <3>2 DEF Max
  <2> QED BY <1>2, <2>1, <2>2
<1> QED BY <1>3 DEF Since, x

LEMMA ChartIsWhole == ASSUME HistoryTypeOK PROVE ChartCoversPeriod
<1> SUFFICES ASSUME NEW days \in 0..MaxTime \div DAY, NEW i \in DOMAIN prices, prices[i].ts >= Since(days),
                    \/ Counted(i, PickGranularity(days))
                    \/ DOMAIN buckets[PickGranularity(days)] = {}
             PROVE  BucketStart(prices[i].ts, PickGranularity(days)) \in DOMAIN QueryHistory(days, PickGranularity(days))
  BY DEF ChartCoversPeriod
<1> DEFINE g == PickGranularity(days)
           b == BucketStart(prices[i].ts, g)
           since == Since(days)
           shown == {c \in DOMAIN buckets[g] : c >= FirstBucket(days, g)}
<1>1. days \in Nat
  <2>1. MaxTime \div DAY \in Int BY HistoryNumbers
  <2> QED BY <2>1
<1>2. g \in Granularity BY DEF PickGranularity, Granularity
<1>3. since \in Nat BY <1>1, SinceIsATime
<1>4. DOMAIN prices = 1..Len(prices) /\ Len(prices) \in Nat /\ prices[i].ts \in Nat BY RowsThere
<1>5. QueryHistory(days, g) = IF shown # {} THEN [c \in shown |-> buckets[g][c].says]
                              ELSE Bucketize(QueryRange(since, Len(prices)), g)
  BY DEF QueryHistory
<1>6. CASE shown = {}
  <2> DEFINE rows == QueryRange(since, Len(prices))
  <2>1. rows \in SUBSET PriceRow /\ IsFiniteSet(rows) BY <1>4, QueryIsFinite
  <2>2. prices[i] \in rows BY <1>4 DEF QueryRange
  <2> HIDE DEF rows, g, shown
  <2>3. MadeOf(Bucketize(rows, g), rows, g) BY <1>2, <2>1, BucketizeMakes
  <2>4. b \in DOMAIN Bucketize(rows, g) BY <2>2, <2>3 DEF MadeOf
  <2> QED BY <1>5, <1>6, <2>4 DEF rows, g
<1>7. CASE shown # {}
  <2>1. DOMAIN buckets[g] # {} BY <1>7
  <2>2. b \in DOMAIN buckets[g] BY <2>1 DEF Counted
  <2>3. BucketStart(since, g) <= b /\ BucketStart(since, g) \in Nat /\ b \in Nat
    <3> HIDE DEF g, since
    <3> QED BY <1>2, <1>3, <1>4, BucketsOrdered, BucketBegins DEF since
  <2>4. b >= FirstBucket(days, g) BY <2>3 DEF FirstBucket
  <2>5. b \in shown BY <2>2, <2>4
  <2> HIDE DEF shown, g, b
  <2> QED BY <1>5, <1>7, <2>5 DEF g, b
<1> QED BY <1>6, <1>7

\* The first bucket of a chart begins where the period does or before, and
\* bucket_start keeps the order of times: no counted price of the period is
\* left out, and none at all when the chart is drawn from the rows.
THEOREM ChartIsComplete == HistorySpec => []ChartCoversPeriod
<1>1. HistorySpec => []HistoryTypeOK BY HistoryTypeCorrect
<1>2. HistoryTypeOK => ChartCoversPeriod BY ChartIsWhole
<1> QED BY <1>1, <1>2, PTL


=============================================================================
