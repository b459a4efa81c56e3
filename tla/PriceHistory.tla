---------------------------- MODULE PriceHistory ----------------------------
(***************************************************************************)
(* The price table of one product (app/price_store.py), the buckets the    *)
(* chart is drawn from (app/aggregation.py) and the chart itself.          *)
(*                                                                         *)
(* Aggregations run in threads: one periodic, others on request.  The      *)
(* event loop appends prices; a backfill appends in a thread.  Each step   *)
(* is one transaction.  A bucket keeps sum and n where the table keeps     *)
(* their quotient.                                                         *)
(***************************************************************************)
EXTENDS Integers, Sequences, FiniteSets, FiniteSetsExt

CONSTANTS
  Price,
  Aggregator,      \* the threads that aggregate, "periodic" among them
  DAY, WEEK,       \* lengths of a day and a week
  MonthStart,      \* when months begin
  DAILY, WEEKLY,   \* the longest periods drawn by day and by week: 90 and 366 days
  MaxTime,         \* bound on the clock
  MaxRows,         \* bound on the rows of the table
  MaxRequests      \* bound on requests and crashes

ASSUME HistoryAssumption ==
  /\ Price \subseteq Nat /\ "periodic" \in Aggregator
  /\ {DAY, WEEK, DAILY, WEEKLY, MaxTime, MaxRows} \subseteq Nat \ {0} /\ MaxRequests \in Nat
  /\ WEEK % DAY = 0 /\ 0 \in MonthStart /\ \A m \in MonthStart : m \in Nat /\ m % DAY = 0

Granularity == {"daily", "weekly", "monthly"}
Time == 0..MaxTime

VARIABLES
  prices,   \* the table prices, in the order of its commits: [ts, price]
  now,
  seeing,   \* the row appended whose record_seen is still to come, or 0
  stale,    \* is last_price_at later than every updated_at?
  buckets,  \* granularity -> bucket_start -> the row of price_aggregations
  agg,      \* thread -> what it does, and how many rows it read
  missed,   \* rows the clock of record_seen does not vouch for (history)
  requests  \* requests and crashes so far

historyVars == <<prices, now, seeing, stale, buckets, agg, missed, requests>>

PriceRow == [ts : Time, price : Price]
Bucket == [sum : Nat, min : Price, max : Price, close : Price, n : Nat \ {0}]
\* upto, how many rows the thread had read, is not in the table (history).
Stored == [says : Bucket, upto : 1..MaxRows]
Resting == [pc |-> "rest", read |-> 0]

HistoryTypeOK ==
  /\ prices \in Seq(PriceRow) /\ Len(prices) <= MaxRows
  /\ \A i, j \in DOMAIN prices : i # j => prices[i].ts # prices[j].ts
  /\ now \in Time /\ seeing \in 0..Len(prices) /\ stale \in BOOLEAN
  /\ DOMAIN buckets = Granularity
  /\ \A g \in Granularity : DOMAIN buckets[g] \subseteq Time /\ \A b \in DOMAIN buckets[g] : buckets[g][b] \in Stored
  /\ agg \in [Aggregator -> [pc : {"rest", "picked", "read"}, read : 0..MaxRows]]
  /\ missed \subseteq 1..MaxRows /\ requests \in 0..MaxRequests

HistoryInit ==
  /\ prices = <<>> /\ now = 0 /\ seeing = 0 /\ stale = FALSE
  /\ buckets = [g \in Granularity |-> <<>>] /\ agg = [a \in Aggregator |-> Resting]
  /\ missed = {} /\ requests = 0

Requested == requests < MaxRequests /\ requests' = requests + 1

-----------------------------------------------------------------------------
(* The pure part of aggregation.py                                         *)

BucketStart(ts, g) ==
  CASE g = "daily"   -> DAY * (ts \div DAY)
    [] g = "weekly"  -> WEEK * (ts \div WEEK)
    [] g = "monthly" -> Max({m \in MonthStart : m <= ts})

Opened(r) == [sum |-> r.price, min |-> r.price, max |-> r.price, close |-> r.price, n |-> 1]

\* Mutant: the close is the first price.
Extended_Open(s, r) ==
  [s EXCEPT !.sum = @ + r.price, !.min = IF r.price < @ THEN r.price ELSE @,
            !.max = IF r.price > @ THEN r.price ELSE @, !.n = @ + 1]
Extended(s, r) ==
  [s EXCEPT !.sum = @ + r.price, !.min = IF r.price < @ THEN r.price ELSE @,
            !.max = IF r.price > @ THEN r.price ELSE @, !.close = r.price, !.n = @ + 1]

Added(out, r, b) ==
  [c \in DOMAIN out \cup {b} |->
     IF c # b THEN out[c] ELSE IF b \in DOMAIN out THEN Extended(out[b], r) ELSE Opened(r)]

Latest(rows) == CHOOSE r \in rows : \A o \in rows : o.ts <= r.ts

\* The rows come in the order of ts: the latest is added to what those before it make.
Bucketize(rows, g) ==
  MapThenFoldSet(LAMBDA r, out : Added(out, r, BucketStart(r.ts, g)), <<>>, LAMBDA r : r, Latest, rows)

\* The rows a query sees when the table has k rows.
QueryRange(since, k) == {prices[i] : i \in {i \in 1..k : prices[i].ts >= since}}

PickGranularity(days) == IF days <= DAILY THEN "daily" ELSE IF days <= WEEKLY THEN "weekly" ELSE "monthly"

Since(days) == Max({0, now - days * DAY})

\* Mutant: the bucket that the period begins in is left out.
FirstBucket_Whole(days, g) == Since(days)
FirstBucket(days, g) == BucketStart(Since(days), g)

\* The buckets of the chart: those of the table, or of the rows if it has none.
QueryHistory(days, g) ==
  LET since == Since(days)
      shown == {b \in DOMAIN buckets[g] : b >= FirstBucket(days, g)}
  IN  IF shown # {} THEN [b \in shown |-> buckets[g][b].says] ELSE Bucketize(QueryRange(since, Len(prices)), g)

-----------------------------------------------------------------------------
(* Prices                                                                  *)

Reading == \E a \in Aggregator : agg[a].pc = "read"
Free(ts) == \A i \in DOMAIN prices : prices[i].ts # ts

AppendPrice(p) ==
  /\ Len(prices) < MaxRows /\ Free(now) /\ prices' = Append(prices, [ts |-> now, price |-> p])
  /\ seeing = 0 /\ seeing' = Len(prices')
  /\ missed' = IF Reading THEN missed \cup {Len(prices')} ELSE missed
  /\ UNCHANGED <<now, stale, buckets, agg, requests>>

RecordSeen ==
  /\ seeing # 0 /\ seeing' = 0 /\ stale' = TRUE
  /\ UNCHANGED <<prices, now, buckets, agg, missed, requests>>

\* A backfill is of the past, and leaves last_price_at alone.
BulkAppend(ts, p) ==
  /\ Requested /\ ts < now /\ Free(ts)
  /\ Len(prices) < MaxRows /\ prices' = Append(prices, [ts |-> ts, price |-> p])
  /\ missed' = missed \cup {Len(prices')}
  /\ UNCHANGED <<now, seeing, stale, buckets, agg>>

-----------------------------------------------------------------------------
(* aggregate_all and aggregate_product                                     *)

\* Mutant: a product with a new price is taken for fresh if it has buckets.
Targeted_New == stale /\ buckets["daily"] = <<>>
Targeted == stale

Pick(a) ==
  /\ agg[a].pc = "rest" /\ agg' = [agg EXCEPT ![a].pc = "picked"]
  /\ UNCHANGED <<prices, now, seeing, stale, buckets, missed>>

PickPeriodic == Targeted /\ Pick("periodic") /\ UNCHANGED requests

\* POST /aggregations/run
PickOnRequest(a) == a # "periodic" /\ Requested /\ Pick(a)

Read(a) ==
  /\ agg[a].pc = "picked"
  /\ agg' = [agg EXCEPT ![a] = IF prices = <<>> THEN Resting ELSE [pc |-> "read", read |-> Len(prices)]]
  /\ UNCHANGED <<prices, now, seeing, stale, buckets, missed, requests>>

Aggregated(k, g) ==
  LET fresh == Bucketize(QueryRange(0, k), g) IN
  [b \in DOMAIN fresh \cup DOMAIN buckets[g] |->
     IF b \in DOMAIN fresh THEN [says |-> fresh[b], upto |-> k] ELSE buckets[g][b]]

\* One transaction for the three granularities.  updated_at is the time of
\* the merge, taken with the commit here.
Merge(a) ==
  /\ agg[a].pc = "read" /\ agg' = [agg EXCEPT ![a] = Resting]
  /\ buckets' = [g \in Granularity |-> Aggregated(agg[a].read, g)] /\ stale' = FALSE
  /\ UNCHANGED <<prices, now, seeing, missed, requests>>

-----------------------------------------------------------------------------
ClockTicks ==
  /\ now < MaxTime /\ now' = now + 1
  /\ UNCHANGED <<prices, seeing, stale, buckets, agg, missed, requests>>

ServerDies ==
  /\ Requested /\ agg' = [a \in Aggregator |-> Resting] /\ seeing' = 0
  /\ missed' = missed \cup ({seeing} \ {0})
  /\ UNCHANGED <<prices, now, stale, buckets>>

Aggregation == PickPeriodic \/ Read("periodic") \/ Merge("periodic")

HistoryNext ==
  \/ \E p \in Price : AppendPrice(p) \/ \E ts \in Time : BulkAppend(ts, p)
  \/ RecordSeen \/ PickPeriodic \/ ClockTicks \/ ServerDies
  \/ \E a \in Aggregator : PickOnRequest(a) \/ Read(a) \/ Merge(a)

HistorySpec == HistoryInit /\ [][HistoryNext]_historyVars /\ WF_historyVars(RecordSeen) /\ WF_historyVars(Aggregation)

-----------------------------------------------------------------------------
Paid(rows) == MapThenSumSet(LAMBDA r : r.price, rows)

\* What a bucket must say of a set of rows, without the loop over them.
Says(s, rows) ==
  /\ rows # {} /\ s.n = Cardinality(rows)
  /\ s.sum = Paid(rows)
  /\ \A r \in rows : s.min <= r.price /\ r.price <= s.max
  /\ \E r \in rows : r.price = s.min
  /\ \E r \in rows : r.price = s.max
  /\ \E r \in rows : r.price = s.close /\ \A o \in rows : o.ts <= r.ts

RowsOf(b, g, k) == {prices[i] : i \in {i \in 1..k : BucketStart(prices[i].ts, g) = b}}

\* Every bucket says what the rows of its days, week or month said when it
\* was computed, even if another thread computed its neighbours.
BucketsAreSnapshots ==
  \A g \in Granularity : \A b \in DOMAIN buckets[g] :
    Says(buckets[g][b].says, RowsOf(b, g, buckets[g][b].upto))

Counted(i, g) ==
  LET b == BucketStart(prices[i].ts, g) IN b \in DOMAIN buckets[g] /\ buckets[g][b].upto >= i

\* A chart shows the bucket of every price of its period, the first and the
\* last one too, unless some are in the table of buckets and this one is not.
ChartCoversPeriod ==
  \A days \in 0..MaxTime \div DAY :
    LET g == PickGranularity(days)
        asked == {i \in DOMAIN prices : prices[i].ts >= Since(days)}
    IN  \A i \in asked : Counted(i, g) \/ (\A j \in asked : ~ Counted(j, g) /\ DOMAIN buckets[g] = {})
          => BucketStart(prices[i].ts, g) \in DOMAIN QueryHistory(days, g)

\* Again and again every price is in its buckets, but for backfilled ones,
\* those whose process died before they raised the flag, and those that came
\* between an aggregation's read and its commit.
CaughtUp == []<>(\A i \in DOMAIN prices : i \in missed \/ \A g \in Granularity : Counted(i, g))

\* aggregation.py: the buckets lag behind the prices by one period at most.
EveryPriceCounted ==
  []<>(\A i \in DOMAIN prices, g \in Granularity : Counted(i, g))

=============================================================================
