---------------------------- MODULE CrawlSchedule ----------------------------
(***************************************************************************)
(* What is crawled when, and what becomes of a reported price: the         *)
(* scheduler (app/scheduler.py), the crawl worker (app/worker_crawl.py,    *)
(* app/crawler/fetcher.py), the catalog's signals (app/catalog.py), the    *)
(* reports (app/reports.py) and the requests that start a crawl            *)
(* (app/routes.py).                                                        *)
(*                                                                         *)
(* They are coroutines of one event loop: code between two awaits is one   *)
(* action.  The unit of time is MIN_CRAWL_INTERVAL_S; queues and tables    *)
(* outlive the process.                                                    *)
(***************************************************************************)
EXTENDS ProductPage, FiniteSets

CONSTANTS
  Product, None,
  W_SUB, W_SUSPICIOUS,  \* the weights of the signals
  TRACK_BOOST, BOOST,   \* 50 and 100 in the code
  BASE, MAX_INTERVAL,   \* crawl intervals, in units of the least one
  INFLIGHT_TTL,
  SCHEDULER_BATCH,
  Pages,                \* the pages that Amazon may answer with
  FALLBACK,             \* is Playwright there to fall back to?
  MaxAge,               \* ages are counted up to this bound, the age of what was never seen
  MaxJobs,              \* the mark of a product with so many jobs on their way does not run out
  MaxSubs,              \* bound on the signal of subscriptions and views
  MaxEvents             \* bound on requests and faults

ASSUME CrawlAssumption ==
  /\ {W_SUB, W_SUSPICIOUS, TRACK_BOOST, BOOST, BASE, MAX_INTERVAL, INFLIGHT_TTL, SCHEDULER_BATCH, MaxAge, MaxJobs} \subseteq Nat \ {0}
  /\ {MaxSubs, MaxEvents} \subseteq Nat /\ FALLBACK \in BOOLEAN /\ Pages \subseteq Page
  /\ None \notin [product : Product, attempt : 1..3]

VARIABLES
  product,   \* the row of each product
  pending,   \* products with reports in pending_verify
  adding,    \* jobs marked in flight whose enqueue is awaited: job -> how many
  queue,     \* the stream crawl
  crawl,     \* what the worker and a synchronous request are fetching
  unmarked,  \* products whose mark went while a job of theirs was on its way (history)
  stuck,     \* products whose crawl raised while it resolved their reports (history)
  fresh,     \* products crawled within this unit of time (history)
  outside    \* requests and faults so far

vars == <<product, pending, adding, queue, crawl, unmarked, stuck, fresh, outside>>

Job == Product \X {"tick", "urgent"}
Crawler == {"worker", "sync"}
Row == [subs : 0..MaxSubs, flag : BOOLEAN, boost : {0, TRACK_BOOST, BOOST}, age : 0..MaxAge,
        inflight : 0..INFLIGHT_TTL, captcha : BOOLEAN, gone : BOOLEAN, price : Text]
NewRow == [subs |-> 0, flag |-> FALSE, boost |-> 0, age |-> MaxAge,
           inflight |-> 0, captcha |-> FALSE, gone |-> FALSE, price |-> "none"]
Fetch == [product : Product, attempt : 1..3]

TypeOK ==
  /\ product \in [Product -> Row] /\ pending \subseteq Product
  /\ adding \in [Job -> Nat] /\ queue \in Seq(Product) /\ crawl \in [Crawler -> Fetch \cup {None}]
  /\ \A c \in Crawler : crawl[c] # None /\ ~ FALLBACK => crawl[c].attempt # 3
  /\ unmarked \subseteq Product /\ stuck \subseteq pending /\ fresh \subseteq Product
  /\ outside \in 0..MaxEvents

Init ==
  /\ product = [p \in Product |-> NewRow] /\ pending = {}
  /\ adding = [j \in Job |-> 0] /\ queue = <<>> /\ crawl = [c \in Crawler |-> None]
  /\ unmarked = {} /\ stuck = {} /\ fresh = {} /\ outside = 0

\* What comes from outside: at most MaxEvents.
External == outside < MaxEvents /\ outside' = outside + 1

\* The jobs of a product on their way, from the enqueue to the end of the crawl.
Underway(p) ==
  adding[<<p, "tick">>] + adding[<<p, "urgent">>]
    + Cardinality({i \in DOMAIN queue : queue[i] = p})
    + (IF crawl["worker"] # None /\ crawl["worker"].product = p THEN 1 ELSE 0)

-----------------------------------------------------------------------------
(* scheduler.py                                                            *)

Score(row) == W_SUB * row.subs + (IF row.flag THEN W_SUSPICIOUS ELSE 0) + row.boost

Interval(row) ==
  IF row.gone THEN MAX_INTERVAL
  ELSE LET base == ((IF row.captcha THEN 4 ELSE 1) * BASE) \div (1 + Score(row))
       IN  Max({1, Min({MAX_INTERVAL, base})})

\* Mutant: a product is never taken to have a job on its way.
Inflight_Never(row) == FALSE
Inflight(row) == row.inflight > 0

Due == {p \in Product : ~ Inflight(product[p]) /\ product[p].age >= Interval(product[p])}

\* score * (age / interval) of p is at least that of q.
NoLater(p, q) ==
  Score(product[p]) * product[p].age * Interval(product[q])
    >= Score(product[q]) * product[q].age * Interval(product[p])

Marked(row) == [row EXCEPT !.inflight = INFLIGHT_TTL]

\* The picked products are marked in one transaction, then enqueued one by
\* one; the next tick comes after the last of them.  Equal keys come in any order.
Tick ==
  /\ Due # {} /\ \A p \in Product : adding[<<p, "tick">>] = 0
  /\ \E picked \in kSubset(Min({SCHEDULER_BATCH, Cardinality(Due)}), Due) :
       /\ \A p \in picked, q \in Due \ picked : NoLater(p, q)
       /\ product' = [p \in Product |-> IF p \in picked THEN Marked(product[p]) ELSE product[p]]
       /\ adding' = [j \in Job |-> IF j[2] = "tick" /\ j[1] \in picked THEN 1 ELSE adding[j]]
  /\ UNCHANGED <<pending, queue, crawl, unmarked, stuck, fresh, outside>>

\* enqueue_urgent up to its await, for a row the request has left at row.
EnqueueUrgent(p, row, boost) ==
  LET boosted == [row EXCEPT !.boost = Max({@, boost})] IN
  IF Inflight(row) THEN product' = [product EXCEPT ![p] = boosted] /\ UNCHANGED adding
  ELSE /\ product' = [product EXCEPT ![p] = Marked(boosted)]
       /\ adding' = [adding EXCEPT ![<<p, "urgent">>] = @ + 1]

Enqueue(j) ==
  /\ adding[j] > 0
  /\ adding' = [adding EXCEPT ![j] = @ - 1] /\ queue' = Append(queue, j[1])
  /\ UNCHANGED <<product, pending, crawl, unmarked, stuck, fresh, outside>>

\* The marks stay; a tick gives up its other products with the one that failed.
EnqueueFails(j) ==
  /\ External /\ adding[j] > 0
  /\ LET failed == IF j[2] = "tick" THEN {k \in Job : k[2] = "tick" /\ adding[k] > 0} ELSE {j} IN
       /\ adding' = [k \in Job |-> IF k \in failed THEN adding[k] - 1 ELSE adding[k]]
  /\ UNCHANGED <<product, pending, queue, crawl, unmarked, stuck, fresh>>

-----------------------------------------------------------------------------
(* The requests                                                            *)

\* POST /products/track, POST /products/{id}/crawl
Track(p, boost) ==
  /\ External /\ EnqueueUrgent(p, product[p], boost)
  /\ UNCHANGED <<pending, queue, crawl, unmarked, stuck, fresh>>

Subscribe(p) ==
  /\ External /\ product[p].subs < MaxSubs
  /\ LET row == [product[p] EXCEPT !.subs = @ + 1] IN
     IF row.price # "none" THEN product' = [product EXCEPT ![p] = row] /\ UNCHANGED adding
     ELSE EnqueueUrgent(p, row, TRACK_BOOST)
  /\ UNCHANGED <<pending, queue, crawl, unmarked, stuck, fresh>>

\* Views, and subscriptions deleted in threads that read and write without a
\* lock: updates may be lost, and any count may come of it.
Bump(p, n) ==
  /\ External /\ n # product[p].subs /\ product' = [product EXCEPT ![p].subs = n]
  /\ UNCHANGED <<pending, adding, queue, crawl, unmarked, stuck, fresh>>

\* ingest: without a known price every report is suspicious, and after a price of
\* zero none is; an accepted one has a price of its own.
Report(p, suspicious) ==
  /\ External
  /\ product[p].price = "none" => suspicious
  /\ product[p].price = "zero" => ~ suspicious
  /\ IF suspicious
     THEN pending' = pending \cup {p} /\ stuck' = stuck \ {p} /\ EnqueueUrgent(p, [product[p] EXCEPT !.flag = TRUE], BOOST)
     ELSE /\ product' = [product EXCEPT ![p].age = 0, ![p].price = "price"]
          /\ UNCHANGED <<pending, adding, stuck>>
  /\ UNCHANGED <<queue, crawl, unmarked, fresh>>

-----------------------------------------------------------------------------
(* worker_crawl.py and fetcher.py                                          *)

Start(c, p) == crawl' = [crawl EXCEPT ![c] = [product |-> p, attempt |-> 1]]

TakeJob ==
  /\ crawl["worker"] = None /\ queue # <<>>
  /\ Start("worker", Head(queue)) /\ queue' = Tail(queue)
  /\ UNCHANGED <<product, pending, adding, unmarked, stuck, fresh, outside>>

\* POST /products/{id}/crawl?sync=true
CrawlNow(p) ==
  /\ External /\ crawl["sync"] = None /\ Start("sync", p)
  /\ UNCHANGED <<product, pending, adding, queue, unmarked, stuck, fresh>>

LastAttempt == IF FALLBACK THEN 3 ELSE 2

\* What a try may come to: a page, or an exception of the network.
Status == {StatusOf(page) : page \in Pages} \cup {"http_error"}
Failed == {"captcha", "http_error"}

\* Blocked or failed: another fingerprint, then Playwright if there is one.
Retry(c, status) ==
  /\ External /\ crawl[c] # None /\ status \in Failed /\ crawl[c].attempt < LastAttempt
  /\ crawl' = [crawl EXCEPT ![c].attempt = @ + 1]
  /\ UNCHANGED <<product, pending, adding, queue, unmarked, stuck, fresh>>

Seen(row) == [row EXCEPT !.age = 0]
Digested(row) == [Seen(row) EXCEPT !.flag = FALSE, !.boost = 0, !.gone = FALSE]

Outcome(row, status) ==
  IF status = "ok" THEN [Digested(row) EXCEPT !.price = "price"]
  ELSE IF status = "free" THEN [Digested(row) EXCEPT !.price = "zero"]
  ELSE IF status \in {"unavailable", "region_locked"} THEN Digested(row)
  ELSE IF status = "not_found" THEN [Seen(row) EXCEPT !.gone = TRUE]
  ELSE IF status = "captcha" THEN [row EXCEPT !.gone = FALSE] ELSE row

\* record_seen and record_crawl.
RecordCrawl(row, status) ==
  Outcome([row EXCEPT !.inflight = 0, !.captcha = (status = "captcha")], status)

\* Mutant: only a price resolves the reports.
Resolved_ByPrice(p, status) == IF status = "ok" THEN pending \ {p} ELSE pending
\* Every pending report of the product is confirmed or rejected; with a price of
\* zero the division raises, and they stay as they are.
Resolved(p, status) == IF status = "free" THEN pending ELSE pending \ {p}

CrawlEnds(c, status) ==
  /\ crawl[c] # None
  /\ status \in Failed => crawl[c].attempt = LastAttempt
  /\ IF status = "ok" THEN UNCHANGED outside ELSE External
  /\ LET p == crawl[c].product IN
       /\ product' = [product EXCEPT ![p] = RecordCrawl(@, status)]
       /\ pending' = Resolved(p, status)
       /\ stuck' = IF status = "free" THEN stuck \cup (pending \cap {p}) ELSE stuck \ {p}
       /\ fresh' = fresh \cup {p}
       /\ crawl' = [crawl EXCEPT ![c] = None]
       /\ unmarked' = IF Underway(p) > (IF c = "worker" THEN 1 ELSE 0) THEN unmarked \cup {p} ELSE unmarked \ {p}
  /\ UNCHANGED <<adding, queue>>

-----------------------------------------------------------------------------
\* Mutant: a mark does not run out.
Aged_KeepsMark(row) == [row EXCEPT !.age = Min({@ + 1, MaxAge})]
Aged(row) == [row EXCEPT !.age = Min({@ + 1, MaxAge}), !.inflight = Max({@ - 1, 0})]

\* An enqueue takes no time to speak of, a crawl may take any.
TimePasses ==
  /\ \A j \in Job : adding[j] = 0
  /\ \A p \in Product : product[p].inflight = 1 => Underway(p) < MaxJobs
  /\ product' = [p \in Product |-> Aged(product[p])]
  /\ fresh' = {}
  /\ unmarked' = unmarked \cup {p \in Product : product[p].inflight = 1 /\ Underway(p) > 0}
  /\ <<product, fresh, unmarked>>' # <<product, fresh, unmarked>>
  /\ UNCHANGED <<pending, adding, queue, crawl, stuck, outside>>

\* The process dies and is started again; what was marked stays marked.
Crash ==
  /\ External
  /\ adding' = [j \in Job |-> 0] /\ crawl' = [c \in Crawler |-> None]
  /\ UNCHANGED <<product, pending, queue, unmarked, stuck, fresh>>

Enqueuing == \E j \in Job : Enqueue(j)
Fetching(c) == \E status \in Status : Retry(c, status) \/ CrawlEnds(c, status)

Next ==
  \/ Tick \/ Enqueuing \/ TakeJob \/ TimePasses \/ Crash
  \/ \E c \in Crawler : Fetching(c)
  \/ \E j \in Job : EnqueueFails(j)
  \/ \E p \in Product :
       \/ Subscribe(p) \/ CrawlNow(p)
       \/ \E boost \in {TRACK_BOOST, BOOST} : Track(p, boost)
       \/ \E n \in 0..MaxSubs : Bump(p, n)
       \/ \E suspicious \in BOOLEAN : Report(p, suspicious)

\* A fetch has a timeout: each crawl ends.
Spec ==
  /\ Init /\ [][Next]_vars
  /\ WF_vars(Tick) /\ WF_vars(Enqueuing) /\ WF_vars(TakeJob) /\ WF_vars(TimePasses)
  /\ \A c \in Crawler : WF_vars(Fetching(c))

-----------------------------------------------------------------------------
\* A product has one job on its way at a time, unless its mark went before
\* the job did: by its TTL, or at the end of another crawl of the product.
OneJob == \A p \in Product : Underway(p) > 1 => p \in unmarked

\* As long as a report waits for its crawl the product keeps the flag that
\* brings it to the front, whatever other crawls of it do; unless the crawl found
\* a price of zero.
WaitingIsFlagged == \A p \in pending \ stuck : product[p].flag

\* Again and again no report waits, although jobs are lost and crawls fail:
\* a tick finds the product again once the mark has run out. Only a price of zero
\* leaves a report behind.
ReportsResolve == []<>(pending \subseteq stuck)

\* scheduler.py: a product that Amazon blocked is left alone for longer than
\* the least interval.
BacksOff ==
  [][\A p \in Product : adding'[<<p, "tick">>] > adding[<<p, "tick">>] /\ product[p].captcha => p \notin fresh]_vars

=============================================================================
