---------------------------- MODULE MCQuakeAlert ----------------------------
(* Small instances of QuakeAlert for TLC, and the stores behind it, one    *)
(* against the other.                                                      *)
EXTENDS QuakeAlert, SequencesExt, FiniteSetsExt

\* The second version is weaker and smaller than the first.
Events == <<[magnitude |-> 6, radius |-> 0], [magnitude |-> 5, radius |-> 0]>>

Configs == {[magnitude_min |-> 5, distance_km |-> 0]}

\* At the epicentre.
Homes == [d \in Device |-> 0]

-----------------------------------------------------------------------------
Days == 2
Phones == {"p", "q"}
Areas == {"a", "b"}
S == INSTANCE QuakeStores WITH Device <- Phones, Cell <- Areas, TTL <- Days, RETENTION <- Days

\* What happens to an index: a report, which in Redis may take a day; a device
\* goes; a broadcast reads a cell; a day passes.
Calls == [op : {"set"}, device : Phones, cell : Areas, slow : {0, 1}] \cup [op : {"remove"}, device : Phones]
           \cup [op : {"read"}, cell : Areas] \cup {[op |-> "day"]}
Histories == UNION {[1..n -> Calls] : n \in 0..4}

Start == [memory |-> S!MemoryEmpty, redis |-> S!RedisEmpty, now |-> 1]
After(s, call) ==
  CASE call.op = "set" ->
         [memory |-> S!memory_set_device_cell(s.memory, call.device, call.cell, s.now),
          redis |-> S!redis_set_device_cell(s.redis, call.device, call.cell, s.now, s.now + call.slow),
          now |-> s.now + call.slow]
    [] call.op = "remove" ->
         [s EXCEPT !.memory = S!memory_remove(@, call.device), !.redis = S!redis_remove(@, call.device, s.now)]
    [] call.op = "read" ->
         [s EXCEPT !.memory = S!memory_devices_in(@, {call.cell}, s.now).index,
                   !.redis = S!redis_devices_in(@, {call.cell}, s.now).index]
    [] call.op = "day" -> [s EXCEPT !.now = @ + 1]
Outcome(history) == FoldLeft(After, Start, history)

\* After any calls in a row the two indexes find the same devices in every
\* cell, but for those read at the instant of their deadline, and no device in
\* two cells, although the reverse entry that tells the old cell expires.
ASSUME IndexesAgree ==
  \A h \in Histories : LET s == Outcome(h) IN
    /\ \A c \in Areas :
         S!redis_devices_in(s.redis, {c}, s.now).found
           = S!memory_devices_in(s.memory, {c}, s.now).found
               \ {e.device : e \in {x \in s.memory.entries : x.cell = c /\ x.deadline = s.now}}
    /\ S!redis_devices_in(s.redis, {"a"}, s.now).found \cap S!redis_devices_in(s.redis, {"b"}, s.now).found = {}

\* The location stores agree until the days of the last report are over; SQL
\* keeps a location for ever.
Reports == UNION {[1..n -> Phones \X Areas] : n \in 0..3}
ASSUME LocationsAgree ==
  \A reports \in Reports, d \in Phones :
    LET sql == FoldLeft(LAMBDA t, r : S!sql_upsert(t, r[1], r[2]), <<>>, reports)
        dynamo == FoldLeft(LAMBDA t, i : S!dynamo_upsert(t, reports[i][1], reports[i][2], i), <<>>,
                           [i \in DOMAIN reports |-> i])
        last == {i \in DOMAIN reports : reports[i][1] = d} IN
    /\ S!sql_get(sql, d) = S!dynamo_get(dynamo, d)
    /\ S!sql_get(sql, d) = IF last = {} THEN None ELSE reports[Max(last)][2]
    /\ \A now \in 0..6 : d \in S!Expired(dynamo, now) <=> last # {} /\ now > Max(last) + Days

\* In a grid of hexagons the square of the distance of the centre of (q, r)
\* from that of (0, 0) is 3 (q^2 + qr + r^2) times the edge's, 8.54^2 km^2, and
\* the epicentre is within an edge of (0, 0).  The rings that CellsFor takes
\* reach every centre within the radius.
Edge2 == 73
Rings(r2) == CHOOSE k \in 1..100 : Edge2 * k^2 >= r2 /\ (k = 1 \/ Edge2 * (k - 1)^2 < r2)
Ring(n) == {<<q, n - q>> : q \in 0..n}   \* a sixth of it, and the others alike
ASSUME RingsReach ==
  \A m \in 0..10 : LET r2 == S!magnitude_to_radius_km2(m) k == Rings(r2) IN
    /\ \A c \in Ring(k + 1) : 3 * (c[1]^2 + c[1] * c[2] + c[2]^2) > (k + 1)^2
    /\ m > 0 => r2 >= S!magnitude_to_radius_km2(m - 1)

\* Versions in any order: the cache names the newest so far.
ASSUME NewestIsNamed ==
  \A versions \in UNION {[1..n -> 1..3] : n \in 1..4} :
    LET before == FoldLeft(LAMBDA c, v : S!memory_update(c, "e", v).cache, <<>>, Front(versions))
        after == S!memory_update(before, "e", Last(versions)) IN
    /\ after.latest = Max(ToSet(versions))
    /\ S!memory_latest(after.cache, "e") = after.latest /\ S!memory_latest(after.cache, "f") = 0

\* Pages of a device come and go in any order: what is published reaches those
\* that are open then, and is delivered if there is one.
Pages == {1, 2}
PageCalls == [op : {"open", "close"}, page : Pages] \cup {[op |-> "publish"]}
PageAfter(s, call) ==
  CASE call.op = "open" -> [s EXCEPT !.hub = S!subscribe(@, "p", call.page), !.open = @ \cup {call.page}]
    [] call.op = "close" -> [s EXCEPT !.hub = S!unsubscribe(@, "p", call.page), !.open = @ \ {call.page}]
    [] call.op = "publish" ->
         LET pub == S!publish(s.hub, s.queues, "p", s.n + 1) IN
         [s EXCEPT !.queues = pub.queues, !.n = @ + 1, !.ok = @ /\ (pub.delivered <=> s.open # {}),
                   !.due = [q \in Pages |-> IF q \in s.open THEN Append(s.due[q], s.n + 1) ELSE s.due[q]]]
NoPages == [hub |-> <<>>, queues |-> [q \in Pages |-> <<>>], due |-> [q \in Pages |-> <<>>],
            open |-> {}, n |-> 0, ok |-> TRUE]
ASSUME HubDelivers ==
  \A h \in UNION {[1..n -> PageCalls] : n \in 0..5} : LET s == FoldLeft(PageAfter, NoPages, h) IN
    s.ok /\ s.queues = s.due /\ (S!is_online(s.hub, "p") <=> s.open # {}) /\ ~ S!is_online(s.hub, "q")

\* The queue in memory and the stream hand out the same jobs, each once and in
\* order; a job that was read by a worker that died before its XACK is pending,
\* and a new worker reads on behind it.
Jobs(n) == [i \in 1..n |-> i]
NewStream == [log |-> <<>>, read |-> 0, pending |-> {}]
Filled(n) == [got |-> <<>>, same |-> TRUE,
              stream |-> FoldLeft(LAMBDA s, j : S!redis_enqueue(s, j), NewStream, Jobs(n)),
              queue |-> FoldLeft(LAMBDA q, j : S!memory_enqueue(q, j), <<>>, Jobs(n))]
Take(x) ==
  LET r == S!redis_dequeue(x.stream) m == S!memory_dequeue(x.queue) IN
  [got |-> Append(x.got, r.job), same |-> x.same /\ m.job = r.job, stream |-> r.stream, queue |-> m.queue]
Taken(n, k) == FoldLeft(LAMBDA x, i : Take(x), Filled(n), Jobs(k))
ASSUME JobsOnce ==
  \A n \in 1..4 :
    /\ LET all == Taken(n, n) IN all.got = Jobs(n) /\ all.same /\ all.stream.pending = {} /\ all.queue = <<>>
    /\ \A k \in 1..n - 1 : LET dead == S!xreadgroup(Taken(n, k - 1).stream) IN
         dead.pending = {k} /\ S!redis_dequeue(dead).job = k + 1

\* A device reads its own rows, newest first.  The cleanup takes a row by its
\* age only: the gate against a second sending opens again, and a job that has
\* not been sent by then has no row.
Rows == {[id |-> S!notification_id("e", v, d), device |-> d, status |-> st, updated_at |-> v] :
           v \in 1..3, d \in Phones, st \in {"ENQUEUED", "VENDOR_ACCEPTED"}}
Gated(rows, id) == \E r \in rows : r.id = id /\ r.status # "FAILED"
Outboxes == {x \in SUBSET Rows : \A a, c \in x : a.id = c.id => a = c}
ASSUME CleanupReopens ==
  \A rows \in Outboxes, now \in 1..6 :
    /\ \A r \in rows : Gated(S!run_cleanup(rows, now), r.id) <=> r.updated_at + Days >= now
    /\ LET own == S!notifications(rows, "p") IN
         ToSet(own) = {r \in rows : r.device = "p"} /\ \A i \in 2..Len(own) : own[i - 1].updated_at > own[i].updated_at

\* A device reads what it has set last, whatever others set.
ASSUME ConfigIsOwn ==
  \A sets \in UNION {[1..n -> Phones \X {5, 6}] : n \in 0..3}, d \in Phones :
    LET configs == FoldLeft(LAMBDA t, r : S!Put(t, r[1], r[2]), <<>>, sets)
        own == {i \in DOMAIN sets : sets[i][1] = d} IN
    S!get_config(configs, d) = IF own = {} THEN "not configured" ELSE sets[Max(own)][2]

=============================================================================
