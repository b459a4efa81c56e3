----------------------------- MODULE QuakeStores -----------------------------
(***************************************************************************)
(* What the earthquake service keeps its data in: the two location stores  *)
(* (app/location_store.py), the two back ends of the geo index             *)
(* (app/geo_index.py), the supersession cache of one process, the job      *)
(* queue, the hub of open pages, and what the cleanup takes.  Each         *)
(* operation is taken whole here; QuakeAlert and GeoIndex interleave their *)
(* calls.                                                                  *)
(***************************************************************************)
EXTENDS Integers, Sequences, FiniteSetsExt, SequencesExt, Functions

CONSTANTS Device, Cell, None,
          TTL,        \* of the index and of the rows of DynamoDB
          RETENTION   \* of the outbox

Put(table, key, value) == (key :> value) @@ table

-----------------------------------------------------------------------------
(* The location stores: device -> its row.                                 *)

sql_upsert(table, d, cell) == Put(table, d, [cell |-> cell])
sql_get(table, d) == IF d \in DOMAIN table THEN table[d].cell ELSE None

dynamo_upsert(table, d, cell, now) == Put(table, d, [cell |-> cell, ttl_epoch |-> now + TTL])
dynamo_get(table, d) == IF d \in DOMAIN table THEN table[d].cell ELSE None

\* What DynamoDB may take away at any time after.
Expired(table, now) == {d \in DOMAIN table : table[d].ttl_epoch < now}

-----------------------------------------------------------------------------
(* The geo index: entries of a device in a cell with a deadline, and the   *)
(* reverse index.                                                          *)

Entry(d, cell, deadline) == [device |-> d, cell |-> cell, deadline |-> deadline]
Leave(entries, d, cells) == {e \in entries : ~ (e.device = d /\ e.cell \in cells)}
Found(entries, cells) == {e.device : e \in {x \in entries : x.cell \in cells}}

MemoryEmpty == [entries |-> {}, cellOf |-> [d \in Device |-> None]]

memory_set_device_cell(ix, d, cell, now) ==
  [entries |-> Leave(ix.entries, d, {cell, ix.cellOf[d]}) \cup {Entry(d, cell, now + TTL)},
   cellOf |-> [ix.cellOf EXCEPT ![d] = cell]]

\* An entry that is read at its deadline still counts.
memory_devices_in(ix, cells, now) ==
  LET kept == {e \in ix.entries : e.cell \in cells => e.deadline >= now} IN
  [found |-> Found(kept, cells), index |-> [ix EXCEPT !.entries = kept]]

memory_remove(ix, d) ==
  [entries |-> Leave(ix.entries, d, {ix.cellOf[d]}), cellOf |-> [ix.cellOf EXCEPT ![d] = None]]

\* In Redis the reverse entry expires too.
RedisEmpty == [entries |-> {}, cellOf |-> [d \in Device |-> [cell |-> None, until |-> 0]]]

redis_cell(ix, d, now) == IF ix.cellOf[d].until > now THEN ix.cellOf[d].cell ELSE None

\* The calls take until `later`.
redis_set_device_cell(ix, d, cell, now, later) ==
  [entries |-> Leave(ix.entries, d, {cell, redis_cell(ix, d, now)}) \cup {Entry(d, cell, now + TTL)},
   cellOf |-> [ix.cellOf EXCEPT ![d] = [cell |-> cell, until |-> later + TTL]]]

redis_devices_in(ix, cells, now) ==
  LET kept == {e \in ix.entries : e.cell \in cells => e.deadline > now} IN
  [found |-> Found(kept, cells), index |-> [ix EXCEPT !.entries = kept]]

redis_remove(ix, d, now) ==
  [entries |-> Leave(ix.entries, d, {redis_cell(ix, d, now)}),
   cellOf |-> [ix.cellOf EXCEPT ![d] = [cell |-> None, until |-> 0]]]

-----------------------------------------------------------------------------
(* How far an earthquake is felt: the square of the radius,                *)
(* 400 * 5^(magnitude - 4) of a whole magnitude, between 5 and 800 km.     *)

magnitude_to_radius_km2(magnitude) ==
  LET felt2 == IF magnitude >= 4 THEN 400 * 5^(magnitude - 4) ELSE 400 \div 5^(4 - magnitude) IN
  Max({25, Min({felt2, 640000})})

-----------------------------------------------------------------------------
(* The supersession cache of one process, alert -> newest version; the     *)
(* hub, device -> its open queues; the stream of jobs of a channel.        *)

memory_latest(cache, alert) == IF alert \in DOMAIN cache THEN cache[alert] ELSE 0
memory_update(cache, alert, version) ==
  IF version > memory_latest(cache, alert) THEN [latest |-> version, cache |-> Put(cache, alert, version)]
  ELSE [latest |-> memory_latest(cache, alert), cache |-> cache]

is_online(hub, d) == d \in DOMAIN hub
subscribe(hub, d, q) == Put(hub, d, (IF is_online(hub, d) THEN hub[d] ELSE {}) \cup {q})
unsubscribe(hub, d, q) ==
  IF ~ is_online(hub, d) THEN hub
  ELSE IF hub[d] \subseteq {q} THEN Restrict(hub, DOMAIN hub \ {d})
  ELSE [hub EXCEPT ![d] = @ \ {q}]
publish(hub, queues, d, data) ==
  [delivered |-> is_online(hub, d),
   queues |-> [q \in DOMAIN queues |->
                 IF is_online(hub, d) /\ q \in hub[d] THEN Append(queues[q], data) ELSE queues[q]]]

memory_enqueue(queue, job) == Append(queue, job)
memory_dequeue(queue) == [job |-> Head(queue), queue |-> Tail(queue)]

\* The consumer group begins with the first entry; a read hands out the next
\* one, which stays pending until the XACK.
redis_enqueue(stream, job) == [stream EXCEPT !.log = Append(@, job)]
xreadgroup(stream) == [stream EXCEPT !.read = @ + 1, !.pending = @ \cup {stream.read + 1}]
redis_dequeue(stream) ==
  [job |-> stream.log[stream.read + 1], stream |-> [xreadgroup(stream) EXCEPT !.pending = @ \ {stream.read + 1}]]

-----------------------------------------------------------------------------
(* What a page may read, and the daily cleanup.  An outbox is a set of     *)
(* rows [id, device, status, updated_at].                                  *)

notification_id(alert, version, d) == <<alert, version, d>>
get_config(configs, d) == IF d \in DOMAIN configs THEN configs[d] ELSE "not configured"
notifications(outbox, d) ==
  SetToSortSeq({r \in outbox : r.device = d}, LAMBDA a, b : a.updated_at > b.updated_at)
run_cleanup(outbox, now) == {r \in outbox : r.updated_at >= now - RETENTION}

=============================================================================
