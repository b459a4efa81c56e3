# A verification project for the system-design demos

The repository holds four programs that share no code: a **Messenger** (etcd-owned
shards, pub/sub nodes, WebSocket gateways), a **QR code service** (URL table, redirect
cache), an **Earthquake notification system** (versioned alerts, geo index, outbox, job
stream) and an **Amazon price tracker** (CDC tailers, price events, crawl scheduler,
aggregation). This directory models the parts of them in which steps of several actors
interleave, and the functions their results rest on; it checks the models with TLC and
proves theorems about eight of them with TLAPS.

Contents: [inventory](#inventory), [modules](#modules), [runs](#runs),
[what the code does not keep](#what-the-code-does-not-keep), [proofs](#proofs),
[not modelled](#not-modelled), [plan](#plan).
`PROJECT.json` maps every definition to its source lines and lists the hazards.

## Inventory

### Messenger (`src/Messenger`)

| part | state | operations | hard part | what makes it correct |
|---|---|---|---|---|
| message store (`store.py`: SQLite or DynamoDB) | messages keyed by (chat, message_id), client ids, chats, memberships in two tables, last_read | append_message, messages_after, list_user_chats, members, create_chat, update_last_read | a write may take effect although its call failed; two stores behind one interface | one row per id and per client_msg_id; both stores answer alike |
| pub/sub owner of a chat (`pubsub.py`) | `ChatSeq` (head, members, lock), dedupe table, subscribers, `owned`, `draining` | publish, modify, notify, subscribe, unsubscribe, load, forget | awaits inside the per-chat lock, moves of the shard, zombie owners | ids 1..n without gap or duplicate, persist before ack, fan-out in order |
| shard ownership (`registry.py`, `pubsub.py`) | etcd lease and key per shard; in the node `lease`, `last_ok`, `owned`, `_last_claim` | grant, put, keepalive, claim, release, revoke, reconcile, drain, shutdown | clocks against lease expiry, lost or late answers, outages | a node serves only while it holds the key, and a shard is always served again |
| cluster view (`registry.py`, `shardmap.py`) | shard → owner map per process | load, watch, reload, callbacks | lag; claim answers race with events | it follows etcd |
| gateway (`gateway.py`) | `sub_at`, `last_forwarded`, `floor`, references, ack buffer, connections | connect and catch-up, reconcile, subscribe, repair, deliver, fetch, ack, call_owner, create_chat | asyncio interleaving of links, map changes, database reads and clients | every connected client gets every message |
| links (`links.py`, `routes_pubsub.py`) | one WebSocket per gateway and node, futures of requests, bounded send queue | send, request, down, up | requests on a link that breaks, a peer that is too slow | loss is noticed: nothing waits for what cannot come |
| client page (`static/index.html`) | lastSeen, buffer, fetching | onNewMessage, fetch, ack, reconnect | holes, duplicates, any order | messages are shown in order and none is kept back |
| membership, chat creation (`pubsub.py`, `gateway.py`, `store.py`) | participants in two tables and in `ChatSeq.members`, the connections' chats | createChat, modifyParticipants, chatAdded/Removed | checks and writes outside the lock, retries of a call that is not idempotent, rows that fail one by one | tables and owner agree, the limit holds, users are told |

A client sends to its gateway; the gateway asks the owner of the chat's shard
(`call_owner`, with retries); the owner persists, answers, and fans out to the gateways
that subscribed; each gateway pushes to its clients. Ownership is a key in etcd; all
processes follow it through a watch.

### QR code service (`src/QR Code Generator`)

| part | state | operations | hard part | what makes it correct |
|---|---|---|---|---|
| redirect and management (`routes.py`, `cache.py`) | `url_mappings`, redirect cache with a TTL of an hour | create (insert, retry on UNIQUE, warm the cache), update and delete (commit, then invalidate), redirect (cache, else table and fill) | requests run in parallel threads and servers; table and cache change in separate calls that may fail | an entry is coherent with its row or becomes so; expired links are not followed; a token has one creator |
| the rest (`url_validator.py`, `token_gen.py`, `auth.py`, `storage.py`, `infra/modules/cleanup`) | scan log, pictures | validate, make_token, list, analytics, image, cleanup | normal forms, statements of a cleanup between which a request may run | a normal form is stable, counts agree, nothing live is cleaned up |

### Earthquake notification system (`src/Earthquake notification system`)

| part | state | operations | hard part | what makes it correct |
|---|---|---|---|---|
| alerts (`broadcast.py`, `supersession.py`, `routes.py`, `gateway.py`) | newest version per alert, outbox rows | trigger, poll of the USGS feed, broadcast (supersede, cancel older rows, gate, enqueue) | versions of one alert overlap; awaits at every enqueue | nobody is told an older version after a newer one, nobody is forgotten |
| sender (`worker.py`, `queue.py`, `realtime.py`) | job stream or queue, SSE hub | dequeue (acknowledged first), terminal and version checks, publish, status | crashes after the acknowledgement | no version twice; every row settles |
| locations (`location_store.py`, `geo_index.py`, `geo.py`) | location per device, sets of devices per cell | report, remove, devices in cells | a report is several calls, in a thread, beside other reports and broadcasts | a device at rest is in its cell |

A report upserts the location and moves the device in the index. A trigger or the poller
starts a broadcast, which reads the index, writes an outbox row per device and enqueues a
job; the worker publishes to the hub, to which the pages are connected.

### Amazon price tracker (`src/Amazon price tracking service`)

| part | state | operations | hard part | what makes it correct |
|---|---|---|---|---|
| price log and tailers (`price_store.py`, `cdc.py`) | prices with sequence numbers (SQL) or per millisecond (DynamoDB), checkpoint(s) | append, backfill, poll_once, advance_to; shards, iterators, records of DynamoDB Streams | checkpoint against enqueue, restarts, shards that close | every price becomes an event, in order |
| notifications (`worker_notify.py`, `channels.py`, `queue.py`) | `last_event_seq`, subscriptions with `last_notified_price`, outbox | handle_price_event, _deliver, subscribe, unsubscribe | events come again; commit and enqueue in two steps; the cooldown is written after the sending | replays do nothing, nothing is skipped, a subscription's memory is its own |
| crawling (`scheduler.py`, `worker_crawl.py`, `catalog.py`, `reports.py`) | products with inflight marks, boosts and flags, job stream, reports | tick, enqueue_urgent, crawl_one, ingest, record_crawl, bumps | marks time out, jobs are lost, counts are read and written without a lock | one job per product, every report is resolved |
| fetching (`crawler/fetcher.py`, `crawler/parser.py`) | profile, session, token bucket | fetch in tiers, parse_product, parse_money | pages that lie, formats of money | a price is the price of the page |
| history (`aggregation.py`) | buckets per day, week, month | recompute, query_history, periodic and requested aggregation | two aggregations and new prices at once | a bucket says what its prices say, the chart covers its period |

A crawl records a price; the tailer turns rows of the price log into events; the worker
compares them with the subscriptions and enqueues notifications; the sender delivers.

## Modules

| module | models | uses |
|---|---|---|
| `ShardOwnership` | who may serve a shard as the message path sees it: the etcd key, `owned`, and the reasons not to serve. No clock: any number of nodes may believe they own it | |
| `ShardLease` | the same shard with leases, clocks, the two tasks of a node, calls that may fail before or after they took effect, the watch, outages | implements `ShardOwnership` |
| `ChatLog` | the promise: one append-only log, one entry per client_msg_id, acks only of what is in it | |
| `ChatOwner` | the publish path of a chat on all nodes over the store | extends `ShardOwnership`, implements `ChatLog` |
| `ChatStore` | the operations of both stores as functions of their tables | compared in `MCChatOwner` |
| `Membership` | who is in a chat: creation, `_modify` and its writes, gateways that send and repeat, connections that are told | |
| `GatewayDelivery` | the way from owner to client: gateway, links, client page | extends `ShardOwnership`; relies on `ChatOwner` for the ids |
| `NodeLink` | one link with its requests, futures, queue and reconnects, and the calls made over it | |
| `QrRedirect` | table, cache and the four requests of the QR service | |
| `QrManage` | URLs, tokens, users, lists, pictures and the cleanup as functions | checked in `MCQrRedirect` |
| `GeoIndex` | location reports against the Redis index, call by call | |
| `QuakeAlert` | the versions of an alert from trigger or poller through broadcast, outbox and stream to the hub | extends `GeoIndex` |
| `QuakeStores` | location stores, index back ends, version cache, queue, stream, hub, configurations and cleanup as functions | compared in `MCQuakeAlert` |
| `PriceNotify` | price log, SQL tailer, events, outbox, sender, subscriptions | |
| `StreamTail` | the tailer of DynamoDB Streams | |
| `PriceHistory` | aggregations, buckets and charts | |
| `PriceStore` | both price tables and the cleanup as functions | compared in `MCPriceHistory` |
| `CrawlSchedule` | scheduler, job stream, crawl worker, reports and signals | extends `ProductPage` |
| `ProductPage` | what a page's status, price and money come to; profiles and pacing as functions | checked in `MCCrawlSchedule` |
| `...Proofs` | the proofs about the module they are named after; `CrawlScheduleProofs` also those about `StreamTail` and `PriceHistory`, `ChatOwnerProofs` those about `NodeLink` | |
| `MC...` | the values, situations and symmetry sets for TLC, and what is checked of the functions | |

**Composition.** `ChatOwner` and `GatewayDelivery` take the actions of `ShardOwnership` as
the environment of the message path, and `ShardLease` does nothing that the interface does
not allow (checked, and proved). `GatewayDelivery` counts messages by ids `1..stored`,
which is what `ChatOwner` proves of the store. `QuakeAlert` takes the steps of reports from
`GeoIndex`, and its broadcasts read the index that they change.

**Functions.** The modules `ChatStore`, `QrManage`, `QuakeStores`, `PriceStore` and
`ProductPage` have no steps. What they should do is stated as a named `ASSUME` of the MC
module that uses them, which TLC evaluates before the run:

| MC module | what is evaluated |
|---|---|
| `MCChatOwner` | `StoresAlike`: both stores answer every history of four calls alike and show every reader the same; `RecreateForgets`, `DedupeEnds`: where they differ; `RowsAlike`: the rows of a message |
| `MCQrRedirect` | `NormalFormIsStable`, `NormalFormKeeps`: URLs; `DigitsRead`, `TokensCollide`: tokens; `UserIsNamed`: authentication; `CountsAgree`, `PicturesAreThere`: lists, analytics and images; `CleanupIsWhole`, `CleanupLosesScans`: the cleanup, alone and beside a PATCH |
| `MCQuakeAlert` | `IndexesAgree`, `LocationsAgree`: the back ends; `RingsReach`: the cells of a radius; `NewestIsNamed`: the version cache; `HubDelivers`: pages that come and go; `JobsOnce`: queue and stream; `CleanupReopens`, `ConfigIsOwn`: outbox and configurations |
| `MCPriceHistory` | `TablesAgree`, `TablesDiffer`, `ZoneShifts`: the price tables, on a host in UTC and elsewhere; `BackfillIsAppends`, `PagesAreComplete`: what is written and read in one go; `CleanupSpares`: the cleanup |
| `MCCrawlSchedule` | `MoneyIsRead`, `ThousandsAreMisread`: amounts in English and European style; `PagesAreRead`: what three hundred pages come to; `RateIsKept`, `ReportsAreLimited`: the token bucket and the report limit; `ProfilesTakeTurns`, `NoStatusIsRead`, `MockIsPinned`: the fetchers |

**How state and steps correspond to the code.** An action is what a handler, task or thread
does from one await (or call, where it runs in a thread) to the next; a crash may come
between two.

* *ChatOwner.* A request is one `publish` frame in the hands of a node, `req[r].at` the
  await at which its handler is suspended: `load` and `lock` before the lock, `append` while
  the store is called, `appended`/`duplicate`/`conflict`/`store_error` when the answer is
  there, `verify` while etcd is asked; `orphan` is a write whose process died. A `ChatSeq`
  is an object with an identity, so that a handler keeps the one it loaded after its node
  forgot it. A store call may also fail after its effect.
* *ShardLease.* Time is in ticks. A call is sent, takes effect, and is answered some ticks
  later; the kinds in `faulty` may fail at either point. `left` counts an etcd lease down,
  `age` the node's time since `last_ok`. `under` records the lease of the claim, for the
  property. `promptWatch` says that watch events are handled within a tick, which stands
  for a watch quicker than the 2 s grace (pubsub.py:103).
* *GatewayDelivery.* One chat, one gateway, one page per connection. `rec` is the coroutine
  that holds `_rec_lock`, `conn[c].st` the one of each connection. With one topic the answer
  to subscribe is used at once; the code may have awaited the repairs of other topics of the
  same request in between (gateway.py:187), which the state `answered` with
  `prompt = FALSE` stands for. An append is called, commits and is answered in three
  steps. `appends` are the calls under way, and they outlive the `ChatSeq`, the ownership and
  the process that made them: where `faulty` has `late`, the next owner may serve, and read the
  head, before such a call commits.
* *NodeLink.* One gateway, one node, one topic, connections one after the other. A frame
  from the node waits in its `QueuePeer`, then on the way (`down`), then is handled. The
  node handles the frames of a connection in any order, or never.
* *Membership.* One chat; `request[u]` is what the user's gateway has sent and may send
  again, `calls` the handlers of the owner with the writes they still have to make, `news`
  the notifications on their way. History variables say when two handlers were at one user
  (`crossed`, also where a write failed, before its effect or after it), two additions at
  once (`raced`), or a fault kept a user from being told
  (`disturbed`).
* *QrRedirect.* Each call of the table or the cache is an action. `late` and `excused` are
  history: the row changed between a request's read and its fill; an entry was written by
  such a request or could not be removed. Of time only one instant counts, at which links
  with `exp` expire.
* *QuakeAlert.* One process: the event loop keeps running code between awaits, and those
  are the enqueue and the dequeue. `due` of a broadcast is history: the devices that were
  settled in the area and wanted the alert all the time. `lost` are jobs that died with a
  process or an enqueue.
* *PriceNotify.* One product; a row's seq is its place in the table. `published`, `dropped`
  and `lost` are history: events in the stream, prices that a backfill jumped, what a
  crash or a failed enqueue took.
* *StreamTail.* The records of one product in a chain of shards; `iters` and `checkpoint`
  are the tailer's memory and its table. A minute that passes is the poll of the listing.
* *PriceHistory.* An aggregation reads in one transaction and merges in another; a bucket
  keeps `upto`, the newest row its reader saw, for the properties.
* *CrawlSchedule.* Ages and marks count in units of a tick. A try of a fetch comes to the
  status of one of some three hundred pages, or raises. `unmarked` (a product whose mark
  went before its job did), `fresh` and `stuck` (a report that a price of zero left) are
  history.

## Runs

| run | states | shows |
|---|---|---|
| `chat_owner` | 39 k | ids are exactly 1..n, no client_msg_id twice, the path refines `ChatLog`, each `ChatSeq` fans out in ascending order and every publish ends, with handlers on old and new `ChatSeq`, crashes and failures after the effect |
| `shard_lease` | 228 k | self-fencing under failures of any kind; after a crash or a shutdown the shard is served again; refinement of `ShardOwnership` |
| `gateway` | 296 k | across moves, crashes, broken links, failed fetches and clients that come and go nothing is missing at rest or in the end, no subscription is lost silently, and the page keeps no message back behind a hole even where messages are lost |
| `node_link` | 317 k | no request waits on a lost connection, a connection carries events without a hole, every call returns by its deadline |
| `membership` | 2.1 M | both tables and the owner agree, the limit holds unless additions raced, connected users are told, with failing rows, repeated calls, crashes and moves |
| `qr_redirect` | 277 k | a stale cache entry has exactly the excuses of the model, expiry holds on hits, tokens are not taken over, the TTL repairs what is stale |
| `quake` | 443 k | a device at rest is in its cell; with two versions, overlapping broadcasts, reports, polls, failing enqueues and crashes no version comes twice or after a newer one, nobody is forgotten, rows settle |
| `price_notify` | 1.2 M | the checkpoint skips nothing, events are taken in order, a notified price is the subscription's own, everything drains |
| `stream_tail` | 758 k | nothing is passed over, events are in order, every record is published unless its shard was closed when it had no iterator, over shards that close, expired iterators and restarts |
| `price_history` | 111 k | buckets are what their prices were, a chart covers its period, aggregations catch up |
| `crawl` | 146 k | one job per product, a waiting report keeps its flag, every report is resolved |
| `price_rearm` | | counterexample: the finding below |

**Situations.** `ShardLease`, `GatewayDelivery` and `NodeLink` have a variable `situation`
that is chosen at the start and never changes: which faults are possible, how often, how
many clients connect. A run covers all situations of its MC module, so that each fault has
room without all of them at once. `MCShardLease`: `Failing` (one node, any fault once),
`FailingTwice` (keepalives lost twice, or a crash in between), `Competing` (two nodes, one
of them goes). `MCGatewayDelivery`: `Moving` (the shard moves, a node crashes, a link
breaks or a fetch fails), `Coming` and `Returning` (clients connect and catch up with a
limit of 1), `Anything` (two servers, late answers, failing appends and repairs),
`Late` and `Dying` (the shard moves, or its node dies with one message under way, and what it
has called may commit when the next one serves).
`MCNodeLink`: `Retrying`, `Following`, `Together`. The proofs are about every situation.

**Conditions.** Some properties hold only in part, and say so in their text: `SelfFencing`
if two calls fit into the margin, `ServedAgain` if only processes fail and the watch is
prompt, the delivery properties if the situation is `Lossless`: the clients stay and a page of
the store holds what they miss, and no append of a former owner is under way when the next one
starts to serve, or only they come and go; `NothingHeldBack` also without that, if
fetches are answered on the connection they were made on (`FetchesAnswered`); `PublishedInOrder` if
one call reads a shard to its end; `RowsSettle`, `Drains`, `AllPublished`, `CaughtUp` and
`ReportsResolve` except what the named history variable holds. Each condition stands for
something the code really loses; the next section lists it.

**Bounds.** In `chat_owner` one node meets its own earlier `ChatSeq`, which is to the store
what another node is (both write under a head that the other moved); the proofs are about
any number of nodes. Two requests with two client_msg_ids cover two messages and the retry
of one; `DedupeLRU = 1` makes eviction happen, `Attempts = 2` is the code's. For leases the
TTL, margin, periods and grace keep their order; one node suffices for fencing, which
relates a node to etcd. In `gateway` the catch-up limit of 1 makes every second message go
through the page's fetch. `membership` has three users of whom two fit, so that two
additions compete for the last place. QR requests touch one token only; two users and two
URLs tell whose and which. `quake` has two versions of which the second
is weaker, two devices and two cells of which one is in the area, so that reports move
devices in and out while broadcasts run; outside events (triggers, polls, reports,
connections, crashes, faults) number at most three. `price_notify` has
three prices, two of which differ by less than the least change, and a table of three rows
read in pages of two. `stream_tail` has a chain of three shards, so that a middle one may
close unseen. `price_history` has days, weeks of two days and a month that begins within a
week. `crawl` has two products in batches of two; a mark lasts one tick, so that it runs
out under a job; two outside events. Where deadlock is not checked, the bounds or requests
that run once really end the behaviour. `price_notify` has the streams in
Redis and the seq of a row in the order of the commits, as SQLite has it. Symmetry is used in `membership` only, which has
safety properties only.

**Fairness.** Liveness assumes what event loops, threads and clients justify: a handler
whose answer is there is resumed, a call of the store (an append too) or of etcd ends by its timeout, sleeps end, links reconnect,
the watch delivers, outages end, a cache entry does not outlive its TTL, the tailers and
workers loop. Strong fairness is given where a task competes for something that is handed
over in order: `asyncio.Lock` (`Acquire`, and `LoadChat` behind it), and the event loop in
`QuakeAlert`, whose queue of ready callbacks is first in, first out. In `NodeLink` nothing
makes the node answer; timers, the loss of a link and the end of a peer are enough for every
call to return. No fairness is given to failures, moves, crashes, or to clients and
requests. Properties of the form `[]<>` say that the system settles again; as the bounds
end what happens outside, it settles for good.

## What the code does not keep

`price_rearm` is a counterexample to a statement of the repository: a subscription whose
threshold the price has risen above is to be notified of the next price below it
(worker_notify.py:11). The sender writes `last_notified_price` after the delivery; if the
worker handled the rise in between, the late write sets the cooldown again and the next drop
is skipped. A rise that is smaller than `MIN_CHANGE_PCT` does the same without any race,
because the handler returns before the reset.

The models show more of this kind. To see one, check the property in the module with the
constants given (the others as in the .cfg named); TLC finds it violated. The definitions
with the statements are in the modules, and no run names them.

| scenario | module, property | constants |
|---|---|---|
| a claim is applied by etcd and its answer is lost: `owned` lacks the shard, only shards without a key are claimed, nobody serves while the node lives (pubsub.py:113) | `MCShardLease`, `ServedAgain` without its condition | `Competing` with one node, `faulty = {"claim"}` |
| keepalive answers as slow as the HTTP timeout of 5 s, margin 1 s: a node serves after its key is gone (registry.py:259) | `MCShardLease`, `SelfFencing` without its condition | `Failing` with `margin = 1` |
| a process that has just started serves all shards until its first reconciliation (pubsub.py:73) | `MCShardLease`, `OneServer` | `ShardLease.cfg` |
| in an etcd outage the owner stops serving, though DESIGN.md:214 says it goes on | `MCShardLease`, `KeepsServing` | `ShardLease.cfg` |
| a link breaks between the answer to subscribe and `sub_at` (gateway.py:189) | `MCGatewayDelivery`, `QuiescentDelivered` without its condition | `Moving`, `prompt = FALSE`, `faulty = {"link"}` |
| an append that failed but was written is acknowledged by the retry and never fanned out (pubsub.py:294) | same | `Moving`, `faulty = {"ambiguous"}`, `moves = 0` |
| a message of a zombie owner after the new owner read the head is never fanned out | same | `Moving`, `oneServer = FALSE`, `faulty = {}` |
| the shard moves, or its owner dies, while an append is in its thread (pubsub.py:282; `release_shard` waits for 2 s only): it commits after the next owner has read the head, and nobody fans it out; a retry acknowledges it | same | `Moving`, `faulty = {"late"}` |
| a repair stops at `CATCHUP_LIMIT` (gateway.py:201) | same | `Moving`, `limit = 1`, `faulty = {"link"}` |
| a repair whose read fails is not repeated (gateway.py:189) | same | `Moving`, `faulty = {"link", "repair"}`, `faults = 2` |
| a client connects while the shard has no owner: its catch-up reads the database, the subscription that succeeds later takes the owner's head without a repair | same | `Moving`, `connected = {}`, `connects = 1`, `faulty = {}` |
| after a failed fetch the page never fetches again (index.html:244) | `MCGatewayDelivery`, `NothingHeldBack` without its condition | `Anything`, `faulty = {"link", "fetch"}`, `faults = 2` |
| nor does it after a reconnect that came before the answer to a fetch: `welcome` keeps the chat with its `fetching` (index.html:193), and a message behind a later gap stays in the buffer | same | `Coming`, `connected = {client1}`, `faulty = {"ambiguous"}`, `faults = 1`, `messages = MaxMessages = 4`, one node, one client |
| two additions at once exceed `MAX_PARTICIPANTS` (pubsub.py:329, against DESIGN.md:238); so does a row that a failed call left in the table and nobody counts | `MCMembership`, `WithinLimit` | `Membership.cfg` |
| a fill that read before an update's commit writes after its invalidation (routes.py:305) | `MCQrRedirect`, `CoherentAtRest` | `QrRedirect.cfg` |
| `poll_once` overwrites the checkpoint that `advance_to` has moved, and backfilled prices notify users (cdc.py:72) | `MCPriceNotify`, `SeedsAreSilent` | `PriceNotify.cfg` |
| a shard of the stream is closed when the tailer lists the shards without an iterator for it, because it closed before it was seen or because an error or a restart ended its reading (cdc.py:156, :181): what was not read of it is lost | `MCStreamTail`, `AllPublished` without its exception | `StreamTail.cfg` |
| a call that does not read a shard to its end is followed by the child's records (cdc.py:166) | `MCStreamTail`, `PublishedInOrder` without its condition | `StreamTail.cfg` |
| prices that come between the read and the merge of an aggregation stay out of the buckets until the next price (aggregation.py:76) | `MCPriceHistory`, `EveryPriceCounted` | `PriceHistory.cfg` |
| without a fallback a product that Amazon has blocked is crawled again by the next tick (scheduler.py:37) | `MCCrawlSchedule`, `BacksOff` | `CrawlSchedule.cfg`, `FALLBACK = FALSE` |

Also seen while modelling, without a property of their own: a handover and a catch-up push
what came live meanwhile a second time (gateway.py:341); a chat created again loses
`last_read` in DynamoDB only, and its deduplication ends with a TTL; a second price of a
product within a millisecond replaces the first in DynamoDB and is never announced; a price
of zero leaves the reports of its product pending; the times of the DynamoDB table come from
`timestamp()` of a UTC time without a zone, and are read back shifted by the zone of the host
(price_store.py:122, :168; `_ms` has the zone as `Behind`, and `ZoneShifts` shows it); with
Postgres a backfill may commit a row after the checkpoint has passed its seq (routes.py:291,
cdc.py:66); without Redis a crash loses what is in the queues of the tracker; European amounts without cents are read
as decimals (parser.py:88); the address of an IPv6 host loses its brackets and is refused
when validated again; a cleanup beside a PATCH takes the scans of a link that stays; a job
that its worker acknowledged and did not handle is not handed out again; the outbox cleanup
reopens the gate against a second sending.

## Proofs

TLC checks small instances; the following hold for every value of the constants, from the
named assumption of the module (null values are none of the others, sizes and bounds are
natural numbers, relations between parameters as in the configuration) and nothing else.

| module | theorem | statement |
|---|---|---|
| `ChatOwnerProofs` | `TypeCorrect` | `Spec => []TypeOK` |
| | `NoGap`, `NoDuplicate`, `PersistBeforeAck` | `[]Contiguous`, `[]StoredOnce`, `[]AckedIsStored` |
| | `StrengthenedInvariant` | `[]Inductive` |
| | `FanoutOrder`, `Implements` | `FanoutAscends`, `ImplementsChatLog` |
| | `LinkTypeCorrect`, `LostLinkEndsCalls`, `EventsHaveNoHole` | `[]LinkTypeOK`, `[]WaitsOnLiveLink`, `[]NoHole` of `NodeLink` |
| `ShardLeaseProofs` | `TypeCorrect`, `Fencing` | `[]TypeOK`, `[]SelfFencing` |
| | `ImplementsOwner` | `ImplementsOwnership` |
| `GatewayDeliveryProofs` | `TypeCorrect`, `GapsAreFilled` | `[]TypeOK`, `[]NothingHeldBack` |
| | `NothingIsLost`, `SubscriptionIsReal` | `[]QuiescentDelivered`, `[]SubscriptionHolds` |
| `MembershipProofs` | `TypeCorrect`, `AccountsAgree`, `LimitHolds`, `UsersInformed` | `[]TypeOK`, `[]AccountsMatch`, `[]LimitUnraced`, `[]Informed` |
| | `ChatRowLast` | `CommitLast` |
| `QrRedirectProofs` | `TypeCorrect`, `StaleNeedsExcuse`, `TokensAreOwn`, `ExpiryHolds` | `[]TypeOK`, `[]StaleOnlyByOverlap`, `[]TokenIsOwn`, `[]NoScanAfterExpiry` |
| `QuakeAlertProofs` | `TypeCorrect`, `IndexCovers`, `OncePerVersion` | `[]TypeOK`, `[]IndexCoversLocation`, `[]AtMostOnce` |
| | `NewestDelivered`, `NobodyForgotten` | `NewestOnly`, `TargetsCovered` |
| `PriceNotifyProofs` | `TypeCorrect`, `NoneSkipped`, `OwnNotified` | `[]TypeOK`, `[]NothingSkipped`, `[]NotifiedIsOwn` |
| | `TakenInOrder` | `InOrder` |
| `CrawlScheduleProofs` | `TypeCorrect`, `OneJobAtATime`, `WaitingFlagged` | `[]TypeOK`, `[]OneJob`, `[]WaitingIsFlagged` |
| | `CdcTypeCorrect`, `PassedOverIsPublished`, `PublishedAscending` | `[]TailTypeOK`, `[]NothingPassedOver`, `[]PublishedInOrder` of `StreamTail` |
| | `HistoryTypeCorrect`, `BucketsSay`, `ChartIsComplete` | `[]HistoryTypeOK`, `[]BucketsAreSnapshots`, `[]ChartCoversPeriod` of `PriceHistory` |

None of the properties is inductive as it stands. Each module defines `IInv`
(`LinkInv`, `CdcInv`, `HistoryInv`, `GatewayInv`), proves that the
start satisfies it and that every step keeps it, one lemma per action (`...Kept`), over
lemmas on what a step leaves alone (`...Stand`), and draws the theorems from it. Why it
needs what it says:

* **ChatOwner.** `Contiguous` needs that a write under way aims at most at the next free id
  (`WritesNext`), which needs that no `ChatSeq` is ahead of the store (`HeadBehind`) and that
  a handler's id is still its `ChatSeq`'s head plus one (`HeadFrozen`), which needs that it
  is alone in the lock (`OneInLock`). `AckedIsStored` needs that what a handler found and
  what a dedupe table remembers is in the store (`FoundIsStored`, `DedupeIsStored`).
  Ownership is unconstrained, so the results do not rest on the lease protocol: the
  condition on the id in the store is what keeps two owners apart. For `Implements`, an
  insert into the store is `Append1`, a reply is `Ack`, all other steps stutter.
* **ShardLease.** Etcd's clock and the node's are tied together by `ClocksFit`: what a lease has
  left and what the node has counted since `last_ok` make up the TTL, short of two calls.
  `KeysFit` says that the key is the claimer's while the lease of its claim lives and it
  releases nothing, `LoopsFit` which lease the call of the keepalive task is about,
  `LeasesApart` that a lease belongs to one node. Fencing then compares `left` with the
  margin. For `ImplementsOwner`, steps of etcd and of
  the two tasks map to the interface's actions; the passing of time is
  `SuspensionChanges`.
* **NodeLink.** A request's id is its own (`OwnIds`), so that a frame or the end of another
  request does not take it from `pending` while it waits. For `NoHole` what a connection has
  carried is one stream over three queues (`got`, `down`, `q`); reading and writing move a
  frame from one to the next and leave the stream as it is (`FrameMoved`). A peer that is not
  subscribed has carried no event, and one that is has carried the last (`Good`): the next
  event follows it, or closes the peer.
* **GatewayDelivery.** `GatewayInv` has five parts. `EverythingFits`: one request at most is
  on its way, and `reconcile` waits for its answer; no frame, floor or page knows a message
  that is not stored; what a page keeps back stands behind a gap, and it asks from where it
  stands. `GapsFetched`, where fetches are answered: a page that keeps a message back has
  asked, or has an answer on its way that says there is more, or that reaches as far as what
  is kept back by then. `OneServer`, where a node waits for the lease and the writes of
  the one before: a chat is loaded only where it is served, every message up to the head there
  is fanned out or about to be, and an append under way (`AppendKnown`) either holds the lock of
  a chat that its node serves and is for the id after the head, or is of a forgotten `ChatSeq`
  while nobody serves. `NothingPassedBy`, for clients that stay: every message that the gateway
  has forwarded is at each client or on its way; what comes from a node has no hole behind
  what the gateway knows, or the repair that is under way fills it; and where the gateway is
  not subscribed at the owner, it has a reason to reconcile. `NothingSkipped`, where only
  clients come and go: the chat stays where it is (`Settled`), the gateway's last request
  and the owner's subscribers agree (`OneSubscription`), and each message reaches a client that
  has been served by its catch-up, by a page it still asks for (`Promised`) or by a delivery
  that is still to come (`CaughtUp`). The function by which `onMessages` goes through a page
  exists by induction on its length, stated as the least page for which it would not.
* **Membership.** `Early` says that only the creation has written before the chat is
  committed, `Alone` that a handler has its user to itself unless the user is `crossed`,
  `CallsFit` which of its writes a handler has behind it; with them the rows and the
  owner's set differ only by what such a handler still has to do. `Room` says that there is
  room for the addition under way, `Heard` that what a user was told, or is being told, is
  what the list says.
* **QrRedirect.** What a request is about to write to the cache is what the row says, unless
  it is late (`Holds`); a commit makes late whoever holds the old row and stands at
  `invalidate` itself, which is the excuse for the entry it leaves behind. `Owns` and
  `InTime` say what a request may do at its step.
* **QuakeAlert.** `ReportsFit` and `SettledFound`: a device that is settled has no report under
  way and is in the set of its cell, and the last call of a report finds it where the others
  have put it. `Known` says that a version which was begun is known, `Marked` says that what was sent has a terminal row, so
  that the gate and the worker's check stop a second one, `Owed` that a device which a
  broadcast owes a row is still in its `todo` or has one.
* **PriceNotify.** `TailFits`: the rows that a poll has left behind are in the stream or were
  dropped. `InTurn`: what is published is settled or on its way, and so is everything before
  an event that is on its way. `KeysFit`: notifications are about rows of the table.
* **CrawlSchedule.** `MarkHolds`: as long as a product's mark has not gone early it is there
  while a job is on its way, and there is one; with lemmas on the number of a product's jobs
  in the stream.
* **StreamTail.** `CdcPlace` says where `run` can be, `ShardsInOrder` that records appear in
  the order of their shards, `Covered` that what a checkpoint covers is published and that an
  iterator does not stand behind anything that is not covered; the batch in hand is what
  comes next (`BatchIsNext`). `PublishedInOrder`, where a call reads a shard to its end, needs
  that a pass leaves no shard behind unread (`PassEndsShards`) and that what is still to be
  read comes after every event (`NothingBehind`).
* **PriceHistory.** What a step changes is simple: rows are only added, so the rows a bucket
  was computed from stay what they were as long as no bucket and no aggregation counts a row
  that is not there (`ReadsExist`). The work is in the loop: `BucketizeMakes` says for every
  finite set of rows that `_bucketize` makes a bucket of each day, week or month that has a
  row, and that it says what its rows say. It is an induction on the parts of the set, with
  the statement as the set of the parts it holds for (`SubsetInduction`, from the least
  number of a set of numbers), because a theorem with an operator for a parameter cannot be
  used; `FoldExists` says that the library's folds have a value, `PaidSplits` that a sum does
  not depend on the order in which it is taken. `ChartIsComplete` needs that `bucket_start`
  keeps the order of times for days, weeks and months alike (`BucketsOrdered`).

Model-checked only: liveness (out of the prover's reach) and the statements about functions,
most of which fold over a sequence. `NodeLink`, `StreamTail` and `PriceHistory` name their
specifications `LinkSpec`, `TailSpec` and `HistorySpec`, so that `ChatOwnerProofs` and
`CrawlScheduleProofs` can extend them beside the module they are named after; nothing is said
of the modules together.

## Not modelled

HTTP and WebSocket wiring, authentication of requests, HTML selectors and browser calls, the
JWT, H3, SHA-256, PNG and HTTP libraries, infrastructure, load tests and slides. Of the
components that are modelled in part: several connections of one user and the reference
count they share (a `finally` that drops a reference too many, gateway.py:294), the buffer
of acks between two flushes, several shards and the fair share (a node may find at any time
that it holds too many), the hash of topics to shards, several gateways (they do not talk to
each other), requests of one user at the same time in `Membership`, the mock fetcher and
`FORCE_PLAYWRIGHT` in the schedule. Each model has one chat, shard, link, token, alert or
product where the code keeps several that do not touch each other; `CrawlSchedule` has two
products, which compete for the batch. Crashes come at awaits only, where a task can be
cancelled or the process found dead with the state of its last call. In `CrawlSchedule`
products of one score are taken in any order, and an update that reads, waits and writes a
count is a count that changes to any value (`Bump`).

## Plan

Done: all modules above, and a proof of every safety property that a run
checks. What is left, in this order:

1. Several connections of one user with the references of `_ref`.
2. Several shards with the fair share, over `ShardOwnership`.
3. The statements about functions that fold over a sequence, for inputs of any length, with
   the lemmas on folds that the buckets needed.
