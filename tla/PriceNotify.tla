----------------------------- MODULE PriceNotify -----------------------------
(***************************************************************************)
(* From a price to its notifications, for one product: the price table,    *)
(* the tailer that turns its rows into events (app/cdc.py), the            *)
(* price-change worker and the sender (app/worker_notify.py), the streams  *)
(* between them (app/queue.py) and the requests that change subscriptions  *)
(* or backfill prices (app/routes.py).                                     *)
(*                                                                         *)
(* All of them run on one event loop: code between two awaits is one       *)
(* action.  A row's seq is its place in the table.                         *)
(***************************************************************************)
EXTENDS Integers, Sequences, FiniteSets, FiniteSetsExt

CONSTANTS
  User, Price, Threshold, None,
  MIN_CHANGE,  \* a change is small if MIN_CHANGE * |change| < price
  CDC_BATCH,
  MaxRows,     \* bound on the rows of the price table
  MaxIds,      \* bound on the subscriptions a user makes
  MaxEvents    \* bound on what comes from outside: prices, requests, faults

ASSUME PriceAssumption ==
  /\ Price \cup Threshold \subseteq Nat \ {0} /\ None \notin Nat
  /\ {MIN_CHANGE, CDC_BATCH, MaxRows, MaxIds} \subseteq Nat \ {0} /\ MaxEvents \in Nat

Seqs == 1..MaxRows
Subscription == User \X (1..MaxIds)    \* a new subscription has a new id
Key == Subscription \X Seqs            \* notification_id

VARIABLES
  prices,      \* the price table: [price, seed]
  checkpoint,  \* cdc_checkpoint
  tail,        \* the tailer: what it does, the position it read, the rows left to publish
  events,      \* the stream price_changed
  event,       \* the event the price-change worker has, or 0
  last,        \* last_event_seq of the product, 0 for none
  subs,        \* user -> its row in subscriptions, or None
  ids,         \* user -> subscriptions made
  outbox,      \* notification -> status
  jobs,        \* notifications the worker has still to enqueue
  stream,      \* the stream notify:*
  sender,      \* the sender: its job and how far it is
  seeding,     \* 0, or the position a backfill is about to advance to
  published,   \* seqs of the events the tailer enqueued (history)
  dropped,     \* events that a crash took, or a backfill jumped (history)
  lost,        \* notifications that a crash or a failed enqueue took (history)
  outside      \* what came from outside so far

vars == <<prices, checkpoint, tail, events, event, last, subs, ids, outbox, jobs, stream, sender,
          seeding, published, dropped, lost, outside>>
notifying == <<event, last, subs, ids, outbox, jobs, stream, sender, lost>>
tailing == <<checkpoint, tail, seeding, published>>

TERMINAL == {"ATTEMPTED", "VENDOR_ACCEPTED", "FAILED"}
Status == TERMINAL \cup {"none", "ENQUEUED", "SKIPPED_COOLDOWN"}
Row == [id : 1..MaxIds, threshold : Threshold, notified : Price \cup {None}]
Resting == [pc |-> "rest", from |-> 0, to |-> 0]
NoJob == [pc |-> "idle", key |-> None]

TypeOK ==
  /\ prices \in Seq([price : Price, seed : BOOLEAN]) /\ Len(prices) <= MaxRows
  /\ checkpoint \in 0..Len(prices) /\ seeding \in 0..Len(prices)
  /\ tail \in [pc : {"rest", "read", "publish"}, from : 0..MaxRows, to : 0..MaxRows]
  /\ events \in Seq(Seqs) /\ event \in 0..Len(prices) /\ last \in 0..Len(prices)
  /\ subs \in [User -> Row \cup {None}] /\ ids \in [User -> 0..MaxIds]
  /\ \A u \in User : subs[u] # None => subs[u].id = ids[u]
  /\ outbox \in [Key -> Status] /\ jobs \subseteq Key /\ stream \in Seq(Key)
  /\ sender \in [pc : {"idle", "job", "attempted", "sent", "failed"}, key : Key \cup {None}]
  /\ sender.pc \in {"attempted", "sent", "failed"} => outbox[sender.key] = "ATTEMPTED"
  /\ published \subseteq Seqs /\ dropped \subseteq Seqs /\ lost \subseteq Key /\ outside \in 0..MaxEvents

Init ==
  /\ prices = <<>> /\ checkpoint = 0 /\ tail = Resting /\ events = <<>> /\ event = 0 /\ last = 0
  /\ subs = [u \in User |-> None] /\ ids = [u \in User |-> 0]
  /\ outbox = [k \in Key |-> "none"] /\ jobs = {} /\ stream = <<>> /\ sender = NoJob
  /\ seeding = 0 /\ published = {} /\ dropped = {} /\ lost = {} /\ outside = 0

\* A job that is read is acknowledged at once: nobody gets it again.
enqueue(q, job) == Append(q, job)
dequeue(q) == Tail(q)

\* What comes from outside: at most MaxEvents.
External == outside < MaxEvents /\ outside' = outside + 1

-----------------------------------------------------------------------------
(* What comes in: prices, backfills, subscriptions.                        *)

\* A row's seq is its place in the order of the commits. SQLite has one writer at
\* a time; a Postgres hands out seq at the INSERT, and a backfill in its thread may
\* commit after a later row.
Inserted(p, seed) == Len(prices) < MaxRows /\ prices' = Append(prices, [price |-> p, seed |-> seed])

AppendPrice(p) ==
  /\ External /\ Inserted(p, FALSE)
  /\ UNCHANGED <<checkpoint, tail, events, notifying, seeding, published, dropped>>

SeedHistory(p) ==
  /\ External /\ Inserted(p, TRUE)
  /\ seeding' = Len(prices')
  /\ UNCHANGED <<checkpoint, tail, events, notifying, published, dropped>>

\* A backfill has committed its rows in a thread, and has then read the highest
\* seq, which may be that of a later row; the rest is done on the loop.
AdvanceTo ==
  /\ seeding # 0 /\ seeding' = 0
  /\ \E seq \in seeding..Len(prices) :
       /\ checkpoint' = Max({checkpoint, seq})
       /\ dropped' = dropped \cup (checkpoint + 1..seq)
  /\ UNCHANGED <<prices, tail, events, notifying, published, outside>>

Subscribe(u, threshold) ==
  /\ External
  /\ IF subs[u] = None THEN ids[u] < MaxIds /\ ids' = [ids EXCEPT ![u] = @ + 1]
     ELSE subs[u] # [id |-> ids[u], threshold |-> threshold, notified |-> None] /\ UNCHANGED ids
  /\ subs' = [subs EXCEPT ![u] = [id |-> ids'[u], threshold |-> threshold, notified |-> None]]
  /\ UNCHANGED <<prices, tailing, events, event, last, outbox, jobs, stream, sender, dropped, lost>>

Unsubscribe(u) ==
  /\ External
  /\ subs[u] # None /\ subs' = [subs EXCEPT ![u] = None]
  /\ UNCHANGED <<prices, tailing, events, event, last, ids, outbox, jobs, stream, sender, dropped, lost>>

-----------------------------------------------------------------------------
(* SqlSeqTailer.poll_once                                                  *)

ReadCheckpoint ==
  /\ tail.pc = "rest" /\ tail' = [pc |-> "read", from |-> checkpoint, to |-> 0]
  /\ UNCHANGED <<prices, checkpoint, seeding, published, events, notifying, dropped, outside>>

\* from is the last row published, to the last one read.
ReadAfter ==
  /\ tail.pc = "read"
  /\ tail' = IF Len(prices) <= tail.from THEN Resting
             ELSE [tail EXCEPT !.pc = "publish", !.to = Min({tail.from + CDC_BATCH, Len(prices)})]
  /\ UNCHANGED <<prices, checkpoint, seeding, published, events, notifying, dropped, outside>>

PublishEvent ==
  /\ tail.pc = "publish" /\ tail.from < tail.to
  /\ events' = enqueue(events, tail.from + 1)
  /\ tail' = [tail EXCEPT !.from = @ + 1] /\ published' = published \cup {tail.from + 1}
  /\ UNCHANGED <<prices, checkpoint, seeding, notifying, dropped, outside>>

\* The poll is given up; the next one starts at the checkpoint again.
PublishFails ==
  /\ External /\ tail.pc = "publish" /\ tail.from < tail.to
  /\ tail' = Resting
  /\ UNCHANGED <<prices, checkpoint, seeding, published, events, notifying, dropped>>

\* Mutant: the checkpoint is saved before the events are out.
SaveCheckpoint_Early ==
  /\ tail.pc = "publish" /\ checkpoint # tail.to /\ checkpoint' = tail.to
  /\ UNCHANGED <<prices, tail, seeding, published, events, notifying, dropped, outside>>

\* Mutant: the position after the last row is saved.
SaveCheckpoint_Next ==
  /\ tail.pc = "publish" /\ tail.from = tail.to
  /\ checkpoint' = tail.to + 1 /\ tail' = Resting
  /\ UNCHANGED <<prices, seeding, published, events, notifying, dropped, outside>>

SaveCheckpoint ==
  /\ tail.pc = "publish" /\ tail.from = tail.to
  /\ checkpoint' = tail.to /\ tail' = Resting
  /\ UNCHANGED <<prices, seeding, published, events, notifying, dropped, outside>>

-----------------------------------------------------------------------------
(* handle_price_event                                                      *)

TakeEvent ==
  /\ event = 0 /\ jobs = {} /\ events # <<>>
  /\ event' = Head(events) /\ events' = dequeue(events)
  /\ UNCHANGED <<prices, tailing, last, subs, ids, outbox, jobs, stream, sender, dropped, lost, outside>>

PriceOf(i) == prices[i].price
Abs(n) == IF n < 0 THEN -n ELSE n

\* Mutant: an event may be handled again.
Replayed_Never(i) == FALSE
Replayed(i) == i <= last

Matching(i) == {u \in User : subs[u] # None /\ subs[u].threshold >= PriceOf(i)}
Crossing(i) == \E u \in Matching(i) : last = 0 \/ PriceOf(last) > subs[u].threshold
Filtered(i) ==
  last # 0 /\ MIN_CHANGE * Abs(PriceOf(i) - PriceOf(last)) < PriceOf(last) /\ ~ Crossing(i)

KeyOf(u, i) == <<<<u, subs[u].id>>, i>>
Cooling(u, i) == subs[u].notified # None /\ PriceOf(i) >= subs[u].notified
Keys(i, cooling) == {KeyOf(u, i) : u \in {u \in Matching(i) : Cooling(u, i) = cooling}}

\* One transaction: the rows of the outbox, the subscriptions the price has
\* left behind, the product.
HandleEvent ==
  /\ event # 0 /\ event' = 0
  /\ IF Replayed(event) THEN UNCHANGED <<last, subs, outbox, jobs>>
     ELSE IF Filtered(event) THEN last' = event /\ UNCHANGED <<subs, outbox, jobs>>
     ELSE LET told == {k \in Keys(event, FALSE) : outbox[k] \in {"none", "FAILED"}} IN
          /\ outbox' = [k \in Key |-> IF k \in told THEN "ENQUEUED"
                                      ELSE IF k \in Keys(event, TRUE) /\ outbox[k] = "none" THEN "SKIPPED_COOLDOWN"
                                      ELSE outbox[k]]
          /\ jobs' = told
          /\ subs' = [u \in User |-> IF subs[u] # None /\ subs[u].threshold < PriceOf(event)
                                     THEN [subs[u] EXCEPT !.notified = None] ELSE subs[u]]
          /\ last' = event
  /\ UNCHANGED <<prices, tailing, events, ids, stream, sender, dropped, lost, outside>>

EnqueueJob(k) ==
  /\ k \in jobs /\ jobs' = jobs \ {k} /\ stream' = enqueue(stream, k)
  /\ UNCHANGED <<prices, tailing, events, event, last, subs, ids, outbox, sender, dropped, lost, outside>>

\* The exception leaves the rest of the jobs behind.
EnqueueJobFails ==
  /\ External /\ jobs # {} /\ jobs' = {} /\ lost' = lost \cup jobs
  /\ UNCHANGED <<prices, tailing, events, event, last, subs, ids, outbox, stream, sender, dropped>>

-----------------------------------------------------------------------------
(* run_sender and _deliver                                                 *)

TakeJob ==
  /\ sender.pc = "idle" /\ stream # <<>>
  /\ sender' = [pc |-> "job", key |-> Head(stream)] /\ stream' = dequeue(stream)
  /\ UNCHANGED <<prices, tailing, events, event, last, subs, ids, outbox, jobs, dropped, lost, outside>>

Attempt ==
  /\ sender.pc = "job"
  /\ IF outbox[sender.key] \in TERMINAL THEN sender' = NoJob /\ UNCHANGED outbox
     ELSE /\ outbox' = [outbox EXCEPT ![sender.key] = "ATTEMPTED"]
          /\ sender' = [sender EXCEPT !.pc = "attempted"]
  /\ UNCHANGED <<prices, tailing, events, event, last, subs, ids, jobs, stream, dropped, lost, outside>>

Sends(outcome) ==
  /\ sender.pc = "attempted" /\ sender' = [sender EXCEPT !.pc = outcome]
  /\ UNCHANGED <<prices, tailing, events, event, last, subs, ids, outbox, jobs, stream, dropped, lost>>
Send == Sends("sent") /\ UNCHANGED outside

\* No page is open, there is no address, or SES refuses.
SendFails == External /\ Sends("failed")

\* Mutant: the price is recorded of whatever subscription the user has now.
Notified_AnyId(u, id) == subs[u] # None
\* The subscription the job is for, if it is still there.
Notified(u, id) == subs[u] # None /\ subs[u].id = id

RecordDelivery ==
  /\ sender.pc \in {"sent", "failed"} /\ sender' = NoJob
  /\ outbox' = [outbox EXCEPT ![sender.key] = IF sender.pc = "sent" THEN "VENDOR_ACCEPTED" ELSE "FAILED"]
  /\ LET u == sender.key[1][1] IN
       subs' = IF sender.pc = "sent" /\ Notified(u, sender.key[1][2])
               THEN [subs EXCEPT ![u].notified = PriceOf(sender.key[2])] ELSE subs
  /\ UNCHANGED <<prices, tailing, events, event, last, ids, jobs, stream, dropped, lost, outside>>

-----------------------------------------------------------------------------
\* The process dies; the database and the streams stay, which are in Redis. The
\* queues in memory, which serve where there is no Redis, are lost with the process.
Crash ==
  /\ External
  /\ tail' = Resting /\ event' = 0 /\ jobs' = {} /\ sender' = NoJob /\ seeding' = 0
  /\ dropped' = dropped \cup ({event} \ {0})
  /\ lost' = lost \cup jobs \cup ({sender.key} \ {None})
  /\ UNCHANGED <<prices, checkpoint, events, last, subs, ids, outbox, stream, published>>

Tailer == ReadCheckpoint \/ ReadAfter \/ PublishEvent \/ SaveCheckpoint
Worker == TakeEvent \/ HandleEvent \/ \E k \in Key : EnqueueJob(k)
Sender == TakeJob \/ Attempt \/ Send \/ SendFails \/ RecordDelivery

Next ==
  \/ Tailer \/ PublishFails \/ Worker \/ EnqueueJobFails \/ Sender \/ AdvanceTo \/ Crash
  \/ \E p \in Price : AppendPrice(p) \/ SeedHistory(p)
  \/ \E u \in User : Unsubscribe(u) \/ \E t \in Threshold : Subscribe(u, t)

Spec == Init /\ [][Next]_vars /\ WF_vars(Tailer) /\ WF_vars(Worker) /\ WF_vars(Sender)

-----------------------------------------------------------------------------
\* The checkpoint never passes a price whose event is not in the stream,
\* wherever a poll is cut short, except for what a backfill jumped.
NothingSkipped == 1..checkpoint \subseteq published \cup dropped

\* The worker takes the prices one after another, never an earlier one and
\* never past one that was not dropped: prev is the price before.
InOrder ==
  [][last' # last => last' > last /\ last + 1..last' - 1 \subseteq dropped]_vars

\* What a subscription was last notified of is a price a notification of its
\* own told, not one of a subscription that was deleted.
NotifiedIsOwn ==
  \A u \in User : subs[u] # None /\ subs[u].notified # None =>
    \E i \in 1..Len(prices) : PriceOf(i) = subs[u].notified /\ outbox[KeyOf(u, i)] = "VENDOR_ACCEPTED"

\* Again and again the worker is level with the table and no notification
\* waits, but for what a crash, a failed enqueue or a backfill took.
Drains ==
  []<>(/\ \A i \in 1..Len(prices) : i <= last \/ i \in dropped
       /\ \A k \in Key : outbox[k] = "ENQUEUED" => k \in lost)

\* worker_notify.py: a subscription whose threshold the price has risen above
\* is notified of the next price below it.
Rearmed ==
  [][\A u \in User, i \in Seqs :
       last' = i /\ last' # last /\ subs[u] # None /\ PriceOf(i) <= subs[u].threshold
       /\ last # 0 /\ PriceOf(last) > subs[u].threshold
         => outbox'[KeyOf(u, i)] # "SKIPPED_COOLDOWN"]_vars

\* cdc.py: a backfilled price notifies nobody.
SeedsAreSilent == \A k \in Key : outbox[k] # "none" => ~ prices[k[2]].seed

=============================================================================
