------------------------------ MODULE StreamTail ------------------------------
(***************************************************************************)
(* DynamoStreamTailer (app/cdc.py): the prices of one product become       *)
(* events by way of DynamoDB Streams.                                      *)
(*                                                                         *)
(* DynamoPriceStore (app/price_store.py) writes items, and each write is a *)
(* record of the shard that is open at the time.  A shard closes and a     *)
(* child opens; all records of the product are in this chain of shards.    *)
(* The tailer keeps one iterator per shard in memory, one checkpoint per   *)
(* shard in the database, and may fail at any await.  Records are numbered *)
(* in the order of their sequence numbers.                                 *)
(***************************************************************************)
EXTENDS Integers, Sequences, FiniteSets, FiniteSetsExt, SequencesExt

CONSTANTS
  Limits,      \* what CDC_BATCH may be
  MaxRecords,  \* bound on the records
  MaxShards,   \* bound on the shards
  MaxFaults    \* bound on the errors and restarts of the tailer

ASSUME StreamAssumption ==
  /\ Limits \subseteq Nat \ {0}
  /\ MaxRecords \in Nat /\ MaxShards \in Nat \ {0} /\ MaxFaults \in Nat

VARIABLES
  records,    \* the stream: record -> its shard and event name
  latest,     \* is the last price of this millisecond?
  open,       \* the open shard; those before it are closed
  checkpoint, \* cdc_checkpoint: shard -> the last record done, or 0
  iters,      \* shard -> the record its iterator stands behind, or None
  listed,     \* shards that had an iterator since the last error (history)
  relist,     \* are 60s over since the shards were listed?
  tail,       \* where run() is
  events,     \* the stream price_changed: records in the order of enqueueing
  limit,      \* CDC_BATCH
  faults      \* errors and restarts so far

tailVars == <<records, latest, open, checkpoint, iters, listed, relist, tail, events, limit, faults>>
streamVars == <<records, latest, open>>

Shard == 1..MaxShards
Record == 1..MaxRecords
NoIterator == -1
Position == 0..MaxRecords \cup {NoIterator}

\* What run() is about to do: list the shards, get the iterators of `todo`, read
\* the shards of `pass`; or handle the `batch` read from the shard `at`, whose
\* next iterator stands behind `next`.
Loop == [pc : {"top", "iterators", "pass", "batch", "save"}, todo : SUBSET Shard, pass : SUBSET Shard,
         at : 0..MaxShards, batch : SUBSET Record, next : Position]
Top == [pc |-> "top", todo |-> {}, pass |-> {}, at |-> 0, batch |-> {}, next |-> NoIterator]

TailTypeOK ==
  /\ records \in Seq([shard : Shard, name : {"INSERT", "MODIFY"}]) /\ Len(records) <= MaxRecords
  /\ latest \in BOOLEAN /\ relist \in BOOLEAN /\ open \in Shard
  /\ checkpoint \in [Shard -> 0..MaxRecords] /\ iters \in [Shard -> Position] /\ listed \subseteq Shard
  /\ tail \in Loop /\ events \in Seq(Record) /\ limit \in Limits /\ faults \in 0..MaxFaults

TailInit ==
  /\ records = <<>> /\ latest = FALSE /\ open = 1
  /\ checkpoint = [s \in Shard |-> 0] /\ iters = [s \in Shard |-> NoIterator] /\ listed = {}
  /\ relist = TRUE /\ tail = Top /\ events = <<>> /\ limit \in Limits /\ faults = 0

-----------------------------------------------------------------------------
(* The table and its stream.                                               *)

\* The key is the millisecond: a second price in it replaces the first.
PutItem(same) ==
  /\ Len(records) < MaxRecords /\ (same => latest)
  /\ records' = Append(records, [shard |-> open, name |-> IF same THEN "MODIFY" ELSE "INSERT"])
  /\ latest' = TRUE
  /\ UNCHANGED <<open, checkpoint, iters, listed, relist, tail, events, limit, faults>>

\* batch_writer: a backfilled item has an old key, and its record comes last.
Backfill ==
  /\ Len(records) < MaxRecords
  /\ records' = Append(records, [shard |-> open, name |-> "INSERT"])
  /\ latest' = FALSE
  /\ UNCHANGED <<open, checkpoint, iters, listed, relist, tail, events, limit, faults>>

Split ==
  /\ open < MaxShards /\ open' = open + 1
  /\ UNCHANGED <<records, latest, checkpoint, iters, listed, relist, tail, events, limit, faults>>

Closed(s) == s < open
In(s) == {i \in DOMAIN records : records[i].shard = s}

-----------------------------------------------------------------------------
(* DynamoStreamTailer.run                                                  *)

Held == {s \in Shard : iters[s] # NoIterator}

\* A closed shard that has no iterator gets none any more.
ListShards ==
  /\ tail.pc = "top" /\ relist
  /\ tail' = [Top EXCEPT !.pc = "iterators", !.todo = {s \in 1..open : ~ Closed(s) /\ s \notin Held}]
  /\ UNCHANGED <<streamVars, checkpoint, iters, listed, relist, events, limit, faults>>

\* Mutant: LATEST instead of TRIM_HORIZON.
Iterator_Latest(s) == IF checkpoint[s] # 0 THEN checkpoint[s] ELSE Len(records)
\* Mutant: TRIM_HORIZON always.
Iterator_Trim(s) == 0
\* AFTER_SEQUENCE_NUMBER, or TRIM_HORIZON.
Iterator(s) == checkpoint[s]

GetIterator(s) ==
  /\ tail.pc = "iterators" /\ s \in tail.todo
  /\ iters' = [iters EXCEPT ![s] = Iterator(s)] /\ listed' = listed \cup {s}
  /\ tail' = [tail EXCEPT !.todo = @ \ {s}]
  /\ UNCHANGED <<streamVars, checkpoint, relist, events, limit, faults>>

StartPass ==
  /\ \/ tail.pc = "top" /\ ~ relist
     \/ tail.pc = "iterators" /\ tail.todo = {}
  /\ Held # {} \/ relist
  /\ tail' = [Top EXCEPT !.pc = IF Held = {} THEN "top" ELSE "pass", !.pass = Held] /\ relist' = FALSE
  /\ UNCHANGED <<streamVars, checkpoint, iters, listed, events, limit, faults>>

\* A closed shard that has been read to its end has no next iterator.
NextIterator(s, batch) ==
  IF batch = In(s) \cap {i \in Record : i > iters[s]} /\ Closed(s) THEN NoIterator
  ELSE IF batch = {} THEN iters[s] ELSE Max(batch)

\* The shards of a pass are read in the order in which they were listed.
GetRecords ==
  /\ tail.pc = "pass"
  /\ LET s == Min(tail.pass)
         ahead == {i \in In(s) : i > iters[s]}
         batch == {i \in ahead : Cardinality({j \in ahead : j <= i}) <= limit} IN
     tail' = [tail EXCEPT !.pc = "batch", !.at = s, !.pass = @ \ {s}, !.batch = batch, !.next = NextIterator(s, batch)]
  /\ UNCHANGED <<streamVars, checkpoint, iters, listed, relist, events, limit, faults>>

\* _to_event has an event for an inserted item only.
IsEvent(i) == records[i].name = "INSERT"

PublishEvent ==
  /\ tail.pc = "batch" /\ tail.batch # {}
  /\ LET i == Min(tail.batch) IN events' = IF IsEvent(i) THEN Append(events, i) ELSE events
  /\ tail' = [tail EXCEPT !.pc = "save"]
  /\ UNCHANGED <<streamVars, checkpoint, iters, listed, relist, limit, faults>>

\* Mutant: the whole batch is checkpointed after its first record.
Saved_Batch == Max(tail.batch)
Saved == Min(tail.batch)

SaveCheckpoint ==
  /\ tail.pc = "save"
  /\ checkpoint' = [checkpoint EXCEPT ![tail.at] = Saved]
  /\ tail' = [tail EXCEPT !.pc = "batch", !.batch = @ \ {Min(@)}]
  /\ UNCHANGED <<streamVars, iters, listed, relist, events, limit, faults>>

\* After the last shard of the pass, the loop starts again, perhaps after a sleep.
BatchDone ==
  /\ tail.pc = "batch" /\ tail.batch = {}
  /\ iters' = [iters EXCEPT ![tail.at] = tail.next]
  /\ tail' = IF tail.pass = {} THEN Top ELSE [Top EXCEPT !.pc = "pass", !.pass = tail.pass]
  /\ UNCHANGED <<streamVars, checkpoint, listed, relist, events, limit, faults>>

\* An exception at some await, an iterator that has expired, or a restart.
Fails ==
  /\ faults < MaxFaults /\ faults' = faults + 1
  /\ iters' = [s \in Shard |-> NoIterator] /\ listed' = {} /\ relist' = TRUE /\ tail' = Top
  /\ UNCHANGED <<streamVars, checkpoint, events, limit>>

MinutePasses ==
  /\ ~ relist /\ relist' = TRUE
  /\ UNCHANGED <<streamVars, checkpoint, iters, listed, tail, events, limit, faults>>

GetIterators == \E s \in Shard : GetIterator(s)
Run == ListShards \/ GetIterators \/ StartPass \/ GetRecords \/ PublishEvent \/ SaveCheckpoint \/ BatchDone

TailNext == Run \/ Fails \/ MinutePasses \/ Split \/ Backfill \/ \E same \in BOOLEAN : PutItem(same)

\* The tailer's calls return, and time passes.
TailSpec == TailInit /\ [][TailNext]_tailVars /\ WF_tailVars(Run) /\ WF_tailVars(MinutePasses)

-----------------------------------------------------------------------------
\* What the tailer leaves behind it, by its checkpoint or by its iterator, has
\* become an event: a restart skips nothing in a shard that it reads again.
NothingPassedOver ==
  \A i \in DOMAIN records : LET s == records[i].shard IN
    IsEvent(i) /\ (i <= checkpoint[s] \/ i <= iters[s]) => i \in Range(events)

\* The prices of a product become events in the order in which they were
\* stored, across shards, errors and restarts; what is told again is the last.
\* True as long as one call reads all that a shard has to give.
PublishedInOrder ==
  limit >= MaxRecords =>
    \A j \in 2..Len(events) : events[j - 1] <= events[j]

\* Every price becomes an event in the end, unless its shard is closed and the tailer
\* has had no iterator for it since its last error or restart: it closed before the
\* tailer listed it, or it closed before or during the error that took its iterator away
\* (cdc.py:181), read to its end or not.  The listing skips it for good (:156).
AllPublished ==
  <>[](\A i \in DOMAIN records : IsEvent(i) /\ i \notin Range(events)
         => Closed(records[i].shard) /\ records[i].shard \notin listed)

=============================================================================
