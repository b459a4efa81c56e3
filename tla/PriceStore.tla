----------------------------- MODULE PriceStore -----------------------------
(***************************************************************************)
(* The two price tables (app/price_store.py): SQL, whose rows have a       *)
(* sequence number, and DynamoDB, whose key is the product and the         *)
(* millisecond; and what the cleanup takes from the other tables.          *)
(* PriceNotify, StreamTail and PriceHistory say how they are used.         *)
(***************************************************************************)
EXTENDS Integers, Sequences, FiniteSetsExt, SequencesExt, Functions

CONSTANTS
  MS,              \* ticks of the clock in a millisecond
  Behind,          \* ticks by which the host's time zone is behind UTC
  OUTBOX_RETENTION, LOG_RETENTION

Row == [product : STRING, ts : Nat, price : Nat]
Always == -1       \* no `until`

\* What an append returns is a position that the tailer understands.
Returns(table, position) == [table |-> table, position |-> position]

-----------------------------------------------------------------------------
(* SqlPriceStore: the table is a sequence of rows.                         *)

sql_append(table, row) == Returns(Append(table, row), Len(table) + 1)
sql_bulk_append(table, rows) == Returns(table \o rows, <<Len(table) + 1, Len(table \o rows)>>)

Chosen(table, product, since, until) ==
  SelectSeq(table, LAMBDA r : r.product = product /\ r.ts >= since /\ (until = Always \/ r.ts < until))

sql_query_range(table, product, since, until) ==
  SortSeq([i \in DOMAIN Chosen(table, product, since, until) |->
             LET r == Chosen(table, product, since, until)[i] IN <<r.ts, r.price>>],
          LAMBDA a, b : a[1] < b[1])

sql_count_range(table, product, since) == Len(Chosen(table, product, since, Always))
sql_count_all(table, product) == sql_count_range(table, product, 0)

\* The last row by time, <<>> of none.
sql_latest(table, product) ==
  LET rows == sql_query_range(table, product, 0, Always) IN IF rows = <<>> THEN <<>> ELSE Last(rows)

sql_head_seq(table) == Len(table)

\* At most `limit` rows, each with its number.
sql_read_after(table, seq, limit) ==
  [i \in 1..Min({limit, Len(table) - seq}) |-> [seq |-> seq + i, row |-> table[seq + i]]]

-----------------------------------------------------------------------------
(* DynamoPriceStore: the table is a function of <<product, millisecond>>.  *)

\* Times are naive and UTC, but timestamp() takes them for local ones;
\* utcfromtimestamp() does not take that back.
_ms(ts) == (ts + Behind) \div MS
Key(row) == <<row.product, _ms(row.ts)>>

dynamo_append(table, row) == Returns((Key(row) :> row.price) @@ table, _ms(row.ts))

dynamo_bulk_append(table, rows) ==
  LET ms == {_ms(rows[i].ts) : i \in DOMAIN rows} IN
  Returns(FoldLeft(LAMBDA t, r : dynamo_append(t, r).table, table, rows),
          IF ms = {} THEN <<0, 0>> ELSE <<Min(ms), Max(ms)>>)

\* Whole pages, until there is no LastEvaluatedKey.
_query(table, product, since, until) ==
  {k \in DOMAIN table : k[1] = product /\ k[2] >= _ms(since) /\ (until = Always \/ k[2] <= _ms(until) - 1)}

dynamo_query_range(table, product, since, until) ==
  SetToSortSeq({<<MS * k[2], table[k]>> : k \in _query(table, product, since, until)}, LAMBDA a, b : a[1] < b[1])

dynamo_count_range(table, product, since) == Cardinality(_query(table, product, since, Always))
dynamo_count_all(table, product) == dynamo_count_range(table, product, 0)

dynamo_latest(table, product) ==
  LET keys == {k \in DOMAIN table : k[1] = product} IN
  IF keys = {} THEN <<>> ELSE LET k == CHOOSE k \in keys : \A o \in keys : o[2] <= k[2] IN <<MS * k[2], table[k]>>

-----------------------------------------------------------------------------
(* The daily cleanup.  Rows: [at] of the outbox and the crawl log, and     *)
(* [at, status] of the reports.                                            *)

REPORT_DONE == {"confirmed", "rejected", "accepted"}
run_cleanup(db, now) ==
  [outbox |-> {r \in db.outbox : r.at >= now - OUTBOX_RETENTION},
   log |-> {r \in db.log : r.at >= now - LOG_RETENTION},
   reports |-> {r \in db.reports : r.status \notin REPORT_DONE \/ r.at >= now - LOG_RETENTION}]

=============================================================================
