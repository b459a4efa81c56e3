---------------------------- MODULE MCPriceHistory ----------------------------
(* Small instances of PriceHistory for TLC, and the two tables that may    *)
(* stand behind it, side by side.                                          *)
EXTENDS PriceHistory, SequencesExt

HalfMs == 2
OutboxDays == 3
LogDays == 1
Utc == 0
P == INSTANCE PriceStore WITH MS <- HalfMs, Behind <- Utc, OUTBOX_RETENTION <- OutboxDays, LOG_RETENTION <- LogDays

\* Rows of two products, at times of half a millisecond.
Rows == [product : {"p", "q"}, ts : 0..5, price : {1, 2}]
Tables == UNION {[1..n -> Rows] : n \in 0..3}

Sql(rows) == FoldLeft(LAMBDA t, r : P!sql_append(t, r).table, <<>>, rows)
Dynamo(rows) == FoldLeft(LAMBDA t, r : P!dynamo_append(t, r).table, <<>>, rows)

\* No two rows of a product in one millisecond.
Apart(rows) == \A i, j \in DOMAIN rows : P!Key(rows[i]) = P!Key(rows[j]) => i = j
InMs(rows) == [i \in DOMAIN rows |-> <<HalfMs * P!_ms(rows[i][1]), rows[i][2]>>]

\* A host one millisecond west of UTC.
West == INSTANCE PriceStore WITH MS <- HalfMs, Behind <- HalfMs, OUTBOX_RETENTION <- OutboxDays, LOG_RETENTION <- LogDays

\* On a host whose time zone is UTC the tables answer alike, to the millisecond, as long
\* as no two prices of a product share one and a period begins and ends with one.
ASSUME TablesAgree ==
  \A rows \in {r \in Tables : Apart(r)} : LET sql == Sql(rows) dynamo == Dynamo(rows) IN
    /\ P!sql_count_all(sql, "p") = P!dynamo_count_all(dynamo, "p")
    /\ InMs(IF P!sql_latest(sql, "p") = <<>> THEN <<>> ELSE <<P!sql_latest(sql, "p")>>)
         = (IF P!dynamo_latest(dynamo, "p") = <<>> THEN <<>> ELSE <<P!dynamo_latest(dynamo, "p")>>)
    /\ \A since \in {0, 2, 4} : P!sql_count_range(sql, "p", since) = P!dynamo_count_range(dynamo, "p", since)
    /\ \A since, until \in {0, 2, 4} :
         InMs(P!sql_query_range(sql, "p", since, until)) = P!dynamo_query_range(dynamo, "p", since, until)

\* A price that comes in the millisecond of another replaces it in DynamoDB,
\* and a period that begins within a millisecond shows all of it there.
ASSUME TablesDiffer ==
  LET two == <<[product |-> "p", ts |-> 2, price |-> 1], [product |-> "p", ts |-> 3, price |-> 2]>> IN
  /\ P!sql_count_all(Sql(two), "p") = 2 /\ P!dynamo_count_all(Dynamo(two), "p") = 1
  /\ P!sql_query_range(Sql(<<two[1]>>), "p", 3, P!Always) = <<>>
  /\ P!dynamo_query_range(Dynamo(<<two[1]>>), "p", 3, P!Always) # <<>>

\* On another host DynamoDB has as many prices in a period, and all of them are answered
\* with a time that is off by the zone.
ASSUME ZoneShifts ==
  \A rows \in {r \in Tables : Apart(r)} :
    LET utc == Dynamo(rows) west == FoldLeft(LAMBDA t, r : West!dynamo_append(t, r).table, <<>>, rows) IN
    \A since, until \in {0, 2, 4} :
      LET right == P!dynamo_query_range(utc, "p", since, until)
          off == West!dynamo_query_range(west, "p", since, until) IN
      off = [i \in DOMAIN right |-> <<right[i][1] + HalfMs, right[i][2]>>]

\* A backfill leaves what its rows leave one by one, and names the first and
\* the last position.
ASSUME BackfillIsAppends ==
  \A rows \in {r \in Tables : Len(r) <= 1}, more \in {r \in Tables : Len(r) <= 2} :
    LET sql == P!sql_bulk_append(Sql(rows), more) dynamo == P!dynamo_bulk_append(Dynamo(rows), more) IN
    /\ sql.table = Sql(rows \o more) /\ dynamo.table = Dynamo(rows \o more)
    /\ more # <<>> => sql.position[2] = P!sql_append(Sql(rows \o Front(more)), Last(more)).position
    /\ more # <<>> => \E i \in DOMAIN more : dynamo.position[2] = P!dynamo_append(<<>>, more[i]).position

\* Who reads on from the last number it got sees every row once, in order.
Pages(table, limit) ==
  FoldLeft(LAMBDA seen, i : seen \o P!sql_read_after(table, Len(seen), limit), <<>>, [i \in 1..Len(table) |-> i])
ASSUME PagesAreComplete ==
  \A rows \in Tables, limit \in 1..2 :
    Pages(rows, limit) = [i \in DOMAIN rows |-> [seq |-> i, row |-> rows[i]]] /\ P!sql_head_seq(rows) = Len(rows)

\* The cleanup takes no report that still waits for a price, however old; a
\* notification outlives the crawl log of its price.
ASSUME CleanupSpares ==
  \A reports \in SUBSET [at : 0..2, status : {"pending_verify", "confirmed"}], t \in 2..6 :
    LET old == [outbox |-> {[at |-> a] : a \in 0..2}, log |-> {[at |-> a] : a \in 0..2}, reports |-> reports]
        new == P!run_cleanup(old, t) IN
    /\ \A r \in reports : r \in new.reports <=> r.status = "pending_verify" \/ t - r.at <= LogDays
    /\ \A r \in old.log : r \in new.log => r \in new.outbox

=============================================================================
