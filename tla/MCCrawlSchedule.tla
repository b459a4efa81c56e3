--------------------------- MODULE MCCrawlSchedule ---------------------------
(* Small instances of CrawlSchedule for TLC.                               *)
EXTENDS CrawlSchedule

\* A container with a price that is split, hidden, or in plain text.
Split(amount) == [box |-> TRUE, whole |-> amount, offscreen |-> "none", text |-> "price", legacy |-> FALSE]
Hidden(amount) == [box |-> TRUE, whole |-> "none", offscreen |-> amount, text |-> "none", legacy |-> FALSE]
Plain(amount) == [box |-> FALSE, whole |-> "none", offscreen |-> "none", text |-> amount, legacy |-> TRUE]
TradeIn == [box |-> FALSE, whole |-> "none", offscreen |-> "none", text |-> "price", legacy |-> FALSE]

AllPages ==
  [code : {200, 404, 429, 500, 503}, blocked : BOOLEAN, title : BOOLEAN, stock : {"in", "unavailable", "locked"},
   nodes : {<<>>, <<TradeIn>>, <<Hidden("none"), Plain("price")>>, <<Split("zero"), Plain("price")>>, <<Split("price")>>}]

-----------------------------------------------------------------------------
\* Amounts in cents, as they are written in English, in Europe, and without cents.
Digit(n, k) == (n \div (10 ^ k)) % 10
Width(n) == CHOOSE k \in 1..9 : n < 10 ^ k /\ (k = 1 \/ n >= 10 ^ (k - 1))
Grouped(n, sep) ==
  FoldLeft(LAMBDA text, i : text \o (IF i % 3 = 2 /\ i # Width(n) - 1 THEN <<sep>> ELSE <<>>) \o <<Digit(n, i)>>,
           <<>>, [i \in 1..Width(n) |-> Width(n) - i])
English(cents) == Grouped(cents \div 100, Comma) \o <<Dot, Digit(cents, 1), Digit(cents, 0)>>
European(cents) == Grouped(cents \div 100, Dot) \o <<Comma, Digit(cents, 1), Digit(cents, 0)>>
Whole(units) == Grouped(units, Comma)

Reads(text, digits, places) == HasNumber(text) /\ parse_money(text) = [digits |-> digits, places |-> places]

Sample == 0..150 \cup {999, 1000, 9999, 10000, 99999, 100000, 123456, 999999, 1000000, 1234567, 99999999}

\* parse_money reads back what was written in either style.
ASSUME MoneyIsRead ==
  \A n \in Sample : Reads(English(n), n, 2) /\ Reads(European(n), n, 2) /\ Reads(Whole(n), n, 0)

\* But a European amount without cents is taken for one with decimals.
ASSUME ThousandsAreMisread == \A n \in {1000, 1234, 999999} : ~ Reads(Grouped(n, Dot), n, 0)

\* A page that is blocked, or where nothing says that there is a price, has none.
ASSUME PagesAreRead ==
  /\ \A page \in AllPages : StatusOf(page) \in {"ok", "free"} =>
       page.code = 200 /\ ~ page.blocked /\ page.stock # "locked" /\ page.nodes \notin {<<>>, <<TradeIn>>}
  /\ {StatusOf(page) : page \in AllPages} =
       {"ok", "free", "unavailable", "region_locked", "not_found", "captcha", "http_error", "parse_error"}


-----------------------------------------------------------------------------
\* Requests that come at any times and jitters start at least the shortest
\* jitter apart, and none waits longer than the others' jitters.
Arrivals == {t \in [1..4 -> 0..6] : \A i \in 1..3 : t[i] <= t[i + 1]}
Starts(t, jitter) ==
  FoldLeft(LAMBDA b, i : LET a == acquire(b.next, t[i], jitter[i]) IN
             [next |-> a.next, starts |-> Append(b.starts, t[i] + a.wait)],
           [next |-> 0, starts |-> <<>>], <<1, 2, 3, 4>>).starts
ASSUME RateIsKept ==
  \A t \in Arrivals, jitter \in [1..4 -> 2..3] :
    LET s == Starts(t, jitter) IN
    \A i \in 1..3 : s[i + 1] - s[i] >= 2 /\ s[i + 1] <= Max({t[i + 1], s[i] + 3})

\* Of the reports of one token no more than the limit pass within a minute.
Reported(t, limit) ==
  FoldLeft(LAMBDA r, i : LET c == _check_rate(r.q, t[i], limit) IN
             [q |-> c.q, passed |-> IF c.limited THEN r.passed ELSE r.passed \cup {i}],
           [q |-> <<>>, passed |-> {}], <<1, 2, 3, 4>>).passed
ASSUME ReportsAreLimited ==
  \A t \in {[i \in 1..4 |-> 20 * a[i]] : a \in Arrivals}, limit \in 1..3 :
    LET passed == Reported(t, limit) IN
    /\ \A i \in passed : Cardinality({j \in passed : j <= i /\ t[i] - t[j] <= WINDOW}) <= limit
    /\ \A i \in (1..4) \ passed : Cardinality({j \in passed : j < i /\ t[i] - t[j] <= WINDOW}) = limit

\* Whatever was blocked, four rotations later every profile had its turn, each
\* with a session of its own.
ASSUME ProfilesTakeTurns ==
  LET After(k) == FoldLeft(LAMBDA f, i : _ensure_session(rotate(f)), _ensure_session([idx |-> 0, session |-> "none"]), [i \in 1..k |-> i])
  IN  {After(k).session : k \in 0..3} = {IMPERSONATE_PROFILES[i] : i \in 1..4} /\ After(4).session = After(0).session

\* A page that answered without a status is read as any other.
ASSUME NoStatusIsRead ==
  \A b \in [goto : {"ok", "no response", "error"}, code : {200, 404, 500}] :
    LET f == playwright_fetch(b) IN
    ~ f.raises => StatusOf([code |-> f.code, blocked |-> FALSE, title |-> TRUE, stock |-> "in", nodes |-> <<Split("price")>>]) =
                  (CASE f.code \in {0, 200} -> "ok" [] f.code = 404 -> "not_found" [] f.code = 500 -> "http_error")

\* A price that was set stays; another one moves, and stays above zero.
ASSUME MockIsPinned ==
  \A set \in BOOLEAN, price \in 1..3, first \in 1..3, a, b \in -2..2 :
    LET new == [prices |-> <<>>, pinned |-> {}]
        one == mock_current(IF set THEN mock_set_price(new, "x", price) ELSE new, "x", first, a)
        two == mock_current(one, "x", first, b)
    IN  IF set THEN two.prices["x"] = price ELSE one.prices["x"] = first /\ two.prices["x"] = Max({1, first + b})

=============================================================================
