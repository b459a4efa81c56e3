----------------------------- MODULE ProductPage -----------------------------
(***************************************************************************)
(* What the crawler makes of a page: parse_money and parse_product         *)
(* (app/crawler/parser.py), and one try of a fetch (app/crawler/fetcher.py *)
(* and crawl_one in app/worker_crawl.py).                                  *)
(***************************************************************************)
EXTENDS Integers, Sequences, FiniteSetsExt, SequencesExt

-----------------------------------------------------------------------------
(* An amount of money: digits 0 to 9, and two separators.                  *)

Comma == 10
Dot == 11

\* Where the character c stands in a text, and the text without it.
At(c, text) == {i \in DOMAIN text : text[i] = c}
Without(c, text) == SelectSeq(text, LAMBDA x : x # c)
Swapped(c, d, text) == [i \in DOMAIN text |-> IF text[i] = c THEN d ELSE text[i]]

\* One comma with two digits after it.
IsDecimalComma(num) == At(Comma, num) = {Len(num) - 2}

\* The number as Python's float reads it, with a point if it has one.
Normalised(num) ==
  IF At(Comma, num) # {} /\ At(Dot, num) # {}
  THEN IF Max(At(Comma, num)) > Max(At(Dot, num)) THEN Swapped(Comma, Dot, Without(Dot, num)) ELSE Without(Comma, num)
  ELSE IF IsDecimalComma(num) THEN Swapped(Comma, Dot, num) ELSE Without(Comma, num)

\* digits / 10 ^ places
float(text) ==
  [digits |-> FoldLeft(LAMBDA n, d : 10 * n + d, 0, Without(Dot, text)),
   places |-> IF At(Dot, text) = {} THEN 0 ELSE Len(text) - Max(At(Dot, text))]

\* A text without a digit, or with two points, has no value.
HasNumber(num) == Without(Comma, Without(Dot, num)) # <<>> /\ Len(SelectSeq(Normalised(num), LAMBDA x : x = Dot)) <= 1

parse_money(num) == float(Normalised(num))

-----------------------------------------------------------------------------
(* A product page: the containers of the main price, in the order of       *)
(* MAIN_PRICE_CONTAINERS, and what parse_money finds in their texts.       *)

Amount == {"zero", "price"}
Text == Amount \cup {"none"}

\* An element .a-price with its whole and fraction or its .a-offscreen; or the plain
\* text of the container, which counts for the legacy ones.
Node == [box : BOOLEAN, whole : Text, offscreen : Text, text : Text, legacy : BOOLEAN]
Page == [code : {200, 404, 429, 500, 503}, blocked : BOOLEAN, title : BOOLEAN,
         stock : {"in", "unavailable", "locked"}, nodes : Seq(Node)]

price_from_container(n) ==
  IF n.box THEN IF n.whole \in Amount THEN n.whole ELSE n.offscreen
  ELSE IF n.legacy THEN n.text ELSE "none"

Priced(page) == {i \in DOMAIN page.nodes : price_from_container(page.nodes[i]) \in Amount}

\* The first container with a price; none is to be trusted where the product cannot be shipped.
PriceOf(page) ==
  IF Priced(page) = {} \/ page.stock = "locked" THEN "none"
  ELSE price_from_container(page.nodes[Min(Priced(page))])

ParseError(page) == page.blocked \/ (PriceOf(page) = "none" /\ ~ page.title)

\* What a fetched page says of the product: `free` is a price of zero, and
\* `captcha` a fetch that Amazon has blocked.
StatusOf(page) ==
  IF page.code = 404 THEN "not_found"
  ELSE IF page.code \in {503, 429} \/ page.blocked THEN "captcha"
  ELSE IF page.code >= 400 THEN "http_error"
  ELSE IF ParseError(page) THEN "captcha"
  ELSE IF PriceOf(page) # "none" THEN IF PriceOf(page) = "zero" THEN "free" ELSE "ok"
  ELSE IF page.stock = "locked" THEN "region_locked"
  ELSE IF page.stock = "unavailable" THEN "unavailable" ELSE "parse_error"


-----------------------------------------------------------------------------
(* The fetchers, and how often they and the extension may call.            *)

\* The bucket holds the time of the next request.  One that comes at `now`
\* waits for it; jitter is what it leaves the next one to wait.
acquire(next, now, jitter) == [wait |-> Max({0, next - now}), next |-> Max({now, next}) + jitter]

\* A fetcher blocked under one profile goes on with the next and a new session.
IMPERSONATE_PROFILES == <<"chrome120", "safari17_0", "edge101", "safari15_5">>
profile(idx) == IMPERSONATE_PROFILES[(idx % Len(IMPERSONATE_PROFILES)) + 1]
rotate(fetcher) == [idx |-> fetcher.idx + 1, session |-> "none"]
_ensure_session(fetcher) == IF fetcher.session = "none" THEN [fetcher EXCEPT !.session = profile(fetcher.idx)] ELSE fetcher

\* A browser that gets no response reports the code 0, and goes on without the
\* selector it waited for; whatever else goes wrong is an error of the fetch.
playwright_fetch(browser) ==
  IF browser.goto = "error" THEN [raises |-> TRUE]
  ELSE [raises |-> FALSE, code |-> IF browser.goto = "no response" THEN 0 ELSE browser.code]

\* The mock's price: set by hand, or walking, never below 1.
mock_current(mock, asin, first, step) ==
  IF asin \notin DOMAIN mock.prices THEN [mock EXCEPT !.prices = (asin :> first) @@ @]
  ELSE IF asin \in mock.pinned THEN mock
  ELSE [mock EXCEPT !.prices[asin] = Max({1, @ + step})]
mock_set_price(mock, asin, price) == [prices |-> (asin :> price) @@ mock.prices, pinned |-> mock.pinned \cup {asin}]

\* The reports of one token within the last minute; one more is refused.
WINDOW == 60
_check_rate(q, now, limit) ==
  LET recent == SelectSeq(q, LAMBDA t : now - t <= WINDOW) IN
  IF Len(recent) >= limit THEN [limited |-> TRUE, q |-> recent] ELSE [limited |-> FALSE, q |-> Append(recent, now)]

=============================================================================
