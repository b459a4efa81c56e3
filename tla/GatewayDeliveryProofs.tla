------------------------ MODULE GatewayDeliveryProofs ------------------------
(***************************************************************************)
(* GatewayDelivery, for any nodes, connections, situations and bound on    *)
(* the messages: its types; that no gap stays at the client without a      *)
(* fetch that fills it; that a client of the chat is served by a           *)
(* subscription that the owner holds; and that nothing is lost when all    *)
(* is quiet.                                                               *)
(***************************************************************************)
EXTENDS GatewayDelivery, WellFoundedInduction, TLAPS

-----------------------------------------------------------------------------
(* Numbers and queues                                                      *)

LEMMA Constants ==
  /\ NoNode \notin Node /\ MaxMessages \in Nat
  /\ \A s \in Situations : /\ s \in Situation /\ s.limit \in Nat /\ s.limit > 0 /\ s.messages \in Nat /\ s.messages <= MaxMessages
                           /\ s.server \in Node /\ s.connected \in SUBSET Conn /\ s.connects \in Nat /\ s.faults \in Nat /\ s.moves \in Nat
BY GatewayAssumption DEF Situation

LEMMA Extremes ==
  \A a, b \in Int : /\ AtMost(a, b) \in Int /\ AtMost(a, b) <= a /\ AtMost(a, b) <= b /\ (AtMost(a, b) = a \/ AtMost(a, b) = b)
                    /\ AtLeast(a, b) \in Int /\ AtLeast(a, b) >= a /\ AtLeast(a, b) >= b /\ (AtLeast(a, b) = a \/ AtLeast(a, b) = b)
BY DEF AtMost, AtLeast

\* A page of the store ends within what is stored, and says if there is more.
LEMMA PageOfStore ==
  ASSUME situation \in Situations, stored \in Nat, NEW a \in Int, a <= stored
  PROVE  /\ Upto(a) \in a..stored
         /\ HasMore(Upto(a)) \in BOOLEAN /\ (~ HasMore(Upto(a)) => Upto(a) = stored)
         /\ stored - a <= situation.limit => Upto(a) = stored
         /\ a < stored => Upto(a) > a
<1>1. situation.limit \in Nat /\ situation.limit > 0 BY Constants
<1>2. AtLeast(stored, a) = stored BY DEF AtLeast
<1>3. Upto(a) = IF a + situation.limit < stored THEN a + situation.limit ELSE stored BY <1>2 DEF Upto, AtMost, max_message_id
<1> QED BY <1>1, <1>3 DEF HasMore, max_message_id

LEMMA FrameAppended ==
  ASSUME NEW S, NEW s \in Seq(S), NEW x \in S
  PROVE  /\ Append(s, x) \in Seq(S) /\ Len(s) \in Nat /\ Len(Append(s, x)) = Len(s) + 1
         /\ DOMAIN s = 1..Len(s) /\ DOMAIN Append(s, x) = 1..Len(s) + 1
         /\ \A i \in 1..Len(s) : Append(s, x)[i] = s[i]
         /\ Append(s, x)[Len(s) + 1] = x
OBVIOUS

LEMMA FrameTaken ==
  ASSUME NEW S, NEW s \in Seq(S), s # <<>>
  PROVE  /\ Tail(s) \in Seq(S) /\ Len(s) \in Nat \ {0} /\ Len(Tail(s)) = Len(s) - 1
         /\ DOMAIN s = 1..Len(s) /\ DOMAIN Tail(s) = 1..Len(s) - 1
         /\ \A i \in 1..Len(s) - 1 : Tail(s)[i] = s[i + 1]
         /\ Head(s) = s[1] /\ s[1] \in S
OBVIOUS

\* A set of numbers has a least one.
LEMMA LeastNumber == ASSUME NEW T \in SUBSET Nat, T # {} PROVE \E m \in T : \A k \in T : m <= k
<1>1. IsWellFoundedOn(OpToRel(<, Nat), Nat) BY NatLessThanWellFounded
<1>2. PICK x \in T : \A y \in T : ~ (<<y, x>> \in OpToRel(<, Nat)) BY <1>1, WFMin, Zenon
<1>3. OpToRel(<, Nat) = {ss \in Nat \X Nat : ss[1] < ss[2]} BY Zenon DEF OpToRel
<1>4. \A y \in T : ~ (y < x) BY <1>2, <1>3
<1> QED BY <1>4

-----------------------------------------------------------------------------
(* The page                                                                *)

\* What the page has, shown or kept back.
Seen(p) == 1..p.lastSeen \cup p.buffer
\* What is kept back stands behind a gap, and what was asked for lies before it.
Tidy(p) == (\A b \in p.buffer : b > p.lastSeen + 1) /\ (\A a \in p.asked : a <= p.lastSeen)

\* The messages of a frame.
FrameIds(f) == IF f.type = "newMessage" THEN {f.to} ELSE IF f.type = "messages" THEN f.from + 1..f.to ELSE {}

LEMMA PageFields ==
  ASSUME NEW p \in Page
  PROVE  /\ p.lastSeen \in 0..MaxMessages /\ p.lastSeen \in Nat /\ p.buffer \subseteq Ids /\ p.fetching \in BOOLEAN
         /\ p.asked \subseteq 0..MaxMessages
BY Constants DEF Page


\* From a on, the messages of `have` end somewhere.
LEMMA ShownTo ==
  \A a \in 0..MaxMessages, have \in SUBSET Ids : \E k \in a..MaxMessages : a + 1..k \subseteq have /\ k + 1 \notin have
<1> TAKE a \in 0..MaxMessages, have \in SUBSET Ids
<1> DEFINE T == {k \in Nat : k > a /\ k \notin have}
<1>1. MaxMessages \in Nat /\ a \in Nat BY Constants
<1>2. MaxMessages + 1 \in T BY <1>1 DEF Ids
<1>3. PICK m \in T : \A k \in T : m <= k BY <1>2, LeastNumber
<1>4. m - 1 \in a..MaxMessages /\ (m - 1) + 1 \notin have BY <1>1, <1>2, <1>3
<1>5. a + 1..m - 1 \subseteq have BY <1>1, <1>3
<1> QED BY <1>4, <1>5

\* onNewMessage shows or keeps the message, and asks for what a gap lacks.
ShowsOrKeeps(p, id, q) ==
  /\ q \in Page /\ q.lastSeen >= p.lastSeen /\ q.buffer \subseteq p.buffer \cup {id}
  /\ q.asked = p.asked \/ q.asked = p.asked \cup {p.lastSeen}
  /\ id >= 1 => Seen(q) = Seen(p) \cup {id}
  /\ id <= p.lastSeen + 1 => q.lastSeen >= id /\ q.asked = p.asked /\ q.fetching = p.fetching /\ q.buffer \subseteq p.buffer
  /\ q.fetching => p.fetching \/ q.asked # {}
  /\ q.buffer # {} => p.buffer # {} \/ p.fetching \/ q.asked # {}
  /\ Tidy(p) => Tidy(q)

LEMMA NewMessageShown ==
  ASSUME NEW p \in Page, NEW id \in 0..MaxMessages
  PROVE  ShowsOrKeeps(p, id, onNewMessage(p, id))
<1> DEFINE have == p.buffer \cup {id}
           kept == [p EXCEPT !.buffer = have]
<1>1. /\ p.lastSeen \in 0..MaxMessages /\ p.lastSeen \in Nat /\ p.buffer \subseteq Ids /\ p.fetching \in BOOLEAN
      /\ p.asked \subseteq 0..MaxMessages /\ MaxMessages \in Nat /\ id \in Nat
      /\ p = [lastSeen |-> p.lastSeen, buffer |-> p.buffer, fetching |-> p.fetching, asked |-> p.asked]
  BY PageFields, Constants DEF Page
<1>2. CASE id <= p.lastSeen
  <2>1. onNewMessage(p, id) = p BY <1>2 DEF onNewMessage
  <2>2. id >= 1 => Seen(p) \cup {id} = Seen(p) BY <1>1, <1>2 DEF Seen
  <2>3. ShowsOrKeeps(p, id, p) BY <1>1, <1>2, <2>2 DEF ShowsOrKeeps
  <2> QED BY <2>1, <2>3
<1>3. CASE id = p.lastSeen + 1
  <2>2. have \in SUBSET Ids BY <1>1, <1>3 DEF Ids
  <2>3. \E k \in p.lastSeen..MaxMessages : p.lastSeen + 1..k \subseteq have /\ k + 1 \notin have
    <3>1. \A h \in SUBSET Ids : \E k \in p.lastSeen..MaxMessages : p.lastSeen + 1..k \subseteq h /\ k + 1 \notin h BY <1>1, ShownTo, Zenon
    <3> HIDE DEF have
    <3> QED BY <2>2, <3>1, Zenon
  <2>4. PICK last \in p.lastSeen..MaxMessages :
           /\ p.lastSeen + 1..last \subseteq have /\ last + 1 \notin have
           /\ onNewMessage(p, id) = [p EXCEPT !.lastSeen = last, !.buffer = have \ (id .. last)]
    <3> DEFINE F(k) == p.lastSeen + 1..k \subseteq have /\ k + 1 \notin have
    <3>1. LET last == CHOOSE k \in p.lastSeen..MaxMessages : F(k) IN last \in p.lastSeen..MaxMessages /\ F(last)
      BY <2>3
    <3>2. onNewMessage(p, id) = LET last == CHOOSE k \in p.lastSeen..MaxMessages : F(k) IN [p EXCEPT !.lastSeen = last, !.buffer = have \ (id .. last)]
      BY <1>1, <1>3 DEF onNewMessage
    <3> QED BY <3>1, <3>2
  <2> DEFINE q == [lastSeen |-> last, buffer |-> have \ (id .. last), fetching |-> p.fetching, asked |-> p.asked]
  <2>5. onNewMessage(p, id) = q BY <1>1, <2>4
  <2>6. last >= id /\ last \in Nat
    <3>1. last # p.lastSeen BY <1>3, <2>4
    <3> QED BY <1>1, <1>3, <2>4, <3>1
  <2>7. q.lastSeen = last /\ q.buffer = have \ (id .. last) /\ q.asked = p.asked /\ q.fetching = p.fetching OBVIOUS
  <2>8. q \in Page BY <1>1, <2>2, <2>4 DEF Page
  <2> HIDE DEF q
  <2>9. q.buffer \subseteq p.buffer BY <1>1, <2>6, <2>7
  <2>10. Seen(q) = Seen(p) \cup {id}
    <3>1. 1..last = 1..p.lastSeen \cup (id..last) BY <1>1, <1>3, <2>4, <2>6
    <3>2. id..last \subseteq have BY <1>3, <2>4
    <3> QED BY <2>7, <3>1, <3>2 DEF Seen
  <2>11. Tidy(p) => Tidy(q)
    <3>1. ASSUME Tidy(p), NEW b \in q.buffer PROVE b > q.lastSeen + 1
      <4>1. b \in p.buffer /\ b \notin id..last /\ b # last + 1 /\ b \in Nat
        <5>1. b \in have BY <2>7, <3>1
        <5> QED BY <1>1, <2>4, <2>7, <2>9, <3>1, <5>1 DEF Ids
      <4>2. b > id BY <1>1, <1>3, <3>1, <4>1 DEF Tidy
      <4> QED BY <1>1, <2>6, <2>7, <4>1, <4>2
    <3>2. ASSUME Tidy(p), NEW a \in q.asked PROVE a <= q.lastSeen
      <4>1. a \in p.asked /\ a \in Nat /\ a <= p.lastSeen BY <1>1, <2>7, <3>2 DEF Tidy
      <4> QED BY <1>1, <2>4, <2>7, <4>1
    <3> QED BY <3>1, <3>2 DEF Tidy
  <2>12. ShowsOrKeeps(p, id, q) BY <1>1, <1>3, <2>6, <2>7, <2>8, <2>9, <2>10, <2>11 DEF ShowsOrKeeps
  <2> QED BY <2>5, <2>12
<1>4. CASE id > p.lastSeen + 1
  <2>2. have \in SUBSET Ids BY <1>1, <1>4 DEF Ids
  <2> DEFINE q == [lastSeen |-> p.lastSeen, buffer |-> have, fetching |-> TRUE, asked |-> IF p.fetching THEN p.asked ELSE p.asked \cup {p.lastSeen}]
  <2>3. kept = [lastSeen |-> p.lastSeen, buffer |-> have, fetching |-> p.fetching, asked |-> p.asked] BY <1>1
  <2>4. onNewMessage(p, id) = IF p.fetching THEN kept ELSE fetchAfter(kept) BY <1>1, <1>4 DEF onNewMessage
  <2>5. fetchAfter(kept) = [lastSeen |-> p.lastSeen, buffer |-> have, fetching |-> TRUE, asked |-> p.asked \cup {p.lastSeen}]
    <3> HIDE DEF kept
    <3>1. fetchAfter(kept) = [kept EXCEPT !.fetching = TRUE, !.asked = kept.asked \cup {kept.lastSeen}] BY DEF fetchAfter
    <3>2. kept.asked = p.asked /\ kept.lastSeen = p.lastSeen BY <2>3
    <3> QED BY <2>3, <3>1, <3>2
  <2>6. onNewMessage(p, id) = q BY <1>1, <2>3, <2>4, <2>5
  <2>7. /\ q.lastSeen = p.lastSeen /\ q.buffer = have /\ q.fetching = TRUE
        /\ q.asked = IF p.fetching THEN p.asked ELSE p.asked \cup {p.lastSeen}
    OBVIOUS
  <2>8. q \in Page
    <3>1. q.asked \subseteq 0..MaxMessages BY <1>1, <2>7
    <3> QED BY <1>1, <2>2, <3>1 DEF Page
  <2> HIDE DEF q
  <2>9. Seen(q) = Seen(p) \cup {id} BY <2>7 DEF Seen
  <2>10. Tidy(p) => Tidy(q)
    <3>1. Tidy(p) => \A b \in q.buffer : b > q.lastSeen + 1 BY <1>4, <2>7 DEF Tidy
    <3>2. Tidy(p) => \A a \in q.asked : a <= q.lastSeen BY <1>1, <2>7 DEF Tidy
    <3> QED BY <3>1, <3>2 DEF Tidy
  <2>11. p.fetching \/ q.asked # {} BY <2>7
  <2>12. q.asked = p.asked \/ q.asked = p.asked \cup {p.lastSeen} BY <2>7
  <2>13. ShowsOrKeeps(p, id, q) BY <1>1, <1>4, <2>7, <2>8, <2>9, <2>10, <2>11, <2>12 DEF ShowsOrKeeps
  <2> QED BY <2>6, <2>13
<1> QED BY <1>1, <1>2, <1>3, <1>4

\* onMessages shows the messages of a page one after the other: the function
\* that it defines by recursion exists.
Shows(p, from, to, f) ==
  f = [k \in from..to |-> IF k = from THEN [p EXCEPT !.fetching = FALSE] ELSE onNewMessage(f[k - 1], k)]

LEMMA ShownExists ==
  ASSUME NEW p, NEW from \in Nat, NEW to \in Nat, from <= to
  PROVE  \E f : Shows(p, from, to, f)
<1> DEFINE Bad == {m \in Nat : m >= from /\ ~ \E f : Shows(p, from, m, f)}
<1>1. SUFFICES ASSUME Bad # {} PROVE FALSE BY <1>1
<1>2. PICK m \in Bad : \A k \in Bad : m <= k BY <1>1, LeastNumber
<1>3. CASE m = from
  <2> DEFINE g == [k \in from..from |-> [p EXCEPT !.fetching = FALSE]]
  <2>1. g = [k \in from..from |-> IF k = from THEN [p EXCEPT !.fetching = FALSE] ELSE onNewMessage(g[k - 1], k)] OBVIOUS
  <2>2. Shows(p, from, from, g) BY <2>1, Zenon DEF Shows
  <2> QED BY <1>2, <1>3, <2>2
<1>4. CASE m # from
  <2>1. m - 1 \in Nat /\ m - 1 >= from /\ m - 1 \notin Bad BY <1>2, <1>4
  <2>2. PICK g : Shows(p, from, m - 1, g) BY <2>1
  <2> DEFINE h == [k \in from..m |-> IF k = m THEN onNewMessage(g[m - 1], m) ELSE g[k]]
  <2>3. \A k \in from..m - 1 : g[k] = IF k = from THEN [p EXCEPT !.fetching = FALSE] ELSE onNewMessage(g[k - 1], k)
    BY <2>2, Zenon DEF Shows
  <2>4. \A k \in from..m : k # m => k \in from..m - 1 /\ h[k] = g[k] BY <1>2, <2>1
  <2>5. \A k \in from..m : k # from => h[k - 1] = g[k - 1] BY <1>2, <2>1
  <2>6. \A k \in from..m : h[k] = IF k = from THEN [p EXCEPT !.fetching = FALSE] ELSE onNewMessage(h[k - 1], k)
    <3> TAKE k \in from..m
    <3>1. CASE k = m
      <4>1. h[k] = onNewMessage(g[k - 1], k) BY <3>1
      <4> QED BY <1>4, <2>5, <3>1, <4>1, Zenon
    <3>2. CASE k # m BY <2>3, <2>4, <2>5, <3>2, Zenon
    <3> QED BY <3>1, <3>2
  <2> HIDE DEF h
  <2>7. h = [k \in from..m |-> h[k]] BY Zenon DEF h
  <2>8. Shows(p, from, m, h) BY <2>6, <2>7, Zenon DEF Shows
  <2> QED BY <1>2, <2>8
<1> QED BY <1>3, <1>4

LEMMA MessagesShown ==
  ASSUME NEW p, NEW from \in Nat, NEW to \in Nat, from <= to, NEW more \in BOOLEAN
  PROVE  \E f : /\ f[from] = [p EXCEPT !.fetching = FALSE]
                /\ \A k \in from + 1..to : f[k] = onNewMessage(f[k - 1], k)
                /\ onMessages(p, from, to, more) = IF more THEN fetchAfter(f[to]) ELSE f[to]
<1> DEFINE f == CHOOSE f : Shows(p, from, to, f)
<1>1. Shows(p, from, to, f) BY ShownExists
<1>2. onMessages(p, from, to, more) = IF more THEN fetchAfter(f[to]) ELSE f[to] BY Zenon DEF onMessages, Shows
<1> HIDE DEF f
<1>3. \A k \in from..to : f[k] = IF k = from THEN [p EXCEPT !.fetching = FALSE] ELSE onNewMessage(f[k - 1], k)
  BY <1>1, Zenon DEF Shows
<1>4. from \in from..to /\ \A k \in from + 1..to : k \in from..to /\ k # from OBVIOUS
<1>5. f[from] = [p EXCEPT !.fetching = FALSE] BY <1>3, <1>4
<1>6. \A k \in from + 1..to : f[k] = onNewMessage(f[k - 1], k) BY <1>3, <1>4, Zenon
<1> QED BY <1>2, <1>5, <1>6

\* onFrame: what the page q has after a frame f, if it had p.
Follows(p, f, q) ==
  /\ q \in Page /\ q.lastSeen >= p.lastSeen /\ p.asked \subseteq q.asked
  /\ Seen(q) = Seen(p) \cup FrameIds(f)
  /\ q.buffer \subseteq p.buffer \cup FrameIds(f)
  /\ Tidy(p) => Tidy(q)
  /\ f.more => q.asked # {}
  /\ f.type # "messages" => /\ q.fetching => p.fetching \/ q.asked # {}
                            /\ q.buffer # {} => p.buffer # {} \/ p.fetching \/ q.asked # {}
  /\ f.type = "messages" => /\ q.fetching => q.asked # {}
                            /\ q.lastSeen >= f.to /\ q.buffer \subseteq p.buffer
  /\ \A a \in q.asked : a \in p.asked \/ a <= q.lastSeen

\* A frame that can be on its way to the page p.
FrameFits(p, f) ==
  /\ f.from <= f.to
  /\ f.type = "newMessage" => f.to >= 1 /\ ~ f.more
  /\ f.type = "messages" => f.from <= p.lastSeen

LEMMA FetchAfterPage ==
  ASSUME NEW p \in Page
  PROVE  /\ fetchAfter(p) \in Page /\ fetchAfter(p).lastSeen = p.lastSeen /\ fetchAfter(p).buffer = p.buffer
         /\ fetchAfter(p).fetching = TRUE /\ fetchAfter(p).asked = p.asked \cup {p.lastSeen}
<1>1. fetchAfter(p) = [p EXCEPT !.fetching = TRUE, !.asked = p.asked \cup {p.lastSeen}] BY DEF fetchAfter
<1> QED BY <1>1, PageFields DEF Page

LEMMA MessagesFollow ==
  ASSUME NEW p \in Page, NEW f \in ClientFrame, FrameFits(p, f), f.type = "messages"
  PROVE  Follows(p, f, onMessages(p, f.from, f.to, f.more))
<1>1. f.from \in 0..MaxMessages /\ f.to \in 0..MaxMessages /\ f.more \in BOOLEAN /\ f.from <= f.to /\ f.from <= p.lastSeen /\ MaxMessages \in Nat
  BY Constants DEF ClientFrame, FrameFits
<1>2. PICK g : /\ g[f.from] = [p EXCEPT !.fetching = FALSE]
               /\ \A k \in f.from + 1..f.to : g[k] = onNewMessage(g[k - 1], k)
               /\ onMessages(p, f.from, f.to, f.more) = IF f.more THEN fetchAfter(g[f.to]) ELSE g[f.to]
  BY <1>1, MessagesShown
<1> DEFINE Ok(k, q) == /\ q \in Page /\ q.lastSeen >= p.lastSeen /\ q.lastSeen >= k /\ q.asked = p.asked /\ q.fetching = FALSE
                       /\ q.buffer \subseteq p.buffer /\ Seen(q) = Seen(p) \cup (f.from + 1..k) /\ (Tidy(p) => Tidy(q))
           Bad == {k \in Nat : k >= f.from /\ k <= f.to /\ ~ Ok(k, g[k])}
<1>3. /\ p.lastSeen \in 0..MaxMessages /\ p.lastSeen \in Nat /\ p.buffer \subseteq Ids /\ p.fetching \in BOOLEAN
      /\ p.asked \subseteq 0..MaxMessages
      /\ p = [lastSeen |-> p.lastSeen, buffer |-> p.buffer, fetching |-> p.fetching, asked |-> p.asked]
  BY PageFields DEF Page
<1>4. Bad = {}
  <2>1. SUFFICES ASSUME Bad # {} PROVE FALSE BY <2>1
  <2>2. PICK m \in Bad : \A k \in Bad : m <= k BY <2>1, LeastNumber
  <2>3. CASE m = f.from
    <3> DEFINE q == [lastSeen |-> p.lastSeen, buffer |-> p.buffer, fetching |-> FALSE, asked |-> p.asked]
    <3>1. g[m] = q BY <1>2, <1>3, <2>3
    <3>2. q \in Page /\ q.lastSeen = p.lastSeen /\ q.buffer = p.buffer /\ q.fetching = FALSE /\ q.asked = p.asked BY <1>3 DEF Page
    <3> HIDE DEF q
    <3>3. Seen(q) = Seen(p) /\ (Tidy(p) => Tidy(q)) BY <3>2 DEF Seen, Tidy
    <3>4. f.from + 1..m = {} BY <1>1, <2>3
    <3>5. Ok(m, q) BY <1>1, <1>3, <2>3, <3>2, <3>3, <3>4
    <3> QED BY <2>2, <3>1, <3>5
  <2>4. CASE m # f.from
    <3>1. m - 1 \in Nat /\ m \in f.from + 1..f.to /\ m \in 0..MaxMessages /\ m \in Nat BY <1>1, <2>2, <2>4
    <3>2. Ok(m - 1, g[m - 1]) BY <1>1, <2>2, <2>4
    <3>3. g[m] = onNewMessage(g[m - 1], m) BY <1>2, <3>1
    <3> HIDE DEF Ok
    <3>4. g[m - 1] \in Page BY <3>2 DEF Ok
    <3>5. ShowsOrKeeps(g[m - 1], m, g[m]) BY <3>1, <3>3, <3>4, NewMessageShown
    <3>6. m <= g[m - 1].lastSeen + 1 /\ g[m - 1].lastSeen \in Nat BY <3>1, <3>2, <3>4, PageFields DEF Ok
    <3>7. /\ g[m].lastSeen \in Nat /\ g[m].lastSeen >= g[m - 1].lastSeen /\ g[m].lastSeen >= m
          /\ g[m].asked = g[m - 1].asked /\ g[m].fetching = g[m - 1].fetching /\ g[m].buffer \subseteq g[m - 1].buffer
          /\ g[m] \in Page /\ Seen(g[m]) = Seen(g[m - 1]) \cup {m} /\ (Tidy(g[m - 1]) => Tidy(g[m]))
      BY <3>1, <3>5, <3>6, PageFields DEF ShowsOrKeeps
    <3>8. f.from + 1..m = (f.from + 1..m - 1) \cup {m} BY <1>1, <3>1
    <3>9. Ok(m, g[m]) BY <1>3, <3>1, <3>2, <3>6, <3>7, <3>8 DEF Ok
    <3> QED BY <2>2, <3>9
  <2> QED BY <2>3, <2>4
<1>5. Ok(f.to, g[f.to])
  <2>1. f.to \notin Bad BY <1>4
  <2> QED BY <1>1, <2>1
<1> DEFINE r == onMessages(p, f.from, f.to, f.more)
<1>6. /\ r \in Page /\ r.lastSeen = g[f.to].lastSeen /\ r.buffer = g[f.to].buffer
      /\ r.asked = IF f.more THEN p.asked \cup {g[f.to].lastSeen} ELSE p.asked
      /\ r.fetching = f.more
  BY <1>1, <1>2, <1>5, FetchAfterPage
<1> HIDE DEF r
<1>7. g[f.to].lastSeen \in Nat BY <1>5, PageFields
<1>8. Seen(r) = Seen(p) \cup FrameIds(f)
  <2>1. FrameIds(f) = f.from + 1..f.to BY DEF FrameIds
  <2> QED BY <1>5, <1>6, <2>1 DEF Seen
<1>9. Tidy(p) => Tidy(r) BY <1>5, <1>6, <1>7 DEF Tidy
<1>10. f.more => r.asked # {} BY <1>6
<1>11. \A a \in r.asked : a \in p.asked \/ a <= r.lastSeen BY <1>6, <1>7
<1>12. r.lastSeen >= p.lastSeen /\ r.lastSeen >= f.to /\ r.buffer \subseteq p.buffer /\ p.asked \subseteq r.asked BY <1>5, <1>6
<1>13. Follows(p, f, r) BY <1>6, <1>8, <1>9, <1>10, <1>11, <1>12 DEF Follows
<1> QED BY <1>13 DEF r

LEMMA FrameFollows ==
  ASSUME NEW p \in Page, NEW f \in ClientFrame, FrameFits(p, f)
  PROVE  Follows(p, f, After(p, f))
<1>1. CASE f.type = "messages"
  <2>1. After(p, f) = onMessages(p, f.from, f.to, f.more) BY <1>1 DEF After
  <2> QED BY <1>1, <2>1, MessagesFollow
<1>2. CASE f.type = "newMessage"
  <2>1. After(p, f) = onNewMessage(p, f.to) BY <1>2 DEF After
  <2>2. f.to \in 0..MaxMessages /\ f.to >= 1 /\ ~ f.more /\ FrameIds(f) = {f.to} BY <1>2 DEF ClientFrame, FrameFits, FrameIds
  <2>3. ShowsOrKeeps(p, f.to, onNewMessage(p, f.to)) BY <2>2, NewMessageShown
  <2> DEFINE q == onNewMessage(p, f.to)
  <2> HIDE DEF q
  <2>4. ShowsOrKeeps(p, f.to, q) BY <2>3 DEF q
  <2>5. p.lastSeen \in Nat /\ (q \in Page => q.lastSeen \in Nat) BY PageFields
  <2>6. \A a \in q.asked : a \in p.asked \/ a <= q.lastSeen BY <2>4, <2>5 DEF ShowsOrKeeps
  <2>7. Follows(p, f, q) BY <1>2, <2>2, <2>4, <2>5, <2>6 DEF ShowsOrKeeps, Follows
  <2> QED BY <2>1, <2>7 DEF q
<1>3. CASE f.type = "catchupDone"
  <2>1. After(p, f) = IF f.more THEN fetchAfter(p) ELSE p BY <1>3 DEF After
  <2> DEFINE q == After(p, f)
  <2>2. /\ q \in Page /\ q.lastSeen = p.lastSeen /\ q.buffer = p.buffer /\ (q.asked = p.asked \cup {p.lastSeen} \/ q.asked = p.asked)
        /\ (f.more => q.asked = p.asked \cup {p.lastSeen}) /\ (~ f.more => q.fetching = p.fetching /\ q.asked = p.asked)
    BY <2>1, FetchAfterPage
  <2>3. FrameIds(f) = {} /\ p.lastSeen \in Nat BY <1>3, PageFields DEF FrameIds
  <2> HIDE DEF q
  <2>4. Seen(q) = Seen(p) \cup FrameIds(f) BY <2>2, <2>3 DEF Seen
  <2>5. Tidy(p) => Tidy(q) BY <2>2, <2>3 DEF Tidy
  <2>6. f.more => q.asked # {} BY <2>2
  <2>7. Follows(p, f, q) BY <1>3, <2>2, <2>3, <2>4, <2>5, <2>6 DEF Follows
  <2> QED BY <2>7 DEF q
<1> QED BY <1>1, <1>2, <1>3 DEF ClientFrame

-----------------------------------------------------------------------------
(* The queues                                                              *)

\* The frames of a queue.
Frames(s) == {s[i] : i \in DOMAIN s}

\* At most one frame of the queue is one of X.
AtMostOne(s, X) == \A i, j \in DOMAIN s : s[i] \in X /\ s[j] \in X => i = j

\* How a queue of S grows and shrinks.
QueueOf(S) ==
  \A s \in Seq(S) :
    /\ Len(s) \in Nat /\ DOMAIN s = 1..Len(s) /\ Frames(s) \subseteq S
    /\ \A i \in 1..Len(s) : s[i] \in Frames(s)
    /\ \A t \in Seq(S) : /\ s \o t \in Seq(S) /\ Frames(s \o t) = Frames(s) \cup Frames(t)
                         /\ Len(s \o t) = Len(s) + Len(t) /\ \A i \in 1..Len(s) : (s \o t)[i] = s[i]
                         /\ \A i \in Len(s) + 1..Len(s) + Len(t) : (s \o t)[i] = t[i - Len(s)]
    /\ \A x \in S : /\ Append(s, x) \in Seq(S) /\ Frames(Append(s, x)) = Frames(s) \cup {x}
                    /\ Len(Append(s, x)) = Len(s) + 1 /\ Append(s, x)[Len(s) + 1] = x
                    /\ \A i \in 1..Len(s) : Append(s, x)[i] = s[i]
    /\ s # <<>> => /\ Tail(s) \in Seq(S) /\ Frames(s) = Frames(Tail(s)) \cup {Head(s)}
                   /\ Len(Tail(s)) = Len(s) - 1 /\ Len(s) >= 1 /\ Head(s) = s[1] /\ Head(s) \in S
                   /\ \A i \in 1..Len(s) - 1 : Tail(s)[i] = s[i + 1]

LEMMA Queues == ASSUME NEW S PROVE QueueOf(S)
<1> SUFFICES ASSUME NEW s \in Seq(S)
             PROVE /\ Len(s) \in Nat /\ DOMAIN s = 1..Len(s) /\ Frames(s) \subseteq S
                   /\ \A i \in 1..Len(s) : s[i] \in Frames(s)
                   /\ \A t \in Seq(S) : /\ s \o t \in Seq(S) /\ Frames(s \o t) = Frames(s) \cup Frames(t)
                                        /\ Len(s \o t) = Len(s) + Len(t) /\ \A i \in 1..Len(s) : (s \o t)[i] = s[i]
                                        /\ \A i \in Len(s) + 1..Len(s) + Len(t) : (s \o t)[i] = t[i - Len(s)]
                   /\ \A x \in S : /\ Append(s, x) \in Seq(S) /\ Frames(Append(s, x)) = Frames(s) \cup {x}
                                   /\ Len(Append(s, x)) = Len(s) + 1 /\ Append(s, x)[Len(s) + 1] = x
                                   /\ \A i \in 1..Len(s) : Append(s, x)[i] = s[i]
                   /\ s # <<>> => /\ Tail(s) \in Seq(S) /\ Frames(s) = Frames(Tail(s)) \cup {Head(s)}
                                  /\ Len(Tail(s)) = Len(s) - 1 /\ Len(s) >= 1 /\ Head(s) = s[1] /\ Head(s) \in S
                                  /\ \A i \in 1..Len(s) - 1 : Tail(s)[i] = s[i + 1]
  BY DEF QueueOf
<1>1. Len(s) \in Nat /\ DOMAIN s = 1..Len(s) /\ Frames(s) \subseteq S /\ \A i \in 1..Len(s) : s[i] \in Frames(s)
  BY DEF Frames
<1>2. ASSUME NEW t \in Seq(S)
      PROVE /\ s \o t \in Seq(S) /\ Frames(s \o t) = Frames(s) \cup Frames(t)
            /\ Len(s \o t) = Len(s) + Len(t) /\ \A i \in 1..Len(s) : (s \o t)[i] = s[i]
            /\ \A i \in Len(s) + 1..Len(s) + Len(t) : (s \o t)[i] = t[i - Len(s)]
  <2>1. /\ s \o t \in Seq(S) /\ Len(s \o t) = Len(s) + Len(t) /\ \A i \in 1..Len(s) : (s \o t)[i] = s[i]
        /\ \A i \in Len(s) + 1..Len(s) + Len(t) : (s \o t)[i] = t[i - Len(s)]
        /\ \A i \in 1..Len(t) : (s \o t)[Len(s) + i] = t[i]
        /\ Len(t) \in Nat /\ DOMAIN t = 1..Len(t) /\ DOMAIN (s \o t) = 1..Len(s) + Len(t)
    OBVIOUS
  <2>2. \A x \in Frames(s \o t) : x \in Frames(s) \cup Frames(t)
    <3> SUFFICES ASSUME NEW i \in 1..Len(s) + Len(t) PROVE (s \o t)[i] \in Frames(s) \cup Frames(t) BY <2>1 DEF Frames
    <3>1. CASE i \in 1..Len(s) BY <2>1, <3>1 DEF Frames
    <3>2. CASE i \in Len(s) + 1..Len(s) + Len(t)
      <4>1. i - Len(s) \in 1..Len(t) BY <1>1, <2>1, <3>2
      <4> QED BY <2>1, <3>2, <4>1 DEF Frames
    <3> QED BY <1>1, <2>1, <3>1, <3>2
  <2>3. \A x \in Frames(s) : x \in Frames(s \o t)
    <3> SUFFICES ASSUME NEW i \in 1..Len(s) PROVE s[i] \in Frames(s \o t) BY <1>1 DEF Frames
    <3>1. i \in DOMAIN (s \o t) /\ (s \o t)[i] = s[i] BY <1>1, <2>1
    <3> QED BY <3>1 DEF Frames
  <2>4. \A x \in Frames(t) : x \in Frames(s \o t)
    <3> SUFFICES ASSUME NEW i \in 1..Len(t) PROVE t[i] \in Frames(s \o t) BY <2>1 DEF Frames
    <3>1. Len(s) + i \in DOMAIN (s \o t) /\ (s \o t)[Len(s) + i] = t[i] BY <1>1, <2>1
    <3> QED BY <3>1 DEF Frames
  <2> QED BY <2>1, <2>2, <2>3, <2>4
<1>3. ASSUME NEW x \in S
      PROVE /\ Append(s, x) \in Seq(S) /\ Frames(Append(s, x)) = Frames(s) \cup {x}
            /\ Len(Append(s, x)) = Len(s) + 1 /\ Append(s, x)[Len(s) + 1] = x
            /\ \A i \in 1..Len(s) : Append(s, x)[i] = s[i]
  <2>1. /\ Append(s, x) \in Seq(S) /\ Len(Append(s, x)) = Len(s) + 1 /\ Append(s, x)[Len(s) + 1] = x
        /\ \A i \in 1..Len(s) : Append(s, x)[i] = s[i]
        /\ DOMAIN Append(s, x) = 1..Len(s) + 1
    OBVIOUS
  <2>2. 1..Len(s) + 1 = 1..Len(s) \cup {Len(s) + 1} BY <1>1
  <2>3. Frames(Append(s, x)) = Frames(s) \cup {x} BY <1>1, <2>1, <2>2 DEF Frames
  <2> QED BY <2>1, <2>3
<1>4. ASSUME s # <<>>
      PROVE /\ Tail(s) \in Seq(S) /\ Frames(s) = Frames(Tail(s)) \cup {Head(s)}
            /\ Len(Tail(s)) = Len(s) - 1 /\ Len(s) >= 1 /\ Head(s) = s[1] /\ Head(s) \in S
            /\ \A i \in 1..Len(s) - 1 : Tail(s)[i] = s[i + 1]
  <2>1. /\ Tail(s) \in Seq(S) /\ Len(Tail(s)) = Len(s) - 1 /\ Len(s) >= 1 /\ Head(s) = s[1] /\ s[1] \in S
        /\ \A i \in 1..Len(s) - 1 : Tail(s)[i] = s[i + 1]
        /\ DOMAIN Tail(s) = 1..Len(s) - 1
    BY <1>4
  <2>2. \A x \in Frames(Tail(s)) : x \in Frames(s)
    <3> SUFFICES ASSUME NEW i \in 1..Len(s) - 1 PROVE Tail(s)[i] \in Frames(s) BY <2>1 DEF Frames
    <3>1. i + 1 \in 1..Len(s) BY <1>1
    <3> QED BY <1>1, <2>1, <3>1
  <2>3. \A x \in Frames(s) : x \in Frames(Tail(s)) \cup {s[1]}
    <3> SUFFICES ASSUME NEW i \in 1..Len(s), i # 1 PROVE s[i] \in Frames(Tail(s)) BY <1>1 DEF Frames
    <3>1. i - 1 \in 1..Len(s) - 1 /\ Tail(s)[i - 1] = s[i] BY <1>1, <2>1
    <3> QED BY <2>1, <3>1 DEF Frames
  <2>4. s[1] \in Frames(s) BY <1>1, <2>1
  <2> QED BY <2>1, <2>2, <2>3, <2>4
<1> QED BY <1>1, <1>2, <1>3, <1>4

\* Frames(s) of the empty queue.
LEMMA NoFrames == Frames(<<>>) = {} /\ \A X : AtMostOne(<<>>, X)
BY DEF Frames, AtMostOne

LEMMA FirstOfItsKind ==
  ASSUME NEW S, NEW X, NEW s \in Seq(S), NEW x \in S, AtMostOne(s, X), x \notin X \/ Frames(s) \cap X = {}
  PROVE  AtMostOne(Append(s, x), X)
<1>1. QueueOf(S) BY Queues
<1>2. /\ Len(s) \in Nat /\ DOMAIN s = 1..Len(s) /\ \A i \in 1..Len(s) : s[i] \in Frames(s)
      /\ DOMAIN Append(s, x) = 1..Len(s) + 1 /\ Append(s, x)[Len(s) + 1] = x
      /\ \A i \in 1..Len(s) : Append(s, x)[i] = s[i]
  BY <1>1 DEF QueueOf
<1> QED BY <1>2 DEF AtMostOne

LEMMA LastOfItsKind ==
  ASSUME NEW S, NEW X, NEW s \in Seq(S), s # <<>>, AtMostOne(s, X)
  PROVE  AtMostOne(Tail(s), X) /\ (Head(s) \in X => Frames(Tail(s)) \cap X = {})
<1>1. QueueOf(S) BY Queues
<1>2. /\ Len(s) \in Nat /\ Len(s) >= 1 /\ DOMAIN s = 1..Len(s) /\ Tail(s) \in Seq(S) /\ Len(Tail(s)) = Len(s) - 1
      /\ DOMAIN Tail(s) = 1..Len(s) - 1 /\ Head(s) = s[1]
      /\ \A i \in 1..Len(s) - 1 : Tail(s)[i] = s[i + 1]
  BY <1>1 DEF QueueOf
<1>3. ASSUME NEW i \in 1..Len(s) - 1, NEW j \in 1..Len(s) - 1, Tail(s)[i] \in X, Tail(s)[j] \in X PROVE i = j
  <2>1. i + 1 \in DOMAIN s /\ j + 1 \in DOMAIN s /\ s[i + 1] \in X /\ s[j + 1] \in X BY <1>2, <1>3
  <2>2. i + 1 = j + 1 BY <2>1 DEF AtMostOne
  <2> QED BY <2>2
<1>4. ASSUME Head(s) \in X, NEW i \in 1..Len(s) - 1, Tail(s)[i] \in X PROVE FALSE
  <2>1. i + 1 \in DOMAIN s /\ s[i + 1] \in X /\ 1 \in DOMAIN s /\ s[1] \in X BY <1>2, <1>4
  <2>2. i + 1 = 1 BY <2>1 DEF AtMostOne
  <2> QED BY <2>2
<1> QED BY <1>2, <1>3, <1>4 DEF AtMostOne, Frames

-----------------------------------------------------------------------------
(* What is on its way fits what is stored: the first part of the invariant *)

Answers == {f \in NodeFrame : f.type \in {"subscribed", "rejected"}}
Waits(n) == rec.st = "sent" /\ rec.node = n

\* One request at most is on its way, and reconcile() waits for its answer; a
\* link that is down carries nothing.
QueueFits(n) ==
  /\ AtMostOne(toNode[n], {"subscribe"}) /\ AtMostOne(toGw[n], Answers)
  /\ "subscribe" \in Frames(toNode[n]) => Waits(n) /\ Frames(toGw[n]) \cap Answers = {}
  /\ Frames(toGw[n]) \cap Answers # {} => Waits(n)
  /\ n \notin up => toNode[n] = <<>> /\ toGw[n] = <<>> /\ n \notin subs
QueuesFit == \A n \in Node : QueueFits(n)

RecFits ==
  /\ rec.st = "idle" => rec = Idle
  /\ rec.st # "idle" => rec.node \in Node
  /\ rec.st = "answered" => rec.to \in 0..stored
  /\ rec.st \in {"repair", "read"} => rec.from \in 0..stored
  /\ rec.st = "read" => rec.to \in rec.from..stored
  /\ rec.by # None => conn[rec.by].st = "reconcile"

Fits ==
  /\ stored <= situation.messages
  /\ \A f \in fanouts : f.id <= stored
  /\ \A a \in appends : a.id <= situation.messages
  /\ \A n \in Node : head[n] <= stored
  /\ \A n \in Node : \A f \in Frames(toGw[n]) :
       /\ f.type = "deliver" => f.id \in 1..stored
       /\ f.type = "subscribed" => f.id \in 0..stored
  /\ last_forwarded <= stored

\* What a connection and its page know is stored.
PageFits(c) ==
  /\ conn[c].st \in {"reconcile", "catchup", "read"} => conn[c].after <= client[c].lastSeen
  /\ conn[c].st = "read" => conn[c].after <= conn[c].to /\ conn[c].to <= stored
  /\ floor[c] <= stored /\ client[c].lastSeen <= stored /\ last_read[c] <= client[c].lastSeen
  /\ Tidy(client[c]) /\ \A b \in client[c].buffer : b <= stored
  /\ \A f \in Frames(toClient[c]) : FrameFits(client[c], f) /\ f.to <= stored
  /\ conn[c].st = "off" => toClient[c] = <<>> /\ client[c].asked = {}
PagesFit == \A c \in Conn : PageFits(c)

\* Where clients neither come nor go they are connected, or not.
Standing ==
  situation.connects = 0 => \A c \in Conn : conn[c].st = IF c \in situation.connected THEN "on" ELSE "off"

EverythingFits == TypeOK /\ QueuesFit /\ RecFits /\ Fits /\ PagesFit /\ Standing

LEMMA Types ==
  ASSUME TypeOK
  PROVE  /\ stored \in Nat /\ stored <= MaxMessages /\ MaxMessages \in Nat
         /\ situation \in Situations /\ situation.limit \in Nat /\ situation.limit > 0
         /\ situation.messages \in Nat /\ situation.messages <= MaxMessages
         /\ situation.connects \in Nat /\ situation.faults \in Nat /\ situation.moves \in Nat
         /\ used.moves \in 0..situation.moves /\ used.faults \in 0..situation.faults /\ used.connects \in 0..situation.connects
         /\ last_forwarded \in Heads /\ last_forwarded \in Int
         /\ rec \in Reconciling /\ rec.from \in Heads /\ rec.to \in Heads /\ rec.from \in Int /\ rec.to \in Int
         /\ rec.by \in Conn \cup {None} /\ rec.node \in Node \cup {NoNode}
<1>1. /\ stored \in 0..MaxMessages /\ situation \in Situations /\ last_forwarded \in Heads /\ rec \in Reconciling
      /\ used \in [moves : 0..situation.moves, faults : 0..situation.faults, connects : 0..situation.connects]
  BY DEF TypeOK
<1>2. \A h \in Heads : h \in Int BY Constants DEF Heads, Ids, None
<1> QED BY <1>1, <1>2, Constants DEF Reconciling

LEMMA NodeTypes ==
  ASSUME TypeOK, NEW n \in Node
  PROVE  /\ head[n] \in Heads /\ head[n] \in Int /\ toNode[n] \in Seq({"subscribe", "unsubscribe"})
         /\ toGw[n] \in Seq(NodeFrame)
BY Constants DEF TypeOK, Heads, Ids, None

LEMMA ConnTypes ==
  ASSUME TypeOK, NEW c \in Conn
  PROVE  /\ conn[c] \in Serving /\ conn[c].after \in 0..MaxMessages /\ conn[c].to \in 0..MaxMessages
         /\ conn[c].more \in BOOLEAN /\ floor[c] \in 0..MaxMessages
         /\ toClient[c] \in Seq(ClientFrame) /\ client[c] \in Page /\ last_read[c] \in 0..MaxMessages
         /\ conn[c].after \in Nat /\ conn[c].to \in Nat /\ floor[c] \in Nat /\ last_read[c] \in Nat
<1>1. MaxMessages \in Nat BY Constants
<1> QED BY <1>1 DEF TypeOK, Serving

-----------------------------------------------------------------------------
(* What the actions do to the queues                                       *)

LEMMA SentToGw ==
  ASSUME toGw \in [Node -> Seq(NodeFrame)], NEW n \in Node, NEW f \in NodeFrame, SendToGw(n, f)
  PROVE  /\ toGw' \in [Node -> Seq(NodeFrame)]
         /\ \A m \in Node : toGw'[m] = IF m = n /\ n \in up THEN Append(toGw[m], f) ELSE toGw[m]
<1>1. Append(toGw[n], f) \in Seq(NodeFrame) BY FrameAppended
<1> QED BY <1>1 DEF SendToGw

LEMMA SentToNode ==
  ASSUME toNode \in [Node -> Seq({"subscribe", "unsubscribe"})], NEW n \in Node, NEW f \in {"subscribe", "unsubscribe"},
         SendToNode(n, f)
  PROVE  /\ toNode' \in [Node -> Seq({"subscribe", "unsubscribe"})]
         /\ \A m \in Node : toNode'[m] = IF m = n /\ n \in up THEN Append(toNode[m], f) ELSE toNode[m]
<1>1. Append(toNode[n], f) \in Seq({"subscribe", "unsubscribe"}) BY FrameAppended
<1> QED BY <1>1 DEF SendToNode

LEMMA TakenByNode ==
  ASSUME toNode \in [Node -> Seq({"subscribe", "unsubscribe"})], NEW n \in Node, NEW f, Takes(n, f)
  PROVE  /\ toNode' \in [Node -> Seq({"subscribe", "unsubscribe"})] /\ toNode[n] # <<>> /\ Head(toNode[n]) = f
         /\ \A m \in Node : toNode'[m] = IF m = n THEN Tail(toNode[m]) ELSE toNode[m]
<1>1. toNode[n] # <<>> BY DEF Takes
<1>2. Tail(toNode[n]) \in Seq({"subscribe", "unsubscribe"}) BY <1>1
<1> QED BY <1>1, <1>2 DEF Takes

LEMMA TakenByGateway ==
  ASSUME toGw \in [Node -> Seq(NodeFrame)], NEW n \in Node, NEW t, Receives(n, t)
  PROVE  /\ toGw' \in [Node -> Seq(NodeFrame)] /\ toGw[n] # <<>> /\ Head(toGw[n]) \in NodeFrame /\ Head(toGw[n]).type = t
         /\ \A m \in Node : toGw'[m] = IF m = n THEN Tail(toGw[m]) ELSE toGw[m]
<1>1. toGw[n] # <<>> BY DEF Receives
<1>2. Tail(toGw[n]) \in Seq(NodeFrame) /\ Head(toGw[n]) \in NodeFrame BY <1>1, FrameTaken
<1> QED BY <1>1, <1>2 DEF Receives

\* The frames of Push: the messages from+1..to, one by one, and the others.
Pushed(from, to) == {Frame("newMessage", k, k, FALSE) : k \in from + 1..to}

LEMMA MessagesInOrder ==
  ASSUME NEW from \in Int, NEW to \in 0..MaxMessages, from >= -1
  PROVE  /\ Messages(from, to) \in Seq(ClientFrame)
         /\ Frames(Messages(from, to)) = Pushed(from, to)
         /\ \A f \in Pushed(from, to) : f \in ClientFrame /\ f.type = "newMessage" /\ f.from = f.to /\ f.to \in from + 1..to /\ f.more = FALSE
<1>1. MaxMessages \in Nat BY Constants
<1>2. \A k \in from + 1..to : /\ Frame("newMessage", k, k, FALSE) \in ClientFrame
                              /\ Frame("newMessage", k, k, FALSE).type = "newMessage"
                              /\ Frame("newMessage", k, k, FALSE).from = k /\ Frame("newMessage", k, k, FALSE).to = k
                              /\ Frame("newMessage", k, k, FALSE).more = FALSE
  BY <1>1 DEF Frame, ClientFrame
<1> DEFINE g(k) == Frame("newMessage", k, k, FALSE)
           s == [i \in 1..to - from |-> g(from + i)]
<1>3. Messages(from, to) = s BY DEF Messages
<1>4. \A i \in 1..to - from : from + i \in from + 1..to BY <1>1
<1>5. \A i \in 1..to - from : g(from + i) \in ClientFrame BY <1>2, <1>4
<1> HIDE DEF g
<1>6. s \in Seq(ClientFrame) /\ DOMAIN s = 1..to - from
  <2>1. CASE to - from \in Nat BY <1>5, <2>1
  <2>2. CASE to - from < 0
    <3>1. 1..to - from = {} BY <2>2
    <3>2. s = <<>> BY <3>1
    <3> QED BY <3>1, <3>2
  <2> QED BY <1>1, <2>1, <2>2
<1>7. \A k \in from + 1..to : k - from \in 1..to - from /\ s[k - from] = g(k)
  <2> TAKE k \in from + 1..to
  <2>1. k - from \in 1..to - from /\ from + (k - from) = k BY <1>1
  <2> QED BY <2>1
<1>8. \A i \in 1..to - from : s[i] = g(from + i) OBVIOUS
<1> HIDE DEF s
<1>9. Frames(s) = {g(k) : k \in from + 1..to} BY <1>4, <1>6, <1>7, <1>8 DEF Frames
<1>10. Pushed(from, to) = {g(k) : k \in from + 1..to} BY Zenon DEF g, Pushed
<1> DEFINE Pure(f) == f \in ClientFrame /\ f.type = "newMessage" /\ f.from = f.to /\ f.to \in from + 1..to /\ f.more = FALSE
<1>11. \A k \in from + 1..to : Pure(g(k)) BY <1>2 DEF g
<1> HIDE DEF Pure
<1>12. \A f \in Pushed(from, to) : Pure(f) BY <1>10, <1>11, Zenon
<1> QED BY <1>3, <1>6, <1>9, <1>10, <1>12 DEF Pure

PushGoes(cs, from, to, others) ==
  /\ toClient' \in [Conn -> Seq(ClientFrame)]
  /\ \A c \in Conn : /\ c \notin cs => toClient'[c] = toClient[c]
                     /\ c \in cs => Frames(toClient'[c]) = Frames(toClient[c]) \cup Pushed(from, to) \cup Frames(others)
                     /\ Len(toClient[c]) <= Len(toClient'[c])
                     /\ \A i \in 1..Len(toClient[c]) : toClient'[c][i] = toClient[c][i]
                     /\ \A i \in Len(toClient[c]) + 1..Len(toClient'[c]) : toClient'[c][i] \in Pushed(from, to) \cup Frames(others)

LEMMA PushedToConns ==
  ASSUME toClient \in [Conn -> Seq(ClientFrame)], NEW cs \in SUBSET Conn, NEW from \in Int, from >= -1, NEW to \in 0..MaxMessages,
         NEW others \in Seq(ClientFrame), Push(cs, from, to, others)
  PROVE  PushGoes(cs, from, to, others)
<1>1. QueueOf(ClientFrame) BY Queues
<1>2. Messages(from, to) \in Seq(ClientFrame) /\ Frames(Messages(from, to)) = Pushed(from, to) BY MessagesInOrder
<1> DEFINE new == Messages(from, to) \o others
<1>3. new \in Seq(ClientFrame) /\ Frames(new) = Pushed(from, to) \cup Frames(others) BY <1>1, <1>2 DEF QueueOf
<1>4. \A c \in Conn : toClient'[c] = IF c \in cs THEN toClient[c] \o Messages(from, to) \o others ELSE toClient[c]
  BY DEF Push
<1>5. \A c \in Conn : (toClient[c] \o Messages(from, to)) \o others = toClient[c] \o new
  BY <1>2
<1> HIDE DEF new
<1>6. ASSUME NEW c \in Conn
      PROVE  /\ toClient[c] \o new \in Seq(ClientFrame) /\ Frames(toClient[c] \o new) = Frames(toClient[c]) \cup Frames(new)
             /\ Len(toClient[c]) <= Len(toClient[c] \o new)
             /\ \A i \in 1..Len(toClient[c]) : (toClient[c] \o new)[i] = toClient[c][i]
             /\ \A i \in Len(toClient[c]) + 1..Len(toClient[c] \o new) : (toClient[c] \o new)[i] \in Frames(new)
             /\ Len(toClient[c]) \in Nat
  <2>1. toClient[c] \in Seq(ClientFrame) OBVIOUS
  <2>2. /\ toClient[c] \o new \in Seq(ClientFrame) /\ Frames(toClient[c] \o new) = Frames(toClient[c]) \cup Frames(new)
        /\ Len(toClient[c] \o new) = Len(toClient[c]) + Len(new) /\ Len(new) \in Nat /\ Len(toClient[c]) \in Nat
        /\ \A i \in 1..Len(toClient[c]) : (toClient[c] \o new)[i] = toClient[c][i]
        /\ \A i \in Len(toClient[c]) + 1..Len(toClient[c]) + Len(new) : (toClient[c] \o new)[i] = new[i - Len(toClient[c])]
        /\ \A i \in 1..Len(new) : new[i] \in Frames(new)
    BY <1>1, <1>3, <2>1 DEF QueueOf
  <2>3. \A i \in Len(toClient[c]) + 1..Len(toClient[c]) + Len(new) : i - Len(toClient[c]) \in 1..Len(new) BY <2>2
  <2> QED BY <2>2, <2>3
<1>7. toClient' \in [Conn -> Seq(ClientFrame)]
  <2>1. toClient' = [c \in Conn |-> IF c \in cs THEN toClient[c] \o Messages(from, to) \o others ELSE toClient[c]] BY DEF Push
  <2>2. \A c \in Conn : (IF c \in cs THEN toClient[c] \o Messages(from, to) \o others ELSE toClient[c]) \in Seq(ClientFrame)
    BY <1>5, <1>6
  <2> QED BY <2>1, <2>2
<1>8. ASSUME NEW c \in Conn
      PROVE  /\ c \notin cs => toClient'[c] = toClient[c]
             /\ c \in cs => Frames(toClient'[c]) = Frames(toClient[c]) \cup Pushed(from, to) \cup Frames(others)
             /\ Len(toClient[c]) <= Len(toClient'[c])
             /\ \A i \in 1..Len(toClient[c]) : toClient'[c][i] = toClient[c][i]
             /\ \A i \in Len(toClient[c]) + 1..Len(toClient'[c]) : toClient'[c][i] \in Pushed(from, to) \cup Frames(others)
  <2>1. CASE c \in cs
    <3>1. toClient'[c] = toClient[c] \o new BY <1>4, <1>5, <2>1, Zenon
    <3>2. Frames(toClient[c]) \cup Pushed(from, to) \cup Frames(others) = Frames(toClient[c]) \cup Frames(new) BY <1>3
    <3> QED BY <1>3, <1>6, <2>1, <3>1, <3>2
  <2>2. CASE c \notin cs
    <3>1. toClient'[c] = toClient[c] /\ Len(toClient[c]) \in Nat BY <1>4, <1>6, <2>2
    <3> QED BY <2>2, <3>1
  <2> QED BY <2>1, <2>2
<1> QED BY <1>7, <1>8 DEF PushGoes

-----------------------------------------------------------------------------
(* The start                                                               *)

LEMMA EmptyPage == Tidy([lastSeen |-> 0, buffer |-> {}, fetching |-> FALSE, asked |-> {}])
BY DEF Tidy

LEMMA InitFits == Init => EverythingFits
<1> SUFFICES ASSUME Init PROVE EverythingFits OBVIOUS
<1>1. /\ situation \in Situations /\ situation.server \in Node /\ situation.connected \in SUBSET Conn /\ situation \in Situation
      /\ situation.connects \in Nat /\ situation.faults \in Nat /\ situation.moves \in Nat /\ situation.messages \in Nat
      /\ MaxMessages \in Nat
  BY Constants DEF Init
<1>2. TypeOK
  <2>1. OwnershipTypeOK BY <1>1 DEF Init, OwnershipTypeOK
  <2>2. stored \in 0..MaxMessages /\ appends \subseteq Call /\ fanouts \subseteq FanOut /\ up \subseteq Node /\ subs \subseteq Node BY <1>1 DEF Init
  <2>3. head \in [Node -> Heads] /\ last_forwarded \in Heads /\ sub_at \in Node \cup {NoNode} BY <1>1 DEF Init, Heads, Ids
  <2>4. <<>> \in Seq({"subscribe", "unsubscribe"}) /\ <<>> \in Seq(NodeFrame) /\ <<>> \in Seq(ClientFrame) /\ <<>> \in Seq(Node \cup {NoNode})
    OBVIOUS
  <2>5. toNode \in [Node -> Seq({"subscribe", "unsubscribe"})] /\ toGw \in [Node -> Seq(NodeFrame)] /\ toClient \in [Conn -> Seq(ClientFrame)]
    BY <2>4 DEF Init
  <2>6. map \in Node \cup {NoNode} /\ watch \in Seq(Node \cup {NoNode}) BY <1>1, <2>4 DEF Init
  <2>7. rec \in Reconciling BY DEF Init, Idle, Reconciling, Heads, None
  <2>8. conn \in [Conn -> Serving]
    <3>1. Off \in Serving BY <1>1 DEF Off, Serving
    <3>2. [Off EXCEPT !.st = "on"] \in Serving BY <3>1 DEF Serving
    <3> QED BY <3>1, <3>2 DEF Init
  <2>9. floor \in [Conn -> 0..MaxMessages] /\ last_read \in [Conn -> 0..MaxMessages] BY <1>1 DEF Init
  <2>10. client \in [Conn -> Page]
    <3>1. [lastSeen |-> 0, buffer |-> {}, fetching |-> FALSE, asked |-> {}] \in Page BY <1>1 DEF Page
    <3> QED BY <3>1 DEF Init
  <2>11. used \in [moves : 0..situation.moves, faults : 0..situation.faults, connects : 0..situation.connects] BY <1>1 DEF Init
  <2> QED BY <1>1, <2>1, <2>2, <2>3, <2>5, <2>6, <2>7, <2>8, <2>9, <2>10, <2>11 DEF TypeOK
<1>3. QueuesFit
  <2> SUFFICES ASSUME NEW n \in Node PROVE QueueFits(n) BY DEF QueuesFit
  <2>1. toNode[n] = <<>> /\ toGw[n] = <<>> /\ n \in up BY DEF Init
  <2> QED BY <2>1, NoFrames DEF QueueFits
<1>4. RecFits BY DEF RecFits, Init, Idle
<1>5. Fits
  <2>1. stored = 0 /\ fanouts = {} /\ appends = {} /\ last_forwarded <= 0 BY DEF Init, None
  <2>2. head = [n \in Node |-> IF situation.connected # {} /\ n = holder THEN 0 ELSE None] BY DEF Init
  <2>3. \A n \in Node : Frames(toGw[n]) = {} BY NoFrames DEF Init
  <2> QED BY <1>1, <2>1, <2>2, <2>3 DEF Fits, None
<1>6. PagesFit
  <2> SUFFICES ASSUME NEW c \in Conn PROVE PageFits(c) BY DEF PagesFit
  <2>1. /\ toClient[c] = <<>> /\ floor[c] = 0 /\ last_read[c] = 0 /\ stored = 0
        /\ client[c] = [lastSeen |-> 0, buffer |-> {}, fetching |-> FALSE, asked |-> {}]
    BY DEF Init
  <2>2. conn[c].st \in {"on", "off"} BY DEF Init, Off
  <2>3. client[c].lastSeen = 0 /\ client[c].buffer = {} /\ client[c].asked = {} /\ Tidy(client[c]) BY <2>1, EmptyPage
  <2> QED BY <2>1, <2>2, <2>3, NoFrames DEF PageFits
<1>7. Standing BY DEF Init, Standing, Off
<1> QED BY <1>2, <1>3, <1>4, <1>5, <1>6, <1>7 DEF EverythingFits

-----------------------------------------------------------------------------
(* reconcile() and serve()                                                 *)

\* rec and conn stay, and what was read is still stored.
LEMMA RecKept ==
  ASSUME TypeOK, RecFits, UNCHANGED <<rec, conn>>, stored' \in Nat, stored' >= stored PROVE RecFits'
BY Types DEF RecFits, Idle

\* reconcile() returns.
LEMMA RecDone ==
  ASSUME TypeOK, RecFits, Done
  PROVE  /\ RecFits' /\ rec' = Idle
         /\ \A c \in Conn : conn'[c] = IF rec.by = c /\ c # None THEN [conn[c] EXCEPT !.st = "catchup"] ELSE conn[c]
         /\ conn' \in [Conn -> Serving]
<1>1. rec' = Idle /\ conn' = IF rec.by = None THEN conn ELSE [conn EXCEPT ![rec.by].st = "catchup"] BY DEF Done, Returns
<1>2. conn \in [Conn -> Serving] /\ rec.by \in Conn \cup {None} BY Types DEF TypeOK
<1>3. conn' \in [Conn -> Serving] BY <1>1, <1>2 DEF Serving
<1>4. Idle.by = None /\ Idle.st = "idle" BY DEF Idle
<1>5. RecFits' BY <1>1, <1>4 DEF RecFits
<1> QED BY <1>1, <1>2, <1>3, <1>5

\* A publish calls the store, and the store answers.
Appending == (\E n \in Node : Publish(n)) \/ \E a \in appends : StoreAnswers(a)

\* What an append leaves alone.
LEMMA AppendingKeeps ==
  Appending => /\ UNCHANGED <<holder, owned, suspended, subs, up, toNode, toGw>>
               /\ UNCHANGED <<map, watch, sub_at, last_forwarded, rec>>
               /\ UNCHANGED <<conn, floor, toClient, client, last_read>>
               /\ UNCHANGED used \/ \E kind : Fault(kind)
               /\ stored' \in {stored, stored + 1}
<1> DEFINE P == /\ UNCHANGED <<holder, owned, suspended, subs, up, toNode, toGw>>
                /\ UNCHANGED <<map, watch, sub_at, last_forwarded, rec>>
                /\ UNCHANGED <<conn, floor, toClient, client, last_read>>
                /\ UNCHANGED used \/ \E kind : Fault(kind)
                /\ stored' \in {stored, stored + 1}
<1> USE DEF ownershipVars, linkVars, subVars, connVars
<1>1. \A n \in Node : CallAppend(n) => P BY DEF CallAppend
<1>2. \A n \in Node : CallForgotten(n) => P BY DEF CallForgotten
<1>3. \A a \in appends : AppendMessage(a) => P BY DEF AppendMessage, Commits
<1>4. \A a \in appends : AmbiguousAppend(a) => P BY DEF AmbiguousAppend, Commits
<1>5. \A a \in appends : NotAppended(a) => P BY DEF NotAppended
<1> HIDE DEF P
<1>6. Appending => P BY <1>1, <1>2, <1>3, <1>4, <1>5 DEF Appending, Publish, StoreAnswers
<1> QED BY <1>6 DEF P

\* What goes on with a forgotten ChatSeq is what it was.
LEMMA OutdatedCalls ==
  ASSUME NEW n \in Node, NEW calls \in SUBSET Call
  PROVE  /\ Outdated(n, calls) \subseteq Call
         /\ \A g \in Outdated(n, calls) :
              \E f \in calls : g.node = f.node /\ g.id = f.id /\ g.fresh = (f.fresh /\ f.node # n)
         /\ \A f \in calls :
              \E g \in Outdated(n, calls) : g.node = f.node /\ g.id = f.id /\ g.fresh = (f.fresh /\ f.node # n)
<1> DEFINE late(f) == [f EXCEPT !.fresh = @ /\ f.node # n]
<1>1. \A f \in calls : /\ late(f) \in Call /\ late(f).node = f.node /\ late(f).id = f.id
                       /\ late(f).fresh = (f.fresh /\ f.node # n)
  BY DEF Call
<1>2. Outdated(n, calls) = {late(f) : f \in calls} BY DEF Outdated
<1> HIDE DEF late
<1> QED BY <1>1, <1>2

LEMMA OutdatedFanouts ==
  ASSUME NEW n \in Node, NEW calls \in SUBSET FanOut
  PROVE  /\ Outdated(n, calls) \subseteq FanOut
         /\ \A g \in Outdated(n, calls) :
              \E f \in calls : g.node = f.node /\ g.id = f.id /\ g.fresh = (f.fresh /\ f.node # n)
         /\ \A f \in calls :
              \E g \in Outdated(n, calls) : g.node = f.node /\ g.id = f.id /\ g.fresh = (f.fresh /\ f.node # n)
<1> DEFINE late(f) == [f EXCEPT !.fresh = @ /\ f.node # n]
<1>1. \A f \in calls : /\ late(f) \in FanOut /\ late(f).node = f.node /\ late(f).id = f.id
                       /\ late(f).fresh = (f.fresh /\ f.node # n)
  BY DEF FanOut
<1>2. Outdated(n, calls) = {late(f) : f \in calls} BY DEF Outdated
<1> HIDE DEF late
<1> QED BY <1>1, <1>2

\* Calls of a dead process have no node.
LEMMA OrphanedCalls ==
  ASSUME NEW n \in Node, appends \subseteq Call,
         appends' = {IF a.node = n THEN [a EXCEPT !.node = NoNode, !.fresh = FALSE] ELSE a : a \in appends}
  PROVE  /\ appends' \subseteq Call
         /\ \A g \in appends' : \E a \in appends : g.id = a.id /\ ((a.node # n /\ g = a) \/ (a.node = n /\ ~ g.fresh))
<1> DEFINE dead(a) == IF a.node = n THEN [a EXCEPT !.node = NoNode, !.fresh = FALSE] ELSE a
<1>1. \A a \in appends : /\ dead(a) \in Call /\ dead(a).id = a.id
                         /\ ((a.node # n /\ dead(a) = a) \/ (a.node = n /\ ~ dead(a).fresh))
  BY DEF Call
<1>2. appends' = {dead(a) : a \in appends} OBVIOUS
<1> HIDE DEF dead
<1> QED BY <1>1, <1>2

\* The actions, one by one.
LEMMA Cases ==
  ASSUME NEW P,
         KeyDeleted \/ MapLearns \/ UseAnswer \/ RepairRead \/ RepairPush \/ RepairFails \/ UnsubscribeUnwanted => P,
         \A by \in Conn \cup {None} : SubscribeMissing(by) => P,
         \A f \in fanouts : Fanout(f) => P,
         \A n \in Node : Claim(n) \/ ClaimAnswered(n) \/ LeaseGranted(n) \/ DropShard(n) => P,
         Appending => P,
         \A n \in Node : Subscribe(n) \/ RejectSubscribe(n) \/ Unsubscribe(n) => P,
         \A n \in Node : ReceiveDeliver(n) \/ ReceiveSubscribed(n) \/ ReceiveRejected(n) \/ ReceiveMoved(n) => P,
         \A n \in Node : LinkDown(n) \/ LinkUp(n) \/ Crash(n) => P,
         \A c \in Conn : Connect(c) \/ Disconnect(c) \/ NothingMissing(c) \/ CatchupRead(c) \/ CatchupSend(c) => P,
         \A c \in Conn : ClientReceives(c) \/ Ack(c) => P,
         \A c \in Conn, after \in 0..MaxMessages : FetchAnswered(c, after) \/ FetchFails(c, after) => P,
         Step
  PROVE  P
BY Zenon DEF Step, Ownership, Appending, NodeHandles, GatewayReceives, Repair, Reconcile, Serve

LEMMA StoredGrows == ASSUME TypeOK, Step PROVE stored' \in Nat /\ stored' >= stored
<1>1. stored \in Nat BY Types
<1> DEFINE P == stored' \in {stored, stored + 1}
<1>3. KeyDeleted \/ MapLearns \/ UseAnswer \/ RepairRead \/ RepairPush \/ RepairFails \/ UnsubscribeUnwanted => P
  BY DEF KeyDeleted, MapLearns, UseAnswer, RepairRead, RepairPush, RepairFails, UnsubscribeUnwanted, chatVars
<1>4. \A by \in Conn \cup {None} : SubscribeMissing(by) => P BY DEF SubscribeMissing, chatVars
<1>5. \A f \in fanouts : Fanout(f) => P BY DEF Fanout
<1>6. \A n \in Node : Claim(n) \/ ClaimAnswered(n) \/ LeaseGranted(n) \/ DropShard(n) => P
  BY DEF Claim, ClaimAnswered, LeaseGranted, DropShard, Forget, chatVars
<1>7. Appending => P BY AppendingKeeps
<1>8. \A n \in Node : Subscribe(n) \/ RejectSubscribe(n) \/ Unsubscribe(n) => P
  BY DEF Subscribe, RejectSubscribe, Unsubscribe, Takes
<1>9. \A n \in Node : ReceiveDeliver(n) \/ ReceiveSubscribed(n) \/ ReceiveRejected(n) \/ ReceiveMoved(n) => P
  BY DEF ReceiveDeliver, ReceiveSubscribed, ReceiveRejected, ReceiveMoved, Receives, chatVars
<1>10. \A n \in Node : LinkDown(n) \/ LinkUp(n) \/ Crash(n) => P BY DEF LinkDown, LinkUp, Crash, chatVars
<1>11. \A c \in Conn : Connect(c) \/ Disconnect(c) \/ NothingMissing(c) \/ CatchupRead(c) \/ CatchupSend(c) => P
  BY DEF Connect, Disconnect, NothingMissing, CatchupRead, CatchupSend, chatVars
<1>12. \A c \in Conn : ClientReceives(c) \/ Ack(c) => P BY DEF ClientReceives, Ack, chatVars
<1>13. \A c \in Conn, after \in 0..MaxMessages : FetchAnswered(c, after) \/ FetchFails(c, after) => P
  BY DEF FetchAnswered, FetchFails, chatVars
<1>14. P
  <2> HIDE DEF P
  <2> QED BY <1>3, <1>4, <1>5, <1>6, <1>7, <1>8, <1>9, <1>10, <1>11, <1>12, <1>13, Cases
<1> QED BY <1>1, <1>14

\* What leaves reconcile() and serve() alone.
LEMMA RecAndConnKept ==
  /\ KeyDeleted \/ MapLearns \/ UnsubscribeUnwanted => UNCHANGED <<rec, conn>>
  /\ \A f \in fanouts : Fanout(f) => UNCHANGED <<rec, conn>>
  /\ \A n \in Node : Claim(n) \/ ClaimAnswered(n) \/ LeaseGranted(n) \/ DropShard(n) => UNCHANGED <<rec, conn>>
  /\ Appending => UNCHANGED <<rec, conn>>
  /\ \A n \in Node : Subscribe(n) \/ RejectSubscribe(n) \/ Unsubscribe(n) => UNCHANGED <<rec, conn>>
  /\ \A n \in Node : ReceiveDeliver(n) \/ ReceiveMoved(n) \/ LinkUp(n) => UNCHANGED <<rec, conn>>
  /\ \A c \in Conn : ClientReceives(c) \/ Ack(c) => UNCHANGED <<rec, conn>>
  /\ \A c \in Conn, after \in 0..MaxMessages : FetchAnswered(c, after) \/ FetchFails(c, after) => UNCHANGED <<rec, conn>>
<1>1. KeyDeleted \/ MapLearns \/ UnsubscribeUnwanted => UNCHANGED <<rec, conn>>
  BY DEF KeyDeleted, MapLearns, UnsubscribeUnwanted, connVars
<1>2. \A f \in fanouts : Fanout(f) => UNCHANGED <<rec, conn>> BY DEF Fanout, connVars, subVars
<1>3. \A n \in Node : Claim(n) \/ ClaimAnswered(n) \/ LeaseGranted(n) \/ DropShard(n) => UNCHANGED <<rec, conn>>
  BY DEF Claim, ClaimAnswered, LeaseGranted, DropShard, connVars, subVars
<1>4. Appending => UNCHANGED <<rec, conn>> BY AppendingKeeps
<1>5. \A n \in Node : Subscribe(n) \/ RejectSubscribe(n) \/ Unsubscribe(n) => UNCHANGED <<rec, conn>>
  BY DEF Subscribe, RejectSubscribe, Unsubscribe, Takes, connVars, subVars
<1>6. \A n \in Node : ReceiveDeliver(n) \/ ReceiveMoved(n) \/ LinkUp(n) => UNCHANGED <<rec, conn>>
  BY DEF ReceiveDeliver, ReceiveMoved, LinkUp, connVars, subVars
<1>7. \A c \in Conn : ClientReceives(c) \/ Ack(c) => UNCHANGED <<rec, conn>> BY DEF ClientReceives, Ack, subVars
<1>8. \A c \in Conn, after \in 0..MaxMessages : FetchAnswered(c, after) \/ FetchFails(c, after) => UNCHANGED <<rec, conn>>
  BY DEF FetchAnswered, FetchFails, subVars
<1> QED BY <1>1, <1>2, <1>3, <1>4, <1>5, <1>6, <1>7, <1>8

\* A link is lost: reconcile() returns, or it did not wait for this node.
LEMMA LostAnswer ==
  ASSUME NEW n \in Node, LinkDown(n) \/ Crash(n)
  PROVE  /\ (Waits(n) /\ Done) \/ (~ Waits(n) /\ UNCHANGED <<rec, conn>>)
         /\ UNCHANGED <<map, watch, last_forwarded, floor, toClient, client, last_read, stored>>
         /\ up' = up \ {n} /\ subs' = subs \ {n} /\ Unsubscribed(n)
         /\ toNode' = [toNode EXCEPT ![n] = <<>>] /\ toGw' = [toGw EXCEPT ![n] = <<>>]
<1>1. CASE LinkDown(n) BY <1>1 DEF LinkDown, LinkLost, Waits
<1>2. CASE Crash(n) BY <1>2 DEF Crash, LinkLost, Waits
<1> QED BY <1>1, <1>2

LEMMA RecStep == ASSUME EverythingFits, Step PROVE RecFits'
<1> USE DEF EverythingFits
<1>1. stored' \in Nat /\ stored' >= stored /\ stored \in Nat BY StoredGrows, Types
<1>2. UNCHANGED <<rec, conn>> => RecFits' BY <1>1, RecKept
<1>3. Done => RecFits' BY RecDone
<1>4. UseAnswer => RecFits'
  <2> SUFFICES ASSUME UseAnswer, ~ Done PROVE RecFits' BY <1>3
  <2>1. rec.st = "answered" /\ rec' = [rec EXCEPT !.st = "repair", !.from = last_forwarded] /\ conn' = conn /\ ~ NothingToRepair /\ stored' = stored
    BY DEF UseAnswer, chatVars
  <2>2. rec \in Reconciling /\ rec.to \in 0..stored /\ rec.node \in Node /\ last_forwarded \in Int BY <2>1, Types DEF RecFits
  <2>3. last_forwarded \in 0..stored
    <3>1. last_forwarded # None /\ last_forwarded < rec.to /\ last_forwarded \in Heads BY <2>1, <2>2, Types DEF NothingToRepair
    <3> QED BY <2>2, <3>1, Types DEF Heads, Ids, None, Fits
  <2>4. rec'.st = "repair" /\ rec'.from = last_forwarded /\ rec'.node = rec.node /\ rec'.by = rec.by BY <2>1, <2>2 DEF Reconciling
  <2> QED BY <2>1, <2>2, <2>3, <2>4 DEF RecFits
<1>5. RepairRead => RecFits'
  <2> SUFFICES ASSUME RepairRead PROVE RecFits' OBVIOUS
  <2>1. rec.st = "repair" /\ rec' = [rec EXCEPT !.st = "read", !.to = Upto(rec.from)] /\ conn' = conn /\ stored' = stored
    BY DEF RepairRead, chatVars, connVars
  <2>2. rec \in Reconciling /\ rec.from \in 0..stored /\ rec.node \in Node BY <2>1, Types DEF RecFits
  <2>3. Upto(rec.from) \in rec.from..stored BY <1>1, <2>2, Types, PageOfStore
  <2>4. rec'.st = "read" /\ rec'.to = Upto(rec.from) /\ rec'.from = rec.from /\ rec'.node = rec.node /\ rec'.by = rec.by
    BY <2>1, <2>2 DEF Reconciling
  <2> QED BY <2>1, <2>2, <2>3, <2>4 DEF RecFits
<1>6. RepairPush => RecFits' BY <1>3 DEF RepairPush
<1>7. RepairFails => RecFits'
  <2> SUFFICES ASSUME RepairFails PROVE RecFits' OBVIOUS
  <2>1. rec' = Idle BY DEF RepairFails
  <2> QED BY <2>1 DEF RecFits, Idle
<1>8. ASSUME NEW by \in Conn \cup {None}, SubscribeMissing(by) PROVE RecFits'
  <2>1. /\ rec' = [Idle EXCEPT !.st = "sent", !.by = by, !.node = map] /\ conn' = conn /\ map \in up
        /\ by \in Conn => conn[by].st = "reconcile"
    BY <1>8 DEF SubscribeMissing, Missing, MayReconcile, connVars
  <2>2. rec'.st = "sent" /\ rec'.by = by /\ rec'.node = map BY <2>1 DEF Idle
  <2>3. map \in Node BY <2>1 DEF TypeOK
  <2> QED BY <2>1, <2>2, <2>3 DEF RecFits
<1>9. ASSUME NEW n \in Node, ReceiveSubscribed(n) PROVE RecFits'
  <2>1. Receives(n, "subscribed") /\ rec' = [rec EXCEPT !.st = "answered", !.to = Head(toGw[n]).id] /\ conn' = conn /\ stored' = stored
    BY <1>9 DEF ReceiveSubscribed, Receives, chatVars
  <2>2. toGw[n] # <<>> /\ Head(toGw[n]) \in NodeFrame /\ Head(toGw[n]).type = "subscribed" /\ toGw[n] \in Seq(NodeFrame)
    BY <2>1, TakenByGateway, NodeTypes DEF TypeOK
  <2>3. Head(toGw[n]) \in Frames(toGw[n]) BY <2>2, Queues DEF QueueOf
  <2>4. Head(toGw[n]).id \in 0..stored BY <2>2, <2>3 DEF Fits
  <2>5. Waits(n) BY <2>2, <2>3 DEF QueuesFit, QueueFits, Answers
  <2>6. rec \in Reconciling BY Types
  <2>7. rec'.st = "answered" /\ rec'.to = Head(toGw[n]).id /\ rec'.node = rec.node /\ rec'.by = rec.by BY <2>1, <2>6 DEF Reconciling
  <2> QED BY <2>1, <2>4, <2>5, <2>7 DEF RecFits, Waits
<1>10. ASSUME NEW n \in Node, ReceiveRejected(n) PROVE RecFits' BY <1>3, <1>10 DEF ReceiveRejected
<1>11. ASSUME NEW n \in Node, LinkDown(n) \/ Crash(n) PROVE RecFits' BY <1>2, <1>3, <1>11, LostAnswer
<1>12. ASSUME NEW c \in Conn, Connect(c) \/ Disconnect(c) \/ NothingMissing(c) \/ CatchupRead(c) \/ CatchupSend(c) PROVE RecFits'
  <2>1. rec' = rec /\ stored' = stored BY <1>12 DEF Connect, Disconnect, NothingMissing, CatchupRead, CatchupSend, subVars, chatVars
  <2>2. SUFFICES ASSUME rec.by # None PROVE conn'[rec.by].st = "reconcile" BY <2>1, Types DEF RecFits, Idle
  <2>3. rec.by \in Conn /\ conn[rec.by].st = "reconcile" BY <2>2, Types DEF RecFits
  <2>4. NothingMissing(c) => FALSE
    <3> SUFFICES ASSUME NothingMissing(c) PROVE FALSE OBVIOUS
    <3>1. rec.st = "idle" BY DEF NothingMissing, MayReconcile
    <3> QED BY <2>2, <3>1 DEF RecFits, Idle
  <2>5. rec.by # c /\ conn'[rec.by] = conn[rec.by]
    <3>1. conn \in [Conn -> Serving] BY DEF TypeOK
    <3>2. conn[c].st # "reconcile" /\ \A d \in Conn : d # c => conn'[d] = conn[d]
      BY <1>12, <2>4, <3>1 DEF Connect, Disconnect, CatchupRead, CatchupSend, Leave
    <3> QED BY <2>3, <3>1, <3>2
  <2> QED BY <2>3, <2>5
<1> QED
  <2> DEFINE P == RecFits'
  <2> HIDE DEF P
  <2> QED BY <1>2, <1>3, <1>4, <1>5, <1>6, <1>7, <1>8, <1>9, <1>10, <1>11, <1>12, RecAndConnKept, Cases DEF P

LEMMA StandingStep == ASSUME EverythingFits, Step, situation' = situation PROVE Standing'
<1> USE DEF EverythingFits
<1>1. SUFFICES ASSUME situation.connects = 0
               PROVE \A c \in Conn : conn'[c].st = IF c \in situation.connected THEN "on" ELSE "off"
  BY DEF Standing
<1>2. \A c \in Conn : conn[c].st = IF c \in situation.connected THEN "on" ELSE "off" BY <1>1 DEF Standing
<1>3. rec.by = None
  <2> SUFFICES ASSUME rec.by # None PROVE FALSE OBVIOUS
  <2>1. rec.by \in Conn /\ conn[rec.by].st = "reconcile" BY Types DEF RecFits
  <2> QED BY <1>2, <2>1
<1>4. used.connects = 0 /\ ~ (used.connects < situation.connects) BY <1>1, Types
<1>5. Done => UNCHANGED conn BY <1>3 DEF Done, Returns
<1> DEFINE P == UNCHANGED conn
<1>6. UseAnswer \/ RepairRead \/ RepairPush \/ RepairFails => P
  BY <1>3, <1>5 DEF UseAnswer, RepairRead, RepairPush, RepairFails, connVars
<1>7. \A by \in Conn \cup {None} : SubscribeMissing(by) => P BY DEF SubscribeMissing, connVars
<1>8. \A n \in Node : ReceiveSubscribed(n) \/ ReceiveRejected(n) => P BY <1>5 DEF ReceiveSubscribed, ReceiveRejected
<1>9. \A n \in Node : LinkDown(n) \/ Crash(n) => P BY <1>5, LostAnswer
<1>10. \A c \in Conn : Connect(c) \/ Disconnect(c) => FALSE BY <1>4 DEF Connect, Disconnect
<1>11. \A c \in Conn : NothingMissing(c) \/ CatchupRead(c) \/ CatchupSend(c) => FALSE
  BY <1>2 DEF NothingMissing, MayReconcile, CatchupRead, CatchupSend
<1>12. UNCHANGED <<rec, conn>> => P OBVIOUS
<1> HIDE DEF P
<1>13. P BY <1>6, <1>7, <1>8, <1>9, <1>10, <1>11, <1>12, RecAndConnKept, Cases
<1> QED BY <1>2, <1>13 DEF P

-----------------------------------------------------------------------------
(* What is stored, known and on its way to the gateway                     *)

LEMMA FrameNumbers ==
  ASSUME Fits, NEW n \in Node, NEW f \in Frames(toGw[n])
  PROVE  (f.type = "deliver" => f.id \in 1..stored) /\ (f.type = "subscribed" => f.id \in 0..stored)
BY DEF Fits

\* What the numbers of the nodes and of the gateway depend on stays or grows.
LEMMA FitsKept ==
  ASSUME TypeOK, Fits, situation' = situation, stored' \in Nat, stored' >= stored, stored' <= situation.messages,
         fanouts' \subseteq FanOut, \A f \in fanouts' : f.id <= stored', \A a \in appends' : a.id <= situation.messages,
         \A n \in Node : head'[n] <= stored', last_forwarded' <= stored',
         \A n \in Node : \A f \in Frames(toGw'[n]) :
            f \in Frames(toGw[n]) \/ f.type \in {"rejected", "shard_moved"} \/ (f.type \in {"deliver", "subscribed"} /\ f.id \in 0..stored')
         , \A n \in Node : \A f \in Frames(toGw'[n]) : f.type = "deliver" => f \in Frames(toGw[n]) \/ f.id >= 1
  PROVE  Fits'
<1>1. stored \in Nat BY Types
<1>2. ASSUME NEW n \in Node, NEW f \in Frames(toGw'[n])
      PROVE  /\ f.type = "deliver" => f.id \in 1..stored'
             /\ f.type = "subscribed" => f.id \in 0..stored'
  <2>1. CASE f \in Frames(toGw[n])
    <3>1. (f.type = "deliver" => f.id \in 1..stored) /\ (f.type = "subscribed" => f.id \in 0..stored)
      BY <1>2, <2>1, FrameNumbers
    <3> QED BY <1>1, <3>1
  <2>2. CASE f \notin Frames(toGw[n]) BY <1>1, <1>2, <2>2
  <2> QED BY <2>1, <2>2
<1> QED BY <1>2 DEF Fits

\* The frames to the gateway are taken or lost.
LEMMA TakenFrames ==
  ASSUME TypeOK, NEW n \in Node, toGw[n] # <<>>, \A m \in Node : toGw'[m] = IF m = n THEN Tail(toGw[m]) ELSE toGw[m]
  PROVE  \A m \in Node : Frames(toGw'[m]) \subseteq Frames(toGw[m])
<1>1. Frames(Tail(toGw[n])) \subseteq Frames(toGw[n]) BY NodeTypes, Queues DEF QueueOf
<1> QED BY <1>1

LEMMA SentFrames ==
  ASSUME TypeOK, NEW n \in Node, NEW g \in NodeFrame, SendToGw(n, g)
  PROVE  /\ \A m \in Node : Frames(toGw'[m]) \subseteq Frames(toGw[m]) \cup (IF m = n THEN {g} ELSE {})
         /\ \A m \in Node : Frames(toGw[m]) \subseteq Frames(toGw'[m])
<1>1. \A m \in Node : toGw'[m] = IF m = n /\ n \in up THEN Append(toGw[m], g) ELSE toGw[m] BY SentToGw DEF TypeOK
<1>2. Frames(Append(toGw[n], g)) = Frames(toGw[n]) \cup {g} BY NodeTypes, Queues DEF QueueOf
<1> QED BY <1>1, <1>2

\* What leaves the numbers alone.
LEMMA NumbersKept ==
  /\ KeyDeleted \/ MapLearns \/ UnsubscribeUnwanted \/ RepairRead => UNCHANGED <<stored, appends, fanouts, head, toGw, last_forwarded>>
  /\ \A by \in Conn \cup {None} : SubscribeMissing(by) => UNCHANGED <<stored, appends, fanouts, head, toGw, last_forwarded>>
  /\ \A n \in Node : Claim(n) \/ ClaimAnswered(n) \/ LeaseGranted(n) \/ LinkUp(n) \/ Unsubscribe(n)
       => UNCHANGED <<stored, appends, fanouts, head, toGw, last_forwarded>>
  /\ \A c \in Conn : Connect(c) \/ NothingMissing(c) \/ CatchupRead(c) \/ CatchupSend(c)
       => UNCHANGED <<stored, appends, fanouts, head, toGw, last_forwarded>>
  /\ \A c \in Conn : ClientReceives(c) \/ Ack(c) => UNCHANGED <<stored, appends, fanouts, head, toGw, last_forwarded>>
  /\ \A c \in Conn, after \in 0..MaxMessages : FetchAnswered(c, after) \/ FetchFails(c, after)
       => UNCHANGED <<stored, appends, fanouts, head, toGw, last_forwarded>>
<1> USE DEF chatVars, linkVars, subVars
<1>1. KeyDeleted \/ MapLearns \/ UnsubscribeUnwanted \/ RepairRead => UNCHANGED <<stored, appends, fanouts, head, toGw, last_forwarded>>
  BY DEF KeyDeleted, MapLearns, UnsubscribeUnwanted, RepairRead
<1>2. \A by \in Conn \cup {None} : SubscribeMissing(by) => UNCHANGED <<stored, appends, fanouts, head, toGw, last_forwarded>>
  BY DEF SubscribeMissing
<1>3. \A n \in Node : Claim(n) \/ ClaimAnswered(n) \/ LeaseGranted(n) \/ LinkUp(n) \/ Unsubscribe(n)
       => UNCHANGED <<stored, appends, fanouts, head, toGw, last_forwarded>>
  BY DEF Claim, ClaimAnswered, LeaseGranted, LinkUp, Unsubscribe, Takes
<1>4. \A c \in Conn : Connect(c) \/ NothingMissing(c) \/ CatchupRead(c) \/ CatchupSend(c)
       => UNCHANGED <<stored, appends, fanouts, head, toGw, last_forwarded>>
  BY DEF Connect, NothingMissing, CatchupRead, CatchupSend
<1>5. \A c \in Conn : ClientReceives(c) \/ Ack(c) => UNCHANGED <<stored, appends, fanouts, head, toGw, last_forwarded>>
  BY DEF ClientReceives, Ack
<1>6. \A c \in Conn, after \in 0..MaxMessages : FetchAnswered(c, after) \/ FetchFails(c, after)
       => UNCHANGED <<stored, appends, fanouts, head, toGw, last_forwarded>>
  BY DEF FetchAnswered, FetchFails
<1> QED BY <1>1, <1>2, <1>3, <1>4, <1>5, <1>6

LEMMA LoadedHead == ASSUME TypeOK, Fits, NEW n \in Node PROVE Loaded(n) \in 0..stored /\ Loaded(n) \in Heads
BY Types, NodeTypes DEF Loaded, max_message_id, Fits, Heads, Ids, None

LEMMA FitsStep == ASSUME EverythingFits, Step, situation' = situation PROVE Fits'
<1> USE DEF EverythingFits
<1>1. stored' \in Nat /\ stored' >= stored /\ stored \in Nat /\ stored <= MaxMessages /\ situation.messages <= MaxMessages
      /\ last_forwarded \in Int /\ last_forwarded <= stored /\ stored <= situation.messages /\ situation.messages \in Nat
      /\ fanouts \subseteq FanOut /\ None \in Int /\ None < stored
  <2>1. stored' \in Nat /\ stored' >= stored BY StoredGrows
  <2>2. last_forwarded <= stored /\ stored <= situation.messages BY DEF Fits
  <2>3. fanouts \subseteq FanOut BY DEF TypeOK
  <2> QED BY <2>1, <2>2, <2>3, Types DEF None
<1>2. \A n \in Node : head[n] \in Int /\ head[n] <= stored BY NodeTypes DEF Fits
<1>3. \A f \in fanouts : f.id \in Nat /\ f.id >= 1 /\ f.id <= stored /\ f.node \in Node /\ f.id \in Heads
  BY <1>1 DEF Fits, FanOut, Ids, Heads
<1>18. appends \subseteq Call /\ \A a \in appends : a.id <= situation.messages BY DEF TypeOK, Fits
<1>4. UNCHANGED <<stored, appends, fanouts, head, toGw, last_forwarded>> => Fits' BY DEF Fits
<1>5. UNCHANGED <<stored, appends, fanouts, head>> /\ (\A n \in Node : Frames(toGw'[n]) \subseteq Frames(toGw[n])) /\ last_forwarded' <= stored => Fits'
  <2> SUFFICES ASSUME UNCHANGED <<stored, appends, fanouts, head>>, \A n \in Node : Frames(toGw'[n]) \subseteq Frames(toGw[n]),
                      last_forwarded' <= stored
               PROVE Fits'
    OBVIOUS
  <2> QED BY <1>1, <1>2, <1>3, <1>18, FitsKept
<1>6. UseAnswer => Fits'
  <2> SUFFICES ASSUME UseAnswer PROVE Fits' OBVIOUS
  <2>1. UNCHANGED <<stored, appends, fanouts, head, toGw>> /\ rec.st = "answered"
        /\ last_forwarded' \in {last_forwarded, AtLeast(AtLeast(last_forwarded, 0), rec.to)}
    BY DEF UseAnswer, chatVars, linkVars
  <2>2. rec.to \in 0..stored BY <2>1 DEF RecFits
  <2>3. last_forwarded' <= stored BY <1>1, <2>1, <2>2 DEF AtLeast
  <2> QED BY <1>5, <2>1, <2>3
<1>7. RepairPush => Fits'
  <2> SUFFICES ASSUME RepairPush PROVE Fits' OBVIOUS
  <2>1. UNCHANGED <<stored, appends, fanouts, head, toGw>> /\ rec.st = "read" /\ last_forwarded' = AtLeast(last_forwarded, rec.to)
    BY DEF RepairPush, chatVars, linkVars
  <2>2. rec.from \in 0..stored /\ rec.to \in rec.from..stored BY <2>1 DEF RecFits
  <2>3. last_forwarded' <= stored BY <1>1, <2>1, <2>2 DEF AtLeast
  <2> QED BY <1>5, <2>1, <2>3
<1>8. RepairFails => Fits'
  <2> SUFFICES ASSUME RepairFails PROVE Fits' OBVIOUS
  <2>1. UNCHANGED <<stored, appends, fanouts, head, toGw>> /\ last_forwarded' \in {last_forwarded, None}
    BY DEF RepairFails, Leave, Unref, chatVars, linkVars
  <2> QED BY <1>1, <1>5, <2>1
<1>9. ASSUME NEW f \in fanouts, Fanout(f) PROVE Fits'
  <2>1. /\ UNCHANGED <<stored, appends, last_forwarded>> /\ fanouts' = fanouts \ {f} /\ (SendToGw(f.node, NodeSays("deliver", f.id)) \/ UNCHANGED toGw)
        /\ head' = head \/ head' = [head EXCEPT ![f.node] = f.id]
    BY <1>9 DEF Fanout, subVars
  <2>2. NodeSays("deliver", f.id) \in NodeFrame /\ NodeSays("deliver", f.id).type = "deliver" /\ NodeSays("deliver", f.id).id = f.id
    BY <1>3 DEF NodeSays, NodeFrame
  <2>3. \A n \in Node : Frames(toGw'[n]) \subseteq Frames(toGw[n]) \cup {NodeSays("deliver", f.id)} BY <1>3, <2>1, <2>2, SentFrames
  <2>4. \A n \in Node : head'[n] <= stored BY <1>2, <1>3, <2>1 DEF TypeOK
  <2>5. \A n \in Node : \A g \in Frames(toGw'[n]) : g \in Frames(toGw[n]) \/ (g.type = "deliver" /\ g.id \in 1..stored)
    BY <1>1, <1>3, <2>2, <2>3
  <2> QED BY <1>1, <1>3, <1>18, <2>1, <2>4, <2>5, FitsKept
<1>10. ASSUME NEW n \in Node, DropShard(n) PROVE Fits'
  <2>1. /\ UNCHANGED <<stored, last_forwarded>> /\ SendToGw(n, NodeSays("shard_moved", None))
        /\ head' = [head EXCEPT ![n] = None]
        /\ appends' = Outdated(n, appends) /\ fanouts' = Outdated(n, fanouts)
    BY <1>10 DEF DropShard, Forget, subVars
  <2>2. NodeSays("shard_moved", None) \in NodeFrame /\ NodeSays("shard_moved", None).type = "shard_moved"
    BY DEF NodeSays, NodeFrame, Heads
  <2>3. \A m \in Node : Frames(toGw'[m]) \subseteq Frames(toGw[m]) \cup {NodeSays("shard_moved", None)} BY <2>1, <2>2, SentFrames
  <2>4. \A m \in Node : head'[m] <= stored BY <1>1, <1>2, <2>1 DEF TypeOK
  <2>5. \A a \in appends' : a.id <= situation.messages BY <1>18, <2>1, OutdatedCalls
  <2>6. fanouts' \subseteq FanOut /\ \A f \in fanouts' : f.id <= stored BY <1>1, <1>3, <2>1, OutdatedFanouts
  <2>7. \A m \in Node : \A g \in Frames(toGw'[m]) : g \in Frames(toGw[m]) \/ g.type = "shard_moved" BY <2>2, <2>3
  <2> QED BY <1>1, <2>1, <2>4, <2>5, <2>6, <2>7, FitsKept
<1>11. Appending => Fits'
  <2> SUFFICES ASSUME Appending PROVE Fits' OBVIOUS
  <2>1. UNCHANGED <<last_forwarded, toGw>> BY AppendingKeeps
  <2>2. ASSUME stored' \in {stored, stored + 1}, stored' <= situation.messages, fanouts' \subseteq FanOut,
               \A f \in fanouts' : f.id <= stored', \A a \in appends' : a.id <= situation.messages,
               \A n \in Node : head'[n] <= stored'
        PROVE  Fits'
    BY <1>1, <2>1, <2>2, FitsKept
  <2>3. ASSUME NEW n \in Node, NEW id \in Nat, NEW fresh, id <= situation.messages, Calls(n, id, fresh), UNCHANGED <<stored, fanouts>>,
               head' = head \/ head' = [head EXCEPT ![n] = Loaded(n)]
        PROVE  Fits'
    <3>1. \A a \in appends' : a \in appends \/ a.id = id BY <2>3 DEF Calls
    <3>2. \A a \in appends' : a.id <= situation.messages BY <1>18, <2>3, <3>1
    <3>3. Loaded(n) \in 0..stored BY LoadedHead
    <3>4. \A m \in Node : head'[m] = head[m] \/ head'[m] = Loaded(n) BY <2>3 DEF TypeOK
    <3>5. \A m \in Node : head'[m] <= stored BY <1>1, <1>2, <3>3, <3>4
    <3> QED BY <1>1, <1>3, <2>2, <2>3, <3>2, <3>5
  <2>4. ASSUME NEW n \in Node, CallAppend(n) PROVE Fits'
    <3>1. Loaded(n) \in 0..stored BY LoadedHead
    <3>2. /\ Loaded(n) < situation.messages /\ Calls(n, Loaded(n) + 1, TRUE) /\ UNCHANGED <<stored, fanouts>>
          /\ head' = [head EXCEPT ![n] = Loaded(n)]
      BY <2>4 DEF CallAppend
    <3>3. Loaded(n) + 1 \in Nat /\ Loaded(n) + 1 <= situation.messages BY <1>1, <3>1, <3>2
    <3> QED BY <2>3, <3>2, <3>3
  <2>5. ASSUME NEW n \in Node, CallForgotten(n) PROVE Fits'
    <3>1. stored < situation.messages /\ Calls(n, stored + 1, FALSE) /\ UNCHANGED <<stored, fanouts, head>> BY <2>5 DEF CallForgotten
    <3>2. stored + 1 \in Nat /\ stored + 1 <= situation.messages BY <1>1, <3>1
    <3> QED BY <2>3, <3>1, <3>2
  <2>6. ASSUME NEW a \in appends, AppendMessage(a) \/ AmbiguousAppend(a) PROVE Fits'
    <3>1. /\ stored' = stored + 1 /\ a.id = stored + 1 /\ appends' = appends \ {a} /\ head' = head
          /\ fanouts' = fanouts \/ (a.node \in Node /\ fanouts' = fanouts \cup {a})
      BY <2>6 DEF AppendMessage, AmbiguousAppend, Commits
    <3>2. a.node \in Node => a \in FanOut BY <1>18 DEF Call, FanOut
    <3>3. fanouts' \subseteq FanOut BY <1>1, <3>1, <3>2
    <3>4. \A f \in fanouts' : f.id <= stored' BY <1>1, <1>3, <3>1
    <3>5. \A n \in Node : head'[n] <= stored' BY <1>1, <1>2, <3>1
    <3>6. stored' <= situation.messages /\ \A b \in appends' : b.id <= situation.messages BY <1>18, <3>1
    <3> QED BY <2>2, <3>1, <3>3, <3>4, <3>5, <3>6
  <2>7. ASSUME NEW a \in appends, NotAppended(a) PROVE Fits'
    <3>1. PICK k \in 0..stored : head' = IF a.fresh THEN [head EXCEPT ![a.node] = AtLeast(@, k)] ELSE head
      BY <2>7 DEF NotAppended
    <3>2. appends' = appends \ {a} /\ UNCHANGED <<stored, fanouts>> BY <2>7 DEF NotAppended
    <3>3. \A n \in Node : head'[n] = head[n] \/ head'[n] = AtLeast(head[n], k) BY <3>1 DEF TypeOK
    <3>4. \A n \in Node : head'[n] <= stored BY <1>1, <1>2, <3>3 DEF AtLeast
    <3> QED BY <1>1, <1>3, <1>18, <2>2, <3>2, <3>4
  <2> QED BY <2>4, <2>5, <2>6, <2>7 DEF Appending, Publish, StoreAnswers
<1>13. ASSUME NEW n \in Node, Subscribe(n) PROVE Fits'
  <2>1. /\ UNCHANGED <<stored, appends, fanouts, last_forwarded>> /\ SendToGw(n, NodeSays("subscribed", Loaded(n)))
        /\ head' = [head EXCEPT ![n] = Loaded(n)]
    BY <1>13 DEF Subscribe, Takes, subVars
  <2>2. Loaded(n) \in 0..stored /\ Loaded(n) \in Heads BY LoadedHead
  <2>3. /\ NodeSays("subscribed", Loaded(n)) \in NodeFrame /\ NodeSays("subscribed", Loaded(n)).type = "subscribed"
        /\ NodeSays("subscribed", Loaded(n)).id = Loaded(n)
    BY <2>2 DEF NodeSays, NodeFrame
  <2>4. \A m \in Node : Frames(toGw'[m]) \subseteq Frames(toGw[m]) \cup {NodeSays("subscribed", Loaded(n))} BY <2>1, <2>3, SentFrames
  <2>5. \A m \in Node : head'[m] <= stored BY <1>1, <1>2, <2>1, <2>2 DEF TypeOK
  <2>6. \A m \in Node : \A g \in Frames(toGw'[m]) : g \in Frames(toGw[m]) \/ (g.type = "subscribed" /\ g.id \in 0..stored)
    BY <2>2, <2>3, <2>4
  <2> QED BY <1>1, <1>3, <1>18, <2>1, <2>5, <2>6, FitsKept
<1>14. ASSUME NEW n \in Node, RejectSubscribe(n) PROVE Fits'
  <2>1. UNCHANGED <<stored, appends, fanouts, last_forwarded, head>> /\ SendToGw(n, NodeSays("rejected", None))
    BY <1>14 DEF RejectSubscribe, Takes, subVars
  <2>2. NodeSays("rejected", None) \in NodeFrame /\ NodeSays("rejected", None).type = "rejected"
    BY DEF NodeSays, NodeFrame, Heads
  <2>3. \A m \in Node : Frames(toGw'[m]) \subseteq Frames(toGw[m]) \cup {NodeSays("rejected", None)} BY <2>1, <2>2, SentFrames
  <2>4. \A m \in Node : \A g \in Frames(toGw'[m]) : g \in Frames(toGw[m]) \/ g.type = "rejected" BY <2>2, <2>3
  <2> QED BY <1>1, <1>2, <1>3, <1>18, <2>1, <2>4, FitsKept
<1>15. ASSUME NEW n \in Node, ReceiveDeliver(n) \/ ReceiveSubscribed(n) \/ ReceiveRejected(n) \/ ReceiveMoved(n) PROVE Fits'
  <2>1. PICK t : Receives(n, t) /\ UNCHANGED <<stored, appends, fanouts, head>>
    BY <1>15 DEF ReceiveDeliver, ReceiveSubscribed, ReceiveRejected, ReceiveMoved, Receives, chatVars
  <2>2. toGw[n] # <<>> /\ \A m \in Node : toGw'[m] = IF m = n THEN Tail(toGw[m]) ELSE toGw[m] BY <2>1, TakenByGateway DEF TypeOK
  <2>3. \A m \in Node : Frames(toGw'[m]) \subseteq Frames(toGw[m]) BY <2>2, TakenFrames
  <2>4. last_forwarded' <= stored
    <3>1. CASE ReceiveDeliver(n)
      <4>1. last_forwarded' \in {last_forwarded, Head(toGw[n]).id} /\ Receives(n, "deliver") BY <3>1 DEF ReceiveDeliver, OnDeliver
      <4>2. Head(toGw[n]).type = "deliver" /\ Head(toGw[n]) \in Frames(toGw[n])
        BY <2>2, <4>1, NodeTypes, Queues DEF QueueOf, Receives
      <4>3. Head(toGw[n]).id \in 1..stored BY <1>15, <4>2, FrameNumbers
      <4> QED BY <1>1, <4>1, <4>3
    <3>2. CASE ~ ReceiveDeliver(n)
      <4>1. last_forwarded' = last_forwarded BY <1>15, <3>2 DEF ReceiveSubscribed, ReceiveRejected, ReceiveMoved
      <4> QED BY <1>1, <4>1
    <3> QED BY <3>1, <3>2
  <2> QED BY <1>5, <2>1, <2>3, <2>4
<1>16. ASSUME NEW n \in Node, LinkDown(n) \/ Crash(n) PROVE Fits'
  <2>1. UNCHANGED <<stored, last_forwarded>> /\ toGw' = [toGw EXCEPT ![n] = <<>>] BY <1>16, LostAnswer
  <2>2. head' \in {head, [head EXCEPT ![n] = None]} /\ fanouts' \subseteq fanouts BY <1>16 DEF LinkDown, Crash
  <2>5. \A m \in Node : head'[m] = head[m] \/ head'[m] = None BY <2>2 DEF TypeOK
  <2>3. \A m \in Node : head'[m] <= stored BY <1>1, <1>2, <2>5
  <2>4. \A m \in Node : Frames(toGw'[m]) \subseteq Frames(toGw[m]) BY <2>1, NoFrames DEF TypeOK
  <2>6. \A a \in appends' : a.id <= situation.messages
    <3>1. CASE LinkDown(n) BY <1>18, <3>1 DEF LinkDown
    <3>2. CASE Crash(n)
      <4>1. appends \subseteq Call
            /\ appends' = {IF a.node = n THEN [a EXCEPT !.node = NoNode, !.fresh = FALSE] ELSE a : a \in appends}
        BY <1>18, <3>2 DEF Crash
      <4>2. \A g \in appends' : \E a \in appends : g.id = a.id BY <4>1, OrphanedCalls
      <4> QED BY <1>18, <4>2
    <3> QED BY <1>16, <3>1, <3>2
  <2> QED BY <1>1, <1>3, <2>1, <2>2, <2>3, <2>4, <2>6, FitsKept
<1>17. ASSUME NEW c \in Conn, Disconnect(c) PROVE Fits'
  <2>1. UNCHANGED <<stored, appends, fanouts, head, toGw>> /\ last_forwarded' \in {last_forwarded, None}
    BY <1>17 DEF Disconnect, Leave, Unref, chatVars, linkVars
  <2> QED BY <1>1, <1>5, <2>1
<1> QED
  <2> DEFINE P == Fits'
  <2> HIDE DEF P
  <2> QED BY <1>4, <1>6, <1>7, <1>8, <1>9, <1>10, <1>11, <1>13, <1>14, <1>15, <1>16, <1>17, NumbersKept, Cases DEF P

-----------------------------------------------------------------------------
(* One request at most                                                     *)

\* What leaves the queues alone.
LEMMA QueuesKept ==
  /\ KeyDeleted \/ MapLearns => UNCHANGED <<toNode, toGw, rec, up, subs>>
  /\ \A n \in Node : Claim(n) \/ ClaimAnswered(n) \/ LeaseGranted(n) => UNCHANGED <<toNode, toGw, rec, up, subs>>
  /\ Appending => UNCHANGED <<toNode, toGw, rec, up, subs>>
  /\ \A c \in Conn : Connect(c) \/ Disconnect(c) \/ NothingMissing(c) \/ CatchupRead(c) \/ CatchupSend(c)
       => UNCHANGED <<toNode, toGw, rec, up, subs>>
  /\ \A c \in Conn : ClientReceives(c) \/ Ack(c) => UNCHANGED <<toNode, toGw, rec, up, subs>>
  /\ \A c \in Conn, after \in 0..MaxMessages : FetchAnswered(c, after) \/ FetchFails(c, after)
       => UNCHANGED <<toNode, toGw, rec, up, subs>>
<1> USE DEF chatVars, linkVars, subVars
<1>1. KeyDeleted \/ MapLearns => UNCHANGED <<toNode, toGw, rec, up, subs>> BY DEF KeyDeleted, MapLearns
<1>2. \A n \in Node : Claim(n) \/ ClaimAnswered(n) \/ LeaseGranted(n) => UNCHANGED <<toNode, toGw, rec, up, subs>>
  BY DEF Claim, ClaimAnswered, LeaseGranted
<1>3. Appending => UNCHANGED <<toNode, toGw, rec, up, subs>> BY AppendingKeeps
<1>4. \A c \in Conn : Connect(c) \/ Disconnect(c) \/ NothingMissing(c) \/ CatchupRead(c) \/ CatchupSend(c)
       => UNCHANGED <<toNode, toGw, rec, up, subs>>
  BY DEF Connect, Disconnect, NothingMissing, CatchupRead, CatchupSend
<1>5. \A c \in Conn : ClientReceives(c) \/ Ack(c) => UNCHANGED <<toNode, toGw, rec, up, subs>> BY DEF ClientReceives, Ack
<1>6. \A c \in Conn, after \in 0..MaxMessages : FetchAnswered(c, after) \/ FetchFails(c, after)
       => UNCHANGED <<toNode, toGw, rec, up, subs>>
  BY DEF FetchAnswered, FetchFails
<1> QED BY <1>1, <1>2, <1>3, <1>4, <1>5, <1>6

\* While reconcile() does not wait, nobody is asked and nobody answers.
LEMMA NobodyAsked ==
  ASSUME QueuesFit, NEW n \in Node, ~ Waits(n)
  PROVE  "subscribe" \notin Frames(toNode[n]) /\ Frames(toGw[n]) \cap Answers = {}
BY DEF QueuesFit, QueueFits

\* The gateway is sent a frame that is no answer.
LEMMA QueuesAfterNews ==
  ASSUME TypeOK, QueuesFit, NEW n \in Node, NEW f \in NodeFrame, f \notin Answers, SendToGw(n, f) \/ UNCHANGED toGw,
         UNCHANGED <<rec, up>>, UNCHANGED toNode, subs' \subseteq subs
  PROVE  QueuesFit'
<1> SUFFICES ASSUME NEW m \in Node PROVE QueueFits(m)' BY DEF QueuesFit
<1>1. QueueFits(m) BY DEF QueuesFit
<1>2. toGw'[m] = toGw[m] \/ (n \in up /\ m = n /\ toGw'[m] = Append(toGw[m], f)) BY SentToGw DEF TypeOK
<1>3. CASE toGw'[m] = toGw[m] BY <1>1, <1>3 DEF QueueFits, Waits
<1>4. CASE n \in up /\ m = n /\ toGw'[m] = Append(toGw[m], f)
  <2>1. Frames(toGw'[m]) = Frames(toGw[m]) \cup {f} BY <1>4, NodeTypes, Queues DEF QueueOf
  <2>2. AtMostOne(toGw'[m], Answers) BY <1>1, <1>4, NodeTypes, FirstOfItsKind DEF QueueFits
  <2> QED BY <1>1, <1>4, <2>1, <2>2 DEF QueueFits, Waits
<1> QED BY <1>2, <1>3, <1>4

\* The gateway takes a frame that is no answer.
LEMMA QueuesAfterTaking ==
  ASSUME TypeOK, QueuesFit, NEW n \in Node, toGw[n] # <<>>, \A m \in Node : toGw'[m] = IF m = n THEN Tail(toGw[m]) ELSE toGw[m],
         UNCHANGED <<rec, up, toNode, subs>>
  PROVE  QueuesFit'
<1> SUFFICES ASSUME NEW m \in Node PROVE QueueFits(m)' BY DEF QueuesFit
<1>1. QueueFits(m) BY DEF QueuesFit
<1>2. CASE m # n BY <1>1, <1>2 DEF QueueFits, Waits
<1>3. CASE m = n
  <2>1. Frames(toGw'[m]) \subseteq Frames(toGw[m]) BY TakenFrames
  <2>2. AtMostOne(toGw'[m], Answers) BY <1>1, <1>3, NodeTypes, LastOfItsKind DEF QueueFits
  <2>3. n \in up BY <1>1, <1>3 DEF QueueFits
  <2> QED BY <1>1, <1>3, <2>1, <2>2, <2>3 DEF QueueFits, Waits
<1> QED BY <1>2, <1>3

\* Nobody is asked any more.
LEMMA QueuesAtRest ==
  ASSUME TypeOK, QueuesFit, up' = up, subs' = subs, toNode' = toNode,
         \A m \in Node : toGw'[m] = toGw[m] \/ (toGw[m] # <<>> /\ toGw'[m] = Tail(toGw[m])),
         \A m \in Node : Frames(toGw'[m]) \cap Answers = {} /\ "subscribe" \notin Frames(toNode[m])
  PROVE  QueuesFit'
<1> SUFFICES ASSUME NEW m \in Node PROVE QueueFits(m)' BY DEF QueuesFit
<1>1. QueueFits(m) BY DEF QueuesFit
<1>2. AtMostOne(toGw'[m], Answers) BY <1>1, NodeTypes, LastOfItsKind DEF QueueFits
<1>3. m \notin up => toGw'[m] = <<>> BY <1>1 DEF QueueFits
<1> QED BY <1>1, <1>2, <1>3 DEF QueueFits

LEMMA QueuesStep == ASSUME EverythingFits, Step PROVE QueuesFit'
<1> USE DEF EverythingFits
<1>1. UNCHANGED <<toNode, toGw, rec, up, subs>> => QueuesFit' BY DEF QueuesFit, QueueFits, Waits
<1>2. ASSUME NEW f \in fanouts, Fanout(f) PROVE QueuesFit'
  <2>1. f.node \in Node /\ f.id \in Heads BY DEF TypeOK, FanOut, Heads
  <2>2. NodeSays("deliver", f.id) \in NodeFrame /\ NodeSays("deliver", f.id) \notin Answers BY <2>1 DEF NodeSays, NodeFrame, Answers
  <2>3. (SendToGw(f.node, NodeSays("deliver", f.id)) \/ UNCHANGED toGw) /\ UNCHANGED <<rec, up, toNode, subs>>
    BY <1>2 DEF Fanout, subVars
  <2> QED BY <2>1, <2>2, <2>3, QueuesAfterNews
<1>3. ASSUME NEW n \in Node, DropShard(n) PROVE QueuesFit'
  <2>1. NodeSays("shard_moved", None) \in NodeFrame /\ NodeSays("shard_moved", None) \notin Answers BY DEF NodeSays, NodeFrame, Answers, Heads
  <2>2. SendToGw(n, NodeSays("shard_moved", None)) /\ UNCHANGED <<rec, up, toNode>> /\ subs' = subs \ {n}
    BY <1>3 DEF DropShard, Forget, subVars
  <2> QED BY <2>1, <2>2, QueuesAfterNews
<1>4. ASSUME NEW n \in Node, Subscribe(n) \/ RejectSubscribe(n) PROVE QueuesFit'
  <2>1. /\ Takes(n, "subscribe") /\ UNCHANGED <<rec, up>> /\ subs' \subseteq subs \cup {n}
        /\ SendToGw(n, NodeSays("subscribed", Loaded(n))) \/ SendToGw(n, NodeSays("rejected", None))
    BY <1>4 DEF Subscribe, RejectSubscribe, Takes, subVars
  <2>2. PICK g \in NodeFrame : SendToGw(n, g)
    <3>1. Loaded(n) \in Heads BY LoadedHead
    <3>2. NodeSays("subscribed", Loaded(n)) \in NodeFrame /\ NodeSays("rejected", None) \in NodeFrame BY <3>1 DEF NodeSays, NodeFrame, Heads
    <3> QED BY <2>1, <3>2
  <2>3. toNode[n] # <<>> /\ Head(toNode[n]) = "subscribe" /\ \A m \in Node : toNode'[m] = IF m = n THEN Tail(toNode[m]) ELSE toNode[m]
    BY <2>1, TakenByNode DEF TypeOK
  <2>4. \A m \in Node : toGw'[m] = IF m = n /\ n \in up THEN Append(toGw[m], g) ELSE toGw[m] BY <2>2, SentToGw DEF TypeOK
  <2>5. QueueFits(n) /\ "subscribe" \in Frames(toNode[n])
    BY <2>3, NodeTypes, Queues DEF QueuesFit, QueueOf
  <2>6. n \in up /\ Waits(n) /\ Frames(toGw[n]) \cap Answers = {} BY <2>3, <2>5 DEF QueueFits
  <2>7. AtMostOne(toNode'[n], {"subscribe"}) /\ "subscribe" \notin Frames(toNode'[n])
    <3>1. toNode'[n] = Tail(toNode[n]) BY <2>3
    <3>2. AtMostOne(Tail(toNode[n]), {"subscribe"}) /\ Frames(Tail(toNode[n])) \cap {"subscribe"} = {}
      <4>1. AtMostOne(toNode[n], {"subscribe"}) BY <2>5 DEF QueueFits
      <4>2. Head(toNode[n]) \in {"subscribe"} BY <2>3
      <4> QED BY <2>3, <4>1, <4>2, NodeTypes, LastOfItsKind
    <3> QED BY <3>1, <3>2
  <2>8. AtMostOne(toGw'[n], Answers) BY <2>4, <2>5, <2>6, NodeTypes, FirstOfItsKind DEF QueueFits
  <2>9. QueueFits(n)' BY <2>1, <2>6, <2>7, <2>8 DEF QueueFits, Waits
  <2>10. ASSUME NEW m \in Node, m # n PROVE QueueFits(m)'
    <3>1. QueueFits(m) BY DEF QueuesFit
    <3> QED BY <2>1, <2>3, <2>4, <2>10, <3>1 DEF QueueFits, Waits
  <2> QED BY <2>9, <2>10 DEF QueuesFit
<1>5. ASSUME NEW n \in Node, Unsubscribe(n) PROVE QueuesFit'
  <2>1. Takes(n, "unsubscribe") /\ UNCHANGED <<rec, up, toGw>> /\ subs' = subs \ {n} BY <1>5 DEF Unsubscribe, Takes, subVars
  <2>2. toNode[n] # <<>> /\ \A m \in Node : toNode'[m] = IF m = n THEN Tail(toNode[m]) ELSE toNode[m] BY <2>1, TakenByNode DEF TypeOK
  <2> SUFFICES ASSUME NEW m \in Node PROVE QueueFits(m)' BY DEF QueuesFit
  <2>3. QueueFits(m) BY DEF QueuesFit
  <2>4. CASE m = n
    <3>1. AtMostOne(toNode'[m], {"subscribe"}) BY <2>2, <2>3, <2>4, NodeTypes, LastOfItsKind DEF QueueFits
    <3>2. Frames(toNode'[m]) \subseteq Frames(toNode[m]) BY <2>2, <2>4, NodeTypes, Queues DEF QueueOf
    <3>3. m \in up BY <2>2, <2>3, <2>4 DEF QueueFits
    <3> QED BY <2>1, <2>3, <2>4, <3>1, <3>2, <3>3 DEF QueueFits, Waits
  <2>5. CASE m # n BY <2>1, <2>2, <2>3, <2>5 DEF QueueFits, Waits
  <2> QED BY <2>4, <2>5
<1>6. UnsubscribeUnwanted => QueuesFit'
  <2> SUFFICES ASSUME UnsubscribeUnwanted PROVE QueuesFit' OBVIOUS
  <2>1. UNCHANGED <<rec, up, toGw, subs>> /\ SendToNode(sub_at, "unsubscribe") /\ sub_at \in Node
    BY DEF UnsubscribeUnwanted, chatVars, TypeOK
  <2>2. \A m \in Node : toNode'[m] = IF m = sub_at /\ sub_at \in up THEN Append(toNode[m], "unsubscribe") ELSE toNode[m]
    BY <2>1, SentToNode DEF TypeOK
  <2> SUFFICES ASSUME NEW m \in Node PROVE QueueFits(m)' BY DEF QueuesFit
  <2>3. QueueFits(m) BY DEF QueuesFit
  <2>4. CASE m = sub_at /\ m \in up
    <3>1. toNode'[m] = Append(toNode[m], "unsubscribe") BY <2>2, <2>4
    <3>2. Frames(toNode'[m]) = Frames(toNode[m]) \cup {"unsubscribe"} BY <3>1, NodeTypes, Queues DEF QueueOf
    <3>3. AtMostOne(toNode'[m], {"subscribe"})
      <4>1. "unsubscribe" \notin {"subscribe"} OBVIOUS
      <4> QED BY <2>3, <3>1, <4>1, NodeTypes, FirstOfItsKind DEF QueueFits
    <3> QED BY <2>1, <2>3, <2>4, <3>2, <3>3 DEF QueueFits, Waits
  <2>5. CASE ~ (m = sub_at /\ m \in up)
    <3>1. toNode'[m] = toNode[m] BY <2>2, <2>5
    <3> QED BY <2>1, <2>3, <3>1 DEF QueueFits, Waits
  <2> QED BY <2>4, <2>5
<1>7. ASSUME NEW by \in Conn \cup {None}, SubscribeMissing(by) PROVE QueuesFit'
  <2>1. /\ UNCHANGED <<up, toGw, subs>> /\ SendToNode(map, "subscribe") /\ map \in Node /\ map \in up
        /\ rec.st = "idle" /\ rec' = [Idle EXCEPT !.st = "sent", !.by = by, !.node = map]
    BY <1>7 DEF SubscribeMissing, Missing, MayReconcile, chatVars, TypeOK
  <2>2. \A m \in Node : toNode'[m] = IF m = map THEN Append(toNode[m], "subscribe") ELSE toNode[m]
    BY <2>1, SentToNode DEF TypeOK
  <2>3. rec'.st = "sent" /\ rec'.node = map BY <2>1 DEF Idle
  <2>4. \A m \in Node : "subscribe" \notin Frames(toNode[m]) /\ Frames(toGw[m]) \cap Answers = {} BY <2>1, NobodyAsked DEF Waits
  <2> SUFFICES ASSUME NEW m \in Node PROVE QueueFits(m)' BY DEF QueuesFit
  <2>5. QueueFits(m) BY DEF QueuesFit
  <2>6. CASE m = map
    <3>1. toNode'[m] = Append(toNode[m], "subscribe") BY <2>2, <2>6
    <3>2. AtMostOne(toNode'[m], {"subscribe"}) BY <2>4, <2>5, <3>1, NodeTypes, FirstOfItsKind DEF QueueFits
    <3> QED BY <2>1, <2>3, <2>4, <2>5, <2>6, <3>2 DEF QueueFits, Waits
  <2>7. CASE m # map BY <2>1, <2>2, <2>4, <2>5, <2>7 DEF QueueFits
  <2> QED BY <2>6, <2>7
<1>8. ASSUME NEW n \in Node, ReceiveDeliver(n) \/ ReceiveMoved(n) PROVE QueuesFit'
  <2>1. PICK t : Receives(n, t) /\ UNCHANGED <<rec, up, toNode, subs>>
    BY <1>8 DEF ReceiveDeliver, ReceiveMoved, Receives, chatVars
  <2> QED BY <2>1, TakenByGateway, QueuesAfterTaking DEF TypeOK
<1>9. ASSUME NEW n \in Node, ReceiveSubscribed(n) \/ ReceiveRejected(n) PROVE QueuesFit'
  <2>1. PICK t \in {"subscribed", "rejected"} : Receives(n, t) /\ UNCHANGED <<up, toNode, subs>>
    BY <1>9 DEF ReceiveSubscribed, ReceiveRejected, Receives, chatVars
  <2>2. toGw[n] # <<>> /\ Head(toGw[n]) \in Answers /\ \A m \in Node : toGw'[m] = IF m = n THEN Tail(toGw[m]) ELSE toGw[m]
    BY <2>1, TakenByGateway DEF TypeOK, Answers
  <2>3. Head(toGw[n]) \in Frames(toGw[n]) BY <2>2, NodeTypes, Queues DEF QueueOf
  <2>4. QueueFits(n) BY DEF QueuesFit
  <2>5. Waits(n) /\ "subscribe" \notin Frames(toNode[n]) BY <2>2, <2>3, <2>4 DEF QueueFits
  <2>6. Frames(toGw'[n]) \cap Answers = {} BY <2>2, <2>4, NodeTypes, LastOfItsKind DEF QueueFits
  <2>7. ASSUME NEW m \in Node, m # n PROVE "subscribe" \notin Frames(toNode[m]) /\ Frames(toGw[m]) \cap Answers = {}
    BY <2>5, <2>7, NobodyAsked DEF Waits
  <2> QED BY <2>1, <2>2, <2>5, <2>6, <2>7, QueuesAtRest
<1>10. UseAnswer \/ RepairRead \/ RepairPush \/ RepairFails => QueuesFit'
  <2> SUFFICES ASSUME UseAnswer \/ RepairRead \/ RepairPush \/ RepairFails PROVE QueuesFit' OBVIOUS
  <2>1. UNCHANGED <<toNode, toGw, up, subs>> /\ rec.st # "sent"
    BY DEF UseAnswer, RepairRead, RepairPush, RepairFails, linkVars, chatVars
  <2>2. \A m \in Node : "subscribe" \notin Frames(toNode[m]) /\ Frames(toGw[m]) \cap Answers = {} BY <2>1, NobodyAsked DEF Waits
  <2> QED BY <2>1, <2>2, QueuesAtRest
<1>11. ASSUME NEW n \in Node, LinkDown(n) \/ Crash(n) PROVE QueuesFit'
  <2>1. /\ (Waits(n) /\ Done) \/ (~ Waits(n) /\ UNCHANGED <<rec, conn>>)
        /\ up' = up \ {n} /\ subs' = subs \ {n}
        /\ toNode' = [toNode EXCEPT ![n] = <<>>] /\ toGw' = [toGw EXCEPT ![n] = <<>>]
    BY <1>11, LostAnswer
  <2> SUFFICES ASSUME NEW m \in Node PROVE QueueFits(m)' BY DEF QueuesFit
  <2>2. QueueFits(m) BY DEF QueuesFit
  <2>3. CASE m = n
    <3>1. toNode'[m] = <<>> /\ toGw'[m] = <<>> BY <2>1, <2>3 DEF TypeOK
    <3> QED BY <2>1, <2>3, <3>1, NoFrames DEF QueueFits
  <2>4. CASE m # n
    <3>1. toNode'[m] = toNode[m] /\ toGw'[m] = toGw[m] BY <2>1, <2>4 DEF TypeOK
    <3>2. CASE Waits(n)
      <4>1. "subscribe" \notin Frames(toNode[m]) /\ Frames(toGw[m]) \cap Answers = {} BY <2>4, <3>2, NobodyAsked DEF Waits
      <4> QED BY <2>1, <2>2, <2>4, <3>1, <4>1 DEF QueueFits
    <3>3. CASE ~ Waits(n) BY <2>1, <2>2, <2>4, <3>1, <3>3 DEF QueueFits, Waits
    <3> QED BY <3>2, <3>3
  <2> QED BY <2>3, <2>4
<1>12. ASSUME NEW n \in Node, LinkUp(n) PROVE QueuesFit'
  <2>1. UNCHANGED <<toNode, toGw, rec, subs>> /\ up' = up \cup {n} BY <1>12 DEF LinkUp, chatVars, subVars
  <2> QED BY <2>1 DEF QueuesFit, QueueFits, Waits
<1> QED
  <2> DEFINE P == QueuesFit'
  <2> HIDE DEF P
  <2> QED BY <1>1, <1>2, <1>3, <1>4, <1>5, <1>6, <1>7, <1>8, <1>9, <1>10, <1>11, <1>12, QueuesKept, Cases DEF P

-----------------------------------------------------------------------------
(* The connections and their pages                                         *)

\* What leaves the connections and the pages alone.
LEMMA ConnsKept ==
  /\ KeyDeleted \/ MapLearns \/ UnsubscribeUnwanted \/ RepairRead => UNCHANGED connVars
  /\ \A by \in Conn \cup {None} : SubscribeMissing(by) => UNCHANGED connVars
  /\ \A f \in fanouts : Fanout(f) => UNCHANGED connVars
  /\ \A n \in Node : Claim(n) \/ ClaimAnswered(n) \/ LeaseGranted(n) \/ DropShard(n) => UNCHANGED connVars
  /\ Appending => UNCHANGED connVars
  /\ \A n \in Node : Subscribe(n) \/ RejectSubscribe(n) \/ Unsubscribe(n) => UNCHANGED connVars
  /\ \A n \in Node : ReceiveSubscribed(n) \/ ReceiveMoved(n) \/ LinkUp(n) => UNCHANGED connVars
<1> USE DEF connVars
<1>1. KeyDeleted \/ MapLearns \/ UnsubscribeUnwanted \/ RepairRead => UNCHANGED connVars
  BY DEF KeyDeleted, MapLearns, UnsubscribeUnwanted, RepairRead
<1>2. \A by \in Conn \cup {None} : SubscribeMissing(by) => UNCHANGED connVars BY DEF SubscribeMissing
<1>3. \A f \in fanouts : Fanout(f) => UNCHANGED connVars BY DEF Fanout
<1>4. \A n \in Node : Claim(n) \/ ClaimAnswered(n) \/ LeaseGranted(n) \/ DropShard(n) => UNCHANGED connVars
  BY DEF Claim, ClaimAnswered, LeaseGranted, DropShard
<1>5. Appending => UNCHANGED connVars BY AppendingKeeps DEF connVars
<1>6. \A n \in Node : Subscribe(n) \/ RejectSubscribe(n) \/ Unsubscribe(n) => UNCHANGED connVars
  BY DEF Subscribe, RejectSubscribe, Unsubscribe, Takes
<1>7. \A n \in Node : ReceiveSubscribed(n) \/ ReceiveMoved(n) \/ LinkUp(n) => UNCHANGED connVars
  BY DEF ReceiveSubscribed, ReceiveMoved, Receives, LinkUp
<1> QED BY <1>1, <1>2, <1>3, <1>4, <1>5, <1>6, <1>7

\* The page stays, and frames that fit it are added.
LEMMA PageKept ==
  ASSUME TypeOK, NEW c \in Conn, PageFits(c), stored' \in Nat, stored' >= stored, client'[c] = client[c], last_read'[c] = last_read[c],
         floor'[c] <= stored',
         conn'[c] = conn[c] \/ (conn[c].st = "reconcile" /\ conn'[c] = [conn[c] EXCEPT !.st = "catchup"]),
         \A f \in Frames(toClient'[c]) : f \in Frames(toClient[c]) \/ (FrameFits(client[c], f) /\ f.to <= stored'),
         conn[c].st = "off" => toClient'[c] = toClient[c]
  PROVE  PageFits(c)'
<1>1. /\ conn[c] \in Serving /\ client[c] \in Page /\ floor[c] \in Nat /\ last_read[c] \in Nat /\ client[c].lastSeen \in Nat
      /\ client[c].buffer \subseteq Nat /\ conn[c].to \in Nat /\ conn[c].after \in Nat /\ stored \in Nat
      /\ \A f \in Frames(toClient[c]) : f.to \in Nat
  <2>1. Frames(toClient[c]) \subseteq ClientFrame BY ConnTypes, Queues DEF QueueOf
  <2>2. client[c].buffer \subseteq Nat BY ConnTypes, PageFields DEF Ids
  <2>3. \A f \in ClientFrame : f.to \in Nat BY Constants DEF ClientFrame
  <2>4. client[c] \in Page /\ client[c].lastSeen \in Nat /\ conn[c] \in Serving BY ConnTypes, PageFields
  <2>5. floor[c] \in Nat /\ last_read[c] \in Nat /\ conn[c].to \in Nat /\ conn[c].after \in Nat /\ stored \in Nat BY ConnTypes, Types
  <2> QED BY <2>1, <2>2, <2>3, <2>4, <2>5
<1>2. /\ conn'[c].st \in {"reconcile", "catchup", "read"} => conn'[c].after <= client[c].lastSeen
      /\ conn'[c].st = "read" => conn'[c].after <= conn'[c].to /\ conn'[c].to <= stored'
      /\ conn'[c].st = "off" => toClient'[c] = <<>> /\ client[c].asked = {}
  <2>1. CASE conn'[c] = conn[c] BY <1>1, <2>1 DEF PageFits
  <2>2. CASE conn[c].st = "reconcile" /\ conn'[c] = [conn[c] EXCEPT !.st = "catchup"]
    <3>1. conn'[c].st = "catchup" /\ conn'[c].after = conn[c].after BY <1>1, <2>2 DEF Serving
    <3> QED BY <2>2, <3>1 DEF PageFits
  <2> QED BY <2>1, <2>2
<1>3. floor'[c] <= stored' /\ client[c].lastSeen <= stored' /\ last_read[c] <= client[c].lastSeen BY <1>1 DEF PageFits
<1>4. Tidy(client[c]) /\ \A b \in client[c].buffer : b <= stored' BY <1>1 DEF PageFits
<1>5. \A f \in Frames(toClient'[c]) : FrameFits(client[c], f) /\ f.to <= stored' BY <1>1 DEF PageFits
<1> QED BY <1>2, <1>3, <1>4, <1>5 DEF PageFits

\* reconcile() returns, and the rest stays.
LEMMA PagesAfterDone ==
  ASSUME TypeOK, PagesFit, RecFits, Done \/ UNCHANGED conn, UNCHANGED <<floor, toClient, client, last_read, stored>> PROVE PagesFit'
<1> SUFFICES ASSUME NEW c \in Conn PROVE PageFits(c)' BY DEF PagesFit
<1>1. conn'[c] = conn[c] \/ (conn[c].st = "reconcile" /\ conn'[c] = [conn[c] EXCEPT !.st = "catchup"])
  BY RecDone DEF RecFits
<1>2. PageFits(c) /\ floor[c] <= stored BY DEF PagesFit, PageFits
<1>3. stored \in Nat BY Types
<1> QED BY <1>1, <1>2, <1>3, PageKept

\* Messages that are stored fit every page.
LEMMA PushedFits ==
  ASSUME TypeOK, NEW p \in Page, NEW from \in Nat, NEW to \in 0..stored
  PROVE  \A f \in Pushed(from, to) : FrameFits(p, f) /\ f.to <= stored
<1>1. from \in Int /\ to \in 0..MaxMessages /\ from >= -1 BY Types
<1>2. \A f \in Pushed(from, to) : f.type = "newMessage" /\ f.from = f.to /\ f.to \in from + 1..to /\ f.more = FALSE
  BY <1>1, MessagesInOrder
<1> QED BY <1>1, <1>2, Types DEF FrameFits

LEMMA PagesAfterPush ==
  ASSUME TypeOK, PagesFit, RecFits, NEW from \in Nat, NEW to \in 0..stored, NEW cs \in SUBSET chat_conns,
         Push(cs, from, to, <<>>), RaiseFloor(cs, to), Done \/ UNCHANGED conn, UNCHANGED <<client, last_read, stored>>
  PROVE  PagesFit'
<1> SUFFICES ASSUME NEW c \in Conn PROVE PageFits(c)' BY DEF PagesFit
<1>1. conn'[c] = conn[c] \/ (conn[c].st = "reconcile" /\ conn'[c] = [conn[c] EXCEPT !.st = "catchup"])
  BY RecDone DEF RecFits
<1>2. PageFits(c) /\ floor[c] <= stored /\ floor[c] \in Nat /\ stored \in Nat /\ client[c] \in Page
  <2>1. PageFits(c) /\ floor[c] <= stored BY DEF PagesFit, PageFits
  <2>2. floor[c] \in 0..MaxMessages /\ client[c] \in Page BY ConnTypes
  <2> QED BY <2>1, <2>2, Types
<1>3. floor'[c] <= stored BY <1>2 DEF RaiseFloor, AtLeast
<1>4. from \in Int /\ to \in 0..MaxMessages /\ from >= -1 /\ cs \in SUBSET Conn /\ <<>> \in Seq(ClientFrame) BY Types DEF chat_conns
<1>5. /\ c \notin cs => toClient'[c] = toClient[c]
      /\ c \in cs => Frames(toClient'[c]) = Frames(toClient[c]) \cup Pushed(from, to) \cup Frames(<<>>)
  <2>1. toClient \in [Conn -> Seq(ClientFrame)] BY DEF TypeOK
  <2> DEFINE none == <<>>
  <2>2. none \in Seq(ClientFrame) /\ Push(cs, from, to, none) BY <1>4
  <2> HIDE DEF none
  <2>3. PushGoes(cs, from, to, none) BY <1>4, <2>1, <2>2, PushedToConns
  <2> QED BY <2>3 DEF none, PushGoes
<1>6. \A f \in Frames(toClient'[c]) : f \in Frames(toClient[c]) \/ (FrameFits(client[c], f) /\ f.to <= stored)
  BY <1>2, <1>5, PushedFits, NoFrames
<1>7. conn[c].st = "off" => toClient'[c] = toClient[c] BY <1>5 DEF chat_conns
<1> QED BY <1>1, <1>2, <1>3, <1>6, <1>7, PageKept

\* A connection is closed.
LEMMA PagesAfterLeave ==
  ASSUME TypeOK, PagesFit, NEW d \in Conn, Leave(d), UNCHANGED <<floor, last_read, stored>> PROVE PagesFit'
<1> SUFFICES ASSUME NEW c \in Conn PROVE PageFits(c)' BY DEF PagesFit
<1>1. /\ PageFits(c) /\ client[c] \in Page /\ client[c].lastSeen \in Nat /\ stored \in Nat BY Types, ConnTypes, PageFields DEF PagesFit
<1>2. /\ conn \in [Conn -> Serving] /\ toClient \in [Conn -> Seq(ClientFrame)] /\ client \in [Conn -> Page] BY DEF TypeOK
<1>3. CASE c # d
  <2>1. conn'[c] = conn[c] /\ toClient'[c] = toClient[c] /\ client'[c] = client[c] BY <1>2, <1>3 DEF Leave
  <2>2. floor'[c] = floor[c] /\ last_read'[c] = last_read[c] OBVIOUS
  <2> QED BY <1>1, <2>1, <2>2 DEF PageFits
<1>4. CASE c = d
  <2>1. conn'[c] = Off /\ toClient'[c] = <<>> /\ client'[c] = [client[c] EXCEPT !.asked = {}] BY <1>2, <1>4 DEF Leave
  <2>2. conn'[c].st = "off" BY <2>1 DEF Off
  <2>3. client'[c].asked = {} /\ client'[c].lastSeen = client[c].lastSeen /\ client'[c].buffer = client[c].buffer
    BY <1>1, <2>1 DEF Page
  <2>4. Tidy(client'[c]) BY <1>1, <2>3 DEF Tidy, PageFits
  <2>5. Frames(toClient'[c]) = {} BY <2>1, NoFrames
  <2> QED BY <1>1, <2>1, <2>2, <2>3, <2>4, <2>5 DEF PageFits
<1> QED BY <1>3, <1>4

\* One connection, its page or what is on its way to it changes.
LEMMA OneConnChanges ==
  ASSUME TypeOK, PagesFit, NEW c \in Conn, UNCHANGED stored, PageFits(c)',
         \A d \in Conn \ {c} : /\ conn'[d] = conn[d] /\ floor'[d] = floor[d] /\ toClient'[d] = toClient[d] /\ client'[d] = client[d]
                               /\ last_read'[d] = last_read[d]
  PROVE  PagesFit'
<1>1. ASSUME NEW d \in Conn, d # c PROVE PageFits(d)'
  <2>1. PageFits(d) BY DEF PagesFit
  <2> QED BY <1>1, <2>1 DEF PageFits
<1> QED BY <1>1 DEF PagesFit

LEMMA PagesStep == ASSUME EverythingFits, Step PROVE PagesFit'
<1> USE DEF EverythingFits
<1>1. stored' \in Nat /\ stored' >= stored /\ stored \in Nat /\ MaxMessages \in Nat /\ stored <= MaxMessages BY StoredGrows, Types
<1>2. /\ conn \in [Conn -> Serving] /\ floor \in [Conn -> 0..MaxMessages] /\ toClient \in [Conn -> Seq(ClientFrame)]
      /\ client \in [Conn -> Page] /\ last_read \in [Conn -> 0..MaxMessages]
  BY DEF TypeOK
<1>3. ASSUME UNCHANGED connVars PROVE PagesFit'
  <2> SUFFICES ASSUME NEW c \in Conn PROVE PageFits(c)' BY DEF PagesFit
  <2>1. PageFits(c) /\ floor[c] <= stored BY DEF PagesFit, PageFits
  <2>2. UNCHANGED <<conn, floor, toClient, client, last_read>> BY <1>3 DEF connVars
  <2>3. floor'[c] <= stored' BY <1>1, <2>1, <2>2, ConnTypes
  <2> QED BY <1>1, <2>1, <2>2, <2>3, PageKept
<1>4. UseAnswer => PagesFit'
  <2> SUFFICES ASSUME UseAnswer PROVE PagesFit' OBVIOUS
  <2>1. (Done \/ UNCHANGED conn) /\ UNCHANGED <<floor, toClient, client, last_read, stored>> BY DEF UseAnswer, chatVars
  <2> QED BY <2>1, PagesAfterDone
<1>5. RepairPush => PagesFit'
  <2> SUFFICES ASSUME RepairPush PROVE PagesFit' OBVIOUS
  <2>1. /\ rec.st = "read" /\ RaiseFloor(chat_conns, rec.to) /\ Push(chat_conns, rec.from, rec.to, <<>>) /\ Done
        /\ UNCHANGED <<client, last_read, stored>>
    BY DEF RepairPush, chatVars
  <2>2. rec.from \in Nat /\ rec.to \in 0..stored BY <1>1, <2>1 DEF RecFits
  <2>3. chat_conns \in SUBSET chat_conns OBVIOUS
  <2> QED BY <2>1, <2>2, <2>3, PagesAfterPush
<1>6. RepairFails => PagesFit'
  <2> SUFFICES ASSUME RepairFails PROVE PagesFit' OBVIOUS
  <2>1. UNCHANGED <<floor, last_read, stored>> BY DEF RepairFails, chatVars
  <2>2. CASE rec.by = None
    <3>1. UNCHANGED <<conn, toClient, client>> BY <2>2 DEF RepairFails
    <3> QED BY <2>1, <3>1, PagesAfterDone
  <2>3. CASE rec.by # None
    <3>1. Leave(rec.by) /\ rec.by \in Conn BY <2>3, Types DEF RepairFails
    <3> QED BY <2>1, <3>1, PagesAfterLeave
  <2> QED BY <2>2, <2>3
<1>7. ASSUME NEW n \in Node, ReceiveDeliver(n) PROVE PagesFit'
  <2>1. Receives(n, "deliver") /\ OnDeliver(Head(toGw[n]).id) /\ UNCHANGED <<conn, client, last_read, stored>>
    BY <1>7 DEF ReceiveDeliver, Receives, chatVars
  <2>2. Head(toGw[n]).type = "deliver" /\ toGw[n] # <<>> BY <2>1 DEF Receives
  <2>3. Head(toGw[n]) \in Frames(toGw[n]) BY <2>2, NodeTypes, Queues DEF QueueOf
  <2> DEFINE id == Head(toGw[n]).id
  <2>4. id \in 1..stored BY <2>2, <2>3, FrameNumbers
  <2> HIDE DEF id
  <2>5. OnDeliver(id) BY <2>1 DEF id
  <2>6. CASE id <= last_forwarded
    <3>1. UNCHANGED <<floor, toClient>> BY <2>5, <2>6 DEF OnDeliver
    <3> QED BY <2>1, <3>1, PagesAfterDone
  <2>7. CASE ~ (id <= last_forwarded)
    <3> DEFINE cs == {c \in chat_conns : id > floor[c]}
    <3>1. RaiseFloor(cs, id) /\ Push(cs, id - 1, id, <<>>) /\ cs \in SUBSET chat_conns BY <2>5, <2>7 DEF OnDeliver
    <3>2. id - 1 \in Nat /\ id \in 0..stored BY <1>1, <2>4
    <3> HIDE DEF cs
    <3> QED BY <2>1, <3>1, <3>2, PagesAfterPush
  <2> QED BY <2>6, <2>7
<1>8. ASSUME NEW n \in Node, ReceiveRejected(n) PROVE PagesFit'
  <2>1. Done /\ UNCHANGED <<floor, toClient, client, last_read, stored>> BY <1>8 DEF ReceiveRejected, Receives, chatVars
  <2> QED BY <2>1, PagesAfterDone
<1>9. ASSUME NEW n \in Node, LinkDown(n) \/ Crash(n) PROVE PagesFit' BY <1>9, LostAnswer, PagesAfterDone
<1>10. ASSUME NEW c \in Conn, Connect(c) PROVE PagesFit'
  <2>1. /\ conn[c].st = "off" /\ conn' = [conn EXCEPT ![c] = [Off EXCEPT !.st = "reconcile", !.after = last_read[c]]]
        /\ floor' = [floor EXCEPT ![c] = 0] /\ UNCHANGED <<toClient, client, last_read, stored>>
    BY <1>10 DEF Connect, chatVars
  <2>2. conn'[c].st = "reconcile" /\ conn'[c].after = last_read[c] /\ floor'[c] = 0 BY <1>2, <2>1 DEF Off
  <2>3. PageFits(c) BY DEF PagesFit
  <2>4. PageFits(c)' BY <1>1, <2>1, <2>2, <2>3 DEF PageFits
  <2> QED BY <1>2, <2>1, <2>4, OneConnChanges
<1>11. ASSUME NEW c \in Conn, Disconnect(c) PROVE PagesFit'
  <2>1. Leave(c) /\ UNCHANGED <<floor, last_read, stored>> BY <1>11 DEF Disconnect, chatVars
  <2> QED BY <2>1, PagesAfterLeave
<1>12. ASSUME NEW c \in Conn, NothingMissing(c) PROVE PagesFit'
  <2>1. /\ conn[c].st = "reconcile" /\ (conn' = conn \/ conn' = [conn EXCEPT ![c].st = "catchup"])
        /\ UNCHANGED <<floor, toClient, client, last_read, stored>>
    BY <1>12 DEF NothingMissing, MayReconcile, Returns, chatVars
  <2>2. PageFits(c) /\ floor[c] <= stored BY DEF PagesFit, PageFits
  <2>3. conn'[c] = conn[c] \/ (conn[c].st = "reconcile" /\ conn'[c] = [conn[c] EXCEPT !.st = "catchup"]) BY <1>2, <2>1
  <2>4. PageFits(c)' BY <1>1, <2>1, <2>2, <2>3, PageKept
  <2> QED BY <1>2, <2>1, <2>4, OneConnChanges
<1>13. ASSUME NEW c \in Conn, CatchupRead(c) PROVE PagesFit'
  <2> DEFINE to == Upto(conn[c].after)
             more == HasMore(to)
  <2>1. /\ conn[c].st = "catchup" /\ conn' = [conn EXCEPT ![c].st = "read", ![c].to = to, ![c].more = more]
        /\ UNCHANGED <<floor, toClient, client, last_read, stored>>
    BY <1>13 DEF CatchupRead, chatVars
  <2>2. PageFits(c) /\ conn[c].after <= client[c].lastSeen /\ client[c].lastSeen <= stored /\ conn[c] \in Serving
    BY <2>1, ConnTypes DEF PagesFit, PageFits
  <2>3. conn[c].after \in Nat /\ client[c].lastSeen \in Nat BY ConnTypes, PageFields
  <2>4. to \in conn[c].after..stored
    <3>1. conn[c].after \in Int /\ conn[c].after <= stored BY <1>1, <2>2, <2>3
    <3> QED BY <1>1, <3>1, Types, PageOfStore
  <2> HIDE DEF to, more
  <2>5. conn'[c] = [conn[c] EXCEPT !.st = "read", !.to = to, !.more = more] BY <1>2, <2>1
  <2>6. conn'[c].st = "read" /\ conn'[c].to = to /\ conn'[c].after = conn[c].after BY <2>2, <2>5 DEF Serving
  <2>7. PageFits(c)' BY <1>1, <2>1, <2>2, <2>3, <2>4, <2>6 DEF PageFits
  <2> QED BY <1>2, <2>1, <2>7, OneConnChanges
<1>14. ASSUME NEW c \in Conn, CatchupSend(c) PROVE PagesFit'
  <2> DEFINE done == Frame("catchupDone", 0, 0, conn[c].more)
             others == <<done>>
  <2>1. /\ conn[c].st = "read" /\ conn' = [conn EXCEPT ![c].st = "on"] /\ Push({c}, conn[c].after, conn[c].to, others)
        /\ RaiseFloor({c}, conn[c].to) \/ floor' = floor
        /\ UNCHANGED <<client, last_read, stored>>
    BY <1>14 DEF CatchupSend, chatVars
  <2>2. /\ PageFits(c) /\ conn[c].after <= client[c].lastSeen /\ client[c].lastSeen <= stored /\ conn[c] \in Serving
        /\ conn[c].to <= stored /\ floor[c] <= stored
    BY <2>1, ConnTypes DEF PagesFit, PageFits
  <2>3. conn[c].after \in Nat /\ conn[c].to \in 0..stored /\ conn[c].to \in 0..MaxMessages /\ conn[c].more \in BOOLEAN /\ client[c] \in Page
        /\ floor[c] \in Nat /\ client[c].lastSeen \in Nat
    BY <1>1, <2>2, ConnTypes, PageFields
  <2>4. done \in ClientFrame /\ done.type = "catchupDone" /\ done.from = 0 /\ done.to = 0 BY <1>1, <2>3 DEF Frame, ClientFrame
  <2>5. others \in Seq(ClientFrame) /\ Frames(others) = {done}
    <3> HIDE DEF done
    <3> QED BY <2>4 DEF Frames
  <2> HIDE DEF done, others
  <2>6. PushGoes({c}, conn[c].after, conn[c].to, others)
    <3>1. {c} \in SUBSET Conn /\ conn[c].after \in Int /\ conn[c].after >= -1 BY <2>3
    <3> QED BY <1>2, <2>1, <2>3, <2>5, <3>1, PushedToConns
  <2>7. Frames(toClient'[c]) = Frames(toClient[c]) \cup Pushed(conn[c].after, conn[c].to) \cup {done} BY <2>5, <2>6 DEF PushGoes
  <2>8. \A d \in Conn \ {c} : toClient'[d] = toClient[d] BY <2>6 DEF PushGoes
  <2>9. FrameFits(client[c], done) /\ done.to <= stored BY <1>1, <2>4 DEF FrameFits
  <2>10. \A f \in Pushed(conn[c].after, conn[c].to) : FrameFits(client[c], f) /\ f.to <= stored BY <2>3, PushedFits
  <2>11. conn'[c].st = "on" /\ \A d \in Conn \ {c} : conn'[d] = conn[d] BY <1>2, <2>1, <2>2 DEF Serving
  <2>12. floor'[c] <= stored /\ \A d \in Conn \ {c} : floor'[d] = floor[d]
    <3>1. CASE floor' = floor BY <2>2, <3>1
    <3>2. CASE RaiseFloor({c}, conn[c].to)
      <4>1. floor'[c] = AtLeast(floor[c], conn[c].to) /\ \A d \in Conn \ {c} : floor'[d] = floor[d] BY <3>2 DEF RaiseFloor
      <4> QED BY <1>1, <2>2, <2>3, <4>1 DEF AtLeast
    <3> QED BY <2>1, <3>1, <3>2
  <2>13. PageFits(c)' BY <1>1, <2>1, <2>2, <2>7, <2>9, <2>10, <2>11, <2>12 DEF PageFits
  <2> QED BY <1>2, <2>1, <2>8, <2>11, <2>12, <2>13, OneConnChanges
<1>15. ASSUME NEW c \in Conn, ClientReceives(c) PROVE PagesFit'
  <2> DEFINE f == Head(toClient[c])
             p == client[c]
             q == After(p, f)
  <2>1. /\ toClient[c] # <<>> /\ client' = [client EXCEPT ![c] = q] /\ toClient' = [toClient EXCEPT ![c] = Tail(toClient[c])]
        /\ UNCHANGED <<conn, floor, last_read, stored>>
    BY <1>15 DEF ClientReceives, chatVars
  <2>2. f \in ClientFrame /\ Frames(toClient[c]) = Frames(Tail(toClient[c])) \cup {f} BY <2>1, ConnTypes, Queues DEF QueueOf
  <2>3. PageFits(c) /\ p \in Page /\ p.lastSeen \in Nat BY ConnTypes, PageFields DEF PagesFit
  <2>4. FrameFits(p, f) /\ f.to <= stored BY <2>2, <2>3 DEF PageFits
  <2> HIDE DEF f, p
  <2>5. Follows(p, f, q) BY <2>2, <2>3, <2>4, FrameFollows
  <2>6. client'[c] = q /\ toClient'[c] = Tail(toClient[c]) /\ \A d \in Conn \ {c} : client'[d] = client[d] /\ toClient'[d] = toClient[d]
    BY <1>2, <2>1
  <2> HIDE DEF q
  <2>7. q \in Page /\ q.lastSeen \in Nat /\ q.lastSeen >= p.lastSeen /\ Tidy(q) /\ Seen(q) = Seen(p) \cup FrameIds(f)
    BY <2>3, <2>5, PageFields DEF Follows, PageFits, p
  <2>8. \A k \in Seen(q) : k <= stored
    <3>1. \A k \in Seen(p) : k <= stored
      <4>1. p.lastSeen <= stored /\ \A b \in p.buffer : b <= stored BY <2>3 DEF PageFits, p
      <4> QED BY <1>1, <2>3, <4>1 DEF Seen
    <3>2. \A k \in FrameIds(f) : k <= stored
      <4>1. f.from \in Nat /\ f.to \in Nat /\ f.to <= stored BY <1>1, <2>2, <2>4 DEF ClientFrame
      <4> QED BY <1>1, <4>1 DEF FrameIds
    <3> QED BY <2>7, <3>1, <3>2
  <2>9. q.lastSeen <= stored /\ \A b \in q.buffer : b <= stored
    <3>1. q.lastSeen = 0 \/ q.lastSeen \in Seen(q) BY <2>7 DEF Seen
    <3> QED BY <1>1, <2>8, <3>1 DEF Seen
  <2>10. \A g \in Frames(toClient'[c]) : FrameFits(q, g) /\ g.to <= stored
    <3> SUFFICES ASSUME NEW g \in Frames(toClient'[c]) PROVE FrameFits(q, g) /\ g.to <= stored OBVIOUS
    <3>1. g \in Frames(toClient[c]) /\ g \in ClientFrame BY <2>2, <2>6, ConnTypes, Queues DEF QueueOf
    <3>2. FrameFits(p, g) /\ g.to <= stored BY <2>3, <3>1 DEF PageFits, p
    <3>3. g.from \in Nat BY <1>1, <3>1 DEF ClientFrame
    <3> QED BY <2>3, <2>7, <3>2, <3>3 DEF FrameFits
  <2>11. PageFits(c)'
    <3>1. /\ conn[c].st \in {"reconcile", "catchup", "read"} => conn[c].after <= p.lastSeen
          /\ conn[c].st = "read" => conn[c].after <= conn[c].to /\ conn[c].to <= stored
          /\ floor[c] <= stored /\ last_read[c] <= p.lastSeen /\ conn[c].st # "off"
      BY <2>1, <2>3 DEF PageFits, p
    <3>2. /\ conn[c].st \in {"reconcile", "catchup", "read"} => conn[c].after <= q.lastSeen
          /\ last_read[c] <= q.lastSeen
      BY <2>3, <2>7, <3>1, ConnTypes
    <3> QED BY <2>1, <2>6, <2>7, <2>9, <2>10, <3>1, <3>2 DEF PageFits
  <2> QED BY <2>1, <2>6, <2>11, OneConnChanges
<1>16. ASSUME NEW c \in Conn, Ack(c) PROVE PagesFit'
  <2>1. /\ last_read[c] < client[c].lastSeen /\ update_last_read(c, client[c].lastSeen)
        /\ UNCHANGED <<conn, floor, toClient, client, stored>>
    BY <1>16 DEF Ack, chatVars
  <2>2. last_read[c] \in Nat /\ client[c].lastSeen \in Nat BY ConnTypes, PageFields
  <2>3. last_read'[c] = client[c].lastSeen /\ \A d \in Conn \ {c} : last_read'[d] = last_read[d]
    BY <1>2, <2>1, <2>2 DEF update_last_read, AtLeast
  <2>4. PageFits(c) BY DEF PagesFit
  <2>5. PageFits(c)' BY <2>1, <2>2, <2>3, <2>4 DEF PageFits
  <2> QED BY <2>1, <2>3, <2>5, OneConnChanges
<1>17. ASSUME NEW c \in Conn, NEW after \in 0..MaxMessages, FetchAnswered(c, after) \/ FetchFails(c, after) PROVE PagesFit'
  <2> DEFINE to == Upto(after)
             g == Frame("messages", after, to, HasMore(to))
  <2>1. /\ conn[c].st = "on" /\ after \in client[c].asked /\ client' = [client EXCEPT ![c].asked = client[c].asked \ {after}]
        /\ UNCHANGED <<conn, floor, last_read, stored>>
        /\ toClient' = toClient \/ toClient' = [toClient EXCEPT ![c] = Append(toClient[c], g)]
    BY <1>17 DEF FetchAnswered, FetchFails, chatVars
  <2>2. PageFits(c) /\ client[c] \in Page /\ client[c].lastSeen \in Nat BY ConnTypes, PageFields DEF PagesFit
  <2>3. after <= client[c].lastSeen /\ client[c].lastSeen <= stored /\ after \in Nat BY <1>1, <2>1, <2>2 DEF PageFits, Tidy
  <2>4. to \in after..stored /\ HasMore(to) \in BOOLEAN
    <3>1. after \in Int /\ after <= stored BY <1>1, <2>2, <2>3
    <3> QED BY <1>1, <3>1, Types, PageOfStore
  <2> HIDE DEF to
  <2>5. g \in ClientFrame /\ g.type = "messages" /\ g.from = after /\ g.to = to BY <1>1, <2>3, <2>4 DEF Frame, ClientFrame
  <2> HIDE DEF g
  <2>6. Frames(toClient'[c]) \subseteq Frames(toClient[c]) \cup {g}
    <3>1. Frames(Append(toClient[c], g)) = Frames(toClient[c]) \cup {g} BY <2>5, ConnTypes, Queues DEF QueueOf
    <3> QED BY <1>2, <2>1, <3>1
  <2>7. client'[c] = [client[c] EXCEPT !.asked = client[c].asked \ {after}] BY <1>2, <2>1
  <2>8. /\ client'[c].lastSeen = client[c].lastSeen /\ client'[c].buffer = client[c].buffer /\ client'[c].asked \subseteq client[c].asked
    BY <2>2, <2>7 DEF Page
  <2>9. Tidy(client'[c]) BY <2>2, <2>8 DEF Tidy, PageFits
  <2>10. FrameFits(client'[c], g) /\ g.to <= stored BY <1>1, <2>3, <2>4, <2>5, <2>8 DEF FrameFits
  <2>11. \A f \in Frames(toClient[c]) : FrameFits(client'[c], f) /\ f.to <= stored BY <2>2, <2>8 DEF PageFits, FrameFits
  <2>12. \A d \in Conn \ {c} : client'[d] = client[d] /\ toClient'[d] = toClient[d] BY <1>2, <2>1
  <2>13. PageFits(c)' BY <2>1, <2>2, <2>6, <2>8, <2>9, <2>10, <2>11 DEF PageFits
  <2> QED BY <2>1, <2>12, <2>13, OneConnChanges
<1> QED
  <2> DEFINE P == PagesFit'
  <2> HIDE DEF P
  <2> QED BY <1>3, <1>4, <1>5, <1>6, <1>7, <1>8, <1>9, <1>10, <1>11, <1>12, <1>13, <1>14, <1>15, <1>16, <1>17, ConnsKept, Cases DEF P

-----------------------------------------------------------------------------
(* The types                                                               *)

ChatTypes == /\ stored \in 0..MaxMessages /\ head \in [Node -> Heads] /\ appends \subseteq Call /\ fanouts \subseteq FanOut
             /\ subs \subseteq Node
LinkTypes == /\ up \subseteq Node /\ toNode \in [Node -> Seq({"subscribe", "unsubscribe"})] /\ toGw \in [Node -> Seq(NodeFrame)]
SubTypes == /\ map \in Node \cup {NoNode} /\ watch \in Seq(Node \cup {NoNode}) /\ sub_at \in Node \cup {NoNode}
            /\ last_forwarded \in Heads /\ rec \in Reconciling
ConnectionTypes == /\ conn \in [Conn -> Serving] /\ floor \in [Conn -> 0..MaxMessages] /\ toClient \in [Conn -> Seq(ClientFrame)]
                   /\ client \in [Conn -> Page] /\ last_read \in [Conn -> 0..MaxMessages]
UsedType == used \in [moves : 0..situation.moves, faults : 0..situation.faults, connects : 0..situation.connects]

LEMMA TypeParts ==
  TypeOK <=> /\ OwnershipTypeOK /\ ChatTypes /\ LinkTypes /\ SubTypes /\ ConnectionTypes /\ UsedType /\ situation \in Situations
BY DEF TypeOK, ChatTypes, LinkTypes, SubTypes, ConnectionTypes, UsedType

LEMMA OwnershipTypeStep == ASSUME TypeOK, Step PROVE OwnershipTypeOK'
<1>1. OwnershipTypeOK BY DEF TypeOK
<1>2. UNCHANGED ownershipVars => OwnershipTypeOK' BY <1>1 DEF ownershipVars, OwnershipTypeOK
<1> DEFINE P == OwnershipTypeOK'
<1>3. KeyDeleted => P BY <1>1 DEF KeyDeleted, KeyGone, OwnershipTypeOK
<1>4. \A n \in Node : Claim(n) \/ ClaimAnswered(n) \/ LeaseGranted(n) \/ DropShard(n) => P
  BY <1>1 DEF Claim, ClaimKey, ClaimAnswered, Claimed, LeaseGranted, DropShard, Drop, OwnershipTypeOK
<1>5. \A n \in Node : Crash(n) => P BY <1>1 DEF Crash, Restart, OwnershipTypeOK
<1> HIDE DEF P
<1>6. UNCHANGED ownershipVars => P BY <1>2 DEF P
<1>7. MapLearns \/ UseAnswer \/ RepairRead \/ RepairPush \/ RepairFails \/ UnsubscribeUnwanted => P
  BY <1>6 DEF MapLearns, UseAnswer, RepairRead, RepairPush, RepairFails, UnsubscribeUnwanted
<1>8. \A by \in Conn \cup {None} : SubscribeMissing(by) => P BY <1>6 DEF SubscribeMissing
<1>9. \A f \in fanouts : Fanout(f) => P BY <1>6 DEF Fanout
<1>10. Appending => P BY <1>6, AppendingKeeps DEF ownershipVars
<1>11. \A n \in Node : Subscribe(n) \/ RejectSubscribe(n) \/ Unsubscribe(n) => P
  BY <1>6 DEF Subscribe, RejectSubscribe, Unsubscribe, Takes
<1>12. \A n \in Node : ReceiveDeliver(n) \/ ReceiveSubscribed(n) \/ ReceiveRejected(n) \/ ReceiveMoved(n) => P
  BY <1>6 DEF ReceiveDeliver, ReceiveSubscribed, ReceiveRejected, ReceiveMoved, Receives
<1>13. \A n \in Node : LinkDown(n) \/ LinkUp(n) => P BY <1>6 DEF LinkDown, LinkUp
<1>14. \A c \in Conn : Connect(c) \/ Disconnect(c) \/ NothingMissing(c) \/ CatchupRead(c) \/ CatchupSend(c) => P
  BY <1>6 DEF Connect, Disconnect, NothingMissing, CatchupRead, CatchupSend
<1>15. \A c \in Conn : ClientReceives(c) \/ Ack(c) => P BY <1>6 DEF ClientReceives, Ack
<1>16. \A c \in Conn, after \in 0..MaxMessages : FetchAnswered(c, after) \/ FetchFails(c, after) => P BY <1>6 DEF FetchAnswered, FetchFails
<1>17. P BY <1>3, <1>4, <1>5, <1>7, <1>8, <1>9, <1>10, <1>11, <1>12, <1>13, <1>14, <1>15, <1>16, Cases
<1> QED BY <1>17 DEF P

LEMMA UsedTypeStep == ASSUME TypeOK, Step, situation' = situation PROVE UsedType'
<1>1. /\ UsedType /\ situation.moves \in Nat /\ situation.faults \in Nat /\ situation.connects \in Nat
  BY Types, TypeParts
<1>2. UNCHANGED used => UsedType' BY <1>1 DEF UsedType
<1>3. Move => UsedType' BY <1>1 DEF UsedType, Move
<1>4. \A kind : Fault(kind) => UsedType' BY <1>1 DEF UsedType, Fault
<1>5. \A c \in Conn : Connect(c) => UsedType' BY <1>1 DEF UsedType, Connect
<1> DEFINE P == UsedType'
<1> HIDE DEF P
<1>6. (UNCHANGED used => P) /\ (Move => P) /\ (\A kind : Fault(kind) => P) /\ (\A c \in Conn : Connect(c) => P)
  BY <1>2, <1>3, <1>4, <1>5 DEF P
<1>7. KeyDeleted \/ MapLearns \/ UseAnswer \/ RepairRead \/ RepairPush \/ RepairFails \/ UnsubscribeUnwanted => P
  BY <1>6 DEF KeyDeleted, MapLearns, UseAnswer, RepairRead, RepairPush, RepairFails, UnsubscribeUnwanted, connVars
<1>8. \A by \in Conn \cup {None} : SubscribeMissing(by) => P BY <1>6 DEF SubscribeMissing
<1>9. \A f \in fanouts : Fanout(f) => P BY <1>6 DEF Fanout
<1>10. Appending => P BY <1>6, AppendingKeeps
<1>11. \A n \in Node : Subscribe(n) \/ RejectSubscribe(n) \/ Unsubscribe(n) => P
  BY <1>6 DEF Subscribe, RejectSubscribe, Unsubscribe, Takes
<1>12. \A n \in Node : ReceiveDeliver(n) \/ ReceiveSubscribed(n) \/ ReceiveRejected(n) \/ ReceiveMoved(n) => P
  BY <1>6 DEF ReceiveDeliver, ReceiveSubscribed, ReceiveRejected, ReceiveMoved, Receives
<1>13. \A n \in Node : LinkDown(n) \/ LinkUp(n) \/ Crash(n) => P BY <1>6 DEF LinkDown, LinkUp, Crash
<1>14. \A c \in Conn : Connect(c) \/ Disconnect(c) \/ NothingMissing(c) \/ CatchupRead(c) \/ CatchupSend(c) => P
  BY <1>6 DEF Disconnect, NothingMissing, CatchupRead, CatchupSend
<1>15. \A c \in Conn : ClientReceives(c) \/ Ack(c) => P BY <1>6 DEF ClientReceives, Ack
<1>16. \A c \in Conn, after \in 0..MaxMessages : FetchAnswered(c, after) \/ FetchFails(c, after) => P BY <1>6 DEF FetchAnswered, FetchFails
<1>17. \A n \in Node : Claim(n) \/ ClaimAnswered(n) \/ LeaseGranted(n) \/ DropShard(n) => P
  BY <1>6 DEF Claim, ClaimAnswered, LeaseGranted, DropShard
<1>18. P BY <1>7, <1>8, <1>9, <1>10, <1>11, <1>12, <1>13, <1>14, <1>15, <1>16, <1>17, Cases
<1> QED BY <1>18 DEF P

LEMMA ChatTypeStep == ASSUME EverythingFits, Step, situation' = situation PROVE ChatTypes'
<1> USE DEF EverythingFits
<1>1. stored \in Nat /\ stored \in 0..MaxMessages /\ MaxMessages \in Nat /\ situation.messages \in Nat /\ situation.messages <= MaxMessages BY Types DEF TypeOK
<1>2. head \in [Node -> Heads] /\ appends \subseteq Call /\ fanouts \subseteq FanOut /\ subs \subseteq Node BY DEF TypeOK
<1>3. stored' \in 0..MaxMessages
  <2>1. Fits' /\ stored' \in Nat BY FitsStep, StoredGrows
  <2>2. stored' <= situation.messages BY <2>1 DEF Fits
  <2> QED BY <1>1, <2>1, <2>2
<1>4. stored \in Heads /\ None \in Heads BY <1>1 DEF Heads, Ids
<1> DEFINE P == head' \in [Node -> Heads] /\ appends' \subseteq Call /\ fanouts' \subseteq FanOut /\ subs' \subseteq Node
<1>5. UNCHANGED chatVars => P BY <1>2 DEF chatVars
<1>6. ASSUME NEW f \in fanouts, Fanout(f) PROVE P
  <2>1. f.id \in Heads BY <1>1, <1>2 DEF FanOut, Heads
  <2> QED BY <1>2, <1>6, <2>1 DEF Fanout
<1>7. ASSUME NEW n \in Node, DropShard(n) PROVE P
  <2>1. /\ head' = [head EXCEPT ![n] = None] /\ appends' = Outdated(n, appends) /\ fanouts' = Outdated(n, fanouts)
        /\ subs' = subs \ {n}
    BY <1>7 DEF DropShard, Forget
  <2>2. appends' \subseteq Call /\ fanouts' \subseteq FanOut BY <1>2, <2>1, OutdatedCalls, OutdatedFanouts
  <2>3. head' \in [Node -> Heads] BY <1>2, <1>4, <2>1
  <2> QED BY <1>2, <2>1, <2>2, <2>3
<1>8. ASSUME NEW n \in Node, Publish(n) PROVE P
  <2>1. Loaded(n) \in 0..stored /\ Loaded(n) \in Heads BY LoadedHead
  <2>2. \A id, fresh : id \in Ids /\ fresh \in BOOLEAN /\ Calls(n, id, fresh) => appends' \subseteq Call BY <1>2 DEF Calls, Call
  <2>3. CASE CallAppend(n)
    <3>1. /\ Loaded(n) < situation.messages /\ Calls(n, Loaded(n) + 1, TRUE)
          /\ head' = [head EXCEPT ![n] = Loaded(n)] /\ UNCHANGED <<fanouts, subs>>
      BY <2>3 DEF CallAppend
    <3>2. Loaded(n) + 1 \in Ids BY <1>1, <2>1, <3>1 DEF Ids
    <3> QED BY <1>2, <2>1, <2>2, <3>1, <3>2
  <2>4. CASE CallForgotten(n)
    <3>1. stored < situation.messages /\ Calls(n, stored + 1, FALSE) /\ UNCHANGED <<head, fanouts, subs>> BY <2>4 DEF CallForgotten
    <3>2. stored + 1 \in Ids BY <1>1, <3>1 DEF Ids
    <3> QED BY <1>2, <2>2, <3>1, <3>2
  <2> QED BY <1>8, <2>3, <2>4 DEF Publish
<1>9. ASSUME NEW a \in appends, StoreAnswers(a) PROVE P
  <2>1. CASE AppendMessage(a) \/ AmbiguousAppend(a)
    <3>1. /\ appends' = appends \ {a} /\ UNCHANGED <<head, subs>>
          /\ fanouts' = fanouts \/ (a.node \in Node /\ fanouts' = fanouts \cup {a})
      BY <2>1 DEF AppendMessage, AmbiguousAppend, Commits
    <3>2. a.node \in Node => a \in FanOut BY <1>2 DEF Call, FanOut
    <3> QED BY <1>2, <3>1, <3>2
  <2>2. CASE NotAppended(a)
    <3>1. appends' = appends \ {a} /\ UNCHANGED <<fanouts, subs>> BY <2>2 DEF NotAppended
    <3>2. PICK k \in 0..stored : head' = IF a.fresh THEN [head EXCEPT ![a.node] = AtLeast(@, k)] ELSE head
      BY <2>2 DEF NotAppended
    <3>3. k \in Heads BY <1>1 DEF Heads, Ids
    <3>4. \A h \in Heads : AtLeast(h, k) \in Heads BY <3>3 DEF AtLeast
    <3>5. head' \in [Node -> Heads] BY <1>2, <3>2, <3>4
    <3> QED BY <1>2, <3>1, <3>5
  <2> QED BY <1>9, <2>1, <2>2 DEF StoreAnswers
<1>21. Appending => P
  <2> HIDE DEF P
  <2> QED BY <1>8, <1>9 DEF Appending
<1>10. ASSUME NEW n \in Node, Subscribe(n) PROVE P
  <2>1. Loaded(n) \in Heads BY LoadedHead
  <2> QED BY <1>2, <1>10, <2>1 DEF Subscribe, Takes
<1>11. ASSUME NEW n \in Node, RejectSubscribe(n) \/ Unsubscribe(n) PROVE P BY <1>2, <1>11 DEF RejectSubscribe, Unsubscribe, Takes
<1>12. ASSUME NEW n \in Node, LinkDown(n) \/ Crash(n) PROVE P
  <2>1. /\ head' \in {head, [head EXCEPT ![n] = None]} /\ fanouts' \subseteq fanouts /\ subs' = subs \ {n}
    BY <1>12 DEF LinkDown, Crash
  <2>3. appends' \subseteq Call
    <3>1. CASE LinkDown(n) BY <1>2, <3>1 DEF LinkDown
    <3>2. CASE Crash(n) BY <1>2, <3>2, OrphanedCalls DEF Crash
    <3> QED BY <1>12, <3>1, <3>2
  <2>2. head' \in [Node -> Heads] BY <1>2, <1>4, <2>1
  <2> QED BY <1>2, <2>1, <2>2, <2>3
<1> HIDE DEF P
<1>13. KeyDeleted \/ MapLearns \/ UseAnswer \/ RepairRead \/ RepairPush \/ RepairFails \/ UnsubscribeUnwanted => P
  BY <1>5 DEF KeyDeleted, MapLearns, UseAnswer, RepairRead, RepairPush, RepairFails, UnsubscribeUnwanted
<1>14. \A by \in Conn \cup {None} : SubscribeMissing(by) => P BY <1>5 DEF SubscribeMissing
<1>15. \A n \in Node : ReceiveDeliver(n) \/ ReceiveSubscribed(n) \/ ReceiveRejected(n) \/ ReceiveMoved(n) => P
  BY <1>5 DEF ReceiveDeliver, ReceiveSubscribed, ReceiveRejected, ReceiveMoved, Receives
<1>16. \A n \in Node : Claim(n) \/ ClaimAnswered(n) \/ LeaseGranted(n) \/ LinkUp(n) => P BY <1>5 DEF Claim, ClaimAnswered, LeaseGranted, LinkUp
<1>17. \A c \in Conn : Connect(c) \/ Disconnect(c) \/ NothingMissing(c) \/ CatchupRead(c) \/ CatchupSend(c) => P
  BY <1>5 DEF Connect, Disconnect, NothingMissing, CatchupRead, CatchupSend
<1>18. \A c \in Conn : ClientReceives(c) \/ Ack(c) => P BY <1>5 DEF ClientReceives, Ack
<1>19. \A c \in Conn, after \in 0..MaxMessages : FetchAnswered(c, after) \/ FetchFails(c, after) => P BY <1>5 DEF FetchAnswered, FetchFails
<1>20. P BY <1>6, <1>7, <1>21, <1>10, <1>11, <1>12, <1>13, <1>14, <1>15, <1>16, <1>17, <1>18, <1>19, Cases
<1> QED BY <1>3, <1>20 DEF P, ChatTypes

LEMMA LinkTypeStep == ASSUME EverythingFits, Step PROVE LinkTypes'
<1> USE DEF EverythingFits
<1> DEFINE P == LinkTypes'
           T == [Node -> Seq({"subscribe", "unsubscribe"})]
           G == [Node -> Seq(NodeFrame)]
<1>1. up \subseteq Node /\ toNode \in T /\ toGw \in G /\ <<>> \in Seq({"subscribe", "unsubscribe"}) /\ <<>> \in Seq(NodeFrame) BY DEF TypeOK
<1>2. UNCHANGED linkVars => P BY <1>1 DEF linkVars, LinkTypes
<1>3. ASSUME NEW n \in Node, NEW f \in NodeFrame, SendToGw(n, f), up' = up, toNode' \in T PROVE P BY <1>1, <1>3, SentToGw DEF LinkTypes
<1>4. NodeSays("shard_moved", None) \in NodeFrame /\ NodeSays("rejected", None) \in NodeFrame BY DEF NodeSays, NodeFrame, Heads
<1>5. ASSUME NEW f \in fanouts, Fanout(f) PROVE P
  <2>1. f.node \in Node /\ f.id \in Heads BY DEF TypeOK, FanOut, Heads
  <2>2. NodeSays("deliver", f.id) \in NodeFrame BY <2>1 DEF NodeSays, NodeFrame
  <2>3. (SendToGw(f.node, NodeSays("deliver", f.id)) \/ UNCHANGED toGw) /\ UNCHANGED <<up, toNode>> BY <1>5 DEF Fanout
  <2>4. UNCHANGED toGw => P BY <1>2, <2>3 DEF linkVars
  <2> QED BY <1>1, <1>3, <2>1, <2>2, <2>3, <2>4
<1>6. ASSUME NEW n \in Node, DropShard(n) PROVE P BY <1>1, <1>3, <1>4, <1>6 DEF DropShard
<1>7. ASSUME NEW n \in Node, Subscribe(n) \/ RejectSubscribe(n) PROVE P
  <2>1. /\ Takes(n, "subscribe") /\ up' = up
        /\ SendToGw(n, NodeSays("subscribed", Loaded(n))) \/ SendToGw(n, NodeSays("rejected", None))
    BY <1>7 DEF Subscribe, RejectSubscribe, Takes
  <2>2. Loaded(n) \in Heads BY LoadedHead
  <2>3. NodeSays("subscribed", Loaded(n)) \in NodeFrame BY <2>2 DEF NodeSays, NodeFrame
  <2>4. toNode' \in T BY <1>1, <2>1, TakenByNode
  <2> QED BY <1>3, <1>4, <2>1, <2>3, <2>4
<1>8. ASSUME NEW n \in Node, Unsubscribe(n) PROVE P
  <2>1. Takes(n, "unsubscribe") /\ UNCHANGED <<up, toGw>> BY <1>8 DEF Unsubscribe, Takes
  <2>2. toNode' \in T BY <1>1, <2>1, TakenByNode
  <2> QED BY <1>1, <2>1, <2>2 DEF LinkTypes
<1>9. UnsubscribeUnwanted => P
  <2> SUFFICES ASSUME UnsubscribeUnwanted PROVE P OBVIOUS
  <2>1. UNCHANGED <<up, toGw>> /\ SendToNode(sub_at, "unsubscribe") /\ sub_at \in Node BY DEF UnsubscribeUnwanted, TypeOK
  <2>2. toNode' \in T BY <1>1, <2>1, SentToNode
  <2> QED BY <1>1, <2>1, <2>2 DEF LinkTypes
<1>10. ASSUME NEW by \in Conn \cup {None}, SubscribeMissing(by) PROVE P
  <2>1. UNCHANGED <<up, toGw>> /\ SendToNode(map, "subscribe") /\ map \in Node BY <1>1, <1>10 DEF SubscribeMissing, Missing
  <2>2. toNode' \in T BY <1>1, <2>1, SentToNode
  <2> QED BY <1>1, <2>1, <2>2 DEF LinkTypes
<1>11. ASSUME NEW n \in Node, ReceiveDeliver(n) \/ ReceiveSubscribed(n) \/ ReceiveRejected(n) \/ ReceiveMoved(n) PROVE P
  <2>1. PICK t : Receives(n, t) BY <1>11 DEF ReceiveDeliver, ReceiveSubscribed, ReceiveRejected, ReceiveMoved
  <2>2. UNCHANGED <<up, toNode>> /\ toGw' \in G BY <1>1, <2>1, TakenByGateway DEF Receives
  <2> QED BY <1>1, <2>2 DEF LinkTypes
<1>12. ASSUME NEW n \in Node, LinkDown(n) \/ Crash(n) PROVE P
  <2>1. up' = up \ {n} /\ toNode' = [toNode EXCEPT ![n] = <<>>] /\ toGw' = [toGw EXCEPT ![n] = <<>>] BY <1>12, LostAnswer
  <2>2. toNode' \in T /\ toGw' \in G BY <1>1, <2>1
  <2> QED BY <1>1, <2>1, <2>2 DEF LinkTypes
<1>13. ASSUME NEW n \in Node, LinkUp(n) PROVE P BY <1>1, <1>13 DEF LinkUp, LinkTypes
<1> HIDE DEF P
<1>14. KeyDeleted \/ MapLearns \/ UseAnswer \/ RepairRead \/ RepairPush \/ RepairFails => P
  BY <1>2 DEF KeyDeleted, MapLearns, UseAnswer, RepairRead, RepairPush, RepairFails
<1>15. \A n \in Node : Claim(n) \/ ClaimAnswered(n) \/ LeaseGranted(n) => P BY <1>2 DEF Claim, ClaimAnswered, LeaseGranted
<1>16. Appending => P BY <1>2, AppendingKeeps DEF linkVars
<1>17. \A c \in Conn : Connect(c) \/ Disconnect(c) \/ NothingMissing(c) \/ CatchupRead(c) \/ CatchupSend(c) => P
  BY <1>2 DEF Connect, Disconnect, NothingMissing, CatchupRead, CatchupSend
<1>18. \A c \in Conn : ClientReceives(c) \/ Ack(c) => P BY <1>2 DEF ClientReceives, Ack
<1>19. \A c \in Conn, after \in 0..MaxMessages : FetchAnswered(c, after) \/ FetchFails(c, after) => P BY <1>2 DEF FetchAnswered, FetchFails
<1>20. P BY <1>5, <1>6, <1>7, <1>8, <1>9, <1>10, <1>11, <1>12, <1>13, <1>14, <1>15, <1>16, <1>17, <1>18, <1>19, Cases
<1> QED BY <1>20 DEF P

LEMMA SubTypeStep == ASSUME EverythingFits, Step PROVE SubTypes'
<1> USE DEF EverythingFits
<1> DEFINE P == SubTypes'
           W == Node \cup {NoNode}
<1>1. /\ map \in W /\ watch \in Seq(W) /\ sub_at \in W /\ last_forwarded \in Heads /\ rec \in Reconciling /\ NoNode \in W
      /\ None \in Heads /\ Idle \in Reconciling /\ MaxMessages \in Nat /\ stored \in Nat /\ stored <= MaxMessages
  BY Types DEF TypeOK, Heads, Idle, Reconciling
<1>2. \A k \in 0..stored : k \in Heads BY <1>1 DEF Heads, Ids
<1>3. UNCHANGED subVars => P BY <1>1 DEF subVars, SubTypes
<1>4. Done => rec' \in Reconciling BY <1>1 DEF Done
<1>5. \A n : Unsubscribed(n) => sub_at' \in W BY <1>1 DEF Unsubscribed
<1>6. \A c : Unref(c) => last_forwarded' \in Heads BY <1>1 DEF Unref
<1>7. ASSUME NEW n \in Node, Claim(n) PROVE P
  <2>1. watch' = Append(watch, n) /\ UNCHANGED <<map, sub_at, last_forwarded, rec>> BY <1>7 DEF Claim
  <2>2. n \in W OBVIOUS
  <2>3. watch' \in Seq(W) BY <1>1, <2>1, <2>2
  <2> QED BY <1>1, <2>1, <2>3 DEF SubTypes
<1>8. KeyDeleted => P
  <2> SUFFICES ASSUME KeyDeleted PROVE P OBVIOUS
  <2>1. watch' = Append(watch, NoNode) /\ UNCHANGED <<map, sub_at, last_forwarded, rec>> BY DEF KeyDeleted
  <2>2. watch' \in Seq(W) BY <1>1, <2>1
  <2> QED BY <1>1, <2>1, <2>2 DEF SubTypes
<1>9. MapLearns => P
  <2> SUFFICES ASSUME MapLearns PROVE P OBVIOUS
  <2>1. /\ watch # <<>> /\ map' = Head(watch) /\ watch' = Tail(watch) /\ sub_at' \in {sub_at, NoNode} /\ UNCHANGED <<last_forwarded, rec>>
    BY DEF MapLearns, OnMapChange
  <2>2. Head(watch) \in W /\ Tail(watch) \in Seq(W) BY <1>1, <2>1
  <2> QED BY <1>1, <2>1, <2>2 DEF SubTypes
<1>10. UnsubscribeUnwanted => P BY <1>1 DEF UnsubscribeUnwanted, SubTypes
<1>11. ASSUME NEW by \in Conn \cup {None}, SubscribeMissing(by) PROVE P
  <2>1. /\ rec' = [Idle EXCEPT !.st = "sent", !.by = by, !.node = map] /\ UNCHANGED <<map, watch, sub_at, last_forwarded>>
    BY <1>11 DEF SubscribeMissing
  <2>2. rec' \in Reconciling BY <1>1, <2>1 DEF Reconciling
  <2> QED BY <1>1, <2>1, <2>2 DEF SubTypes
<1>12. UseAnswer => P
  <2> SUFFICES ASSUME UseAnswer PROVE P OBVIOUS
  <2>1. UNCHANGED <<map, watch>> /\ sub_at' = rec.node /\ rec.st = "answered" BY DEF UseAnswer
  <2>2. rec.node \in W /\ rec.to \in 0..stored /\ last_forwarded \in Int BY <2>1, Types DEF RecFits
  <2>3. CASE NothingToRepair
    <3>1. last_forwarded' = AtLeast(AtLeast(last_forwarded, 0), rec.to) /\ Done BY <2>3 DEF UseAnswer
    <3>2. last_forwarded' \in {last_forwarded, 0, rec.to} BY <3>1 DEF AtLeast
    <3>3. last_forwarded' \in Heads BY <1>1, <1>2, <2>2, <3>2
    <3> QED BY <1>1, <1>4, <2>1, <2>2, <3>1, <3>3 DEF SubTypes
  <2>4. CASE ~ NothingToRepair
    <3>1. rec' = [rec EXCEPT !.st = "repair", !.from = last_forwarded] /\ last_forwarded' = last_forwarded BY <2>4 DEF UseAnswer
    <3>2. rec' \in Reconciling BY <1>1, <3>1 DEF Reconciling
    <3> QED BY <1>1, <2>1, <2>2, <3>1, <3>2 DEF SubTypes
  <2> QED BY <2>3, <2>4
<1>13. RepairRead => P
  <2> SUFFICES ASSUME RepairRead PROVE P OBVIOUS
  <2>1. /\ rec.st = "repair" /\ rec' = [rec EXCEPT !.st = "read", !.to = Upto(rec.from)]
        /\ UNCHANGED <<map, watch, sub_at, last_forwarded>>
    BY DEF RepairRead
  <2>2. rec.from \in Int /\ rec.from <= stored /\ rec.from \in Nat BY <1>1, <2>1 DEF RecFits
  <2>3. Upto(rec.from) \in rec.from..stored BY <1>1, <2>2, Types, PageOfStore
  <2>4. Upto(rec.from) \in Heads BY <1>1, <1>2, <2>2, <2>3
  <2>5. rec' \in Reconciling BY <1>1, <2>1, <2>4 DEF Reconciling
  <2> QED BY <1>1, <2>1, <2>5 DEF SubTypes
<1>14. RepairPush => P
  <2> SUFFICES ASSUME RepairPush PROVE P OBVIOUS
  <2>1. UNCHANGED <<map, watch, sub_at>> /\ last_forwarded' \in {last_forwarded, rec.to} /\ Done BY DEF RepairPush, AtLeast
  <2>2. rec.to \in Heads BY Types
  <2> QED BY <1>1, <1>4, <2>1, <2>2 DEF SubTypes
<1>15. RepairFails => P
  <2> SUFFICES ASSUME RepairFails PROVE P OBVIOUS
  <2>1. UNCHANGED <<map, watch, sub_at>> /\ rec' = Idle /\ (UNCHANGED last_forwarded \/ Unref(rec.by)) BY DEF RepairFails, Leave
  <2> QED BY <1>1, <1>6, <2>1 DEF SubTypes
<1>16. ASSUME NEW n \in Node, ReceiveDeliver(n) PROVE P
  <2>1. /\ UNCHANGED <<map, watch, sub_at, rec>> /\ last_forwarded' \in {last_forwarded, Head(toGw[n]).id} /\ Receives(n, "deliver")
    BY <1>16 DEF ReceiveDeliver, OnDeliver, Receives
  <2>2. Head(toGw[n]) \in NodeFrame BY <2>1, TakenByGateway DEF TypeOK
  <2>3. Head(toGw[n]).id \in Heads BY <2>2 DEF NodeFrame
  <2> QED BY <1>1, <2>1, <2>3 DEF SubTypes
<1>17. ASSUME NEW n \in Node, ReceiveSubscribed(n) PROVE P
  <2>1. /\ UNCHANGED <<map, watch, sub_at, last_forwarded>> /\ rec' = [rec EXCEPT !.st = "answered", !.to = Head(toGw[n]).id]
        /\ Receives(n, "subscribed")
    BY <1>17 DEF ReceiveSubscribed, Receives
  <2>2. Head(toGw[n]) \in NodeFrame BY <2>1, TakenByGateway DEF TypeOK
  <2>3. Head(toGw[n]).id \in Heads BY <2>2 DEF NodeFrame
  <2>4. rec' \in Reconciling BY <1>1, <2>1, <2>3 DEF Reconciling
  <2> QED BY <1>1, <2>1, <2>4 DEF SubTypes
<1>18. ASSUME NEW n \in Node, ReceiveRejected(n) PROVE P
  <2>1. UNCHANGED <<map, watch, sub_at, last_forwarded>> /\ Done BY <1>18 DEF ReceiveRejected, Receives
  <2> QED BY <1>1, <1>4, <2>1 DEF SubTypes
<1>19. ASSUME NEW n \in Node, ReceiveMoved(n) PROVE P
  <2>1. UNCHANGED <<map, watch, last_forwarded, rec>> /\ Unsubscribed(n) BY <1>19 DEF ReceiveMoved, Receives
  <2> QED BY <1>1, <1>5, <2>1 DEF SubTypes
<1>20. ASSUME NEW n \in Node, LinkDown(n) \/ Crash(n) PROVE P
  <2>1. UNCHANGED <<map, watch, last_forwarded>> /\ Unsubscribed(n) /\ (Done \/ UNCHANGED rec) BY <1>20, LostAnswer
  <2> QED BY <1>1, <1>4, <1>5, <2>1 DEF SubTypes
<1>21. ASSUME NEW c \in Conn, Disconnect(c) PROVE P
  <2>1. UNCHANGED <<map, watch, sub_at, rec>> /\ Unref(c) BY <1>21 DEF Disconnect, Leave
  <2> QED BY <1>1, <1>6, <2>1 DEF SubTypes
<1> HIDE DEF P
<1>22. \A f \in fanouts : Fanout(f) => P BY <1>3 DEF Fanout
<1>23. \A n \in Node : ClaimAnswered(n) \/ LeaseGranted(n) \/ DropShard(n) => P BY <1>3 DEF ClaimAnswered, LeaseGranted, DropShard
<1>24. Appending => P BY <1>3, AppendingKeeps DEF subVars
<1>25. \A n \in Node : Subscribe(n) \/ RejectSubscribe(n) \/ Unsubscribe(n) => P
  BY <1>3 DEF Subscribe, RejectSubscribe, Unsubscribe, Takes
<1>26. \A n \in Node : LinkUp(n) => P BY <1>3 DEF LinkUp
<1>27. \A c \in Conn : Connect(c) \/ NothingMissing(c) \/ CatchupRead(c) \/ CatchupSend(c) => P
  BY <1>3 DEF Connect, NothingMissing, CatchupRead, CatchupSend
<1>28. \A c \in Conn : ClientReceives(c) \/ Ack(c) => P BY <1>3 DEF ClientReceives, Ack
<1>29. \A c \in Conn, after \in 0..MaxMessages : FetchAnswered(c, after) \/ FetchFails(c, after) => P BY <1>3 DEF FetchAnswered, FetchFails
<1>30. P
  BY <1>7, <1>8, <1>9, <1>10, <1>11, <1>12, <1>13, <1>14, <1>15, <1>16, <1>17, <1>18, <1>19, <1>20, <1>21, <1>22, <1>23, <1>24, <1>25,
     <1>26, <1>27, <1>28, <1>29, Cases
<1> QED BY <1>30 DEF P

LEMMA ConnectionTypeStep == ASSUME EverythingFits, Step PROVE ConnectionTypes'
<1> USE DEF EverythingFits
<1> DEFINE P == ConnectionTypes'
           F == [Conn -> 0..MaxMessages]
<1>1. /\ conn \in [Conn -> Serving] /\ floor \in F /\ toClient \in [Conn -> Seq(ClientFrame)] /\ client \in [Conn -> Page] /\ last_read \in F
      /\ MaxMessages \in Nat /\ stored \in Nat /\ stored <= MaxMessages /\ Off \in Serving
  <2>1. MaxMessages \in Nat BY Constants
  <2>2. Off \in Serving BY <2>1 DEF Off, Serving
  <2> QED BY <2>2, Types DEF TypeOK
<1>2. UNCHANGED connVars => P BY <1>1 DEF connVars, ConnectionTypes
<1>3. Done => conn' \in [Conn -> Serving] BY RecDone
<1>4. ASSUME NEW c \in Conn, Leave(c), UNCHANGED <<floor, last_read>> PROVE P
  <2>1. client[c] \in Page /\ {} \in SUBSET (0..MaxMessages) BY <1>1
  <2>2. [client[c] EXCEPT !.asked = {}] \in Page BY <2>1 DEF Page
  <2>3. client' = [client EXCEPT ![c] = [client[c] EXCEPT !.asked = {}]] BY <1>1, <1>4 DEF Leave
  <2>4. client' \in [Conn -> Page] BY <1>1, <2>2, <2>3
  <2>5. conn' \in [Conn -> Serving] BY <1>1, <1>4 DEF Leave
  <2>6. toClient' \in [Conn -> Seq(ClientFrame)] BY <1>1, <1>4 DEF Leave
  <2> QED BY <1>1, <1>4, <2>4, <2>5, <2>6 DEF ConnectionTypes
<1>5. ASSUME NEW cs \in SUBSET Conn, NEW to \in 0..MaxMessages, RaiseFloor(cs, to) PROVE floor' \in F
  <2>1. \A c \in Conn : AtLeast(floor[c], to) \in 0..MaxMessages BY <1>1 DEF AtLeast
  <2> QED BY <1>1, <1>5, <2>1 DEF RaiseFloor
<1>6. ASSUME NEW cs \in SUBSET Conn, NEW from \in Nat, NEW to \in 0..MaxMessages, NEW others \in Seq(ClientFrame), Push(cs, from, to, others)
      PROVE toClient' \in [Conn -> Seq(ClientFrame)]
  <2>1. from \in Int /\ from >= -1 OBVIOUS
  <2>2. PushGoes(cs, from, to, others) BY <1>1, <1>6, <2>1, PushedToConns
  <2> QED BY <2>2 DEF PushGoes
<1>7. UseAnswer => P
  <2> SUFFICES ASSUME UseAnswer PROVE P OBVIOUS
  <2>1. (Done \/ UNCHANGED conn) /\ UNCHANGED <<floor, toClient, client, last_read>> BY DEF UseAnswer
  <2> QED BY <1>1, <1>3, <2>1 DEF ConnectionTypes
<1>8. RepairPush => P
  <2> SUFFICES ASSUME RepairPush PROVE P OBVIOUS
  <2>1. /\ rec.st = "read" /\ RaiseFloor(chat_conns, rec.to) /\ Push(chat_conns, rec.from, rec.to, <<>>) /\ Done
        /\ UNCHANGED <<client, last_read>>
    BY DEF RepairPush
  <2>2. rec.from \in Nat /\ rec.to \in 0..MaxMessages /\ chat_conns \in SUBSET Conn /\ <<>> \in Seq(ClientFrame)
    BY <1>1, <2>1 DEF RecFits, chat_conns
  <2>3. floor' \in F /\ toClient' \in [Conn -> Seq(ClientFrame)] BY <1>5, <1>6, <2>1, <2>2
  <2> QED BY <1>1, <1>3, <2>1, <2>3 DEF ConnectionTypes
<1>9. RepairFails => P
  <2> SUFFICES ASSUME RepairFails PROVE P OBVIOUS
  <2>1. UNCHANGED <<floor, last_read>> BY DEF RepairFails
  <2>2. CASE rec.by = None
    <3>1. UNCHANGED <<conn, toClient, client>> BY <2>2 DEF RepairFails
    <3> QED BY <1>1, <2>1, <3>1 DEF ConnectionTypes
  <2>3. CASE rec.by # None
    <3>1. Leave(rec.by) /\ rec.by \in Conn BY <2>3, Types DEF RepairFails
    <3> QED BY <1>4, <2>1, <3>1
  <2> QED BY <2>2, <2>3
<1>10. ASSUME NEW n \in Node, ReceiveDeliver(n) PROVE P
  <2>1. Receives(n, "deliver") /\ OnDeliver(Head(toGw[n]).id) /\ UNCHANGED <<conn, client, last_read>>
    BY <1>10 DEF ReceiveDeliver, Receives
  <2>2. Head(toGw[n]).type = "deliver" /\ toGw[n] # <<>> BY <2>1 DEF Receives
  <2>3. Head(toGw[n]) \in Frames(toGw[n]) BY <2>2, NodeTypes, Queues DEF QueueOf
  <2> DEFINE id == Head(toGw[n]).id
             cs == {c \in chat_conns : id > floor[c]}
  <2>4. id \in 1..stored BY <2>2, <2>3, FrameNumbers
  <2>5. UNCHANGED <<floor, toClient>> \/ (RaiseFloor(cs, id) /\ Push(cs, id - 1, id, <<>>)) BY <2>1 DEF OnDeliver
  <2>6. cs \in SUBSET Conn BY DEF chat_conns
  <2> HIDE DEF id, cs
  <2>7. id \in 0..MaxMessages /\ id - 1 \in Nat /\ <<>> \in Seq(ClientFrame) BY <1>1, <2>4
  <2>8. floor' \in F /\ toClient' \in [Conn -> Seq(ClientFrame)] BY <1>1, <1>5, <1>6, <2>5, <2>6, <2>7
  <2> QED BY <1>1, <2>1, <2>8 DEF ConnectionTypes
<1>11. ASSUME NEW n \in Node, ReceiveRejected(n) PROVE P
  <2>1. Done /\ UNCHANGED <<floor, toClient, client, last_read>> BY <1>11 DEF ReceiveRejected, Receives
  <2> QED BY <1>1, <1>3, <2>1 DEF ConnectionTypes
<1>12. ASSUME NEW n \in Node, LinkDown(n) \/ Crash(n) PROVE P
  <2>1. (Done \/ UNCHANGED conn) /\ UNCHANGED <<floor, toClient, client, last_read>> BY <1>12, LostAnswer
  <2> QED BY <1>1, <1>3, <2>1 DEF ConnectionTypes
<1>13. ASSUME NEW c \in Conn, Connect(c) PROVE P
  <2>1. /\ conn' = [conn EXCEPT ![c] = [Off EXCEPT !.st = "reconcile", !.after = last_read[c]]]
        /\ floor' = [floor EXCEPT ![c] = 0] /\ UNCHANGED <<toClient, client, last_read>>
    BY <1>13 DEF Connect
  <2>2. last_read[c] \in 0..MaxMessages BY <1>1
  <2>3. [Off EXCEPT !.st = "reconcile", !.after = last_read[c]] \in Serving BY <1>1, <2>2 DEF Serving
  <2>4. conn' \in [Conn -> Serving] /\ floor' \in F BY <1>1, <2>1, <2>3
  <2> QED BY <1>1, <2>1, <2>4 DEF ConnectionTypes
<1>14. ASSUME NEW c \in Conn, Disconnect(c) PROVE P BY <1>4, <1>14 DEF Disconnect
<1>15. ASSUME NEW c \in Conn, NothingMissing(c) PROVE P
  <2>1. (conn' = conn \/ conn' = [conn EXCEPT ![c].st = "catchup"]) /\ UNCHANGED <<floor, toClient, client, last_read>>
    BY <1>15 DEF NothingMissing, Returns
  <2>2. [conn EXCEPT ![c].st = "catchup"] \in [Conn -> Serving] BY <1>1 DEF Serving
  <2>3. conn' \in [Conn -> Serving] BY <1>1, <2>1, <2>2
  <2> QED BY <1>1, <2>1, <2>3 DEF ConnectionTypes
<1>16. ASSUME NEW c \in Conn, CatchupRead(c) PROVE P
  <2> DEFINE to == Upto(conn[c].after)
             more == HasMore(to)
  <2>1. /\ conn[c].st = "catchup" /\ conn' = [conn EXCEPT ![c].st = "read", ![c].to = to, ![c].more = more]
        /\ UNCHANGED <<floor, toClient, client, last_read>>
    BY <1>16 DEF CatchupRead
  <2>2. conn[c].after <= stored /\ conn[c].after \in Int
    <3>1. PageFits(c) BY DEF PagesFit
    <3>2. conn[c].after \in Nat /\ client[c].lastSeen \in Nat BY ConnTypes, PageFields
    <3> QED BY <1>1, <2>1, <3>1, <3>2 DEF PageFits
  <2>3. to \in conn[c].after..stored /\ more \in BOOLEAN BY <1>1, <2>2, Types, PageOfStore
  <2> HIDE DEF to, more
  <2>4. to \in 0..MaxMessages BY <1>1, <2>3, ConnTypes
  <2>5. conn[c] \in Serving /\ [conn[c] EXCEPT !.st = "read", !.to = to, !.more = more] \in Serving BY <1>1, <2>3, <2>4 DEF Serving
  <2>6. conn' = [conn EXCEPT ![c] = [conn[c] EXCEPT !.st = "read", !.to = to, !.more = more]] BY <1>1, <2>1
  <2>7. conn' \in [Conn -> Serving] BY <1>1, <2>5, <2>6
  <2> QED BY <1>1, <2>1, <2>7 DEF ConnectionTypes
<1>17. ASSUME NEW c \in Conn, CatchupSend(c) PROVE P
  <2> DEFINE others == <<Frame("catchupDone", 0, 0, conn[c].more)>>
  <2>1. /\ conn' = [conn EXCEPT ![c].st = "on"] /\ Push({c}, conn[c].after, conn[c].to, others)
        /\ RaiseFloor({c}, conn[c].to) \/ floor' = floor
        /\ UNCHANGED <<client, last_read>>
    BY <1>17 DEF CatchupSend
  <2>2. /\ conn[c].after \in Nat /\ conn[c].to \in 0..MaxMessages /\ conn[c].more \in BOOLEAN /\ {c} \in SUBSET Conn BY ConnTypes
  <2>3. Frame("catchupDone", 0, 0, conn[c].more) \in ClientFrame BY <1>1, <2>2 DEF Frame, ClientFrame
  <2>4. others \in Seq(ClientFrame) BY <2>3
  <2> HIDE DEF others
  <2>5. conn' \in [Conn -> Serving] BY <1>1, <2>1 DEF Serving
  <2>6. floor' \in F /\ toClient' \in [Conn -> Seq(ClientFrame)] BY <1>1, <1>5, <1>6, <2>1, <2>2, <2>4
  <2> QED BY <1>1, <2>1, <2>5, <2>6 DEF ConnectionTypes
<1>18. ASSUME NEW c \in Conn, ClientReceives(c) PROVE P
  <2> DEFINE f == Head(toClient[c])
             q == After(client[c], f)
  <2>1. /\ toClient[c] # <<>> /\ client' = [client EXCEPT ![c] = q] /\ toClient' = [toClient EXCEPT ![c] = Tail(toClient[c])]
        /\ UNCHANGED <<conn, floor, last_read>>
    BY <1>18 DEF ClientReceives
  <2>2. f \in ClientFrame /\ f \in Frames(toClient[c]) /\ Tail(toClient[c]) \in Seq(ClientFrame) BY <2>1, ConnTypes, Queues DEF QueueOf
  <2>3. FrameFits(client[c], f) /\ client[c] \in Page BY <1>1, <2>2 DEF PagesFit, PageFits
  <2> HIDE DEF f
  <2>4. Follows(client[c], f, q) BY <2>2, <2>3, FrameFollows
  <2> HIDE DEF q
  <2>5. q \in Page BY <2>4 DEF Follows
  <2>6. client' \in [Conn -> Page] /\ toClient' \in [Conn -> Seq(ClientFrame)] BY <1>1, <2>1, <2>2, <2>5
  <2> QED BY <1>1, <2>1, <2>6 DEF ConnectionTypes
<1>19. ASSUME NEW c \in Conn, Ack(c) PROVE P
  <2>1. update_last_read(c, client[c].lastSeen) /\ UNCHANGED <<conn, floor, toClient, client>> BY <1>19 DEF Ack
  <2>2. last_read[c] \in 0..MaxMessages /\ client[c].lastSeen \in 0..MaxMessages BY ConnTypes, PageFields
  <2>3. last_read' \in F BY <1>1, <2>1, <2>2 DEF update_last_read, AtLeast
  <2> QED BY <1>1, <2>1, <2>3 DEF ConnectionTypes
<1>20. ASSUME NEW c \in Conn, NEW after \in 0..MaxMessages, FetchAnswered(c, after) \/ FetchFails(c, after) PROVE P
  <2> DEFINE to == Upto(after)
             g == Frame("messages", after, to, HasMore(to))
  <2>1. /\ after \in client[c].asked /\ client' = [client EXCEPT ![c].asked = client[c].asked \ {after}]
        /\ UNCHANGED <<conn, floor, last_read>>
        /\ toClient' = toClient \/ toClient' = [toClient EXCEPT ![c] = Append(toClient[c], g)]
    BY <1>20 DEF FetchAnswered, FetchFails
  <2>2. client[c] \in Page /\ client[c].lastSeen \in Nat /\ client[c].asked \subseteq 0..MaxMessages BY ConnTypes, PageFields
  <2>3. after \in Int /\ after <= stored /\ after \in Nat
    <3>1. after <= client[c].lastSeen /\ client[c].lastSeen <= stored BY <2>1 DEF PagesFit, PageFits, Tidy
    <3> QED BY <1>1, <2>2, <3>1
  <2>4. to \in after..stored /\ HasMore(to) \in BOOLEAN BY <1>1, <2>3, Types, PageOfStore
  <2> HIDE DEF to
  <2>5. g \in ClientFrame BY <1>1, <2>3, <2>4 DEF Frame, ClientFrame
  <2> HIDE DEF g
  <2>6. Append(toClient[c], g) \in Seq(ClientFrame) BY <1>1, <2>5
  <2>7. toClient' \in [Conn -> Seq(ClientFrame)] BY <1>1, <2>1, <2>6
  <2>8. client[c].asked \ {after} \in SUBSET (0..MaxMessages) BY <2>2
  <2>9. [client[c] EXCEPT !.asked = client[c].asked \ {after}] \in Page BY <2>2, <2>8 DEF Page
  <2>10. client' = [client EXCEPT ![c] = [client[c] EXCEPT !.asked = client[c].asked \ {after}]] BY <1>1, <2>1
  <2>11. client' \in [Conn -> Page] BY <1>1, <2>9, <2>10
  <2> QED BY <1>1, <2>1, <2>7, <2>11 DEF ConnectionTypes
<1> HIDE DEF P
<1>21. \A c \in Conn : Disconnect(c) => P BY <1>14
<1>22. P
  BY <1>2, <1>7, <1>8, <1>9, <1>10, <1>11, <1>12, <1>13, <1>15, <1>16, <1>17, <1>18, <1>19, <1>20, <1>21, ConnsKept, Cases
<1> QED BY <1>22 DEF P

-----------------------------------------------------------------------------
LEMMA Situated == Next => Step /\ situation' = situation
BY Zenon DEF Next

LEMMA FitsNext == EverythingFits /\ [Next]_vars => EverythingFits'
<1> SUFFICES ASSUME EverythingFits, [Next]_vars PROVE EverythingFits' OBVIOUS
<1>1. CASE UNCHANGED vars
  <2>1. /\ UNCHANGED <<holder, owned, suspended, stored, head, appends, fanouts, subs, up, toNode, toGw, map, watch, sub_at, last_forwarded, rec>>
        /\ UNCHANGED <<conn, floor, toClient, client, last_read, used, situation>>
    BY <1>1 DEF vars, steps, ownershipVars, chatVars, linkVars, subVars, connVars
  <2>2. TypeOK' BY <2>1 DEF EverythingFits, TypeOK, OwnershipTypeOK
  <2>3. QueuesFit' BY <2>1 DEF EverythingFits, QueuesFit, QueueFits, Waits
  <2>4. RecFits' BY <2>1 DEF EverythingFits, RecFits
  <2>5. Fits' BY <2>1 DEF EverythingFits, Fits
  <2>6. PagesFit' BY <2>1 DEF EverythingFits, PagesFit, PageFits
  <2>7. Standing' BY <2>1 DEF EverythingFits, Standing
  <2> QED BY <2>2, <2>3, <2>4, <2>5, <2>6, <2>7 DEF EverythingFits
<1>2. CASE Step /\ situation' = situation
  <2>1. OwnershipTypeOK' /\ UsedType' /\ ChatTypes' /\ LinkTypes' /\ SubTypes' /\ ConnectionTypes'
    BY <1>2, OwnershipTypeStep, UsedTypeStep, ChatTypeStep, LinkTypeStep, SubTypeStep, ConnectionTypeStep DEF EverythingFits
  <2>2. situation' \in Situations BY <1>2, Types DEF EverythingFits
  <2>3. TypeOK' BY <2>1, <2>2 DEF TypeOK, ChatTypes, LinkTypes, SubTypes, ConnectionTypes, UsedType
  <2>4. QueuesFit' /\ RecFits' /\ Fits' /\ PagesFit' /\ Standing'
    BY <1>2, QueuesStep, RecStep, FitsStep, PagesStep, StandingStep
  <2> QED BY <2>3, <2>4 DEF EverythingFits
<1> QED BY <1>1, <1>2, Situated

\* Every variable of the gateway, the nodes and the clients keeps its type.
THEOREM TypeCorrect == Spec => []TypeOK
<1>1. Init => EverythingFits BY InitFits
<1>2. EverythingFits /\ [Next]_vars => EverythingFits' BY FitsNext
<1>3. EverythingFits => TypeOK BY DEF EverythingFits
<1> QED BY <1>1, <1>2, <1>3, PTL DEF Spec

-----------------------------------------------------------------------------
(* A gap is fetched                                                        *)

\* Who keeps a message back has asked for what is missing, or has the answer on
\* its way; the last of an answer reaches beyond what is kept back by then.
GapFetched(c) ==
  /\ client[c].buffer # {} \/ client[c].fetching => client[c].asked # {} \/ \E f \in Frames(toClient[c]) : f.type = "messages"
  /\ \A i \in 1..Len(toClient[c]) : toClient[c][i].type = "messages" /\ ~ toClient[c][i].more =>
       /\ \A b \in client[c].buffer : b <= toClient[c][i].to
       /\ \A j \in 1..i - 1 : \A k \in FrameIds(toClient[c][j]) : k <= toClient[c][i].to
GapsFetched == FetchesAnswered => \A c \in Conn : GapFetched(c)

\* While clients stay, reconcile() is not called by serve().
LEMMA NobodyWaits == ASSUME EverythingFits, situation.connects = 0 PROVE rec.by = None
<1> SUFFICES ASSUME rec.by # None PROVE FALSE OBVIOUS
<1>1. rec.by \in Conn /\ conn[rec.by].st = "reconcile" BY Types DEF RecFits, EverythingFits
<1> QED BY <1>1 DEF Standing, EverythingFits

\* Frames that are no answer to a fetch are added.
LEMMA GapKept ==
  ASSUME TypeOK, NEW c \in Conn, GapFetched(c), client'[c] = client[c], Len(toClient'[c]) \in Nat,
         Len(toClient[c]) <= Len(toClient'[c]), \A i \in 1..Len(toClient[c]) : toClient'[c][i] = toClient[c][i],
         \A i \in Len(toClient[c]) + 1..Len(toClient'[c]) : toClient'[c][i].type # "messages",
         Frames(toClient[c]) \subseteq Frames(toClient'[c])
  PROVE  GapFetched(c)'
<1>1. Len(toClient[c]) \in Nat BY ConnTypes
<1>2. ASSUME NEW i \in 1..Len(toClient'[c]), toClient'[c][i].type = "messages", ~ toClient'[c][i].more
      PROVE  /\ \A b \in client[c].buffer : b <= toClient'[c][i].to
             /\ \A j \in 1..i - 1 : \A k \in FrameIds(toClient'[c][j]) : k <= toClient'[c][i].to
  <2>1. i \in 1..Len(toClient[c]) BY <1>1, <1>2
  <2>2. toClient'[c][i] = toClient[c][i] /\ \A j \in 1..i - 1 : toClient'[c][j] = toClient[c][j] BY <1>1, <2>1
  <2> QED BY <1>2, <2>1, <2>2 DEF GapFetched
<1>3. client[c].buffer # {} \/ client[c].fetching => client[c].asked # {} \/ \E f \in Frames(toClient'[c]) : f.type = "messages"
  BY DEF GapFetched
<1> QED BY <1>2, <1>3 DEF GapFetched

LEMMA GapPushed ==
  ASSUME TypeOK, NEW c \in Conn, GapFetched(c), client'[c] = client[c], NEW cs \in SUBSET Conn, NEW from \in Nat, NEW to \in 0..MaxMessages,
         Push(cs, from, to, <<>>)
  PROVE  GapFetched(c)'
<1> DEFINE none == <<>>
<1>1. none \in Seq(ClientFrame) /\ from \in Int /\ from >= -1 /\ toClient \in [Conn -> Seq(ClientFrame)] /\ Frames(none) = {}
  BY NoFrames DEF TypeOK
<1>2. Push(cs, from, to, none) OBVIOUS
<1> HIDE DEF none
<1>3. PushGoes(cs, from, to, none) BY <1>1, <1>2, PushedToConns
<1>4. \A f \in Pushed(from, to) : f.type = "newMessage" BY <1>1, MessagesInOrder
<1>5. /\ Len(toClient[c]) <= Len(toClient'[c]) /\ \A i \in 1..Len(toClient[c]) : toClient'[c][i] = toClient[c][i]
      /\ \A i \in Len(toClient[c]) + 1..Len(toClient'[c]) : toClient'[c][i] \in Pushed(from, to)
      /\ toClient'[c] \in Seq(ClientFrame)
  BY <1>1, <1>3 DEF PushGoes
<1>6. Frames(toClient[c]) \subseteq Frames(toClient'[c]) BY <1>3 DEF PushGoes
<1> QED BY <1>4, <1>5, <1>6, GapKept

LEMMA GapsStep == ASSUME EverythingFits, GapsFetched, Step, situation' = situation PROVE GapsFetched'
<1> USE DEF EverythingFits
<1>1. SUFFICES ASSUME FetchesAnswered PROVE \A c \in Conn : GapFetched(c)' BY DEF GapsFetched, FetchesAnswered
<1>2. /\ \A c \in Conn : GapFetched(c)
      /\ "fetch" \notin situation.faulty /\ situation.connects = 0 /\ rec.by = None
  BY <1>1, NobodyWaits DEF GapsFetched, FetchesAnswered
<1>3. ~ (used.connects < situation.connects) BY <1>2, Types
<1>4. stored \in Nat /\ MaxMessages \in Nat /\ stored <= MaxMessages /\ None \notin Nat BY Types DEF None
<1>5. /\ toClient \in [Conn -> Seq(ClientFrame)] /\ client \in [Conn -> Page] BY DEF TypeOK
<1> DEFINE P == \A c \in Conn : GapFetched(c)'
<1>6. UNCHANGED <<toClient, client>> => P BY <1>2 DEF GapFetched
<1>7. UseAnswer => P BY <1>6 DEF UseAnswer
<1>8. RepairPush => P
  <2> SUFFICES ASSUME RepairPush PROVE P OBVIOUS
  <2>1. rec.st = "read" /\ Push(chat_conns, rec.from, rec.to, <<>>) /\ client' = client BY DEF RepairPush
  <2>2. rec.from \in Nat /\ rec.to \in 0..MaxMessages /\ chat_conns \in SUBSET Conn BY <1>4, <2>1 DEF RecFits, chat_conns
  <2> QED BY <1>2, <2>1, <2>2, GapPushed
<1>9. RepairFails => P BY <1>2, <1>6 DEF RepairFails
<1>10. ASSUME NEW n \in Node, ReceiveDeliver(n) PROVE P
  <2>1. Receives(n, "deliver") /\ OnDeliver(Head(toGw[n]).id) /\ client' = client BY <1>10 DEF ReceiveDeliver, Receives
  <2>2. Head(toGw[n]).type = "deliver" /\ toGw[n] # <<>> BY <2>1 DEF Receives
  <2>3. Head(toGw[n]) \in Frames(toGw[n]) BY <2>2, NodeTypes, Queues DEF QueueOf
  <2> DEFINE id == Head(toGw[n]).id
             cs == {c \in chat_conns : id > floor[c]}
  <2>4. id \in 1..stored BY <2>2, <2>3, FrameNumbers
  <2>5. UNCHANGED toClient \/ Push(cs, id - 1, id, <<>>) BY <2>1 DEF OnDeliver
  <2>6. cs \in SUBSET Conn BY DEF chat_conns
  <2> HIDE DEF id, cs
  <2>7. id \in 0..MaxMessages /\ id - 1 \in Nat BY <1>4, <2>4
  <2>8. Push(cs, id - 1, id, <<>>) => P BY <1>2, <2>1, <2>6, <2>7, GapPushed
  <2> QED BY <1>6, <2>1, <2>5, <2>8
<1>11. ASSUME NEW n \in Node, ReceiveRejected(n) PROVE P BY <1>6, <1>11 DEF ReceiveRejected, Receives
<1>12. ASSUME NEW n \in Node, LinkDown(n) \/ Crash(n) PROVE P BY <1>6, <1>12, LostAnswer
<1>13. ASSUME NEW c \in Conn, Connect(c) \/ Disconnect(c) PROVE FALSE BY <1>3, <1>13 DEF Connect, Disconnect
<1>14. ASSUME NEW c \in Conn, NothingMissing(c) \/ CatchupRead(c) PROVE P BY <1>6, <1>14 DEF NothingMissing, CatchupRead
<1>15. ASSUME NEW c \in Conn, CatchupSend(c) PROVE FALSE
  <2>1. conn[c].st = "read" BY <1>15 DEF CatchupSend
  <2>2. conn[c].st \in {"on", "off"} BY <1>2 DEF Standing
  <2> QED BY <2>1, <2>2
<1>16. ASSUME NEW c \in Conn, Ack(c) PROVE P BY <1>6, <1>16 DEF Ack
<1>17. ASSUME NEW c \in Conn, NEW after \in 0..MaxMessages, FetchFails(c, after) PROVE FALSE BY <1>2, <1>17 DEF FetchFails, Fault
<1>18. ASSUME NEW c \in Conn, NEW after \in 0..MaxMessages, FetchAnswered(c, after) PROVE P
  <2> DEFINE to == Upto(after)
             g == Frame("messages", after, to, HasMore(to))
  <2>1. /\ after \in client[c].asked /\ client' = [client EXCEPT ![c].asked = client[c].asked \ {after}]
        /\ toClient' = [toClient EXCEPT ![c] = Append(toClient[c], g)]
    BY <1>18 DEF FetchAnswered
  <2>2. PageFits(c) /\ client[c] \in Page /\ client[c].lastSeen \in Nat BY ConnTypes, PageFields DEF PagesFit
  <2>3. after \in Int /\ after <= stored /\ after \in Nat
    <3>1. after <= client[c].lastSeen /\ client[c].lastSeen <= stored BY <2>1, <2>2 DEF PageFits, Tidy
    <3> QED BY <1>4, <2>2, <3>1
  <2>4. to \in after..stored /\ HasMore(to) \in BOOLEAN /\ (~ HasMore(to) => to = stored) BY <1>4, <2>3, Types, PageOfStore
  <2> HIDE DEF to
  <2>5. g \in ClientFrame /\ g.type = "messages" /\ g.to = to /\ g.more = HasMore(to) BY <1>4, <2>3, <2>4 DEF Frame, ClientFrame
  <2> HIDE DEF g
  <2> DEFINE s == toClient[c]
             t == toClient'[c]
  <2>6. /\ s \in Seq(ClientFrame) /\ Len(s) \in Nat /\ Len(t) = Len(s) + 1 /\ Frames(t) = Frames(s) \cup {g} /\ t[Len(s) + 1] = g
        /\ \A i \in 1..Len(s) : t[i] = s[i] /\ s[i] \in Frames(s) /\ s[i] \in ClientFrame
    <3>1. t = Append(s, g) /\ s \in Seq(ClientFrame) BY <1>5, <2>1
    <3> HIDE DEF s, t
    <3> QED BY <2>5, <3>1, Queues DEF QueueOf
  <2>7. client'[c].buffer = client[c].buffer
    <3>1. client'[c] = [client[c] EXCEPT !.asked = client[c].asked \ {after}] BY <1>5, <2>1
    <3> QED BY <2>2, <3>1 DEF Page
  <2>8. \A d \in Conn \ {c} : client'[d] = client[d] /\ toClient'[d] = toClient[d] BY <1>5, <2>1
  <2>9. \A d \in Conn \ {c} : GapFetched(d)' BY <1>2, <2>8 DEF GapFetched
  <2>10. \A b \in client[c].buffer : b <= stored BY <2>2 DEF PageFits
  <2>11. \A i \in 1..Len(s) : \A k \in FrameIds(s[i]) : k <= stored
    <3> SUFFICES ASSUME NEW i \in 1..Len(s), NEW k \in FrameIds(s[i]) PROVE k <= stored OBVIOUS
    <3>1. s[i] \in Frames(s) /\ s[i] \in ClientFrame BY <2>6
    <3>2. s[i].to <= stored BY <2>2, <3>1 DEF PageFits
    <3>3. s[i].to \in Nat /\ s[i].from \in Nat BY <1>4, <3>1 DEF ClientFrame
    <3> QED BY <1>4, <3>2, <3>3 DEF FrameIds
  <2>12. GapFetched(c)'
    <3>1. \E f \in Frames(t) : f.type = "messages" BY <2>5, <2>6
    <3>2. ASSUME NEW i \in 1..Len(t), t[i].type = "messages", ~ t[i].more
          PROVE /\ \A b \in client[c].buffer : b <= t[i].to
                /\ \A j \in 1..i - 1 : \A k \in FrameIds(t[j]) : k <= t[i].to
      <4>1. CASE i \in 1..Len(s)
        <5>1. t[i] = s[i] /\ \A j \in 1..i - 1 : t[j] = s[j] BY <2>6, <4>1
        <5>2. GapFetched(c) BY <1>2
        <5> QED BY <3>2, <4>1, <5>1, <5>2 DEF GapFetched
      <4>2. CASE i = Len(s) + 1
        <5>1. t[i] = g /\ t[i].to = stored BY <2>4, <2>5, <2>6, <3>2, <4>2
        <5>2. \A j \in 1..i - 1 : j \in 1..Len(s) /\ t[j] = s[j] BY <2>6, <4>2
        <5> QED BY <2>10, <2>11, <5>1, <5>2
      <4> QED BY <2>6, <3>2, <4>1, <4>2
    <3> QED BY <2>7, <3>1, <3>2 DEF GapFetched
  <2> QED BY <2>9, <2>12
<1>19. ASSUME NEW c \in Conn, ClientReceives(c) PROVE P
  <2> DEFINE s == toClient[c]
             f == Head(s)
             p == client[c]
             q == After(p, f)
             t == Tail(s)
  <2>1. /\ s # <<>> /\ client' = [client EXCEPT ![c] = q] /\ toClient' = [toClient EXCEPT ![c] = t]
    BY <1>19 DEF ClientReceives
  <2>2. client'[c] = q /\ toClient'[c] = t /\ \A d \in Conn \ {c} : client'[d] = client[d] /\ toClient'[d] = toClient[d]
    BY <1>5, <2>1
  <2>3. \A d \in Conn \ {c} : GapFetched(d)' BY <1>2, <2>2 DEF GapFetched
  <2>4. GapFetched(c) /\ PageFits(c) /\ p \in Page BY <1>2, ConnTypes DEF PagesFit
  <2>5. s \in Seq(ClientFrame) BY <1>5
  <2> HIDE DEF s
  <2>6. /\ f \in ClientFrame /\ f \in Frames(s) /\ Frames(s) = Frames(t) \cup {f} /\ f = s[1] /\ Len(s) \in Nat /\ Len(s) >= 1
        /\ Len(t) = Len(s) - 1 /\ \A i \in 1..Len(s) - 1 : t[i] = s[i + 1]
    BY <2>1, <2>5, Queues DEF QueueOf
  <2>7. FrameFits(p, f) BY <2>4, <2>6 DEF PageFits, s
  <2> HIDE DEF f, p, t
  <2>8. Follows(p, f, q) BY <2>4, <2>6, <2>7, FrameFollows
  <2>9. Tidy(p) /\ (p.buffer # {} \/ p.fetching => p.asked # {} \/ \E g \in Frames(s) : g.type = "messages")
    BY <2>4 DEF PageFits, GapFetched, p, s
  <2>10. \A i \in 1..Len(s) : s[i].type = "messages" /\ ~ s[i].more =>
           /\ \A b \in p.buffer : b <= s[i].to
           /\ \A j \in 1..i - 1 : \A k \in FrameIds(s[j]) : k <= s[i].to
    BY <2>4 DEF GapFetched, p, s
  <2> HIDE DEF q
  <2>11. Tidy(q) /\ q \in Page /\ q.lastSeen \in Nat /\ q.buffer \subseteq Nat
    <3>1. Tidy(q) /\ q \in Page BY <2>8, <2>9 DEF Follows
    <3> QED BY <3>1, PageFields DEF Ids
  <2>12. q.buffer # {} \/ q.fetching => q.asked # {} \/ \E g \in Frames(t) : g.type = "messages"
    <3>1. CASE f.type = "messages"
      <4>1. (q.fetching => q.asked # {}) /\ (f.more => q.asked # {}) /\ q.lastSeen >= f.to /\ q.buffer \subseteq p.buffer
        BY <2>8, <3>1 DEF Follows
      <4>2. ~ f.more => q.buffer = {}
        <5>1. 1 \in 1..Len(s) BY <2>6
        <5>2. ~ f.more => \A b \in p.buffer : b <= f.to BY <2>6, <2>10, <3>1, <5>1
        <5>3. f.to \in Nat BY <1>4, <2>6 DEF ClientFrame
        <5>4. \A b \in q.buffer : b > q.lastSeen + 1 BY <2>11 DEF Tidy
        <5> QED BY <2>11, <4>1, <5>2, <5>3, <5>4
      <4> QED BY <4>1, <4>2
    <3>2. CASE f.type # "messages"
      <4>1. /\ q.fetching => p.fetching \/ q.asked # {}
            /\ q.buffer # {} => p.buffer # {} \/ p.fetching \/ q.asked # {}
            /\ p.asked \subseteq q.asked
        BY <2>8, <3>2 DEF Follows
      <4>2. (\E g \in Frames(s) : g.type = "messages") => \E g \in Frames(t) : g.type = "messages" BY <2>6, <3>2
      <4> QED BY <2>9, <4>1, <4>2
    <3> QED BY <3>1, <3>2
  <2>13. ASSUME NEW i \in 1..Len(t), t[i].type = "messages", ~ t[i].more
         PROVE /\ \A b \in q.buffer : b <= t[i].to
               /\ \A j \in 1..i - 1 : \A k \in FrameIds(t[j]) : k <= t[i].to
    <3>1. i + 1 \in 1..Len(s) /\ t[i] = s[i + 1] /\ 1 \in 1..i + 1 - 1 BY <2>6
    <3>2. /\ \A b \in p.buffer : b <= t[i].to
          /\ \A j \in 1..i + 1 - 1 : \A k \in FrameIds(s[j]) : k <= t[i].to
      BY <2>10, <2>13, <3>1
    <3>3. q.buffer \subseteq p.buffer \cup FrameIds(s[1]) BY <2>6, <2>8 DEF Follows
    <3>4. \A b \in q.buffer : b <= t[i].to BY <3>1, <3>2, <3>3
    <3>5. \A j \in 1..i - 1 : j + 1 \in 1..i + 1 - 1 /\ t[j] = s[j + 1] BY <2>6, <2>13
    <3> QED BY <3>2, <3>4, <3>5
  <2>14. GapFetched(c)' BY <2>2, <2>12, <2>13 DEF GapFetched
  <2> QED BY <2>3, <2>14
<1> HIDE DEF P
<1>20. UNCHANGED connVars => P BY <1>6 DEF connVars
<1>21. P
  BY <1>7, <1>8, <1>9, <1>10, <1>11, <1>12, <1>13, <1>14, <1>15, <1>16, <1>17, <1>18, <1>19, <1>20, ConnsKept, Cases
<1> QED BY <1>21 DEF P

LEMMA GapsInit == Init => GapsFetched
<1> SUFFICES ASSUME Init PROVE \A c \in Conn : GapFetched(c) BY DEF GapsFetched
<1>1. \A c \in Conn : client[c] = [lastSeen |-> 0, buffer |-> {}, fetching |-> FALSE, asked |-> {}] /\ toClient[c] = <<>> BY DEF Init
<1> QED BY <1>1 DEF GapFetched

LEMMA GapsNext == EverythingFits /\ GapsFetched /\ [Next]_vars => GapsFetched'
<1> SUFFICES ASSUME EverythingFits, GapsFetched, [Next]_vars PROVE GapsFetched' OBVIOUS
<1>1. CASE UNCHANGED vars
  <2>1. UNCHANGED <<toClient, client, situation>> BY <1>1 DEF vars, steps, connVars
  <2> QED BY <2>1 DEF GapsFetched, GapFetched, FetchesAnswered
<1>2. CASE Step /\ situation' = situation BY <1>2, GapsStep
<1> QED BY <1>1, <1>2, Situated

\* Where fetches are answered nobody keeps a message back in the end.
GapsClosed == FetchesAnswered => \A c \in Conn : Quiet(c) => client[c].buffer = {}

LEMMA FetchedGapsClose == GapsFetched => GapsClosed
<1> SUFFICES ASSUME GapsFetched, FetchesAnswered, NEW c \in Conn, Quiet(c) PROVE client[c].buffer = {} BY DEF GapsClosed
<1>1. toClient[c] = <<>> /\ client[c].asked = {} /\ GapFetched(c) BY DEF Quiet, GapsFetched
<1> QED BY <1>1, NoFrames DEF GapFetched

-----------------------------------------------------------------------------
(* One server at a time, where a node takes the shard when no other has it *)

\* The shard is loaded where it is served, and only there.
LoadedWhereServed(n) ==
  /\ can_serve(n) => holder \in {n, NoNode}
  /\ \A m \in Node : can_serve(n) /\ can_serve(m) => n = m
  /\ head[n] # None \/ n \in subs => can_serve(n)
  /\ n \in subs => head[n] # None

\* The fan-out that a server waits with is of the last message; the others are
\* of messages that a node that has the chat loaded knows.
FanoutKnown(f) ==
  /\ f.fresh => head[f.node] = f.id - 1 /\ f.id = stored
  /\ ~ f.fresh /\ head[f.node] # None => f.id <= head[f.node]

\* The head is the last message, or that message is about to be fanned out.
HeadUpToDate(n) == head[n] # None => head[n] = stored \/ \E f \in fanouts : f.node = n /\ f.fresh

\* An append of the server is its only one and follows its head.  One that goes on
\* with a forgotten ChatSeq, or without its process, ends before there is a server.
AppendKnown(a) ==
  /\ a.fresh => /\ a.node \in Node /\ can_serve(a.node) /\ head[a.node] = a.id - 1
                /\ \A f \in fanouts : ~ f.fresh
  /\ ~ a.fresh => \A n \in Node : ~ can_serve(n)

\* A node takes the shard when no other has it, and nothing of another is under way.
Alone == situation.oneServer /\ "late" \notin situation.faulty

OneServer ==
  Alone =>
    /\ \A n \in Node : LoadedWhereServed(n)
    /\ \A f \in fanouts : FanoutKnown(f)
    /\ \A a \in appends : AppendKnown(a)
    /\ "ambiguous" \notin situation.faulty => \A n \in Node : HeadUpToDate(n)

LEMMA OneServerInit == Init => OneServer
<1> SUFFICES ASSUME Init PROVE /\ \A n \in Node : LoadedWhereServed(n)
                               /\ \A f \in fanouts : FanoutKnown(f)
                               /\ \A a \in appends : AppendKnown(a)
                               /\ \A n \in Node : HeadUpToDate(n)
  BY DEF OneServer
<1>1. /\ holder = situation.server /\ owned = {holder} /\ suspended = {} /\ stored = 0 /\ appends = {} /\ fanouts = {} /\ holder \in Node
      /\ \A n \in Node : head[n] = IF situation.connected # {} /\ n = holder THEN 0 ELSE None
      /\ subs = IF situation.connected # {} THEN {holder} ELSE {}
  BY Constants DEF Init
<1>2. \A n \in Node : can_serve(n) <=> n = holder BY <1>1 DEF can_serve
<1> QED BY <1>1, <1>2 DEF LoadedWhereServed, FanoutKnown, HeadUpToDate, None

\* What leaves the shard's servers and the chat alone, but for subscriptions that end.
LEMMA ServersKept ==
  ASSUME OneServer, UNCHANGED <<holder, owned, suspended, stored, head, appends, fanouts, situation>>, subs' \subseteq subs
  PROVE  OneServer'
BY DEF OneServer, Alone, LoadedWhereServed, FanoutKnown, AppendKnown, HeadUpToDate, can_serve

\* What a node that serves does to its head.
HeadMoves(n, h) ==
  /\ UNCHANGED <<holder, owned, suspended, situation>> /\ can_serve(n)
  /\ head' = [head EXCEPT ![n] = h]

LEMMA ServedAlone ==
  ASSUME Alone, OneServer, NEW n \in Node, can_serve(n)
  PROVE  \A m \in Node \ {n} : ~ can_serve(m) /\ head[m] = None /\ m \notin subs
BY DEF OneServer, LoadedWhereServed

LEMMA ServerMoves ==
  ASSUME TypeOK, Alone, OneServer, NEW n \in Node, NEW h \in Nat, HeadMoves(n, h), subs' \subseteq subs \cup {n}
  PROVE  \A m \in Node : LoadedWhereServed(m)' /\ (m # n => HeadUpToDate(m)')
<1>1. head'[n] = h /\ \A m \in Node \ {n} : head'[m] = head[m] BY DEF HeadMoves, TypeOK
<1>2. \A m \in Node \ {n} : head[m] = None /\ m \notin subs BY ServedAlone DEF HeadMoves
<1>3. h # None BY DEF None
<1>4. \A m \in Node : can_serve(m)' = can_serve(m) BY DEF can_serve, HeadMoves
<1>5. \A m \in Node : LoadedWhereServed(m) BY DEF OneServer
<1>6. \A m \in Node : /\ can_serve(m)' => holder' \in {m, NoNode}
                      /\ \A k \in Node : can_serve(m)' /\ can_serve(k)' => m = k
  BY <1>4, <1>5 DEF LoadedWhereServed, HeadMoves
<1>7. \A m \in Node : (head'[m] # None \/ m \in subs' => can_serve(m)') /\ (m \in subs' => head'[m] # None)
  BY <1>1, <1>2, <1>3, <1>4 DEF HeadMoves
<1>8. \A m \in Node \ {n} : HeadUpToDate(m)' BY <1>1, <1>2 DEF HeadUpToDate
<1> QED BY <1>6, <1>7, <1>8 DEF LoadedWhereServed

LEMMA OneServerStep == ASSUME EverythingFits, OneServer, Step, situation' = situation PROVE OneServer'
<1> USE DEF EverythingFits
<1>1. SUFFICES ASSUME Alone PROVE OneServer' BY DEF OneServer, Alone
<1>2. /\ \A n \in Node : LoadedWhereServed(n)
      /\ \A f \in fanouts : FanoutKnown(f)
      /\ \A a \in appends : AppendKnown(a)
      /\ "ambiguous" \notin situation.faulty => \A n \in Node : HeadUpToDate(n)
  BY <1>1 DEF OneServer
<1>3. stored \in Nat /\ head \in [Node -> Heads] /\ appends \subseteq Call /\ fanouts \subseteq FanOut /\ NoNode \notin Node
      /\ situation.oneServer /\ MaxMessages \in Nat /\ "late" \notin situation.faulty
  BY <1>1, Types, Constants DEF TypeOK, Alone
<1>4. /\ \A n \in Node : head[n] \in Int /\ head[n] <= stored /\ (head[n] # None => head[n] \in Nat)
      /\ \A f \in fanouts : f.id \in Nat /\ f.id >= 1 /\ f.id <= stored /\ f.node \in Node /\ f.fresh \in BOOLEAN
      /\ \A a \in appends : a.id \in Nat /\ a.id >= 1 /\ a.fresh \in BOOLEAN
  <2>4. \A a \in appends : a.id \in Nat /\ a.id >= 1 /\ a.fresh \in BOOLEAN BY <1>3 DEF Call, Ids
  <2>1. \A n \in Node : head[n] \in Heads BY <1>3
  <2>2. \A f \in fanouts : f.id \in Nat /\ f.id >= 1 /\ f.node \in Node /\ f.fresh \in BOOLEAN BY <1>3 DEF FanOut, Ids
  <2>3. \A h \in Heads : h \in Int /\ (h # None => h \in Nat) BY <1>3 DEF Heads, Ids, None
  <2> QED BY <2>1, <2>2, <2>3, <2>4 DEF Fits
<1> DEFINE P == OneServer'
           Same == UNCHANGED <<holder, owned, suspended, stored, head, appends, fanouts, situation>> /\ subs' \subseteq subs
<1>5. Same => P BY ServersKept
\* A fan-out of the server is its only one.
<1>6. ASSUME NEW n \in Node, can_serve(n), NEW f \in fanouts, f.fresh PROVE f.node = n /\ head[n] = f.id - 1 /\ head[n] # None
  <2>1. head[f.node] # None BY <1>2, <1>4, <1>6 DEF FanoutKnown, None
  <2>2. can_serve(f.node) BY <1>2, <1>4, <2>1 DEF LoadedWhereServed
  <2> QED BY <1>2, <1>4, <1>6, <2>1, <2>2 DEF LoadedWhereServed, FanoutKnown
\* An append with a server is that server's, and the only one.
<1>24. ASSUME NEW n \in Node, can_serve(n), NEW a \in appends
       PROVE  /\ a.fresh /\ a.node = n /\ head[n] = a.id - 1 /\ head[n] # None /\ (\A f \in fanouts : ~ f.fresh)
              /\ appends = {a}
  <2>1. \A b \in appends : b.fresh /\ b.node = n /\ head[n] = b.id - 1 BY <1>2, <1>24 DEF AppendKnown, LoadedWhereServed
  <2>2. \A x, y \in Call : x.node = y.node /\ x.id = y.id /\ x.fresh = y.fresh => x = y BY DEF Call
  <2>3. \A b \in appends : b.id = a.id /\ b.fresh = a.fresh BY <1>4, <2>1
  <2>4. \A b \in appends : b = a BY <1>3, <2>1, <2>2, <2>3
  <2> QED BY <1>2, <1>4, <2>1, <2>4 DEF AppendKnown, None
\* The appends under way stay, or fewer.
<1>25. ASSUME appends' \subseteq appends, \A n \in Node : can_serve(n)' = can_serve(n),
              \A a \in appends' : a.fresh => head'[a.node] = head[a.node] /\ ((\A f \in fanouts : ~ f.fresh) => \A f \in fanouts' : ~ f.fresh)
       PROVE  \A a \in appends' : AppendKnown(a)'
  BY <1>2, <1>25 DEF AppendKnown
<1>7. ASSUME NEW n \in Node, Claim(n) PROVE P
  <2>1. holder = NoNode /\ holder' = n /\ owned \subseteq {n} /\ UNCHANGED <<owned, suspended, stored, head, appends, fanouts, subs>>
    BY <1>3, <1>7 DEF Claim, ClaimKey, chatVars
  <2>2. \A m \in Node : can_serve(m)' => m = n BY <2>1 DEF can_serve
  <2>3. \A m \in Node : LoadedWhereServed(m)' BY <1>2, <2>1, <2>2 DEF LoadedWhereServed, can_serve
  <2>4. \A a \in appends' : AppendKnown(a)' BY <1>25, <2>1 DEF can_serve
  <2> QED BY <1>2, <2>1, <2>3, <2>4 DEF OneServer, FanoutKnown, HeadUpToDate
<1>8. KeyDeleted => P
  <2> SUFFICES ASSUME KeyDeleted PROVE P OBVIOUS
  <2>1. holder' = NoNode /\ UNCHANGED <<owned, suspended, stored, head, appends, fanouts, subs>> BY DEF KeyDeleted, KeyGone, chatVars
  <2>2. \A m \in Node : LoadedWhereServed(m)' BY <1>2, <2>1 DEF LoadedWhereServed, can_serve
  <2>3. \A a \in appends' : AppendKnown(a)' BY <1>25, <2>1 DEF can_serve
  <2> QED BY <1>2, <2>1, <2>2, <2>3 DEF OneServer, FanoutKnown, HeadUpToDate
<1>9. ASSUME NEW n \in Node, ClaimAnswered(n) \/ LeaseGranted(n) PROVE P
  <2>1. /\ holder \in {n, NoNode} /\ UNCHANGED <<holder, stored, head, appends, fanouts, subs>>
        /\ \A m \in Node \ {n} : can_serve(m)' = can_serve(m)
        /\ appends = {}
    BY <1>3, <1>9 DEF WritesEnded, ClaimAnswered, Claimed, LeaseGranted, chatVars, can_serve
  <2>2. \A m \in Node \ {n} : ~ can_serve(m)
    <3>1. CASE ClaimAnswered(n)
      <4>1. holder = n BY <3>1 DEF ClaimAnswered
      <4> QED BY <1>2, <1>3, <4>1 DEF LoadedWhereServed
    <3>2. CASE LeaseGranted(n) BY <1>3, <3>2 DEF LeaseGranted, can_serve
    <3> QED BY <1>9, <3>1, <3>2
  <2>3. \A m \in Node : (m # n => head[m] = None /\ m \notin subs) /\ (can_serve(m)' => m = n) BY <1>2, <2>1, <2>2 DEF LoadedWhereServed
  <2>4. head[n] # None \/ n \in subs => can_serve(n)'
    <3>1. can_serve(n) => can_serve(n)' BY <1>9 DEF can_serve, ClaimAnswered, Claimed, LeaseGranted
    <3> QED BY <1>2, <3>1 DEF LoadedWhereServed
  <2>5. \A m \in Node : LoadedWhereServed(m)' BY <1>2, <2>1, <2>3, <2>4 DEF LoadedWhereServed
  <2> QED BY <1>2, <2>1, <2>5 DEF OneServer, FanoutKnown, HeadUpToDate
<1>10. ASSUME NEW n \in Node, DropShard(n) PROVE P
  <2>1. /\ owned' = owned \ {n} /\ suspended' = suspended \ {n} /\ UNCHANGED <<holder, stored>>
        /\ head' = [head EXCEPT ![n] = None] /\ subs' = subs \ {n}
        /\ appends' = Outdated(n, appends) /\ fanouts' = Outdated(n, fanouts)
    BY <1>10 DEF DropShard, Drop, Forget
  <2>2. head'[n] = None /\ \A m \in Node \ {n} : head'[m] = head[m] BY <1>3, <2>1
  <2>3. \A m \in Node : can_serve(m)' = (can_serve(m) /\ m # n) BY <2>1 DEF can_serve
  <2>4. \A m \in Node : LoadedWhereServed(m)' BY <1>2, <2>1, <2>2, <2>3 DEF LoadedWhereServed
  <2>5. /\ \A g \in fanouts' : \E f \in fanouts : g.node = f.node /\ g.id = f.id /\ g.fresh = (f.fresh /\ f.node # n)
        /\ \A f \in fanouts : \E g \in fanouts' : g.node = f.node /\ g.id = f.id /\ g.fresh = (f.fresh /\ f.node # n)
    BY <1>3, <2>1, OutdatedFanouts
  <2>6. ASSUME NEW g \in fanouts' PROVE FanoutKnown(g)'
    <3>1. PICK f \in fanouts : g.node = f.node /\ g.id = f.id /\ g.fresh = (f.fresh /\ f.node # n) BY <2>5
    <3>2. FanoutKnown(f) /\ f.node \in Node BY <1>2, <1>4
    <3> QED BY <2>1, <2>2, <3>1, <3>2 DEF FanoutKnown
  <2>7. ASSUME NEW m \in Node, HeadUpToDate(m) PROVE HeadUpToDate(m)'
    <3>1. SUFFICES ASSUME m # n, NEW f \in fanouts, f.node = m, f.fresh PROVE \E g \in fanouts' : g.node = m /\ g.fresh
      BY <2>1, <2>2, <2>7 DEF HeadUpToDate
    <3> QED BY <2>5, <3>1
  <2>8. ASSUME NEW b \in appends' PROVE AppendKnown(b)'
    <3>1. PICK a \in appends : b.node = a.node /\ b.id = a.id /\ b.fresh = (a.fresh /\ a.node # n) BY <1>3, <2>1, OutdatedCalls
    <3>2. AppendKnown(a) BY <1>2
    <3>3. CASE b.fresh
      <4>1. a.fresh /\ a.node \in Node \ {n} /\ \A f \in fanouts : ~ f.fresh BY <3>1, <3>2, <3>3 DEF AppendKnown
      <4>2. \A g \in fanouts' : ~ g.fresh BY <2>5, <4>1
      <4> QED BY <2>2, <2>3, <3>1, <3>2, <3>3, <4>1, <4>2 DEF AppendKnown
    <3>4. CASE ~ b.fresh
      <4>1. \A m \in Node : can_serve(m) => a.fresh /\ a.node = m BY <1>24
      <4>2. \A m \in Node : ~ can_serve(m)' BY <2>3, <3>1, <3>4, <4>1
      <4> QED BY <3>4, <4>2 DEF AppendKnown
    <3> QED BY <3>3, <3>4
  <2> QED BY <1>2, <2>4, <2>6, <2>7, <2>8 DEF OneServer
\* The server's head is moved or loaded while nothing of its is under way.
<1>26. ASSUME NEW n \in Node, can_serve(n), head' = [head EXCEPT ![n] = Loaded(n)], subs' \subseteq subs \cup {n},
              UNCHANGED <<holder, owned, suspended, stored, fanouts>>, \A a \in appends' : AppendKnown(a)'
       PROVE  P
  <2>2. Loaded(n) \in Nat /\ Loaded(n) = IF head[n] = None THEN stored ELSE head[n] BY <1>3, <1>4 DEF Loaded, max_message_id
  <2>3. \A m \in Node : LoadedWhereServed(m)' /\ (m # n => HeadUpToDate(m)') BY <1>1, <1>26, <2>2, ServerMoves DEF HeadMoves
  <2>4. head'[n] = Loaded(n) /\ \A m \in Node \ {n} : head'[m] = None BY <1>1, <1>3, <1>26, ServedAlone
  <2>5. ASSUME NEW f \in fanouts PROVE FanoutKnown(f)'
    <3>1. f.fresh => f.node = n /\ head'[n] = head[n] BY <1>6, <1>26, <2>2, <2>4
    <3>2. CASE f.fresh BY <1>2, <1>26, <3>1, <3>2 DEF FanoutKnown
    <3>3. CASE ~ f.fresh
      <4>1. f.node = n => f.id <= Loaded(n) BY <1>2, <1>4, <2>2, <3>3 DEF FanoutKnown
      <4> QED BY <1>4, <2>4, <3>3, <4>1 DEF FanoutKnown
    <3> QED BY <3>2, <3>3
  <2>6. "ambiguous" \notin situation.faulty => HeadUpToDate(n)'
    <3>1. CASE head[n] = None BY <1>26, <2>2, <2>4, <3>1 DEF HeadUpToDate
    <3>2. CASE head[n] # None BY <1>2, <1>26, <2>2, <2>4, <3>2 DEF HeadUpToDate
    <3> QED BY <3>1, <3>2
  <2> QED BY <1>26, <2>3, <2>5, <2>6 DEF OneServer
<1>11. ASSUME NEW n \in Node, CallAppend(n) PROVE P
  <2> PICK g : g = [node |-> n, id |-> Loaded(n) + 1, fresh |-> TRUE] OBVIOUS
  <2>1. /\ can_serve(n) /\ ~ Locked(n) /\ head' = [head EXCEPT ![n] = Loaded(n)] /\ appends' = appends \cup {g}
        /\ UNCHANGED <<holder, owned, suspended, stored, fanouts, subs>>
    BY <1>11 DEF CallAppend, Calls, ownershipVars
  <2>2. Loaded(n) \in Nat BY <1>3, <1>4 DEF Loaded, max_message_id
  <2>3. appends = {} BY <1>24, <2>1 DEF Locked
  <2>4. \A f \in fanouts : ~ f.fresh BY <1>6, <2>1 DEF Locked
  <2>5. g.node = n /\ g.id = Loaded(n) + 1 /\ g.fresh = TRUE OBVIOUS
  <2>6. head'[n] = Loaded(n) /\ can_serve(n)' BY <1>3, <2>1 DEF can_serve
  <2>7. AppendKnown(g)' BY <2>1, <2>2, <2>4, <2>5, <2>6 DEF AppendKnown
  <2> QED BY <1>26, <2>1, <2>3, <2>7
<1>12. ASSUME NEW a \in appends, AppendMessage(a) \/ AmbiguousAppend(a) PROVE P
  <2>1. /\ stored' = stored + 1 /\ a.id = stored + 1 /\ appends' = appends \ {a} /\ UNCHANGED <<holder, owned, suspended, subs, head>>
        /\ fanouts' = fanouts \cup {a} \/ (fanouts' = fanouts /\ (a.node \in Node => "ambiguous" \in situation.faulty))
    BY <1>12 DEF AppendMessage, AmbiguousAppend, Commits, ownershipVars, Fault
  <2>2. /\ \A m \in Node : LoadedWhereServed(m)' /\ can_serve(m)' = can_serve(m)
    BY <1>2, <2>1 DEF LoadedWhereServed, can_serve
  <2>3. CASE a.fresh
    <3> DEFINE n == a.node
    <3>1. n \in Node /\ can_serve(n) BY <1>2, <2>3 DEF AppendKnown
    <3>2. head[n] = stored /\ head[n] # None /\ (\A f \in fanouts : ~ f.fresh) /\ appends = {a} BY <1>3, <1>24, <2>1, <3>1
    <3>3. \A m \in Node \ {n} : head[m] = None BY <1>1, <3>1, ServedAlone
    <3>4. \A f \in fanouts : FanoutKnown(f)' BY <1>2, <1>4, <2>1, <3>2 DEF FanoutKnown
    <3>5. FanoutKnown(a)' BY <1>3, <2>1, <2>3, <3>2 DEF FanoutKnown
    <3>6. "ambiguous" \notin situation.faulty => HeadUpToDate(n)' BY <2>1, <2>3, <3>1 DEF HeadUpToDate
    <3>7. \A m \in Node \ {n} : HeadUpToDate(m)' BY <2>1, <3>3 DEF HeadUpToDate
    <3>8. appends' = {} BY <2>1, <3>2
    <3> QED BY <2>1, <2>2, <3>4, <3>5, <3>6, <3>7, <3>8 DEF OneServer
  <2>4. CASE ~ a.fresh
    <3>1. \A m \in Node : ~ can_serve(m) BY <1>2, <2>4 DEF AppendKnown
    <3>2. \A m \in Node : head[m] = None BY <1>2, <3>1 DEF LoadedWhereServed
    <3>3. \A f \in fanouts : ~ f.fresh BY <1>2, <1>4, <3>2 DEF FanoutKnown, None
    <3>4. \A f \in fanouts' : ~ f.fresh /\ (f.node \in Node => head'[f.node] = None) BY <2>1, <2>4, <3>2, <3>3
    <3>5. \A f \in fanouts' : f.node \in Node
      <4>1. AppendMessage(a) /\ fanouts' # fanouts => a.node \in Node BY DEF AppendMessage
      <4>2. AmbiguousAppend(a) => fanouts' = fanouts BY DEF AmbiguousAppend
      <4> QED BY <1>4, <1>12, <2>1, <4>1, <4>2
    <3>6. \A f \in fanouts' : FanoutKnown(f)' BY <3>4, <3>5 DEF FanoutKnown
    <3>7. \A m \in Node : HeadUpToDate(m)' BY <2>1, <3>2 DEF HeadUpToDate
    <3>8. \A b \in appends' : AppendKnown(b)' BY <1>25, <2>1, <2>2, <3>4
    <3> QED BY <2>2, <3>6, <3>7, <3>8 DEF OneServer
  <2> QED BY <2>3, <2>4
<1>27. ASSUME NEW a \in appends, NotAppended(a) PROVE P
  <2>1. appends' = appends \ {a} /\ UNCHANGED <<holder, owned, suspended, stored, fanouts, subs>>
    BY <1>27 DEF NotAppended, ownershipVars
  <2>2. PICK k \in 0..stored : head' = IF a.fresh THEN [head EXCEPT ![a.node] = AtLeast(@, k)] ELSE head
    BY <1>27 DEF NotAppended
  <2>3. CASE a.fresh
    <3> DEFINE n == a.node
               h == AtLeast(head[n], k)
    <3>1. n \in Node /\ can_serve(n) BY <1>2, <2>3 DEF AppendKnown
    <3>2. head[n] # None /\ (\A f \in fanouts : ~ f.fresh) /\ appends = {a} BY <1>24, <3>1
    <3>3. h \in Nat /\ h >= head[n] /\ h <= stored BY <1>3, <1>4, <3>1, <3>2 DEF AtLeast
    <3>4. head' = [head EXCEPT ![n] = h] BY <2>2, <2>3
    <3> HIDE DEF h
    <3>5. HeadMoves(n, h) BY <2>1, <3>1, <3>4 DEF HeadMoves
    <3>6. \A m \in Node : LoadedWhereServed(m)' /\ (m # n => HeadUpToDate(m)') BY <1>1, <2>1, <3>1, <3>3, <3>5, ServerMoves
    <3>7. head'[n] = h /\ \A m \in Node \ {n} : head'[m] = None BY <1>1, <1>3, <3>1, <3>4, ServedAlone
    <3>8. ASSUME NEW f \in fanouts PROVE FanoutKnown(f)'
      <4>1. ~ f.fresh /\ (f.node = n => f.id <= head[n]) BY <1>2, <3>2 DEF FanoutKnown
      <4>2. f.node = n => f.id <= head'[n] BY <1>4, <3>1, <3>3, <3>7, <4>1
      <4> QED BY <1>4, <3>7, <4>1, <4>2 DEF FanoutKnown
    <3>9. "ambiguous" \notin situation.faulty => HeadUpToDate(n)'
      <4>1. "ambiguous" \notin situation.faulty => head[n] = stored BY <1>2, <3>1, <3>2 DEF HeadUpToDate
      <4>2. head[n] = stored => head'[n] = stored BY <1>3, <3>3, <3>7
      <4> QED BY <2>1, <4>1, <4>2 DEF HeadUpToDate
    <3>10. appends' = {} BY <2>1, <3>2
    <3> QED BY <2>1, <3>6, <3>8, <3>9, <3>10 DEF OneServer
  <2>4. CASE ~ a.fresh
    <3>1. head' = head BY <2>2, <2>4
    <3>2. \A m \in Node : /\ can_serve(m)' = can_serve(m) /\ LoadedWhereServed(m)'
                          /\ HeadUpToDate(m) => HeadUpToDate(m)'
      BY <1>2, <2>1, <3>1 DEF LoadedWhereServed, HeadUpToDate, can_serve
    <3>3. \A f \in fanouts' : FanoutKnown(f)' BY <1>2, <2>1, <3>1 DEF FanoutKnown
    <3>4. \A b \in appends' : AppendKnown(b)' BY <1>25, <2>1, <3>1, <3>2
    <3> QED BY <1>2, <3>2, <3>3, <3>4 DEF OneServer
  <2> QED BY <2>3, <2>4
<1>13. ASSUME NEW f \in fanouts, Fanout(f) PROVE P
  <2> DEFINE n == f.node
  <2>1. /\ fanouts' = fanouts \ {f} /\ head' = (IF f.fresh THEN [head EXCEPT ![n] = f.id] ELSE head)
        /\ UNCHANGED <<holder, owned, suspended, subs, stored, appends>>
    BY <1>13 DEF Fanout, ownershipVars
  <2>4. \A m \in Node : can_serve(m)' = can_serve(m) BY <2>1 DEF can_serve
  <2>2. CASE f.fresh
    <3>1. head[n] = f.id - 1 /\ f.id = stored /\ n \in Node /\ head[n] # None BY <1>2, <1>4, <2>2 DEF FanoutKnown, None
    <3>2. can_serve(n) BY <1>2, <3>1 DEF LoadedWhereServed
    <3>3. HeadMoves(n, stored) BY <2>1, <2>2, <3>1, <3>2 DEF HeadMoves
    <3>4. \A m \in Node : LoadedWhereServed(m)' /\ (m # n => HeadUpToDate(m)') BY <1>1, <1>3, <2>1, <3>1, <3>3, ServerMoves
    <3>5. head'[n] = stored /\ \A m \in Node \ {n} : head'[m] = None BY <1>1, <1>3, <3>1, <3>2, <3>3, ServedAlone DEF HeadMoves
    <3>6. ASSUME NEW g \in fanouts, g.fresh PROVE g = f
      <4>1. g.node = n /\ g.id = f.id BY <1>4, <1>6, <2>2, <3>2, <3>1, <3>6
      <4>2. \A x, y \in FanOut : x.node = y.node /\ x.id = y.id /\ x.fresh = y.fresh => x = y BY DEF FanOut
      <4> QED BY <1>3, <1>4, <2>2, <3>6, <4>1, <4>2
    <3>7. \A g \in fanouts' : FanoutKnown(g)' BY <1>4, <2>1, <3>5, <3>6 DEF FanoutKnown
    <3>8. HeadUpToDate(n)' BY <2>1, <3>5 DEF HeadUpToDate
    <3>9. appends = {} BY <1>24, <2>2, <3>1, <3>2
    <3> QED BY <2>1, <3>4, <3>7, <3>8, <3>9 DEF OneServer
  <2>3. CASE ~ f.fresh
    <3>1. \A m \in Node : LoadedWhereServed(m)' BY <1>2, <2>1, <2>3 DEF LoadedWhereServed, can_serve
    <3>2. \A g \in fanouts' : FanoutKnown(g)' BY <1>2, <2>1, <2>3 DEF FanoutKnown
    <3>3. \A m \in Node : HeadUpToDate(m) => HeadUpToDate(m)' BY <2>1, <2>3 DEF HeadUpToDate
    <3>4. \A a \in appends' : AppendKnown(a)' BY <1>25, <2>1, <2>3, <2>4
    <3> QED BY <1>2, <3>1, <3>2, <3>3, <3>4 DEF OneServer
  <2> QED BY <2>2, <2>3
<1>14. ASSUME NEW n \in Node, Subscribe(n) PROVE P
  <2>1. /\ can_serve(n) /\ head' = [head EXCEPT ![n] = Loaded(n)] /\ subs' = subs \cup {n}
        /\ UNCHANGED <<holder, owned, suspended, stored, appends, fanouts>>
    BY <1>14 DEF Subscribe, Takes, ownershipVars
  <2>2. \A a \in appends' : a.fresh => head'[a.node] = head[a.node] BY <1>3, <1>24, <2>1 DEF Loaded
  <2>3. \A a \in appends' : AppendKnown(a)' BY <1>25, <2>1, <2>2 DEF can_serve
  <2> QED BY <1>26, <2>1, <2>3
<1>15. ASSUME NEW n \in Node, Crash(n) PROVE P
  <2>1. /\ owned' = owned \cup {n} /\ suspended' = suspended \cup {n} /\ UNCHANGED <<holder, stored>>
        /\ head' = [head EXCEPT ![n] = None] /\ subs' = subs \ {n}
        /\ fanouts' = {f \in fanouts : f.node # n}
        /\ appends' = {IF a.node = n THEN [a EXCEPT !.node = NoNode, !.fresh = FALSE] ELSE a : a \in appends}
    BY <1>15 DEF Crash, Restart
  <2>2. head'[n] = None /\ \A m \in Node \ {n} : head'[m] = head[m] BY <1>3, <2>1
  <2>3. \A m \in Node : can_serve(m)' = (can_serve(m) /\ m # n) BY <2>1 DEF can_serve
  <2>4. \A m \in Node : LoadedWhereServed(m)' BY <1>2, <2>1, <2>2, <2>3 DEF LoadedWhereServed
  <2>5. \A f \in fanouts' : FanoutKnown(f)' BY <1>2, <1>4, <2>1, <2>2 DEF FanoutKnown
  <2>6. \A m \in Node : HeadUpToDate(m) => HeadUpToDate(m)' BY <2>1, <2>2 DEF HeadUpToDate
  <2>7. ASSUME NEW b \in appends' PROVE AppendKnown(b)'
    <3>1. PICK a \in appends : (a.node # n /\ b = a) \/ (a.node = n /\ ~ b.fresh) BY <1>3, <2>1, OrphanedCalls
    <3>2. CASE a.node # n /\ b = a BY <1>2, <2>1, <2>2, <2>3, <3>2 DEF AppendKnown
    <3>3. CASE a.node = n /\ ~ b.fresh
      <4>1. \A m \in Node : can_serve(m) => m = n BY <1>24, <3>3
      <4> QED BY <2>3, <3>3, <4>1 DEF AppendKnown
    <3> QED BY <3>1, <3>2, <3>3
  <2> QED BY <1>2, <2>4, <2>5, <2>6, <2>7 DEF OneServer
<1> HIDE DEF P
<1>28. \A n \in Node : CallForgotten(n) => FALSE BY <1>3 DEF CallForgotten, Fault
<1>29. Appending => P BY <1>11, <1>12, <1>27, <1>28 DEF Appending, Publish, StoreAnswers
<1>16. \A n \in Node : RejectSubscribe(n) \/ Unsubscribe(n) \/ LinkDown(n) \/ LinkUp(n) => P
  BY <1>5 DEF RejectSubscribe, Unsubscribe, Takes, LinkDown, LinkUp, ownershipVars, chatVars
<1>17. MapLearns \/ UseAnswer \/ RepairRead \/ RepairPush \/ RepairFails \/ UnsubscribeUnwanted => P
  BY <1>5 DEF MapLearns, UseAnswer, RepairRead, RepairPush, RepairFails, UnsubscribeUnwanted, ownershipVars, chatVars
<1>18. \A by \in Conn \cup {None} : SubscribeMissing(by) => P BY <1>5 DEF SubscribeMissing, ownershipVars, chatVars
<1>19. \A n \in Node : ReceiveDeliver(n) \/ ReceiveSubscribed(n) \/ ReceiveRejected(n) \/ ReceiveMoved(n) => P
  BY <1>5 DEF ReceiveDeliver, ReceiveSubscribed, ReceiveRejected, ReceiveMoved, Receives, ownershipVars, chatVars
<1>20. \A c \in Conn : Connect(c) \/ Disconnect(c) \/ NothingMissing(c) \/ CatchupRead(c) \/ CatchupSend(c) => P
  BY <1>5 DEF Connect, Disconnect, NothingMissing, CatchupRead, CatchupSend, ownershipVars, chatVars
<1>21. \A c \in Conn : ClientReceives(c) \/ Ack(c) => P BY <1>5 DEF ClientReceives, Ack, ownershipVars, chatVars
<1>22. \A c \in Conn, after \in 0..MaxMessages : FetchAnswered(c, after) \/ FetchFails(c, after) => P
  BY <1>5 DEF FetchAnswered, FetchFails, ownershipVars, chatVars
<1> HIDE DEF Same
<1>23. P
  BY <1>7, <1>8, <1>9, <1>10, <1>29, <1>13, <1>14, <1>15, <1>16, <1>17, <1>18, <1>19, <1>20, <1>21, <1>22, Cases
<1> QED BY <1>23 DEF P

-----------------------------------------------------------------------------
(* What a queue to the gateway brings                                      *)

Brings(f, k) == (f.type = "deliver" /\ f.id = k) \/ (f.type = "subscribed" /\ k <= f.id)

\* When a message is delivered, the ones before it are in K, or come first.
InLine(q, K) ==
  \A i \in 1..Len(q) : q[i].type = "deliver" =>
    \A k \in 1..q[i].id - 1 : k \in K \/ \E j \in 1..i - 1 : Brings(q[j], k)

\* The messages up to h are in K, or come.
Covers(q, K, h) == \A k \in 1..h : k \in K \/ \E f \in Frames(q) : Brings(f, k)

\* After the answer to a subscription comes the news that it has ended.
Ends(q) == \A i \in 1..Len(q) : q[i].type = "subscribed" => \E j \in i + 1..Len(q) : q[j].type = "shard_moved"

LEMMA LineGrows ==
  ASSUME NEW q, NEW K, NEW L, K \subseteq L
  PROVE  (InLine(q, K) => InLine(q, L)) /\ \A h : Covers(q, K, h) => Covers(q, L, h)
BY DEF InLine, Covers

LEMMA EmptyLine ==
  /\ \A K : InLine(<<>>, K)
  /\ \A K, h : Covers(<<>>, K, h) => \A k \in 1..h : k \in K
  /\ Ends(<<>>)
BY NoFrames DEF InLine, Covers, Ends

LEMMA LineAppended ==
  ASSUME NEW q \in Seq(NodeFrame), NEW f \in NodeFrame, NEW K
  PROVE  /\ InLine(q, K) /\ (f.type = "deliver" => Covers(q, K, f.id - 1)) => InLine(Append(q, f), K)
         /\ \A h : Covers(q, K, h) => Covers(Append(q, f), K, h)
         /\ f.type = "deliver" /\ Covers(q, K, f.id - 1) => Covers(Append(q, f), K, f.id)
         /\ f.type = "subscribed" => Covers(Append(q, f), K, f.id)
         /\ Ends(q) /\ f.type # "subscribed" => Ends(Append(q, f))
         /\ f.type = "shard_moved" => Ends(Append(q, f))
<1> DEFINE r == Append(q, f)
<1>1. /\ Len(q) \in Nat /\ Len(r) = Len(q) + 1 /\ r[Len(q) + 1] = f /\ Frames(r) = Frames(q) \cup {f}
      /\ \A i \in 1..Len(q) : r[i] = q[i]
      /\ Frames(q) = {q[i] : i \in 1..Len(q)}
      /\ f.id \in Int
  <2>1. \A h \in Heads : h \in Int BY Constants DEF Heads, Ids, None
  <2>2. f.id \in Int BY <2>1 DEF NodeFrame
  <2>3. Frames(q) = {q[i] : i \in 1..Len(q)} BY DEF Frames
  <2> QED BY <2>2, <2>3, Queues DEF QueueOf
<1> HIDE DEF r
<1>2. ASSUME InLine(q, K), f.type = "deliver" => Covers(q, K, f.id - 1) PROVE InLine(r, K)
  <2> SUFFICES ASSUME NEW i \in 1..Len(r), r[i].type = "deliver", NEW k \in 1..r[i].id - 1
               PROVE  k \in K \/ \E j \in 1..i - 1 : Brings(r[j], k)
    BY DEF InLine
  <2>1. CASE i \in 1..Len(q)
    <3>1. r[i] = q[i] /\ \A j \in 1..i - 1 : r[j] = q[j] BY <1>1, <2>1
    <3>2. k \in K \/ \E j \in 1..i - 1 : Brings(q[j], k) BY <1>2, <2>1, <3>1 DEF InLine
    <3> QED BY <3>1, <3>2
  <2>2. CASE i = Len(q) + 1
    <3>1. r[i] = f /\ i - 1 = Len(q) BY <1>1, <2>2
    <3>2. k \in K \/ \E g \in Frames(q) : Brings(g, k) BY <1>2, <3>1 DEF Covers
    <3>3. k \in K \/ \E j \in 1..Len(q) : Brings(q[j], k) BY <1>1, <3>2
    <3> QED BY <1>1, <3>1, <3>3
  <2> QED BY <1>1, <2>1, <2>2
<1>3. \A h : Covers(q, K, h) => Covers(r, K, h) BY <1>1 DEF Covers
<1>4. ASSUME f.type = "deliver", Covers(q, K, f.id - 1) PROVE Covers(r, K, f.id)
  <2> SUFFICES ASSUME NEW k \in 1..f.id PROVE k \in K \/ \E g \in Frames(r) : Brings(g, k) BY DEF Covers
  <2>1. CASE k = f.id BY <1>1, <1>4, <2>1 DEF Brings
  <2>2. CASE k \in 1..f.id - 1 BY <1>1, <1>4, <2>2 DEF Covers
  <2> QED BY <1>1, <2>1, <2>2
<1>5. ASSUME f.type = "subscribed" PROVE Covers(r, K, f.id) BY <1>1, <1>5 DEF Covers, Brings
<1>6. ASSUME Ends(q), f.type # "subscribed" PROVE Ends(r)
  <2> SUFFICES ASSUME NEW i \in 1..Len(r), r[i].type = "subscribed" PROVE \E j \in i + 1..Len(r) : r[j].type = "shard_moved" BY DEF Ends
  <2>1. i \in 1..Len(q) /\ r[i] = q[i] BY <1>1, <1>6
  <2>2. PICK j \in i + 1..Len(q) : q[j].type = "shard_moved" BY <1>6, <2>1 DEF Ends
  <2>3. j \in 1..Len(q) /\ j \in i + 1..Len(r) BY <1>1, <2>1, <2>2
  <2> QED BY <1>1, <2>2, <2>3
<1>7. ASSUME f.type = "shard_moved" PROVE Ends(r)
  <2> SUFFICES ASSUME NEW i \in 1..Len(r), r[i].type = "subscribed" PROVE \E j \in i + 1..Len(r) : r[j].type = "shard_moved" BY DEF Ends
  <2>1. i # Len(q) + 1 BY <1>1, <1>7
  <2>2. Len(q) + 1 \in i + 1..Len(r) BY <1>1, <2>1
  <2> QED BY <1>1, <1>7, <2>2
<1> QED BY <1>2, <1>3, <1>4, <1>5, <1>6, <1>7 DEF r

LEMMA LineTaken ==
  ASSUME NEW q \in Seq(NodeFrame), q # <<>>, NEW K, NEW L, K \subseteq L, \A k \in Nat \ {0} : Brings(Head(q), k) => k \in L
  PROVE  /\ InLine(q, K) => InLine(Tail(q), L)
         /\ \A h : Covers(q, K, h) => Covers(Tail(q), L, h)
         /\ Ends(q) => Ends(Tail(q))
         /\ InLine(q, K) /\ Head(q).type = "deliver" => \A k \in 1..Head(q).id - 1 : k \in K
         /\ Ends(q) /\ Head(q).type = "subscribed" => \E f \in Frames(Tail(q)) : f.type = "shard_moved"
<1> DEFINE t == Tail(q)
<1>1. /\ t \in Seq(NodeFrame) /\ Frames(q) = Frames(t) \cup {Head(q)} /\ Len(q) \in Nat /\ Len(t) = Len(q) - 1 /\ Len(q) >= 1
      /\ Head(q) = q[1] /\ \A i \in 1..Len(q) - 1 : t[i] = q[i + 1] /\ t[i] \in Frames(t)
  <2>1. /\ t \in Seq(NodeFrame) /\ Frames(q) = Frames(t) \cup {Head(q)} /\ Len(q) \in Nat /\ Len(t) = Len(q) - 1 /\ Len(q) >= 1
        /\ Head(q) = q[1] /\ \A i \in 1..Len(q) - 1 : t[i] = q[i + 1]
    BY Queues DEF QueueOf
  <2>2. \A i \in 1..Len(t) : t[i] \in Frames(t) BY <2>1, Queues DEF QueueOf
  <2> QED BY <2>1, <2>2
<1> HIDE DEF t
<1>2. ASSUME InLine(q, K) PROVE InLine(t, L)
  <2> SUFFICES ASSUME NEW i \in 1..Len(t), t[i].type = "deliver", NEW k \in 1..t[i].id - 1
               PROVE  k \in L \/ \E j \in 1..i - 1 : Brings(t[j], k)
    BY DEF InLine
  <2>1. i + 1 \in 1..Len(q) /\ t[i] = q[i + 1] /\ i + 1 - 1 = i BY <1>1
  <2>2. k \in K \/ \E j \in 1..i : Brings(q[j], k) BY <1>2, <2>1 DEF InLine
  <2>3. ASSUME NEW j \in 1..i, Brings(q[j], k) PROVE k \in L \/ \E m \in 1..i - 1 : Brings(t[m], k)
    <3>1. CASE j = 1 BY <1>1, <2>3, <3>1
    <3>2. CASE j # 1
      <4>1. j - 1 \in 1..i - 1 /\ t[j - 1] = q[j] BY <1>1, <2>1, <3>2
      <4> QED BY <2>3, <4>1
    <3> QED BY <3>1, <3>2
  <2> QED BY <2>2, <2>3
<1>3. \A h : Covers(q, K, h) => Covers(t, L, h) BY <1>1 DEF Covers
<1>4. ASSUME Ends(q) PROVE Ends(t)
  <2> SUFFICES ASSUME NEW i \in 1..Len(t), t[i].type = "subscribed" PROVE \E j \in i + 1..Len(t) : t[j].type = "shard_moved" BY DEF Ends
  <2>1. i + 1 \in 1..Len(q) /\ t[i] = q[i + 1] BY <1>1
  <2>2. PICK j \in i + 1 + 1..Len(q) : q[j].type = "shard_moved" BY <1>4, <2>1 DEF Ends
  <2>3. j - 1 \in i + 1..Len(t) /\ t[j - 1] = q[j] BY <1>1, <2>1, <2>2
  <2> QED BY <2>2, <2>3
<1>5. ASSUME InLine(q, K), Head(q).type = "deliver", NEW k \in 1..Head(q).id - 1 PROVE k \in K
  <2>1. 1 \in 1..Len(q) /\ 1..1 - 1 = {} BY <1>1
  <2> QED BY <1>1, <1>5, <2>1 DEF InLine
<1>6. ASSUME Ends(q), Head(q).type = "subscribed" PROVE \E f \in Frames(t) : f.type = "shard_moved"
  <2>1. 1 \in 1..Len(q) BY <1>1
  <2>2. PICK j \in 1 + 1..Len(q) : q[j].type = "shard_moved" BY <1>1, <1>6, <2>1 DEF Ends
  <2>3. j - 1 \in 1..Len(q) - 1 /\ t[j - 1] = q[j] BY <1>1, <2>2
  <2> QED BY <1>1, <2>2, <2>3
<1> QED BY <1>2, <1>3, <1>4, <1>5, <1>6 DEF t

-----------------------------------------------------------------------------
(* Clients that stay: what is subscribed, and what the gateway knows       *)

\* The repair that is under way will push message k.
Repairs(k) == (rec.st = "repair" /\ rec.from < k) \/ (rec.st = "read" /\ rec.from < k /\ k <= rec.to)

\* The messages that were forwarded, or that the repair or the answer of n accounts for.
KnownAt(n) ==
  {k \in 1..stored : k <= last_forwarded \/ Repairs(k) \/ (rec.st = "answered" /\ rec.node = n /\ k <= rec.to)}

\* What n delivers, and what it knows when it has the gateway as a subscriber, leaves
\* no hole behind what the gateway knows; a subscription that ended is reported.
NodeInLine(n) ==
  /\ InLine(toGw[n], KnownAt(n))
  /\ n \in subs => Covers(toGw[n], KnownAt(n), head[n])
  /\ n \in subs \/ Ends(toGw[n])
  /\ "unsubscribe" \notin Frames(toNode[n])

\* n has the gateway as a subscriber, or has sent word that it has not any more.
Holds(n) == n \in up /\ (n \in subs \/ \E f \in Frames(toGw[n]) : f.type = "shard_moved")

SubFits ==
  /\ sub_at # NoNode => Holds(sub_at)
  /\ rec.st = "answered" => Holds(rec.node)
  /\ last_forwarded # None
  /\ rec.st \in {"repair", "read"} => rec.from <= last_forwarded

\* What c has, or has on its way.
Has(c) == Seen(client[c]) \cup UNION {FrameIds(f) : f \in Frames(toClient[c])}

\* c was sent what was forwarded, but for what the repair will push.
Forwarded(c) ==
  /\ floor[c] <= last_forwarded
  /\ \A k \in 1..stored : k \in Has(c) \/ k > last_forwarded \/ Repairs(k)

Careful == situation.prompt /\ situation.oneServer /\ situation.faulty \cap {"ambiguous", "late", "repair"} = {}
Stays == Careful /\ Staying /\ situation.connected # {}

NothingPassedBy ==
  Stays => /\ SubFits
           /\ \A n \in Node : NodeInLine(n)
           /\ \A c \in situation.connected : Forwarded(c)

Context == EverythingFits /\ OneServer

LEMMA StaysInit == Init => NothingPassedBy
<1> SUFFICES ASSUME Init, Stays PROVE /\ SubFits
                                      /\ \A n \in Node : NodeInLine(n)
                                      /\ \A c \in situation.connected : Forwarded(c)
  BY DEF NothingPassedBy
<1>1. /\ holder = situation.server /\ stored = 0 /\ up = Node /\ holder \in Node /\ situation.connected \in SUBSET Conn
      /\ toNode = [n \in Node |-> <<>>] /\ toGw = [n \in Node |-> <<>>]
      /\ rec = Idle /\ situation.connected # {} /\ floor = [c \in Conn |-> 0]
      /\ head = [n \in Node |-> IF n = holder THEN 0 ELSE None] /\ subs = {holder} /\ sub_at = holder /\ last_forwarded = 0
  BY Constants DEF Init, Stays
<1>2. rec.st = "idle" BY <1>1 DEF Idle
<1>3. SubFits BY <1>1, <1>2 DEF SubFits, Holds, None
<1>4. ASSUME NEW n \in Node PROVE NodeInLine(n)
  <2>1. toGw[n] = <<>> /\ toNode[n] = <<>> /\ (n \in subs => head[n] = 0) BY <1>1
  <2>2. Covers(<<>>, KnownAt(n), 0) BY DEF Covers
  <2> QED BY <2>1, <2>2, EmptyLine, NoFrames DEF NodeInLine
<1>5. \A c \in situation.connected : Forwarded(c) BY <1>1 DEF Forwarded
<1> QED BY <1>3, <1>4, <1>5

LEMMA Stayed ==
  ASSUME Context, Stays
  PROVE  /\ "repair" \notin situation.faulty /\ "ambiguous" \notin situation.faulty /\ Alone /\ situation.prompt
         /\ situation.connects = 0 /\ rec.by = None /\ chat_conns = situation.connected /\ chat_conns # {}
         /\ situation.connected \in SUBSET Conn
         /\ stored <= situation.limit /\ \A c \in Conn : conn[c].st \in {"on", "off"}
<1>1. situation.connects = 0 /\ situation.messages <= situation.limit /\ situation.connected # {} BY DEF Stays, Staying
<1>2. rec.by = None BY <1>1, NobodyWaits DEF Context
<1>3. situation \in Situations BY DEF Context, EverythingFits, TypeOK
<1>4. situation.connected \in SUBSET Conn BY <1>3, Constants
<1>5. \A c \in Conn : conn[c].st = IF c \in situation.connected THEN "on" ELSE "off" BY <1>1 DEF Context, EverythingFits, Standing
<1>6. chat_conns = situation.connected BY <1>4, <1>5 DEF chat_conns
<1>7. stored <= situation.limit
  <2>1. stored <= situation.messages /\ stored \in Nat /\ situation.messages \in Nat /\ situation.limit \in Nat
    BY Types DEF Context, EverythingFits, Fits
  <2> QED BY <1>1, <2>1
<1> QED BY <1>1, <1>2, <1>4, <1>5, <1>6, <1>7 DEF Stays, Careful, Alone

LEMMA KnownGrows ==
  ASSUME TypeOK, TypeOK', stored' >= stored, last_forwarded' >= last_forwarded, rec' = rec \/ rec.st \in {"idle", "sent"}
  PROVE  \A n \in Node : KnownAt(n) \subseteq KnownAt(n)'
<1>1. stored \in Int /\ last_forwarded \in Int BY Types
<1>2. stored' \in Int /\ last_forwarded' \in Int
  <2>1. stored' \in 0..MaxMessages /\ last_forwarded' \in Heads BY DEF TypeOK
  <2> QED BY <2>1, Constants DEF Heads, Ids, None
<1> SUFFICES ASSUME NEW n \in Node, NEW k \in KnownAt(n) PROVE k \in KnownAt(n)' OBVIOUS
<1>3. k \in 1..stored' /\ (k <= last_forwarded => k <= last_forwarded') BY <1>1, <1>2 DEF KnownAt
<1>4. CASE rec' = rec BY <1>3, <1>4 DEF KnownAt, Repairs
<1>5. CASE rec.st \in {"idle", "sent"} BY <1>3, <1>5 DEF KnownAt, Repairs
<1> QED BY <1>4, <1>5

LEMMA LineKept ==
  ASSUME NEW n \in Node, NodeInLine(n), KnownAt(n) \subseteq KnownAt(n)', toGw'[n] = toGw[n], n \in subs' <=> n \in subs,
         head'[n] = head[n] \/ n \notin subs, "unsubscribe" \notin Frames(toNode'[n])
  PROVE  NodeInLine(n)'
BY LineGrows DEF NodeInLine

\* The gateway is sent news; the node is not subscribed any more, or still.
LEMMA LineAfterNews ==
  ASSUME TypeOK, NEW n \in Node, NodeInLine(n), KnownAt(n) \subseteq KnownAt(n)', NEW f \in NodeFrame, toGw'[n] = Append(toGw[n], f),
         f.type \in {"rejected", "shard_moved"}, n \in subs' => n \in subs, n \in subs => n \in subs' \/ f.type = "shard_moved",
         head'[n] = head[n] \/ n \notin subs', toNode'[n] = toNode[n] \/ (toNode[n] # <<>> /\ toNode'[n] = Tail(toNode[n]))
  PROVE  NodeInLine(n)'
<1>1. InLine(toGw[n], KnownAt(n)') /\ (n \in subs => Covers(toGw[n], KnownAt(n)', head[n])) BY LineGrows DEF NodeInLine
<1>2. toGw[n] \in Seq(NodeFrame) BY NodeTypes
<1>3. InLine(toGw'[n], KnownAt(n)') /\ (n \in subs => Covers(toGw'[n], KnownAt(n)', head[n])) BY <1>1, <1>2, LineAppended
<1>4. n \in subs' \/ Ends(toGw'[n]) BY <1>2, LineAppended DEF NodeInLine
<1>5. Frames(toNode'[n]) \subseteq Frames(toNode[n]) BY NodeTypes, Queues DEF QueueOf
<1> QED BY <1>3, <1>4, <1>5 DEF NodeInLine

\* The gateway takes a frame of n, and knows then what it brings.
LEMMA LineAfterTaking ==
  ASSUME TypeOK, NEW n \in Node, NodeInLine(n), toGw[n] # <<>>, toGw'[n] = Tail(toGw[n]), UNCHANGED <<subs, head, toNode>>,
         KnownAt(n) \subseteq KnownAt(n)', \A k \in Nat \ {0} : Brings(Head(toGw[n]), k) => k \in KnownAt(n)'
  PROVE  NodeInLine(n)'
<1>1. toGw[n] \in Seq(NodeFrame) BY NodeTypes
<1> DEFINE q == toGw[n]
           L == KnownAt(n)'
<1>2. /\ InLine(q, KnownAt(n)) => InLine(Tail(q), L)
      /\ \A h : Covers(q, KnownAt(n), h) => Covers(Tail(q), L, h)
      /\ Ends(q) => Ends(Tail(q))
  <2> HIDE DEF L, q
  <2>1. q \in Seq(NodeFrame) /\ q # <<>> /\ KnownAt(n) \subseteq L /\ \A k \in Nat \ {0} : Brings(Head(q), k) => k \in L
    BY <1>1 DEF q, L
  <2> QED BY <2>1, LineTaken
<1> QED BY <1>2 DEF NodeInLine

LEMMA LineLost ==
  ASSUME NEW n \in Node, toGw'[n] = <<>>, toNode'[n] = <<>>, n \notin subs' PROVE NodeInLine(n)'
BY EmptyLine, NoFrames DEF NodeInLine

\* What was forwarded stays, or grows.
LEMMA ForwardedGrows ==
  ASSUME Context, Context', NothingPassedBy, Stays, Step, situation' = situation
  PROVE  last_forwarded' >= last_forwarded /\ last_forwarded' \in Int /\ last_forwarded \in Int
<1> USE DEF Context, EverythingFits
<1>1. last_forwarded \in Int /\ rec.to \in Int /\ last_forwarded' \in Heads BY Types DEF TypeOK
<1>2. last_forwarded' \in Int BY <1>1, Constants DEF Heads, Ids, None
<1> DEFINE P == last_forwarded' >= last_forwarded
<1>3. UNCHANGED last_forwarded => P BY <1>1
<1>4. UseAnswer => P BY <1>1, <1>2 DEF UseAnswer, AtLeast, NothingToRepair, None
<1>5. RepairPush => P BY <1>1, <1>2 DEF RepairPush, AtLeast
<1>6. RepairFails => FALSE BY Stayed DEF RepairFails, Fault
<1>7. \A n \in Node : ReceiveDeliver(n) => P
  <2> SUFFICES ASSUME NEW n \in Node, ReceiveDeliver(n) PROVE P OBVIOUS
  <2> DEFINE id == Head(toGw[n]).id
  <2>1. (id <= last_forwarded /\ last_forwarded' = last_forwarded) \/ (~ id <= last_forwarded /\ last_forwarded' = id)
    BY DEF ReceiveDeliver, OnDeliver
  <2> HIDE DEF id
  <2> QED BY <1>1, <1>2, <2>1
<1>8. \A c \in Conn : Disconnect(c) => FALSE
  <2>1. situation'.connects = 0 /\ used.connects \in Nat BY Stayed, Types
  <2> QED BY <2>1, Stayed, Types DEF Disconnect
<1>9. \A c \in Conn : Connect(c) \/ NothingMissing(c) \/ CatchupRead(c) \/ CatchupSend(c) => UNCHANGED last_forwarded BY NumbersKept
<1> HIDE DEF P
<1>10. MapLearns \/ KeyDeleted \/ UnsubscribeUnwanted \/ RepairRead => P BY <1>3, NumbersKept
<1>11. \A by \in Conn \cup {None} : SubscribeMissing(by) => P BY <1>3, NumbersKept
<1>12. \A f \in fanouts : Fanout(f) => P BY <1>3 DEF Fanout, subVars
<1>13. \A n \in Node : Claim(n) \/ ClaimAnswered(n) \/ LeaseGranted(n) \/ DropShard(n) => P
  BY <1>3 DEF Claim, ClaimAnswered, LeaseGranted, DropShard, subVars
<1>14. Appending => P BY <1>3, AppendingKeeps
<1>15. \A n \in Node : Subscribe(n) \/ RejectSubscribe(n) \/ Unsubscribe(n) => P
  BY <1>3 DEF Subscribe, RejectSubscribe, Unsubscribe, Takes, subVars
<1>16. \A n \in Node : ReceiveSubscribed(n) \/ ReceiveRejected(n) \/ ReceiveMoved(n) => P
  BY <1>3 DEF ReceiveSubscribed, ReceiveRejected, ReceiveMoved
<1>17. \A n \in Node : LinkDown(n) \/ LinkUp(n) \/ Crash(n) => P BY <1>3, LostAnswer, NumbersKept
<1>18. \A c \in Conn : ClientReceives(c) \/ Ack(c) => P BY <1>3, NumbersKept
<1>19. \A c \in Conn, after \in 0..MaxMessages : FetchAnswered(c, after) \/ FetchFails(c, after) => P BY <1>3, NumbersKept
<1>20. P BY <1>3, <1>4, <1>5, <1>6, <1>7, <1>8, <1>9, <1>10, <1>11, <1>12, <1>13, <1>14, <1>15, <1>16, <1>17, <1>18, <1>19, Cases
<1> QED BY <1>1, <1>2, <1>20 DEF P

LEMMA LinesStep ==
  ASSUME Context, Context', NothingPassedBy, Stays, Step, situation' = situation
  PROVE  \A n \in Node : NodeInLine(n)'
<1> USE DEF Context, EverythingFits
<1>1. /\ SubFits /\ \A n \in Node : NodeInLine(n)
  BY DEF NothingPassedBy
<1>2. /\ stored' >= stored /\ last_forwarded' >= last_forwarded /\ stored \in Nat /\ stored' \in Nat /\ last_forwarded \in Int /\ last_forwarded' \in Int
  BY StoredGrows, ForwardedGrows, Types
<1>3. rec' = rec \/ rec.st \in {"idle", "sent"} => \A n \in Node : KnownAt(n) \subseteq KnownAt(n)' BY <1>2, KnownGrows
<1>4. /\ head \in [Node -> Heads] /\ toNode \in [Node -> Seq({"subscribe", "unsubscribe"})] /\ toGw \in [Node -> Seq(NodeFrame)]
  BY DEF TypeOK
<1>5. \A n \in Node : "unsubscribe" \notin Frames(toNode[n]) BY <1>1 DEF NodeInLine
<1>6. /\ rec.st = "sent" => \A n \in Node \ {rec.node} : ~ Waits(n)
      /\ \A n \in Node : Frames(toGw[n]) \cap Answers # {} => Waits(n)
  BY DEF Waits, QueuesFit, QueueFits
<1> DEFINE P == \A n \in Node : NodeInLine(n)'
           Same == UNCHANGED <<toNode, toGw, rec, subs, head>>
\* Who touches neither the queues nor what the gateway or a node knows.
<1>7. Same => P
  <2> SUFFICES ASSUME Same, NEW n \in Node PROVE NodeInLine(n)' OBVIOUS
  <2>1. KnownAt(n) \subseteq KnownAt(n)' BY <1>3
  <2> QED BY <1>1, <1>5, <2>1, LineKept
<1>8. UseAnswer \/ RepairRead \/ RepairPush => P
  <2> SUFFICES ASSUME UseAnswer \/ RepairRead \/ RepairPush, NEW n \in Node PROVE NodeInLine(n)' OBVIOUS
  <2>1. UNCHANGED <<toNode, toGw, subs, head, stored>> BY DEF UseAnswer, RepairRead, RepairPush, chatVars, linkVars
  <2>2. SUFFICES ASSUME NEW k \in KnownAt(n) PROVE k \in KnownAt(n)' BY <1>1, <1>5, <2>1, LineKept
  <2>3. k \in 1..stored' /\ k \in Nat BY <2>1 DEF KnownAt
  <2>4. rec \in Reconciling /\ rec.to \in Int /\ rec.from \in Int BY Types
  <2>5. CASE UseAnswer
    <3>1. /\ rec.st = "answered" /\ (k <= last_forwarded \/ k <= rec.to) BY <2>5 DEF UseAnswer, KnownAt, Repairs
    <3>2. CASE NothingToRepair
      <4>1. last_forwarded' = AtLeast(AtLeast(last_forwarded, 0), rec.to) BY <2>5, <3>2 DEF UseAnswer
      <4>2. k <= last_forwarded' BY <1>2, <2>3, <2>4, <3>1, <4>1 DEF AtLeast
      <4> QED BY <2>3, <4>2 DEF KnownAt
    <3>3. CASE ~ NothingToRepair
      <4>1. rec' = [rec EXCEPT !.st = "repair", !.from = last_forwarded] /\ last_forwarded' = last_forwarded BY <2>5, <3>3 DEF UseAnswer
      <4>2. rec'.st = "repair" /\ rec'.from = last_forwarded BY <2>4, <4>1 DEF Reconciling
      <4> QED BY <1>2, <2>3, <4>1, <4>2 DEF KnownAt, Repairs
    <3> QED BY <3>2, <3>3
  <2>6. CASE RepairRead
    <3>1. /\ rec.st = "repair" /\ rec' = [rec EXCEPT !.st = "read", !.to = Upto(rec.from)] /\ last_forwarded' = last_forwarded
      BY <2>6 DEF RepairRead
    <3>2. rec.from \in 0..stored BY <3>1 DEF RecFits
    <3>3. Upto(rec.from) = stored
      <4>1. stored - rec.from <= situation.limit /\ situation.limit \in Nat BY <1>2, <3>2, Stayed, Types
      <4> QED BY <1>2, <3>2, <4>1, Types, PageOfStore
    <3>4. rec'.st = "read" /\ rec'.from = rec.from /\ rec'.to = stored BY <2>4, <3>1, <3>3 DEF Reconciling
    <3> QED BY <2>1, <2>3, <3>1, <3>4 DEF KnownAt, Repairs
  <2>7. CASE RepairPush
    <3>1. rec.st = "read" /\ last_forwarded' = AtLeast(last_forwarded, rec.to) BY <2>7 DEF RepairPush
    <3>2. k <= last_forwarded \/ k <= rec.to BY <3>1 DEF KnownAt, Repairs
    <3>3. k <= last_forwarded' BY <1>2, <2>3, <2>4, <3>1, <3>2 DEF AtLeast
    <3> QED BY <2>3, <3>3 DEF KnownAt
  <2> QED BY <2>5, <2>6, <2>7
<1>9. RepairFails => FALSE BY Stayed DEF RepairFails, Fault
<1>10. UnsubscribeUnwanted => FALSE BY Stayed DEF UnsubscribeUnwanted
<1>11. ASSUME NEW by \in Conn \cup {None}, SubscribeMissing(by) PROVE P
  <2>1. rec.st = "idle" /\ SendToNode(map, "subscribe") /\ map \in Node /\ UNCHANGED <<toGw, subs, head>>
    BY <1>11 DEF SubscribeMissing, MayReconcile, Missing, chatVars, TypeOK
  <2>2. \A n \in Node : toNode'[n] = IF n = map /\ map \in up THEN Append(toNode[n], "subscribe") ELSE toNode[n]
    BY <1>4, <2>1, SentToNode
  <2> SUFFICES ASSUME NEW n \in Node PROVE NodeInLine(n)' OBVIOUS
  <2>3. Frames(toNode'[n]) \subseteq Frames(toNode[n]) \cup {"subscribe"}
    <3>1. toNode[n] \in Seq({"subscribe", "unsubscribe"}) /\ "subscribe" \in {"subscribe", "unsubscribe"} BY <1>4
    <3>2. Frames(Append(toNode[n], "subscribe")) = Frames(toNode[n]) \cup {"subscribe"} BY <3>1, Queues DEF QueueOf
    <3> QED BY <2>2, <3>2
  <2> QED BY <1>1, <1>3, <1>5, <2>1, <2>3, LineKept
<1>12. ASSUME NEW f \in fanouts, Fanout(f) PROVE P
  <2> DEFINE n == f.node
             g == NodeSays("deliver", f.id)
  <2>1. /\ head' = IF f.fresh THEN [head EXCEPT ![n] = f.id] ELSE head
        /\ IF n \in subs THEN SendToGw(n, g) ELSE UNCHANGED toGw
        /\ UNCHANGED <<toNode, subs, rec>>
    BY <1>12 DEF Fanout, subVars
  <2>2. f \in FanOut /\ FanoutKnown(f) BY Stayed DEF TypeOK, OneServer
  <2>3. n \in Node /\ f.id \in Ids /\ f.id \in Nat BY <2>2, Constants DEF FanOut, Ids
  <2>4. g \in NodeFrame /\ g.type = "deliver" /\ g.id = f.id BY <2>3 DEF NodeSays, NodeFrame, Heads
  <2> HIDE DEF g, n
  <2>5. \A m \in Node \ {n} : toGw'[m] = toGw[m] /\ head'[m] = head[m] BY <1>4, <2>1, <2>3, <2>4, SentToGw
  <2>6. \A m \in Node \ {n} : NodeInLine(m)' BY <1>1, <1>3, <1>5, <2>1, <2>5, LineKept
  <2>7. CASE n \notin subs
    <3>1. toGw'[n] = toGw[n] BY <2>1, <2>7
    <3>2. NodeInLine(n)' BY <1>1, <1>3, <1>5, <2>1, <2>3, <2>7, <3>1, LineKept
    <3> QED BY <2>6, <3>2
  <2>8. CASE n \in subs
    <3>1. n \in up /\ toGw[n] \in Seq(NodeFrame) BY <1>4, <2>3, <2>8 DEF QueuesFit, QueueFits
    <3>2. toGw'[n] = Append(toGw[n], g) BY <1>4, <2>1, <2>3, <2>4, <2>8, <3>1, SentToGw
    <3>3. head[n] # None /\ head[n] \in Int
      <4>1. head[n] # None BY <2>3, <2>8, Stayed DEF OneServer, LoadedWhereServed
      <4> QED BY <2>3, <4>1, NodeTypes
    <3>4. (f.fresh /\ head[n] = f.id - 1 /\ head'[n] = f.id) \/ (~ f.fresh /\ f.id <= head[n] /\ head'[n] = head[n])
      BY <1>4, <2>1, <2>2, <2>3, <3>3 DEF FanoutKnown, FanOut, n
    <3> DEFINE q == toGw[n]
               K == KnownAt(n)'
    <3>5. InLine(q, K) /\ Covers(q, K, head[n]) BY <1>1, <1>3, <2>1, <2>3, <2>8, LineGrows DEF NodeInLine
    <3> HIDE DEF K
    <3>6. Covers(q, K, f.id - 1) BY <2>3, <3>3, <3>4, <3>5 DEF Covers
    <3>7. InLine(Append(q, g), K) /\ Covers(Append(q, g), K, head'[n]) BY <2>4, <3>1, <3>4, <3>5, <3>6, LineAppended
    <3>8. NodeInLine(n)' BY <1>5, <2>1, <2>3, <2>8, <3>2, <3>7 DEF NodeInLine, K
    <3> QED BY <2>6, <3>8
  <2> QED BY <2>7, <2>8
<1>13. ASSUME NEW n \in Node, DropShard(n) PROVE P
  <2> DEFINE g == NodeSays("shard_moved", None)
  <2>1. /\ head' = [head EXCEPT ![n] = None] /\ subs' = subs \ {n} /\ SendToGw(n, g) /\ UNCHANGED <<up, toNode, rec>>
    BY <1>13 DEF DropShard, Forget, subVars
  <2>2. g \in NodeFrame /\ g.type = "shard_moved" BY DEF NodeSays, NodeFrame, Heads
  <2> HIDE DEF g
  <2>3. \A m \in Node : /\ toGw'[m] = IF m = n /\ n \in up THEN Append(toGw[m], g) ELSE toGw[m]
                        /\ m # n => head'[m] = head[m]
    BY <1>4, <2>1, <2>2, SentToGw
  <2>4. \A m \in Node \ {n} : NodeInLine(m)' BY <1>1, <1>3, <1>5, <2>1, <2>3, LineKept
  <2>5. CASE n \in up
    <3>1. toGw'[n] = Append(toGw[n], g) BY <2>3, <2>5
    <3>2. NodeInLine(n)' BY <1>1, <1>3, <2>1, <2>2, <3>1, LineAfterNews
    <3> QED BY <2>4, <3>2
  <2>6. CASE n \notin up
    <3>1. toGw'[n] = <<>> /\ toNode'[n] = <<>> BY <2>1, <2>3, <2>6 DEF QueuesFit, QueueFits
    <3>2. NodeInLine(n)' BY <2>1, <3>1, LineLost
    <3> QED BY <2>4, <3>2
  <2> QED BY <2>5, <2>6
<1>14. ASSUME NEW n \in Node, CallAppend(n) PROVE P
  <2>1. head' = [head EXCEPT ![n] = Loaded(n)] /\ UNCHANGED <<toNode, toGw, subs, rec>> BY <1>14 DEF CallAppend, linkVars, subVars
  <2>2. head[n] = None => n \notin subs BY Stayed DEF OneServer, LoadedWhereServed
  <2>3. \A m \in Node : head'[m] = head[m] \/ m \notin subs BY <1>4, <2>1, <2>2 DEF Loaded
  <2> QED BY <1>1, <1>3, <1>5, <2>1, <2>3, LineKept
<1>15. ASSUME NEW a \in appends, AppendMessage(a) \/ AmbiguousAppend(a) PROVE P
  BY <1>7, <1>15 DEF AppendMessage, AmbiguousAppend, Commits, linkVars, subVars
\* The server's head is the last message, so the answer teaches it nothing.
<1>16. ASSUME NEW a \in appends, NotAppended(a) PROVE P
  <2>1. UNCHANGED <<toNode, toGw, subs, rec>> BY <1>16 DEF NotAppended, linkVars, subVars
  <2>2. PICK k \in 0..stored : head' = IF a.fresh THEN [head EXCEPT ![a.node] = AtLeast(@, k)] ELSE head
    BY <1>16 DEF NotAppended
  <2>3. a.fresh => a.node \in Node /\ head[a.node] = a.id - 1 /\ a.id \in Nat /\ a.id >= 1 /\ \A f \in fanouts : ~ f.fresh
    <3>1. a \in Call /\ AppendKnown(a) BY Stayed DEF TypeOK, OneServer
    <3> QED BY <3>1, Constants DEF AppendKnown, Call, Ids
  <2>4. a.fresh => head[a.node] = stored
    <3>1. a.fresh => HeadUpToDate(a.node) /\ head[a.node] # None BY <2>3, Stayed DEF OneServer, None
    <3> QED BY <2>3, <3>1 DEF HeadUpToDate
  <2>5. head' = head
    <3>1. AtLeast(stored, k) = stored BY <1>2 DEF AtLeast
    <3> QED BY <1>4, <2>2, <2>3, <2>4, <3>1
  <2> QED BY <1>7, <2>1, <2>5
<1>39. \A n \in Node : CallForgotten(n) => FALSE BY Stayed DEF CallForgotten, Fault, Alone
<1>17. ASSUME NEW n \in Node, Subscribe(n) PROVE P
  <2> DEFINE g == NodeSays("subscribed", Loaded(n))
  <2>1. /\ Takes(n, "subscribe") /\ head' = [head EXCEPT ![n] = Loaded(n)] /\ subs' = subs \cup {n} /\ SendToGw(n, g)
        /\ rec' = rec /\ can_serve(n)
    BY <1>17 DEF Subscribe, Takes, subVars
  <2>2. Loaded(n) \in Heads BY LoadedHead
  <2>3. g \in NodeFrame /\ g.type = "subscribed" /\ g.id = Loaded(n) BY <2>2 DEF NodeSays, NodeFrame
  <2> HIDE DEF g
  <2>4. /\ toNode[n] # <<>> /\ \A m \in Node : toNode'[m] = IF m = n THEN Tail(toNode[m]) ELSE toNode[m]
    BY <1>4, <2>1, TakenByNode
  <2>5. n \in up BY <2>4 DEF QueuesFit, QueueFits
  <2>6. \A m \in Node : toGw'[m] = (IF m = n THEN Append(toGw[m], g) ELSE toGw[m]) /\ head'[m] = (IF m = n THEN Loaded(n) ELSE head[m])
    BY <1>4, <2>1, <2>3, <2>5, SentToGw
  <2>7. \A m \in Node \ {n} : NodeInLine(m)' BY <1>1, <1>3, <1>5, <2>1, <2>4, <2>6, LineKept
  <2> DEFINE q == toGw[n]
             K == KnownAt(n)'
  <2>8. InLine(q, K) /\ q \in Seq(NodeFrame) BY <1>1, <1>3, <1>4, <2>1, LineGrows DEF NodeInLine
  <2> HIDE DEF K
  <2>9. InLine(Append(q, g), K) /\ Covers(Append(q, g), K, Loaded(n)) BY <2>3, <2>8, LineAppended
  <2>10. Frames(toNode'[n]) \subseteq Frames(toNode[n]) BY <1>4, <2>4, Queues DEF QueueOf
  <2>11. NodeInLine(n)' BY <1>5, <2>1, <2>6, <2>9, <2>10 DEF NodeInLine, K
  <2> QED BY <2>7, <2>11
<1>18. ASSUME NEW n \in Node, RejectSubscribe(n) PROVE P
  <2> DEFINE g == NodeSays("rejected", None)
  <2>1. /\ Takes(n, "subscribe") /\ SendToGw(n, g) /\ UNCHANGED <<head, subs, rec>>
    BY <1>18 DEF RejectSubscribe, Takes, subVars
  <2>2. g \in NodeFrame /\ g.type = "rejected" BY DEF NodeSays, NodeFrame, Heads
  <2> HIDE DEF g
  <2>3. /\ toNode[n] # <<>> /\ \A m \in Node : toNode'[m] = IF m = n THEN Tail(toNode[m]) ELSE toNode[m]
    BY <1>4, <2>1, TakenByNode
  <2>4. n \in up BY <2>3 DEF QueuesFit, QueueFits
  <2>5. \A m \in Node : toGw'[m] = (IF m = n THEN Append(toGw[m], g) ELSE toGw[m]) BY <1>4, <2>1, <2>2, <2>4, SentToGw
  <2>6. \A m \in Node \ {n} : NodeInLine(m)' BY <1>1, <1>3, <1>5, <2>1, <2>3, <2>5, LineKept
  <2>7. NodeInLine(n)' BY <1>1, <1>3, <2>1, <2>2, <2>3, <2>5, LineAfterNews
  <2> QED BY <2>6, <2>7
<1>19. ASSUME NEW n \in Node, Unsubscribe(n) PROVE FALSE
  <2>1. toNode[n] # <<>> /\ Head(toNode[n]) = "unsubscribe" BY <1>4, <1>19, TakenByNode DEF Unsubscribe
  <2>2. Head(toNode[n]) \in Frames(toNode[n]) BY <1>4, <2>1, Queues DEF QueueOf
  <2> QED BY <1>5, <2>1, <2>2
\* The gateway takes a frame.
<1>20. ASSUME NEW n \in Node, NEW t, Receives(n, t),
              \A m \in Node : KnownAt(m) \subseteq KnownAt(m)', \A k \in Nat \ {0} : Brings(Head(toGw[n]), k) => k \in KnownAt(n)'
       PROVE  P
  <2>1. /\ toGw[n] # <<>> /\ \A m \in Node : toGw'[m] = IF m = n THEN Tail(toGw[m]) ELSE toGw[m]
    BY <1>4, <1>20, TakenByGateway
  <2>2. UNCHANGED <<toNode, subs, head>> BY <1>20 DEF Receives, chatVars
  <2>3. \A m \in Node \ {n} : NodeInLine(m)' BY <1>1, <1>5, <1>20, <2>1, <2>2, LineKept
  <2>4. NodeInLine(n)' BY <1>1, <1>20, <2>1, <2>2, LineAfterTaking
  <2> QED BY <2>3, <2>4
<1>21. ASSUME NEW n \in Node, ReceiveDeliver(n) PROVE P
  <2> DEFINE f == Head(toGw[n])
  <2>1. Receives(n, "deliver") /\ OnDeliver(f.id) /\ rec' = rec BY <1>21 DEF ReceiveDeliver
  <2>2. toGw[n] # <<>> /\ f.type = "deliver" /\ toGw[n] \in Seq(NodeFrame) BY <1>4, <2>1, TakenByGateway
  <2>3. f \in Frames(toGw[n]) BY <2>2, Queues DEF QueueOf
  <2>4. f.id \in 1..stored BY <2>2, <2>3, FrameNumbers
  <2>5. f.id <= last_forwarded' BY <1>2, <2>1, <2>4 DEF OnDeliver
  <2>6. f.id \in KnownAt(n)' BY <1>2, <2>4, <2>5 DEF KnownAt
  <2>7. \A k \in Nat \ {0} : Brings(f, k) => k \in KnownAt(n)' BY <2>2, <2>6 DEF Brings
  <2> QED BY <1>3, <1>20, <2>1, <2>7
<1>22. ASSUME NEW n \in Node, ReceiveSubscribed(n) PROVE P
  <2> DEFINE f == Head(toGw[n])
  <2>1. Receives(n, "subscribed") /\ rec' = [rec EXCEPT !.st = "answered", !.to = f.id] BY <1>22 DEF ReceiveSubscribed
  <2>2. toGw[n] # <<>> /\ f.type = "subscribed" /\ toGw[n] \in Seq(NodeFrame) /\ f \in NodeFrame BY <1>4, <2>1, TakenByGateway
  <2>3. f \in Frames(toGw[n]) BY <2>2, Queues DEF QueueOf
  <2>4. f.id \in 0..stored BY <2>2, <2>3, FrameNumbers
  <2>5. rec.st = "sent" /\ rec.node = n BY <1>6, <2>2, <2>3 DEF Answers, Waits
  <2> HIDE DEF f
  <2>6. rec'.st = "answered" /\ rec'.node = n /\ rec'.to = f.id BY <2>1, <2>5, Types DEF Reconciling
  <2>7. \A k \in Nat \ {0} : Brings(f, k) => k \in KnownAt(n)' BY <1>2, <2>2, <2>4, <2>6 DEF Brings, KnownAt
  <2> QED BY <1>3, <1>20, <2>1, <2>5, <2>7 DEF f
<1>23. ASSUME NEW n \in Node, ReceiveRejected(n) \/ ReceiveMoved(n) PROVE P
  <2> DEFINE f == Head(toGw[n])
  <2>1. /\ Receives(n, "rejected") \/ (Receives(n, "shard_moved") /\ rec' = rec)
    BY <1>23 DEF ReceiveRejected, ReceiveMoved
  <2>2. toGw[n] # <<>> /\ f.type \in {"rejected", "shard_moved"} /\ toGw[n] \in Seq(NodeFrame) /\ f \in NodeFrame BY <1>4, <2>1, TakenByGateway
  <2>3. f \in Frames(toGw[n]) BY <2>2, Queues DEF QueueOf
  <2>4. Receives(n, "rejected") => rec.st = "sent"
    <3>1. Receives(n, "rejected") => f.type = "rejected" BY <1>4, TakenByGateway
    <3> QED BY <1>6, <2>2, <2>3, <3>1 DEF Answers, Waits
  <2>5. \A k \in Nat \ {0} : Brings(f, k) => k \in KnownAt(n)' BY <2>2 DEF Brings
  <2>6. \A m \in Node : KnownAt(m) \subseteq KnownAt(m)' BY <1>3, <2>1, <2>4
  <2> QED BY <1>20, <2>1, <2>5, <2>6
<1>24. ASSUME NEW n \in Node, LinkDown(n) \/ Crash(n) PROVE P
  <2>1. /\ (Waits(n) /\ Done) \/ (~ Waits(n) /\ UNCHANGED <<rec, conn>>)
        /\ subs' = subs \ {n} /\ toNode' = [toNode EXCEPT ![n] = <<>>] /\ toGw' = [toGw EXCEPT ![n] = <<>>]
    BY <1>24, LostAnswer
  <2>2. /\ toNode'[n] = <<>> /\ toGw'[n] = <<>>
        /\ \A m \in Node \ {n} : toNode'[m] = toNode[m] /\ toGw'[m] = toGw[m] /\ head'[m] = head[m]
    BY <1>4, <1>24, <2>1 DEF LinkDown, Crash
  <2>3. \A m \in Node : KnownAt(m) \subseteq KnownAt(m)' BY <1>3, <2>1 DEF Waits
  <2>4. \A m \in Node \ {n} : NodeInLine(m)' BY <1>1, <1>5, <2>1, <2>2, <2>3, LineKept
  <2>5. NodeInLine(n)' BY <2>1, <2>2, LineLost
  <2> QED BY <2>4, <2>5
<1> HIDE DEF P
<1>25. KeyDeleted \/ MapLearns => P BY <1>7, QueuesKept, NumbersKept
<1>26. \A n \in Node : Claim(n) \/ ClaimAnswered(n) \/ LeaseGranted(n) => P BY <1>7, QueuesKept, NumbersKept
<1>27. \A n \in Node : LinkUp(n) => P BY <1>7 DEF LinkUp, chatVars, subVars
<1>28. \A c \in Conn : Connect(c) \/ NothingMissing(c) \/ CatchupRead(c) \/ CatchupSend(c) => P BY <1>7, QueuesKept, NumbersKept
<1>29. \A c \in Conn : ClientReceives(c) \/ Ack(c) => P BY <1>7, QueuesKept, NumbersKept
<1>30. \A c \in Conn, after \in 0..MaxMessages : FetchAnswered(c, after) \/ FetchFails(c, after) => P BY <1>7, QueuesKept, NumbersKept
<1>31. \A c \in Conn : Disconnect(c) => FALSE BY Stayed, Types DEF Disconnect
<1> HIDE DEF Same
<1>32. \A n \in Node : DropShard(n) => P BY <1>13
<1>40. Appending => P BY <1>14, <1>15, <1>16, <1>39 DEF Appending, Publish, StoreAnswers
<1>33. \A n \in Node : Subscribe(n) \/ RejectSubscribe(n) \/ Unsubscribe(n) => P BY <1>17, <1>18, <1>19
<1>34. \A n \in Node : ReceiveDeliver(n) \/ ReceiveSubscribed(n) \/ ReceiveRejected(n) \/ ReceiveMoved(n) => P BY <1>21, <1>22, <1>23
<1>35. \A n \in Node : LinkDown(n) \/ LinkUp(n) \/ Crash(n) => P BY <1>24, <1>27
<1>36. \A by \in Conn \cup {None} : SubscribeMissing(by) => P BY <1>11
<1>37. \A f \in fanouts : Fanout(f) => P BY <1>12
<1>38. P BY <1>8, <1>9, <1>10, <1>25, <1>26, <1>28, <1>29, <1>30, <1>31, <1>32, <1>33, <1>34, <1>35, <1>36, <1>37, <1>40, Cases
<1> QED BY <1>38 DEF P

\* The steps of reconcile().
RecMoves ==
  \/ rec' = rec
  \/ rec.st \in {"idle", "sent"} /\ rec'.st \in {"idle", "sent"}
  \/ UseAnswer \/ RepairRead \/ RepairPush \/ RepairFails \/ \E n \in Node : ReceiveSubscribed(n)

LEMMA RecMovesStep == ASSUME EverythingFits, Step PROVE RecMoves
<1> USE DEF EverythingFits
<1>1. rec' = rec => RecMoves BY DEF RecMoves
<1>2. \A by \in Conn \cup {None} : SubscribeMissing(by) => RecMoves BY DEF RecMoves, SubscribeMissing, MayReconcile, Idle
<1>3. \A n \in Node : Frames(toGw[n]) \cap Answers # {} => Waits(n) BY DEF QueuesFit, QueueFits
<1>4. ASSUME NEW n \in Node, ReceiveRejected(n) PROVE RecMoves
  <2>1. Receives(n, "rejected") /\ rec' = Idle BY <1>4 DEF ReceiveRejected, Done
  <2>2. toGw[n] # <<>> /\ Head(toGw[n]) \in NodeFrame /\ Head(toGw[n]).type = "rejected" /\ toGw[n] \in Seq(NodeFrame)
    BY <2>1, TakenByGateway, NodeTypes DEF TypeOK
  <2>3. Head(toGw[n]) \in Frames(toGw[n]) BY <2>2, Queues DEF QueueOf
  <2>4. rec.st = "sent" BY <1>3, <2>2, <2>3 DEF Answers, Waits
  <2> QED BY <2>1, <2>4 DEF RecMoves, Idle
<1>5. \A n \in Node : LinkDown(n) \/ Crash(n) => RecMoves BY LostAnswer DEF RecMoves, Waits, Done, Idle
<1>6. UseAnswer \/ RepairRead \/ RepairPush \/ RepairFails => RecMoves BY DEF RecMoves
<1>7. \A n \in Node : ReceiveSubscribed(n) => RecMoves BY DEF RecMoves
<1>8. \A c \in Conn : Connect(c) \/ Disconnect(c) \/ NothingMissing(c) \/ CatchupRead(c) \/ CatchupSend(c) => RecMoves BY <1>1, QueuesKept
<1> DEFINE P == RecMoves
<1> HIDE DEF P
<1>9. rec' = rec => P BY <1>1 DEF P
<1>10. P
  <2>1. P <=> RecMoves BY DEF P
  <2> QED BY <1>2, <1>4, <1>5, <1>6, <1>7, <1>8, <1>9, <2>1, RecAndConnKept, Cases
<1> QED BY <1>10 DEF P

\* A node stops holding the subscription only with news or a lost link.
LEMMA HoldsStep ==
  ASSUME EverythingFits, Step, NEW m \in Node, Holds(m)
  PROVE  Holds(m)' \/ ReceiveMoved(m) \/ LinkDown(m) \/ Crash(m) \/ Unsubscribe(m)
<1> USE DEF EverythingFits
<1>1. toGw \in [Node -> Seq(NodeFrame)] /\ toNode \in [Node -> Seq({"subscribe", "unsubscribe"})] BY DEF TypeOK
<1> DEFINE P == Holds(m)' \/ ReceiveMoved(m) \/ LinkDown(m) \/ Crash(m) \/ Unsubscribe(m)
           Same == up' = up /\ subs' = subs /\ toGw' = toGw
<1>2. Same => P BY DEF Holds
<1>3. ASSUME up' = up, m \in subs => m \in subs', Frames(toGw[m]) \subseteq Frames(toGw'[m]) PROVE P BY <1>3 DEF Holds
<1>4. ASSUME NEW n \in Node, NEW g \in NodeFrame, SendToGw(n, g), up' = up, subs \subseteq subs' PROVE P
  <2>1. Frames(toGw[m]) \subseteq Frames(toGw'[m]) BY <1>4, SentFrames
  <2> QED BY <1>3, <1>4, <2>1
<1>5. ASSUME NEW f \in fanouts, Fanout(f) PROVE P
  <2>1. f \in FanOut BY DEF TypeOK
  <2>2. f.node \in Node /\ NodeSays("deliver", f.id) \in NodeFrame BY <2>1 DEF FanOut, NodeSays, NodeFrame, Heads
  <2>3. /\ SendToGw(f.node, NodeSays("deliver", f.id)) \/ toGw' = toGw
        /\ up' = up /\ subs' = subs
    BY <1>5 DEF Fanout
  <2> QED BY <1>2, <1>4, <2>2, <2>3
<1>6. ASSUME NEW n \in Node, DropShard(n) PROVE P
  <2> DEFINE g == NodeSays("shard_moved", None)
  <2>1. subs' = subs \ {n} /\ SendToGw(n, g) /\ up' = up BY <1>6 DEF DropShard, Forget
  <2>2. g \in NodeFrame /\ g.type = "shard_moved" BY DEF NodeSays, NodeFrame, Heads
  <2> HIDE DEF g
  <2>3. Frames(toGw[m]) \subseteq Frames(toGw'[m]) BY <2>1, <2>2, SentFrames
  <2>4. CASE m # n BY <1>3, <2>1, <2>3, <2>4
  <2>5. CASE m = n
    <3>1. m \in up BY DEF Holds
    <3>2. toGw'[m] = Append(toGw[m], g) BY <1>1, <2>1, <2>2, <2>5, <3>1, SentToGw
    <3>3. g \in Frames(toGw'[m]) BY <1>1, <2>2, <3>2, Queues DEF QueueOf
    <3> QED BY <2>1, <2>2, <3>1, <3>3 DEF Holds
  <2> QED BY <2>4, <2>5
<1>7. ASSUME NEW n \in Node, Subscribe(n) PROVE P
  <2>1. Loaded(n) \in Heads BY LoadedHead
  <2>2. NodeSays("subscribed", Loaded(n)) \in NodeFrame BY <2>1 DEF NodeSays, NodeFrame
  <2> QED BY <1>4, <1>7, <2>2 DEF Subscribe, Takes
<1>8. ASSUME NEW n \in Node, RejectSubscribe(n) PROVE P
  <2>1. NodeSays("rejected", None) \in NodeFrame BY DEF NodeSays, NodeFrame, Heads
  <2> QED BY <1>4, <1>8, <2>1 DEF RejectSubscribe, Takes
<1>9. ASSUME NEW n \in Node, Unsubscribe(n) PROVE P
  <2>1. subs' = subs \ {n} /\ up' = up /\ toGw' = toGw BY <1>9 DEF Unsubscribe, Takes
  <2> QED BY <1>9, <2>1 DEF Holds
<1>10. ASSUME NEW n \in Node, NEW t, Receives(n, t), t # "shard_moved" PROVE P
  <2>1. /\ toGw[n] # <<>> /\ Head(toGw[n]).type = t /\ \A k \in Node : toGw'[k] = IF k = n THEN Tail(toGw[k]) ELSE toGw[k]
    BY <1>1, <1>10, TakenByGateway
  <2>2. subs' = subs /\ up' = up BY <1>10 DEF Receives, chatVars
  <2>3. Frames(toGw[n]) = Frames(Tail(toGw[n])) \cup {Head(toGw[n])} BY <1>1, <2>1, Queues DEF QueueOf
  <2>4. \A f \in Frames(toGw[m]) : f.type = "shard_moved" => f \in Frames(toGw'[m]) BY <1>10, <2>1, <2>3
  <2> QED BY <2>2, <2>4 DEF Holds
<1>11. ASSUME NEW n \in Node, ReceiveMoved(n) PROVE P
  <2>1. /\ \A k \in Node : toGw'[k] = IF k = n THEN Tail(toGw[k]) ELSE toGw[k]
        /\ subs' = subs /\ up' = up
    BY <1>1, <1>11, TakenByGateway DEF ReceiveMoved, Receives, chatVars
  <2> QED BY <1>11, <2>1 DEF Holds
<1>12. ASSUME NEW n \in Node, LinkDown(n) \/ Crash(n) PROVE P
  <2>1. up' = up \ {n} /\ subs' = subs \ {n} /\ toGw' = [toGw EXCEPT ![n] = <<>>] BY <1>12, LostAnswer
  <2> QED BY <1>1, <1>12, <2>1 DEF Holds
<1>13. ASSUME NEW n \in Node, LinkUp(n) PROVE P BY <1>13 DEF LinkUp, chatVars, Holds
<1> HIDE DEF P
<1>14. UseAnswer \/ RepairRead \/ RepairPush \/ RepairFails \/ UnsubscribeUnwanted => P
  BY <1>2 DEF UseAnswer, RepairRead, RepairPush, RepairFails, UnsubscribeUnwanted, chatVars, linkVars
<1>15. \A by \in Conn \cup {None} : SubscribeMissing(by) => P BY <1>2 DEF SubscribeMissing, chatVars
<1>16. KeyDeleted \/ MapLearns => P BY <1>2, QueuesKept
<1>17. \A n \in Node : Claim(n) \/ ClaimAnswered(n) \/ LeaseGranted(n) => P BY <1>2, QueuesKept
<1>18. Appending => P BY <1>2, QueuesKept
<1>19. \A c \in Conn : Connect(c) \/ Disconnect(c) \/ NothingMissing(c) \/ CatchupRead(c) \/ CatchupSend(c) => P BY <1>2, QueuesKept
<1>20. \A c \in Conn : ClientReceives(c) \/ Ack(c) => P BY <1>2, QueuesKept
<1>21. \A c \in Conn, after \in 0..MaxMessages : FetchAnswered(c, after) \/ FetchFails(c, after) => P BY <1>2, QueuesKept
<1>22. \A n \in Node : ReceiveDeliver(n) \/ ReceiveSubscribed(n) \/ ReceiveRejected(n) => P
  BY <1>10 DEF ReceiveDeliver, ReceiveSubscribed, ReceiveRejected
<1> HIDE DEF Same
<1>23. P BY <1>5, <1>6, <1>7, <1>8, <1>9, <1>11, <1>12, <1>13, <1>14, <1>15, <1>16, <1>17, <1>18, <1>19, <1>20, <1>21, <1>22, Cases
<1> QED BY <1>23 DEF P

\* The gateway comes to believe in a subscription only with an answer.
LEMMA SubAtStep == ASSUME Step PROVE sub_at' \in {sub_at, NoNode} \/ (UseAnswer /\ sub_at' = rec.node)
<1> DEFINE P == sub_at' \in {sub_at, NoNode} \/ (UseAnswer /\ sub_at' = rec.node)
<1>1. sub_at' = sub_at => P OBVIOUS
<1>2. MapLearns \/ UseAnswer \/ UnsubscribeUnwanted => P
  BY DEF MapLearns, OnMapChange, UseAnswer, UnsubscribeUnwanted
<1>3. \A n \in Node : ReceiveMoved(n) \/ LinkDown(n) \/ Crash(n) => P BY LostAnswer DEF ReceiveMoved, Unsubscribed
<1> HIDE DEF P
<1>4. KeyDeleted \/ RepairRead \/ RepairPush \/ RepairFails => P BY <1>1 DEF KeyDeleted, RepairRead, RepairPush, RepairFails
<1>5. \A by \in Conn \cup {None} : SubscribeMissing(by) => P BY <1>1 DEF SubscribeMissing
<1>6. \A f \in fanouts : Fanout(f) => P BY <1>1 DEF Fanout, subVars
<1>7. \A n \in Node : Claim(n) \/ ClaimAnswered(n) \/ LeaseGranted(n) \/ DropShard(n) => P
  BY <1>1 DEF Claim, ClaimAnswered, LeaseGranted, DropShard, subVars
<1>8. Appending => P BY <1>1, AppendingKeeps
<1>9. \A n \in Node : Subscribe(n) \/ RejectSubscribe(n) \/ Unsubscribe(n) => P
  BY <1>1 DEF Subscribe, RejectSubscribe, Unsubscribe, Takes, subVars
<1>10. \A n \in Node : ReceiveDeliver(n) \/ ReceiveSubscribed(n) \/ ReceiveRejected(n) \/ LinkUp(n) => P
  BY <1>1 DEF ReceiveDeliver, ReceiveSubscribed, ReceiveRejected, LinkUp, subVars
<1>11. \A c \in Conn : Connect(c) \/ Disconnect(c) \/ NothingMissing(c) \/ CatchupRead(c) \/ CatchupSend(c) => P
  BY <1>1 DEF Connect, Disconnect, NothingMissing, CatchupRead, CatchupSend, subVars
<1>12. \A c \in Conn : ClientReceives(c) \/ Ack(c) => P BY <1>1 DEF ClientReceives, Ack, subVars
<1>13. \A c \in Conn, after \in 0..MaxMessages : FetchAnswered(c, after) \/ FetchFails(c, after) => P
  BY <1>1 DEF FetchAnswered, FetchFails, subVars
<1>14. P BY <1>2, <1>3, <1>4, <1>5, <1>6, <1>7, <1>8, <1>9, <1>10, <1>11, <1>12, <1>13, Cases
<1> QED BY <1>14 DEF P

LEMMA SubFitsStep ==
  ASSUME Context, Context', NothingPassedBy, Stays, Step, situation' = situation PROVE SubFits'
<1> USE DEF Context, EverythingFits
<1>1. SubFits /\ \A n \in Node : NodeInLine(n) BY DEF NothingPassedBy
<1>2. last_forwarded' >= last_forwarded /\ last_forwarded' \in Int /\ last_forwarded \in Int BY ForwardedGrows
<1>3. last_forwarded' # None
  <2>1. last_forwarded \in Heads /\ last_forwarded # None BY <1>1, Types DEF SubFits
  <2> QED BY <1>2, <2>1, Constants DEF Heads, Ids, None
<1>4. toGw \in [Node -> Seq(NodeFrame)] /\ rec \in Reconciling BY DEF TypeOK
<1>5. \A n \in Node : Unsubscribe(n) => FALSE
  <2> SUFFICES ASSUME NEW n \in Node, Unsubscribe(n) PROVE FALSE OBVIOUS
  <2>1. toNode[n] # <<>> /\ Head(toNode[n]) = "unsubscribe" BY TakenByNode DEF Unsubscribe, TypeOK
  <2>2. Head(toNode[n]) \in Frames(toNode[n]) BY <2>1, NodeTypes, Queues DEF QueueOf
  <2> QED BY <1>1, <2>1, <2>2 DEF NodeInLine
<1>6. RepairFails => FALSE BY Stayed DEF RepairFails, Fault
<1>7. RecMoves BY RecMovesStep
\* The answer is in force, or word that it is not is on its way.
<1>8. ASSUME NEW n \in Node, ReceiveSubscribed(n) PROVE Holds(n)' /\ rec'.node = n /\ rec'.st = "answered"
  <2> DEFINE f == Head(toGw[n])
  <2>1. Receives(n, "subscribed") /\ rec' = [rec EXCEPT !.st = "answered", !.to = f.id] BY <1>8 DEF ReceiveSubscribed
  <2>2. toGw[n] # <<>> /\ f.type = "subscribed" /\ toGw[n] \in Seq(NodeFrame) /\ f \in NodeFrame /\ toGw'[n] = Tail(toGw[n])
    BY <1>4, <2>1, TakenByGateway
  <2>3. f \in Frames(toGw[n]) BY <2>2, Queues DEF QueueOf
  <2>4. rec.node = n BY <2>2, <2>3 DEF Answers, Waits, QueuesFit, QueueFits
  <2>5. n \in up' BY <2>1, <2>2 DEF Receives, QueuesFit, QueueFits
  <2>6. subs' = subs BY <2>1 DEF Receives, chatVars
  <2>7. NodeInLine(n) BY <1>1
  <2>8. n \in subs \/ \E g \in Frames(toGw'[n]) : g.type = "shard_moved"
    <3>1. Ends(toGw[n]) => \E g \in Frames(Tail(toGw[n])) : g.type = "shard_moved"
      <4> DEFINE q == toGw[n]
      <4>1. Head(q).type = "subscribed" /\ q # <<>> /\ q \in Seq(NodeFrame) BY <2>2
      <4>2. ASSUME Ends(q) PROVE \E g \in Frames(Tail(q)) : g.type = "shard_moved"
        <5> HIDE DEF q
        <5> DEFINE L == Nat
        <5>1. L \subseteq L /\ \A k \in Nat \ {0} : Brings(Head(q), k) => k \in L OBVIOUS
        <5> HIDE DEF L
        <5> QED BY <4>1, <4>2, <5>1, LineTaken
      <4> QED BY <4>2
    <3> QED BY <2>2, <2>7, <3>1 DEF NodeInLine
  <2> QED BY <1>4, <2>1, <2>4, <2>5, <2>6, <2>8 DEF Holds, Reconciling
<1>9. \A n \in Node : ReceiveMoved(n) \/ LinkDown(n) \/ Crash(n) => sub_at' # n /\ rec.st # "answered" /\ rec'.st # "answered"
  <2> SUFFICES ASSUME NEW n \in Node, ReceiveMoved(n) \/ LinkDown(n) \/ Crash(n)
               PROVE  sub_at' # n /\ rec.st # "answered" /\ rec'.st # "answered"
    OBVIOUS
  <2>1. Unsubscribed(n) BY LostAnswer DEF ReceiveMoved
  <2>2. rec.st # "answered" BY Stayed DEF ReceiveMoved, Receives, LinkDown, Crash, Responsive
  <2>3. rec' = rec \/ rec' = Idle BY LostAnswer DEF ReceiveMoved, Done
  <2>4. n # NoNode BY Constants
  <2> QED BY <2>1, <2>2, <2>3, <2>4 DEF Unsubscribed, Idle
<1>10. sub_at' # NoNode => Holds(sub_at)'
  <2> SUFFICES ASSUME NEW m \in Node, m = sub_at' PROVE Holds(m)' BY DEF Holds, TypeOK
  <2>1. m = sub_at \/ (UseAnswer /\ m = rec.node) BY SubAtStep, Constants
  <2>2. Holds(m)
    <3>1. CASE m = sub_at BY <1>1, <3>1, Constants DEF SubFits, Holds
    <3>2. CASE UseAnswer /\ m = rec.node BY <1>1, <3>2 DEF SubFits, Holds, UseAnswer
    <3> QED BY <2>1, <3>1, <3>2
  <2> QED BY <1>5, <1>9, <2>2, HoldsStep
<1>11. rec'.st = "answered" => Holds(rec.node)'
  <2> SUFFICES ASSUME rec'.st = "answered", NEW m \in Node, m = rec'.node PROVE Holds(m)' BY DEF Holds, RecFits
  <2>1. CASE rec' = rec
    <3>1. Holds(m) BY <1>1, <2>1 DEF SubFits, Holds
    <3> QED BY <1>5, <1>9, <3>1, HoldsStep
  <2>2. rec' = rec \/ \E n \in Node : ReceiveSubscribed(n)
    <3>1. UseAnswer => rec' = Idle \/ rec' = [rec EXCEPT !.st = "repair", !.from = last_forwarded] BY DEF UseAnswer, Done
    <3>2. RepairRead => rec' = [rec EXCEPT !.st = "read", !.to = Upto(rec.from)] BY DEF RepairRead
    <3>3. RepairPush => rec' = Idle BY DEF RepairPush, Done
    <3>4. ~ UseAnswer /\ ~ RepairRead /\ ~ RepairPush
      <4>1. rec' = Idle => FALSE BY DEF Idle
      <4>2. rec' = [rec EXCEPT !.st = "repair", !.from = last_forwarded] => FALSE BY <1>4 DEF Reconciling
      <4>3. rec' = [rec EXCEPT !.st = "read", !.to = Upto(rec.from)] => FALSE BY <1>4 DEF Reconciling
      <4> QED BY <3>1, <3>2, <3>3, <4>1, <4>2, <4>3
    <3> QED BY <1>6, <1>7, <3>4 DEF RecMoves
  <2> QED BY <1>8, <2>1, <2>2
<1>12. rec'.st \in {"repair", "read"} => rec'.from <= last_forwarded'
  <2> SUFFICES ASSUME rec'.st \in {"repair", "read"} PROVE rec'.from <= last_forwarded' OBVIOUS
  <2>1. rec.from \in Int /\ (rec.st \in {"repair", "read"} => rec.from <= last_forwarded) BY <1>1, Types DEF SubFits
  <2>2. CASE rec' = rec BY <1>2, <2>1, <2>2
  <2>3. CASE UseAnswer
    <3>1. ~ Done BY <2>3 DEF Done, Idle
    <3>2. rec' = [rec EXCEPT !.st = "repair", !.from = last_forwarded] BY <2>3, <3>1 DEF UseAnswer
    <3> QED BY <1>2, <1>4, <3>2 DEF Reconciling
  <2>4. CASE RepairRead
    <3>1. rec.st = "repair" /\ rec' = [rec EXCEPT !.st = "read", !.to = Upto(rec.from)] BY <2>4 DEF RepairRead
    <3>2. rec'.from = rec.from BY <1>4, <3>1 DEF Reconciling
    <3> QED BY <1>2, <2>1, <3>1, <3>2
  <2>5. ~ RepairPush BY DEF RepairPush, Done, Idle
  <2> QED BY <1>6, <1>7, <1>8, <2>2, <2>3, <2>4, <2>5 DEF RecMoves
<1> QED BY <1>3, <1>10, <1>11, <1>12 DEF SubFits

\* Messages are pushed.
PushedAll(cs, from, to) ==
  \A c \in Conn : /\ Frames(toClient[c]) \subseteq Frames(toClient'[c])
                  /\ c \in cs => \A k \in from + 1..to : \E f \in Frames(toClient'[c]) : FrameIds(f) = {k}

LEMMA PushedFrames ==
  ASSUME TypeOK, NEW cs \in SUBSET Conn, NEW from \in Int, from >= -1, NEW to \in 0..MaxMessages, Push(cs, from, to, <<>>)
  PROVE  PushedAll(cs, from, to)
<1> DEFINE none == <<>>
<1>1. none \in Seq(ClientFrame) /\ toClient \in [Conn -> Seq(ClientFrame)] BY DEF TypeOK
<1>2. Push(cs, from, to, none) OBVIOUS
<1> HIDE DEF none
<1>3. PushGoes(cs, from, to, none) BY <1>1, <1>2, PushedToConns
<1> SUFFICES ASSUME NEW c \in Conn PROVE /\ Frames(toClient[c]) \subseteq Frames(toClient'[c])
                                         /\ c \in cs => \A k \in from + 1..to : \E f \in Frames(toClient'[c]) : FrameIds(f) = {k}
  BY DEF PushedAll
<1>4. /\ c \notin cs => toClient'[c] = toClient[c]
      /\ c \in cs => Frames(toClient'[c]) = Frames(toClient[c]) \cup Pushed(from, to) \cup Frames(none)
  BY <1>3 DEF PushGoes
<1>5. \A k \in from + 1..to : Frame("newMessage", k, k, FALSE) \in Pushed(from, to) /\ FrameIds(Frame("newMessage", k, k, FALSE)) = {k}
  BY DEF Pushed, FrameIds, Frame
<1> QED BY <1>4, <1>5

\* What a client has it keeps, until it goes.
LEMMA HasGrows ==
  ASSUME EverythingFits, Step, NEW c \in Conn, ~ Disconnect(c), ~ RepairFails PROVE Has(c) \subseteq Has(c)'
<1> USE DEF EverythingFits
<1>1. stored \in Nat /\ MaxMessages \in Nat /\ stored <= MaxMessages /\ client \in [Conn -> Page] /\ toClient \in [Conn -> Seq(ClientFrame)]
  BY Types DEF TypeOK
<1> DEFINE P == Has(c) \subseteq Has(c)'
           Grows == Seen(client[c]) \subseteq Seen(client'[c]) /\ Frames(toClient[c]) \subseteq Frames(toClient'[c])
<1>2. Grows => P BY DEF Has
<1>3. client' = client /\ toClient' = toClient => Grows OBVIOUS
<1>4. RepairPush => Grows
  <2> SUFFICES ASSUME RepairPush PROVE Grows OBVIOUS
  <2>1. rec.st = "read" /\ Push(chat_conns, rec.from, rec.to, <<>>) /\ client' = client BY DEF RepairPush
  <2>2. rec.from \in Nat /\ rec.to \in 0..MaxMessages /\ chat_conns \in SUBSET Conn BY <1>1, <2>1 DEF RecFits, chat_conns
  <2>3. rec.from \in Int /\ rec.from >= -1 BY <2>2
  <2> QED BY <2>1, <2>2, <2>3, PushedFrames DEF PushedAll
<1>5. \A n \in Node : ReceiveDeliver(n) => Grows
  <2> SUFFICES ASSUME NEW n \in Node, ReceiveDeliver(n) PROVE Grows OBVIOUS
  <2>1. Receives(n, "deliver") /\ OnDeliver(Head(toGw[n]).id) /\ client' = client BY DEF ReceiveDeliver, Receives
  <2>2. Head(toGw[n]).type = "deliver" /\ toGw[n] # <<>> BY <2>1 DEF Receives
  <2>3. Head(toGw[n]) \in Frames(toGw[n]) BY <2>2, NodeTypes, Queues DEF QueueOf
  <2> DEFINE id == Head(toGw[n]).id
             cs == {d \in chat_conns : id > floor[d]}
  <2>4. id \in 1..stored BY <2>2, <2>3, FrameNumbers
  <2>5. toClient' = toClient \/ Push(cs, id - 1, id, <<>>) BY <2>1 DEF OnDeliver
  <2>6. cs \in SUBSET Conn BY DEF chat_conns
  <2> HIDE DEF id, cs
  <2>7. id \in 0..MaxMessages /\ id - 1 \in Int /\ id - 1 >= -1 BY <1>1, <2>4
  <2> QED BY <1>3, <2>1, <2>5, <2>6, <2>7, PushedFrames DEF PushedAll
<1>6. \A n \in Node : ReceiveRejected(n) \/ LinkDown(n) \/ Crash(n) => Grows BY <1>3, LostAnswer DEF ReceiveRejected, Receives
<1>7. \A d \in Conn : Disconnect(d) => Grows
  <2> SUFFICES ASSUME NEW d \in Conn, Disconnect(d) PROVE Grows OBVIOUS
  <2>1. d # c /\ Leave(d) BY DEF Disconnect
  <2>2. client'[c] = client[c] /\ toClient'[c] = toClient[c] BY <1>1, <2>1 DEF Leave
  <2> QED BY <2>2
<1>8. \A d \in Conn : Connect(d) \/ NothingMissing(d) \/ CatchupRead(d) \/ Ack(d) => Grows
  BY <1>3 DEF Connect, NothingMissing, CatchupRead, Ack
<1>9. \A d \in Conn : CatchupSend(d) => Grows
  <2> SUFFICES ASSUME NEW d \in Conn, CatchupSend(d) PROVE Grows OBVIOUS
  <2> DEFINE others == <<Frame("catchupDone", 0, 0, conn[d].more)>>
  <2>1. Push({d}, conn[d].after, conn[d].to, others) /\ client' = client BY DEF CatchupSend
  <2>2. conn[d].after \in Int /\ conn[d].after >= -1 /\ conn[d].to \in 0..MaxMessages /\ conn[d].more \in BOOLEAN /\ {d} \in SUBSET Conn BY ConnTypes
  <2>3. Frame("catchupDone", 0, 0, conn[d].more) \in ClientFrame BY <1>1, <2>2 DEF Frame, ClientFrame
  <2>4. others \in Seq(ClientFrame) BY <2>3
  <2> HIDE DEF others
  <2>5. PushGoes({d}, conn[d].after, conn[d].to, others) BY <1>1, <2>1, <2>2, <2>4, PushedToConns
  <2>6. Frames(toClient[c]) \subseteq Frames(toClient'[c]) BY <2>5 DEF PushGoes
  <2> QED BY <2>1, <2>6
<1>10. \A d \in Conn, after \in 0..MaxMessages : FetchAnswered(d, after) \/ FetchFails(d, after) => Grows
  <2> SUFFICES ASSUME NEW d \in Conn, NEW after \in 0..MaxMessages, FetchAnswered(d, after) \/ FetchFails(d, after) PROVE Grows OBVIOUS
  <2> DEFINE g == Frame("messages", after, Upto(after), HasMore(Upto(after)))
  <2>1. /\ after \in client[d].asked /\ client' = [client EXCEPT ![d].asked = client[d].asked \ {after}]
        /\ toClient' = [toClient EXCEPT ![d] = Append(toClient[d], g)] \/ toClient' = toClient
    BY DEF FetchAnswered, FetchFails
  <2>2. PageFits(d) /\ client[d] \in Page /\ client[d].lastSeen \in Nat BY ConnTypes, PageFields DEF PagesFit
  <2>3. after <= stored /\ after \in Int
    <3>1. after <= client[d].lastSeen /\ client[d].lastSeen <= stored BY <2>1, <2>2 DEF PageFits, Tidy
    <3> QED BY <1>1, <2>2, <3>1
  <2>4. Upto(after) \in after..stored /\ HasMore(Upto(after)) \in BOOLEAN BY <1>1, <2>3, Types, PageOfStore
  <2>5. g \in ClientFrame BY <1>1, <2>3, <2>4 DEF Frame, ClientFrame
  <2> HIDE DEF g
  <2>6. Frames(Append(toClient[d], g)) = Frames(toClient[d]) \cup {g} BY <1>1, <2>5, Queues DEF QueueOf
  <2>7. Frames(toClient[c]) \subseteq Frames(toClient'[c])
    <3>1. toClient'[c] = toClient[c] \/ (c = d /\ toClient'[c] = Append(toClient[d], g)) BY <1>1, <2>1
    <3> QED BY <2>6, <3>1
  <2>8. client'[c].lastSeen = client[c].lastSeen /\ client'[c].buffer = client[c].buffer
    <3>1. client'[c] = client[c] \/ (c = d /\ client'[c] = [client[c] EXCEPT !.asked = client[d].asked \ {after}]) BY <1>1, <2>1
    <3>2. client[c] \in Page BY <1>1
    <3> QED BY <3>1, <3>2 DEF Page
  <2> QED BY <2>7, <2>8 DEF Seen
<1>11. ASSUME NEW d \in Conn, ClientReceives(d) PROVE P
  <2> DEFINE s == toClient[d]
             f == Head(s)
             p == client[d]
             q == After(p, f)
             t == Tail(s)
  <2>1. s # <<>> /\ client' = [client EXCEPT ![d] = q] /\ toClient' = [toClient EXCEPT ![d] = t] BY <1>11 DEF ClientReceives
  <2>2. CASE c # d
    <3>1. client'[c] = client[c] /\ toClient'[c] = toClient[c] BY <1>1, <2>1, <2>2
    <3> QED BY <1>2, <3>1
  <2>3. CASE c = d
    <3>1. client'[c] = q /\ toClient'[c] = t BY <1>1, <2>1, <2>3
    <3>2. PageFits(d) /\ p \in Page /\ s \in Seq(ClientFrame) BY <1>1 DEF PagesFit
    <3>3. f \in ClientFrame /\ f \in Frames(s) /\ Frames(s) = Frames(t) \cup {f} BY <2>1, <3>2, Queues DEF QueueOf
    <3>4. FrameFits(p, f) BY <3>2, <3>3 DEF PageFits
    <3>5. Follows(p, f, q) BY <3>2, <3>3, <3>4, FrameFollows
    <3>6. Seen(q) = Seen(p) \cup FrameIds(f) BY <3>5 DEF Follows
    <3>7. Has(c) = Seen(p) \cup UNION {FrameIds(g) : g \in Frames(s)} BY <2>3 DEF Has
    <3>8. Has(c)' = Seen(q) \cup UNION {FrameIds(g) : g \in Frames(t)} BY <3>1 DEF Has
    <3> HIDE DEF s, f, p, q, t
    <3> QED BY <3>3, <3>6, <3>7, <3>8
  <2> QED BY <2>2, <2>3
<1> HIDE DEF P, Grows
<1>12. UseAnswer => P BY <1>2, <1>3 DEF UseAnswer
<1>13. UNCHANGED connVars => P BY <1>2, <1>3 DEF connVars
<1>14. P BY <1>2, <1>4, <1>5, <1>6, <1>7, <1>8, <1>9, <1>10, <1>11, <1>12, <1>13, ConnsKept, Cases
<1> QED BY <1>14 DEF P

\* Who forwards messages.
LEMMA WhoForwards ==
  ASSUME Context, NothingPassedBy, Stays, Step
  PROVE  UNCHANGED <<last_forwarded, floor>> \/ RepairPush \/ \E n \in Node : ReceiveDeliver(n)
<1> USE DEF Context, EverythingFits
<1> DEFINE P == UNCHANGED <<last_forwarded, floor>> \/ RepairPush \/ \E n \in Node : ReceiveDeliver(n)
<1>1. UNCHANGED <<last_forwarded, floor>> => P OBVIOUS
<1>2. RepairPush => P OBVIOUS
<1>3. \A n \in Node : ReceiveDeliver(n) => P OBVIOUS
<1>4. UseAnswer => P
  <2> SUFFICES ASSUME UseAnswer PROVE UNCHANGED <<last_forwarded, floor>> OBVIOUS
  <2>1. floor' = floor /\ (NothingToRepair => last_forwarded' = AtLeast(AtLeast(last_forwarded, 0), rec.to)) /\ (~ NothingToRepair => last_forwarded' = last_forwarded)
    BY DEF UseAnswer
  <2>2. last_forwarded \in Heads /\ last_forwarded # None /\ rec.to \in Int /\ last_forwarded \in Int BY Types DEF NothingPassedBy, SubFits
  <2>3. last_forwarded >= 0 BY <2>2, Constants DEF Heads, Ids, None
  <2> QED BY <2>1, <2>2, <2>3 DEF NothingToRepair, AtLeast
<1>5. RepairFails => FALSE BY Stayed DEF RepairFails, Fault
<1>6. \A c \in Conn : Connect(c) \/ Disconnect(c) \/ CatchupSend(c) => FALSE
  <2>1. situation.connects = 0 /\ used.connects \in Nat /\ \A c \in Conn : conn[c].st \in {"on", "off"} BY Stayed, Types
  <2> QED BY <2>1, Types DEF Connect, Disconnect, CatchupSend
<1>7. \A c \in Conn : NothingMissing(c) \/ CatchupRead(c) => UNCHANGED <<last_forwarded, floor>>
  BY DEF NothingMissing, CatchupRead, subVars
<1>8. \A n \in Node : ReceiveSubscribed(n) \/ ReceiveRejected(n) \/ ReceiveMoved(n) \/ LinkDown(n) \/ Crash(n) => UNCHANGED <<last_forwarded, floor>>
  BY LostAnswer DEF ReceiveSubscribed, ReceiveRejected, ReceiveMoved
<1>9. \A c \in Conn : ClientReceives(c) \/ Ack(c) => UNCHANGED <<last_forwarded, floor>> BY DEF ClientReceives, Ack, subVars
<1>10. \A c \in Conn, after \in 0..MaxMessages : FetchAnswered(c, after) \/ FetchFails(c, after) => UNCHANGED <<last_forwarded, floor>>
  BY DEF FetchAnswered, FetchFails, subVars
<1>11. UNCHANGED connVars => floor' = floor BY DEF connVars
<1>12. \A f \in fanouts : Fanout(f) => last_forwarded' = last_forwarded BY DEF Fanout, subVars
<1>13. \A n \in Node : DropShard(n) => last_forwarded' = last_forwarded BY DEF DropShard, subVars
<1>14. Appending => last_forwarded' = last_forwarded BY AppendingKeeps
<1>15. \A n \in Node : Subscribe(n) \/ RejectSubscribe(n) \/ Unsubscribe(n) => last_forwarded' = last_forwarded
  BY DEF Subscribe, RejectSubscribe, Unsubscribe, Takes, subVars
<1> HIDE DEF P
<1>16. KeyDeleted \/ MapLearns \/ UnsubscribeUnwanted \/ RepairRead => P BY <1>1, <1>11, NumbersKept, ConnsKept
<1>17. \A by \in Conn \cup {None} : SubscribeMissing(by) => P BY <1>1, <1>11, NumbersKept, ConnsKept
<1>18. \A f \in fanouts : Fanout(f) => P BY <1>1, <1>11, <1>12, ConnsKept
<1>19. \A n \in Node : Claim(n) \/ ClaimAnswered(n) \/ LeaseGranted(n) \/ DropShard(n) => P BY <1>1, <1>11, <1>13, NumbersKept, ConnsKept
<1>20. Appending => P BY <1>1, <1>11, <1>14, ConnsKept
<1>21. \A n \in Node : Subscribe(n) \/ RejectSubscribe(n) \/ Unsubscribe(n) => P BY <1>1, <1>11, <1>15, ConnsKept
<1>22. \A n \in Node : LinkUp(n) => P BY <1>1, <1>11, NumbersKept, ConnsKept
<1>23. P BY <1>1, <1>2, <1>3, <1>4, <1>5, <1>6, <1>7, <1>8, <1>9, <1>10, <1>16, <1>17, <1>18, <1>19, <1>20, <1>21, <1>22, Cases
<1> QED BY <1>23 DEF P

\* A message that a repair will push stays so until it is pushed.
LEMMA StillRepairs ==
  ASSUME Context, NothingPassedBy, Stays, Step, ~ RepairPush, NEW k \in 1..stored, Repairs(k) PROVE Repairs(k)'
<1> USE DEF Context, EverythingFits
<1>1. rec \in Reconciling /\ rec.to \in Int /\ rec.from \in Int /\ rec.st \in {"repair", "read"} BY Types DEF Repairs
<1>2. CASE rec' = rec BY <1>2 DEF Repairs
<1>3. CASE RepairRead
  <2>1. rec.st = "repair" /\ rec' = [rec EXCEPT !.st = "read", !.to = Upto(rec.from)] BY <1>3 DEF RepairRead
  <2>2. rec.from \in 0..stored BY <2>1 DEF RecFits
  <2>3. Upto(rec.from) = stored
    <3>1. stored \in Nat /\ stored - rec.from <= situation.limit /\ situation.limit \in Nat BY <2>2, Stayed, Types
    <3> QED BY <2>2, <3>1, Types, PageOfStore
  <2>4. rec'.st = "read" /\ rec'.from = rec.from /\ rec'.to = stored BY <1>1, <2>1, <2>3 DEF Reconciling
  <2> QED BY <2>1, <2>4 DEF Repairs
<1>4. ~ RepairFails BY Stayed DEF RepairFails, Fault
<1>5. ~ UseAnswer BY <1>1 DEF UseAnswer
<1>6. \A n \in Node : ~ ReceiveSubscribed(n)
  <2> SUFFICES ASSUME NEW n \in Node, ReceiveSubscribed(n) PROVE FALSE OBVIOUS
  <2>1. toGw[n] # <<>> /\ Head(toGw[n]).type = "subscribed" /\ toGw[n] \in Seq(NodeFrame)
    BY NodeTypes, TakenByGateway DEF ReceiveSubscribed, TypeOK
  <2>2. Head(toGw[n]) \in Frames(toGw[n]) BY <2>1, Queues DEF QueueOf
  <2>3. Frames(toGw[n]) \cap Answers # {} => Waits(n) BY DEF QueuesFit, QueueFits
  <2> QED BY <1>1, <2>1, <2>2, <2>3 DEF Answers, Waits
<1> QED BY <1>1, <1>2, <1>3, <1>4, <1>5, <1>6, RecMovesStep DEF RecMoves

LEMMA ForwardedStep ==
  ASSUME Context, Context', NothingPassedBy, Stays, Step, situation' = situation, NEW c \in situation.connected PROVE Forwarded(c)'
<1> USE DEF Context, EverythingFits
<1>1. SubFits /\ Forwarded(c) /\ \A n \in Node : NodeInLine(n) BY DEF NothingPassedBy
<1>2. /\ stored \in Nat /\ stored' \in Nat /\ stored' >= stored /\ last_forwarded' >= last_forwarded /\ last_forwarded' \in Int
      /\ last_forwarded \in Int /\ last_forwarded <= stored /\ MaxMessages \in Nat /\ stored <= MaxMessages /\ rec.to \in Int /\ rec.from \in Int
  BY StoredGrows, ForwardedGrows, Types DEF Fits
<1>3. c \in Conn /\ c \in chat_conns /\ chat_conns \in SUBSET Conn BY Stayed
<1>4. Has(c) \subseteq Has(c)'
  <2>1. ~ RepairFails BY Stayed DEF RepairFails, Fault
  <2>2. ~ Disconnect(c) BY Stayed, Types DEF Disconnect
  <2> QED BY <1>3, <2>1, <2>2, HasGrows
<1>5. floor[c] \in Nat BY <1>3, ConnTypes
<1>6. CASE UNCHANGED <<last_forwarded, floor>> /\ ~ RepairPush
  <2> SUFFICES ASSUME NEW k \in 1..stored' PROVE k \in Has(c)' \/ k > last_forwarded' \/ Repairs(k)'
    BY <1>1, <1>6 DEF Forwarded
  <2>1. CASE k > last_forwarded BY <1>6, <2>1
  <2>2. CASE k <= last_forwarded
    <3>1. k \in 1..stored BY <1>2, <2>2
    <3>2. k \in Has(c) \/ Repairs(k) BY <1>1, <1>2, <2>2, <3>1 DEF Forwarded
    <3>3. Repairs(k) => Repairs(k)' BY <1>6, <3>1, StillRepairs
    <3> QED BY <1>4, <3>2, <3>3
  <2> QED BY <1>2, <2>1, <2>2
<1>7. CASE RepairPush
  <2>1. /\ rec.st = "read" /\ last_forwarded' = AtLeast(last_forwarded, rec.to) /\ stored' = stored
        /\ RaiseFloor(chat_conns, rec.to) /\ Push(chat_conns, rec.from, rec.to, <<>>)
    BY <1>7 DEF RepairPush, chatVars
  <2>2. rec.from <= last_forwarded /\ rec.from \in 0..stored /\ rec.to \in 0..stored BY <1>1, <1>2, <2>1 DEF SubFits, RecFits
  <2>3. floor'[c] = AtLeast(floor[c], rec.to) BY <1>3, <2>1 DEF RaiseFloor
  <2>4. floor'[c] <= last_forwarded' BY <1>1, <1>2, <1>5, <2>1, <2>3 DEF AtLeast, Forwarded
  <2>5. \A k \in rec.from + 1..rec.to : k \in Has(c)'
    <3> DEFINE from == rec.from
               to == rec.to
    <3>1. from \in Int /\ from >= -1 /\ to \in 0..MaxMessages /\ Push(chat_conns, from, to, <<>>) BY <1>2, <2>1, <2>2
    <3>2. TypeOK OBVIOUS
    <3> HIDE DEF from, to, Context, EverythingFits
    <3>3. PushedAll(chat_conns, from, to)
      BY ONLY <1>3, <3>1, <3>2, PushedFrames
    <3>4. \A k \in from + 1..to : \E f \in Frames(toClient'[c]) : FrameIds(f) = {k} BY <1>3, <3>3 DEF PushedAll
    <3> QED BY <3>4 DEF Has, from, to
  <2> SUFFICES ASSUME NEW k \in 1..stored, k <= last_forwarded' PROVE k \in Has(c)'
    BY <1>2, <2>1, <2>4 DEF Forwarded
  <2>6. CASE k \in rec.from + 1..rec.to BY <2>5, <2>6
  <2>7. CASE k \notin rec.from + 1..rec.to
    <3>1. k <= last_forwarded /\ ~ Repairs(k) BY <1>2, <2>1, <2>2, <2>7 DEF AtLeast, Repairs
    <3> QED BY <1>1, <1>2, <1>4, <3>1 DEF Forwarded
  <2> QED BY <2>6, <2>7
<1>8. ASSUME NEW n \in Node, ReceiveDeliver(n) PROVE Forwarded(c)'
  <2> DEFINE q == toGw[n]
             id == Head(q).id
             cs == {d \in chat_conns : id > floor[d]}
  <2>1. Receives(n, "deliver") /\ OnDeliver(id) /\ rec' = rec /\ stored' = stored BY <1>8 DEF ReceiveDeliver, Receives, chatVars
  <2>2. Head(q).type = "deliver" /\ q # <<>> /\ q \in Seq(NodeFrame) /\ rec.st # "answered"
    BY <2>1, Stayed, NodeTypes DEF Receives, Responsive
  <2>3. id \in 1..stored
    <3>1. Head(q) \in Frames(q) BY <2>2, Queues DEF QueueOf
    <3> QED BY <2>2, <3>1, FrameNumbers
  <2>4. \A k \in 1..id - 1 : k \in KnownAt(n)
    <3>1. InLine(q, KnownAt(n)) BY <1>1 DEF NodeInLine
    <3> HIDE DEF q
    <3> DEFINE K == KnownAt(n)
    <3>2. ASSUME NEW L, L = K \cup (Nat \ {0}) PROVE \A k \in 1..Head(q).id - 1 : k \in K
      <4>1. K \subseteq L /\ \A k \in Nat \ {0} : Brings(Head(q), k) => k \in L BY <3>2
      <4> HIDE DEF K
      <4> QED BY <2>2, <3>1, <4>1, LineTaken DEF K
    <3> QED BY <3>2
  <2>5. CASE id <= last_forwarded
    <3>1. UNCHANGED <<last_forwarded, floor>> BY <2>1, <2>5 DEF OnDeliver
    <3>2. ~ RepairPush BY <2>1 DEF RepairPush, Done, Idle
    <3> QED BY <1>6, <3>1, <3>2
  <2>6. CASE ~ id <= last_forwarded
    <3>1. last_forwarded' = id /\ RaiseFloor(cs, id) /\ Push(cs, id - 1, id, <<>>) BY <2>1, <2>6 DEF OnDeliver
    <3>2. c \in cs BY <1>1, <1>2, <1>3, <1>5, <2>3, <2>6 DEF Forwarded
    <3>3. cs \in SUBSET Conn BY <1>3
    <3> HIDE DEF cs, id
    <3>4. floor'[c] = AtLeast(floor[c], id) BY <1>3, <3>1, <3>2 DEF RaiseFloor
    <3>5. floor'[c] <= last_forwarded' BY <1>1, <1>2, <1>5, <2>3, <2>6, <3>1, <3>4 DEF AtLeast, Forwarded
    <3>6. id \in Has(c)'
      <4> DEFINE from == id - 1
      <4>1. id \in 0..MaxMessages /\ from \in Int /\ from >= -1 /\ id \in from + 1..id /\ Push(cs, from, id, <<>>) BY <1>2, <2>3, <3>1
      <4>2. TypeOK OBVIOUS
      <4> HIDE DEF from, Context, EverythingFits
      <4>3. PushedAll(cs, from, id)
        BY ONLY <3>3, <4>1, <4>2, PushedFrames
      <4>4. \E f \in Frames(toClient'[c]) : FrameIds(f) = {id} BY <1>3, <3>2, <4>1, <4>3 DEF PushedAll
      <4> QED BY <4>4 DEF Has
    <3> SUFFICES ASSUME NEW k \in 1..stored, k <= id PROVE k \in Has(c)' \/ Repairs(k)'
      BY <1>2, <2>1, <2>3, <3>1, <3>5 DEF Forwarded
    <3>7. Repairs(k) => Repairs(k)' BY <2>1 DEF Repairs
    <3>8. CASE k = id BY <3>6, <3>8
    <3>9. CASE k # id
      <4>1. k \in 1..id - 1 BY <2>3, <3>9
      <4>2. k <= last_forwarded \/ Repairs(k) BY <2>2, <2>4, <4>1 DEF KnownAt
      <4>3. k <= last_forwarded => k \in Has(c) \/ Repairs(k) BY <1>1, <1>2 DEF Forwarded
      <4> QED BY <1>4, <3>7, <4>2, <4>3
    <3> QED BY <3>8, <3>9
  <2> QED BY <2>5, <2>6
<1> QED BY <1>6, <1>7, <1>8, WhoForwards

LEMMA StaysNext == Context /\ Context' /\ NothingPassedBy /\ [Next]_vars => NothingPassedBy'
<1> SUFFICES ASSUME Context, Context', NothingPassedBy, [Next]_vars PROVE NothingPassedBy' OBVIOUS
<1>1. CASE UNCHANGED vars
  <2>1. /\ UNCHANGED <<stored, head, subs, up, toNode, toGw, sub_at, last_forwarded, rec, floor, toClient, client, situation>>
    BY <1>1 DEF vars, steps, chatVars, linkVars, subVars, connVars
  <2>2. Stays' = Stays BY <2>1 DEF Stays, Careful, Staying
  <2>3. SubFits => SubFits' BY <2>1 DEF SubFits, Holds
  <2>4. \A n \in Node : NodeInLine(n) => NodeInLine(n)' BY <2>1 DEF NodeInLine, KnownAt, Repairs
  <2>5. \A c \in situation.connected : Forwarded(c) => Forwarded(c)' BY <2>1 DEF Forwarded, Has, Repairs
  <2> QED BY <2>1, <2>2, <2>3, <2>4, <2>5 DEF NothingPassedBy
<1>2. CASE Step /\ situation' = situation
  <2>1. Stays' = Stays BY <1>2 DEF Stays, Careful, Staying
  <2>2. SUFFICES ASSUME Stays PROVE /\ SubFits'
                                    /\ \A n \in Node : NodeInLine(n)'
                                    /\ \A c \in situation.connected : Forwarded(c)'
    BY <1>2, <2>1 DEF NothingPassedBy
  <2> QED BY <1>2, <2>2, SubFitsStep, LinesStep, ForwardedStep
<1> QED BY <1>1, <1>2, Situated

-----------------------------------------------------------------------------
\* When everything has come to rest, the client has what it has in front of it, and no more is kept back.
LEMMA AllSeen ==
  ASSUME TypeOK, NEW c \in Conn, PageFits(c), toClient[c] = <<>>, \A k \in 1..stored : k \in Has(c)
  PROVE  client[c].lastSeen = stored /\ client[c].buffer = {}
<1>1. /\ client[c].lastSeen \in Nat /\ client[c].buffer \subseteq Nat /\ stored \in Nat /\ client[c].lastSeen <= stored
      /\ \A b \in client[c].buffer : b > client[c].lastSeen + 1 /\ b <= stored
  <2>1. client[c].lastSeen \in Nat /\ client[c].buffer \subseteq Nat BY ConnTypes, PageFields DEF Ids
  <2> QED BY <2>1, Types DEF PageFits, Tidy
<1>2. Has(c) = Seen(client[c]) BY NoFrames DEF Has
<1>3. client[c].lastSeen = stored
  <2>1. SUFFICES ASSUME client[c].lastSeen < stored PROVE FALSE BY <1>1
  <2>2. client[c].lastSeen + 1 \in 1..stored BY <1>1, <2>1
  <2>3. client[c].lastSeen + 1 \in Seen(client[c]) BY <1>2, <2>2
  <2>4. client[c].lastSeen + 1 \notin 1..client[c].lastSeen BY <1>1
  <2>5. client[c].lastSeen + 1 \in client[c].buffer BY <2>3, <2>4 DEF Seen
  <2> QED BY <1>1, <2>5
<1>4. client[c].buffer = {}
  <2>1. SUFFICES ASSUME NEW b \in client[c].buffer PROVE FALSE OBVIOUS
  <2> QED BY <1>1, <1>3
<1> QED BY <1>3, <1>4

LEMMA StaysQuiet ==
  ASSUME Context, NothingPassedBy, Stays, NEW c \in Conn, Quiet(c)
  PROVE  client[c].lastSeen = stored /\ client[c].buffer = {} /\ sub_at \in subs
<1> USE DEF Context, EverythingFits
<1>1. SubFits /\ \A n \in Node : NodeInLine(n) BY DEF NothingPassedBy
<1>2. /\ conn[c].st = "on" /\ toClient[c] = <<>> /\ rec.st = "idle" /\ fanouts = {} /\ sub_at = holder /\ can_serve(holder) /\ holder \in up
      /\ \A n \in Node : toGw[n] = <<>>
  BY DEF Quiet
<1>3. holder \in Node /\ holder # NoNode BY <1>2, Constants DEF TypeOK
<1>4. holder \in subs BY <1>1, <1>2, <1>3, NoFrames DEF SubFits, Holds
<1>5. head[holder] = stored
  <2>1. head[holder] # None BY <1>3, <1>4, Stayed DEF OneServer, LoadedWhereServed
  <2> QED BY <1>2, <1>3, <2>1, Stayed DEF OneServer, HeadUpToDate
<1>6. \A k \in 1..stored : k \in KnownAt(holder)
  <2>1. Covers(<<>>, KnownAt(holder), stored) BY <1>1, <1>2, <1>3, <1>4, <1>5 DEF NodeInLine
  <2> QED BY <2>1, EmptyLine
<1>7. \A k \in 1..stored : k <= last_forwarded /\ ~ Repairs(k) BY <1>2, <1>6 DEF KnownAt, Repairs
<1>8. c \in situation.connected BY <1>2, Stayed DEF chat_conns
<1>9. Forwarded(c) BY <1>8 DEF NothingPassedBy
<1>10. last_forwarded \in Int /\ stored \in Nat BY Types
<1>11. \A k \in 1..stored : k \in Has(c) BY <1>7, <1>9, <1>10 DEF Forwarded
<1>12. PageFits(c) BY DEF PagesFit
<1> QED BY <1>2, <1>4, <1>11, <1>12, AllSeen

LEMMA OneServerNext == EverythingFits /\ OneServer /\ [Next]_vars => OneServer'
<1> SUFFICES ASSUME EverythingFits, OneServer, [Next]_vars PROVE OneServer' OBVIOUS
<1>1. CASE UNCHANGED vars
  <2>1. UNCHANGED <<holder, owned, suspended, stored, head, appends, fanouts, situation, subs>> BY <1>1 DEF vars, steps, ownershipVars, chatVars
  <2> QED BY <2>1, ServersKept
<1>2. CASE Step /\ situation' = situation BY <1>2, OneServerStep
<1> QED BY <1>1, <1>2, Situated

-----------------------------------------------------------------------------
(* Where only clients come and go                                          *)

\* The owner stays where it is, and all there is is between it and the gateway.
Settled ==
  /\ owned = {holder} /\ suspended = {} /\ holder \in Node /\ map = holder /\ watch = <<>> /\ up = Node
  /\ \A f \in fanouts : f.node = holder /\ f.fresh
  /\ \A n \in Node : n # holder => toNode[n] = <<>> /\ toGw[n] = <<>>
  /\ sub_at \in {NoNode, holder}
  /\ rec.st # "idle" => rec.node = holder

Ascending(q) == \A i, j \in 1..Len(q) : i < j /\ q[i].type = "deliver" /\ q[j].type = "deliver" => q[i].id < q[j].id

\* The subscription is on, or is given up, before it is asked for.
Subscribed == holder \in subs /\ toNode[holder] = <<>>

Answering == sub_at = holder \/ rec.st = "answered" \/ \E f \in Frames(toGw[holder]) : f.type = "subscribed"

OneSubscription ==
  /\ \A f \in Frames(toGw[holder]) : f.type \in {"deliver", "subscribed"} /\ f.id <= head[holder]
  /\ Ascending(toGw[holder])
  /\ \A i \in 1..Len(toNode[holder]) - 1 : toNode[holder][i] # "subscribe"
  /\ Answering => Subscribed
  /\ rec.st \in {"repair", "read"} => sub_at = holder
  /\ \A c \in Conn : conn[c].st \in {"catchup", "read", "on"} => sub_at = holder /\ rec.st = "idle"

\* Message k is on its way to the gateway, or about to be.
Flies(k) == (\E f \in Frames(toGw[holder]) : f.type = "deliver" /\ f.id = k) \/ (\E f \in fanouts : f.id = k)

\* The page of c will ask for more.
Promised(c) == client[c].asked # {} \/ \E f \in Frames(toClient[c]) : f.more

\* c has message k, or the gateway will push it to c.
Reaches(c, k) == k \in Has(c) \/ (k > last_forwarded /\ k > floor[c] /\ Flies(k))

CaughtUp(c) ==
  /\ conn[c].st = "on" => Promised(c) \/ \A k \in 1..stored : Reaches(c, k)
  /\ conn[c].st = "read" => conn[c].more \/ \A k \in 1..stored : k <= conn[c].to \/ Reaches(c, k)

NothingSkipped == Careful /\ Calm => Settled /\ OneSubscription /\ \A c \in Conn : CaughtUp(c)

LEMMA CalmInit == Init => NothingSkipped
<1> SUFFICES ASSUME Init PROVE Settled /\ OneSubscription /\ \A c \in Conn : CaughtUp(c) BY DEF NothingSkipped
<1>1. /\ holder = situation.server /\ owned = {holder} /\ suspended = {} /\ stored = 0 /\ fanouts = {} /\ up = Node /\ holder \in Node
      /\ toNode = [n \in Node |-> <<>>] /\ toGw = [n \in Node |-> <<>>] /\ map = holder /\ watch = <<>> /\ rec = Idle
      /\ sub_at = IF situation.connected # {} THEN holder ELSE NoNode
      /\ subs = IF situation.connected # {} THEN {holder} ELSE {}
      /\ conn = [c \in Conn |-> IF c \in situation.connected THEN [Off EXCEPT !.st = "on"] ELSE Off]
  BY Constants DEF Init
<1>2. rec.st = "idle" /\ toNode[holder] = <<>> /\ toGw[holder] = <<>> BY <1>1 DEF Idle
<1>3. Settled BY <1>1, <1>2 DEF Settled
<1>4. holder # NoNode BY <1>1, Constants
<1>5. Answering => Subscribed BY <1>1, <1>2, <1>4, NoFrames DEF Answering, Subscribed
<1>6. \A c \in Conn : conn[c].st = IF c \in situation.connected THEN "on" ELSE "off" BY <1>1 DEF Off
<1>7. \A c \in Conn : conn[c].st \in {"catchup", "read", "on"} => sub_at = holder /\ rec.st = "idle" BY <1>1, <1>2, <1>6
<1>8. OneSubscription BY <1>2, <1>5, <1>7, NoFrames DEF OneSubscription, Ascending
<1>9. \A c \in Conn : CaughtUp(c) BY <1>1, <1>6 DEF CaughtUp
<1> QED BY <1>3, <1>8, <1>9

\* What can happen there.
CalmContext == Context /\ Context' /\ Careful /\ Calm /\ Settled /\ OneSubscription /\ Step /\ situation' = situation

LEMMA NoFault == ASSUME TypeOK, Calm PROVE \A kind : ~ Fault(kind) /\ ~ Move
BY Types DEF Calm, Fault, Move

LEMMA CalmFacts ==
  ASSUME CalmContext
  PROVE  /\ TypeOK /\ holder \in Node /\ holder # NoNode /\ can_serve(holder) /\ holder \in up
         /\ "ambiguous" \notin situation.faulty /\ Alone /\ situation.prompt
         /\ toGw \in [Node -> Seq(NodeFrame)] /\ toNode \in [Node -> Seq({"subscribe", "unsubscribe"})]
         /\ toGw[holder] \in Seq(NodeFrame) /\ toNode[holder] \in Seq({"subscribe", "unsubscribe"})
         /\ \A f \in fanouts : f.id = stored /\ head[holder] = stored - 1 /\ head[holder] # None
         /\ \A a \in appends : a.node = holder /\ a.fresh /\ head[holder] = stored /\ head[holder] # None /\ fanouts = {}
         /\ head[holder] # None /\ fanouts = {} => head[holder] = stored
         /\ head[holder] \in Int /\ head[holder] <= stored /\ stored \in Nat
         /\ \A n \in Node : toNode[n] # <<>> \/ toGw[n] # <<>> => n = holder
<1> USE DEF CalmContext, Context, EverythingFits
<1>1. TypeOK /\ holder \in Node /\ holder # NoNode /\ can_serve(holder) /\ holder \in up BY Constants DEF Settled, can_serve
<1>2. "ambiguous" \notin situation.faulty /\ Alone /\ situation.prompt BY DEF Careful, Alone
<1>3. /\ \A f \in fanouts : FanoutKnown(f)
      /\ \A a \in appends : AppendKnown(a)
      /\ HeadUpToDate(holder)
  BY <1>1, <1>2 DEF OneServer
<1>4. /\ toGw \in [Node -> Seq(NodeFrame)] /\ toNode \in [Node -> Seq({"subscribe", "unsubscribe"})] /\ stored \in Nat BY <1>1, Types DEF TypeOK
<1>5. head[holder] \in Int /\ head[holder] <= stored BY <1>1, NodeTypes DEF Fits
<1>6. ASSUME NEW f \in fanouts PROVE f.id = stored /\ head[holder] = stored - 1 /\ head[holder] # None
  <2>1. f.node = holder /\ f.fresh BY DEF Settled
  <2>2. f.id = stored /\ head[holder] = f.id - 1 BY <1>3, <2>1 DEF FanoutKnown
  <2>3. f.id \in Nat /\ f.id >= 1
    <3>1. f \in FanOut BY <1>1 DEF TypeOK
    <3> QED BY <3>1, Constants DEF FanOut, Ids
  <2> QED BY <2>2, <2>3 DEF None
<1>7. head[holder] # None /\ fanouts = {} => head[holder] = stored BY <1>3 DEF HeadUpToDate
<1>8. \A n \in Node : toNode[n] # <<>> \/ toGw[n] # <<>> => n = holder BY DEF Settled
<1>9. ASSUME NEW a \in appends PROVE a.node = holder /\ a.fresh /\ head[holder] = stored /\ head[holder] # None /\ fanouts = {}
  <2>1. AppendKnown(a) BY <1>3
  <2>2. a.fresh BY <1>1, <2>1 DEF AppendKnown
  <2>3. a.node = holder BY <2>1, <2>2 DEF AppendKnown, can_serve, Settled
  <2>4. head[holder] = a.id - 1 /\ \A f \in fanouts : ~ f.fresh BY <2>1, <2>2, <2>3 DEF AppendKnown
  <2>5. fanouts = {} BY <2>4 DEF Settled
  <2>6. a.id \in Nat /\ a.id >= 1
    <3>1. a \in Call BY <1>1 DEF TypeOK
    <3> QED BY <3>1, Constants DEF Call, Ids
  <2>7. head[holder] # None BY <2>4, <2>6 DEF None
  <2> QED BY <1>7, <2>2, <2>3, <2>5, <2>7
<1> QED BY <1>1, <1>2, <1>4, <1>5, <1>6, <1>7, <1>8, <1>9

LEMMA CalmCases ==
  ASSUME CalmContext, NEW P,
         UseAnswer \/ RepairRead \/ RepairPush \/ UnsubscribeUnwanted => P,
         \A by \in Conn \cup {None} : SubscribeMissing(by) => P,
         \A f \in fanouts : Fanout(f) => P,
         Appending => P,
         Subscribe(holder) \/ Unsubscribe(holder) \/ ReceiveDeliver(holder) \/ ReceiveSubscribed(holder) => P,
         \A c \in Conn : Connect(c) \/ Disconnect(c) \/ NothingMissing(c) \/ CatchupRead(c) \/ CatchupSend(c) => P,
         \A c \in Conn : ClientReceives(c) \/ Ack(c) => P,
         \A c \in Conn, after \in 0..MaxMessages : FetchAnswered(c, after) => P
  PROVE  P
<1> USE DEF CalmContext
<1>1. \A kind : ~ Fault(kind) /\ ~ Move BY CalmFacts, NoFault
<1>2. holder \in Node /\ holder # NoNode /\ can_serve(holder) BY CalmFacts
<1>3. KeyDeleted \/ MapLearns \/ RepairFails => FALSE BY <1>1 DEF KeyDeleted, MapLearns, RepairFails, Settled
<1>4. \A n \in Node : Claim(n) \/ ClaimAnswered(n) \/ LeaseGranted(n) \/ DropShard(n) => FALSE
  BY <1>2 DEF Claim, ClaimKey, ClaimAnswered, LeaseGranted, DropShard, Settled
<1>7. \A n \in Node : Subscribe(n) \/ Unsubscribe(n) \/ RejectSubscribe(n) => n = holder
  <2>1. \A n \in Node : \A t : Takes(n, t) => toNode[n] # <<>> BY DEF Takes
  <2> QED BY <2>1, CalmFacts DEF Subscribe, Unsubscribe, RejectSubscribe
<1>8. RejectSubscribe(holder) => FALSE BY <1>2 DEF RejectSubscribe
<1>9. \A n \in Node : ReceiveDeliver(n) \/ ReceiveSubscribed(n) \/ ReceiveRejected(n) \/ ReceiveMoved(n) => n = holder
  <2>1. \A n \in Node : \A t : Receives(n, t) => toGw[n] # <<>> BY DEF Receives
  <2> QED BY <2>1, CalmFacts DEF ReceiveDeliver, ReceiveSubscribed, ReceiveRejected, ReceiveMoved
<1>10. ReceiveRejected(holder) \/ ReceiveMoved(holder) => FALSE
  <2> SUFFICES ASSUME NEW t \in {"rejected", "shard_moved"}, Receives(holder, t) PROVE FALSE BY DEF ReceiveRejected, ReceiveMoved
  <2>1. toGw[holder] # <<>> /\ Head(toGw[holder]).type = t BY DEF Receives
  <2>2. Head(toGw[holder]) \in Frames(toGw[holder]) BY <2>1, CalmFacts, Queues DEF QueueOf
  <2> QED BY <2>1, <2>2 DEF OneSubscription
<1>11. \A n \in Node : LinkDown(n) \/ LinkUp(n) \/ Crash(n) => FALSE BY <1>1 DEF LinkDown, LinkUp, Crash, Settled
<1>12. \A c \in Conn, after \in 0..MaxMessages : FetchFails(c, after) => FALSE BY <1>1 DEF FetchFails
<1>13. Step OBVIOUS
<1> HIDE DEF CalmContext
<1>14. KeyDeleted \/ MapLearns \/ UseAnswer \/ RepairRead \/ RepairPush \/ RepairFails \/ UnsubscribeUnwanted => P BY <1>3
<1>15. \A n \in Node : Claim(n) \/ ClaimAnswered(n) \/ LeaseGranted(n) \/ DropShard(n) => P BY <1>4
<1>17. \A n \in Node : Subscribe(n) \/ RejectSubscribe(n) \/ Unsubscribe(n) => P BY <1>7, <1>8
<1>18. \A n \in Node : ReceiveDeliver(n) \/ ReceiveSubscribed(n) \/ ReceiveRejected(n) \/ ReceiveMoved(n) => P BY <1>9, <1>10
<1>19. \A n \in Node : LinkDown(n) \/ LinkUp(n) \/ Crash(n) => P BY <1>11
<1>20. \A c \in Conn, after \in 0..MaxMessages : FetchAnswered(c, after) \/ FetchFails(c, after) => P BY <1>12
<1> QED BY <1>13, <1>14, <1>15, <1>17, <1>18, <1>19, <1>20, Cases

\* An append moves the head at most to where it is read, and what is written is fanned out.
LEMMA CalmAppends ==
  ASSUME CalmContext, Appending
  PROVE  /\ head' = head \/ head' = [head EXCEPT ![holder] = Loaded(holder)]
         /\ \/ UNCHANGED <<stored, fanouts>>
            \/ \E a \in appends : /\ a.node = holder /\ a.fresh /\ a.id = stored + 1
                                  /\ stored' = stored + 1 /\ fanouts' = fanouts \cup {a}
<1> DEFINE H == head' = head \/ head' = [head EXCEPT ![holder] = Loaded(holder)]
           F == \/ UNCHANGED <<stored, fanouts>>
                \/ \E a \in appends : /\ a.node = holder /\ a.fresh /\ a.id = stored + 1
                                      /\ stored' = stored + 1 /\ fanouts' = fanouts \cup {a}
<1>1. ASSUME NEW n \in Node, CallAppend(n) PROVE H /\ F
  <2>1. n = holder BY <1>1 DEF CallAppend, can_serve, CalmContext, Settled
  <2> QED BY <1>1, <2>1 DEF CallAppend
<1>2. \A n \in Node : CallForgotten(n) => FALSE BY CalmFacts, NoFault DEF CallForgotten, CalmContext
<1>3. ASSUME NEW a \in appends, AppendMessage(a) PROVE H /\ F
  <2>1. a.node = holder /\ a.fresh /\ holder \in Node BY CalmFacts
  <2>2. head' = head /\ a.id = stored + 1 /\ stored' = stored + 1 /\ fanouts' = fanouts \cup {a} BY <1>3, <2>1 DEF AppendMessage, Commits
  <2> QED BY <2>1, <2>2
<1>4. \A a \in appends : AmbiguousAppend(a) => FALSE BY CalmFacts, NoFault DEF AmbiguousAppend, CalmContext
<1>5. ASSUME NEW a \in appends, NotAppended(a) PROVE H /\ F
  <2>1. a.node = holder /\ a.fresh /\ head[holder] = stored /\ stored \in Nat BY CalmFacts
  <2>2. PICK k \in 0..stored : head' = [head EXCEPT ![holder] = AtLeast(@, k)] BY <1>5, <2>1 DEF NotAppended
  <2>3. AtLeast(stored, k) = stored BY <2>1 DEF AtLeast
  <2>4. head \in [Node -> Heads] BY CalmFacts DEF TypeOK
  <2>5. head' = head BY <2>1, <2>2, <2>3, <2>4
  <2> QED BY <1>5, <2>5 DEF NotAppended
<1> HIDE DEF H, F
<1>6. H /\ F BY <1>1, <1>2, <1>3, <1>4, <1>5 DEF Appending, Publish, StoreAnswers
<1> QED BY <1>6 DEF H, F

LEMMA PlacesKept == ASSUME CalmContext PROVE UNCHANGED <<holder, owned, suspended, map, watch, up>>
<1> DEFINE P == UNCHANGED <<holder, owned, suspended, map, watch, up>>
<1> USE DEF ownershipVars, linkVars, subVars
<1>1. UseAnswer \/ RepairRead \/ RepairPush \/ UnsubscribeUnwanted => P BY DEF UseAnswer, RepairRead, RepairPush, UnsubscribeUnwanted
<1>2. \A by \in Conn \cup {None} : SubscribeMissing(by) => P BY DEF SubscribeMissing
<1>3. \A f \in fanouts : Fanout(f) => P BY DEF Fanout
<1>9. Appending => P BY AppendingKeeps
<1>4. Subscribe(holder) \/ Unsubscribe(holder) \/ ReceiveDeliver(holder) \/ ReceiveSubscribed(holder) => P
  BY DEF Subscribe, Unsubscribe, Takes, ReceiveDeliver, ReceiveSubscribed, Receives
<1>5. \A c \in Conn : Connect(c) \/ Disconnect(c) \/ NothingMissing(c) \/ CatchupRead(c) \/ CatchupSend(c) => P
  BY DEF Connect, Disconnect, NothingMissing, CatchupRead, CatchupSend
<1>6. \A c \in Conn : ClientReceives(c) \/ Ack(c) => P BY DEF ClientReceives, Ack
<1>7. \A c \in Conn, after \in 0..MaxMessages : FetchAnswered(c, after) => P BY DEF FetchAnswered
<1> HIDE DEF P
<1>8. P BY <1>1, <1>2, <1>3, <1>4, <1>5, <1>6, <1>7, <1>9, CalmCases
<1> QED BY <1>8 DEF P


LEMMA OthersSilent == ASSUME CalmContext PROVE \A n \in Node : n # holder => toNode'[n] = <<>> /\ toGw'[n] = <<>>
<1> DEFINE Q(n) == n # holder => toNode'[n] = toNode[n] /\ toGw'[n] = toGw[n]
           P == \A n \in Node : Q(n)
<1> USE CalmFacts
<1>1. UNCHANGED <<toNode, toGw>> => P OBVIOUS
<1>2. \A n \in Node : n # holder => toNode[n] = <<>> /\ toGw[n] = <<>> BY DEF CalmContext, Settled
<1>3. UNCHANGED linkVars => P BY <1>1 DEF linkVars
<1>4. UnsubscribeUnwanted => P
  <2> SUFFICES ASSUME UnsubscribeUnwanted PROVE P OBVIOUS
  <2>1. SendToNode(sub_at, "unsubscribe") /\ toGw' = toGw /\ sub_at = holder BY DEF UnsubscribeUnwanted, CalmContext, Settled
  <2> QED BY <2>1, SentToNode
<1>5. \A by \in Conn \cup {None} : SubscribeMissing(by) => P
  <2> SUFFICES ASSUME NEW by \in Conn \cup {None}, SubscribeMissing(by) PROVE P OBVIOUS
  <2>1. SendToNode(holder, "subscribe") /\ toGw' = toGw BY DEF SubscribeMissing, CalmContext, Settled
  <2> QED BY <2>1, SentToNode
<1>6. \A f \in fanouts : Fanout(f) => P
  <2> SUFFICES ASSUME NEW f \in fanouts, Fanout(f) PROVE P OBVIOUS
  <2>1. f.node = holder /\ f \in FanOut BY DEF CalmContext, Settled, TypeOK
  <2>2. (SendToGw(holder, NodeSays("deliver", f.id)) \/ toGw' = toGw) /\ toNode' = toNode BY <2>1 DEF Fanout
  <2>3. NodeSays("deliver", f.id) \in NodeFrame BY <2>1 DEF FanOut, NodeSays, NodeFrame, Heads
  <2> HIDE DEF NodeSays
  <2> QED BY <2>2, <2>3, SentToGw
<1>7. Appending => P BY <1>1, AppendingKeeps
<1>8. Subscribe(holder) => P
  <2> SUFFICES ASSUME Subscribe(holder) PROVE P OBVIOUS
  <2>1. SendToGw(holder, NodeSays("subscribed", Loaded(holder))) /\ Takes(holder, "subscribe") BY DEF Subscribe
  <2>2. Loaded(holder) \in Heads BY LoadedHead DEF CalmContext, Context, EverythingFits
  <2>3. NodeSays("subscribed", Loaded(holder)) \in NodeFrame BY <2>2 DEF NodeSays, NodeFrame
  <2>4. \A n \in Node : n # holder => toGw'[n] = toGw[n] BY <2>1, <2>3, SentToGw
  <2>5. \A n \in Node : n # holder => toNode'[n] = toNode[n] BY <2>1, TakenByNode
  <2> QED BY <2>4, <2>5
<1>9. Unsubscribe(holder) => P
  <2> SUFFICES ASSUME Unsubscribe(holder) PROVE P OBVIOUS
  <2>1. Takes(holder, "unsubscribe") /\ toGw' = toGw BY DEF Unsubscribe
  <2> QED BY <2>1, TakenByNode
<1>10. ReceiveDeliver(holder) \/ ReceiveSubscribed(holder) => P
  <2> SUFFICES ASSUME NEW t, Receives(holder, t) PROVE P BY DEF ReceiveDeliver, ReceiveSubscribed
  <2>1. toNode' = toNode BY DEF Receives
  <2> QED BY <2>1, TakenByGateway
<1>11. UseAnswer \/ RepairRead \/ RepairPush => P BY <1>3 DEF UseAnswer, RepairRead, RepairPush
<1>12. \A c \in Conn : Connect(c) \/ Disconnect(c) \/ NothingMissing(c) \/ CatchupRead(c) \/ CatchupSend(c) => P
  BY <1>3 DEF Connect, Disconnect, NothingMissing, CatchupRead, CatchupSend
<1>13. \A c \in Conn : ClientReceives(c) \/ Ack(c) => P BY <1>3 DEF ClientReceives, Ack
<1>14. \A c \in Conn, after \in 0..MaxMessages : FetchAnswered(c, after) => P BY <1>3 DEF FetchAnswered
<1> HIDE DEF P
<1>15. P BY <1>4, <1>5, <1>6, <1>7, <1>8, <1>9, <1>10, <1>11, <1>12, <1>13, <1>14, CalmCases
<1> QED BY <1>2, <1>15 DEF P

LEMMA SettledStep == ASSUME CalmContext PROVE Settled'
<1> USE CalmFacts
<1>1. UNCHANGED <<holder, owned, suspended, map, watch, up>> BY PlacesKept
<1>2. sub_at' \in {NoNode, holder}
  <2>1. UseAnswer => rec.node = holder BY DEF CalmContext, Settled, UseAnswer
  <2>2. Step /\ sub_at \in {NoNode, holder} BY DEF CalmContext, Settled
  <2> QED BY <2>1, <2>2, SubAtStep
<1>3. rec'.st # "idle" => rec'.node = holder
  <2>1. rec \in Reconciling /\ Idle.st = "idle" BY DEF TypeOK, Idle
  <2>2. (rec.st # "idle" => rec.node = holder) /\ map = holder BY DEF CalmContext, Settled
  <2> DEFINE P == rec'.st # "idle" => rec'.node = holder
  <2>3. rec' = rec => P BY <2>2
  <2>4. UseAnswer \/ RepairRead \/ RepairPush \/ UnsubscribeUnwanted => P
    BY <2>1, <2>2 DEF UseAnswer, RepairRead, RepairPush, UnsubscribeUnwanted, Done, Reconciling
  <2>5. \A by \in Conn \cup {None} : SubscribeMissing(by) => P BY <2>2 DEF SubscribeMissing, Idle
  <2>6. \A f \in fanouts : Fanout(f) => P BY <2>3 DEF Fanout, subVars
  <2>13. Appending => P BY <2>3, AppendingKeeps
  <2>7. Subscribe(holder) \/ Unsubscribe(holder) \/ ReceiveDeliver(holder) => P
    BY <2>3 DEF Subscribe, Unsubscribe, Takes, ReceiveDeliver, subVars
  <2>8. ReceiveSubscribed(holder) => P
    <3> SUFFICES ASSUME ReceiveSubscribed(holder) PROVE P OBVIOUS
    <3>1. Receives(holder, "subscribed") /\ rec' = [rec EXCEPT !.st = "answered", !.to = Head(toGw[holder]).id] BY DEF ReceiveSubscribed
    <3>2. toGw[holder] # <<>> /\ Head(toGw[holder]) \in NodeFrame /\ Head(toGw[holder]).type = "subscribed" BY <3>1, TakenByGateway
    <3>3. Head(toGw[holder]) \in Frames(toGw[holder]) BY <3>2, Queues DEF QueueOf
    <3>4. Frames(toGw[holder]) \cap Answers # {} BY <3>2, <3>3 DEF Answers
    <3>5. QueueFits(holder) BY DEF CalmContext, Context, EverythingFits, QueuesFit
    <3>6. Waits(holder) BY <3>4, <3>5 DEF QueueFits
    <3> QED BY <2>1, <3>1, <3>6 DEF Waits, Reconciling
  <2>9. \A c \in Conn : Connect(c) \/ Disconnect(c) \/ NothingMissing(c) \/ CatchupRead(c) \/ CatchupSend(c) => P
    BY <2>3 DEF Connect, Disconnect, NothingMissing, CatchupRead, CatchupSend, subVars
  <2>10. \A c \in Conn : ClientReceives(c) \/ Ack(c) => P BY <2>3 DEF ClientReceives, Ack, subVars
  <2>11. \A c \in Conn, after \in 0..MaxMessages : FetchAnswered(c, after) => P BY <2>3 DEF FetchAnswered, subVars
  <2> HIDE DEF P
  <2>12. P BY <2>4, <2>5, <2>6, <2>7, <2>8, <2>9, <2>10, <2>11, <2>13, CalmCases
  <2> QED BY <2>12 DEF P
<1>4. \A f \in fanouts' : f.node = holder /\ f.fresh
  <2> DEFINE P == \A f \in fanouts' : f.node = holder /\ f.fresh
  <2>1. \A f \in fanouts : f.node = holder /\ f.fresh BY DEF CalmContext, Settled
  <2>2. fanouts' \subseteq fanouts => P BY <2>1
  <2>3. UseAnswer \/ RepairRead \/ RepairPush \/ UnsubscribeUnwanted => P
    BY <2>2 DEF UseAnswer, RepairRead, RepairPush, UnsubscribeUnwanted, chatVars
  <2>4. \A by \in Conn \cup {None} : SubscribeMissing(by) => P BY <2>2 DEF SubscribeMissing, chatVars
  <2>5. \A f \in fanouts : Fanout(f) => P BY <2>2 DEF Fanout
  <2>6. Appending => P BY <2>1, CalmAppends
  <2>7. Subscribe(holder) \/ Unsubscribe(holder) \/ ReceiveDeliver(holder) \/ ReceiveSubscribed(holder) => P
    BY <2>2 DEF Subscribe, Unsubscribe, Takes, ReceiveDeliver, ReceiveSubscribed, Receives, chatVars
  <2>8. \A c \in Conn : Connect(c) \/ Disconnect(c) \/ NothingMissing(c) \/ CatchupRead(c) \/ CatchupSend(c) => P
    BY <2>2 DEF Connect, Disconnect, NothingMissing, CatchupRead, CatchupSend, chatVars
  <2>9. \A c \in Conn : ClientReceives(c) \/ Ack(c) => P BY <2>2 DEF ClientReceives, Ack, chatVars
  <2>10. \A c \in Conn, after \in 0..MaxMessages : FetchAnswered(c, after) => P BY <2>2 DEF FetchAnswered, chatVars
  <2> HIDE DEF P
  <2>11. P BY <2>3, <2>4, <2>5, <2>6, <2>7, <2>8, <2>9, <2>10, CalmCases
  <2> QED BY <2>11 DEF P
<1>5. \A n \in Node : n # holder => toNode'[n] = <<>> /\ toGw'[n] = <<>> BY OthersSilent
<1>6. owned = {holder} /\ suspended = {} /\ holder \in Node /\ map = holder /\ watch = <<>> /\ up = Node BY DEF CalmContext, Settled
<1> QED BY <1>1, <1>2, <1>3, <1>4, <1>5, <1>6 DEF Settled

\* What the owner sends is in order, and is not ahead of its head.
LineFits(q, h) == Ascending(q) /\ \A f \in Frames(q) : f.type \in {"deliver", "subscribed"} /\ f.id <= h

LEMMA LineFitsGrows ==
  ASSUME NEW q \in Seq(NodeFrame), NEW h \in Int, LineFits(q, h)
  PROVE  /\ \A g \in Int : h <= g => LineFits(q, g)
         /\ \A f \in NodeFrame : \A g \in Int :
              (f.type = "deliver" /\ f.id = h + 1 /\ g = f.id) \/ (f.type = "subscribed" /\ h <= f.id /\ g = f.id) => LineFits(Append(q, f), g)
         /\ q # <<>> => LineFits(Tail(q), h)
<1>1. /\ Len(q) \in Nat /\ Frames(q) \subseteq NodeFrame /\ \A i \in 1..Len(q) : q[i] \in Frames(q)
      /\ \A x \in NodeFrame : x.id \in Int
  <2>1. \A x \in NodeFrame : x.id \in Int BY Constants DEF NodeFrame, Heads, Ids, None
  <2> QED BY <2>1, Queues DEF QueueOf
<1>2. \A f \in Frames(q) : f.id \in Int /\ f.id <= h /\ f.type \in {"deliver", "subscribed"} BY <1>1 DEF LineFits
<1>3. \A g \in Int : h <= g => LineFits(q, g) BY <1>2 DEF LineFits
<1>4. ASSUME NEW f \in NodeFrame, NEW g \in Int,
             (f.type = "deliver" /\ f.id = h + 1 /\ g = f.id) \/ (f.type = "subscribed" /\ h <= f.id /\ g = f.id)
      PROVE  LineFits(Append(q, f), g)
  <2> DEFINE r == Append(q, f)
  <2>1. /\ Len(r) = Len(q) + 1 /\ r[Len(q) + 1] = f /\ Frames(r) = Frames(q) \cup {f} /\ \A i \in 1..Len(q) : r[i] = q[i]
    BY Queues DEF QueueOf
  <2> HIDE DEF r
  <2>2. \A x \in Frames(r) : x.type \in {"deliver", "subscribed"} /\ x.id <= g BY <1>1, <1>2, <1>4, <2>1
  <2>3. ASSUME NEW i \in 1..Len(r), NEW j \in 1..Len(r), i < j, r[i].type = "deliver", r[j].type = "deliver" PROVE r[i].id < r[j].id
    <3>1. i \in 1..Len(q) /\ r[i] = q[i] BY <1>1, <2>1, <2>3
    <3>2. CASE j \in 1..Len(q) BY <2>1, <2>3, <3>1, <3>2 DEF LineFits, Ascending
    <3>3. CASE j = Len(q) + 1
      <4>1. r[j] = f /\ f.type = "deliver" /\ f.id = h + 1 BY <1>4, <2>1, <2>3, <3>3
      <4>2. q[i].id \in Int /\ q[i].id <= h BY <1>1, <1>2, <3>1
      <4> QED BY <3>1, <4>1, <4>2
    <3> QED BY <1>1, <2>1, <3>2, <3>3
  <2>4. LineFits(r, g) BY <2>2, <2>3 DEF LineFits, Ascending
  <2> QED BY <2>4 DEF r
<1>5. ASSUME q # <<>> PROVE LineFits(Tail(q), h)
  <2> DEFINE t == Tail(q)
  <2>1. /\ Len(t) = Len(q) - 1 /\ Frames(q) = Frames(t) \cup {Head(q)} /\ \A i \in 1..Len(q) - 1 : t[i] = q[i + 1]
    BY <1>5, Queues DEF QueueOf
  <2> HIDE DEF t
  <2>2. \A x \in Frames(t) : x.type \in {"deliver", "subscribed"} /\ x.id <= h BY <1>2, <2>1
  <2>3. ASSUME NEW i \in 1..Len(t), NEW j \in 1..Len(t), i < j, t[i].type = "deliver", t[j].type = "deliver" PROVE t[i].id < t[j].id
    <3>1. i + 1 \in 1..Len(q) /\ j + 1 \in 1..Len(q) /\ t[i] = q[i + 1] /\ t[j] = q[j + 1] /\ i + 1 < j + 1 BY <1>1, <2>1, <2>3
    <3> QED BY <2>3, <3>1 DEF LineFits, Ascending
  <2>4. LineFits(t, h) BY <2>2, <2>3 DEF LineFits, Ascending
  <2> QED BY <2>4 DEF t
<1> QED BY <1>3, <1>4, <1>5

\* The first message of such a queue comes before the others.
LEMMA FirstIsLeast ==
  ASSUME NEW q \in Seq(NodeFrame), q # <<>>, Ascending(q), Head(q).type = "deliver"
  PROVE  \A f \in Frames(Tail(q)) : f.type = "deliver" => Head(q).id < f.id
<1>1. /\ Len(q) \in Nat /\ Len(q) >= 1 /\ Tail(q) \in Seq(NodeFrame) /\ Len(Tail(q)) = Len(q) - 1 /\ Head(q) = q[1]
      /\ \A i \in 1..Len(q) - 1 : Tail(q)[i] = q[i + 1]
      /\ DOMAIN Tail(q) = 1..Len(Tail(q))
  BY Queues DEF QueueOf
<1> SUFFICES ASSUME NEW i \in 1..Len(q) - 1, Tail(q)[i].type = "deliver" PROVE Head(q).id < Tail(q)[i].id BY <1>1 DEF Frames
<1>2. 1 \in 1..Len(q) /\ i + 1 \in 1..Len(q) /\ 1 < i + 1 BY <1>1
<1> QED BY <1>1, <1>2 DEF Ascending

LEMMA LineStep == ASSUME CalmContext PROVE LineFits(toGw[holder], head[holder])'
<1> USE CalmFacts
<1> DEFINE q == toGw[holder]
           h == head[holder]
           P == LineFits(toGw'[holder], head'[holder])
<1>1. LineFits(q, h) /\ q \in Seq(NodeFrame) /\ h \in Int BY DEF CalmContext, OneSubscription, LineFits
<1>2. toGw'[holder] = q /\ head'[holder] = h => P BY <1>1
<1>3. toGw' = toGw /\ head' = head => P BY <1>2
<1>4. head \in [Node -> Heads] /\ None \in Int /\ None < 0 BY DEF TypeOK, None
<1>5. UseAnswer \/ RepairRead \/ RepairPush \/ UnsubscribeUnwanted => P
  BY <1>3 DEF UseAnswer, RepairRead, RepairPush, UnsubscribeUnwanted, chatVars, linkVars
<1>6. \A by \in Conn \cup {None} : SubscribeMissing(by) => P BY <1>3 DEF SubscribeMissing, chatVars
<1>7. \A f \in fanouts : Fanout(f) => P
  <2> SUFFICES ASSUME NEW f \in fanouts, Fanout(f) PROVE P OBVIOUS
  <2> DEFINE g == NodeSays("deliver", f.id)
  <2>1. f.node = holder /\ f.fresh /\ f \in FanOut BY DEF CalmContext, Settled, TypeOK
  <2>2. (SendToGw(holder, g) \/ toGw' = toGw) /\ head' = [head EXCEPT ![holder] = f.id] BY <2>1 DEF Fanout
  <2>3. f.id = h + 1
    <3>1. f.id = stored /\ head[holder] = stored - 1 BY CalmFacts
    <3>2. stored \in Nat BY CalmFacts
    <3>3. \A k, a, b : k \in Nat /\ a = k /\ b = k - 1 => a = b + 1 OBVIOUS
    <3> QED BY <3>1, <3>2, <3>3
  <2>4. g \in NodeFrame /\ g.type = "deliver" /\ g.id = f.id BY <2>1 DEF FanOut, NodeSays, NodeFrame, Heads
  <2>5. head'[holder] = f.id BY <1>4, <2>2
  <2> HIDE DEF g, q, h
  <2>6. CASE toGw' = toGw BY <1>1, <2>3, <2>5, <2>6, LineFitsGrows DEF q
  <2>7. CASE SendToGw(holder, g)
    <3>1. toGw'[holder] = Append(q, g) BY <2>4, <2>7, SentToGw DEF q
    <3>2. f.id \in Int BY <1>1, <2>3
    <3> QED BY <1>1, <2>3, <2>4, <2>5, <3>1, <3>2, LineFitsGrows
  <2> QED BY <2>2, <2>6, <2>7
<1>8. Appending => P
  <2> SUFFICES ASSUME Appending PROVE P OBVIOUS
  <2>1. toGw' = toGw /\ (head' = head \/ head' = [head EXCEPT ![holder] = Loaded(holder)]) BY AppendingKeeps, CalmAppends
  <2>2. CASE head' = head BY <1>3, <2>1, <2>2
  <2>3. CASE head' = [head EXCEPT ![holder] = Loaded(holder)]
    <3>1. Loaded(holder) \in 0..stored BY LoadedHead DEF CalmContext, Context, EverythingFits
    <3>2. head'[holder] = Loaded(holder) /\ h <= Loaded(holder) /\ Loaded(holder) \in Int BY <1>4, <2>3, <3>1 DEF Loaded
    <3> HIDE DEF q, h
    <3> QED BY <1>1, <2>1, <3>2, LineFitsGrows DEF q
  <2> QED BY <2>1, <2>2, <2>3
<1>9. Subscribe(holder) => P
  <2> SUFFICES ASSUME Subscribe(holder) PROVE P OBVIOUS
  <2> DEFINE g == NodeSays("subscribed", Loaded(holder))
  <2>1. SendToGw(holder, g) /\ head' = [head EXCEPT ![holder] = Loaded(holder)] BY DEF Subscribe
  <2>2. Loaded(holder) \in Heads /\ Loaded(holder) \in 0..stored BY LoadedHead DEF CalmContext, Context, EverythingFits
  <2>3. g \in NodeFrame /\ g.type = "subscribed" /\ g.id = Loaded(holder) BY <2>2 DEF NodeSays, NodeFrame
  <2>4. h <= Loaded(holder) BY <1>4, <2>2 DEF Loaded
  <2>5. head'[holder] = Loaded(holder) BY <1>4, <2>1
  <2> HIDE DEF g, q, h
  <2>6. toGw'[holder] = Append(q, g) BY <2>1, <2>3, SentToGw DEF q
  <2>7. Loaded(holder) \in Int BY <2>2
  <2> QED BY <1>1, <2>3, <2>4, <2>5, <2>6, <2>7, LineFitsGrows
<1>10. Unsubscribe(holder) => P BY <1>3 DEF Unsubscribe
<1>11. ReceiveDeliver(holder) \/ ReceiveSubscribed(holder) => P
  <2> SUFFICES ASSUME NEW t, Receives(holder, t) PROVE P BY DEF ReceiveDeliver, ReceiveSubscribed
  <2>1. head' = head /\ q # <<>> /\ toGw'[holder] = Tail(q) BY TakenByGateway DEF Receives, chatVars
  <2> HIDE DEF q, h
  <2> QED BY <1>1, <2>1, LineFitsGrows DEF h
<1>12. \A c \in Conn : Connect(c) \/ Disconnect(c) \/ NothingMissing(c) \/ CatchupRead(c) \/ CatchupSend(c) => P
  BY <1>3 DEF Connect, Disconnect, NothingMissing, CatchupRead, CatchupSend, chatVars, linkVars
<1>13. \A c \in Conn : ClientReceives(c) \/ Ack(c) => P BY <1>3 DEF ClientReceives, Ack, chatVars, linkVars
<1>14. \A c \in Conn, after \in 0..MaxMessages : FetchAnswered(c, after) => P BY <1>3 DEF FetchAnswered, chatVars, linkVars
<1> HIDE DEF P
<1>15. P BY <1>5, <1>6, <1>7, <1>8, <1>9, <1>10, <1>11, <1>12, <1>13, <1>14, CalmCases
<1>16. holder' = holder BY PlacesKept
<1> QED BY <1>15, <1>16 DEF P

-----------------------------------------------------------------------------
\* The subscription, as it is asked for, answered and given up.
NodeSide ==
  /\ \A i \in 1..Len(toNode[holder]) - 1 : toNode[holder][i] # "subscribe"
  /\ Answering => Subscribed
  /\ rec.st \in {"repair", "read"} => sub_at = holder

\* A queue in which nothing comes after the subscription.
AsksLast(q) == \A i \in 1..Len(q) - 1 : q[i] # "subscribe"

LEMMA AskedLast ==
  ASSUME NEW q \in Seq({"subscribe", "unsubscribe"})
  PROVE  /\ \A f \in {"subscribe", "unsubscribe"} : "subscribe" \notin Frames(q) => AsksLast(Append(q, f))
         /\ q # <<>> /\ AsksLast(q) => AsksLast(Tail(q)) /\ (Head(q) = "subscribe" => Tail(q) = <<>>)
<1>1. Len(q) \in Nat /\ \A i \in 1..Len(q) : q[i] \in Frames(q) BY Queues DEF QueueOf
<1>2. ASSUME NEW f \in {"subscribe", "unsubscribe"}, "subscribe" \notin Frames(q) PROVE AsksLast(Append(q, f))
  <2>1. Len(Append(q, f)) = Len(q) + 1 /\ \A i \in 1..Len(q) : Append(q, f)[i] = q[i] BY Queues DEF QueueOf
  <2> QED BY <1>1, <1>2, <2>1 DEF AsksLast
<1>3. ASSUME q # <<>>, AsksLast(q) PROVE AsksLast(Tail(q)) /\ (Head(q) = "subscribe" => Tail(q) = <<>>)
  <2>1. /\ Tail(q) \in Seq({"subscribe", "unsubscribe"}) /\ Len(Tail(q)) = Len(q) - 1 /\ Len(q) >= 1 /\ Head(q) = q[1]
        /\ \A i \in 1..Len(q) - 1 : Tail(q)[i] = q[i + 1]
    BY <1>3, Queues DEF QueueOf
  <2>2. \A i \in 1..Len(q) - 1 - 1 : i \in 1..Len(q) - 1 /\ i + 1 \in 1..Len(q) - 1 BY <1>1
  <2>3. AsksLast(Tail(q)) BY <1>3, <2>1, <2>2 DEF AsksLast
  <2>4. Head(q) = "subscribe" => Len(q) = 1 BY <1>1, <1>3, <2>1 DEF AsksLast
  <2>5. Head(q) = "subscribe" => Tail(q) = <<>> BY <2>1, <2>4
  <2> QED BY <2>3, <2>5
<1> QED BY <1>2, <1>3

\* Nothing was asked for, but by a reconcile() that waits.
LEMMA NothingAsked ==
  ASSUME CalmContext, rec.st # "sent"
  PROVE  "subscribe" \notin Frames(toNode[holder]) /\ \A f \in Frames(toGw[holder]) : f.type # "subscribed"
<1>1. ~ Waits(holder) /\ holder \in Node /\ QueuesFit BY CalmFacts DEF Waits, CalmContext, Context, EverythingFits
<1>2. "subscribe" \notin Frames(toNode[holder]) /\ Frames(toGw[holder]) \cap Answers = {} BY <1>1, NobodyAsked
<1>3. Frames(toGw[holder]) \subseteq NodeFrame BY CalmFacts, Queues DEF QueueOf
<1> QED BY <1>2, <1>3 DEF Answers

\* The answer comes while reconcile() waits for it.
LEMMA AnswerAwaited ==
  ASSUME CalmContext, ReceiveSubscribed(holder)
  PROVE  /\ rec.st = "sent" /\ rec'.st = "answered" /\ toGw[holder] # <<>> /\ Head(toGw[holder]) \in Frames(toGw[holder])
         /\ Head(toGw[holder]).type = "subscribed"
<1> USE CalmFacts
<1>1. Receives(holder, "subscribed") /\ rec' = [rec EXCEPT !.st = "answered", !.to = Head(toGw[holder]).id] BY DEF ReceiveSubscribed
<1>2. toGw[holder] # <<>> /\ Head(toGw[holder]).type = "subscribed" BY <1>1 DEF Receives
<1>3. Head(toGw[holder]) \in Frames(toGw[holder]) BY <1>2, Queues DEF QueueOf
<1>4. rec.st = "sent" BY <1>2, <1>3, NothingAsked
<1>5. rec \in Reconciling BY DEF TypeOK
<1> QED BY <1>1, <1>2, <1>3, <1>4, <1>5 DEF Reconciling

LEMMA AsksLastStep == ASSUME CalmContext PROVE AsksLast(toNode'[holder])
<1> USE CalmFacts
<1> DEFINE P == AsksLast(toNode'[holder])
<1>1. AsksLast(toNode[holder]) BY DEF CalmContext, OneSubscription, AsksLast
<1>2. UNCHANGED toNode => P BY <1>1
<1>3. rec.st = "idle" => "subscribe" \notin Frames(toNode[holder]) BY NothingAsked
<1>4. ASSUME NEW f \in {"subscribe", "unsubscribe"}, SendToNode(holder, f), rec.st = "idle" PROVE P
  <2>1. toNode'[holder] = Append(toNode[holder], f) BY <1>4, SentToNode
  <2> QED BY <1>3, <1>4, <2>1, AskedLast
<1>5. \A f : Takes(holder, f) => P
  <2> SUFFICES ASSUME NEW f, Takes(holder, f) PROVE P OBVIOUS
  <2>1. toNode[holder] # <<>> /\ toNode'[holder] = Tail(toNode[holder]) BY TakenByNode
  <2> QED BY <1>1, <2>1, AskedLast
<1>6. UnsubscribeUnwanted => P BY <1>4 DEF UnsubscribeUnwanted, MayReconcile, CalmContext, Settled
<1>7. \A by \in Conn \cup {None} : SubscribeMissing(by) => P BY <1>4 DEF SubscribeMissing, MayReconcile, CalmContext, Settled
<1> HIDE DEF P
<1>8. UseAnswer \/ RepairRead \/ RepairPush => P BY <1>2 DEF UseAnswer, RepairRead, RepairPush, linkVars
<1>9. \A f \in fanouts : Fanout(f) => P BY <1>2 DEF Fanout
<1>15. Appending => P BY <1>2, AppendingKeeps
<1>10. Subscribe(holder) \/ Unsubscribe(holder) \/ ReceiveDeliver(holder) \/ ReceiveSubscribed(holder) => P
  BY <1>2, <1>5 DEF Subscribe, Unsubscribe, ReceiveDeliver, ReceiveSubscribed, Receives, linkVars
<1>11. \A c \in Conn : Connect(c) \/ Disconnect(c) \/ NothingMissing(c) \/ CatchupRead(c) \/ CatchupSend(c) => P
  BY <1>2 DEF Connect, Disconnect, NothingMissing, CatchupRead, CatchupSend, linkVars
<1>12. \A c \in Conn : ClientReceives(c) \/ Ack(c) => P BY <1>2 DEF ClientReceives, Ack, linkVars
<1>13. \A c \in Conn, after \in 0..MaxMessages : FetchAnswered(c, after) => P BY <1>2 DEF FetchAnswered, linkVars
<1>14. P BY <1>6, <1>7, <1>8, <1>9, <1>10, <1>11, <1>12, <1>13, <1>15, CalmCases
<1> QED BY <1>14 DEF P

LEMMA AnsweringStep ==
  ASSUME CalmContext, sub_at' = holder \/ rec'.st = "answered" \/ \E f \in Frames(toGw'[holder]) : f.type = "subscribed"
  PROVE  holder \in subs' /\ toNode'[holder] = <<>>
<1> USE CalmFacts
<1> DEFINE A == sub_at' = holder \/ rec'.st = "answered" \/ \E f \in Frames(toGw'[holder]) : f.type = "subscribed"
           P == holder \in subs' /\ toNode'[holder] = <<>>
<1>1. Answering => Subscribed BY DEF CalmContext, OneSubscription
<1>2. Answering /\ subs' = subs /\ toNode' = toNode => P BY <1>1 DEF Subscribed
<1>3. A OBVIOUS
<1>4. ASSUME sub_at' = sub_at, rec'.st = "answered" => rec.st = "answered",
             \A f \in Frames(toGw'[holder]) : f.type = "subscribed" => f \in Frames(toGw[holder])
      PROVE  Answering
  BY <1>3, <1>4 DEF Answering
<1>5. UNCHANGED <<sub_at, rec, toGw>> => Answering BY <1>4
<1>6. sub_at \in {NoNode, holder} /\ map = holder /\ rec \in Reconciling BY DEF CalmContext, Settled, TypeOK
<1>7. UseAnswer \/ RepairRead \/ RepairPush => P
  <2>1. UseAnswer => Answering /\ UNCHANGED <<subs, toNode>> BY DEF UseAnswer, Answering, chatVars, linkVars
  <2>2. RepairRead \/ RepairPush => UNCHANGED <<sub_at, toGw, subs, toNode>> BY DEF RepairRead, RepairPush, chatVars, linkVars
  <2>3. RepairPush => rec'.st # "answered" BY DEF RepairPush, Done, Idle
  <2>4. RepairRead => rec'.st # "answered" BY <1>6 DEF RepairRead, Reconciling
  <2>5. RepairRead \/ RepairPush => P BY <1>2, <1>4, <2>2, <2>3, <2>4
  <2> QED BY <1>2, <2>1, <2>5
<1>8. UnsubscribeUnwanted => P
  <2>1. UnsubscribeUnwanted => rec.st = "idle" /\ sub_at' = NoNode /\ UNCHANGED <<rec, toGw>> BY DEF UnsubscribeUnwanted, MayReconcile
  <2> QED BY <1>3, <2>1, NothingAsked
<1>9. \A by \in Conn \cup {None} : SubscribeMissing(by) => P
  <2>1. \A by \in Conn \cup {None} : SubscribeMissing(by) => rec.st = "idle" /\ sub_at = NoNode /\ sub_at' = sub_at /\ toGw' = toGw /\ rec'.st = "sent"
    BY <1>6 DEF SubscribeMissing, MayReconcile, Missing, Idle
  <2> QED BY <1>3, <2>1, NothingAsked
<1>10. \A f \in fanouts : Fanout(f) => P
  <2> SUFFICES ASSUME NEW f \in fanouts, Fanout(f) PROVE P OBVIOUS
  <2> DEFINE g == NodeSays("deliver", f.id)
  <2>1. f.node = holder /\ f \in FanOut BY DEF CalmContext, Settled, TypeOK
  <2>2. (SendToGw(holder, g) \/ toGw' = toGw) /\ UNCHANGED <<toNode, subs, sub_at, rec>> BY <2>1 DEF Fanout, subVars
  <2>3. g \in NodeFrame /\ g.type = "deliver" BY <2>1 DEF FanOut, NodeSays, NodeFrame, Heads
  <2> HIDE DEF g
  <2>4. \A x \in Frames(toGw'[holder]) : x.type = "subscribed" => x \in Frames(toGw[holder])
    BY <2>2, <2>3, SentFrames
  <2> QED BY <1>2, <1>4, <2>2, <2>4
<1>11. Subscribe(holder) => P
  <2> SUFFICES ASSUME Subscribe(holder) PROVE P OBVIOUS
  <2>1. Takes(holder, "subscribe") /\ subs' = subs \cup {holder} BY DEF Subscribe
  <2>2. toNode[holder] # <<>> /\ Head(toNode[holder]) = "subscribe" /\ toNode'[holder] = Tail(toNode[holder]) BY <2>1, TakenByNode
  <2>3. AsksLast(toNode[holder]) BY DEF CalmContext, OneSubscription, AsksLast
  <2> QED BY <2>1, <2>2, <2>3, AskedLast
<1>12. Unsubscribe(holder) => P
  <2>1. Unsubscribe(holder) => toNode[holder] # <<>> /\ UNCHANGED <<sub_at, rec, toGw>> BY DEF Unsubscribe, Takes, subVars
  <2> QED BY <1>1, <1>5, <2>1 DEF Subscribed
<1>13. ReceiveDeliver(holder) => P
  <2> SUFFICES ASSUME ReceiveDeliver(holder) PROVE P OBVIOUS
  <2>1. Receives(holder, "deliver") /\ UNCHANGED <<sub_at, rec, toNode, subs>> BY DEF ReceiveDeliver, Receives, chatVars
  <2>2. toGw[holder] # <<>> /\ toGw'[holder] = Tail(toGw[holder]) BY <2>1, TakenByGateway
  <2>3. Frames(toGw'[holder]) \subseteq Frames(toGw[holder]) BY <2>2, Queues DEF QueueOf
  <2> QED BY <1>2, <1>4, <2>1, <2>3
<1>14. ReceiveSubscribed(holder) => P
  <2> SUFFICES ASSUME ReceiveSubscribed(holder) PROVE P OBVIOUS
  <2>1. Answering BY AnswerAwaited DEF Answering
  <2>2. UNCHANGED <<toNode, subs>> BY DEF ReceiveSubscribed, Receives, chatVars
  <2> QED BY <1>2, <2>1, <2>2
<1> DEFINE K == UNCHANGED <<sub_at, rec, toGw, subs, toNode>>
<1>15. K => P BY <1>2, <1>5
<1> HIDE DEF P
<1>16. Appending => P BY <1>15, AppendingKeeps DEF K
<1>17. \A c \in Conn : Connect(c) \/ Disconnect(c) \/ NothingMissing(c) \/ CatchupRead(c) \/ CatchupSend(c) => P
  BY <1>15 DEF Connect, Disconnect, NothingMissing, CatchupRead, CatchupSend, chatVars, linkVars, subVars
<1>18. \A c \in Conn : ClientReceives(c) \/ Ack(c) => P BY <1>15 DEF ClientReceives, Ack, chatVars, linkVars, subVars
<1>19. \A c \in Conn, after \in 0..MaxMessages : FetchAnswered(c, after) => P BY <1>15 DEF FetchAnswered, chatVars, linkVars, subVars
<1> HIDE DEF K
<1>20. P BY <1>7, <1>8, <1>9, <1>10, <1>11, <1>12, <1>13, <1>14, <1>16, <1>17, <1>18, <1>19, CalmCases
<1> QED BY <1>20 DEF P

LEMMA RepairingStep == ASSUME CalmContext, rec'.st \in {"repair", "read"} PROVE sub_at' = holder
<1> USE CalmFacts
<1> DEFINE P == sub_at' = holder
<1>1. rec.st \in {"repair", "read"} => sub_at = holder BY DEF CalmContext, OneSubscription
<1>2. UNCHANGED <<rec, sub_at>> => P BY <1>1
<1>3. UseAnswer \/ RepairRead \/ RepairPush => P
  BY <1>1 DEF UseAnswer, RepairRead, RepairPush, Done, Idle, CalmContext, Settled
<1>4. UnsubscribeUnwanted => P BY DEF UnsubscribeUnwanted, MayReconcile
<1>5. \A by \in Conn \cup {None} : SubscribeMissing(by) => P BY DEF SubscribeMissing, Idle
<1>6. ReceiveSubscribed(holder) => P BY AnswerAwaited
<1> HIDE DEF P
<1>7. \A f \in fanouts : Fanout(f) => P BY <1>2 DEF Fanout, subVars
<1>13. Appending => P BY <1>2, AppendingKeeps
<1>8. Subscribe(holder) \/ Unsubscribe(holder) \/ ReceiveDeliver(holder) => P
  BY <1>2 DEF Subscribe, Unsubscribe, Takes, ReceiveDeliver, subVars
<1>9. \A c \in Conn : Connect(c) \/ Disconnect(c) \/ NothingMissing(c) \/ CatchupRead(c) \/ CatchupSend(c) => P
  BY <1>2 DEF Connect, Disconnect, NothingMissing, CatchupRead, CatchupSend, subVars
<1>10. \A c \in Conn : ClientReceives(c) \/ Ack(c) => P BY <1>2 DEF ClientReceives, Ack, subVars
<1>11. \A c \in Conn, after \in 0..MaxMessages : FetchAnswered(c, after) => P BY <1>2 DEF FetchAnswered, subVars
<1>12. P BY <1>3, <1>4, <1>5, <1>6, <1>7, <1>8, <1>9, <1>10, <1>11, <1>13, CalmCases
<1> QED BY <1>12 DEF P

\* serve() goes on to the catch-up when the chat is subscribed.
LEMMA ServedStep ==
  ASSUME CalmContext, NEW c \in Conn, conn'[c].st \in {"catchup", "read", "on"} PROVE sub_at' = holder /\ rec'.st = "idle"
<1> USE CalmFacts
<1> DEFINE A == conn'[c].st \in {"catchup", "read", "on"}
           P == sub_at' = holder /\ rec'.st = "idle"
<1>1. A OBVIOUS
<1>2. \A d \in Conn : conn[d].st \in {"catchup", "read", "on"} => sub_at = holder /\ rec.st = "idle" BY DEF CalmContext, OneSubscription
<1>3. conn \in [Conn -> Serving] /\ sub_at \in {NoNode, holder} /\ map = holder /\ rec \in Reconciling BY DEF CalmContext, Settled, TypeOK
<1>4. conn'[c].st = conn[c].st /\ UNCHANGED <<rec, sub_at>> => P BY <1>1, <1>2
<1>5. conn' = conn /\ rec.st # "idle" => P BY <1>1, <1>2
<1>6. UseAnswer \/ RepairPush => P
  <2>1. Done => rec'.st = "idle" BY DEF Done, Idle
  <2>2. UseAnswer => rec.st # "idle" /\ sub_at' = holder /\ (Done \/ conn' = conn) BY DEF UseAnswer, CalmContext, Settled
  <2>3. RepairPush => rec.st = "read" /\ sub_at' = sub_at /\ Done BY DEF RepairPush
  <2>4. rec.st = "read" => sub_at = holder BY DEF CalmContext, OneSubscription
  <2> QED BY <1>5, <2>1, <2>2, <2>3, <2>4
<1>7. RepairRead => P BY <1>5 DEF RepairRead, connVars
<1>8. UnsubscribeUnwanted => P
  <2>1. UnsubscribeUnwanted => conn' = conn /\ conn[c].st = "off" BY DEF UnsubscribeUnwanted, connVars, chat_conns
  <2> QED BY <1>1, <2>1
<1>9. \A by \in Conn \cup {None} : SubscribeMissing(by) => P
  <2>1. \A by \in Conn \cup {None} : SubscribeMissing(by) => conn' = conn /\ sub_at = NoNode BY <1>3 DEF SubscribeMissing, Missing, connVars
  <2> QED BY <1>1, <1>2, <2>1
<1>10. ReceiveSubscribed(holder) => P
  <2>1. ReceiveSubscribed(holder) => conn' = conn BY DEF ReceiveSubscribed
  <2> QED BY <1>5, <2>1, AnswerAwaited
<1>11. \A d \in Conn : NothingMissing(d) => P
  <2> SUFFICES ASSUME NEW d \in Conn, NothingMissing(d) PROVE P OBVIOUS
  <2>1. rec.st = "idle" /\ conn[d].st = "reconcile" /\ ~ Missing /\ rec' = rec /\ sub_at' = sub_at BY DEF NothingMissing, MayReconcile, subVars
  <2>2. chat_conns # {} BY <2>1 DEF chat_conns
  <2>3. sub_at = holder BY <1>3, <2>1, <2>2 DEF Missing
  <2> QED BY <2>1, <2>3
<1>12. \A d \in Conn : Connect(d) \/ Disconnect(d) \/ CatchupRead(d) \/ CatchupSend(d) => P
  <2> SUFFICES ASSUME NEW d \in Conn, Connect(d) \/ Disconnect(d) \/ CatchupRead(d) \/ CatchupSend(d) PROVE P OBVIOUS
  <2>1. UNCHANGED <<rec, sub_at>> BY DEF Connect, Disconnect, CatchupRead, CatchupSend, subVars
  <2>2. PICK v : conn' = [conn EXCEPT ![d] = v] /\ (v.st \in {"reconcile", "off"} \/ conn[d].st \in {"catchup", "read"})
    <3>1. CASE Connect(d)
      <4> DEFINE w == [Off EXCEPT !.st = "reconcile", !.after = last_read[d]]
      <4>1. conn' = [conn EXCEPT ![d] = w] BY <3>1 DEF Connect
      <4>2. w.st = "reconcile" BY DEF Off
      <4> HIDE DEF w
      <4> QED BY <4>1, <4>2
    <3>2. CASE Disconnect(d)
      <4>1. conn' = [conn EXCEPT ![d] = Off] BY <3>2 DEF Disconnect, Leave
      <4>2. Off.st = "off" BY DEF Off
      <4> QED BY <4>1, <4>2
    <3>3. CASE CatchupRead(d) BY <3>3 DEF CatchupRead
    <3>4. CASE CatchupSend(d) BY <3>4 DEF CatchupSend
    <3> QED BY <3>1, <3>2, <3>3, <3>4
  <2>3. CASE c # d BY <1>3, <1>4, <2>1, <2>2, <2>3
  <2>4. CASE c = d
    <3>1. conn'[c] = v BY <1>3, <2>2, <2>4
    <3>2. conn[d].st \in {"catchup", "read"} BY <1>1, <2>2, <3>1
    <3> QED BY <1>2, <2>1, <3>2
  <2> QED BY <2>3, <2>4
<1> DEFINE K == UNCHANGED <<conn, rec, sub_at>>
<1>13. K => P BY <1>4
<1> HIDE DEF P
<1>14. \A f \in fanouts : Fanout(f) => P BY <1>13 DEF Fanout, connVars, subVars
<1>19. Appending => P BY <1>13, AppendingKeeps DEF K
<1>15. Subscribe(holder) \/ Unsubscribe(holder) \/ ReceiveDeliver(holder) => P
  BY <1>13 DEF Subscribe, Unsubscribe, Takes, ReceiveDeliver, connVars, subVars
<1>16. \A d \in Conn : ClientReceives(d) \/ Ack(d) => P BY <1>13 DEF ClientReceives, Ack, subVars
<1>17. \A d \in Conn, after \in 0..MaxMessages : FetchAnswered(d, after) => P BY <1>13 DEF FetchAnswered, subVars
<1> HIDE DEF K
<1>18. P BY <1>6, <1>7, <1>8, <1>9, <1>10, <1>11, <1>12, <1>14, <1>15, <1>16, <1>17, <1>19, CalmCases
<1> QED BY <1>18 DEF P

LEMMA OneSubscriptionStep == ASSUME CalmContext PROVE OneSubscription'
<1>1. holder' = holder BY PlacesKept
<1>2. LineFits(toGw[holder], head[holder])' BY LineStep
<1>3. AsksLast(toNode'[holder]) BY AsksLastStep
<1>4. (Answering => Subscribed)' BY <1>1, AnsweringStep DEF Answering, Subscribed
<1>5. (rec.st \in {"repair", "read"} => sub_at = holder)' BY <1>1, RepairingStep
<1>6. (\A c \in Conn : conn[c].st \in {"catchup", "read", "on"} => sub_at = holder /\ rec.st = "idle")' BY <1>1, ServedStep
<1> QED BY <1>1, <1>2, <1>3, <1>4, <1>5, <1>6 DEF OneSubscription, LineFits, AsksLast

\* A connection that catches up, or has done so.
Live(c) == conn[c].st \in {"read", "on"}

LEMMA LiveFacts ==
  ASSUME CalmContext, NEW c \in Conn, Live(c)
  PROVE  /\ rec.st = "idle" /\ holder \in subs /\ c \in chat_conns
         /\ ~ UseAnswer /\ ~ RepairRead /\ ~ RepairPush /\ ~ UnsubscribeUnwanted /\ ~ RepairFails
<1>1. sub_at = holder /\ rec.st = "idle" /\ (Answering => Subscribed) BY DEF CalmContext, OneSubscription, Live
<1>2. holder \in subs BY <1>1 DEF Answering, Subscribed
<1>3. c \in chat_conns BY DEF chat_conns, Live
<1> QED BY <1>1, <1>2, <1>3 DEF UseAnswer, RepairRead, RepairPush, UnsubscribeUnwanted, RepairFails

\* What flies goes on flying until it is delivered.
LEMMA FliesStep ==
  ASSUME CalmContext, holder \in subs, ~ ReceiveDeliver(holder), NEW k, Flies(k) PROVE Flies(k)'
<1> USE CalmFacts
<1> DEFINE P == (\E f \in Frames(toGw'[holder]) : f.type = "deliver" /\ f.id = k) \/ (\E f \in fanouts' : f.id = k)
<1>1. TypeOK OBVIOUS
<1>2. (\E f \in Frames(toGw[holder]) : f.type = "deliver" /\ f.id = k) \/ (\E f \in fanouts : f.id = k) BY DEF Flies
<1>3. Frames(toGw[holder]) \subseteq Frames(toGw'[holder]) /\ fanouts \subseteq fanouts' => P BY <1>2
<1> DEFINE K == UNCHANGED <<toGw, fanouts>>
<1>4. K => P BY <1>3
<1>5. \A f \in fanouts : Fanout(f) => P
  <2> SUFFICES ASSUME NEW f \in fanouts, Fanout(f) PROVE P OBVIOUS
  <2> DEFINE g == NodeSays("deliver", f.id)
  <2>1. f.node = holder /\ f \in FanOut BY DEF CalmContext, Settled, TypeOK
  <2>2. SendToGw(holder, g) /\ fanouts' = fanouts \ {f} BY <2>1 DEF Fanout
  <2>3. g \in NodeFrame /\ g.type = "deliver" /\ g.id = f.id BY <2>1 DEF FanOut, NodeSays, NodeFrame, Heads
  <2> HIDE DEF g
  <2>4. toGw'[holder] = Append(toGw[holder], g) BY <2>2, <2>3, SentToGw
  <2>5. Frames(toGw'[holder]) = Frames(toGw[holder]) \cup {g} BY <2>3, <2>4, Queues DEF QueueOf
  <2> QED BY <1>2, <2>2, <2>3, <2>5
<1>6. Appending => P
  <2>1. Appending => toGw' = toGw /\ fanouts \subseteq fanouts' BY AppendingKeeps, CalmAppends
  <2> QED BY <1>3, <2>1
<1>7. Subscribe(holder) => P
  <2> SUFFICES ASSUME Subscribe(holder) PROVE P OBVIOUS
  <2> DEFINE g == NodeSays("subscribed", Loaded(holder))
  <2>1. SendToGw(holder, g) /\ fanouts' = fanouts BY DEF Subscribe, Takes
  <2>2. Loaded(holder) \in Heads BY LoadedHead DEF CalmContext, Context, EverythingFits
  <2>3. g \in NodeFrame BY <2>2 DEF NodeSays, NodeFrame
  <2> HIDE DEF g
  <2>4. Frames(toGw[holder]) \subseteq Frames(toGw'[holder]) BY <2>1, <2>3, SentFrames
  <2> QED BY <1>3, <2>1, <2>4
<1>8. Unsubscribe(holder) => P BY <1>4 DEF Unsubscribe, Takes
<1>9. ReceiveSubscribed(holder) => P
  <2> SUFFICES ASSUME ReceiveSubscribed(holder) PROVE P OBVIOUS
  <2>1. toGw[holder] # <<>> /\ Head(toGw[holder]).type = "subscribed" BY AnswerAwaited
  <2>2. Receives(holder, "subscribed") /\ fanouts' = fanouts BY DEF ReceiveSubscribed, Receives, chatVars
  <2>3. toGw'[holder] = Tail(toGw[holder]) BY <2>2, TakenByGateway
  <2>4. Frames(toGw[holder]) = Frames(toGw'[holder]) \cup {Head(toGw[holder])} BY <2>1, <2>3, Queues DEF QueueOf
  <2> QED BY <1>2, <2>1, <2>2, <2>4
<1> HIDE DEF P
<1>10. UseAnswer \/ RepairRead \/ RepairPush \/ UnsubscribeUnwanted => P
  BY <1>4 DEF UseAnswer, RepairRead, RepairPush, UnsubscribeUnwanted, chatVars, linkVars
<1>11. \A by \in Conn \cup {None} : SubscribeMissing(by) => P BY <1>4 DEF SubscribeMissing, chatVars
<1>12. \A d \in Conn : Connect(d) \/ Disconnect(d) \/ NothingMissing(d) \/ CatchupRead(d) \/ CatchupSend(d) => P
  BY <1>4 DEF Connect, Disconnect, NothingMissing, CatchupRead, CatchupSend, chatVars, linkVars
<1>13. \A d \in Conn : ClientReceives(d) \/ Ack(d) => P BY <1>4 DEF ClientReceives, Ack, chatVars, linkVars
<1>14. \A d \in Conn, after \in 0..MaxMessages : FetchAnswered(d, after) => P BY <1>4 DEF FetchAnswered, chatVars, linkVars
<1> HIDE DEF K
<1>15. P BY <1>5, <1>6, <1>7, <1>8, <1>9, <1>10, <1>11, <1>12, <1>13, <1>14, CalmCases
<1>16. holder' = holder BY PlacesKept
<1> QED BY <1>15, <1>16 DEF P, Flies

\* What flies behind the message that is delivered comes after it.
LEMMA DeliveredFirst ==
  ASSUME CalmContext, ReceiveDeliver(holder), NEW k, Flies(k)
  PROVE  k = Head(toGw[holder]).id \/ (Flies(k)' /\ Head(toGw[holder]).id < k)
<1> USE CalmFacts
<1> DEFINE q == toGw[holder]
           id == Head(q).id
<1>1. Receives(holder, "deliver") /\ fanouts' = fanouts BY DEF ReceiveDeliver, Receives, chatVars
<1>2. q # <<>> /\ Head(q).type = "deliver" /\ q \in Seq(NodeFrame) /\ toGw'[holder] = Tail(q) BY <1>1, TakenByGateway
<1>3. Frames(q) = Frames(Tail(q)) \cup {Head(q)} BY <1>2, Queues DEF QueueOf
<1>4. Ascending(q) /\ id <= head[holder] BY <1>3 DEF CalmContext, OneSubscription
<1>5. id \in Int
  <2>1. Head(q) \in NodeFrame BY <1>2, Queues DEF QueueOf
  <2> QED BY <2>1, Constants DEF NodeFrame, Heads, Ids, None
<1>6. holder' = holder BY PlacesKept
<1>7. CASE \E f \in fanouts : f.id = k
  <2>1. k = stored /\ head[holder] = stored - 1 BY <1>7
  <2>2. stored \in Nat OBVIOUS
  <2>3. id < k BY <1>4, <1>5, <2>1, <2>2
  <2> QED BY <1>1, <1>7, <2>3 DEF Flies
<1>8. CASE \E f \in Frames(q) : f.type = "deliver" /\ f.id = k
  <2> SUFFICES ASSUME k # id PROVE Flies(k)' /\ id < k OBVIOUS
  <2>1. PICK f \in Frames(Tail(q)) : f.type = "deliver" /\ f.id = k BY <1>3, <1>8
  <2>2. id < k BY <1>2, <1>4, <2>1, FirstIsLeast
  <2>3. f \in Frames(toGw'[holder']) BY <1>2, <1>6, <2>1
  <2> QED BY <2>1, <2>2, <2>3 DEF Flies
<1> QED BY <1>7, <1>8 DEF Flies

LEMMA FloorStep ==
  ASSUME CalmContext, NEW c \in Conn, Live(c), ~ Disconnect(c), ~ ReceiveDeliver(holder), ~ CatchupSend(c)
  PROVE  last_forwarded' = last_forwarded /\ floor'[c] = floor[c]
<1> USE CalmFacts
<1> DEFINE P == last_forwarded' = last_forwarded /\ floor'[c] = floor[c]
           K == UNCHANGED <<last_forwarded, floor>>
<1>1. floor \in [Conn -> 0..MaxMessages] BY DEF TypeOK
<1>2. K => P OBVIOUS
<1>3. c \in chat_conns /\ conn[c].st # "off" BY LiveFacts DEF Live
<1>4. UseAnswer \/ RepairRead \/ RepairPush \/ UnsubscribeUnwanted => P BY LiveFacts
<1>5. \A d \in Conn : Connect(d) \/ Disconnect(d) \/ NothingMissing(d) \/ CatchupRead(d) \/ CatchupSend(d) => P
  <2>1. \A d \in Conn : Connect(d) => P BY <1>1, <1>3 DEF Connect, subVars
  <2>2. \A d \in Conn : Disconnect(d) => P
    <3>1. \A d \in Conn : Disconnect(d) => d # c /\ floor' = floor /\ Unref(d) BY DEF Disconnect, Leave
    <3>2. \A d \in Conn : d # c => chat_conns # {d} BY <1>3
    <3> QED BY <3>1, <3>2 DEF Unref
  <2>3. \A d \in Conn : NothingMissing(d) \/ CatchupRead(d) => K BY DEF NothingMissing, CatchupRead, subVars
  <2>4. \A d \in Conn : CatchupSend(d) => P
    <3> SUFFICES ASSUME NEW d \in Conn, CatchupSend(d) PROVE P OBVIOUS
    <3>1. d # c /\ last_forwarded' = last_forwarded /\ (RaiseFloor({d}, conn[d].to) \/ floor' = floor) BY DEF CatchupSend, subVars
    <3>2. floor'[c] = floor[c] BY <3>1 DEF RaiseFloor
    <3> QED BY <3>1, <3>2
  <2> QED BY <1>2, <2>1, <2>2, <2>3, <2>4
<1> HIDE DEF P
<1>6. \A by \in Conn \cup {None} : SubscribeMissing(by) => P BY <1>2 DEF SubscribeMissing, connVars
<1>7. \A f \in fanouts : Fanout(f) => P BY <1>2 DEF Fanout, subVars, connVars
<1>12. Appending => P BY <1>2, AppendingKeeps DEF K
<1>8. Subscribe(holder) \/ Unsubscribe(holder) \/ ReceiveDeliver(holder) \/ ReceiveSubscribed(holder) => P
  BY <1>2 DEF Subscribe, Unsubscribe, Takes, ReceiveSubscribed, subVars, connVars
<1>9. \A d \in Conn : ClientReceives(d) \/ Ack(d) => P BY <1>2 DEF ClientReceives, Ack, subVars
<1>10. \A d \in Conn, after \in 0..MaxMessages : FetchAnswered(d, after) => P BY <1>2 DEF FetchAnswered, subVars
<1> HIDE DEF K
<1>11. P BY <1>4, <1>5, <1>6, <1>7, <1>8, <1>9, <1>10, <1>12, CalmCases
<1> QED BY <1>11 DEF P

\* The catch-up of c reaches to what was read, and says if there is more.
LEMMA CaughtUpTo ==
  ASSUME CalmContext, NEW c \in Conn, CatchupSend(c)
  PROVE  /\ \A k \in 1..conn[c].to : k \in Has(c)'
         /\ conn[c].more => \E f \in Frames(toClient'[c]) : f.more
         /\ last_forwarded' = last_forwarded /\ stored' = stored
         /\ floor'[c] = floor[c] \/ floor'[c] = conn[c].to
<1> USE DEF CalmContext, Context, EverythingFits
<1> DEFINE last == Frame("catchupDone", 0, 0, conn[c].more)
           others == <<last>>
           from == conn[c].after
           to == conn[c].to
<1>1. /\ conn[c].st = "read" /\ Push({c}, from, to, others) /\ last_forwarded' = last_forwarded /\ stored' = stored /\ client' = client
      /\ (IF to > from THEN RaiseFloor({c}, to) ELSE floor' = floor)
  BY DEF CatchupSend, chatVars, subVars
<1>2. /\ from \in Nat /\ to \in 0..MaxMessages /\ to \in Nat /\ conn[c].more \in BOOLEAN /\ floor[c] \in Nat /\ client[c].lastSeen \in Nat
      /\ toClient \in [Conn -> Seq(ClientFrame)] /\ MaxMessages \in Nat
  BY ConnTypes, PageFields, Types DEF TypeOK
<1>3. from <= client[c].lastSeen /\ from <= to BY <1>1 DEF PageFits, PagesFit
<1>4. last \in ClientFrame /\ last.more = conn[c].more BY <1>2 DEF Frame, ClientFrame
<1>5. others \in Seq(ClientFrame) /\ last \in Frames(others)
  <2> HIDE DEF last
  <2>1. others \in Seq(ClientFrame) /\ Len(others) = 1 /\ others[1] = last BY <1>4
  <2> HIDE DEF others
  <2> QED BY <2>1, Queues DEF QueueOf
<1>6. \A k \in 1..to : k <= from => k \in Has(c)' BY <1>1, <1>2, <1>3 DEF Has, Seen
<1>7. floor'[c] = floor[c] \/ floor'[c] = to BY <1>1, <1>2 DEF RaiseFloor, AtLeast
<1>8. {c} \in SUBSET Conn /\ from \in Int /\ from >= -1 BY <1>2
<1> HIDE DEF others, last, from, to, CalmContext, Context, EverythingFits
<1>9. PushGoes({c}, from, to, others) BY <1>1, <1>2, <1>5, <1>8, PushedToConns
<1>10. Frames(toClient'[c]) = Frames(toClient[c]) \cup Pushed(from, to) \cup Frames(others) BY <1>9 DEF PushGoes
<1>11. ASSUME NEW k \in from + 1..to PROVE k \in Has(c)'
  <2>1. Frame("newMessage", k, k, FALSE) \in Frames(toClient'[c]) BY <1>10 DEF Pushed
  <2>2. FrameIds(Frame("newMessage", k, k, FALSE)) = {k} BY DEF Frame, FrameIds
  <2> QED BY <2>1, <2>2 DEF Has
<1>12. \A k \in 1..to : k \in Has(c)' BY <1>2, <1>6, <1>11
<1>13. conn[c].more => \E f \in Frames(toClient'[c]) : f.more BY <1>4, <1>5, <1>10
<1> QED BY <1>1, <1>7, <1>12, <1>13 DEF to

\* A live message that flies is pushed before it is forgotten.
LEMMA DeliveredReaches ==
  ASSUME CalmContext, ReceiveDeliver(holder), NEW c \in Conn, Live(c), NEW k \in 1..stored, Reaches(c, k) PROVE Reaches(c, k)'
<1> USE DEF CalmContext, Context, EverythingFits
<1> DEFINE q == toGw[holder]
           id == Head(q).id
           cs == {d \in chat_conns : id > floor[d]}
<1>1. Has(c) \subseteq Has(c)'
  <2>1. ~ Disconnect(c)
    <3>1. conn' = conn BY DEF ReceiveDeliver
    <3>2. Disconnect(c) => conn[c].st = "on" /\ conn'[c] = Off BY ConnTypes DEF Disconnect, Leave, TypeOK
    <3>3. Off.st = "off" BY DEF Off
    <3> QED BY <3>1, <3>2, <3>3
  <2> QED BY <2>1, LiveFacts, HasGrows
<1>2. CASE k \in Has(c) BY <1>1, <1>2 DEF Reaches
<1>3. CASE k > last_forwarded /\ k > floor[c] /\ Flies(k)
  <2>1. Receives(holder, "deliver") /\ OnDeliver(id) BY DEF ReceiveDeliver
  <2>2. q # <<>> /\ Head(q).type = "deliver" /\ q \in Seq(NodeFrame) BY <2>1, CalmFacts DEF Receives
  <2>3. id \in 1..stored
    <3>1. Head(q) \in Frames(q) BY <2>2, Queues DEF QueueOf
    <3> QED BY <2>2, <3>1, FrameNumbers, CalmFacts
  <2>4. last_forwarded \in Int /\ floor[c] \in Nat /\ stored \in Nat /\ stored <= MaxMessages /\ MaxMessages \in Nat /\ floor \in [Conn -> 0..MaxMessages]
    BY Types, ConnTypes DEF TypeOK
  <2>5. k = id \/ (Flies(k)' /\ id < k) BY <1>3, DeliveredFirst
  <2>6. c \in chat_conns /\ chat_conns \in SUBSET Conn BY LiveFacts DEF chat_conns
  <2>7. CASE id <= last_forwarded
    <3>1. UNCHANGED <<last_forwarded, floor>> BY <2>1, <2>7 DEF OnDeliver
    <3>2. k # id BY <1>3, <2>3, <2>4, <2>7
    <3> QED BY <1>3, <2>5, <3>1, <3>2 DEF Reaches
  <2>8. CASE ~ (id <= last_forwarded)
    <3>1. last_forwarded' = id /\ RaiseFloor(cs, id) /\ Push(cs, id - 1, id, <<>>) BY <2>1, <2>8 DEF OnDeliver
    <3>2. floor'[c] = floor[c] \/ floor'[c] = id BY <2>4, <3>1 DEF RaiseFloor, AtLeast
    <3>3. CASE k # id BY <1>3, <2>5, <3>1, <3>2, <3>3 DEF Reaches
    <3>4. CASE k = id
      <4>1. c \in cs /\ cs \in SUBSET Conn BY <1>3, <2>6, <3>4
      <4>2. id \in 0..MaxMessages /\ id - 1 \in Int /\ id - 1 >= -1 /\ id \in id - 1 + 1..id BY <2>3, <2>4
      <4>3. TypeOK OBVIOUS
      <4> HIDE DEF cs, id, CalmContext, Context, EverythingFits
      <4>4. PushedAll(cs, id - 1, id) BY <3>1, <4>1, <4>2, <4>3, PushedFrames
      <4>5. \E f \in Frames(toClient'[c]) : FrameIds(f) = {id} BY <4>1, <4>2, <4>4 DEF PushedAll
      <4> QED BY <3>4, <4>5 DEF Reaches, Has
    <3> QED BY <3>3, <3>4
  <2> QED BY <2>7, <2>8
<1> QED BY <1>2, <1>3 DEF Reaches

LEMMA LiveReaches ==
  ASSUME CalmContext, NEW c \in Conn, Live(c), ~ Disconnect(c), NEW k \in 1..stored, Reaches(c, k) PROVE Reaches(c, k)'
<1>1. Has(c) \subseteq Has(c)'
  <2>1. EverythingFits /\ Step BY DEF CalmContext, Context
  <2> QED BY <2>1, LiveFacts, HasGrows
<1>2. CASE k \in Has(c) BY <1>1, <1>2 DEF Reaches
<1>3. CASE ReceiveDeliver(holder) BY <1>3, DeliveredReaches
<1>4. CASE k > last_forwarded /\ k > floor[c] /\ Flies(k) /\ ~ ReceiveDeliver(holder)
  <2>1. Flies(k)' BY <1>4, LiveFacts, FliesStep
  <2>2. CASE ~ CatchupSend(c) BY <1>4, <2>1, <2>2, FloorStep DEF Reaches
  <2>3. CASE CatchupSend(c)
    <3>1. last_forwarded' = last_forwarded /\ (floor'[c] = floor[c] \/ floor'[c] = conn[c].to) /\ \A j \in 1..conn[c].to : j \in Has(c)'
      BY <2>3, CaughtUpTo
    <3>2. TypeOK BY CalmFacts
    <3>3. conn[c].to \in Nat BY <3>2, ConnTypes
    <3>4. k <= conn[c].to => k \in Has(c)' BY <3>1, <3>3
    <3>5. k > conn[c].to => k > floor'[c] BY <1>4, <3>1
    <3>6. k <= conn[c].to \/ k > conn[c].to BY <3>3
    <3> QED BY <1>4, <2>1, <3>1, <3>4, <3>5, <3>6 DEF Reaches
  <2> QED BY <2>2, <2>3
<1> QED BY <1>2, <1>3, <1>4 DEF Reaches

\* A message that is written flies.
LEMMA NewReaches ==
  ASSUME CalmContext, NEW c \in Conn, Live(c), NEW k \in 1..stored', k \notin 1..stored PROVE Reaches(c, k)'
<1> USE CalmFacts
<1>1. stored' # stored OBVIOUS
<1>2. Appending
  <2> DEFINE P == stored' = stored \/ Appending
  <2>1. stored' = stored => P OBVIOUS
  <2>2. Appending => P OBVIOUS
  <2> HIDE DEF P
  <2>3. UseAnswer \/ RepairRead \/ RepairPush \/ UnsubscribeUnwanted => P
    BY <2>1 DEF UseAnswer, RepairRead, RepairPush, UnsubscribeUnwanted, chatVars
  <2>4. \A by \in Conn \cup {None} : SubscribeMissing(by) => P BY <2>1 DEF SubscribeMissing, chatVars
  <2>5. \A f \in fanouts : Fanout(f) => P BY <2>1 DEF Fanout
  <2>6. Subscribe(holder) \/ Unsubscribe(holder) \/ ReceiveDeliver(holder) \/ ReceiveSubscribed(holder) => P
    BY <2>1 DEF Subscribe, Unsubscribe, Takes, ReceiveDeliver, ReceiveSubscribed, Receives, chatVars
  <2>7. \A d \in Conn : Connect(d) \/ Disconnect(d) \/ NothingMissing(d) \/ CatchupRead(d) \/ CatchupSend(d) => P
    BY <2>1 DEF Connect, Disconnect, NothingMissing, CatchupRead, CatchupSend, chatVars
  <2>8. \A d \in Conn : ClientReceives(d) \/ Ack(d) => P BY <2>1 DEF ClientReceives, Ack, chatVars
  <2>9. \A d \in Conn, after \in 0..MaxMessages : FetchAnswered(d, after) => P BY <2>1 DEF FetchAnswered, chatVars
  <2>10. P BY <2>2, <2>3, <2>4, <2>5, <2>6, <2>7, <2>8, <2>9, CalmCases
  <2> QED BY <1>1, <2>10 DEF P
<1>7. PICK a \in appends : a.id = stored + 1 /\ stored' = stored + 1 /\ fanouts' = fanouts \cup {a} BY <1>1, <1>2, CalmAppends
<1>3. stored' = stored + 1 /\ UNCHANGED <<last_forwarded, floor>> BY <1>2, <1>7, AppendingKeeps
<1>4. k = stored + 1 BY <1>3
<1>5. Flies(k)'
  <2>1. a \in fanouts' /\ a.id = k BY <1>4, <1>7
  <2> QED BY <2>1 DEF Flies
<1>6. last_forwarded <= stored /\ floor[c] <= stored /\ last_forwarded \in Int /\ floor[c] \in Nat
  BY Types, ConnTypes DEF CalmContext, Context, EverythingFits, Fits, PagesFit, PageFits
<1> QED BY <1>3, <1>4, <1>5, <1>6 DEF Reaches

\* The page asks for more, until it is answered that there is no more.
LEMMA PromisedStep ==
  ASSUME CalmContext, NEW c \in Conn, conn[c].st = "on", ~ Disconnect(c), Promised(c)
  PROVE  Promised(c)' \/ \A k \in 1..stored' : k \in Has(c)'
<1> USE CalmFacts
<1> DEFINE P == Promised(c)' \/ \A k \in 1..stored' : k \in Has(c)'
           K == UNCHANGED <<client, toClient>>
<1>1. Live(c) BY DEF Live
<1>2. client[c].asked \subseteq client'[c].asked /\ Frames(toClient[c]) \subseteq Frames(toClient'[c]) => P BY DEF Promised
<1>3. client'[c] = client[c] /\ Frames(toClient[c]) \subseteq Frames(toClient'[c]) => P BY <1>2
<1>4. client'[c] = client[c] /\ toClient'[c] = toClient[c] => P BY <1>3
<1>5. K => P BY <1>4
<1>6. client \in [Conn -> Page] /\ toClient \in [Conn -> Seq(ClientFrame)] BY DEF TypeOK
<1>7. UseAnswer \/ RepairRead \/ RepairPush \/ UnsubscribeUnwanted => P BY <1>1, LiveFacts
<1>8. ReceiveDeliver(holder) => P
  <2> SUFFICES ASSUME ReceiveDeliver(holder) PROVE P OBVIOUS
  <2> DEFINE q == toGw[holder]
             id == Head(q).id
             cs == {d \in chat_conns : id > floor[d]}
  <2>1. Receives(holder, "deliver") /\ OnDeliver(id) /\ client' = client BY DEF ReceiveDeliver, Receives
  <2>2. toClient' = toClient \/ Push(cs, id - 1, id, <<>>) BY <2>1 DEF OnDeliver
  <2>3. q # <<>> /\ Head(q).type = "deliver" /\ q \in Seq(NodeFrame) BY <2>1 DEF Receives
  <2>4. id \in 1..stored
    <3>1. Head(q) \in Frames(q) BY <2>3, Queues DEF QueueOf
    <3> QED BY <2>3, <3>1, FrameNumbers DEF CalmContext, Context, EverythingFits
  <2>5. id \in 0..MaxMessages /\ id - 1 \in Int /\ id - 1 >= -1
    <3>1. stored \in Nat /\ MaxMessages \in Nat /\ stored <= MaxMessages BY Types
    <3> HIDE DEF id
    <3> QED BY <2>4, <3>1
  <2>6. TypeOK /\ cs \in SUBSET Conn BY DEF chat_conns
  <2> HIDE DEF cs, id
  <2>7. Push(cs, id - 1, id, <<>>) => PushedAll(cs, id - 1, id) BY <2>5, <2>6, PushedFrames
  <2> QED BY <1>3, <2>1, <2>2, <2>7 DEF PushedAll
<1>9. \A d \in Conn : Disconnect(d) \/ CatchupSend(d) => P
  <2>1. \A d \in Conn : Disconnect(d) => d # c /\ client'[c] = client[c] /\ toClient'[c] = toClient[c] BY <1>6 DEF Disconnect, Leave
  <2>2. \A d \in Conn : CatchupSend(d) => d # c /\ client' = client /\ toClient'[c] = toClient[c] BY DEF CatchupSend, Push
  <2> QED BY <1>4, <2>1, <2>2
<1>10. \A d \in Conn : ClientReceives(d) => P
  <2> SUFFICES ASSUME NEW d \in Conn, ClientReceives(d) PROVE P OBVIOUS
  <2> DEFINE s == toClient[d]
             f == Head(s)
             q == After(client[d], f)
  <2>1. s # <<>> /\ client' = [client EXCEPT ![d] = q] /\ toClient' = [toClient EXCEPT ![d] = Tail(s)] BY DEF ClientReceives
  <2>2. CASE d # c BY <1>4, <1>6, <2>1, <2>2
  <2>3. CASE d = c
    <3>1. client'[c] = q /\ toClient'[c] = Tail(s) BY <1>6, <2>1, <2>3
    <3>2. PageFits(c) /\ s \in Seq(ClientFrame) /\ client[c] \in Page BY <1>6 DEF CalmContext, Context, EverythingFits, PagesFit
    <3>3. f \in ClientFrame /\ f \in Frames(s) /\ Frames(s) = Frames(Tail(s)) \cup {f} BY <2>1, <3>2, Queues DEF QueueOf
    <3>4. FrameFits(client[c], f) BY <2>3, <3>2, <3>3 DEF PageFits
    <3>5. Follows(client[c], f, q) BY <2>3, <3>2, <3>3, <3>4, FrameFollows
    <3>6. client[c].asked \subseteq q.asked /\ (f.more => q.asked # {}) BY <3>5 DEF Follows
    <3> HIDE DEF f, q
    <3> QED BY <2>3, <3>1, <3>3, <3>6 DEF Promised
  <2> QED BY <2>2, <2>3
<1>11. \A d \in Conn, after \in 0..MaxMessages : FetchAnswered(d, after) => P
  <2> SUFFICES ASSUME NEW d \in Conn, NEW after \in 0..MaxMessages, FetchAnswered(d, after) PROVE P OBVIOUS
  <2> DEFINE g == Frame("messages", after, Upto(after), HasMore(Upto(after)))
             s == toClient[d]
  <2>1. /\ after \in client[d].asked /\ client' = [client EXCEPT ![d].asked = client[d].asked \ {after}] /\ stored' = stored
        /\ toClient' = [toClient EXCEPT ![d] = Append(s, g)]
    BY DEF FetchAnswered, chatVars
  <2>2. CASE d # c BY <1>4, <1>6, <2>1, <2>2
  <2>3. CASE d = c
    <3>1. PageFits(c) /\ s \in Seq(ClientFrame) /\ client[c] \in Page /\ client[c].lastSeen \in Nat /\ stored \in Nat /\ situation \in Situations
      BY <1>6, PageFields, Types DEF CalmContext, Context, EverythingFits, PagesFit
    <3>2. after <= client[c].lastSeen /\ client[c].lastSeen <= stored /\ after \in Nat
      <4>1. after \in Nat BY Types
      <4> QED BY <2>1, <2>3, <3>1, <4>1 DEF PageFits, Tidy
    <3>3. Upto(after) \in after..stored /\ HasMore(Upto(after)) \in BOOLEAN /\ (~ HasMore(Upto(after)) => Upto(after) = stored)
      <4>1. after \in Int /\ after <= stored BY <3>1, <3>2
      <4> QED BY <3>1, <4>1, PageOfStore
    <3>4. g \in ClientFrame /\ g.type = "messages" /\ g.from = after /\ g.to = Upto(after) /\ g.more = HasMore(Upto(after))
      <4>1. MaxMessages \in Nat /\ stored <= MaxMessages BY Types
      <4>2. Upto(after) \in 0..MaxMessages BY <3>1, <3>2, <3>3, <4>1
      <4> QED BY <3>3, <4>2 DEF Frame, ClientFrame
    <3> HIDE DEF g
    <3>5. g \in Frames(toClient'[c])
      <4>1. toClient'[c] = Append(s, g) BY <1>6, <2>1, <2>3
      <4>2. Frames(Append(s, g)) = Frames(s) \cup {g} BY <3>1, <3>4, Queues DEF QueueOf
      <4> QED BY <4>1, <4>2
    <3>6. CASE HasMore(Upto(after)) BY <3>4, <3>5, <3>6 DEF Promised
    <3>7. CASE ~ HasMore(Upto(after))
      <4>1. client'[c] = [client[c] EXCEPT !.asked = client[d].asked \ {after}] BY <1>6, <2>1, <2>3
      <4>2. client'[c].lastSeen = client[c].lastSeen BY <3>1, <4>1 DEF Page
      <4>3. FrameIds(g) = after + 1..stored BY <3>3, <3>4, <3>7 DEF FrameIds
      <4>4. \A k \in 1..stored : k <= after => k \in Has(c)' BY <3>1, <3>2, <4>2 DEF Has, Seen
      <4>5. \A k \in 1..stored : k > after => k \in Has(c)' BY <3>2, <3>5, <4>3 DEF Has
      <4>6. \A k \in 1..stored : k <= after \/ k > after BY <3>2
      <4> QED BY <2>1, <4>4, <4>5, <4>6
    <3> QED BY <3>6, <3>7
  <2> QED BY <2>2, <2>3
<1> HIDE DEF P
<1>12. \A by \in Conn \cup {None} : SubscribeMissing(by) => P BY <1>5 DEF SubscribeMissing, connVars
<1>13. \A f \in fanouts : Fanout(f) => P BY <1>5 DEF Fanout, connVars
<1>18. Appending => P BY <1>5, AppendingKeeps DEF K
<1>14. Subscribe(holder) \/ Unsubscribe(holder) \/ ReceiveDeliver(holder) \/ ReceiveSubscribed(holder) => P
  BY <1>5, <1>8 DEF Subscribe, Unsubscribe, Takes, ReceiveSubscribed, Receives, connVars
<1>15. \A d \in Conn : Connect(d) \/ Disconnect(d) \/ NothingMissing(d) \/ CatchupRead(d) \/ CatchupSend(d) => P
  BY <1>5, <1>9 DEF Connect, NothingMissing, CatchupRead
<1>16. \A d \in Conn : ClientReceives(d) \/ Ack(d) => P BY <1>5, <1>10 DEF Ack
<1> HIDE DEF K
<1>17. P BY <1>7, <1>11, <1>12, <1>13, <1>14, <1>15, <1>16, <1>18, CalmCases
<1> QED BY <1>17 DEF P

\* A connection is live because it was, or because it goes on with its catch-up.
LEMMA LiveStep ==
  ASSUME CalmContext, NEW c \in Conn, Live(c)'
  PROVE  CatchupRead(c) \/ (Live(c) /\ ~ Disconnect(c) /\ (CatchupSend(c) \/ conn'[c] = conn[c]))
<1> USE CalmFacts
<1> DEFINE A == CatchupRead(c) \/ (~ Disconnect(c) /\ CatchupSend(c)) \/ (~ Disconnect(c) /\ conn'[c] = conn[c])
<1>1. conn \in [Conn -> Serving] /\ conn'[c].st \in {"read", "on"} BY DEF TypeOK, Live
<1>2. ~ Disconnect(c)
  <2>1. Disconnect(c) => conn'[c] = Off BY <1>1 DEF Disconnect, Leave
  <2> QED BY <1>1, <2>1 DEF Off
<1>3. conn'[c] = conn[c] => A BY <1>2
<1>4. conn' = conn => A BY <1>3
<1>5. \A by \in Conn \cup {None} : Returns(by) => A
  <2>1. \A by \in Conn \cup {None} : Returns(by) => conn'[c] = conn[c] \/ conn'[c].st = "catchup" BY <1>1 DEF Returns, Serving
  <2> QED BY <1>1, <1>3, <2>1
<1>6. UseAnswer \/ RepairRead \/ RepairPush \/ UnsubscribeUnwanted => A
  <2>1. rec.by \in Conn \cup {None} BY Types
  <2>2. UseAnswer \/ RepairPush => Returns(rec.by) \/ conn' = conn BY DEF UseAnswer, RepairPush, Done
  <2>3. RepairRead \/ UnsubscribeUnwanted => conn' = conn BY DEF RepairRead, UnsubscribeUnwanted, connVars
  <2> QED BY <1>4, <1>5, <2>1, <2>2, <2>3
<1>7. \A d \in Conn : Connect(d) \/ Disconnect(d) \/ NothingMissing(d) \/ CatchupRead(d) \/ CatchupSend(d) => A
  <2>1. \A d \in Conn : NothingMissing(d) => A BY <1>5 DEF NothingMissing
  <2>2. \A d \in Conn : d # c => (Connect(d) \/ Disconnect(d) \/ CatchupRead(d) \/ CatchupSend(d) => conn'[c] = conn[c])
    BY <1>1 DEF Connect, Disconnect, Leave, CatchupRead, CatchupSend
  <2>3. Connect(c) => conn'[c].st = "reconcile" BY <1>1 DEF Connect, Off
  <2>4. CatchupRead(c) \/ CatchupSend(c) => A BY <1>2
  <2> QED BY <1>1, <1>2, <1>3, <2>1, <2>2, <2>3, <2>4
<1> HIDE DEF A
<1>8. \A by \in Conn \cup {None} : SubscribeMissing(by) => A BY <1>4 DEF SubscribeMissing, connVars
<1>9. \A f \in fanouts : Fanout(f) => A BY <1>4 DEF Fanout, connVars
<1>16. Appending => A BY <1>4, AppendingKeeps
<1>10. Subscribe(holder) \/ Unsubscribe(holder) \/ ReceiveDeliver(holder) \/ ReceiveSubscribed(holder) => A
  BY <1>4 DEF Subscribe, Unsubscribe, Takes, ReceiveDeliver, ReceiveSubscribed, connVars
<1>11. \A d \in Conn : ClientReceives(d) \/ Ack(d) => A BY <1>4 DEF ClientReceives, Ack
<1>12. \A d \in Conn, after \in 0..MaxMessages : FetchAnswered(d, after) => A BY <1>4 DEF FetchAnswered
<1>13. A BY <1>6, <1>7, <1>8, <1>9, <1>10, <1>11, <1>12, <1>16, CalmCases
<1>14. CatchupSend(c) => Live(c) BY DEF CatchupSend, Live
<1>15. conn'[c] = conn[c] => Live(c) BY <1>1 DEF Live
<1> QED BY <1>13, <1>14, <1>15 DEF A

LEMMA CaughtUpStep == ASSUME CalmContext, NEW c \in Conn, CaughtUp(c) PROVE CaughtUp(c)'
<1> SUFFICES ASSUME Live(c)' PROVE CaughtUp(c)' BY DEF CaughtUp, Live
<1>1. TypeOK /\ EverythingFits BY DEF CalmContext, Context, EverythingFits
<1>2. stored \in Nat /\ stored' \in Nat /\ stored' >= stored
  <2>1. Step BY DEF CalmContext
  <2> QED BY <1>1, <2>1, StoredGrows, Types
<1>3. conn[c].to \in Nat BY <1>1, ConnTypes
<1>4. CASE CatchupRead(c)
  <2> DEFINE to == Upto(conn[c].after)
  <2>1. /\ conn[c].st = "catchup" /\ conn' = [conn EXCEPT ![c].st = "read", ![c].to = to, ![c].more = HasMore(to)] /\ stored' = stored
    BY <1>4 DEF CatchupRead, chatVars
  <2>2. conn[c].after <= stored /\ conn[c].after \in Int /\ situation \in Situations
    <3>1. PageFits(c) /\ client[c].lastSeen \in Nat /\ conn[c].after \in Nat BY <1>1, ConnTypes, PageFields DEF EverythingFits, PagesFit
    <3>2. conn[c].after <= client[c].lastSeen /\ client[c].lastSeen <= stored BY <2>1, <3>1 DEF PageFits
    <3> QED BY <1>1, <1>2, <3>1, <3>2, Types
  <2>3. ~ HasMore(to) => to = stored BY <1>2, <2>2, PageOfStore
  <2> HIDE DEF to
  <2>4. conn'[c].st = "read" /\ conn'[c].to = to /\ conn'[c].more = HasMore(to)
    <3>1. conn \in [Conn -> Serving] BY <1>1 DEF TypeOK
    <3> QED BY <2>1, <3>1 DEF Serving
  <2>5. conn'[c].more \/ \A k \in 1..stored' : k <= conn'[c].to
    <3>1. CASE HasMore(to) BY <2>4, <3>1
    <3>2. CASE ~ HasMore(to)
      <4>1. stored' = stored BY <2>1
      <4>2. conn'[c].to = stored BY <2>3, <2>4, <3>2
      <4>3. \A k \in 1..stored : k <= stored BY <1>2
      <4> QED BY <4>1, <4>2, <4>3
    <3> QED BY <3>1, <3>2
  <2> QED BY <2>4, <2>5 DEF CaughtUp
<1>5. CASE Live(c) /\ ~ Disconnect(c)
  <2>1. \A k \in 1..stored : Reaches(c, k) => Reaches(c, k)' BY <1>5, LiveReaches
  <2>2. \A k \in 1..stored' : k \in 1..stored \/ Reaches(c, k)' BY <1>5, NewReaches
  <2>3. (\A k \in 1..stored : Reaches(c, k)) => (\A k \in 1..stored : Reaches(c, k))' BY <2>1, <2>2
  <2>4. CASE conn'[c] = conn[c]
    <3>1. CASE conn[c].st = "on"
      <4>1. Promised(c) \/ \A k \in 1..stored : Reaches(c, k) BY <3>1 DEF CaughtUp
      <4>2. Promised(c) => Promised(c)' \/ (\A k \in 1..stored : Reaches(c, k))'
        <5>1. Promised(c) => Promised(c)' \/ \A k \in 1..stored' : k \in Has(c)' BY <1>5, <3>1, PromisedStep
        <5> QED BY <5>1 DEF Reaches
      <4> QED BY <2>3, <2>4, <3>1, <4>1, <4>2 DEF CaughtUp
    <3>2. CASE conn[c].st = "read"
      <4>1. conn[c].more \/ \A k \in 1..stored : k <= conn[c].to \/ Reaches(c, k) BY <3>2 DEF CaughtUp
      <4>2. conn[c].more \/ \A k \in 1..stored' : k <= conn[c].to \/ Reaches(c, k)' BY <2>1, <2>2, <4>1
      <4> QED BY <2>4, <3>2, <4>2 DEF CaughtUp
    <3> QED BY <1>5, <3>1, <3>2 DEF Live
  <2>5. CASE CatchupSend(c)
    <3>1. /\ \A k \in 1..conn[c].to : k \in Has(c)'
          /\ conn[c].more => \E f \in Frames(toClient'[c]) : f.more
      BY <2>5, CaughtUpTo
    <3>2. conn[c].st = "read" /\ conn'[c].st = "on"
      <4>1. conn \in [Conn -> Serving] BY <1>1 DEF TypeOK
      <4> QED BY <2>5, <4>1 DEF CatchupSend, Serving
    <3>3. conn[c].more \/ \A k \in 1..stored : k <= conn[c].to \/ Reaches(c, k) BY <3>2 DEF CaughtUp
    <3>4. conn[c].more => Promised(c)' BY <3>1 DEF Promised
    <3>5. \A k \in 1..stored : k <= conn[c].to => Reaches(c, k)' BY <1>3, <3>1 DEF Reaches
    <3>6. conn[c].more \/ \A k \in 1..stored' : Reaches(c, k)' BY <2>1, <2>2, <3>3, <3>5
    <3> QED BY <3>2, <3>4, <3>6 DEF CaughtUp
  <2> QED BY <1>4, <1>5, <2>4, <2>5, LiveStep DEF CatchupRead, Live
<1> QED BY <1>4, <1>5, LiveStep

LEMMA CalmNext == Context /\ Context' /\ NothingSkipped /\ [Next]_vars => NothingSkipped'
<1> SUFFICES ASSUME Context, Context', NothingSkipped, [Next]_vars PROVE NothingSkipped' OBVIOUS
<1>1. CASE UNCHANGED vars
  <2>1. UNCHANGED <<holder, owned, suspended, stored, head, fanouts, subs, up, toNode, toGw, map, watch, sub_at, last_forwarded, rec, conn,
                    floor, toClient, client, situation>>
    BY <1>1 DEF vars, steps, ownershipVars, chatVars, linkVars, subVars, connVars
  <2>2. (Careful /\ Calm)' = (Careful /\ Calm) BY <2>1 DEF Careful, Calm
  <2>3. Settled => Settled' BY <2>1 DEF Settled
  <2>4. OneSubscription => OneSubscription' BY <2>1 DEF OneSubscription, Ascending, Answering, Subscribed
  <2>5. \A c \in Conn : CaughtUp(c) => CaughtUp(c)' BY <2>1 DEF CaughtUp, Promised, Reaches, Has, Flies
  <2> QED BY <2>2, <2>3, <2>4, <2>5 DEF NothingSkipped
<1>2. CASE Step /\ situation' = situation
  <2> SUFFICES ASSUME Careful, Calm PROVE (Settled /\ OneSubscription /\ \A c \in Conn : CaughtUp(c))'
    BY <1>2 DEF NothingSkipped, Careful, Calm
  <2>1. CalmContext /\ \A c \in Conn : CaughtUp(c) BY <1>2 DEF CalmContext, NothingSkipped
  <2> QED BY <2>1, SettledStep, OneSubscriptionStep, CaughtUpStep
<1> QED BY <1>1, <1>2, Situated

LEMMA CalmQuiet ==
  ASSUME Context, NothingSkipped, Careful, Calm, NEW c \in Conn, Quiet(c)
  PROVE  client[c].lastSeen = stored /\ client[c].buffer = {} /\ sub_at \in subs
<1>1. /\ conn[c].st = "on" /\ toClient[c] = <<>> /\ client[c].asked = {} /\ rec.st = "idle" /\ fanouts = {} /\ sub_at = holder
      /\ can_serve(holder) /\ \A n \in Node : toGw[n] = <<>>
  BY DEF Quiet
<1>2. OneSubscription /\ CaughtUp(c) /\ holder \in Node BY DEF NothingSkipped, Settled
<1>3. sub_at \in subs BY <1>1, <1>2 DEF OneSubscription, Answering, Subscribed
<1>4. ~ Promised(c) /\ \A k : ~ Flies(k) BY <1>1, <1>2, NoFrames DEF Promised, Flies
<1>5. \A k \in 1..stored : k \in Has(c) BY <1>1, <1>2, <1>4 DEF CaughtUp, Reaches
<1>6. TypeOK /\ PageFits(c) BY DEF Context, EverythingFits, PagesFit
<1> QED BY <1>1, <1>3, <1>5, <1>6, AllSeen

-----------------------------------------------------------------------------
(* Together                                                                *)

GatewayInv == Context /\ GapsFetched /\ NothingPassedBy /\ NothingSkipped

LEMMA InvHolds == Spec => []GatewayInv
<1>1. Init => GatewayInv BY InitFits, GapsInit, OneServerInit, StaysInit, CalmInit DEF GatewayInv, Context
<1>2. GatewayInv /\ [Next]_vars => GatewayInv'
  <2> SUFFICES ASSUME GatewayInv, [Next]_vars PROVE GatewayInv' OBVIOUS
  <2>1. EverythingFits' BY FitsNext DEF GatewayInv, Context
  <2>2. OneServer' BY OneServerNext DEF GatewayInv, Context
  <2>3. Context' BY <2>1, <2>2 DEF Context
  <2>4. GapsFetched' BY GapsNext DEF GatewayInv, Context
  <2>5. NothingPassedBy' BY <2>3, StaysNext DEF GatewayInv
  <2>6. NothingSkipped' BY <2>3, CalmNext DEF GatewayInv
  <2> QED BY <2>3, <2>4, <2>5, <2>6 DEF GatewayInv
<1> QED BY <1>1, <1>2, PTL DEF Spec

\* In the situations in which nothing is lost a quiet client has every message.
LEMMA QuietHasAll ==
  ASSUME GatewayInv, Lossless, NEW c \in Conn, Quiet(c)
  PROVE  client[c].lastSeen = stored /\ client[c].buffer = {} /\ sub_at \in subs
<1>1. Careful /\ (Calm \/ Staying) BY DEF Lossless, Careful
<1>2. CASE Calm BY <1>1, <1>2, CalmQuiet DEF GatewayInv
<1>3. CASE Staying
  <2>1. situation.connected # {}
    <3>1. conn[c].st = "on" BY DEF Quiet
    <3>2. conn[c].st = IF c \in situation.connected THEN "on" ELSE "off" BY <1>3 DEF GatewayInv, Context, EverythingFits, Standing, Staying
    <3> QED BY <3>1, <3>2
  <2> QED BY <1>1, <1>3, <2>1, StaysQuiet DEF GatewayInv, Stays
<1> QED BY <1>1, <1>2, <1>3

\* When everything has come to rest, a connected client has every message: neither the
\* subscription nor the repair nor the catch-up (app/gateway.py) leaves a hole.
THEOREM NothingIsLost == Spec => []QuiescentDelivered
<1>1. GatewayInv => QuiescentDelivered BY QuietHasAll DEF QuiescentDelivered
<1> QED BY <1>1, InvHolds, PTL

\* Where the gateway has come to rest with sub_at at a node, that node has it among
\* the topic's subscribers (app/pubsub.py).
THEOREM SubscriptionIsReal == Spec => []SubscriptionHolds
<1>1. GatewayInv => SubscriptionHolds BY QuietHasAll DEF SubscriptionHolds
<1> QED BY <1>1, InvHolds, PTL

\* A page (static/index.html) that has come to rest keeps no message back behind a gap.
THEOREM GapsAreFilled == Spec => []NothingHeldBack
<1>1. GatewayInv => NothingHeldBack
  <2> SUFFICES ASSUME GatewayInv, Lossless \/ FetchesAnswered, NEW c \in Conn, Quiet(c) PROVE client[c].buffer = {} BY DEF NothingHeldBack
  <2>1. CASE Lossless BY <2>1, QuietHasAll
  <2>2. CASE FetchesAnswered BY <2>2, FetchedGapsClose DEF GatewayInv, GapsClosed
  <2> QED BY <2>1, <2>2
<1> QED BY <1>1, InvHolds, PTL

=============================================================================
