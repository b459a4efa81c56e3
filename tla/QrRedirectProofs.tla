------------------------- MODULE QrRedirectProofs -------------------------
(***************************************************************************)
(* What QrRedirect keeps for any number of users, tokens, URLs, requests   *)
(* and failures: an entry of the cache is stale only with an excuse, a     *)
(* create never takes over a token, and expiry holds for cached links.     *)
(***************************************************************************)
EXTENDS QrRedirect, TLAPS

\* The steps at which a request works on its token.
OnToken == {"warm", "check", "commit", "invalidate", "get", "evict", "read", "fill"}

\* What a request knows at its step fits the table and the clock: it has the
\* arguments that the step uses, and what it is about to write to the cache is
\* what the row says unless a commit came in between.
HasArguments(a) ==
  /\ a.step \in OnToken => a.token \in Token
  /\ a.step = "insert" => /\ a.user \in User /\ a.url \in Url /\ a.exp \in BOOLEAN
                          /\ a.attempt < MaxRetries
  /\ a.step \in {"warm", "fill"} => a.url \in Url /\ a.exp \in BOOLEAN

Holds(a) ==
  a.step \in {"warm", "fill"} /\ ~ a.late =>
    Live(a.token) /\ row[a.token].url = a.url /\ row[a.token].exp = a.exp

Owns(a) ==
  /\ a.step = "commit" => row[a.token] # NoRow
  /\ a.step = "invalidate" => a.op # "create"
  /\ a.op = "create" /\ a.step \in {"warm", "200"} =>
       a.token \in Token /\ row[a.token] # NoRow /\ row[a.token].owner = a.user

InTime(a) ==
  /\ a.after => expired
  /\ a.step = "fill" /\ a.after => a.exp = FALSE
  /\ a.op = "redirect" /\ a.step = "302" /\ a.after => a.exp = FALSE

Fits(a) == HasArguments(a) /\ Holds(a) /\ Owns(a) /\ InTime(a)

IInv == TypeOK /\ (\A r \in Request : Fits(task[r])) /\ StaleOnlyByOverlap

-----------------------------------------------------------------------------
(* One request moves.                                                      *)

\* A request that ends, or goes on to read or to invalidate.
LEMMA MovedFits ==
  ASSUME NEW a \in Task, Fits(a),
         NEW s \in Ended \cup {"read", "invalidate"},
         s \in {"read", "invalidate"} => a.step \in OnToken,
         s = "invalidate" => a.op # "create",
         s = "200" => a.op # "create" \/ a.step = "warm",
         s = "302" => a.step = "fill"
  PROVE  Moved(a, s) \in Task /\ Fits(Moved(a, s))
<1>1. Moved(a, s) \in Task
  <2>1. s \in Step /\ 0 \in 0..MaxRetries
    BY QrAssumption DEF Step
  <2>2. CASE s \in Ended
    <3>1. [a EXCEPT !.step = s, !.url = None, !.late = FALSE, !.attempt = 0] \in Task
      BY <2>1 DEF Task
    <3> QED BY <2>2, <3>1 DEF Moved
  <2>3. CASE s \notin Ended
    <3>1. [a EXCEPT !.step = s] \in Task BY <2>1 DEF Task
    <3> QED BY <2>3, <3>1 DEF Moved
  <2> QED BY <2>2, <2>3
<1>2. /\ Moved(a, s).step = s /\ Moved(a, s).op = a.op /\ Moved(a, s).user = a.user
      /\ Moved(a, s).token = a.token /\ Moved(a, s).exp = a.exp /\ Moved(a, s).after = a.after
  BY DEF Moved, Task
<1>3. HasArguments(Moved(a, s)) /\ Holds(Moved(a, s))
  BY <1>2 DEF Fits, HasArguments, Holds, OnToken, Ended
<1>4. Owns(Moved(a, s))
  BY <1>2 DEF Fits, Owns, HasArguments, OnToken, Ended
<1>5. InTime(Moved(a, s))
  BY <1>2 DEF Fits, InTime, Ended
<1> QED BY <1>1, <1>3, <1>4, <1>5 DEF Fits

\* The others stay where they are.
LEMMA OneMoves ==
  ASSUME TypeOK, \A q \in Request : Fits(task[q]),
         NEW r \in Request, NEW x \in Task, Fits(x),
         task' = [task EXCEPT ![r] = x],
         UNCHANGED <<row, expired>>
  PROVE  task' \in [Request -> Task] /\ (\A q \in Request : Fits(task[q])')
<1>1. task' \in [Request -> Task] BY DEF TypeOK
<1>2. ASSUME NEW q \in Request PROVE Fits(task[q])'
  <2>1. Fits(task'[q]) BY DEF TypeOK
  <2> QED BY <2>1 DEF Fits, HasArguments, Holds, Owns, InTime, Live
<1> QED BY <1>1, <1>2

\* Goes, for the steps of MovedFits.
LEMMA GoesFits ==
  ASSUME TypeOK, \A q \in Request : Fits(task[q]),
         NEW r \in Request, NEW s \in Ended \cup {"read", "invalidate"}, Goes(r, s),
         s \in {"read", "invalidate"} => task[r].step \in OnToken,
         s = "invalidate" => task[r].op # "create",
         s = "200" => task[r].op # "create" \/ task[r].step = "warm",
         s = "302" => task[r].step = "fill",
         UNCHANGED <<row, expired>>
  PROVE  task' \in [Request -> Task] /\ (\A q \in Request : Fits(task[q])')
<1>1. task[r] \in Task /\ Fits(task[r]) BY DEF TypeOK
<1>2. Moved(task[r], s) \in Task /\ Fits(Moved(task[r], s)) BY <1>1, MovedFits
<1> QED BY <1>2, OneMoves DEF Goes

\* Whoever is about to remove an entry still is, if it is not the one that moves.
LEMMA InvalidatorsStay ==
  ASSUME TypeOK, NEW r \in Request, NEW x, task' = [task EXCEPT ![r] = x],
         NEW q \in Request, At(q, "invalidate"), q # r
  PROVE  At(q, "invalidate")' /\ task'[q].token = task[q].token
BY DEF TypeOK, At

-----------------------------------------------------------------------------
(* The excuse of a stale entry.                                            *)

LEMMA StaleStands ==
  ASSUME StaleOnlyByOverlap, UNCHANGED <<row, cache>>, excused \subseteq excused',
         \A q \in Request : At(q, "invalidate") =>
           At(q, "invalidate")' /\ task'[q].token = task[q].token
  PROVE  StaleOnlyByOverlap'
BY DEF StaleOnlyByOverlap, Coherent, Current, Live

\* What happens to the entry of t concerns no other token.
LEMMA StaleAt ==
  ASSUME StaleOnlyByOverlap, NEW t \in Token,
         row' = row,
         \A s \in Token \ {t} : cache'[s] = cache[s] /\ (s \in excused => s \in excused'),
         (Coherent(t) \/ t \in excused)',
         \A q \in Request : At(q, "invalidate") /\ task[q].token # t =>
           At(q, "invalidate")' /\ task'[q].token = task[q].token
  PROVE  StaleOnlyByOverlap'
BY DEF StaleOnlyByOverlap, Coherent, Current, Live

LEMMA CacheSetStale ==
  ASSUME TypeOK, StaleOnlyByOverlap, NEW r \in Request, Fits(task[r]),
         task[r].step \in {"warm", "fill"}, CacheSet(r), row' = row,
         \A q \in Request : At(q, "invalidate") =>
           At(q, "invalidate")' /\ task'[q].token = task[q].token
  PROVE  /\ cache' \in [Token -> Entry \cup {NoEntry}] /\ excused' \subseteq Token
         /\ StaleOnlyByOverlap'
<1>0. PICK t \in Token : t = task[r].token
  BY DEF Fits, HasArguments, OnToken
<1>1. task[r].url \in Url /\ task[r].exp \in BOOLEAN
  BY DEF Fits, HasArguments
<1>2. cache' \in [Token -> Entry \cup {NoEntry}] /\ excused' \subseteq Token
  BY <1>0, <1>1 DEF CacheSet, TypeOK, Entry
<1>3. cache'[t] = [url |-> task[r].url, exp |-> task[r].exp]
  BY <1>0 DEF CacheSet, TypeOK
<1>4. (Coherent(t) \/ t \in excused)'
  <2>1. CASE task[r].late BY <1>0, <2>1 DEF CacheSet
  <2>2. CASE ~ task[r].late
    BY <1>0, <2>2, <1>3 DEF Fits, Holds, Coherent, Current, Live
  <2> QED BY <2>1, <2>2
<1>5. \A s \in Token \ {t} : cache'[s] = cache[s] /\ (s \in excused => s \in excused')
  BY <1>0 DEF CacheSet, TypeOK
<1> QED BY <1>2, <1>4, <1>5, StaleAt

LEMMA CacheDeleteStale ==
  ASSUME TypeOK, StaleOnlyByOverlap, NEW t \in Token, CacheDelete(t), row' = row,
         \A q \in Request : At(q, "invalidate") /\ task[q].token # t =>
           At(q, "invalidate")' /\ task'[q].token = task[q].token
  PROVE  /\ cache' \in [Token -> Entry \cup {NoEntry}] /\ excused' \subseteq Token
         /\ StaleOnlyByOverlap'
<1>1. cache' \in [Token -> Entry \cup {NoEntry}] /\ excused' \subseteq Token
  BY DEF CacheDelete, TypeOK
<1>2. Coherent(t)'
  BY DEF CacheDelete, TypeOK, Coherent
<1>3. \A s \in Token \ {t} : cache'[s] = cache[s] /\ (s \in excused => s \in excused')
  BY DEF CacheDelete, TypeOK
<1> QED BY <1>1, <1>2, <1>3, StaleAt

\* The call that fails leaves the entry, which is excused if it was to go.
LEMMA CacheFailsStale ==
  ASSUME TypeOK, StaleOnlyByOverlap, NEW t, NEW kept \in BOOLEAN, kept => t \in Token,
         CacheFails(t, t, kept), row' = row,
         \A q \in Request : At(q, "invalidate") =>
           \/ At(q, "invalidate")' /\ task'[q].token = task[q].token
           \/ task[q].token = t /\ (kept \/ cache[t] = NoEntry)
  PROVE  /\ cache' = cache /\ excused' \subseteq Token /\ faults' \in 0..MaxFaults
         /\ StaleOnlyByOverlap'
<1>1. cache' = cache /\ excused' \subseteq Token /\ excused \subseteq excused'
  BY DEF CacheFails, TypeOK
<1>2. faults' \in 0..MaxFaults
  BY QrAssumption DEF CacheFails, TypeOK
<1>3. ASSUME NEW s \in Token
      PROVE  (\/ Coherent(s) \/ s \in excused
              \/ \E q \in Request : At(q, "invalidate") /\ task[q].token = s)'
  <2>1. Coherent(s)' <=> Coherent(s) BY <1>1 DEF Coherent, Current, Live
  <2>2. CASE Coherent(s) \/ s \in excused BY <2>1, <2>2, <1>1
  <2>3. CASE \E q \in Request : At(q, "invalidate") /\ task[q].token = s
    <3>1. PICK q \in Request : At(q, "invalidate") /\ task[q].token = s BY <2>3
    <3>2. CASE s = t /\ kept BY <3>2 DEF CacheFails
    <3>3. CASE s = t /\ cache[t] = NoEntry BY <3>3, <2>1 DEF Coherent
    <3> QED BY <3>1, <3>2, <3>3
  <2> QED BY <2>2, <2>3 DEF StaleOnlyByOverlap
<1> QED BY <1>1, <1>2, <1>3 DEF StaleOnlyByOverlap

-----------------------------------------------------------------------------
(* Every action keeps the invariant.                                       *)

LEMMA ReadyType == Ready \in Task
BY QrAssumption DEF Ready, Task, Step

LEMMA InitIInv == Init => IInv
<1> SUFFICES ASSUME Init PROVE IInv
  OBVIOUS
<1>2. TypeOK
  <2>1. row \in [Token -> Row \cup {NoRow}]
    <3>1. {NoRow} \cup [owner : User, url : Url, exp : BOOLEAN, deleted : {FALSE}]
            \subseteq Row \cup {NoRow}
      BY DEF Row
    <3> QED BY <3>1 DEF Init
  <2>2. cache \in [Token -> Entry \cup {NoEntry}] /\ task \in [Request -> Task]
    BY ReadyType DEF Init
  <2>3. expired \in BOOLEAN /\ excused \subseteq Token /\ faults \in 0..MaxFaults
    <3>1. faults = 0 /\ excused = {} BY DEF Init
    <3>2. expired = FALSE BY DEF Init
    <3>3. expired \in BOOLEAN BY <3>2
    <3>4. faults \in 0..MaxFaults BY <3>1, QrAssumption
    <3> QED BY <3>1, <3>3, <3>4
  <2> QED BY <2>1, <2>2, <2>3 DEF TypeOK
<1>3. \A r \in Request : Fits(task[r])
  BY DEF Init, Ready, Fits, HasArguments, Holds, Owns, InTime, OnToken
<1>4. StaleOnlyByOverlap
  BY DEF Init, StaleOnlyByOverlap, Coherent
<1> QED BY <1>2, <1>3, <1>4 DEF IInv

LEMMA ArrivesKept ==
  ASSUME IInv, NEW r \in Request,
         NEW op \in {"create", "update", "delete", "redirect"},
         NEW step \in {"insert", "check", "get"},
         NEW u \in User \cup {None}, NEW t \in Token \cup {None},
         NEW url \in Url \cup {None}, NEW exp \in BOOLEAN \cup {None},
         step = "insert" => u \in User /\ url \in Url /\ exp \in BOOLEAN,
         step # "insert" => t \in Token,
         Arrives(r, op, step, u, t, url, exp)
  PROVE  IInv'
<1> DEFINE x == [Ready EXCEPT !.op = op, !.step = step, !.user = u, !.token = t,
                              !.url = url, !.exp = exp, !.after = expired]
<1>1. task' = [task EXCEPT ![r] = x]
  BY DEF Arrives
<1>2. x \in Task
  <2>1. expired \in BOOLEAN /\ step \in Step /\ u \in User \cup {None}
    BY DEF IInv, TypeOK, Step
  <2> QED BY <2>1, ReadyType DEF Task
<1>3. Fits(x)
  <2>1. /\ x.op = op /\ x.step = step /\ x.user = u /\ x.token = t /\ x.url = url
        /\ x.exp = exp /\ x.after = expired /\ x.attempt = 0
    BY ReadyType DEF Task, Ready
  <2> HIDE DEF x
  <2>2. HasArguments(x) BY <2>1, QrAssumption DEF HasArguments, OnToken
  <2>3. Holds(x) /\ Owns(x) /\ InTime(x) BY <2>1 DEF Holds, Owns, InTime
  <2> QED BY <2>2, <2>3 DEF Fits
<1>4. task' \in [Request -> Task] /\ (\A q \in Request : Fits(task[q])')
  <2> HIDE DEF x
  <2> QED BY <1>1, <1>2, <1>3, OneMoves DEF IInv, Arrives
<1>5. \A q \in Request : At(q, "invalidate") =>
        At(q, "invalidate")' /\ task'[q].token = task[q].token
  BY <1>1, InvalidatorsStay DEF IInv, Arrives, At
<1>6. StaleOnlyByOverlap'
  BY <1>5, StaleStands DEF IInv, Arrives
<1> QED BY <1>4, <1>6 DEF IInv, TypeOK, Arrives

LEMMA BeginKept ==
  ASSUME IInv, NEW r \in Request, Begin(r)
  PROVE  IInv'
<1>1. CASE Create(r) BY <1>1, ArrivesKept DEF Create
<1>2. CASE Update(r) BY <1>2, ArrivesKept DEF Update
<1>3. CASE Delete(r) BY <1>3, ArrivesKept DEF Delete
<1>4. CASE Redirect(r) BY <1>4, ArrivesKept DEF Redirect
<1> QED BY <1>1, <1>2, <1>3, <1>4 DEF Begin

\* A request moves that was not to remove an entry; table and cache stand.
LEMMA MoveKept ==
  ASSUME IInv, NEW r \in Request, ~ At(r, "invalidate"),
         NEW x \in Task, Fits(x), task' = [task EXCEPT ![r] = x],
         UNCHANGED <<row, cache, expired, excused, faults>>
  PROVE  IInv'
<1>1. task' \in [Request -> Task] /\ (\A q \in Request : Fits(task[q])')
  BY OneMoves DEF IInv
<1>2. StaleOnlyByOverlap'
  BY InvalidatorsStay, StaleStands DEF IInv
<1> QED BY <1>1, <1>2 DEF IInv, TypeOK

LEMMA LateType ==
  ASSUME NEW a \in Task, NEW b \in BOOLEAN
  PROVE  [a EXCEPT !.late = b] \in Task
BY DEF Task

\* A commit of the row of t: those who hold what it was are late.
LEMMA CommitKept ==
  ASSUME IInv, NEW r \in Request, NEW t \in Token, NEW new \in Row,
         NEW step \in {"warm", "invalidate"}, Commit(r, t, new, step),
         ~ At(r, "invalidate"),
         row[t] = NoRow \/ new.owner = row[t].owner,
         step = "warm" => row[t] = NoRow /\ Is(r, "create", "insert") /\ new = NewRow(r),
         step = "invalidate" => task[r].token = t /\ task[r].op \in {"update", "delete"}
  PROVE  IInv'
<1> USE DEF IInv
<1>1. row' \in [Token -> Row \cup {NoRow}]
  BY DEF Commit, TypeOK
<1>2. row'[t] = new /\ row'[t] # NoRow /\ \A s \in Token \ {t} : row'[s] = row[s]
  BY NullAssumption DEF Commit, TypeOK
<1>3. task[r] \in Task /\ Fits(task[r])
  BY DEF TypeOK
<1>4. /\ task'[r] = [task[r] EXCEPT !.step = step, !.token = t]
      /\ \A q \in Request \ {r} : task'[q] = [task[q] EXCEPT
           !.late = @ \/ (task[q].token = t /\ task[q].step \in {"fill", "warm"})]
  BY DEF Commit
<1>5. task'[r] \in Task /\ Fits(task[r])'
  <2>1. task'[r] \in Task
    BY <1>3, <1>4 DEF Task, Step
  <2>2. /\ task'[r].step = step /\ task'[r].token = t /\ task'[r].op = task[r].op
        /\ task'[r].user = task[r].user /\ task'[r].url = task[r].url
        /\ task'[r].exp = task[r].exp /\ task'[r].after = task[r].after
    BY <1>3, <1>4 DEF Task
  <2>3. HasArguments(task[r])'
    BY <1>3, <2>2 DEF Fits, HasArguments, Is, OnToken
  <2>4. Holds(task[r])'
    BY <1>2, <2>2 DEF Holds, Live, NewRow
  <2>5. Owns(task[r])'
    BY <1>2, <2>2 DEF Owns, NewRow
  <2>6. InTime(task[r])'
    BY <1>3, <2>2 DEF Fits, InTime, Commit
  <2> QED BY <2>1, <2>3, <2>4, <2>5, <2>6 DEF Fits
<1>6. ASSUME NEW q \in Request \ {r}
      PROVE  /\ task'[q] \in Task /\ Fits(task[q])'
             /\ task'[q].step = task[q].step /\ task'[q].token = task[q].token
  <2>1. task[q] \in Task /\ Fits(task[q])
    BY DEF TypeOK
  <2>2. task'[q] \in Task
    <3>1. (task[q].late \/ (task[q].token = t /\ task[q].step \in {"fill", "warm"})) \in BOOLEAN
      OBVIOUS
    <3> QED BY <3>1, <2>1, <1>4, LateType
  <2>3. /\ task'[q].step = task[q].step /\ task'[q].token = task[q].token
        /\ task'[q].op = task[q].op /\ task'[q].user = task[q].user
        /\ task'[q].url = task[q].url /\ task'[q].exp = task[q].exp
        /\ task'[q].after = task[q].after /\ task'[q].attempt = task[q].attempt
    BY <2>1, <1>4 DEF Task
  <2>8. ~ task'[q].late => ~ task[q].late /\ ~ (task[q].token = t /\ task[q].step \in {"fill", "warm"})
    BY <2>1, <1>4 DEF Task
  <2>4. HasArguments(task[q])'
    BY <2>1, <2>3 DEF Fits, HasArguments
  <2>5. Holds(task[q])'
    <3>1. SUFFICES ASSUME task'[q].step \in {"warm", "fill"}, ~ task'[q].late
                   PROVE  Live(task[q].token)' /\ row'[task'[q].token].url = task'[q].url
                                               /\ row'[task'[q].token].exp = task'[q].exp
      BY DEF Holds
    <3>2. task[q].token \in Token \ {t}
      BY <2>1, <2>3, <2>8, <3>1 DEF Fits, HasArguments, OnToken
    <3>3. Live(task[q].token) /\ row[task[q].token].url = task[q].url
                              /\ row[task[q].token].exp = task[q].exp
      BY <2>1, <2>3, <2>8, <3>1 DEF Fits, Holds
    <3> QED BY <2>3, <3>2, <3>3, <1>2 DEF Live
  <2>6. Owns(task[q])'
    BY <2>1, <2>3, <1>2 DEF Fits, HasArguments, Owns, OnToken
  <2>7. InTime(task[q])'
    BY <2>1, <2>3 DEF Fits, InTime, Commit
  <2> QED BY <2>2, <2>3, <2>4, <2>5, <2>6, <2>7 DEF Fits
<1>7. TypeOK' /\ (\A q \in Request : Fits(task[q])')
  <2>1. task' \in [Request -> Task]
    BY <1>5, <1>6 DEF Commit
  <2> QED BY <1>1, <1>5, <1>6, <2>1 DEF Commit, TypeOK
<1>8. ASSUME NEW s \in Token
      PROVE  (\/ Coherent(s) \/ s \in excused
              \/ \E q \in Request : At(q, "invalidate") /\ task[q].token = s)'
  <2>1. cache' = cache /\ excused' = excused
    BY DEF Commit
  <2>2. \A q \in Request : At(q, "invalidate") =>
          At(q, "invalidate")' /\ task'[q].token = task[q].token
    BY <1>6 DEF At
  <2>3. CASE s # t
    BY <1>2, <2>1, <2>2, <2>3 DEF StaleOnlyByOverlap, Coherent, Current, Live
  <2>4. CASE s = t /\ step = "invalidate"
    BY <1>3, <1>4, <2>4 DEF At, Task
  <2>5. CASE s = t /\ step = "warm"
    <3>1. CASE Coherent(s)
      BY <2>1, <2>5, <3>1 DEF Coherent, Current, Live
    <3>2. CASE ~ Coherent(s)
      BY <2>1, <2>2, <3>2 DEF StaleOnlyByOverlap
    <3> QED BY <3>1, <3>2
  <2> QED BY <2>3, <2>4, <2>5
<1> QED BY <1>7, <1>8 DEF StaleOnlyByOverlap

LEMMA InsertKept ==
  ASSUME IInv, NEW r \in Request, InsertMapping(r)
  PROVE  IInv'
<1> USE DEF IInv
<1>1. PICK t \in Token : Insert(r, t) \/ Collides(r, t)
  BY DEF InsertMapping
<1>2. /\ task[r] \in Task /\ Fits(task[r]) /\ task[r].op = "create"
      /\ task[r].step = "insert" /\ ~ At(r, "invalidate")
  BY DEF InsertMapping, Is, TypeOK, At
<1>3. CASE Insert(r, t)
  <2>1. NewRow(r) \in Row
    BY <1>2 DEF NewRow, Row, Fits, HasArguments
  <2> QED BY <1>2, <1>3, <2>1, CommitKept DEF Insert, Is
<1>4. CASE Collides(r, t)
  <2> DEFINE n == task[r].attempt + 1
             s == IF n = MaxRetries THEN "500" ELSE "insert"
             x == [task[r] EXCEPT !.attempt = n, !.step = s]
  <2>1. task' = [task EXCEPT ![r] = x]
    BY <1>4 DEF Collides
  <2>2. n \in 0..MaxRetries /\ s \in Step /\ (s = "insert" => n < MaxRetries) /\ s \in {"500", "insert"}
    BY <1>2, QrAssumption DEF Fits, HasArguments, Task, Step, Ended
  <2>3. x \in Task
    <3> HIDE DEF n, s
    <3> QED BY <1>2, <2>2 DEF Task
  <2>4. Fits(x)
    <3> HIDE DEF n, s
    <3>1. /\ x.op = task[r].op /\ x.step = s /\ x.user = task[r].user /\ x.token = task[r].token
          /\ x.url = task[r].url /\ x.exp = task[r].exp /\ x.after = task[r].after /\ x.attempt = n
      BY <1>2 DEF Task
    <3> HIDE DEF x
    <3>2. HasArguments(x) BY <1>2, <2>2, <3>1 DEF Fits, HasArguments, OnToken
    <3>3. Holds(x) /\ Owns(x) BY <2>2, <3>1 DEF Holds, Owns
    <3>4. InTime(x) BY <1>2, <2>2, <3>1 DEF Fits, InTime
    <3> QED BY <3>2, <3>3, <3>4 DEF Fits
  <2>5. UNCHANGED <<row, cache, expired, excused, faults>>
    BY <1>4 DEF Collides
  <2> HIDE DEF x
  <2> QED BY <1>2, <2>1, <2>3, <2>4, <2>5, MoveKept
<1> QED BY <1>1, <1>3, <1>4

\* Goes, when table and cache stand and no removal is given up.
LEMMA GoesKept ==
  ASSUME IInv, NEW r \in Request, NEW s \in Ended \cup {"read", "invalidate"}, Goes(r, s),
         ~ At(r, "invalidate"),
         s \in {"read", "invalidate"} => task[r].step \in OnToken,
         s = "invalidate" => task[r].op # "create",
         s = "200" => task[r].op # "create" \/ task[r].step = "warm",
         s = "302" => task[r].step = "fill",
         UNCHANGED <<row, cache, expired, excused, faults>>
  PROVE  IInv'
<1>1. task[r] \in Task /\ Fits(task[r]) BY DEF IInv, TypeOK
<1>2. Moved(task[r], s) \in Task /\ Fits(Moved(task[r], s)) BY <1>1, MovedFits
<1> QED BY <1>2, MoveKept DEF Goes

LEMMA CheckOwnerKept ==
  ASSUME IInv, NEW r \in Request, CheckOwner(r)
  PROVE  IInv'
<1> DEFINE a == task[r]
           m == row[a.token]
<1>1. a \in Task /\ Fits(a) /\ a.step = "check" /\ ~ At(r, "invalidate") /\ a.token \in Token
  BY DEF IInv, TypeOK, CheckOwner, At, Fits, HasArguments, OnToken
<1>2. UNCHANGED <<row, cache, expired, excused, faults>>
  BY DEF CheckOwner
<1>3. CASE Goes(r, "404")
  BY <1>1, <1>2, <1>3, GoesKept DEF Ended
<1>4. CASE a.op = "update" /\ Goes(r, "200")
  BY <1>1, <1>2, <1>4, GoesKept DEF Ended
<1>5. CASE /\ Live(a.token)
           /\ task' = [task EXCEPT ![r].step = "commit", ![r].url = Differs(@, m.url),
                                                         ![r].exp = Differs(@, m.exp)]
  <2> DEFINE url == Differs(a.url, m.url)
             exp == Differs(a.exp, m.exp)
             x == [a EXCEPT !.step = "commit", !.url = url, !.exp = exp]
  <2>1. task' = [task EXCEPT ![r] = x]
    BY <1>5, <1>1
  <2>2. url \in Url \cup {None} /\ exp \in BOOLEAN \cup {None}
    BY <1>1 DEF Differs, Task
  <2> HIDE DEF url, exp
  <2>3. x \in Task
    BY <1>1, <2>2 DEF Task, Step
  <2>4. /\ x.op = a.op /\ x.step = "commit" /\ x.token = a.token /\ x.after = a.after
    BY <1>1 DEF Task
  <2>5. Fits(x)
    <3> HIDE DEF x, a
    <3> QED BY <1>1, <1>5, <2>4 DEF Fits, HasArguments, Holds, Owns, InTime, Live
  <2> HIDE DEF x
  <2> QED BY <1>1, <1>2, <2>1, <2>3, <2>5, MoveKept
<1> QED BY <1>3, <1>4, <1>5 DEF CheckOwner

LEMMA CommitsKept ==
  ASSUME IInv, NEW r \in Request, CommitUpdate(r) \/ CommitDelete(r)
  PROVE  IInv'
<1>1. /\ task[r] \in Task /\ Fits(task[r]) /\ ~ At(r, "invalidate")
      /\ task[r].step = "commit" /\ task[r].op \in {"update", "delete"}
  BY DEF IInv, TypeOK, CommitUpdate, CommitDelete, Is, At
<1>2. PICK t \in Token : t = task[r].token
  BY <1>1 DEF Fits, HasArguments, OnToken
<1>3. row[t] \in Row
  BY <1>1, <1>2 DEF IInv, TypeOK, Fits, Owns
<1>4. CASE CommitUpdate(r)
  <2> DEFINE new == Changed(t, task[r])
  <2>1. new \in Row /\ new.owner = row[t].owner
    BY <1>1, <1>3 DEF Changed, Given, Row, Task
  <2> HIDE DEF new
  <2>2. CASE Commit(r, t, new, "invalidate")
    BY <1>1, <1>2, <2>1, <2>2, CommitKept
  <2>3. CASE Goes(r, "invalidate") /\ UNCHANGED <<row, cache, expired, excused, faults>>
    BY <1>1, <2>3, GoesKept DEF OnToken
  <2> QED BY <1>2, <1>4, <2>2, <2>3 DEF CommitUpdate, new
<1>5. CASE CommitDelete(r)
  <2> DEFINE new == [row[t] EXCEPT !.deleted = TRUE]
  <2>1. new \in Row /\ new.owner = row[t].owner
    BY <1>3 DEF Row
  <2>2. Commit(r, t, new, "invalidate")
    BY <1>2, <1>5 DEF CommitDelete
  <2> HIDE DEF new
  <2> QED BY <1>1, <1>2, <2>1, <2>2, CommitKept
<1> QED BY <1>4, <1>5

\* cache.set at the end of a create and of a redirect.
LEMMA CacheSetKept ==
  ASSUME IInv, NEW r \in Request, WarmCache(r) \/ FillCache(r)
  PROVE  IInv'
<1>1. /\ task[r] \in Task /\ Fits(task[r]) /\ task[r].step \in {"warm", "fill"}
      /\ CacheSet(r) /\ UNCHANGED <<row, expired, faults>>
  BY DEF IInv, TypeOK, WarmCache, FillCache, At
<1>2. PICK s \in {"200", "302"} : /\ Goes(r, s)
                                  /\ s = "200" => task[r].step = "warm"
                                  /\ s = "302" => task[r].step = "fill"
  BY DEF WarmCache, FillCache, At
<1>3. task' \in [Request -> Task] /\ (\A q \in Request : Fits(task[q])')
  BY <1>1, <1>2, GoesFits DEF IInv, Ended
<1>4. \A q \in Request : At(q, "invalidate") =>
        At(q, "invalidate")' /\ task'[q].token = task[q].token
  BY <1>1, <1>2, InvalidatorsStay DEF IInv, Goes, At
<1>5. /\ cache' \in [Token -> Entry \cup {NoEntry}] /\ excused' \subseteq Token
      /\ StaleOnlyByOverlap'
  BY <1>1, <1>4, CacheSetStale DEF IInv
<1> QED BY <1>1, <1>3, <1>5 DEF IInv, TypeOK

\* cache.delete after a commit and of an expired entry.
LEMMA CacheDeleteKept ==
  ASSUME IInv, NEW r \in Request, Invalidate(r) \/ Evict(r)
  PROVE  IInv'
<1>1. /\ task[r] \in Task /\ Fits(task[r]) /\ task[r].step \in {"invalidate", "evict"}
      /\ CacheDelete(task[r].token) /\ UNCHANGED <<row, expired, faults>>
  BY DEF IInv, TypeOK, Invalidate, Evict, At
<1>2. PICK t \in Token : t = task[r].token
  BY <1>1 DEF Fits, HasArguments, OnToken
<1>3. PICK s \in {"200", "read"} : Goes(r, s) /\ (s = "200" => task[r].step = "invalidate")
  BY DEF Invalidate, Evict, At
<1>4. task' \in [Request -> Task] /\ (\A q \in Request : Fits(task[q])')
  <2>1. s = "200" => task[r].op # "create"
    BY <1>1, <1>3 DEF Fits, Owns
  <2> QED BY <1>1, <1>3, <2>1, GoesFits DEF IInv, Ended, OnToken
<1>5. \A q \in Request : At(q, "invalidate") /\ task[q].token # t =>
        At(q, "invalidate")' /\ task'[q].token = task[q].token
  BY <1>2, <1>3, InvalidatorsStay DEF IInv, Goes
<1>6. /\ cache' \in [Token -> Entry \cup {NoEntry}] /\ excused' \subseteq Token
      /\ StaleOnlyByOverlap'
  BY <1>1, <1>2, <1>5, CacheDeleteStale DEF IInv
<1> QED BY <1>1, <1>4, <1>6 DEF IInv, TypeOK

LEMMA LookUpKept ==
  ASSUME IInv, NEW r \in Request, LookUp(r)
  PROVE  IInv'
<1> DEFINE a == task[r]
           e == cache[a.token]
<1>1. a \in Task /\ Fits(a) /\ a.step = "get" /\ ~ At(r, "invalidate") /\ a.token \in Token
  BY DEF IInv, TypeOK, LookUp, At, Fits, HasArguments, OnToken
<1>2. UNCHANGED <<row, cache, expired, excused, faults>>
  BY DEF LookUp
<1>3. CASE e = NoEntry
  BY <1>1, <1>2, <1>3, GoesKept DEF LookUp, OnToken
<1>4. CASE e # NoEntry
  <2> DEFINE s == OnHit(e)
             x == [Moved(a, s) EXCEPT !.exp = e.exp]
  <2>1. task' = [task EXCEPT ![r] = x]
    BY <1>4 DEF LookUp
  <2>2. e.exp \in BOOLEAN
    BY <1>1, <1>4 DEF IInv, TypeOK, Entry
  <2>3. s \in {"evict", "302"} /\ (s = "302" => ~ (e.exp /\ expired))
    BY DEF OnHit, Overdue
  <2> HIDE DEF s, e
  <2>4. Moved(a, s) \in Task
    <3>1. CASE s = "302"
      <4> HIDE DEF a
      <4>1. 0 \in 0..MaxRetries BY QrAssumption
      <4>2. s \in Step /\ None \in Url \cup {None} BY <3>1 DEF Step, Ended
      <4>3. [a EXCEPT !.step = s, !.url = None, !.late = FALSE, !.attempt = 0] \in Task
        BY <1>1, <4>1, <4>2 DEF Task
      <4> QED BY <3>1, <4>3 DEF Moved, Ended
    <3>2. CASE s = "evict"
      <4>1. [a EXCEPT !.step = s] \in Task BY <1>1, <3>2 DEF Task, Step
      <4> QED BY <3>2, <4>1 DEF Moved, Ended
    <3> QED BY <2>3, <3>1, <3>2
  <2>5. Moved(a, s).step = s /\ Moved(a, s).token = a.token /\ Moved(a, s).after = a.after
    BY <1>1 DEF Moved, Task
  <2>6. x \in Task
    BY <2>2, <2>4 DEF Task
  <2>7. x.step = s /\ x.token = a.token /\ x.after = a.after /\ x.exp = e.exp
    BY <2>4, <2>5 DEF Task
  <2>8. Fits(x)
    <3> HIDE DEF x, a
    <3>1. HasArguments(x) /\ Holds(x) /\ Owns(x)
      BY <1>1, <2>3, <2>7 DEF HasArguments, Holds, Owns, OnToken
    <3>2. InTime(x)
      BY <1>1, <2>2, <2>3, <2>7 DEF Fits, InTime
    <3> QED BY <3>1, <3>2 DEF Fits
  <2> HIDE DEF x
  <2> QED BY <1>1, <1>2, <2>1, <2>6, <2>8, MoveKept
<1> QED BY <1>3, <1>4

LEMMA ReadMappingKept ==
  ASSUME IInv, NEW r \in Request, ReadMapping(r)
  PROVE  IInv'
<1> DEFINE a == task[r]
           m == row[a.token]
<1>1. a \in Task /\ Fits(a) /\ a.step = "read" /\ ~ At(r, "invalidate") /\ a.token \in Token
  BY DEF IInv, TypeOK, ReadMapping, At, Fits, HasArguments, OnToken
<1>2. UNCHANGED <<row, cache, expired, excused, faults>>
  BY DEF ReadMapping
<1>3. CASE Goes(r, "404") \/ Goes(r, "410")
  BY <1>1, <1>2, <1>3, GoesKept DEF Ended
<1>4. CASE /\ Live(a.token) /\ ~ Overdue(m.exp)
           /\ task' = [task EXCEPT ![r].step = "fill", ![r].url = m.url, ![r].exp = m.exp]
  <2> DEFINE x == [a EXCEPT !.step = "fill", !.url = m.url, !.exp = m.exp]
  <2>1. task' = [task EXCEPT ![r] = x]
    BY <1>4, <1>1
  <2>2. m.url \in Url /\ m.exp \in BOOLEAN
    BY <1>1, <1>4 DEF IInv, TypeOK, Live, Row
  <2>3. x \in Task
    BY <1>1, <2>2 DEF Task, Step
  <2>4. /\ x.step = "fill" /\ x.token = a.token /\ x.after = a.after
        /\ x.url = m.url /\ x.exp = m.exp
    BY <1>1 DEF Task
  <2>5. Fits(x)
    <3> HIDE DEF x
    <3>1. HasArguments(x) /\ Holds(x) /\ Owns(x)
      BY <1>1, <1>4, <2>2, <2>4 DEF HasArguments, Holds, Owns, OnToken
    <3>2. InTime(x)
      BY <1>1, <1>4, <2>2, <2>4 DEF Fits, InTime, Overdue
    <3> QED BY <3>1, <3>2 DEF Fits
  <2> HIDE DEF x
  <2> QED BY <1>1, <1>2, <2>1, <2>3, <2>5, MoveKept
<1> QED BY <1>3, <1>4 DEF ReadMapping, Live

LEMMA FailsKept ==
  ASSUME IInv, NEW r \in Request, CallFails(r) \/ ServerDies(r)
  PROVE  IInv'
<1>1. task[r] \in Task /\ Fits(task[r])
  BY DEF IInv, TypeOK
<1> DEFINE t == task[r].token
<1>2. PICK kept \in BOOLEAN, s \in {"200", "302", "500", "read"} :
        /\ CacheFails(r, t, kept) /\ Goes(r, s) /\ UNCHANGED <<row, expired>>
        /\ kept <=> At(r, "invalidate") /\ cache[t] # NoEntry
        /\ s = "200" => task[r].step \in {"warm", "invalidate"}
        /\ s = "302" => task[r].step = "fill"
        /\ s = "read" => task[r].step \in {"get", "evict"}
  <2>1. CASE ServerDies(r) BY <2>1 DEF ServerDies
  <2>2. CASE CallFails(r) BY <2>2 DEF CallFails, At
  <2> QED BY <2>1, <2>2
<1>3. task' \in [Request -> Task] /\ (\A q \in Request : Fits(task[q])')
  <2>1. s = "200" => task[r].op # "create" \/ task[r].step = "warm"
    BY <1>1, <1>2 DEF Fits, Owns
  <2> QED BY <1>2, <2>1, GoesFits DEF IInv, Ended, OnToken
<1>4. PICK u : u = t
  OBVIOUS
<1>5. kept => u \in Token
  BY <1>1, <1>2, <1>4 DEF Fits, HasArguments, OnToken, At
<1>6. CacheFails(u, u, kept)
  BY <1>2, <1>4 DEF CacheFails
<1>7. \A q \in Request : At(q, "invalidate") =>
        \/ At(q, "invalidate")' /\ task'[q].token = task[q].token
        \/ task[q].token = u /\ (kept \/ cache[u] = NoEntry)
  BY <1>2, <1>4, InvalidatorsStay DEF IInv, Goes
<1>8. /\ cache' = cache /\ excused' \subseteq Token /\ faults' \in 0..MaxFaults
      /\ StaleOnlyByOverlap'
  BY <1>2, <1>5, <1>6, <1>7, CacheFailsStale DEF IInv
<1> QED BY <1>2, <1>3, <1>8 DEF IInv, TypeOK

LEMMA ClocksKept ==
  ASSUME IInv, TimePasses \/ (\E t \in Token : CacheExpires(t)) \/ UNCHANGED vars
  PROVE  IInv'
<1> USE DEF IInv
<1>1. CASE TimePasses
  <2>1. \A q \in Request : Fits(task[q])'
    BY <1>1 DEF TimePasses, Fits, HasArguments, Holds, Owns, InTime, Live
  <2>2. StaleOnlyByOverlap'
    BY <1>1 DEF TimePasses, StaleOnlyByOverlap, Coherent, Current, Live, At
  <2> QED BY <1>1, <2>1, <2>2 DEF TimePasses, TypeOK
<1>2. CASE \E t \in Token : CacheExpires(t)
  <2>1. PICK t \in Token : CacheExpires(t) BY <1>2
  <2>2. \A q \in Request : Fits(task[q])'
    BY <2>1 DEF CacheExpires, Fits, HasArguments, Holds, Owns, InTime, Live
  <2>3. /\ cache' \in [Token -> Entry \cup {NoEntry}] /\ excused' \subseteq Token
        /\ StaleOnlyByOverlap'
    BY <2>1, CacheDeleteStale DEF CacheExpires, At
  <2> QED BY <2>1, <2>2, <2>3 DEF CacheExpires, TypeOK
<1>3. CASE UNCHANGED vars
  BY <1>3 DEF vars, TypeOK, Fits, HasArguments, Holds, Owns, InTime, Live,
              StaleOnlyByOverlap, Coherent, Current, At
<1> QED BY <1>1, <1>2, <1>3

LEMMA NextKept == IInv /\ [Next]_vars => IInv'
<1> SUFFICES ASSUME IInv, [Next]_vars PROVE IInv'
  OBVIOUS
<1>1. CASE UNCHANGED vars \/ TimePasses \/ \E t \in Token : CacheExpires(t)
  BY <1>1, ClocksKept
<1>2. ASSUME NEW r \in Request, Begin(r) \/ Works(r) \/ CallFails(r) \/ ServerDies(r)
      PROVE  IInv'
  <2>1. CASE Begin(r) BY <2>1, BeginKept
  <2>2. CASE InsertMapping(r) BY <2>2, InsertKept
  <2>3. CASE WarmCache(r) \/ FillCache(r) BY <2>3, CacheSetKept
  <2>4. CASE CheckOwner(r) BY <2>4, CheckOwnerKept
  <2>5. CASE CommitUpdate(r) \/ CommitDelete(r) BY <2>5, CommitsKept
  <2>6. CASE Invalidate(r) \/ Evict(r) BY <2>6, CacheDeleteKept
  <2>7. CASE LookUp(r) BY <2>7, LookUpKept
  <2>8. CASE ReadMapping(r) BY <2>8, ReadMappingKept
  <2>9. CASE CallFails(r) \/ ServerDies(r) BY <2>9, FailsKept
  <2> QED BY <1>2, <2>1, <2>2, <2>3, <2>4, <2>5, <2>6, <2>7, <2>8, <2>9 DEF Works
<1> QED BY <1>1, <1>2 DEF Next

-----------------------------------------------------------------------------
\* The strengthened invariant holds in every state.
THEOREM InvariantHolds == Spec => []IInv
BY InitIInv, NextKept, PTL DEF Spec

\* The requests, the table and the cache keep their types.
THEOREM TypeCorrect == Spec => []TypeOK
<1>1. IInv => TypeOK BY DEF IInv
<1> QED BY <1>1, InvariantHolds, PTL

\* A cache entry differs from its row only while a request is about to remove
\* it, or after an overlapping write to the cache or a failed removal.
THEOREM StaleNeedsExcuse == Spec => []StaleOnlyByOverlap
<1>1. IInv => StaleOnlyByOverlap BY DEF IInv
<1> QED BY <1>1, InvariantHolds, PTL

\* The token that a create returned belongs to its user from then on.
THEOREM TokensAreOwn == Spec => []TokenIsOwn
<1>1. IInv => TokenIsOwn BY DEF IInv, TokenIsOwn, Fits, Owns, Is
<1> QED BY <1>1, InvariantHolds, PTL

\* A scan that arrives after the expiry of the link is not redirected.
THEOREM ExpiryHolds == Spec => []NoScanAfterExpiry
<1>1. IInv => NoScanAfterExpiry BY DEF IInv, NoScanAfterExpiry, Fits, InTime, Is
<1> QED BY <1>1, InvariantHolds, PTL

=============================================================================
