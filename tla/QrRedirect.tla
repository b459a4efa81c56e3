----------------------------- MODULE QrRedirect -----------------------------
(***************************************************************************)
(* The QR code service (app/routes.py): the table url_mappings, the        *)
(* redirect cache that all servers share (app/cache.py), and the requests  *)
(* that work on both: create, update, delete and the redirect.             *)
(*                                                                         *)
(* A request runs in a thread of its own; each call of the database or of  *)
(* the cache is an action.  URLs are model values (QrManage has the        *)
(* validator, tokens and images); of the clock only one instant counts,    *)
(* the one at which links with an expires_at expire.                       *)
(***************************************************************************)
EXTENDS Integers, FiniteSets

CONSTANTS
  User, Token, Url,
  NoRow, NoEntry, None,  \* no row, no cache entry, a field that is not given
  MaxRequests,  \* bound on the requests
  MaxRetries,   \* MAX_RETRIES of token_gen
  MaxFaults     \* bound on the cache calls that fail

ASSUME QrAssumption ==
  /\ MaxRetries \in Nat \ {0} /\ MaxFaults \in Nat /\ MaxRequests \in Nat
  /\ None \notin User \cup Token \cup Url \cup BOOLEAN

\* Requests are numbered in the order of arrival.
Request == 1..MaxRequests

VARIABLES
  row,      \* token -> its row in url_mappings, or NoRow
  cache,    \* token -> its cache entry, or NoEntry
  task,     \* request -> what it does
  expired,  \* the instant has passed
  excused,  \* tokens whose cache entry was written late or not removed (history)
  faults

vars == <<row, cache, task, expired, excused, faults>>

\* exp: the link expires at the instant; otherwise later or never.
Row == [owner : User, url : Url, exp : BOOLEAN, deleted : BOOLEAN]
Entry == [url : Url, exp : BOOLEAN]

ASSUME NullAssumption == NoRow \notin Row /\ NoEntry \notin Entry

\* token, user, url, exp: the request's arguments, then what it read;
\* late: a commit on the row came after it read or inserted it (history);
\* after: it came after the instant (history).
Ended == {"200", "302", "404", "410", "500"}
Step == {"ready", "insert", "warm", "check", "commit", "invalidate", "get", "evict",
         "read", "fill"} \cup Ended
Task == [op : {"none", "create", "update", "delete", "redirect"}, step : Step,
         user : User \cup {None}, token : Token \cup {None}, url : Url \cup {None},
         exp : BOOLEAN \cup {None},
         attempt : 0..MaxRetries, late : BOOLEAN, after : BOOLEAN]

TypeOK ==
  /\ row \in [Token -> Row \cup {NoRow}]
  /\ cache \in [Token -> Entry \cup {NoEntry}]
  /\ task \in [Request -> Task]
  /\ expired \in BOOLEAN /\ excused \subseteq Token /\ faults \in 0..MaxFaults

Ready == [op |-> "none", step |-> "ready", user |-> None, token |-> None,
          url |-> None, exp |-> None, attempt |-> 0, late |-> FALSE, after |-> FALSE]

\* Some links exist already, none of them in the cache.
Init ==
  /\ row \in [Token -> {NoRow} \cup [owner : User, url : Url, exp : BOOLEAN, deleted : {FALSE}]]
  /\ cache = [t \in Token |-> NoEntry]
  /\ task = [r \in Request |-> Ready]
  /\ expired = FALSE /\ excused = {} /\ faults = 0

Is(r, op, step) == task[r].op = op /\ task[r].step = step
At(r, step) == task[r].step = step

\* An ended request forgets what no property asks for.
Moved(a, step) == IF step \in Ended THEN [a EXCEPT !.step = step, !.url = None, !.late = FALSE, !.attempt = 0]
               ELSE [a EXCEPT !.step = step]
Goes(r, step) == task' = [task EXCEPT ![r] = Moved(@, step)]

-----------------------------------------------------------------------------
(* The database and the cache.                                             *)

Live(t) == row[t] # NoRow /\ ~ row[t].deleted

\* A commit on the row of t: who read it before and has not filled the cache
\* yet is late.
Commit(r, t, new, step) ==
  /\ row' = [row EXCEPT ![t] = new]
  /\ task' = [q \in Request |->
       IF q = r THEN [task[r] EXCEPT !.step = step, !.token = t]
       ELSE [task[q] EXCEPT !.late = @ \/ (task[q].token = t /\ task[q].step \in {"fill", "warm"})]]
  /\ UNCHANGED <<cache, expired, excused, faults>>

\* cache.set of what the request holds.
CacheSet(r) ==
  LET t == task[r].token IN
  /\ cache' = [cache EXCEPT ![t] = [url |-> task[r].url, exp |-> task[r].exp]]
  /\ excused' = IF task[r].late THEN excused \cup {t} ELSE excused \ {t}

CacheDelete(t) ==
  /\ cache' = [cache EXCEPT ![t] = NoEntry]
  /\ excused' = excused \ {t}

\* The call raises; the exception is logged.  An entry that was to be removed
\* stays.
CacheFails(r, t, kept) ==
  /\ faults < MaxFaults /\ faults' = faults + 1
  /\ excused' = IF kept THEN excused \cup {t} ELSE excused
  /\ UNCHANGED cache

\* Mutant: entries have no TTL.
CacheExpires_Never(t) == cache[t] # NoEntry /\ FALSE /\ UNCHANGED vars

\* The entry's TTL is over.
CacheExpires(t) ==
  /\ cache[t] # NoEntry
  /\ CacheDelete(t)
  /\ UNCHANGED <<row, task, expired, faults>>

TimePasses ==
  /\ ~ expired /\ expired' = TRUE
  /\ UNCHANGED <<row, cache, task, excused, faults>>

-----------------------------------------------------------------------------
(* The requests arrive.                                                    *)

Arrives(r, op, step, u, t, url, exp) ==
  /\ At(r, "ready") /\ \A q \in Request : At(q, "ready") => r <= q
  /\ task' = [task EXCEPT ![r] = [Ready EXCEPT !.op = op, !.step = step, !.user = u,
                                   !.token = t, !.url = url, !.exp = exp, !.after = expired]]
  /\ UNCHANGED <<row, cache, expired, excused, faults>>

Create(r) == \E u \in User, url \in Url, exp \in BOOLEAN :
               Arrives(r, "create", "insert", u, None, url, exp)
Update(r) == \E u \in User, t \in Token, url \in Url \cup {None}, exp \in BOOLEAN \cup {None} :
               Arrives(r, "update", "check", u, t, url, exp)
Delete(r) == \E u \in User, t \in Token : Arrives(r, "delete", "check", u, t, None, None)
Redirect(r) == \E t \in Token : Arrives(r, "redirect", "get", None, t, None, None)

-----------------------------------------------------------------------------
(* create_qr                                                               *)

NewRow(r) == [owner |-> task[r].user, url |-> task[r].url, exp |-> task[r].exp, deleted |-> FALSE]

\* Mutant: the insert replaces a row that has the token.
Insert_Replace(r, t) == Commit(r, t, NewRow(r), "warm")

\* make_token gives the candidate t; UNIQUE lets it in.
Insert(r, t) == row[t] = NoRow /\ Commit(r, t, NewRow(r), "warm")

\* IntegrityError: the next attempt has another nonce.
Collides(r, t) ==
  /\ row[t] # NoRow
  /\ LET n == task[r].attempt + 1
     IN task' = [task EXCEPT ![r].attempt = n, ![r].step = IF n = MaxRetries THEN "500" ELSE "insert"]
  /\ UNCHANGED <<row, cache, expired, excused, faults>>

InsertMapping(r) ==
  Is(r, "create", "insert") /\ \E t \in Token : Insert(r, t) \/ Collides(r, t)

WarmCache(r) ==
  /\ At(r, "warm")
  /\ CacheSet(r)
  /\ Goes(r, "200")
  /\ UNCHANGED <<row, expired, faults>>

-----------------------------------------------------------------------------
(* update_qr and delete_qr                                                 *)

\* The session writes a column only if the value differs from the one it read.
Differs(value, old) == IF value = old THEN None ELSE value

\* _get_owned_or_404.  A PATCH without fields commits and invalidates nothing.
CheckOwner(r) ==
  LET m == row[task[r].token] IN
  /\ At(r, "check")
  /\ IF ~ Live(task[r].token) \/ m.owner # task[r].user THEN Goes(r, "404")
     ELSE IF task[r].op = "update" /\ task[r].url = None /\ task[r].exp = None THEN Goes(r, "200")
     ELSE task' = [task EXCEPT ![r].step = "commit", ![r].url = Differs(@, m.url),
                                                     ![r].exp = Differs(@, m.exp)]
  /\ UNCHANGED <<row, cache, expired, excused, faults>>

Given(value, old) == IF value = None THEN old ELSE value

Changed(t, a) == [row[t] EXCEPT !.url = Given(a.url, @), !.exp = Given(a.exp, @)]

CommitUpdate(r) ==
  LET t == task[r].token
      new == Changed(t, task[r])
  IN /\ Is(r, "update", "commit")
     /\ \/ new # row[t] /\ Commit(r, t, new, "invalidate")
        \/ new = row[t] /\ Goes(r, "invalidate") /\ UNCHANGED <<row, cache, expired, excused, faults>>

\* Mutant: the cache entry stays.
CommitDelete_NoInvalidate(r) ==
  LET t == task[r].token IN
  /\ Is(r, "delete", "commit")
  /\ Commit(r, t, [row[t] EXCEPT !.deleted = TRUE], "200")

CommitDelete(r) ==
  LET t == task[r].token IN
  /\ Is(r, "delete", "commit")
  /\ Commit(r, t, [row[t] EXCEPT !.deleted = TRUE], "invalidate")

Invalidate(r) ==
  /\ At(r, "invalidate")
  /\ CacheDelete(task[r].token)
  /\ Goes(r, "200")
  /\ UNCHANGED <<row, expired, faults>>

-----------------------------------------------------------------------------
(* redirect                                                                *)

Overdue(exp) == exp /\ expired

\* Mutant: a hit is not checked for expiry.
OnHit_NoCheck(e) == "302"

\* The next step for this cache entry.
OnHit(e) == IF Overdue(e.exp) THEN "evict" ELSE "302"

LookUp(r) ==
  LET e == cache[task[r].token] IN
  /\ At(r, "get")
  /\ IF e = NoEntry THEN Goes(r, "read")
     ELSE task' = [task EXCEPT ![r] = [Moved(@, OnHit(e)) EXCEPT !.exp = e.exp]]
  /\ UNCHANGED <<row, cache, expired, excused, faults>>

Evict(r) ==
  /\ At(r, "evict")
  /\ CacheDelete(task[r].token)
  /\ Goes(r, "read")
  /\ UNCHANGED <<row, expired, faults>>

\* 404, 410, or the URL, with which the cache is filled.
ReadMapping(r) ==
  LET m == row[task[r].token] IN
  /\ At(r, "read")
  /\ IF m = NoRow THEN Goes(r, "404")
     ELSE IF m.deleted \/ Overdue(m.exp) THEN Goes(r, "410")
     ELSE task' = [task EXCEPT ![r].step = "fill", ![r].url = m.url, ![r].exp = m.exp]
  /\ UNCHANGED <<row, cache, expired, excused, faults>>

FillCache(r) ==
  /\ At(r, "fill")
  /\ CacheSet(r)
  /\ Goes(r, "302")
  /\ UNCHANGED <<row, expired, faults>>

\* What the request does when its call of the cache raises.
CallFails(r) ==
  LET t == task[r].token IN
  /\ \/ At(r, "warm") /\ CacheFails(r, t, FALSE) /\ Goes(r, "200")
     \/ At(r, "invalidate") /\ CacheFails(r, t, cache[t] # NoEntry) /\ Goes(r, "200")
     \/ At(r, "get") /\ CacheFails(r, t, FALSE) /\ Goes(r, "read")
     \/ At(r, "evict") /\ CacheFails(r, t, FALSE) /\ Goes(r, "read")
     \/ At(r, "fill") /\ CacheFails(r, t, FALSE) /\ Goes(r, "302")
  /\ UNCHANGED <<row, expired>>

\* The server process dies during the request; the cache is another process.
ServerDies(r) ==
  LET t == task[r].token IN
  /\ ~ At(r, "ready") /\ task[r].step \notin Ended
  /\ CacheFails(r, t, At(r, "invalidate") /\ cache[t] # NoEntry)
  /\ Goes(r, "500")
  /\ UNCHANGED <<row, expired>>

-----------------------------------------------------------------------------
Begin(r) == Create(r) \/ Update(r) \/ Delete(r) \/ Redirect(r)

Works(r) == \/ InsertMapping(r) \/ WarmCache(r)
            \/ CheckOwner(r) \/ CommitUpdate(r) \/ CommitDelete(r) \/ Invalidate(r)
            \/ LookUp(r) \/ Evict(r) \/ ReadMapping(r) \/ FillCache(r)

Next ==
  \/ TimePasses
  \/ \E t \in Token : CacheExpires(t)
  \/ \E r \in Request : Begin(r) \/ Works(r) \/ CallFails(r) \/ ServerDies(r)

Spec == Init /\ [][Next]_vars

\* Threads go on, and an entry does not outlive its TTL for ever.
FairSpec ==
  /\ Spec
  /\ \A r \in Request : WF_vars(Works(r))
  /\ \A t \in Token : WF_vars(CacheExpires(t))

-----------------------------------------------------------------------------
\* The entry says what the row says.
Current(t) ==
  /\ Live(t)
  /\ cache[t] = [url |-> row[t].url, exp |-> row[t].exp]

Coherent(t) == cache[t] # NoEntry => Current(t)

\* An entry that differs from its row is about to be removed, or was written by
\* a request that had read the row before the commit and wrote after it, or its
\* removal failed: there is no other way to a stale entry.
StaleOnlyByOverlap ==
  \A t \in Token :
    \/ Coherent(t) \/ t \in excused
    \/ \E r \in Request : At(r, "invalidate") /\ task[r].token = t

\* Whoever created a link got a token of his own: no other create replaced it.
TokenIsOwn ==
  \A r \in Request : Is(r, "create", "200") \/ Is(r, "create", "warm") =>
    row[task[r].token] # NoRow /\ row[task[r].token].owner = task[r].user

\* A scan that comes after the link has expired does not follow it, also if the
\* cache has it from before.
NoScanAfterExpiry ==
  \A r \in Request : Is(r, "redirect", "302") /\ task[r].after => task[r].exp = FALSE

\* The TTL repairs what an overlap left behind.
EventuallyCoherent == <>[](\A t \in Token : Coherent(t))

\* With no request in progress, the cache has nothing that the table has not.
CoherentAtRest ==
  (\A r \in Request : task[r].step \in Ended \cup {"ready"})
    => \A t \in Token : Coherent(t)

=============================================================================
