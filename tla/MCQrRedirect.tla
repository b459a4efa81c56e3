--------------------------- MODULE MCQrRedirect ---------------------------
(* Small instances of QrRedirect for TLC, and of what QrManage computes.   *)
EXTENDS QrRedirect, SequencesExt

M == INSTANCE QrManage WITH TOKEN_LENGTH <- 2, EXPIRED_GRACE <- 2, DELETED_RETENTION <- 2

-----------------------------------------------------------------------------
Parts ==
  [length : {0, 1, M!MAX_URL_LENGTH, M!MAX_URL_LENGTH + 1}, scheme : {"https", "ftp"}, user : {"", "u"}, password : {"", "p"},
   host : {h \in M!Host : h.bracketed = h.v6}, port : {M!NoPort, 0, 443, 65535, 65536}, slashes : 0..2]

Again(url) == M!_validate(M!_validate(url).url)
Accepted == {url \in Parts : M!_validate(url).code = "200"}

\* What was accepted is accepted again, unchanged but for a second slash; an
\* IPv6 address, whose brackets are gone, no longer is.
ASSUME NormalFormIsStable ==
  \A url \in Accepted :
    IF url.host.v6 THEN Again(url).code = "500"
    ELSE Again(url).code = "200" /\ (url.slashes < 2 => Again(url).url = M!_validate(url).url)

\* A password goes only where there is no user, and a port only if it is 0.
ASSUME NormalFormKeeps ==
  \A url \in Accepted : LET new == M!_validate(url).url IN
    /\ new.user = url.user /\ new.scheme = url.scheme /\ new.host.kind = url.host.kind
    /\ new.password # url.password => url.user = ""
    /\ new.port # url.port => url.port = 0

\* The digits of base62_encode are those of the number.
Value(digits) == FoldFunction(LAMBDA d, v : d + v, 0, [i \in DOMAIN digits |-> digits[i] * 62 ^ (Len(digits) - i)])
ASSUME DigitsRead == \A n \in 0..200 \cup {3843, 3844, 238327, 238328} : Value(M!base62_encode[n]) = n

\* Two digests may give one token: only the table keeps tokens apart.
ASSUME TokensCollide ==
  /\ \A n \in 0..200 \cup {3843, 3844} : Len(M!make_token(n)) \in 1..2
  /\ M!make_token(3844) = M!make_token(62) /\ M!make_token(62) # M!make_token(1)

\* With authentication on, only a valid token names a user.
ASSUME UserIsNamed ==
  \A enabled, valid \in BOOLEAN, scheme \in {"", "basic", "bearer"}, sub \in {"", "u1"} :
    M!get_current_user(enabled, [scheme |-> scheme, valid |-> valid, sub |-> sub]) = "u1"
      <=> enabled /\ valid /\ scheme = "bearer" /\ sub = "u1"

-----------------------------------------------------------------------------
\* Two links, and three scans of them.
Links(t, owner) == {[token |-> t, owner |-> owner, created |-> c, updated |-> 1, expires |-> e, deleted |-> d] :
                      c \in {0, 1}, e \in {0, 1, 5}, d \in BOOLEAN}
Tables == {{a, b} : a \in Links("t1", "u1"), b \in Links("t2", "u1") \cup Links("t2", "u2")}
Logs == LET Scanned(log, s) == M!_record_scan(log, s[1], s[2])
            Events == {"t1", "t2"} \X {1, 2} IN
        {FoldLeft(Scanned, {}, seq) : seq \in Events \X Events \X Events}

Sum(f) == FoldFunction(LAMBDA a, b : a + b, 0, f)

\* The numbers of the list are those of the analytics, and the days add up.
ASSUME CountsAgree ==
  \A rows \in Tables, scans \in Logs, user \in {"u1", "u2"} :
    LET list == M!list_qr(rows, scans, user) IN
    /\ \A i \in DOMAIN list :
         LET a == M!get_analytics(rows, scans, list[i].token, user) IN
         a.code = "200" /\ a.total_scans = list[i].total_scans /\ Sum(a.scans_by_day) = a.total_scans
    /\ \A t \in {"t1", "t2"} : (\A i \in DOMAIN list : list[i].token # t) => M!get_analytics(rows, scans, t, user).code = "404"

Owns(rows, s) == \E m \in rows : m.token = s.token

\* A picture is there as long as its link is not deleted, for its owner or not.
ASSUME PicturesAreThere ==
  \A rows \in Tables, t \in {"t1", "t2"} :
    /\ (M!get_qr_image(rows, t) = <<"404">>) <=> (\A m \in rows : m.token = t => m.deleted)
    /\ {M!qr_code_url(e, u, t)[2] : e, u \in BOOLEAN} = {t}

\* A cleanup that nothing interrupts takes a link and its scans together.
ASSUME CleanupIsWhole ==
  \A rows \in Tables, scans \in Logs, now \in {3, 4, 8} :
    LET done == M!run_cleanup(rows, rows, scans, now) IN
    done.scans = {s \in scans : Owns(done.rows, s)}

\* But of a link whose expiry a PATCH extends between its two statements it
\* takes the scans only.
Extended(rows, t) == {IF m.token = t /\ ~ m.deleted THEN [m EXCEPT !.expires = 5] ELSE m : m \in rows}
ASSUME CleanupLosesScans ==
  \E rows \in Tables, scans \in Logs :
    LET done == M!run_cleanup(rows, Extended(rows, "t1"), scans, 4) IN
    \E s \in scans : Owns(done.rows, s) /\ s \notin done.scans

=============================================================================
