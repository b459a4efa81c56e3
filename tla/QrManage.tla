------------------------------ MODULE QrManage ------------------------------
(***************************************************************************)
(* What the QR code service computes from its arguments and its tables:    *)
(* URLs (app/url_validator.py), tokens (app/token_gen.py), the user of a   *)
(* request (app/auth.py), the lists and images of app/routes.py, and the   *)
(* daily cleanup.  QrRedirect is what happens between the requests.        *)
(***************************************************************************)
EXTENDS Integers, Sequences, FiniteSetsExt, SequencesExt

CONSTANTS
  TOKEN_LENGTH,
  EXPIRED_GRACE, DELETED_RETENTION  \* days that an expired or a deleted link is kept

-----------------------------------------------------------------------------
(* A URL as urlparse hands it over (external): "" or NoPort is a part that *)
(* is missing, `slashes` ends the path.  An IPv6 address is written in     *)
(* brackets; without them its colons are read as a port.                   *)

NoPort == -1
MAX_URL_LENGTH == 2048
Host == [kind : {"", "site", "blocked", "private"}, v6 : BOOLEAN, bracketed : BOOLEAN, upper : BOOLEAN]
Parts == [length : Nat, scheme : {"http", "https", "ftp"}, user : STRING, password : STRING,
          host : Host, port : Int, slashes : Nat]

Refused(url) ==
  \/ url.length = 0 \/ url.length > MAX_URL_LENGTH
  \/ url.scheme \notin {"http", "https"}
  \/ url.host.kind \in {"", "blocked", "private"}

\* parsed.port raises a ValueError that no handler expects.
PortRaises(url) == url.port > 65535 \/ (url.host.v6 /\ ~ url.host.bracketed)

\* The netloc is built anew from the parts that are not "" and not 0.
Rebuilt(url) ==
  [url EXCEPT !.host.upper = FALSE, !.host.bracketed = FALSE,
              !.port = IF @ = 0 THEN NoPort ELSE @,
              !.password = IF url.user = "" THEN "" ELSE @,
              !.slashes = IF @ = 0 THEN 0 ELSE @ - 1]

_validate(url) ==
  IF Refused(url) THEN [code |-> "400", url |-> url]
  ELSE IF PortRaises(url) THEN [code |-> "500", url |-> url]
  ELSE [code |-> "200", url |-> Rebuilt(url)]

\* A time with the offset of its zone, or without one, in UTC.
_to_naive_utc(dt) == IF "offset" \in DOMAIN dt THEN dt.wall - dt.offset ELSE dt.wall

-----------------------------------------------------------------------------
(* Tokens: the first digits of a digest.                                   *)

base62_encode[num \in Nat] == IF num < 62 THEN <<num>> ELSE base62_encode[num \div 62] \o <<num % 62>>
make_token(digest) == SubSeq(base62_encode[digest], 1, Min({TOKEN_LENGTH, Len(base62_encode[digest])}))

\* Whose request it is; "401" without a valid token that names a user.
DEV_USER == "local-dev"
get_current_user(enabled, header) ==
  IF ~ enabled THEN DEV_USER
  ELSE IF header.scheme = "bearer" /\ header.valid /\ header.sub # "" THEN header.sub ELSE "401"

-----------------------------------------------------------------------------
(* The tables: sets of rows.  expires: 0 for never.                        *)

Mapping == [token : STRING, owner : STRING, created : Nat, updated : Nat, expires : Nat, deleted : BOOLEAN]
ScanEvent == [id : Nat, token : STRING, day : Nat]

\* The row that the filter finds: none is "404".
_get_active_or_404(rows, token) == {m \in rows : m.token = token /\ ~ m.deleted}
_get_owned_or_404(rows, token, user) == {m \in _get_active_or_404(rows, token) : m.owner = user}

\* One more event for each scan that was answered 302, written after the answer.
_record_scan(scans, token, day) == scans \cup {[id |-> Max({0} \cup {s.id : s \in scans}) + 1, token |-> token, day |-> day]}

ScansOf(scans, token) == {s \in scans : s.token = token}

list_qr(rows, scans, user) ==
  LET mine == {m \in rows : ~ m.deleted /\ m.owner = user} IN
  [i \in 1..Cardinality(mine) |->
     LET m == SetToSortSeq(mine, LAMBDA a, b : a.created > b.created)[i] IN
     [token |-> m.token, total_scans |-> Cardinality(ScansOf(scans, m.token))]]

get_analytics(rows, scans, token, user) ==
  IF _get_owned_or_404(rows, token, user) = {} THEN [code |-> "404"]
  ELSE [code |-> "200", total_scans |-> Cardinality(ScansOf(scans, token)),
        scans_by_day |-> [d \in {s.day : s \in ScansOf(scans, token)} |->
                            Cardinality({s \in ScansOf(scans, token) : s.day = d})]]

\* Where the picture of a new link is: on the CDN once the upload went well.
qr_code_url(enabled, uploaded, token) == IF enabled /\ uploaded THEN <<"cdn", token>> ELSE <<"image", token>>

\* The picture shows the short URL, whatever the link leads to.
get_qr_image(rows, token) == IF _get_active_or_404(rows, token) = {} THEN <<"404">> ELSE <<"200", token>>

-----------------------------------------------------------------------------
(* The cleanup, whose two statements see each what is committed when it    *)
(* starts.                                                                 *)

Due(m, now) ==
  \/ m.expires # 0 /\ m.expires < now - EXPIRED_GRACE
  \/ m.deleted /\ m.updated < now - DELETED_RETENTION

\* `rows` when the events go, `later` when the mappings go.
run_cleanup(rows, later, scans, now) ==
  [scans |-> {s \in scans : ~ \E m \in rows : m.token = s.token /\ Due(m, now)},
   rows |-> {m \in later : ~ Due(m, now)}]

=============================================================================
