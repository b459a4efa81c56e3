\* One token, two users, two URLs, two requests at once, one call of the cache
\* that fails or one request whose process dies.
CONSTANTS
  User = {u1, u2}
  Token = {t1}
  Url = {a, b}
  NoRow = NoRow
  NoEntry = NoEntry
  None = None
  MaxRequests = 2
  MaxRetries = 2
  MaxFaults = 1
SPECIFICATION FairSpec
CHECK_DEADLOCK FALSE
INVARIANTS StaleOnlyByOverlap TokenIsOwn NoScanAfterExpiry
PROPERTIES EventuallyCoherent
