\* Two products, both picked by a tick that finds them due.
CONSTANTS
  Product = {p1, p2}
  None = None
  W_SUB = 1
  W_SUSPICIOUS = 6
  TRACK_BOOST = 3
  BOOST = 6
  BASE = 4
  MAX_INTERVAL = 2
  INFLIGHT_TTL = 1
  SCHEDULER_BATCH = 2
  Pages <- AllPages
  FALLBACK = TRUE
  MaxAge = 2
  MaxJobs = 2
  MaxSubs = 1
  MaxEvents = 2
SPECIFICATION Spec
CHECK_DEADLOCK FALSE
INVARIANTS OneJob WaitingIsFlagged
PROPERTIES ReportsResolve
