\* A tick is a day, a week two days; the second week crosses a month.
CONSTANTS
  Price = {1, 2}
  Aggregator = {"periodic", "request"}
  DAY = 1
  WEEK = 2
  MonthStart = {0, 3}
  DAILY = 1
  WEEKLY = 2
  MaxTime = 3
  MaxRows = 3
  MaxRequests = 2
SPECIFICATION HistorySpec
CHECK_DEADLOCK FALSE
INVARIANTS BucketsAreSnapshots ChartCoversPeriod
PROPERTIES CaughtUp
