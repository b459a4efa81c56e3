\* Three shards in a row, four records, one or two errors or restarts.
CONSTANTS
  Limits = {1, 4}
  MaxRecords = 4
  MaxShards = 3
  MaxFaults = 1
SPECIFICATION TailSpec
CHECK_DEADLOCK FALSE
INVARIANTS NothingPassedOver PublishedInOrder
PROPERTY AllPublished
