\* Two versions of an alert, two devices, two cells, two broadcasts at once, three
\* requests, events or faults in any order.
CONSTANTS
  Device = {d1, d2}
  Cell = {0, 1}
  None = None
  Home <- Homes
  MaxReports = 2
  MaxVersion = 2
  Event <- Events
  Config <- Configs
  Poller = poller
  Broadcast = {poller, b1}
  MaxEvents = 3
SPECIFICATION Spec
CHECK_DEADLOCK FALSE
INVARIANTS IndexCoversLocation AtMostOnce
PROPERTIES NewestOnly TargetsCovered RowsSettle
