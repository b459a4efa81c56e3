\* A price that rises above the threshold and falls again.
CONSTANTS
  User = {u1}
  Price = {1000, 1005, 1200}
  Threshold = {1003}
  None = None
  MIN_CHANGE = 100
  CDC_BATCH = 2
  MaxRows = 3
  MaxIds = 2
  MaxEvents = 4
SPECIFICATION Spec
CHECK_DEADLOCK FALSE
PROPERTY Rearmed
