\* A publish and a subscription over two connections, a queue of one frame.
CONSTANTS
  p1 = p1
  s1 = s1
  Publishes <- Publishing
  Subscribes <- Subscribing
  SEND_QUEUE_MAX = 1
  MaxAttempts = 3
  MaxLinks = 2
  MaxEvents = 3
  Situations <- All
SPECIFICATION LinkSpec
CHECK_DEADLOCK FALSE
INVARIANTS WaitsOnLiveLink NoHole
PROPERTY CallsReturn
