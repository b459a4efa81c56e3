\* The shard moves under a connected client, two clients come and go, or
\* everything may happen.
CONSTANTS
  Node = {n1, n2}
  NoNode = NoNode
  Conn = {c1, c2}
  MaxMessages = 2
  Situations <- All
SPECIFICATION FairSpec
CHECK_DEADLOCK FALSE
INVARIANTS QuiescentDelivered SubscriptionHolds NothingHeldBack
PROPERTY DeliveredEventually
