\* One node, whose old and new ChatSeq of the chat conflict; two requests in
\* flight, up to two messages. Without symmetry, for the liveness property.
CONSTANTS
  Node = {n1}
  NoNode = NoNode
  Request = {r1, r2}
  Cmid = {k1, k2}
  ChatSeq = {c1, c2}
  NoSeq = NoSeq
  MaxMessages = 2
  DedupeLRU = 1
  Attempts = 2
SPECIFICATION FairSpec
INVARIANTS Contiguous StoredOnce
PROPERTIES ImplementsChatLog FanoutAscends PublishEnds
