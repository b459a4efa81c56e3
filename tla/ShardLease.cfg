\* One node against an etcd that may fail, or two nodes that compete.
CONSTANTS
  Node = {n1, n2}
  NoNode = NoNode
  Lease = {l1, l2, l3, l4}
  NoLease = NoLease
  MaxLag = 2
  Situations <- All
SPECIFICATION FairSpec
INVARIANTS SelfFencing
PROPERTY ServedAgain
PROPERTY ImplementsOwnership
