---------------------------- MODULE MCShardLease ----------------------------
(* Small instances of ShardLease for TLC.                                  *)
EXTENDS ShardLease

node1 == CHOOSE n \in Node : TRUE

\* One node against etcd, anything may fail; two calls in a row fit into the
\* margin.
Failing == [nodes |-> {node1}, ttl |-> 5, margin |-> 2, keepalive |-> 1, grace |-> 1, call |-> 1,
            promptWatch |-> FALSE, faulty |-> FaultKinds, faults |-> 1]

\* Keepalives are lost twice, or the process dies in between.
FailingTwice == [Failing EXCEPT !.faulty = {"crash", "keepalive"}, !.faults = 2]

\* Two nodes compete for a shard; one of them crashes or shuts down.
Competing == [nodes |-> Node, ttl |-> 3, margin |-> 1, keepalive |-> 1, grace |-> 0, call |-> 0,
              promptWatch |-> TRUE, faulty |-> {"crash", "shutdown"}, faults |-> 1]

All == {Failing, FailingTwice, Competing}

=============================================================================
