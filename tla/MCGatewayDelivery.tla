------------------------- MODULE MCGatewayDelivery -------------------------
(* Small instances of GatewayDelivery for TLC. The nodes are               *)
(* interchangeable and so are the clients: the start picks one of each.    *)
EXTENDS GatewayDelivery

server == CHOOSE n \in Node : TRUE
client1 == CHOOSE c \in Conn : TRUE

\* A connected client; the shard moves, a node crashes, a link breaks or a
\* fetch fails.
Moving == [limit |-> 3, server |-> server, connected |-> {client1}, prompt |-> TRUE, oneServer |-> TRUE,
           faulty |-> {"crash", "link", "fetch"}, messages |-> 2, moves |-> 1, faults |-> 1, connects |-> 0]

\* Two clients come and go; the shard does not move.
Coming == [limit |-> 1, server |-> server, connected |-> {}, prompt |-> TRUE, oneServer |-> TRUE,
           faulty |-> {}, messages |-> 2, moves |-> 0, faults |-> 0, connects |-> 2]
Returning == [Coming EXCEPT !.messages = 1, !.connects = 3]

\* Two servers, late answers, links that break, failing appends and repairs.
Anything == [limit |-> 1, server |-> server, connected |-> {client1}, prompt |-> FALSE, oneServer |-> FALSE,
             faulty |-> {"link", "ambiguous", "repair"},
             messages |-> 2, moves |-> 1, faults |-> 1, connects |-> 0]

\* The shard moves, or its node dies, and what the node has called may commit when
\* the next one serves.
Late == [Anything EXCEPT !.oneServer = TRUE, !.faulty = {"late"}]
Dying == [Late EXCEPT !.faulty = {"crash", "late"}, !.messages = 1]

All == {Moving, Coming, Returning, Anything, Late, Dying}

=============================================================================
