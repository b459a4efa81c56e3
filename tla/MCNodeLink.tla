------------------------------ MODULE MCNodeLink ------------------------------
(* Small instances of NodeLink for TLC.                                    *)
EXTENDS NodeLink

CONSTANTS p1, s1

\* A call is retried while the connection comes and goes; a topic is
\* subscribed while its events are fanned out; or a little of both.
Retrying == [calls |-> {p1}, requests |-> 3, events |-> 0]
Following == [calls |-> {s1}, requests |-> 2, events |-> 3]
Together == [calls |-> {p1, s1}, requests |-> 2, events |-> 1]

Publishing == {p1}
Subscribing == {s1}
All == {Retrying, Following, Together}

=============================================================================
