------------------------------ MODULE ChatLog -------------------------------
(***************************************************************************)
(* What the messenger promises about one chat, whatever node serves it:    *)
(* there is a single append-only sequence of messages, message_id is the   *)
(* position, a client_msg_id is stored at most once, and a sender is told  *)
(* SUCCESS only for a message that is already in the sequence.             *)
(***************************************************************************)
EXTENDS Naturals, Sequences

CONSTANT Cmid   \* the client_msg_ids

VARIABLES
  log,          \* log[i] is the client_msg_id stored under message_id i
  acked         \* the <<client_msg_id, message_id>> pairs reported as published

Init ==
  /\ log = <<>>
  /\ acked = {}

Append1(k) ==
  /\ \A i \in DOMAIN log : log[i] # k
  /\ log' = Append(log, k)
  /\ UNCHANGED acked

Ack(i) ==
  /\ i \in DOMAIN log
  /\ acked' = acked \cup {<<log[i], i>>}
  /\ UNCHANGED log

Next ==
  \/ \E k \in Cmid : Append1(k)
  \/ \E i \in DOMAIN log : Ack(i)

Spec == Init /\ [][Next]_<<log, acked>>

=============================================================================
