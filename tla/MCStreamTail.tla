----------------------------- MODULE MCStreamTail -----------------------------
(* Small instances of StreamTail for TLC.                                  *)
EXTENDS StreamTail

=============================================================================
