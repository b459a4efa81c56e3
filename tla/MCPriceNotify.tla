---------------------------- MODULE MCPriceNotify ----------------------------
(* Small instances of PriceNotify for TLC.                                 *)
EXTENDS PriceNotify

=============================================================================
