----------------------------- MODULE MCPrCreate -----------------------------
(* Instances of PrCreate for TLC.                                          *)
EXTENDS PrCreate

=============================================================================
