---------------------------- MODULE MCPriceLadder ----------------------------
(***************************************************************************)
(* PriceLadder on a small vector, for both sides.                          *)
(***************************************************************************)
EXTENDS PriceLadder

=============================================================================
