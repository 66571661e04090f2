---------------------------- MODULE MCPriceLevel -----------------------------
(***************************************************************************)
(* PriceLevel on small instances.  Blocks and levels are only compared.    *)
(***************************************************************************)
EXTENDS PriceLevel, TLC

Symmetry == Permutations(Blocks) \cup Permutations(PriceLevels)

=============================================================================
