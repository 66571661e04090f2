---------------------------- MODULE MCOrderBook -----------------------------
(***************************************************************************)
(* OrderBook on small instances.  Order ids and blocks are only compared,  *)
(* so the safety runs identify states that differ by a permutation of them. *)
(***************************************************************************)
EXTENDS OrderBookFaults

Symmetry == Permutations(OrderIds) \cup Permutations(Blocks)

=============================================================================
