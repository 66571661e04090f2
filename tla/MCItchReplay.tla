---------------------------- MODULE MCItchReplay -----------------------------
(***************************************************************************)
(* ItchReplay on small instances.  Order numbers, blocks and locate codes   *)
(* are only compared.                                                      *)
(***************************************************************************)
EXTENDS ItchReplay

Symmetry ==
    Permutations(OrderIds) \cup Permutations(Blocks) \cup Permutations(Locates)

=============================================================================
