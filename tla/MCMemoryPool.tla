---------------------------- MODULE MCMemoryPool ----------------------------
(***************************************************************************)
(* MemoryPool on small instances.                                          *)
(***************************************************************************)
EXTENDS MemoryPool, TLC

Symmetry == Permutations(Orders)

=============================================================================
