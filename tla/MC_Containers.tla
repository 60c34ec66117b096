--------------------------- MODULE MC_Containers ---------------------------
(***************************************************************************)
(* Two sets of three slots over two elements; the sets are interchangeable.*)
(***************************************************************************)
EXTENDS Containers, TLC

Symmetry == Permutations(Name)
=============================================================================
