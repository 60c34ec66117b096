------------------------- MODULE MC_RangeEnumerate -------------------------
(***************************************************************************)
(* Up to three values of small ranges, in a std::size_t of four bits.      *)
(***************************************************************************)
EXTENDS RangeEnumerate, TLC

CONSTANTS x, y, z

Symmetry == Permutations(Label)
=============================================================================
