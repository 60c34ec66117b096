-------------------------- MODULE MC_MSIDirectory --------------------------
(***************************************************************************)
(* MSIDirectory with a few caches.                                         *)
(***************************************************************************)
EXTENDS MSIDirectory

CONSTANTS p1, p2, p3
=============================================================================
