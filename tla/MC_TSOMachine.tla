--------------------------- MODULE MC_TSOMachine ---------------------------
(***************************************************************************)
(* Threads and addresses are interchangeable.                              *)
(***************************************************************************)
EXTENDS TSOMachine, TLC

Symmetry == Permutations(Pid) \cup Permutations(Addr)
=============================================================================
