---------------------- MODULE MC_RangeEnumerateMatcher ----------------------
(***************************************************************************)
(* All candidates of two and three values, which just fit an int of four   *)
(* bits; and candidates of 31 and 32 values for one of 32 bits, wildcards  *)
(* but for one or two.                                                     *)
(***************************************************************************)
EXTENDS RangeEnumerateMatcher

Short == [1 .. 2 -> 0 .. 1] \cup [1 .. 3 -> 0 .. 2]

At(n, positions) == [i \in 1 .. n |-> IF i - 1 \in positions THEN 1 ELSE 0]
Long == {At(31, {30}), At(32, {31}), At(32, {0, 31}), At(32, {0})}
=============================================================================
