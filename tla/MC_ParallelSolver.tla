------------------------- MODULE MC_ParallelSolver -------------------------
(***************************************************************************)
(* Models under synthesis: up to three holes of two options; a fourth that *)
(* exceeds a limit, of four; and four holes for three threads.             *)
(***************************************************************************)
EXTENDS ParallelSolver, TLC

CONSTANTS h1, h2, h3, h4

Two == [h \in Hole |-> 2]
TwoOrFour == [h \in Hole |-> IF h = h4 THEN 4 ELSE 2]
Always == {<<>>}
Model(needs, faults, unsat) ==
  [needs |-> needs, faults |-> faults, unsat |-> unsat]

(* All holes are reached at once; h2 and h3 only after some option of h1,  *)
(* as the operations of one handler are; h3 only after h2, and h2 only     *)
(* after the first option of h1.                                           *)
Needs(n2, n3) ==
  (h1 :> Always) @@ (h2 :> n2) @@ (h3 :> n3)
Shapes == {Needs(Always, Always),
           Needs({h1 :> 1, h1 :> 2}, {h1 :> 1, h1 :> 2}),
           Needs({h1 :> 1}, {(h1 :> 1) @@ (h2 :> 1)})}
Faults == {{}, {h1 :> 2}, {(h1 :> 1) @@ (h2 :> 1)},
           {(h1 :> 1) @@ (h2 :> 2), h1 :> 2},
           {(h1 :> 1) @@ (h2 :> 1) @@ (h3 :> 1)}}
Models ==
  {Model(n, f, u) : n \in Shapes, f \in Faults, u \in {{}, {h1 :> 1}}}

(* A model without holes, one faulty without them, one with a single hole. *)
Few == {Model([h \in Hole |-> {}], f, {}) : f \in {{}, {<<>>}}}
         \cup {Model(Needs({}, {}), f, {}) : f \in {{}, {<<>>}, {h1 :> 1}}}
All == Models \cup Few
AllButFaulty == {s \in All : <<>> \notin s.faults}

(* With the wildcard, three holes of two options just meet a limit of 27;  *)
(* two of them and h4 exceed it, and all a std::size_t of six bits.        *)
(* Without it, all exceed the limit.  h4 is reached with the others, after *)
(* some of them, while h2 may be as well, or before h3.                    *)
Late(n2, n3, n4) == Needs(n2, n3) @@ (h4 :> n4)
Limited ==
  {Model(n, f, {}) :
     n \in {Late(Always, {}, Always),
            Late(Always, {}, {h2 :> 1, h2 :> 2}),
            Late({h1 :> 1}, {}, {h1 :> 2}),
            Late(Always, {h1 :> 1}, {h2 :> 1})},
     f \in {{}, {h1 :> 1}}}
AllAndLimited ==
  Limited \cup {[s EXCEPT !.needs = @ @@ (h4 :> {})] : s \in All}

(* Four holes of two, two, three options and one: the last two are reached *)
(* after some option of the second, and one combination is faulty.         *)
Uneven == (h1 :> 2) @@ (h2 :> 2) @@ (h3 :> 3) @@ (h4 :> 1)
AfterH2 == {h2 :> 1, h2 :> 2}
Skipping ==
  {Model((h1 :> Always) @@ (h2 :> Always) @@ (h3 :> AfterH2) @@ (h4 :> AfterH2),
         {(h2 :> 1) @@ (h3 :> 3)}, {})}
=============================================================================
