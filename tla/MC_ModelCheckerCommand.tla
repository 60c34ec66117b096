--------------------- MODULE MC_ModelCheckerCommand ----------------------
(***************************************************************************)
(* Families of small transition systems for Eval_BFS and the command that  *)
(* runs it.                                                                *)
(***************************************************************************)
EXTENDS ModelCheckerCommand

CONSTANTS a, b, c, d, r1, r2, n1, n2, I, T, U, V

Everything == State \X State

SimSystem(pre, action, post, invariant, accept, hash, dd, simulated_by) ==
  [pre |-> pre, action |-> action, post |-> post, invariant |-> invariant,
   accept |-> accept, hash |-> hash, deadlock_detection |-> dd,
   simulated_by |-> simulated_by]
System(pre, action, post, invariant, accept, hash, dd) ==
  SimSystem(pre, action, post, invariant, accept, hash, dd, {})

(* Three states: r1 does anything from anywhere (a step, a refusal or an   *)
(* unknown), r2 is a cycle through the states, enabled or not.  The hash   *)
(* is injective, separates only c, or only b.  The last state              *)
(* violates the second property, or none does.  The fourth is not reached. *)
Three == {a, b, c}
Cycle == (a :> b) @@ (b :> c) @@ (c :> a) @@ (d :> d)
Hashes3 == {(a :> 1) @@ (b :> 2) @@ (c :> 3) @@ (d :> 4),
            (a :> 1) @@ (b :> 1) @@ (c :> 2) @@ (d :> 4),
            (a :> 1) @@ (b :> 2) @@ (c :> 1) @@ (d :> 4)}
Systems3 ==
  {System((r1 :> Three) @@ (r2 :> pre), (r1 :> ((d :> d) @@ f)) @@ (r2 :> Cycle),
          Everything, <<State, bad>>, {b, c}, hash, dd) :
     pre \in {{}, {a, b}}, f \in [Three -> Three \cup {Refused, Hole}],
     bad \in {State, {a, b}}, hash \in Hashes3, dd \in BOOLEAN}

(* Four states, where the shape of the graph decides which run is the      *)
(* shortest: r1 goes anywhere, r2 follows a diamond, PostCond forbids      *)
(* staying, d violates the only property; b and d share a hash.            *)
Diamond == (a :> b) @@ (b :> d) @@ (c :> d) @@ (d :> d)
Systems4 ==
  {System((r1 :> State) @@ (r2 :> pre), (r1 :> f) @@ (r2 :> Diamond),
          {p \in Everything : p[1] # p[2]}, <<State \ {d}>>, {a, d}, hash,
          TRUE) :
     pre \in {{b}, {a, b, c}}, f \in [State -> State],
     hash \in {(a :> 1) @@ (b :> 2) @@ (c :> 3) @@ (d :> 2),
               (a :> 1) @@ (b :> 2) @@ (c :> 3) @@ (d :> 4)}}

(* The states are cast to two, a and b, and r1 goes anywhere; the system   *)
(* over the two that simulates this goes back and forth, never stays, may  *)
(* stay at b, violates its property at b or is deadlocked there.           *)
Cast == (a :> a) @@ (b :> b) @@ (c :> b) @@ (d :> d)
Back == (a :> b) @@ (b :> a) @@ (c :> c) @@ (d :> d)
ToB == (a :> b) @@ (b :> b) @@ (c :> b) @@ (d :> b)
Constant == (a :> 1) @@ (b :> 1) @@ (c :> 1) @@ (d :> 1)
SimulatingSystems ==
  {System((r1 :> State) @@ (r2 :> pre), (r1 :> Back) @@ (r2 :> ToB),
          Everything, <<bad>>, {}, Constant, TRUE) :
     pre \in {{}, {b}}, bad \in {State, {a}}}
  \cup
  {System((r1 :> {a}) @@ (r2 :> {}), (r1 :> Back) @@ (r2 :> Back),
          Everything, <<>>, {}, Constant, dd) : dd \in BOOLEAN}
Simulated ==
  {SimSystem((r1 :> Three) @@ (r2 :> {b}), (r1 :> ((d :> d) @@ f)) @@ (r2 :> Cycle),
             Everything, <<State>>, {b, c}, hash, TRUE,
             {[by |-> by, cast |-> Cast]}) :
     f \in [Three -> Three \cup {Refused}], hash \in Hashes3,
     by \in SimulatingSystems}

AllSystems == Systems3 \cup Systems4 \cup Simulated
MCSystems == AllSystems  \* the constant's value; TLC computes AllSystems once
MCStarts == {<<a>>, <<b, a>>, <<b, b>>}

(* What LivelockFreedom sees: two nodes of which one is always elsewhere,  *)
(* or nodes whose state tells all reachable states apart; the start state  *)
(* is stable or c is.                                                      *)
Apart(p, q, r, s) ==
  (a :> p) @@ (b :> q) @@ (c :> r) @@ (d :> s)
TwoNodes ==
  Apart((n1 :> I) @@ (n2 :> T), (n1 :> T) @@ (n2 :> U),
        (n1 :> U) @@ (n2 :> T), (n1 :> U) @@ (n2 :> I))
OneNodeOf(s1, s2, s3, s4) ==
  Apart([n \in Node |-> s1], [n \in Node |-> s2],
        [n \in Node |-> s3], [n \in Node |-> s4])
NodeStatesOf(t) ==
  IF t.deadlock_detection /\ t.hash[d] = 4
    THEN OneNodeOf(I, T, U, V)
    ELSE TwoNodes
=============================================================================
