------------------------ MODULE MC_Eval_BFS_Hashing ------------------------
(***************************************************************************)
(* Families of small transition systems for Eval_BFS_Hashing.              *)
(***************************************************************************)
EXTENDS Eval_BFS_Hashing

CONSTANTS a, b, c, d, r1, r2

Everything == State \X State

(* Four states: r1 goes anywhere or is refused or unknown in the states    *)
(* but d, r2 steps along a chain, enabled at some of the states; d         *)
(* violates the second property.                                           *)
Chain == (a :> b) @@ (b :> c) @@ (c :> d) @@ (d :> a)
Family(hashes) ==
  {[pre |-> (r1 :> {a, b, c}) @@ (r2 :> pre),
    action |-> (r1 :> ((d :> d) @@ f)) @@ (r2 :> Chain),
    post |-> Everything, invariant |-> <<State, State \ {d}>>,
    accept |-> {b, d}, hash |-> hash, deadlock_detection |-> TRUE,
    simulated_by |-> {}] :
     pre \in {{}, {b, c}},
     f \in [{a, b, c} -> State \cup {Refused, Hole}],
     hash \in hashes}

Hashes ==
  {(a :> 1) @@ (b :> 2) @@ (c :> 3) @@ (d :> 4),
   (a :> 1) @@ (b :> 2) @@ (c :> 2) @@ (d :> 3),
   (a :> 1) @@ (b :> 2) @@ (c :> 3) @@ (d :> 2),
   (a :> 1) @@ (b :> 2) @@ (c :> 1) @@ (d :> 2)}
Colliding == Family(Hashes)
StartQueues4 == {<<a>>, <<c, a>>, <<b, b>>}
=============================================================================
