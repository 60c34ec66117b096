------------------------------ MODULE Eval_BFS ------------------------------
(***************************************************************************)
(* core/model_checking.hh, Eval_BFS: breadth-first search that stores      *)
(* every state found, with the state it was found from.                    *)
(***************************************************************************)
EXTENDS EvalBase

CONSTANT NoParent  \* nullptr: the state is a start state

ASSUME NoParentAssumption == NoParent \notin State

VARIABLE parents   \* state found -> the state it was found from, or NoParent

vars == <<evalVars, parents>>

TypeOK ==
  /\ ts \in TransitionSystems
  /\ start \in Seq(State) \ {<<>>}
  /\ verbose_on_error \in BOOLEAN
  /\ phase \in Phases
  /\ current_states \in Seq(State)
  /\ result \in Seq(State)
  /\ num_visited_states \in Nat
  /\ num_queued_states \in Int
  /\ error \in Errors
  /\ walk \in State
  /\ hash_trace \in Seq(HashVal)
  /\ cursor \in Nat
  /\ rebuilt \in State
  /\ trace \in Seq(State)
  /\ parents \in [DOMAIN parents -> State \cup {NoParent}]
  /\ DOMAIN parents \subseteq State

Init ==
  /\ EvalInit
  /\ parents = [s \in Range(start) |-> NoParent]

(* Faulty: a state is taken for found when its hash is.                    *)
UnseenHash ==
  {s \in NextStates(ts, Head(current_states), State) :
     \A t \in DOMAIN parents : ts.hash[s] # ts.hash[t]}

(* The next states not found before.                                       *)
Unseen ==
  NextStates(ts, Head(current_states), State) \ DOMAIN parents

(* Faulty: the next states are marked as found and never queued.           *)
EvaluateUnqueued ==
  /\ Visit({})
  /\ parents' = [s \in DOMAIN parents \cup Unseen |->
                   IF s \in DOMAIN parents THEN parents[s]
                                           ELSE Head(current_states)]

Evaluate ==
  /\ Visit(Unseen)
  /\ parents' = [s \in DOMAIN parents \cup Unseen |->
                   IF s \in DOMAIN parents THEN parents[s]
                                           ELSE Head(current_states)]

CatchError == Catch(Head(current_states)) /\ UNCHANGED parents

WalkToParent ==
  /\ parents[walk] # NoParent
  /\ WalkOn(ts.hash[walk], parents[walk])
  /\ UNCHANGED parents

WalkToStart ==
  /\ parents[walk] = NoParent
  /\ WalkEnds(ts.hash[walk])
  /\ UNCHANGED parents

Next ==
  \/ Evaluate
  \/ CatchError
  \/ Return /\ UNCHANGED parents
  \/ MonitorReturnsFalse /\ UNCHANGED parents
  \/ WalkToParent
  \/ WalkToStart
  \/ MakeTraceFromHashTrace /\ UNCHANGED parents

(* Evaluate is a sequential function: it runs until it returns or throws.  *)
Spec == Init /\ [][Next]_vars /\ WF_vars(Next)
-----------------------------------------------------------------------------
(***************************************************************************)
(* Properties.                                                             *)
(***************************************************************************)
Starts == Range(start)
StartsDistinct == Cardinality(Starts) = Len(start)

(* A search that returns with an empty queue has seen exactly the          *)
(* reachable states, and none of them violates an invariant or deadlocks:  *)
(* "verified" is never said of a system with a reachable error.            *)
ReturnIsExhaustive ==
  phase = "returned" /\ current_states = <<>> =>
    /\ DOMAIN parents = Reachable(ts, Starts)
    /\ \A s \in Reachable(ts, Starts) : EvaluateThrows(ts, s) = NoError

(* The invariant behind these: the start states and the queue are among    *)
(* the states found, which are reachable; a state found and off the queue  *)
(* was evaluated without error and its successors were found; parents      *)
(* follows steps backwards to the start states; the walk is on a state     *)
(* found; a search that throws was stopped by the head of the queue.       *)
SearchInv ==
  /\ Starts \subseteq DOMAIN parents
  /\ Range(current_states) \subseteq DOMAIN parents
  /\ DOMAIN parents \subseteq Reachable(ts, Starts)
  /\ \A s \in DOMAIN parents \ Range(current_states) :
       /\ EvaluateThrows(ts, s) = NoError
       /\ NextStates(ts, s, State) \subseteq DOMAIN parents
  /\ \A s \in DOMAIN parents :
       IF parents[s] = NoParent THEN s \in Starts
       ELSE /\ parents[s] \in DOMAIN parents
            /\ s \in NextStates(ts, parents[s], State)
  /\ phase = "walk" => walk \in DOMAIN parents
  /\ phase \notin {"search", "returned"} =>
       /\ current_states # <<>>
       /\ error = EvaluateThrows(ts, Head(current_states))
       /\ error # NoError
  /\ phase = "returned" /\ ~MonitorStops => current_states = <<>>

(* The states at most k steps away from a start state.                     *)
Within(k) ==
  LET ball[i \in 0 .. k] ==
        IF i = 0 THEN Starts
        ELSE ball[i - 1] \cup
             UNION {NextStates(ts, s, State) : s \in ball[i - 1]}
  IN  ball[k]

(* The error found is reported: rebuilding the trace neither aborts nor    *)
(* throws something else, whatever other states share a hash, and the      *)
(* trace thrown is a run from a start state to a state whose evaluation    *)
(* throws that very error, and no shorter run has any error - unless       *)
(* hashes collide where the trace cannot tell states apart.                *)
TraceIsShortestCounterexample ==
  SiblingsSeparated(ts, Starts) =>
    /\ phase \notin {"aborted", "escaped"}
    /\ phase = "threw" =>
         /\ IsPath(ts, Starts, trace)
         /\ EvaluateThrows(ts, Last(trace)) = error
         /\ Len(trace) > 1 =>
              \A s \in Within(Len(trace) - 2) : EvaluateThrows(ts, s) = NoError

(* Every accepting state is returned, once, those nearer to the start      *)
(* states first ("in order encountered").                                  *)
AcceptingReturned ==
  phase = "returned" /\ current_states = <<>> /\ StartsDistinct =>
    /\ Range(result) = Reachable(ts, Starts) \cap ts.accept
    /\ \A i, j \in DOMAIN result : i < j =>
         /\ result[i] # result[j]
         /\ \A k \in 0 .. Cardinality(State) :
              result[j] \in Within(k) => result[i] \in Within(k)

(* The states evaluated so far: those off the queue, and the start states  *)
(* popped (one that is queued twice is evaluated twice).                   *)
Evaluated ==
  (DOMAIN parents \ Range(current_states)) \cup
  {start[i] : i \in {j \in DOMAIN start : j <= num_visited_states}}

Outcome ==
  IF phase = "search" THEN "running"
  ELSE IF phase # "returned" THEN "failed"
  ELSE IF Evaluated = DOMAIN parents THEN "complete" ELSE "stopped"

Abstract == INSTANCE StateSearch WITH
  class <- [s \in State |-> s],
  evaluated <- Evaluated,
  frontier <- DOMAIN parents \ Evaluated,
  outcome <- Outcome

(* Eval_BFS implements the search a backend promises, and confuses no two  *)
(* states.                                                                 *)
ImplementsStateSearch == Abstract!Spec
=============================================================================
