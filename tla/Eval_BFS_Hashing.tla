-------------------------- MODULE Eval_BFS_Hashing --------------------------
(***************************************************************************)
(* core/model_checking.hh, Eval_BFS_Hashing: breadth-first search that     *)
(* remembers only the hashes of the states found.  Two states with one     *)
(* hash are the same state to it, as its documentation says.               *)
(***************************************************************************)
EXTENDS EvalBase

VARIABLES
  parents,    \* hash found -> the hash it was found from, itself at a start
  evaluated   \* auxiliary: the states whose evaluation succeeded

vars == <<evalVars, parents, evaluated>>

TypeOK ==
  /\ ts \in TransitionSystems
  /\ start \in Seq(State) \ {<<>>}
  /\ verbose_on_error \in BOOLEAN
  /\ phase \in Phases
  /\ current_states \in Seq(State)
  /\ result \in Seq(State)
  /\ num_visited_states \in Nat
  /\ num_queued_states \in Int
  /\ error \in Errors
  /\ phase = "walk" => walk \in HashVal
  /\ hash_trace \in Seq(HashVal)
  /\ cursor \in Nat
  /\ rebuilt \in State
  /\ trace \in Seq(State)
  /\ parents \in [DOMAIN parents -> HashVal]
  /\ DOMAIN parents \subseteq HashVal
  /\ evaluated \in SUBSET State

Init ==
  /\ EvalInit
  /\ parents = [h \in {ts.hash[s] : s \in Range(start)} |-> h]
  /\ evaluated = {}

(* Faulty: only one of the next states is queued.                          *)
UnseenOne ==
  LET fresh == {s \in NextStates(ts, Head(current_states), State) :
                  ts.hash[s] \notin DOMAIN parents}
  IN  IF fresh = {} THEN {{}} ELSE {{s} : s \in fresh}

(* What the loop over next_states queues: for each hash not found before,  *)
(* whichever of the next states with that hash comes first.                *)
Unseen ==
  LET fresh == {s \in NextStates(ts, Head(current_states), State) :
                  ts.hash[s] \notin DOMAIN parents}
  IN  {U \in SUBSET fresh :
         /\ HashSeparates(ts, U)
         /\ \A s \in fresh : \E u \in U : ts.hash[u] = ts.hash[s]}

Evaluate ==
  /\ current_states # <<>>
  /\ \E unseen \in Unseen :
       /\ Visit(unseen)
       /\ parents' = [h \in DOMAIN parents \cup {ts.hash[s] : s \in unseen} |->
                        IF h \in DOMAIN parents
                          THEN parents[h]
                          ELSE ts.hash[Head(current_states)]]
  /\ evaluated' = evaluated \cup {Head(current_states)}

CatchError ==
  /\ current_states # <<>>
  /\ Catch(ts.hash[Head(current_states)])
  /\ UNCHANGED <<parents, evaluated>>

WalkToParent ==
  /\ phase = "walk"
  /\ parents[walk] # walk
  /\ WalkOn(walk, parents[walk])
  /\ UNCHANGED <<parents, evaluated>>

WalkToStart ==
  /\ phase = "walk"
  /\ parents[walk] = walk
  /\ WalkEnds(walk)
  /\ UNCHANGED <<parents, evaluated>>

Next ==
  \/ Evaluate
  \/ CatchError
  \/ Return /\ UNCHANGED <<parents, evaluated>>
  \/ MonitorReturnsFalse /\ UNCHANGED <<parents, evaluated>>
  \/ WalkToParent
  \/ WalkToStart
  \/ MakeTraceFromHashTrace /\ UNCHANGED <<parents, evaluated>>

(* Evaluate is a sequential function: it runs until it returns or throws.  *)
Spec == Init /\ [][Next]_vars /\ WF_vars(Next)
-----------------------------------------------------------------------------
(***************************************************************************)
(* Properties.                                                             *)
(***************************************************************************)
Starts == Range(start)

(* A collision loses states but nothing else.  When a search returns with  *)
(* an empty queue, the start states and, for every step of an evaluated    *)
(* state, the next state or a double of it have been evaluated; what was   *)
(* evaluated is reachable and without error, and the accepting states      *)
(* among it are returned.  Hashes that tell all states apart lose none.    *)
LossOnlyByCollision ==
  phase = "returned" /\ current_states = <<>> =>
    /\ Starts \subseteq evaluated
    /\ evaluated \subseteq Reachable(ts, Starts)
    /\ Range(result) = evaluated \cap ts.accept
    /\ \A s \in evaluated :
         /\ EvaluateThrows(ts, s) = NoError
         /\ \A n \in NextStates(ts, s, State) :
              \E e \in evaluated : ts.hash[e] = ts.hash[n]
    /\ HashSeparates(ts, State) => evaluated = Reachable(ts, Starts)

(* No false alarm, and no alarm is lost: where hashes separate the start   *)
(* states and siblings, rebuilding the trace neither aborts nor throws     *)
(* something else, and the trace thrown is a run to a state whose          *)
(* evaluation throws the error, however many other states collide.         *)
TraceIsGenuine ==
  SiblingsSeparated(ts, Starts) =>
    /\ phase \notin {"aborted", "escaped"}
    /\ phase = "threw" =>
         /\ IsPath(ts, Starts, trace)
         /\ EvaluateThrows(ts, Last(trace)) = error

Outcome ==
  IF phase = "search" THEN "running"
  ELSE IF phase # "returned" THEN "failed"
  ELSE IF current_states = <<>> THEN "complete" ELSE "stopped"

Abstract == INSTANCE StateSearch WITH
  class <- ts.hash,
  frontier <- Range(current_states) \ evaluated,
  outcome <- Outcome

(* Eval_BFS_Hashing implements the search a backend promises, and confuses *)
(* only states that collide.                                               *)
ImplementsStateSearch == Abstract!Spec
=============================================================================
