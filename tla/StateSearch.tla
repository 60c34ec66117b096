---------------------------- MODULE StateSearch ----------------------------
(***************************************************************************)
(* What a search backend (core/eval.hh, EvalBase::Evaluate) promises: the  *)
(* states found so far are evaluated one by one, in any order and each at  *)
(* most once, until none is left, an evaluation throws or the monitor asks *)
(* to stop.  A backend may take states of the same class for one: a next   *)
(* state is lost only if one of its class has been found.                  *)
(***************************************************************************)
EXTENDS TransitionSystem

CONSTANTS
  Systems,       \* the transition systems considered
  StartQueues,   \* the queues of start states considered
  MonitorStops   \* TRUE if a monitor that may return false is set

VARIABLES
  ts,         \* the transition system, fixed
  start,      \* start_states, fixed
  class,      \* what the backend tells states apart by, fixed
  evaluated,  \* states that TransitionSystem::Evaluate accepted
  frontier,   \* states found and not yet evaluated
  outcome,    \* "running", "complete", "stopped" or "failed"
  error       \* what was thrown

vars == <<ts, start, class, evaluated, frontier, outcome, error>>

TypeOK ==
  /\ ts \in TransitionSystems
  /\ start \in Seq(State) \ {<<>>}
  /\ DOMAIN class = State
  /\ evaluated \in SUBSET State
  /\ frontier \in SUBSET State
  /\ outcome \in {"running", "complete", "stopped", "failed"}
  /\ error \in Errors

Init ==
  /\ ts \in Systems
  /\ start \in StartQueues
  /\ DOMAIN class = State
  /\ evaluated = {}
  /\ frontier = Range(start)
  /\ outcome = "running"
  /\ error = NoError

Found == evaluated \cup frontier

Explore(s) ==
  /\ outcome = "running"
  /\ s \in frontier
  /\ EvaluateThrows(ts, s) = NoError
  /\ evaluated' = evaluated \cup {s}
  /\ \E new \in SUBSET (NextStates(ts, s, State) \ Found) :
       /\ \A t \in NextStates(ts, s, State) :
            \E u \in Found \cup new : class[t] = class[u]
       /\ frontier' = (frontier \ {s}) \cup new
  /\ UNCHANGED <<ts, start, class, outcome, error>>

Fail(s) ==
  /\ outcome = "running"
  /\ s \in frontier
  /\ EvaluateThrows(ts, s) # NoError
  /\ error' = EvaluateThrows(ts, s)
  /\ outcome' = "failed"
  /\ UNCHANGED <<ts, start, class, evaluated, frontier>>

Complete ==
  /\ outcome = "running"
  /\ frontier = {}
  /\ outcome' = "complete"
  /\ UNCHANGED <<ts, start, class, evaluated, frontier, error>>

Stop ==
  /\ outcome = "running"
  /\ MonitorStops
  /\ outcome' = "stopped"
  /\ UNCHANGED <<ts, start, class, evaluated, frontier, error>>

Next == Complete \/ Stop \/ \E s \in State : Explore(s) \/ Fail(s)

(* What is promised of every step, apart from that the search ends.        *)
SafeSpec == Init /\ [][Next]_vars

Spec == SafeSpec /\ WF_vars(Next)
=============================================================================
