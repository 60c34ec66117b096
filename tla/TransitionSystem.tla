-------------------------- MODULE TransitionSystem --------------------------
(***************************************************************************)
(* core/ts.hh: what the library's TransitionSystem computes.  A transition *)
(* system is data here (a record `ts'), so that a run can quantify over a  *)
(* whole family of them and a theorem over all of them:                    *)
(*                                                                         *)
(*   pre      rule -> the states PreCond holds in                          *)
(*   action   rule -> state -> the state Action leaves behind, Refused     *)
(*            when it returns false, Hole when it throws Unknown           *)
(*   post     the <<prev, next>> pairs PostCond accepts                    *)
(*   invariant  the properties, in order, each the set of states its       *)
(*            Invariant holds in                                           *)
(*   accept   the states for which State::Accept() holds                   *)
(*   hash     State::Hash                                                  *)
(*   deadlock_detection                                                    *)
(*   simulated_by  the simulating system of a TransitionSysSimulation: the *)
(*            system and the cast to its states, through which states are   *)
(*            compared as well; empty for a plain TransitionSystem          *)
(***************************************************************************)
EXTENDS Integers, Sequences, SequencesExt, FiniteSets

CONSTANTS
  State,    \* what State::operator== tells apart
  Rule,     \* the registered rules
  HashVal,  \* the values of State::Hash
  Refused,  \* Action returned false: the step does not count
  Hole      \* Action threw Unknown: a hole of a synthesis candidate was hit

ASSUME FiniteAssumption ==
  /\ IsFiniteSet(State)
  /\ Refused \notin State
  /\ Hole \notin State
  /\ Hole # Refused

(* The systems that may be simulated by one of Sims.                       *)
SystemsOver(Sims) ==
  [pre : [Rule -> SUBSET State],
   action : [Rule -> [State -> State \cup {Refused, Hole}]],
   post : SUBSET (State \X State),
   invariant : Seq(SUBSET State),
   accept : SUBSET State,
   hash : [State -> HashVal],
   deadlock_detection : BOOLEAN,
   simulated_by : SUBSET [by : Sims, cast : [State -> State]]]

TransitionSystems == SystemsOver(SystemsOver({}))

(* The exceptions Evaluate may throw (PropertyViolation carries its name). *)
NoError == [kind |-> "none", property |-> 0]
Deadlock == [kind |-> "Deadlock", property |-> 0]
PropertyViolation(i) == [kind |-> "PropertyViolation", property |-> i]
Simulation == PropertyViolation(0)
Errors == [kind : {"none", "Deadlock", "PropertyViolation"}, property : Nat]

(* The properties whose Invariant fails; the first one in order is thrown. *)
Violated(ts, s) == {i \in DOMAIN ts.invariant : s \notin ts.invariant[i]}

(* next_states, after valid, StateExists, PostCond and filter_state.       *)
NextStates(ts, s, Keep) ==
  {n \in Keep : /\ <<s, n>> \in ts.post
                /\ \E r \in Rule : s \in ts.pre[r] /\ ts.action[r][s] = n}

(* The rules whose evaluation threw Unknown.                               *)
Unknowns(ts, s) == {r \in Rule : s \in ts.pre[r] /\ ts.action[r][s] = Hole}

(* What Evaluate(state, filter) throws; Keep is what its filter admits.    *)
Thrown(ts, s, Keep) ==
  IF Violated(ts, s) # {}
    THEN PropertyViolation(CHOOSE i \in Violated(ts, s) :
                             \A j \in Violated(ts, s) : i <= j)
  ELSE IF /\ ts.deadlock_detection
          /\ NextStates(ts, s, Keep) = {}
          /\ Unknowns(ts, s) = {}
    THEN Deadlock
  ELSE NoError

(* Next states of s that the simulating system does not have.              *)
Disallowed(ts, s) ==
  {n \in NextStates(ts, s, State) :
     \E sim \in ts.simulated_by :
       sim.cast[n] \notin NextStates(sim.by, sim.cast[s], State)}

(* What Evaluate(state) throws: the simulating system is evaluated first,  *)
(* and its next states are what the filter compares the next states with.  *)
EvaluateThrows(ts, s) ==
  LET thrown(sim) == Thrown(sim.by, sim.cast[s], State)
      failing == {sim \in ts.simulated_by : thrown(sim) # NoError}
  IN  IF failing # {}
        THEN thrown(CHOOSE sim \in failing : TRUE)
      ELSE IF Violated(ts, s) = {} /\ Disallowed(ts, s) # {}
        THEN Simulation
      ELSE Thrown(ts, s, State)

(***************************************************************************)
(* Vocabulary of the properties.                                           *)
(***************************************************************************)

(* A set of states that holds the start states and that no step leaves.    *)
Closed(ts, Starts, C) ==
  /\ Starts \subseteq C
  /\ \A s \in C : NextStates(ts, s, State) \subseteq C

(* The reachable states: the least closed set.                             *)
Reachable(ts, Starts) ==
  {s \in State : \A C \in SUBSET State : Closed(ts, Starts, C) => s \in C}

(* A run of the transition system, as a sequence of states.                *)
IsPath(ts, Starts, p) ==
  /\ p # <<>>
  /\ p[1] \in Starts
  /\ \A i \in 1 .. Len(p) - 1 : p[i + 1] \in NextStates(ts, p[i], State)

(* Siblings(ts, Starts): hashes tell apart what a trace has to tell apart, *)
(* the start states from one another and the successors of one state.      *)
HashSeparates(ts, S) ==
  \A s, t \in S : ts.hash[s] = ts.hash[t] => s = t

SiblingsSeparated(ts, Starts) ==
  /\ HashSeparates(ts, Starts)
  /\ \A s \in State : HashSeparates(ts, NextStates(ts, s, State))
=============================================================================
