------------------------ MODULE ModelCheckerCommand ------------------------
(***************************************************************************)
(* command.hh, ModelCheckerCommand::operator(), with its default backend   *)
(* Eval_BFS, and domain/protocol.hh, LivelockFreedom: the one property     *)
(* that keeps state.  While the search evaluates states, the property      *)
(* records how the nodes of a protocol (the members of a ScalarSet) go     *)
(* from one transient state to another; when the search has returned, the  *)
(* command asks it whether what it recorded has a cycle.                   *)
(***************************************************************************)
EXTENDS Eval_BFS

CONSTANTS
  Node,           \* the IDs of the ScalarSet
  NodeState,      \* its elements
  Stable,         \* those for which stable_pred_ holds
  NodeStates(_)   \* scalar_set_accessor_ of the property of a system:
                  \*   state -> node -> node state

ASSUME NodeAssumption ==
  /\ IsFiniteSet(Node)
  /\ IsFiniteSet(NodeState)
  /\ Stable \subseteq NodeState
  /\ \A t \in Systems : NodeStates(t) \in [State -> [Node -> NodeState]]

VARIABLE state_graph   \* state_graph_: the edges recorded since Reset

commandVars == <<vars, state_graph>>

Transient == NodeState \ Stable
View(s) == NodeStates(ts)[s]

(* Faulty: edges that start in a stable state are recorded as well.        *)
EdgesFromStable(s, nexts) ==
  {e \in NodeState \X NodeState :
     e[1] # e[2] /\ \E n \in nexts, i \in Node :
                      View(s)[i] = e[1] /\ View(n)[i] = e[2]}

(* What LivelockFreedom::Next inserts for a state and its next states.     *)
Edges(s, nexts) ==
  {e \in Transient \X Transient :
     e[1] # e[2] /\ \E n \in nexts, i \in Node :
                      View(s)[i] = e[1] /\ View(n)[i] = e[2]}

Record(s, nexts) == state_graph' = state_graph \cup Edges(s, nexts)

(* Faulty: Next is called with the states not found before only.           *)
EvaluateAndRecordUnseen ==
  Evaluate /\ Record(Head(current_states), Unseen)

(* An evaluation that does not throw ends with Property::Next.             *)
EvaluateAndRecord ==
  /\ Evaluate
  /\ Record(Head(current_states), NextStates(ts, Head(current_states), State))

(* Rebuilding the trace evaluates its states again, filtered by a hash,    *)
(* and so calls Next a second time.                                        *)
RebuildAndRecord ==
  /\ Rebuild \/ RebuildAborts
  /\ Record(rebuilt, NextStates(ts, rebuilt, Matching))
  /\ UNCHANGED parents

CommandInit == Init /\ state_graph = {}

CommandNext ==
  \/ EvaluateAndRecord
  \/ RebuildAndRecord
  \/ /\ \/ CatchError
        \/ WalkToParent
        \/ WalkToStart
        \/ (Return \/ MonitorReturnsFalse) /\ UNCHANGED parents
        \/ (RebuildThrows \/ RebuildEnds) /\ UNCHANGED parents
     /\ UNCHANGED state_graph

CommandSpec ==
  CommandInit /\ [][CommandNext]_commandVars /\ WF_commandVars(CommandNext)

-----------------------------------------------------------------------------
(* All that is forced into C from the members it has: `to' is reached      *)
(* from `from' by steps of edges if every such C holds it.                 *)
Leads(edges, from, to) ==
  LET nodes == {e[1] : e \in edges} \cup {e[2] : e \in edges} \cup {from}
  IN  \A C \in SUBSET nodes :
        (from \in C /\ \A e \in edges : e[1] \in C => e[2] \in C) => to \in C

(* Relation::Acyclic of mc2lib.                                            *)
Acyclic(edges) == \A e \in edges : ~Leads(edges, e[2], e[1])

IsSatisfied == Acyclic(state_graph)

(* What operator() returns once Evaluate has ended; -1 while it runs or if *)
(* another exception leaves it (ErrorHashTrace has no handler).            *)
ExitCode ==
  IF phase = "threw" THEN 1
  ELSE IF phase = "returned" THEN (IF IsSatisfied THEN 0 ELSE 1)
  ELSE -1

-----------------------------------------------------------------------------
(* The steps between reachable states during which node i stays transient. *)
TransientSteps(i) ==
  {e \in Reachable(ts, Starts) \X Reachable(ts, Starts) :
     /\ e[2] \in NextStates(ts, e[1], State)
     /\ View(e[1])[i] \in Transient
     /\ View(e[2])[i] \in Transient}

(* A run exists in which node i goes from transient state to transient     *)
(* state for ever and never becomes stable.                                *)
PingPong(i) ==
  \E e \in TransientSteps(i) :
    /\ View(e[1])[i] # View(e[2])[i]
    /\ Leads(TransientSteps(i), e[2], e[1])

(* VERIFIED is true: if the command returns 0 after a search that was not  *)
(* stopped, no reachable state is in error and no node can ping-pong       *)
(* between transient states, although LivelockFreedom saw every state only *)
(* once, in the order of the search, and never a run.  With a simulating   *)
(* system, the cast of every run is a run of that system, on which none of *)
(* its own properties is violated.                                         *)
VerdictIsSound ==
  ExitCode = 0 /\ current_states = <<>> =>
    /\ \A s \in Reachable(ts, Starts) : EvaluateThrows(ts, s) = NoError
    /\ \A i \in Node : ~PingPong(i)
    /\ \A sim \in ts.simulated_by :
         /\ \A s \in Reachable(ts, Starts) :
              \A n \in NextStates(ts, s, State) :
                sim.cast[n] \in NextStates(sim.by, sim.cast[s], State)
         /\ \A s \in Reachable(ts, Starts) :
              /\ sim.cast[s] \in Reachable(sim.by, {sim.cast[r] : r \in Starts})
              /\ Violated(sim.by, sim.cast[s]) = {}

(* A single node whose state is all of the state (or several such nodes    *)
(* that never differ).                                                     *)
OneNode ==
  \A i, j \in Node, s, t \in State : View(s)[i] = View(t)[j] <=> s = t

(* VERIFICATION FAILED is true: the error of the trace is real, and so is  *)
(* a livelock if there is one node and its state is all of the state.  (In *)
(* general it need not be: one graph is kept for all nodes, and two steps  *)
(* that meet in a node state need not belong to one run.)                  *)
FailureIsReal ==
  ExitCode = 1 =>
    IF phase = "threw"
      THEN \E s \in Reachable(ts, Starts) :
             EvaluateThrows(ts, s) = error /\ error # NoError
      ELSE OneNode => \E i \in Node : PingPong(i)
=============================================================================
