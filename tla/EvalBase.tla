------------------------------ MODULE EvalBase ------------------------------
(***************************************************************************)
(* core/eval.hh: the state that every search backend keeps, and            *)
(* MakeTraceFromHashTrace, which both backends call to turn the hashes on  *)
(* the way from an erroneous state back to a start state into a trace.     *)
(*                                                                         *)
(* phase is where Evaluate is:                                             *)
(*   "search"     in the while loop                                        *)
(*   "walk"       an evaluation threw, following the parents               *)
(*   "rebuild"    in MakeTraceFromHashTrace                                *)
(*   "returned"   the accepting states were returned                       *)
(*   "threw"      ErrorTrace was thrown, with the trace                    *)
(*   "threw_hash" ErrorHashTrace was thrown, with the hashes               *)
(*   "escaped"    an exception of Evaluate left MakeTraceFromHashTrace     *)
(*   "aborted"    an Expects of MakeTraceFromHashTrace failed              *)
(***************************************************************************)
EXTENDS TransitionSystem

CONSTANTS
  Systems,       \* the transition systems considered
  StartQueues,   \* the queues of start states considered
  Verbose,       \* the values of verbose_on_error considered
  MonitorStops   \* TRUE if a monitor that may return false is set

ASSUME EvalAssumption ==
  /\ Systems \subseteq TransitionSystems
  /\ StartQueues \subseteq Seq(State) \ {<<>>}
  /\ Verbose \subseteq BOOLEAN
  /\ MonitorStops \in BOOLEAN

VARIABLES
  ts,                  \* the transition system, fixed
  start,               \* start_states, fixed
  verbose_on_error,    \* fixed
  phase,
  current_states,      \* the queue; its head is the state under evaluation
  result,              \* the accepting states, in the order encountered
  num_visited_states,
  num_queued_states,
  error,               \* the exception caught in the loop
  walk,                \* where the walk along the parents is
  hash_trace,          \* the hashes collected, the erroneous state's first
  cursor,              \* cur_hash_it: the next hash of hash_trace to match
  rebuilt,             \* current_state of MakeTraceFromHashTrace
  trace                \* the states matched so far

searchVars == <<current_states, result, num_visited_states, num_queued_states>>
traceVars == <<error, walk, hash_trace, cursor, rebuilt, trace>>
evalVars == <<ts, start, verbose_on_error, phase, searchVars, traceVars>>

Phases == {"search", "walk", "rebuild", "returned", "threw", "threw_hash",
           "escaped", "aborted"}
Final == {"returned", "threw", "threw_hash", "escaped", "aborted"}

EvalInit ==
  /\ ts \in Systems
  /\ start \in StartQueues
  /\ verbose_on_error \in Verbose
  /\ phase = "search"
  /\ current_states = start
  /\ result = <<>>
  /\ num_visited_states = 0
  /\ num_queued_states = Len(start)
  /\ error = NoError
  /\ walk = start[1]
  /\ hash_trace = <<>>
  /\ cursor = 0
  /\ rebuilt = start[1]
  /\ trace = <<>>

(* Faulty: the last start state, whatever its hash.                        *)
LastStart(h) == start[Len(start)]

(* The first start state with hash h (std::find_if).                       *)
StartWithHash(h) ==
  start[CHOOSE i \in DOMAIN start :
          /\ ts.hash[start[i]] = h
          /\ \A j \in 1 .. i - 1 : ts.hash[start[j]] # h]

(* Faulty: accepting states in reverse order.                              *)
AcceptingFirst(s) == IF s \in ts.accept THEN <<s>> \o result ELSE result

(* The accepted head of the queue joins the result before it is evaluated. *)
Accepting(s) == IF s \in ts.accept THEN Append(result, s) ELSE result

(* Faulty: a stack.                                                        *)
Push(order) == order \o Tail(current_states)

(* The queue and its length once the head is popped.                       *)
Enqueue(order) == Tail(current_states) \o order
Queued(unseen) == num_queued_states + Cardinality(unseen) - 1

(* One loop iteration: the head is evaluated, the unseen next states are   *)
(* queued in the (unspecified) order of the multimap, the head is popped.  *)
Visit(unseen) ==
  /\ phase = "search"
  /\ current_states # <<>>
  /\ EvaluateThrows(ts, Head(current_states)) = NoError
  /\ result' = Accepting(Head(current_states))
  /\ num_visited_states' = num_visited_states + 1
  /\ \E order \in SetToSeqs(unseen) :
       current_states' = Enqueue(order)
  /\ num_queued_states' = Queued(unseen)
  /\ UNCHANGED <<ts, start, verbose_on_error, phase, traceVars>>

(* The evaluation of the head throws; the walk starts at `first'.          *)
Catch(first) ==
  /\ phase = "search"
  /\ current_states # <<>>
  /\ EvaluateThrows(ts, Head(current_states)) # NoError
  /\ result' = Accepting(Head(current_states))
  /\ error' = EvaluateThrows(ts, Head(current_states))
  /\ walk' = first
  /\ phase' = "walk"
  /\ UNCHANGED <<ts, start, verbose_on_error, current_states,
                 num_visited_states, num_queued_states, hash_trace, cursor,
                 rebuilt, trace>>

(* The loop ends: nothing is queued, or the monitor returned false.        *)
Return ==
  /\ phase = "search"
  /\ current_states = <<>>
  /\ phase' = "returned"
  /\ UNCHANGED <<ts, start, verbose_on_error, searchVars, traceVars>>

MonitorReturnsFalse ==
  /\ phase = "search"
  /\ current_states # <<>>
  /\ MonitorStops
  /\ phase' = "returned"
  /\ UNCHANGED <<ts, start, verbose_on_error, searchVars, traceVars>>

(* One step of the walk, at a state or hash whose hash is h.               *)
WalkOn(h, parent) ==
  /\ phase = "walk"
  /\ hash_trace' = Append(hash_trace, h)
  /\ walk' = parent
  /\ UNCHANGED <<ts, start, verbose_on_error, phase, searchVars, error,
                 cursor, rebuilt, trace>>

(* The walk reached a start state: throw the hashes or rebuild the trace.  *)
WalkEnds(h) ==
  /\ phase = "walk"
  /\ hash_trace' = Append(hash_trace, h)
  /\ IF verbose_on_error
       THEN /\ phase' = "rebuild"
            /\ rebuilt' = StartWithHash(h)
            /\ cursor' = Len(hash_trace)
       ELSE /\ phase' = "threw_hash"
            /\ UNCHANGED <<cursor, rebuilt>>
  /\ UNCHANGED <<ts, start, verbose_on_error, searchVars, error, walk, trace>>

-----------------------------------------------------------------------------
(***************************************************************************)
(* MakeTraceFromHashTrace.                                                 *)
(***************************************************************************)
Matching == {s \in State : ts.hash[s] = hash_trace[cursor]}

Rebuild ==
  /\ phase = "rebuild"
  /\ cursor > 0
  /\ Thrown(ts, rebuilt, Matching) = NoError
  /\ \E n \in State :
       /\ NextStates(ts, rebuilt, Matching) = {n}
       /\ rebuilt' = n
  /\ trace' = Append(trace, rebuilt)
  /\ cursor' = cursor - 1
  /\ UNCHANGED <<ts, start, verbose_on_error, phase, searchVars, error, walk,
                 hash_trace>>

(* Expects(found_state) or Expects(next_states.size() == 1) fails.         *)
RebuildAborts ==
  /\ phase = "rebuild"
  /\ cursor > 0
  /\ Thrown(ts, rebuilt, Matching) = NoError
  /\ Cardinality(NextStates(ts, rebuilt, Matching)) # 1
  /\ phase' = "aborted"
  /\ UNCHANGED <<ts, start, verbose_on_error, searchVars, traceVars>>

(* The filtered evaluation itself throws (a Deadlock: all was filtered).   *)
RebuildThrows ==
  /\ phase = "rebuild"
  /\ cursor > 0
  /\ Thrown(ts, rebuilt, Matching) # NoError
  /\ phase' = "escaped"
  /\ UNCHANGED <<ts, start, verbose_on_error, searchVars, traceVars>>

RebuildEnds ==
  /\ phase = "rebuild"
  /\ cursor = 0
  /\ trace' = Append(trace, rebuilt)
  /\ phase' = "threw"
  /\ UNCHANGED <<ts, start, verbose_on_error, searchVars, error, walk,
                 hash_trace, cursor, rebuilt>>

MakeTraceFromHashTrace ==
  Rebuild \/ RebuildAborts \/ RebuildThrows \/ RebuildEnds
=============================================================================
