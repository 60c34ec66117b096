--------------------------- MODULE Eval_BFS_proofs ---------------------------
(***************************************************************************)
(* Proofs about Eval_BFS, for every finite set of states, every family of  *)
(* transition systems over it, every hash and every queue of start states; *)
(* and about the verdict of ModelCheckerCommand around it, for any number  *)
(* of nodes and any node states.                                           *)
(***************************************************************************)
EXTENDS ModelCheckerCommand, SearchLemmas

-----------------------------------------------------------------------------
(***************************************************************************)
(* Type correctness with the search invariant it rests on: TypeOK alone is *)
(* not inductive, as the walk looks its position up in parents.            *)
(***************************************************************************)
LEMMA InitEstablishes == Init => TypeOK /\ SearchInv
<1> SUFFICES ASSUME Init PROVE TypeOK /\ SearchInv
  OBVIOUS
<1> USE DEF Init, EvalInit
<1>1. ts \in TransitionSystems
  BY EvalAssumption
<1>2. start \in Seq(State) /\ start # <<>>
  BY EvalAssumption
<1>3. /\ start[1] \in State
      /\ Len(start) \in Nat
      /\ Range(start) \subseteq State
  <2>1. Len(start) \in Nat \ {0} /\ DOMAIN start = 1 .. Len(start)
    BY <1>2, EmptySeq, LenProperties
  <2> QED
    BY <1>2, <2>1, ElementOfSeq DEF Range
<1>4. TypeOK
  BY <1>1, <1>2, <1>3, EvalAssumption
     DEF TypeOK, Phases, Errors, NoError
<1>5. DOMAIN parents = Starts
  BY DEF Starts
<1>6. Starts \subseteq Reachable(ts, Starts)
  BY <1>3 DEF Starts, Reachable, Closed
<1> QED
  BY <1>4, <1>5, <1>6 DEF SearchInv, Starts

(* An evaluation that succeeds keeps the invariant.                        *)
LEMMA EvaluateStep ==
  ASSUME TypeOK, SearchInv, Evaluate
  PROVE  TypeOK' /\ SearchInv'
<1> DEFINE s == Head(current_states)
<1>1. /\ phase = "search"
      /\ current_states \in Seq(State)
      /\ current_states # <<>>
      /\ EvaluateThrows(ts, s) = NoError
      /\ UNCHANGED <<ts, start, verbose_on_error, phase, traceVars>>
  BY DEF Evaluate, Visit, TypeOK
<1>2. PICK order \in SetToSeqs(Unseen) :
        current_states' = Tail(current_states) \o order
  BY DEF Evaluate, Visit, Enqueue
<1>3. s \in State /\ s \in Range(current_states)
      /\ Tail(current_states) \in Seq(State)
      /\ Range(Tail(current_states)) \subseteq Range(current_states)
      /\ Range(current_states) \subseteq {s} \cup Range(Tail(current_states))
  BY <1>1, RangeOfTail, HeadTailProperties
<1>4. Unseen \in SUBSET State
  BY DEF Unseen, NextStates
<1>5. order \in Seq(State) /\ Range(order) = Unseen
  BY <1>2, <1>4, OrderOfSet
<1>6. /\ current_states' \in Seq(State)
      /\ Range(current_states') = Range(Tail(current_states)) \cup Unseen
  <2>1. Tail(current_states) \o order \in Seq(State)
    BY <1>3, <1>5, ConcatProperties
  <2>2. Range(Tail(current_states) \o order)
          = Range(Tail(current_states)) \cup Range(order)
    <3>1. Tail(current_states) \in Seq(State) /\ order \in Seq(State)
      BY <1>3, <1>5
    <3>2. \A q, r \in Seq(State) : Range(q \o r) = Range(q) \cup Range(r)
      BY RangeOfConcat
    <3> QED
      BY <3>1, <3>2
  <2> QED
    BY <1>2, <1>5, <2>1, <2>2
<1>7. /\ DOMAIN parents' = DOMAIN parents \cup Unseen
      /\ \A n \in DOMAIN parents : parents'[n] = parents[n]
      /\ \A n \in Unseen : parents'[n] = s
  BY DEF Evaluate, Unseen
<1>8. TypeOK'
  <2>1. Cardinality(Unseen) \in Int
    BY <1>4, FiniteAssumption, FS_Subset, FS_CardinalityType
  <2>2. num_visited_states' \in Nat /\ num_queued_states' \in Int
    <3>1. num_visited_states \in Nat /\ num_queued_states \in Int
      BY DEF TypeOK
    <3>2. /\ num_visited_states' = num_visited_states + 1
          /\ num_queued_states' = num_queued_states + Cardinality(Unseen) - 1
      BY DEF Evaluate, Visit, Queued
    <3> QED
      BY <2>1, <3>1, <3>2
  <2>3. result' \in Seq(State)
    BY <1>3 DEF TypeOK, Evaluate, Visit, Accepting
  <2>4. parents' \in [DOMAIN parents' -> State \cup {NoParent}]
    <3>1. \A n \in DOMAIN parents' : parents'[n] \in State \cup {NoParent}
      BY <1>3, <1>7 DEF TypeOK
    <3>2. parents' = [n \in DOMAIN parents \cup Unseen |-> parents'[n]]
      BY <1>7 DEF Evaluate
    <3> QED
      BY <1>7, <3>1, <3>2
  <2>5. DOMAIN parents' \subseteq State
    BY <1>4, <1>7 DEF TypeOK
  <2> QED
    BY <1>1, <1>6, <2>2, <2>3, <2>4, <2>5 DEF TypeOK, traceVars
<1>9. SearchInv'
  <2>1. Starts' = Starts /\ Reachable(ts, Starts)' = Reachable(ts, Starts)
    BY <1>1 DEF Starts
  <2>2. s \in DOMAIN parents
    BY <1>3 DEF SearchInv
  <2>3. NextStates(ts, s, State) \subseteq DOMAIN parents'
    BY <1>7 DEF Unseen
  <2>4. Unseen \subseteq Reachable(ts, Starts)
    BY <2>2, ReachableClosed DEF SearchInv, Unseen, TypeOK
  <2>5. /\ Starts' \subseteq DOMAIN parents'
        /\ Range(current_states') \subseteq DOMAIN parents'
        /\ DOMAIN parents' \subseteq Reachable(ts, Starts)'
    BY <1>3, <1>6, <1>7, <2>1, <2>4 DEF SearchInv
  <2>6. ASSUME NEW n \in DOMAIN parents' \ Range(current_states')
        PROVE  /\ EvaluateThrows(ts', n) = NoError
               /\ NextStates(ts', n, State) \subseteq DOMAIN parents'
    <3>1. n = s \/ n \in DOMAIN parents \ Range(current_states)
      BY <1>3, <1>6, <1>7
    <3>2. CASE n = s
      BY <1>1, <2>3, <3>2
    <3>3. CASE n \in DOMAIN parents \ Range(current_states)
      BY <1>1, <1>7, <3>3 DEF SearchInv
    <3> QED
      BY <3>1, <3>2, <3>3
  <2>7. ASSUME NEW n \in DOMAIN parents'
        PROVE  IF parents'[n] = NoParent THEN n \in Starts'
               ELSE /\ parents'[n] \in DOMAIN parents'
                    /\ n \in NextStates(ts', parents'[n], State)
    <3>1. CASE n \in DOMAIN parents
      BY <1>1, <1>7, <2>1, <3>1 DEF SearchInv
    <3>2. CASE n \in Unseen
      BY <1>1, <1>3, <1>7, <2>2, <3>2, NoParentAssumption DEF Unseen
    <3> QED
      BY <1>7, <3>1, <3>2
  <2>8. (phase = "walk" => walk \in DOMAIN parents)'
    BY <1>1
  <2>9. (phase \notin {"search", "returned"} =>
           /\ current_states # <<>>
           /\ error = EvaluateThrows(ts, Head(current_states))
           /\ error # NoError)'
    BY <1>1
  <2>10. (phase = "returned" /\ ~MonitorStops => current_states = <<>>)'
    BY <1>1
  <2> QED
    BY <2>5, <2>6, <2>7, <2>8, <2>9, <2>10 DEF SearchInv
<1> QED
  BY <1>8, <1>9

(* What the steps that only move the phase and the trace leave alone.      *)
LEMMA SearchInvKept ==
  ASSUME TypeOK, SearchInv,
         UNCHANGED <<ts, start, current_states, parents>>,
         phase' = "walk" => walk' \in DOMAIN parents,
         phase' \notin {"search", "returned"} =>
           /\ current_states # <<>>
           /\ error' = EvaluateThrows(ts, Head(current_states))
           /\ error' # NoError,
         phase' = "returned" /\ ~MonitorStops => current_states = <<>>
  PROVE  SearchInv'
  BY DEF SearchInv, Starts

(* An error starts the walk at the state that was evaluated.               *)
LEMMA CatchErrorStep ==
  ASSUME TypeOK, SearchInv, CatchError
  PROVE  TypeOK' /\ SearchInv'
<1> USE DEF CatchError, Catch
<1>1. Head(current_states) \in State
      /\ Head(current_states) \in Range(current_states)
  BY RangeOfTail, HeadTailProperties DEF TypeOK
<1>2. error' \in Errors
  BY EvaluateThrowsType DEF TypeOK
<1>3. result' \in Seq(State)
  BY <1>1 DEF TypeOK, Accepting
<1>4. TypeOK'
  BY <1>1, <1>2, <1>3 DEF TypeOK, Phases
<1>5. Head(current_states) \in DOMAIN parents
  BY <1>1 DEF SearchInv
<1>6. SearchInv'
  BY <1>5, SearchInvKept
<1> QED
  BY <1>4, <1>6

(* Returning changes neither queue nor parents.                            *)
LEMMA ReturnStep ==
  ASSUME TypeOK, SearchInv, Return \/ MonitorReturnsFalse,
         UNCHANGED parents
  PROVE  TypeOK' /\ SearchInv'
<1> USE DEF Return, MonitorReturnsFalse, searchVars, traceVars
<1>1. TypeOK'
  BY DEF TypeOK, Phases
<1>2. SearchInv'
  BY SearchInvKept
<1> QED
  BY <1>1, <1>2

(* The walk goes from a found state to its parent, a found state.          *)
LEMMA WalkToParentStep ==
  ASSUME TypeOK, SearchInv, WalkToParent
  PROVE  TypeOK' /\ SearchInv'
<1> USE DEF WalkToParent, WalkOn, searchVars
<1>1. walk \in DOMAIN parents /\ walk' \in DOMAIN parents /\ walk' \in State
  BY DEF SearchInv, TypeOK
<1>2. hash_trace' \in Seq(HashVal)
  <2>1. ts.hash[walk] \in HashVal
    BY DEF TypeOK, TransitionSystems, SystemsOver
  <2> QED
    BY <2>1 DEF TypeOK
<1>3. TypeOK'
  BY <1>1, <1>2 DEF TypeOK
<1>4. SearchInv'
  <2>1. /\ current_states # <<>>
        /\ error' = EvaluateThrows(ts, Head(current_states))
        /\ error' # NoError
    BY DEF SearchInv
  <2> QED
    BY <1>1, <2>1, SearchInvKept
<1> QED
  BY <1>3, <1>4

(* The walk ends at a start state.                                         *)
LEMMA WalkToStartStep ==
  ASSUME TypeOK, SearchInv, WalkToStart
  PROVE  TypeOK' /\ SearchInv'
<1> USE DEF WalkToStart, WalkEnds, searchVars
<1>1. walk \in Starts
  BY DEF SearchInv
<1>2. StartWithHash(ts.hash[walk]) \in State
  <2>1. StartWithHash(ts.hash[walk]) \in Range(start)
    BY <1>1, StartWithHashFound DEF Starts, TypeOK
  <2>2. Range(start) \subseteq State
    <3>1. DOMAIN start = 1 .. Len(start)
      BY LenProperties DEF TypeOK
    <3> QED
      BY <3>1, ElementOfSeq DEF Range, TypeOK
  <2> QED
    BY <2>1, <2>2
<1>3. hash_trace' \in Seq(HashVal) /\ Len(hash_trace) \in Nat
  <2>1. ts.hash[walk] \in HashVal
    BY DEF TypeOK, TransitionSystems, SystemsOver
  <2> QED
    BY <2>1, LenProperties DEF TypeOK
<1>4. TypeOK'
  BY <1>2, <1>3 DEF TypeOK, Phases
<1>5. SearchInv'
  <2>1. /\ current_states # <<>>
        /\ error' = EvaluateThrows(ts, Head(current_states))
        /\ error' # NoError
    BY DEF SearchInv
  <2>2. phase' \notin {"walk", "search", "returned"}
    OBVIOUS
  <2> QED
    BY <2>1, <2>2, SearchInvKept
<1> QED
  BY <1>4, <1>5

(* A step of rebuilding the trace changes neither queue nor parents.       *)
LEMMA MakeTraceStep ==
  ASSUME TypeOK, SearchInv, MakeTraceFromHashTrace, UNCHANGED parents
  PROVE  TypeOK' /\ SearchInv'
<1> USE DEF MakeTraceFromHashTrace, Rebuild, RebuildAborts, RebuildThrows,
            RebuildEnds, searchVars, traceVars
<1>1. /\ phase = "rebuild"
      /\ phase' \in {"rebuild", "aborted", "escaped", "threw"}
      /\ UNCHANGED <<ts, start, verbose_on_error, searchVars, error, walk,
                     hash_trace>>
  OBVIOUS
<1>2. rebuilt' \in State /\ trace' \in Seq(State) /\ cursor' \in Nat
  <2> rebuilt \in State /\ trace \in Seq(State) /\ cursor \in Nat
    BY DEF TypeOK
  <2>1. CASE Rebuild
    <3>1. cursor > 0 /\ cursor' = cursor - 1
      BY <2>1
    <3>2. rebuilt' \in State /\ trace' = Append(trace, rebuilt)
      BY <2>1
    <3> QED
      BY <3>1, <3>2
  <2>2. CASE RebuildAborts \/ RebuildThrows
    BY <2>2
  <2>3. CASE RebuildEnds
    BY <2>3
  <2> QED
    BY <2>1, <2>2, <2>3
<1>3. TypeOK'
  BY <1>1, <1>2 DEF TypeOK, Phases
<1>4. SearchInv'
  <2>1. /\ current_states # <<>>
        /\ error' = EvaluateThrows(ts, Head(current_states))
        /\ error' # NoError
    BY <1>1 DEF SearchInv
  <2> QED
    BY <1>1, <2>1, SearchInvKept
<1> QED
  BY <1>3, <1>4

(* Every step keeps types and search invariant.                            *)
LEMMA NextKeeps ==
  ASSUME TypeOK, SearchInv, [Next]_vars
  PROVE  TypeOK' /\ SearchInv'
<1>1. CASE Evaluate
  BY <1>1, EvaluateStep
<1>2. CASE CatchError
  BY <1>2, CatchErrorStep
<1>3. CASE (Return \/ MonitorReturnsFalse) /\ UNCHANGED parents
  BY <1>3, ReturnStep
<1>4. CASE WalkToParent
  BY <1>4, WalkToParentStep
<1>5. CASE WalkToStart
  BY <1>5, WalkToStartStep
<1>6. CASE MakeTraceFromHashTrace /\ UNCHANGED parents
  BY <1>6, MakeTraceStep
<1>7. CASE UNCHANGED vars
  <2>1. UNCHANGED <<ts, start, verbose_on_error, phase, searchVars, traceVars,
                    parents>>
    BY <1>7 DEF vars, evalVars
  <2> USE DEF searchVars, traceVars
  <2>2. TypeOK'
    BY <2>1 DEF TypeOK
  <2>3. SearchInv'
    BY <2>1, SearchInvKept DEF SearchInv
  <2> QED
    BY <2>2, <2>3
<1> QED
  BY <1>1, <1>2, <1>3, <1>4, <1>5, <1>6, <1>7 DEF Next

(* The invariant of the search.                                            *)
LEMMA Invariance == Spec => [](TypeOK /\ SearchInv)
<1>1. Init => TypeOK /\ SearchInv
  BY InitEstablishes
<1>2. (TypeOK /\ SearchInv) /\ [Next]_vars => (TypeOK /\ SearchInv)'
  BY NextKeeps
<1> QED
  BY <1>1, <1>2, PTL DEF Spec

-----------------------------------------------------------------------------
(***************************************************************************)
(* The queue: which states it holds, and what has been evaluated.          *)
(***************************************************************************)
(* The queue after an evaluation: the old one without its head, then the   *)
(* next states not found before, each once.                                *)
LEMMA QueueAfterEvaluate ==
  ASSUME TypeOK, Evaluate
  PROVE  /\ Head(current_states) \in State
         /\ Head(current_states) = current_states[1]
         /\ Len(current_states) \in Nat \ {0}
         /\ current_states' \in Seq(State)
         /\ Len(current_states') \in Nat
         /\ Len(current_states') >= Len(current_states) - 1
         /\ \A i \in 1 .. Len(current_states) - 1 :
              current_states'[i] = current_states[i + 1]
         /\ \A i \in Len(current_states) .. Len(current_states') :
              /\ current_states'[i] \in Unseen
              /\ \A j \in Len(current_states) .. Len(current_states') :
                   current_states'[j] = current_states'[i] => j = i
         /\ \A s \in Unseen :
              \E i \in Len(current_states) .. Len(current_states') :
                current_states'[i] = s
<1> DEFINE n == Len(current_states)
<1>1. /\ current_states \in Seq(State)
      /\ current_states # <<>>
  BY DEF Evaluate, Visit, TypeOK
<1>2. PICK order \in SetToSeqs(Unseen) :
        current_states' = Tail(current_states) \o order
  BY DEF Evaluate, Visit, Enqueue
<1>3. Unseen \in SUBSET State
  BY DEF Unseen, NextStates
<1>4. /\ order \in Seq(State) /\ Range(order) = Unseen
      /\ \A i, j \in DOMAIN order : order[i] = order[j] => i = j
  BY <1>2, <1>3, OrderOfSet
<1>5. Len(order) \in Nat /\ DOMAIN order = 1 .. Len(order)
  BY <1>4, LenProperties
<1>6. /\ Head(current_states) \in State
      /\ Head(current_states) = current_states[1]
      /\ n \in Nat \ {0}
      /\ current_states' \in Seq(State)
      /\ Len(current_states') = n - 1 + Len(order)
      /\ \A i \in 1 .. n - 1 : current_states'[i] = current_states[i + 1]
      /\ \A i \in 1 .. Len(order) : current_states'[n - 1 + i] = order[i]
  BY <1>1, <1>2, <1>4, PopAndPush
<1>7. ASSUME NEW i \in n .. Len(current_states')
      PROVE  i - (n - 1) \in DOMAIN order
               /\ current_states'[i] = order[i - (n - 1)]
  <2>1. /\ i - (n - 1) \in 1 .. Len(order)
        /\ n - 1 + (i - (n - 1)) = i
    BY <1>5, <1>6
  <2> QED
    BY <1>5, <1>6, <2>1
<1>8. ASSUME NEW i \in n .. Len(current_states')
      PROVE  /\ current_states'[i] \in Unseen
             /\ \A j \in n .. Len(current_states') :
                  current_states'[j] = current_states'[i] => j = i
  <2>1. current_states'[i] \in Unseen
    BY <1>4, <1>7 DEF Range
  <2>2. ASSUME NEW j \in n .. Len(current_states'),
               current_states'[j] = current_states'[i]
        PROVE  j = i
    <3>1. j - (n - 1) = i - (n - 1)
      BY <1>4, <1>7, <2>2
    <3> QED
      BY <3>1, <1>6
  <2> QED
    BY <2>1, <2>2
<1>9. ASSUME NEW s \in Unseen
      PROVE  \E i \in n .. Len(current_states') : current_states'[i] = s
  <2>1. PICK i \in 1 .. Len(order) : order[i] = s
    BY <1>4, <1>5 DEF Range
  <2>2. n - 1 + i \in n .. Len(current_states')
    BY <1>5, <1>6
  <2> QED
    BY <1>6, <2>1, <2>2
<1>10. Len(current_states') \in Nat /\ Len(current_states') >= n - 1
  BY <1>5, <1>6
<1> QED
  BY <1>6, <1>8, <1>9, <1>10

(* What an evaluation leaves off the queue: at most the head in addition.  *)
LEMMA QueueRange ==
  ASSUME TypeOK, SearchInv, Evaluate
  PROVE  /\ \A t : t \in Range(current_states') <=>
              \/ t \in Unseen
              \/ \E i \in 2 .. Len(current_states) : t = current_states[i]
         /\ \A t : t \in Range(current_states) <=>
              \E i \in 1 .. Len(current_states) : t = current_states[i]
         /\ DOMAIN parents' = DOMAIN parents \cup Unseen
         /\ Unseen \cap DOMAIN parents = {}
         /\ Head(current_states) \in DOMAIN parents
         /\ DOMAIN parents \ Range(current_states)
              \subseteq DOMAIN parents' \ Range(current_states')
         /\ DOMAIN parents' \ Range(current_states')
              \subseteq (DOMAIN parents \ Range(current_states))
                          \cup {Head(current_states)}
<1> DEFINE n == Len(current_states)
           s == Head(current_states)
<1>1. DOMAIN current_states = 1 .. n
  BY LenProperties DEF TypeOK
<1>2. /\ s = current_states[1]
      /\ n \in Nat \ {0}
      /\ current_states' \in Seq(State)
      /\ Len(current_states') \in Nat
      /\ Len(current_states') >= n - 1
      /\ \A i \in 1 .. n - 1 : current_states'[i] = current_states[i + 1]
      /\ \A i \in n .. Len(current_states') : current_states'[i] \in Unseen
      /\ \A t \in Unseen : \E i \in n .. Len(current_states') :
           current_states'[i] = t
  BY QueueAfterEvaluate
<1>3. DOMAIN current_states' = 1 .. Len(current_states')
  BY <1>2, LenProperties
<1>4. DOMAIN parents' = DOMAIN parents \cup Unseen
  BY DEF Evaluate
<1>5. Unseen \cap DOMAIN parents = {} /\ s \in DOMAIN parents
  BY <1>1, <1>2 DEF Unseen, SearchInv, Range
<1>6. ASSUME NEW t
      PROVE  t \in Range(current_states') <=>
               t \in Unseen \/ \E i \in 2 .. n : t = current_states[i]
  <2>1. ASSUME NEW i \in 1 .. n - 1
        PROVE  i + 1 \in 2 .. n /\ current_states'[i] = current_states[i + 1]
    BY <1>2
  <2>2. ASSUME NEW i \in 2 .. n
        PROVE  i - 1 \in DOMAIN current_states'
               /\ current_states'[i - 1] = current_states[i]
    BY <1>2, <1>3
  <2>3. ASSUME NEW i \in n .. Len(current_states')
        PROVE  i \in DOMAIN current_states'
    BY <1>2, <1>3
  <2>4. \A i \in DOMAIN current_states' : i \in 1 .. n - 1
          \/ i \in n .. Len(current_states')
    BY <1>2, <1>3
  <2>5. (\E i \in 2 .. n : t = current_states[i])
          => t \in Range(current_states')
    BY <2>2 DEF Range
  <2>6. t \in Unseen => t \in Range(current_states')
    BY <1>2, <2>3 DEF Range
  <2>7. t \in Range(current_states') =>
          t \in Unseen \/ \E i \in 2 .. n : t = current_states[i]
    BY <1>2, <2>1, <2>4 DEF Range
  <2> QED
    BY <2>5, <2>6, <2>7
<1>7. ASSUME NEW t
      PROVE  t \in Range(current_states)
               <=> \E i \in 1 .. n : t = current_states[i]
  BY <1>1 DEF Range
<1>8. DOMAIN parents \ Range(current_states)
        \subseteq DOMAIN parents' \ Range(current_states')
  BY <1>2, <1>4, <1>5, <1>6, <1>7
<1>9. ASSUME NEW t \in DOMAIN parents', t \notin Range(current_states'),
             t \in Range(current_states)
      PROVE  t = s
  <2>1. PICK i \in 1 .. n : t = current_states[i]
    BY <1>7, <1>9
  <2>2. i \notin 2 .. n
    BY <1>6, <1>9, <2>1
  <2>3. i = 1
    BY <1>2, <2>2
  <2> QED
    BY <1>2, <2>1, <2>3
<1> QED
  BY <1>4, <1>5, <1>6, <1>7, <1>8, <1>9

(* How many start states are still at the front of the queue.              *)
StartsLeft ==
  IF num_visited_states <= Len(start) THEN Len(start) - num_visited_states
                                      ELSE 0

(* The queue holds the start states not yet popped, in order, then other   *)
(* states, each once; and the start states popped were evaluated.          *)
QueueInv ==
  /\ StartsLeft <= Len(current_states)
  /\ \A i \in 1 .. StartsLeft :
       current_states[i] = start[num_visited_states + i]
  /\ \A i \in 1 .. Len(current_states) : i > StartsLeft =>
       /\ current_states[i] \notin Starts
       /\ \A j \in 1 .. Len(current_states) :
            current_states[j] = current_states[i] => j = i
  /\ \A i \in 1 .. Len(start) : i <= num_visited_states =>
       /\ EvaluateThrows(ts, start[i]) = NoError
       /\ NextStates(ts, start[i], State) \subseteq DOMAIN parents

(* Only the start states are queued.                                       *)
LEMMA QueueInvInit == Init => QueueInv
<1> SUFFICES ASSUME Init PROVE QueueInv
  OBVIOUS
<1>1. Len(start) \in Nat
  <2>1. start \in Seq(State)
    BY EvalAssumption DEF Init, EvalInit
  <2> QED
    BY <2>1, LenProperties
<1> QED
  BY <1>1 DEF Init, EvalInit, QueueInv, StartsLeft

(* The first state of the queue is one of the start states.                *)
LEMMA StartProperties ==
  ASSUME start \in Seq(State)
  PROVE  /\ Len(start) \in Nat /\ DOMAIN start = 1 .. Len(start)
         /\ Starts = {start[i] : i \in 1 .. Len(start)}
  BY LenProperties DEF Starts, Range

(* New states are queued once each.                                        *)
LEMMA QueueInvEvaluate ==
  ASSUME TypeOK, SearchInv, QueueInv, Evaluate
  PROVE  QueueInv'
<1> DEFINE n == Len(current_states)
           v == num_visited_states
           s == Head(current_states)
<1>1. UNCHANGED <<ts, start>> /\ v' = v + 1 /\ EvaluateThrows(ts, s) = NoError
  BY DEF Evaluate, Visit
<1>2. v \in Nat /\ Len(start) \in Nat
  BY LenProperties DEF TypeOK
<1>3. /\ s = current_states[1]
      /\ n \in Nat \ {0}
      /\ Len(current_states') \in Nat
      /\ Len(current_states') >= n - 1
      /\ \A i \in 1 .. n - 1 : current_states'[i] = current_states[i + 1]
      /\ \A i \in n .. Len(current_states') :
           /\ current_states'[i] \in Unseen
           /\ \A j \in n .. Len(current_states') :
                current_states'[j] = current_states'[i] => j = i
  BY QueueAfterEvaluate
<1>4. Unseen \cap DOMAIN parents = {}
  BY DEF Unseen
<1>5. \A i \in 1 .. n : current_states[i] \in DOMAIN parents
  <2>1. DOMAIN current_states = 1 .. n
    BY LenProperties DEF TypeOK
  <2> QED
    BY <2>1 DEF SearchInv, Range
<1>6. /\ DOMAIN parents' = DOMAIN parents \cup Unseen
      /\ NextStates(ts, s, State) \subseteq DOMAIN parents'
  BY DEF Evaluate, Unseen
<1>7. StartsLeft' = IF StartsLeft = 0 THEN 0 ELSE StartsLeft - 1
  BY <1>1, <1>2 DEF StartsLeft
<1>8. StartsLeft \in Nat /\ StartsLeft <= n
  BY <1>2 DEF StartsLeft, QueueInv
<1>9. StartsLeft' <= Len(current_states')
  BY <1>3, <1>7, <1>8
<1>10. ASSUME NEW i \in 1 .. StartsLeft'
       PROVE  current_states'[i] = start'[v' + i]
  <2>1. /\ i + 1 \in 1 .. StartsLeft /\ i \in 1 .. n - 1
        /\ v' + i = v + (i + 1)
    BY <1>1, <1>2, <1>7, <1>8
  <2> QED
    BY <1>1, <1>3, <2>1 DEF QueueInv
<1>11. ASSUME NEW i \in 1 .. Len(current_states'), i > StartsLeft'
       PROVE  /\ current_states'[i] \notin Starts'
              /\ \A j \in 1 .. Len(current_states') :
                   current_states'[j] = current_states'[i] => j = i
  <2>1. Starts' = Starts
    BY <1>1 DEF Starts
  <2>2. CASE i \in 1 .. n - 1
    <3>1. i + 1 \in 1 .. n /\ i + 1 > StartsLeft
      BY <1>7, <1>8, <1>11, <2>2
    <3>2. /\ current_states'[i] = current_states[i + 1]
          /\ current_states[i + 1] \in DOMAIN parents
          /\ current_states[i + 1] \notin Starts
          /\ \A j \in 1 .. n : current_states[j] = current_states[i + 1]
               => j = i + 1
      BY <1>3, <1>5, <2>2, <3>1 DEF QueueInv
    <3>3. ASSUME NEW j \in 1 .. Len(current_states'),
                 current_states'[j] = current_states'[i]
          PROVE  j = i
      <4>1. CASE j \in 1 .. n - 1
        <5>1. /\ j + 1 \in 1 .. n
              /\ current_states'[j] = current_states[j + 1]
          BY <1>3, <4>1
        <5>2. j + 1 = i + 1
          BY <3>2, <3>3, <5>1
        <5> QED
          BY <5>2, <2>2, <4>1
      <4>2. CASE j \in n .. Len(current_states')
        BY <1>3, <1>4, <3>2, <3>3, <4>2
      <4> QED
        BY <1>3, <4>1, <4>2
    <3> QED
      BY <2>1, <3>2, <3>3
  <2>3. CASE i \in n .. Len(current_states')
    <3>1. current_states'[i] \in Unseen
      BY <1>3, <2>3
    <3>2. current_states'[i] \notin Starts
      BY <1>4, <3>1 DEF SearchInv
    <3>3. ASSUME NEW j \in 1 .. Len(current_states'),
                 current_states'[j] = current_states'[i]
          PROVE  j = i
      <4>1. CASE j \in 1 .. n - 1
        <5>1. /\ j + 1 \in 1 .. n
              /\ current_states'[j] = current_states[j + 1]
          BY <1>3, <4>1
        <5> QED
          BY <1>4, <1>5, <3>1, <3>3, <5>1
      <4>2. CASE j \in n .. Len(current_states')
        BY <1>3, <2>3, <3>3, <4>2
      <4> QED
        BY <1>3, <4>1, <4>2
    <3> QED
      BY <2>1, <3>2, <3>3
  <2> QED
    BY <1>3, <2>2, <2>3
<1>12. ASSUME NEW i \in 1 .. Len(start), i <= v + 1
       PROVE  /\ EvaluateThrows(ts, start[i]) = NoError
              /\ NextStates(ts, start[i], State) \subseteq DOMAIN parents'
  <2>1. CASE i <= v
    BY <1>6, <2>1 DEF QueueInv
  <2>2. CASE i = v + 1
    <3>1. StartsLeft >= 1
      BY <1>2, <2>2 DEF StartsLeft
    <3>2. s = start[i]
      BY <1>3, <1>8, <2>2, <3>1 DEF QueueInv
    <3> QED
      BY <1>1, <1>6, <3>2
  <2> QED
    BY <1>2, <1>12, <2>1, <2>2
<1> QED
  BY <1>1, <1>9, <1>10, <1>11, <1>12 DEF QueueInv

(* The other steps leave queue and parents alone.                          *)
LEMMA QueueInvKept ==
  ASSUME QueueInv,
         UNCHANGED <<ts, start, current_states, num_visited_states, parents>>
  PROVE  QueueInv'
  BY DEF QueueInv, StartsLeft, Starts

(* Apart from Evaluate, no action moves the queue or finds a state.        *)
LEMMA OnlyEvaluateSearches ==
  ASSUME [Next]_vars, ~Evaluate
  PROVE  UNCHANGED <<ts, start, current_states, num_visited_states, parents>>
  BY DEF Next, vars, evalVars, searchVars, CatchError, Catch, Return,
         MonitorReturnsFalse, WalkToParent, WalkOn, WalkToStart, WalkEnds,
         MakeTraceFromHashTrace, Rebuild, RebuildAborts, RebuildThrows,
         RebuildEnds

(* The invariant of the queue.                                             *)
LEMMA QueueInvariance == Spec => []QueueInv
<1>1. TypeOK /\ SearchInv /\ QueueInv /\ [Next]_vars => QueueInv'
  BY QueueInvEvaluate, QueueInvKept, OnlyEvaluateSearches
<1> QED
  BY <1>1, QueueInvInit, Invariance, PTL DEF Spec

(* What has been evaluated was found, and without error.                   *)
LEMMA EvaluatedProperties ==
  ASSUME TypeOK, SearchInv, QueueInv
  PROVE  /\ Evaluated \subseteq DOMAIN parents
         /\ \A s \in Evaluated :
              /\ EvaluateThrows(ts, s) = NoError
              /\ NextStates(ts, s, State) \subseteq DOMAIN parents
<1>1. DOMAIN start = 1 .. Len(start)
        /\ Starts = {start[i] : i \in 1 .. Len(start)}
  BY StartProperties DEF TypeOK
<1> QED
  BY <1>1 DEF Evaluated, SearchInv, QueueInv

(* An evaluation adds the head of the queue to what has been evaluated,    *)
(* and to it only.                                                         *)
LEMMA EvaluatedGrows ==
  ASSUME TypeOK, SearchInv, QueueInv, Evaluate
  PROVE  Evaluated' = Evaluated \cup {Head(current_states)}
<1> DEFINE n == Len(current_states)
           v == num_visited_states
           s == Head(current_states)
           popped == {start[i] : i \in {j \in 1 .. Len(start) : j <= v}}
<1>1. UNCHANGED <<ts, start>> /\ v' = v + 1
  BY DEF Evaluate, Visit
<1>2. /\ v \in Nat /\ Len(start) \in Nat
      /\ DOMAIN start = 1 .. Len(start)
  BY LenProperties DEF TypeOK
<1>3. /\ s = current_states[1]
      /\ n \in Nat \ {0}
  BY QueueAfterEvaluate
<1>4. /\ \A t : t \in Range(current_states') <=>
           t \in Unseen \/ \E i \in 2 .. n : t = current_states[i]
      /\ DOMAIN parents' = DOMAIN parents \cup Unseen
      /\ Unseen \cap DOMAIN parents = {}
      /\ s \in DOMAIN parents
      /\ DOMAIN parents \ Range(current_states)
           \subseteq DOMAIN parents' \ Range(current_states')
      /\ DOMAIN parents' \ Range(current_states')
           \subseteq (DOMAIN parents \ Range(current_states)) \cup {s}
  BY QueueRange
<1>5. CASE StartsLeft > 0
  <2>1. v + 1 \in 1 .. Len(start) /\ s = start[v + 1]
    BY <1>2, <1>3, <1>5 DEF StartsLeft, QueueInv
  <2>2. popped' = popped \cup {s}
    <3>1. {j \in 1 .. Len(start) : j <= v + 1} =
            {j \in 1 .. Len(start) : j <= v} \cup {v + 1}
      BY <1>2, <2>1
    <3>2. popped' = {start[i] : i \in {j \in 1 .. Len(start) : j <= v + 1}}
      BY <1>1
    <3> QED
      BY <2>1, <3>1, <3>2
  <2> QED
    BY <1>1, <1>2, <1>4, <2>2 DEF Evaluated
<1>6. CASE ~ (StartsLeft > 0)
  <2>1. popped' = popped
    <3>1. v >= Len(start)
      BY <1>2, <1>6 DEF StartsLeft
    <3>2. {j \in 1 .. Len(start) : j <= v + 1}
            = {j \in 1 .. Len(start) : j <= v}
      BY <1>2, <3>1
    <3>3. popped' = {start[i] : i \in {j \in 1 .. Len(start) : j <= v + 1}}
      BY <1>1
    <3> QED
      BY <3>2, <3>3
  <2>2. s \in DOMAIN parents' \ Range(current_states')
    <3>1. \A j \in 1 .. n : current_states[j] = s => j = 1
      <4>1. 1 \in 1 .. n /\ 1 > StartsLeft
        BY <1>2, <1>3, <1>6 DEF StartsLeft
      <4> QED
        BY <1>3, <4>1 DEF QueueInv
    <3>2. \A j \in 2 .. n : j \in 1 .. n /\ j # 1
      BY <1>3
    <3> QED
      BY <1>4, <3>1, <3>2
  <2> QED
    BY <1>1, <1>2, <1>4, <2>1, <2>2 DEF Evaluated
<1> QED
  BY <1>5, <1>6

-----------------------------------------------------------------------------
(***************************************************************************)
(* Every step is one of the abstract search or none.                       *)
(***************************************************************************)
(* The abstract search evaluates states as the concrete one does.          *)
LEMMA SameEvaluation ==
  ASSUME NEW t, NEW s
  PROVE  /\ Abstract!EvaluateThrows(t, s) = EvaluateThrows(t, s)
         /\ Abstract!NextStates(t, s, State) = NextStates(t, s, State)
         /\ Abstract!NoError = NoError
BY DEF Abstract!EvaluateThrows, EvaluateThrows, Abstract!Thrown, Thrown,
       Abstract!Violated, Violated, Abstract!Disallowed, Disallowed,
       Abstract!Unknowns, Unknowns, Abstract!NextStates, NextStates,
       Abstract!Deadlock, Deadlock, Abstract!NoError, NoError,
       Abstract!PropertyViolation, PropertyViolation, Abstract!Simulation,
       Simulation

(* The abstract search starts with the same states.                        *)
LEMMA AbstractInit == Init => Abstract!Init
<1> SUFFICES ASSUME Init PROVE Abstract!Init
  OBVIOUS
<1> USE DEF Init, EvalInit
<1>1. TypeOK /\ SearchInv
  BY InitEstablishes
<1>2. Len(start) \in Nat /\ DOMAIN start = 1 .. Len(start)
  BY <1>1, LenProperties DEF TypeOK
<1>3. DOMAIN parents = Range(start) /\ Range(current_states) = Range(start)
  BY DEF Range
<1>4. Evaluated = {}
  BY <1>2, <1>3 DEF Evaluated
<1>5. Outcome = "running"
  BY DEF Outcome
<1> QED
  BY <1>3, <1>4, <1>5, SameEvaluation
     DEF Abstract!Init, Abstract!Range, Range, Abstract!NoError, NoError

(* Evaluating the head of the queue is exploring it, or nothing at all     *)
(* when it is a start state that was queued twice.                         *)
LEMMA EvaluateRefines ==
  ASSUME TypeOK, SearchInv, QueueInv, Evaluate
  PROVE  [Abstract!Next]_(Abstract!vars)
<1> DEFINE s == Head(current_states)
           frontier == DOMAIN parents \ Evaluated
<1>1. /\ UNCHANGED <<ts, start, phase, error>>
      /\ phase = "search"
      /\ EvaluateThrows(ts, s) = NoError
      /\ DOMAIN parents' = DOMAIN parents \cup Unseen
  BY DEF Evaluate, Visit, traceVars
<1>2. Outcome = "running" /\ Outcome' = "running"
  BY <1>1 DEF Outcome
<1>3. Evaluated' = Evaluated \cup {s}
  BY EvaluatedGrows
<1>4. /\ Evaluated \subseteq DOMAIN parents
      /\ s \in Evaluated => NextStates(ts, s, State) \subseteq DOMAIN parents
  BY EvaluatedProperties
<1>5. s \in DOMAIN parents /\ s \in State
  <2>1. s \in Range(current_states)
    BY RangeOfTail DEF Evaluate, Visit, TypeOK
  <2> QED
    BY <2>1 DEF SearchInv, TypeOK
<1>6. /\ Unseen \subseteq NextStates(ts, s, State)
      /\ NextStates(ts, s, State) \subseteq DOMAIN parents \cup Unseen
      /\ Unseen \cap DOMAIN parents = {}
  BY DEF Unseen
<1>7. CASE s \in Evaluated
  <2>1. Unseen = {}
    BY <1>4, <1>6, <1>7
  <2>2. Evaluated' = Evaluated /\ DOMAIN parents' = DOMAIN parents
    BY <1>1, <1>3, <1>7, <2>1
  <2> QED
    BY <1>1, <1>2, <2>2 DEF Abstract!vars
<1>8. CASE s \notin Evaluated
  <2>1. Evaluated \cup frontier = DOMAIN parents
    BY <1>4
  <2>2. frontier' = (frontier \ {s}) \cup Unseen
    BY <1>1, <1>3, <1>4, <1>5, <1>6
  <2>3. Unseen \in SUBSET (NextStates(ts, s,
          State) \ (Evaluated \cup frontier))
    BY <1>6, <2>1
  <2>4. \A t \in NextStates(ts, s, State) :
          \E u \in (Evaluated \cup frontier) \cup Unseen :
            [x \in State |-> x][t] = [x \in State |-> x][u]
    BY <1>6, <2>1
  <2>5. Abstract!Explore(s)
    BY <1>1, <1>2, <1>3, <1>5, <1>8, <2>2, <2>3, <2>4, SameEvaluation
       DEF Abstract!Explore, Abstract!Found
  <2> QED
    BY <1>5, <2>5 DEF Abstract!Next
<1> QED
  BY <1>7, <1>8

(* An evaluation that throws fails the abstract search with that error.    *)
LEMMA CatchErrorRefines ==
  ASSUME TypeOK, SearchInv, QueueInv, CatchError
  PROVE  [Abstract!Next]_(Abstract!vars)
<1> DEFINE s == Head(current_states)
<1>1. /\ UNCHANGED <<ts, start, current_states, num_visited_states, parents>>
      /\ phase = "search" /\ phase' = "walk"
      /\ EvaluateThrows(ts, s) # NoError
      /\ error' = EvaluateThrows(ts, s)
  BY DEF CatchError, Catch
<1>2. Outcome = "running" /\ Outcome' = "failed"
  BY <1>1 DEF Outcome
<1>3. s \in DOMAIN parents /\ s \in State
  <2>1. s \in Range(current_states)
    BY RangeOfTail DEF CatchError, Catch, TypeOK
  <2> QED
    BY <2>1 DEF SearchInv, TypeOK
<1>4. s \notin Evaluated
  BY <1>1, EvaluatedProperties
<1>5. Evaluated' = Evaluated /\ DOMAIN parents' = DOMAIN parents
  BY <1>1 DEF Evaluated
<1>6. Abstract!Fail(s)
  BY <1>1, <1>2, <1>3, <1>4, <1>5, SameEvaluation DEF Abstract!Fail
<1> QED
  BY <1>3, <1>6 DEF Abstract!Next

(* The search returns when every state found was evaluated, or when a      *)
(* monitor asked to stop.                                                  *)
LEMMA ReturnRefines ==
  ASSUME TypeOK, SearchInv, QueueInv, Return \/ MonitorReturnsFalse,
         UNCHANGED parents
  PROVE  [Abstract!Next]_(Abstract!vars)
<1>1. /\ UNCHANGED <<ts, start, current_states, num_visited_states, error>>
      /\ phase = "search" /\ phase' = "returned"
  BY DEF Return, MonitorReturnsFalse, searchVars, traceVars
<1>2. Evaluated' = Evaluated /\ DOMAIN parents' = DOMAIN parents
  BY <1>1 DEF Evaluated
<1>3. Outcome = "running"
  BY <1>1 DEF Outcome
<1>4. CASE Evaluated = DOMAIN parents
  <2>1. Outcome' = "complete"
    BY <1>1, <1>2, <1>4 DEF Outcome
  <2> QED
    BY <1>1, <1>2, <1>3, <1>4, <2>1 DEF Abstract!Complete, Abstract!Next
<1>5. CASE Evaluated # DOMAIN parents
  <2>1. Outcome' = "stopped"
    BY <1>1, <1>2, <1>5 DEF Outcome
  <2>2. MonitorStops
    <3>1. CASE Return
      <4>1. Range(current_states) = {}
        <5>1. Len(current_states) = 0 /\ DOMAIN current_states = 1 .. 0
          BY <3>1, EmptySeq, LenProperties DEF Return, TypeOK
        <5> QED
          BY <5>1 DEF Range
      <4> QED
        BY <1>5, <4>1, EvaluatedProperties DEF Evaluated
    <3> QED
      BY <3>1 DEF MonitorReturnsFalse
  <2> QED
    BY <1>1, <1>2, <1>3, <2>1, <2>2 DEF Abstract!Stop, Abstract!Next
<1> QED
  BY <1>4, <1>5

(* Building a trace is no step of the abstract search.                     *)
LEMMA TraceStutters ==
  ASSUME \/ WalkToParent \/ WalkToStart
         \/ MakeTraceFromHashTrace /\ UNCHANGED parents
         \/ UNCHANGED vars
  PROVE  UNCHANGED Abstract!vars
<1>1. /\ UNCHANGED <<ts, start, current_states, num_visited_states, parents,
                     error>>
      /\ \/ phase' = phase
         \/ {phase, phase'} \cap {"search", "returned"} = {}
  BY DEF vars, evalVars, searchVars, traceVars, WalkToParent, WalkOn,
         WalkToStart, WalkEnds, MakeTraceFromHashTrace, Rebuild,
         RebuildAborts, RebuildThrows, RebuildEnds
<1>2. Evaluated' = Evaluated /\ Outcome' = Outcome
  <2>1. Evaluated' = Evaluated
    BY <1>1 DEF Evaluated
  <2> QED
    BY <1>1, <2>1 DEF Outcome
<1> QED
  BY <1>1, <1>2 DEF Abstract!vars

-----------------------------------------------------------------------------
(***************************************************************************)
(* Breadth first: the queue is sorted by the distance from the start states.*)
(***************************************************************************)
(* lev is a distance from the start states along the parents; the queue is *)
(* sorted by it and spans two levels at most; what is off the queue is on  *)
(* no higher level than the queue, and no step from there skips a level.   *)
Levels(lev) ==
  /\ lev \in [DOMAIN parents -> Nat]
  /\ \A s \in Starts : parents[s] = NoParent
  /\ \A s \in DOMAIN parents :
       IF parents[s] = NoParent THEN lev[s] = 0
                                ELSE lev[s] = lev[parents[s]] + 1
  /\ \A i, j \in 1 .. Len(current_states) : i <= j =>
       /\ lev[current_states[i]] <= lev[current_states[j]]
       /\ lev[current_states[j]] <= lev[current_states[i]] + 1
  /\ \A s \in DOMAIN parents \ Range(current_states) :
       /\ \A i \in 1 .. Len(current_states) : lev[s] <= lev[current_states[i]]
       /\ \A n \in NextStates(ts, s, State) : lev[n] <= lev[s] + 1

(* Once each, nearer ones first: the accepting states off the queue.       *)
ResultByLevel(lev) ==
  phase \in {"search", "returned"} /\ StartsDistinct =>
    /\ Range(result) = (DOMAIN parents \ Range(current_states)) \cap ts.accept
    /\ \A i, j \in DOMAIN result : i < j =>
         result[i] # result[j] /\ lev[result[i]] <= lev[result[j]]

(* Every parent was evaluated without error.                               *)
ParentsPass ==
  \A s \in DOMAIN parents : parents[s] # NoParent =>
    EvaluateThrows(ts, parents[s]) = NoError

(* The walk leads from the head of the queue to a start state.             *)
WalkByLevel(lev) ==
  /\ phase = "search" => hash_trace = <<>>
  /\ phase = "walk" =>
       Len(hash_trace) + lev[walk] = lev[Head(current_states)]
  /\ phase \in {"rebuild", "threw"} =>
       Len(hash_trace) = lev[Head(current_states)] + 1

LevelInv ==
  \E lev \in [DOMAIN parents -> Nat] :
    Levels(lev) /\ ResultByLevel(lev) /\ WalkByLevel(lev)

(* All start states are at level 0.                                        *)
LEMMA LevelsInit ==
  ASSUME Init
  PROVE  LevelInv /\ ParentsPass
<1> USE DEF Init, EvalInit
<1>1. TypeOK
  BY InitEstablishes
<1>2. /\ Len(start) \in Nat /\ DOMAIN start = 1 .. Len(start)
      /\ current_states = start
      /\ Starts = {start[i] : i \in 1 .. Len(start)}
  BY <1>1, StartProperties DEF TypeOK
<1> DEFINE lev == [s \in DOMAIN parents |-> 0]
<1>3. Starts = Range(start) /\ DOMAIN parents = Starts
  BY DEF Starts
<1>4. \A i \in 1 .. Len(start) : start[i] \in DOMAIN parents
  BY <1>2, <1>3
<1>5. \A s \in DOMAIN parents : parents[s] = NoParent
  BY <1>3
<1>6. Levels(lev)
  BY <1>2, <1>3, <1>4, <1>5 DEF Levels
<1>7. ResultByLevel(lev)
  <2>1. result = <<>> /\ Range(result) = {}
    BY DEF Range
  <2> QED
    BY <1>2, <1>3, <2>1 DEF ResultByLevel
<1>8. WalkByLevel(lev)
  BY DEF WalkByLevel
<1> QED
  BY <1>5, <1>6, <1>7, <1>8 DEF LevelInv, ParentsPass

(* Queueing the next states one level up keeps the levels.                 *)
LEMMA LevelsEvaluate ==
  ASSUME TypeOK, SearchInv, Evaluate, NEW lev, Levels(lev),
         NEW lev2, lev2 = [s \in DOMAIN parents' |->
                   IF s \in DOMAIN parents THEN lev[s]
                                           ELSE lev[Head(current_states)] + 1]
  PROVE  Levels(lev2)'
<1> DEFINE n == Len(current_states)
           s == Head(current_states)
<1>1. UNCHANGED <<ts, start>> /\ Starts' = Starts
  BY DEF Evaluate, Visit, Starts
<1>2. /\ s = current_states[1]
      /\ n \in Nat \ {0}
      /\ Len(current_states') \in Nat
      /\ \A i \in 1 .. n - 1 : current_states'[i] = current_states[i + 1]
      /\ \A i \in n .. Len(current_states') : current_states'[i] \in Unseen
  BY QueueAfterEvaluate
<1>3. /\ \A t : t \in Range(current_states) <=>
           \E i \in 1 .. n : t = current_states[i]
      /\ DOMAIN parents' = DOMAIN parents \cup Unseen
      /\ Unseen \cap DOMAIN parents = {}
      /\ s \in DOMAIN parents
      /\ DOMAIN parents' \ Range(current_states')
           \subseteq (DOMAIN parents \ Range(current_states)) \cup {s}
  BY QueueRange
<1>4. /\ \A t \in DOMAIN parents : parents'[t] = parents[t]
      /\ \A t \in Unseen : parents'[t] = s
      /\ s # NoParent
  BY <1>3, NoParentAssumption DEF Evaluate, TypeOK
<1>5. /\ \A i \in 1 .. n : current_states[i] \in DOMAIN parents
      /\ \A t \in DOMAIN parents :
           parents[t] # NoParent => parents[t] \in DOMAIN parents
      /\ \A t \in DOMAIN parents \ Range(current_states) :
           NextStates(ts, t, State) \subseteq DOMAIN parents
      /\ Starts \subseteq DOMAIN parents
  BY <1>3 DEF SearchInv
<1>6. lev \in [DOMAIN parents -> Nat]
  BY DEF Levels
<1>7. lev2 \in [DOMAIN parents' -> Nat]
  BY <1>3, <1>6
<1>8. /\ \A t \in DOMAIN parents : lev2[t] = lev[t]
      /\ \A t \in Unseen : lev2[t] = lev[s] + 1
  BY <1>3
<1>9. \A t \in Starts' : parents'[t] = NoParent
  BY <1>1, <1>4, <1>5 DEF Levels
<1>10. ASSUME NEW t \in DOMAIN parents'
       PROVE  IF parents'[t] = NoParent THEN lev2[t] = 0
                                        ELSE lev2[t] = lev2[parents'[t]] + 1
  <2>1. CASE t \in DOMAIN parents
    BY <1>4, <1>5, <1>8, <2>1 DEF Levels
  <2>2. CASE t \in Unseen
    BY <1>3, <1>4, <1>8, <2>2
  <2> QED
    BY <1>3, <2>1, <2>2
<1>11. \A i \in 1 .. n : /\ lev[s] <= lev[current_states[i]]
                         /\ lev[current_states[i]] <= lev[s] + 1
                         /\ lev[current_states[i]] \in Nat
  BY <1>2, <1>5, <1>6 DEF Levels
<1>12. ASSUME NEW i \in 1 .. Len(current_states')
       PROVE  \/ /\ i \in 1 .. n - 1 /\ i + 1 \in 1 .. n
                 /\ current_states'[i] = current_states[i + 1]
                 /\ lev2[current_states'[i]] = lev[current_states[i + 1]]
              \/ /\ i \in n .. Len(current_states')
                 /\ lev2[current_states'[i]] = lev[s] + 1
  <2>1. CASE i \in 1 .. n - 1
    <3>1. i + 1 \in 1 .. n /\ current_states'[i] = current_states[i + 1]
      BY <1>2, <2>1
    <3> QED
      BY <1>5, <1>8, <2>1, <3>1
  <2>2. CASE i \in n .. Len(current_states')
    BY <1>2, <1>8, <2>2
  <2> QED
    BY <1>2, <2>1, <2>2
<1>13. ASSUME NEW i \in 1 .. Len(current_states'),
              NEW j \in 1 .. Len(current_states'), i <= j
       PROVE  /\ lev2[current_states'[i]] <= lev2[current_states'[j]]
              /\ lev2[current_states'[j]] <= lev2[current_states'[i]] + 1
  <2>0. lev[s] \in Nat
    BY <1>3, <1>6
  <2>1. CASE i \in 1 .. n - 1 /\ j \in 1 .. n - 1
    <3>1. i + 1 \in 1 .. n /\ j + 1 \in 1 .. n /\ i + 1 <= j + 1
      BY <1>2, <1>13, <2>1
    <3>2. /\ lev2[current_states'[i]] = lev[current_states[i + 1]]
          /\ lev2[current_states'[j]] = lev[current_states[j + 1]]
      BY <1>2, <1>12, <2>1
    <3> QED
      BY <3>1, <3>2 DEF Levels
  <2>2. CASE i \in 1 .. n - 1 /\ j \notin 1 .. n - 1
    <3>1. /\ i + 1 \in 1 .. n
          /\ lev2[current_states'[i]] = lev[current_states[i + 1]]
          /\ lev2[current_states'[j]] = lev[s] + 1
      BY <1>2, <1>12, <2>2
    <3> QED
      BY <1>11, <2>0, <3>1
  <2>3. CASE i \notin 1 .. n - 1
    <3>1. /\ lev2[current_states'[i]] = lev[s] + 1
          /\ lev2[current_states'[j]] = lev[s] + 1
      BY <1>2, <1>12, <1>13, <2>3
    <3> QED
      BY <2>0, <3>1
  <2> QED
    BY <2>1, <2>2, <2>3
<1>14. ASSUME NEW t \in DOMAIN parents' \ Range(current_states')
       PROVE  /\ \A i \in 1 .. Len(current_states') :
                   lev2[t] <= lev2[current_states'[i]]
              /\ \A m \in NextStates(ts', t, State) : lev2[m] <= lev2[t] + 1
  <2>1. t \in DOMAIN parents \ Range(current_states) \/ t = s
    BY <1>3
  <2>2. t \in DOMAIN parents /\ lev[t] \in Nat /\ lev2[t] = lev[t]
    BY <1>3, <1>6, <1>8, <2>1
  <2>3. \A i \in 1 .. n : lev[t] <= lev[current_states[i]]
    BY <1>11, <2>1 DEF Levels
  <2>4. lev[t] <= lev[s] /\ lev[s] \in Nat
    BY <1>2, <1>3, <1>6, <2>3
  <2>5. \A i \in 1 .. Len(current_states') :
          lev2[t] <= lev2[current_states'[i]]
    BY <1>12, <2>2, <2>3, <2>4
  <2>6. CASE t \in DOMAIN parents \ Range(current_states)
    <3>1. \A m \in NextStates(ts, t, State) : m \in DOMAIN parents
            /\ lev[m] <= lev[t] + 1
      BY <1>5, <2>6 DEF Levels
    <3> QED
      BY <1>1, <1>8, <2>2, <2>5, <3>1
  <2>7. CASE t = s
    <3>1. ASSUME NEW m \in NextStates(ts, s, State)
                   PROVE lev2[m] <= lev[s] + 1
      <4>1. m \in DOMAIN parents \/ m \in Unseen
        BY DEF Unseen
      <4>2. CASE m \in Unseen
        BY <1>8, <2>4, <4>2
      <4>3. CASE m \in DOMAIN parents
        <5>1. CASE m \in Range(current_states)
          BY <1>3, <1>8, <1>11, <4>3, <5>1
        <5>2. CASE m \notin Range(current_states)
          <6>1. lev[m] <= lev[current_states[1]] /\ lev[m] \in Nat
            BY <1>2, <1>6, <4>3, <5>2 DEF Levels
          <6> QED
            BY <1>2, <1>8, <2>4, <4>3, <6>1
        <5> QED
          BY <5>1, <5>2
      <4> QED
        BY <4>1, <4>2, <4>3
    <3> QED
      BY <1>1, <2>2, <2>5, <2>7, <3>1
  <2> QED
    BY <2>1, <2>6, <2>7
<1> QED
  BY <1>7, <1>9, <1>10, <1>13, <1>14 DEF Levels

(* Distinct start states are queued once, so no state is ever queued twice.*)
LEMMA QueueDistinct ==
  ASSUME TypeOK, QueueInv, StartsDistinct
  PROVE  \A i, j \in 1 .. Len(current_states) :
           current_states[i] = current_states[j] => i = j
<1> DEFINE D == 1 .. Len(start)
           n == Len(current_states)
<1>1. Len(start) \in Nat /\ DOMAIN start = D /\ Starts = {start[i] : i \in D}
  BY StartProperties DEF TypeOK
<1>2. \A i, j \in D : start[i] = start[j] => i = j
  <2>1. start \in [D -> Starts]
    <3>1. start = [i \in D |-> start[i]]
      BY <1>1 DEF TypeOK
    <3> QED
      BY <1>1, <3>1
  <2>2. start \in Surjection(D, Starts)
    BY <1>1, <2>1 DEF Surjection
  <2>3. IsFiniteSet(D) /\ Cardinality(D) = Len(start)
    <3>1. /\ IsFiniteSet(1 .. Len(start))
          /\ Cardinality(1 .. Len(start)) =
               IF 1 > Len(start) THEN 0 ELSE Len(start) - 1 + 1
      BY <1>1, FS_Interval
    <3> QED
      BY <1>1, <3>1
  <2>4. start \in Injection(D, Starts)
    BY <2>2, <2>3, FS_Surjection DEF StartsDistinct
  <2> QED
    BY <2>4 DEF Injection, IsInjective
<1>3. /\ n \in Nat /\ num_visited_states \in Nat
      /\ StartsLeft \in Nat /\ StartsLeft <= n
      /\ \A i \in 1 .. StartsLeft : num_visited_states + i \in D
  BY <1>1, LenProperties DEF TypeOK, StartsLeft, QueueInv
<1>4. ASSUME NEW i \in 1 .. n, NEW j \in 1 .. n,
             current_states[i] = current_states[j]
      PROVE  i = j
  <2>1. CASE i > StartsLeft
    BY <1>4, <2>1 DEF QueueInv
  <2>2. CASE j > StartsLeft
    BY <1>4, <2>2 DEF QueueInv
  <2>3. CASE i <= StartsLeft /\ j <= StartsLeft
    <3>1. /\ i \in 1 .. StartsLeft /\ j \in 1 .. StartsLeft
          /\ start[num_visited_states + i] = start[num_visited_states + j]
      BY <1>3, <1>4, <2>3 DEF QueueInv
    <3>2. num_visited_states + i = num_visited_states + j
      BY <1>2, <1>3, <3>1
    <3> QED
      BY <1>3, <3>2
  <2> QED
    BY <1>3, <2>1, <2>2, <2>3
<1> QED
  BY <1>4

(* Accepting states are returned as they are evaluated.                    *)
LEMMA ResultEvaluate ==
  ASSUME TypeOK, SearchInv, QueueInv, Evaluate,
         NEW lev, Levels(lev), ResultByLevel(lev),
         NEW lev2, \A t \in DOMAIN parents : lev2[t] = lev[t]
  PROVE  ResultByLevel(lev2)'
<1> SUFFICES ASSUME StartsDistinct
             PROVE  /\ Range(result')
                         = (DOMAIN parents' \ Range(current_states'))
                                          \cap ts.accept
                    /\ \A i, j \in DOMAIN result' : i < j =>
                         /\ result'[i] # result'[j]
                         /\ lev2[result'[i]] <= lev2[result'[j]]
  BY DEF ResultByLevel, StartsDistinct, Starts, Evaluate, Visit
<1> DEFINE n == Len(current_states)
           s == Head(current_states)
           off == DOMAIN parents \ Range(current_states)
<1>1. phase = "search" /\ result' = Accepting(s)
  BY DEF Evaluate, Visit
<1>2. /\ s = current_states[1] /\ n \in Nat \ {0} /\ s \in State
  BY QueueAfterEvaluate
<1>3. /\ \A t : t \in Range(current_states') <=>
              \/ t \in Unseen
              \/ \E i \in 2 .. n : t = current_states[i]
      /\ \A t : t \in Range(current_states) <=>
              \E i \in 1 .. n : t = current_states[i]
      /\ DOMAIN parents' = DOMAIN parents \cup Unseen
      /\ Unseen \cap DOMAIN parents = {}
      /\ s \in DOMAIN parents
      /\ off \subseteq DOMAIN parents' \ Range(current_states')
      /\ DOMAIN parents' \ Range(current_states') \subseteq off \cup {s}
  BY QueueRange
<1>4. s \in Range(current_states) /\ s \notin Range(current_states')
  <2>1. \A i \in 2 .. n : current_states[i] # s
    <3>1. \A i \in 2 .. n : i \in 1 .. n /\ 1 \in 1 .. n /\ i # 1
      BY <1>2
    <3> QED
      BY <1>2, <3>1, QueueDistinct
  <2> QED
    BY <1>2, <1>3, <2>1
<1>5. DOMAIN parents' \ Range(current_states') = off \cup {s}
  BY <1>3, <1>4
<1>6. /\ Range(result) = off \cap ts.accept
      /\ \A i, j \in DOMAIN result : i < j =>
           result[i] # result[j] /\ lev[result[i]] <= lev[result[j]]
  BY <1>1 DEF ResultByLevel
<1>7. /\ result \in Seq(State) /\ Len(result) \in Nat
      /\ DOMAIN result = 1 .. Len(result)
  BY LenProperties DEF TypeOK
<1>8. \A i \in DOMAIN result : result[i] \in off
  BY <1>6 DEF Range
<1>9. CASE s \notin ts.accept
  <2>1. result' = result
    BY <1>1, <1>9 DEF Accepting
  <2> QED
    BY <1>5, <1>6, <1>8, <1>9, <2>1
<1>10. CASE s \in ts.accept
  <2>1. /\ result' = Append(result, s)
        /\ result' \in Seq(State)
        /\ Len(result') = Len(result) + 1
        /\ \A i \in 1 .. Len(result) : result'[i] = result[i]
        /\ result'[Len(result) + 1] = s
    <3>1. result' = Append(result, s)
      BY <1>1, <1>10 DEF Accepting
    <3> QED
      BY <1>2, <1>7, <3>1, AppendProperties
  <2>2. DOMAIN result' = 1 .. Len(result) + 1
    BY <2>1, LenProperties
  <2>3. Range(result') = Range(result) \cup {s}
    BY <1>7, <2>1, <2>2 DEF Range
  <2>4. \A i \in 1 .. Len(result) : /\ result[i] # s
                                    /\ lev2[result[i]] = lev[result[i]]
                                    /\ lev[result[i]] <= lev2[s]
    <3>1. \A t \in off : lev[t] <= lev[s]
      BY <1>2 DEF Levels
    <3> QED
      BY <1>3, <1>4, <1>7, <1>8, <3>1
  <2>5. ASSUME NEW i \in DOMAIN result', NEW j \in DOMAIN result', i < j
        PROVE  result'[i] # result'[j] /\ lev2[result'[i]] <= lev2[result'[j]]
    <3>1. i \in 1 .. Len(result) /\ result'[i] = result[i]
      BY <1>7, <2>1, <2>2, <2>5
    <3>2. CASE j \in 1 .. Len(result)
      BY <1>6, <1>7, <2>1, <2>4, <2>5, <3>1, <3>2
    <3>3. CASE j = Len(result) + 1
      BY <2>1, <2>4, <3>1, <3>3
    <3> QED
      BY <1>7, <2>2, <3>2, <3>3
  <2> QED
    BY <1>5, <1>6, <1>10, <2>3, <2>5
<1> QED
  BY <1>9, <1>10

(* The successors found are one level below the state evaluated.           *)
LEMMA LevelInvEvaluate ==
  ASSUME TypeOK, SearchInv, QueueInv, ParentsPass, LevelInv, Evaluate
  PROVE  LevelInv' /\ ParentsPass'
<1>1. PICK lev \in [DOMAIN parents -> Nat] :
        Levels(lev) /\ ResultByLevel(lev) /\ WalkByLevel(lev)
  BY DEF LevelInv
<1> DEFINE s == Head(current_states)
<1> PICK lev2 : lev2 = [t \in DOMAIN parents' |->
                          IF t \in DOMAIN parents THEN lev[t] ELSE lev[s] + 1]
  OBVIOUS
<1>2. /\ DOMAIN parents' = DOMAIN parents \cup Unseen
      /\ Unseen \cap DOMAIN parents = {}
      /\ s \in DOMAIN parents
  BY QueueRange
<1>3. /\ lev2 \in [DOMAIN parents' -> Nat]
      /\ \A t \in DOMAIN parents : lev2[t] = lev[t]
  <2>1. lev[s] + 1 \in Nat
    BY <1>2
  <2> QED
    BY <1>2, <2>1
<1>4. Levels(lev2)'
  BY <1>1, LevelsEvaluate
<1>5. ResultByLevel(lev2)'
  BY <1>1, <1>3, ResultEvaluate
<1>6. WalkByLevel(lev2)'
  <2>1. phase = "search" /\ phase' = "search" /\ hash_trace' = hash_trace
    BY DEF Evaluate, Visit, traceVars
  <2> QED
    BY <1>1, <2>1 DEF WalkByLevel
<1>7. LevelInv'
  BY <1>3, <1>4, <1>5, <1>6 DEF LevelInv
<1>8. ParentsPass'
  BY <1>2 DEF ParentsPass, Evaluate, Visit
<1> QED
  BY <1>7, <1>8

(* The other steps leave the levels alone; each step of the walk goes down *)
(* one level.                                                              *)
LEMMA LevelInvKept ==
  ASSUME TypeOK, SearchInv, ParentsPass, LevelInv, [Next]_vars, ~Evaluate
  PROVE  LevelInv' /\ ParentsPass'
<1>1. UNCHANGED <<ts, start, current_states, num_visited_states, parents>>
  BY OnlyEvaluateSearches
<1>2. PICK lev \in [DOMAIN parents -> Nat] :
        Levels(lev) /\ ResultByLevel(lev) /\ WalkByLevel(lev)
  BY DEF LevelInv
<1>3. ParentsPass'
  BY <1>1 DEF ParentsPass
<1>4. Levels(lev)'
  BY <1>1, <1>2 DEF Levels, Starts
<1>5. ResultByLevel(lev)'
  <2>1. phase' \in {"search", "returned"} =>
          phase \in {"search", "returned"} /\ result' = result
    BY DEF Next, vars, evalVars, searchVars, CatchError, Catch, Return,
           MonitorReturnsFalse, WalkToParent, WalkOn, WalkToStart, WalkEnds,
           MakeTraceFromHashTrace, Rebuild, RebuildAborts, RebuildThrows,
           RebuildEnds
  <2> QED
    BY <1>1, <1>2, <2>1 DEF ResultByLevel, StartsDistinct, Starts
<1>6. Len(hash_trace) \in Nat /\ hash_trace \in Seq(HashVal)
  BY LenProperties DEF TypeOK
<1>7. WalkByLevel(lev)'
  <2>1. CASE CatchError
    <3>1. /\ hash_trace' = <<>> /\ walk' = Head(current_states)
          /\ phase' = "walk"
      BY <1>2, <2>1 DEF CatchError, Catch, WalkByLevel
    <3>2. Head(current_states) \in DOMAIN parents
      <4>1. Head(current_states) \in Range(current_states)
        BY <2>1, RangeOfTail DEF CatchError, Catch, TypeOK
      <4> QED
        BY <4>1 DEF SearchInv
    <3>3. Len(hash_trace') + lev[walk'] = lev[Head(current_states)]
      BY <1>2, <3>1, <3>2
    <3> QED
      BY <1>1, <3>1, <3>3 DEF WalkByLevel
  <2>2. CASE WalkToParent
    <3>1. /\ phase = "walk" /\ phase' = "walk"
          /\ hash_trace' = Append(hash_trace, ts.hash[walk])
          /\ walk' = parents[walk] /\ parents[walk] # NoParent
      BY <2>2 DEF WalkToParent, WalkOn
    <3>2. walk \in DOMAIN parents /\ parents[walk] \in DOMAIN parents
      BY <3>1 DEF SearchInv
    <3>3. Len(hash_trace') = Len(hash_trace) + 1
      <4>1. ts.hash[walk] \in HashVal
        BY DEF TypeOK, TransitionSystems, SystemsOver
      <4> QED
        BY <1>6, <3>1, <4>1, AppendProperties
    <3>4. /\ lev[walk] = lev[walk'] + 1 /\ lev[walk'] \in Nat
          /\ Len(hash_trace) + lev[walk] = lev[Head(current_states)]
      BY <1>2, <3>1, <3>2 DEF Levels, WalkByLevel
    <3>5. Len(hash_trace') + lev[walk'] = lev[Head(current_states)]
      <4>1. lev[walk] \in Nat /\ Len(hash_trace') \in Nat
        BY <1>6, <3>3, <3>4
      <4> PICK a, b, c, d : /\ a = Len(hash_trace) /\ b = lev[walk]
                            /\ c = Len(hash_trace') /\ d = lev[walk']
        OBVIOUS
      <4>2. a \in Nat /\ d \in Nat /\ b = d + 1 /\ c = a + 1
        BY <1>6, <3>3, <3>4
      <4>3. c + d = a + b
        BY <4>2
      <4> QED
        BY <3>4, <4>3
    <3> QED
      BY <1>1, <3>1, <3>5 DEF WalkByLevel
  <2>3. CASE WalkToStart
    <3>1. /\ phase = "walk" /\ phase' \in {"rebuild", "threw_hash"}
          /\ hash_trace' = Append(hash_trace, ts.hash[walk])
          /\ parents[walk] = NoParent
      BY <2>3 DEF WalkToStart, WalkEnds
    <3>2. walk \in DOMAIN parents
      BY <3>1 DEF SearchInv
    <3>3. Len(hash_trace') = Len(hash_trace) + 1
      <4>1. ts.hash[walk] \in HashVal
        BY DEF TypeOK, TransitionSystems, SystemsOver
      <4> QED
        BY <1>6, <3>1, <4>1, AppendProperties
    <3>4. lev[walk] = 0
            /\ Len(hash_trace) + lev[walk] = lev[Head(current_states)]
      BY <1>2, <3>1, <3>2 DEF Levels, WalkByLevel
    <3>5. Len(hash_trace') = lev[Head(current_states)] + 1
      BY <1>6, <3>3, <3>4
    <3> QED
      BY <1>1, <3>1, <3>5 DEF WalkByLevel
  <2>4. CASE /\ ~CatchError /\ ~WalkToParent /\ ~WalkToStart
    <3>1. /\ hash_trace' = hash_trace /\ walk' = walk
          /\ \/ phase' = phase
             \/ phase = "rebuild"
             \/ phase' = "returned"
      BY <2>4 DEF Next, vars, evalVars, traceVars, searchVars, Return,
           MonitorReturnsFalse, MakeTraceFromHashTrace, Rebuild,
           RebuildAborts, RebuildThrows, RebuildEnds
    <3>2. phase = "rebuild" => phase' \notin {"search", "walk"}
      BY <2>4 DEF Next, vars, evalVars, traceVars, searchVars, Return,
           MonitorReturnsFalse, MakeTraceFromHashTrace, Rebuild,
           RebuildAborts, RebuildThrows, RebuildEnds
    <3> QED
      BY <1>1, <1>2, <3>1, <3>2 DEF WalkByLevel
  <2> QED
    BY <2>1, <2>2, <2>3, <2>4
<1> QED
  BY <1>1, <1>2, <1>3, <1>4, <1>5, <1>7 DEF LevelInv

(* The invariant of the levels.                                            *)
LEMMA LevelInvariance == Spec => [](LevelInv /\ ParentsPass)
<1>1. Init => LevelInv /\ ParentsPass
  BY LevelsInit
<1>2. TypeOK /\ SearchInv /\ QueueInv /\ (LevelInv /\ ParentsPass)
        /\ [Next]_vars
        => (LevelInv /\ ParentsPass)'
  BY LevelInvEvaluate, LevelInvKept
<1> QED
  BY <1>1, <1>2, Invariance, QueueInvariance, PTL DEF Spec

(* The recursion that defines the states within k steps.                   *)
Ball(k, f) ==
  f = [i \in 0 .. k |->
         IF i = 0 THEN Starts
         ELSE f[i - 1] \cup UNION {NextStates(ts, s, State) : s \in f[i - 1]}]

(* It has a solution for every k.                                          *)
LEMMA BallExists ==
  ASSUME NEW k \in Nat
  PROVE  \E f : Ball(k, f)
<1> DEFINE Bad == {m \in Nat : ~ \E f : Ball(m, f)}
<1> SUFFICES ASSUME Bad # {} PROVE FALSE
  OBVIOUS
<1>1. PICK m \in Bad : \A j \in Bad : m <= j
  BY LeastNatural
<1>2. CASE m = 0
  <2>1. Ball(0, [i \in 0 .. 0 |-> Starts])
    BY DEF Ball
  <2> QED
    BY <1>1, <1>2, <2>1
<1>3. CASE m # 0
  <2>1. m - 1 \in Nat /\ ~ (m <= m - 1)
    BY <1>3
  <2>2. PICK f : Ball(m - 1, f)
    BY <1>1, <2>1
  <2> DEFINE step(X) == X \cup UNION {NextStates(ts, s, State) : s \in X}
             g == [i \in 0 .. m |-> IF i = m THEN step(f[m - 1]) ELSE f[i]]
  <2>3. ASSUME NEW i \in 0 .. m
        PROVE  g[i] = IF i = 0 THEN Starts ELSE step(g[i - 1])
    <3>1. CASE i = m
      <4>1. g[i - 1] = f[m - 1] /\ g[i] = step(f[m - 1])
        BY <1>3, <2>1, <3>1
      <4> QED
        BY <1>3, <3>1, <4>1
    <3>2. CASE i # m
      <4>1. i \in 0 .. m - 1 /\ g[i] = f[i]
        BY <2>1, <3>2
      <4>2. f[i] = IF i = 0 THEN Starts ELSE step(f[i - 1])
        BY <2>2, <4>1 DEF Ball
      <4>3. i # 0 => g[i - 1] = f[i - 1]
        BY <2>1, <4>1
      <4> QED
        BY <4>1, <4>2, <4>3
    <3> QED
      BY <3>1, <3>2
  <2>4. g = [i \in 0 .. m |-> IF i = 0 THEN Starts ELSE step(g[i - 1])]
    BY <2>3
  <2>5. Ball(m, g)
    BY <2>4 DEF Ball
  <2> QED
    BY <1>1, <2>5
<1> QED
  BY <1>2, <1>3

(* So Within is what its recursive definition says.                        *)
LEMMA WithinUnfolds ==
  ASSUME NEW k \in Nat
  PROVE  \E f : /\ Within(k) = f[k]
                /\ f[0] = Starts
                /\ \A i \in 1 .. k :
                     f[i] = f[i - 1] \cup
                              UNION {NextStates(ts, s, State) :
                                s \in f[i - 1]}
<1> DEFINE f == CHOOSE f : Ball(k, f)
<1>1. Ball(k, f)
  BY BallExists
<1>2. Within(k) = f[k]
  BY DEF Within, Ball
<1>3. f[0] = Starts
  <2>1. 0 \in 0 .. k
    OBVIOUS
  <2> HIDE DEF f
  <2> QED
    BY <1>1, <2>1 DEF Ball
<1>4. \A i \in 1 .. k :
        f[i] = f[i - 1] \cup UNION {NextStates(ts, s, State) : s \in f[i - 1]}
  <2>1. \A i \in 1 .. k : i \in 0 .. k /\ i # 0
    OBVIOUS
  <2> HIDE DEF f
  <2> QED
    BY <1>1, <2>1 DEF Ball
<1> QED
  BY <1>2, <1>3, <1>4

(* States fewer steps away than the level of the queue are found, off the  *)
(* queue, and on a level not above their distance.                         *)
LEMMA WithinIsOffQueue ==
  ASSUME TypeOK, SearchInv, NEW lev, Levels(lev), NEW k \in Nat,
         current_states = <<>> \/ k < lev[Head(current_states)]
  PROVE  \A s \in Within(k) :
           s \in DOMAIN parents \ Range(current_states) /\ lev[s] <= k
<1> DEFINE off == DOMAIN parents \ Range(current_states)
<1>1. lev \in [DOMAIN parents -> Nat]
  BY DEF Levels
<1>2. ASSUME NEW s \in Range(current_states), NEW i \in 0 .. k
      PROVE  ~ (lev[s] <= i)
  <2>1. /\ DOMAIN current_states = 1 .. Len(current_states)
        /\ Len(current_states) \in Nat
    BY LenProperties DEF TypeOK
  <2>2. PICK j \in 1 .. Len(current_states) : s = current_states[j]
    BY <2>1 DEF Range
  <2>3. current_states # <<>> /\ 1 \in 1 .. Len(current_states) /\ 1 <= j
    BY <2>1, <2>2
  <2>4. Head(current_states) = current_states[1]
    BY <2>3, HeadTailProperties DEF TypeOK
  <2>5. /\ current_states[1] \in DOMAIN parents
        /\ s \in DOMAIN parents
    BY <2>1, <2>2, <2>3 DEF SearchInv, Range
  <2>6. lev[current_states[1]] <= lev[s]
    BY <2>2, <2>3 DEF Levels
  <2>7. lev[s] \in Nat /\ lev[current_states[1]] \in Nat
    BY <1>1, <2>5
  <2> QED
    BY <2>3, <2>4, <2>6, <2>7
<1>3. PICK f : /\ Within(k) = f[k]
               /\ f[0] = Starts
               /\ \A i \in 1 .. k :
                    f[i] = f[i - 1] \cup
                             UNION {NextStates(ts, s, State) : s \in f[i - 1]}
  BY WithinUnfolds
<1> DEFINE Good(i) == \A s \in f[i] : s \in off /\ lev[s] <= i
           Bad == {i \in 0 .. k : ~Good(i)}
<1>4. Good(0)
  <2>1. \A s \in Starts : s \in DOMAIN parents /\ lev[s] = 0
    BY DEF SearchInv, Levels
  <2>2. 0 \in 0 .. k
    OBVIOUS
  <2>3. \A s \in Starts : s \in off /\ lev[s] <= 0
    BY <1>1, <1>2, <2>1, <2>2
  <2> QED
    BY <1>3, <2>3
<1>5. ASSUME NEW i \in 1 .. k, Good(i - 1)
      PROVE  Good(i)
  <2> SUFFICES ASSUME NEW s \in f[i]
               PROVE  s \in off /\ lev[s] <= i
    OBVIOUS
  <2>1. s \in f[i - 1] \/ \E t \in f[i - 1] : s \in NextStates(ts, t, State)
    BY <1>3
  <2>2. s \in DOMAIN parents /\ lev[s] <= i
    <3>1. CASE s \in f[i - 1]
      <4>1. s \in off /\ lev[s] <= i - 1
        BY <1>5, <3>1
      <4>2. lev[s] \in Nat
        BY <1>1, <4>1
      <4> QED
        BY <4>1, <4>2
    <3>2. CASE \E t \in f[i - 1] : s \in NextStates(ts, t, State)
      <4>1. PICK t \in f[i - 1] : s \in NextStates(ts, t, State)
        BY <3>2
      <4>2. t \in off /\ lev[t] <= i - 1
        BY <1>5
      <4>3. s \in DOMAIN parents /\ lev[s] <= lev[t] + 1
        BY <4>1, <4>2 DEF SearchInv, Levels
      <4>4. lev[s] \in Nat /\ lev[t] \in Nat
        BY <1>1, <4>2, <4>3
      <4> QED
        BY <4>2, <4>3, <4>4
    <3> QED
      BY <2>1, <3>1, <3>2
  <2>3. i \in 0 .. k
    OBVIOUS
  <2> QED
    BY <1>2, <2>2, <2>3
<1>6. Bad = {}
  <2> SUFFICES ASSUME Bad # {} PROVE FALSE
    OBVIOUS
  <2>0. Bad \in SUBSET Nat
    OBVIOUS
  <2>1. PICK m \in Bad : \A j \in Bad : m <= j
    <3> HIDE DEF Bad
    <3> QED
      BY <2>0, LeastNatural
  <2>2. m # 0 /\ m \in 1 .. k
    BY <1>4, <2>1
  <2>3. m - 1 \in 0 .. k /\ ~ (m <= m - 1)
    BY <2>2
  <2>4. Good(m - 1)
    BY <2>1, <2>3
  <2> QED
    BY <1>5, <2>1, <2>2, <2>4
<1>7. Good(k)
  <2>1. k \in 0 .. k
    OBVIOUS
  <2> HIDE DEF Good
  <2> QED
    BY <1>6, <2>1
<1> QED
  BY <1>3, <1>7

(* A state on level k is at most k steps away: its parents lead there.     *)
LEMMA LevelIsWithin ==
  ASSUME TypeOK, SearchInv, NEW lev, Levels(lev), NEW k \in Nat
  PROVE  \A s \in DOMAIN parents : lev[s] <= k => s \in Within(k)
<1>1. lev \in [DOMAIN parents -> Nat]
  BY DEF Levels
<1>2. PICK f : /\ Within(k) = f[k]
               /\ f[0] = Starts
               /\ \A i \in 1 .. k :
                    f[i] = f[i - 1] \cup
                             UNION {NextStates(ts, s, State) : s \in f[i - 1]}
  BY WithinUnfolds
<1> DEFINE Good(i) == \A s \in DOMAIN parents : lev[s] <= i => s \in f[i]
           Bad == {i \in 0 .. k : ~Good(i)}
<1>3. Good(0)
  <2> SUFFICES ASSUME NEW s \in DOMAIN parents, lev[s] <= 0
               PROVE  s \in Starts
    BY <1>2
  <2>1. parents[s] = NoParent
    <3>1. lev[s] = 0
      BY <1>1
    <3>2. ASSUME parents[s] # NoParent PROVE FALSE
      <4>1. parents[s] \in DOMAIN parents /\ lev[s] = lev[parents[s]] + 1
        BY <3>2 DEF SearchInv, Levels
      <4>2. lev[parents[s]] \in Nat
        BY <1>1, <4>1
      <4> QED
        BY <3>1, <4>1, <4>2
    <3> QED
      BY <3>2
  <2> QED
    BY <2>1 DEF SearchInv
<1>4. ASSUME NEW i \in 1 .. k, Good(i - 1)
      PROVE  Good(i)
  <2> SUFFICES ASSUME NEW s \in DOMAIN parents, lev[s] <= i
               PROVE  s \in f[i]
    OBVIOUS
  <2>1. CASE parents[s] = NoParent
    <3>1. lev[s] = 0 /\ 0 <= i - 1
      BY <2>1 DEF Levels
    <3>2. s \in f[i - 1]
      BY <1>4, <3>1
    <3> QED
      BY <1>2, <3>2
  <2>2. CASE parents[s] # NoParent
    <3>1. /\ parents[s] \in DOMAIN parents
          /\ s \in NextStates(ts, parents[s], State)
          /\ lev[s] = lev[parents[s]] + 1
      BY <2>2 DEF SearchInv, Levels
    <3>2. lev[parents[s]] \in Nat
      BY <1>1, <3>1
    <3>3. parents[s] \in f[i - 1]
      BY <1>4, <3>1, <3>2
    <3> QED
      BY <1>2, <3>1, <3>3
  <2> QED
    BY <2>1, <2>2
<1>5. Bad = {}
  <2> SUFFICES ASSUME Bad # {} PROVE FALSE
    OBVIOUS
  <2>0. Bad \in SUBSET Nat
    OBVIOUS
  <2>1. PICK m \in Bad : \A j \in Bad : m <= j
    <3> HIDE DEF Bad
    <3> QED
      BY <2>0, LeastNatural
  <2>2. m # 0 /\ m \in 1 .. k
    BY <1>3, <2>1
  <2>3. m - 1 \in 0 .. k /\ ~ (m <= m - 1)
    BY <2>2
  <2>4. Good(m - 1)
    BY <2>1, <2>3
  <2> QED
    BY <1>4, <2>1, <2>2, <2>4
<1>6. Good(k)
  <2>1. k \in 0 .. k
    OBVIOUS
  <2> HIDE DEF Good
  <2> QED
    BY <1>5, <2>1
<1> QED
  BY <1>2, <1>6

-----------------------------------------------------------------------------
(***************************************************************************)
(* The walk from the state that threw back to a start state.               *)
(***************************************************************************)
(* During the walk the hashes are those of a run back to the state reached.*)
WalkInv ==
  phase = "walk" =>
    \E q \in Seq(State) : HashedRun(q, Len(q) - 1) /\ q[Len(q)] = walk

(* Nothing has been walked or rebuilt.                                     *)
LEMMA WalkInvInit == Init => WalkInv /\ RebuildInv
BY DEF Init, EvalInit, WalkInv, RebuildInv

(* Every step keeps the invariant of walk and trace.                       *)
LEMMA WalkInvNext ==
  ASSUME TypeOK, SearchInv, ParentsPass, WalkInv, RebuildInv, [Next]_vars
  PROVE  WalkInv' /\ RebuildInv'
<1>1. /\ hash_trace \in Seq(HashVal) /\ ts.hash \in [State -> HashVal]
      /\ current_states \in Seq(State) /\ start \in Seq(State)
  BY DEF TypeOK, TransitionSystems, SystemsOver
<1>2. CASE Evaluate
  <2>1. phase' = "search" /\ phase = "search" /\ trace' = trace
          /\ hash_trace' = hash_trace
    BY <1>2 DEF Evaluate, Visit, traceVars
  <2> QED
    BY <2>1, NoTraceInSearch DEF WalkInv
<1>3. CASE CatchError
  <2>1. /\ Catch(Head(current_states)) /\ hash_trace = <<>>
        /\ phase = "search" /\ phase' = "walk" /\ trace' = trace
        /\ walk' = Head(current_states)
    BY <1>3 DEF CatchError, Catch, RebuildInv
  <2>2. RebuildInv'
    BY <2>1, NoTraceYet
  <2>3. \E q \in Seq(State) : /\ HashedRun(q, Len(q) - 1)'
                              /\ q[Len(q)] = Head(current_states)
    BY <1>1, <2>1, RunBegins
  <2>4. WalkInv'
    BY <2>1, <2>3 DEF WalkInv
  <2> QED
    BY <2>2, <2>4
<1>4. CASE Return \/ MonitorReturnsFalse
  <2>1. phase = "search" /\ phase' = "returned" /\ trace' = trace
    BY <1>4 DEF Return, MonitorReturnsFalse, traceVars
  <2> QED
    BY <2>1, NoTraceYet DEF WalkInv
<1>5. CASE WalkToParent
  <2>1. /\ phase = "walk" /\ phase' = "walk" /\ trace' = trace
        /\ WalkOn(ts.hash[walk], parents[walk])
        /\ walk' = parents[walk] /\ parents[walk] # NoParent
    BY <1>5 DEF WalkToParent, WalkOn
  <2>2. PICK q \in Seq(State) : HashedRun(q, Len(q) - 1) /\ q[Len(q)] = walk
    BY <2>1 DEF WalkInv
  <2>3. walk \in DOMAIN parents
    BY <2>1 DEF SearchInv
  <2>4. /\ parents[walk] \in State
        /\ walk \in NextStates(ts, parents[walk], State)
        /\ Violated(ts, parents[walk]) = {}
    BY <2>1, <2>3, PassMeansNoViolation DEF SearchInv, ParentsPass, TypeOK
  <2>5. \E r \in Seq(State) : HashedRun(r, Len(r) - 1)'
          /\ r[Len(r)] = parents[walk]
    BY <1>1, <2>1, <2>2, <2>4, RunGrows
  <2>6. WalkInv'
    BY <2>1, <2>5 DEF WalkInv
  <2> QED
    BY <2>1, <2>6, NoTraceYet
<1>6. CASE WalkToStart
  <2>1. /\ phase = "walk" /\ phase' # "walk" /\ WalkEnds(ts.hash[walk])
        /\ parents[walk] = NoParent
    BY <1>6 DEF WalkToStart, WalkEnds
  <2>2. PICK q \in Seq(State) : HashedRun(q, Len(q) - 1) /\ q[Len(q)] = walk
    BY <2>1 DEF WalkInv
  <2>3. walk \in Range(start) /\ trace = <<>>
    BY <2>1 DEF SearchInv, Starts, RebuildInv
  <2>4. RebuildInv'
    <3>1. \E r \in Seq(State) : /\ HashedRun(r, Len(r) - 1)
                                /\ r[Len(r)] \in Range(start)
                                /\ ts.hash[walk] = ts.hash[r[Len(r)]]
      BY <2>2, <2>3
    <3> QED
      BY <1>1, <2>1, <2>3, <3>1, RebuildStarts
  <2> QED
    BY <2>1, <2>4 DEF WalkInv
<1>7. CASE MakeTraceFromHashTrace
  <2>1. RebuildInv'
    BY <1>7, RebuildContinues DEF TypeOK
  <2>2. phase' # "walk"
    BY <1>7 DEF MakeTraceFromHashTrace, Rebuild, RebuildAborts, RebuildThrows,
                RebuildEnds
  <2> QED
    BY <2>1, <2>2 DEF WalkInv
<1>8. CASE UNCHANGED vars
  <2>1. UNCHANGED <<ts, start, phase, current_states, hash_trace, cursor,
                    rebuilt, trace, walk>>
    BY <1>8 DEF vars, evalVars, searchVars, traceVars
  <2>2. RebuildInv'
    BY <2>1, RebuildKept
  <2> QED
    BY <2>1, <2>2 DEF WalkInv, HashedRun
<1> QED
  BY <1>2, <1>3, <1>4, <1>5, <1>6, <1>7, <1>8 DEF Next

(* The invariant of walk and trace.                                        *)
LEMMA WalkInvariance == Spec => [](WalkInv /\ RebuildInv)
<1>1. TypeOK /\ SearchInv /\ ParentsPass /\ (WalkInv /\ RebuildInv)
        /\ [Next]_vars
        => (WalkInv /\ RebuildInv)'
  BY WalkInvNext
<1> QED
  BY <1>1, WalkInvInit, Invariance, LevelInvariance, PTL DEF Spec

-----------------------------------------------------------------------------
(***************************************************************************)
(* The theorems.                                                           *)
(***************************************************************************)
(* Every variable of the search keeps its type.                            *)
THEOREM TypeCorrect == Spec => []TypeOK
BY Invariance, PTL

(* The parents lead back to a start state, the queue and the states found  *)
(* are reachable, and a search that throws does so for a reachable state   *)
(* whose evaluation throws that very error: no false alarm.                *)
THEOREM SearchInvariant == Spec => []SearchInv
BY Invariance, PTL

(* An empty queue has left exactly the reachable states, none in error.    *)
LEMMA EmptyQueueIsExhaustive ==
  ASSUME TypeOK, SearchInv, current_states = <<>>
  PROVE  /\ Range(current_states) = {}
         /\ DOMAIN parents = Reachable(ts, Starts)
         /\ \A s \in Reachable(ts, Starts) : EvaluateThrows(ts, s) = NoError
<1>1. Range(current_states) = {}
  <2>1. Len(current_states) = 0 /\ DOMAIN current_states = 1 .. 0
    BY EmptySeq, LenProperties DEF TypeOK
  <2> QED
    BY <2>1 DEF Range
<1>2. \A s \in DOMAIN parents :
        /\ EvaluateThrows(ts, s) = NoError
        /\ NextStates(ts, s, State) \subseteq DOMAIN parents
  BY <1>1 DEF SearchInv
<1>3. Closed(ts, Starts, DOMAIN parents)
  BY <1>2 DEF Closed, SearchInv
<1>4. Reachable(ts, Starts) \subseteq DOMAIN parents
  BY <1>3 DEF Reachable, TypeOK
<1>5. DOMAIN parents = Reachable(ts, Starts)
  BY <1>4 DEF SearchInv
<1> QED
  BY <1>1, <1>2, <1>5

(* A search that returns with an empty queue has found exactly the         *)
(* reachable states, and no reachable state violates an invariant or is    *)
(* deadlocked: nothing wrong is missed.                                    *)
THEOREM Exhaustive == Spec => []ReturnIsExhaustive
<1>1. TypeOK /\ SearchInv => ReturnIsExhaustive
  BY EmptyQueueIsExhaustive DEF ReturnIsExhaustive
<1> QED
  BY <1>1, Invariance, PTL

(* When the queue is empty, every accepting state has been returned, those *)
(* nearer to the start states first.                                       *)
THEOREM AcceptingInOrder == Spec => []AcceptingReturned
<1>1. TypeOK /\ SearchInv /\ LevelInv /\ ReturnIsExhaustive
        => AcceptingReturned
  <2> SUFFICES ASSUME TypeOK, SearchInv, LevelInv, ReturnIsExhaustive,
                      phase = "returned", current_states = <<>>,
                        StartsDistinct
               PROVE  /\ Range(result) = Reachable(ts, Starts) \cap ts.accept
                      /\ \A i, j \in DOMAIN result : i < j =>
                           /\ result[i] # result[j]
                           /\ \A k \in 0 .. Cardinality(State) :
                                result[j] \in Within(k)
                                  => result[i] \in Within(k)
    BY DEF AcceptingReturned
  <2>1. PICK lev \in [DOMAIN parents -> Nat] :
          Levels(lev) /\ ResultByLevel(lev)
    BY DEF LevelInv
  <2>2. Range(current_states) = {}
    <3>1. Len(current_states) = 0 /\ DOMAIN current_states = 1 .. 0
      BY EmptySeq, LenProperties DEF TypeOK
    <3> QED
      BY <3>1 DEF Range
  <2>3. /\ Range(result) = DOMAIN parents \cap ts.accept
        /\ \A i, j \in DOMAIN result : i < j =>
             result[i] # result[j] /\ lev[result[i]] <= lev[result[j]]
    BY <2>1, <2>2 DEF ResultByLevel
  <2>4. DOMAIN parents = Reachable(ts, Starts)
    BY DEF ReturnIsExhaustive
  <2>5. ASSUME NEW i \in DOMAIN result, NEW j \in DOMAIN result, i < j,
               NEW k \in 0 .. Cardinality(State), result[j] \in Within(k)
        PROVE  result[i] \in Within(k)
    <3>1. k \in Nat
      OBVIOUS
    <3>2. result[i] \in DOMAIN parents /\ result[j] \in DOMAIN parents
      BY <2>3 DEF Range
    <3>3. lev[result[j]] <= k
      BY <2>1, <2>5, <3>1, WithinIsOffQueue
    <3>4. lev[result[i]] <= k
      <4>1. lev[result[i]] \in Nat /\ lev[result[j]] \in Nat
        BY <2>1, <3>2
      <4> QED
        BY <2>3, <2>5, <3>1, <3>3, <4>1
    <3> QED
      BY <2>1, <3>1, <3>2, <3>4, LevelIsWithin
  <2> QED
    BY <2>3, <2>4, <2>5
<1> QED
  BY <1>1, Invariance, LevelInvariance, Exhaustive, PTL

(* Where hashes separate start states and siblings, the trace thrown is a  *)
(* run from a start state to a state whose evaluation throws that error,   *)
(* and no state closer to the start states has an error; nothing else is   *)
(* thrown.                                                                 *)
THEOREM ShortestCounterexample == Spec => []TraceIsShortestCounterexample
<1>1. TypeOK /\ SearchInv /\ LevelInv /\ RebuildInv
        => TraceIsShortestCounterexample
  <2> SUFFICES ASSUME TypeOK, SearchInv, LevelInv, RebuildInv,
                      SiblingsSeparated(ts, Starts)
               PROVE  /\ phase \notin {"aborted", "escaped"}
                      /\ phase = "threw" =>
                           /\ IsPath(ts, Starts, trace)
                           /\ EvaluateThrows(ts, Last(trace)) = error
                           /\ Len(trace) > 1 =>
                                \A s \in Within(Len(trace) - 2) :
                                  EvaluateThrows(ts, s) = NoError
    BY DEF TraceIsShortestCounterexample
  <2>1. /\ phase \notin {"aborted", "escaped"}
        /\ phase = "threw" =>
             /\ IsPath(ts, Starts, trace)
             /\ Last(trace) = Head(current_states)
             /\ Len(trace) = Len(hash_trace)
    BY RebuildIsGenuine DEF Starts, TypeOK
  <2>2. ASSUME phase = "threw"
        PROVE  /\ error = EvaluateThrows(ts, Head(current_states))
               /\ current_states # <<>>
    BY <2>2 DEF SearchInv
  <2>3. ASSUME phase = "threw", Len(trace) > 1,
               NEW s \in Within(Len(trace) - 2)
        PROVE  EvaluateThrows(ts, s) = NoError
    <3>1. PICK lev \in [DOMAIN parents -> Nat] : Levels(lev)
                 /\ WalkByLevel(lev)
      BY DEF LevelInv
    <3>2. Len(trace) = lev[Head(current_states)] + 1
      BY <2>1, <2>3, <3>1 DEF WalkByLevel
    <3>3. Head(current_states) \in DOMAIN parents
      <4>1. Head(current_states) \in Range(current_states)
        BY <2>2, <2>3, RangeOfTail DEF TypeOK
      <4> QED
        BY <4>1 DEF SearchInv
    <3>4. lev[Head(current_states)] \in Nat
      BY <3>1, <3>3
    <3>5. /\ Len(trace) - 2 \in Nat
          /\ Len(trace) - 2 < lev[Head(current_states)]
      BY <2>3, <3>2, <3>4
    <3>6. s \in DOMAIN parents \ Range(current_states)
      BY <2>3, <3>1, <3>5, WithinIsOffQueue
    <3> QED
      BY <3>6 DEF SearchInv
  <2> QED
    BY <2>1, <2>2, <2>3
<1> QED
  BY <1>1, Invariance, LevelInvariance, WalkInvariance, PTL

(* Eval_BFS implements the search that a backend promises, which confuses  *)
(* no two states: every step is one of its steps or none.                  *)
THEOREM Refinement == Spec => Abstract!SafeSpec
<1>1. TypeOK /\ SearchInv /\ QueueInv /\ [Next]_vars
        => [Abstract!Next]_(Abstract!vars)
  <2> SUFFICES ASSUME TypeOK, SearchInv, QueueInv, [Next]_vars
               PROVE  [Abstract!Next]_(Abstract!vars)
    OBVIOUS
  <2>1. CASE Evaluate
    BY <2>1, EvaluateRefines
  <2>2. CASE CatchError
    BY <2>2, CatchErrorRefines
  <2>3. CASE (Return \/ MonitorReturnsFalse) /\ UNCHANGED parents
    BY <2>3, ReturnRefines
  <2>4. CASE \/ WalkToParent \/ WalkToStart
             \/ MakeTraceFromHashTrace /\ UNCHANGED parents
             \/ UNCHANGED vars
    BY <2>4, TraceStutters
  <2> QED
    BY <2>1, <2>2, <2>3, <2>4 DEF Next
<1> QED
  BY <1>1, AbstractInit, Invariance, QueueInvariance, PTL
     DEF Spec, Abstract!SafeSpec

-----------------------------------------------------------------------------
(***************************************************************************)
(* ModelCheckerCommand, with the graph that AtEnd decides from.            *)
(***************************************************************************)

(* What every evaluation that succeeded had to record is in the graph.     *)
EdgesRecorded ==
  \A s \in DOMAIN parents \ Range(current_states) :
    Edges(s, NextStates(ts, s, State)) \subseteq state_graph

(* The edge was recorded for node i at a step from s to n.                 *)
EdgeFrom(e, s, n, i) ==
  /\ s \in Reachable(ts, Starts) /\ n \in Reachable(ts, Starts)
  /\ n \in NextStates(ts, s, State)
  /\ View(s)[i] = e[1] /\ View(n)[i] = e[2]

(* Until a trace is rebuilt, every edge in the graph comes from a step.    *)
EdgesReal ==
  phase \in {"search", "returned"} =>
    \A e \in state_graph :
      /\ e \in Transient \X Transient /\ e[1] # e[2]
      /\ \E s, n \in State, i \in Node : EdgeFrom(e, s, n, i)

GraphInv == EdgesRecorded /\ EdgesReal

(* The command takes the steps of the search.                              *)
LEMMA CommandSteps ==
  ASSUME [CommandNext]_commandVars
  PROVE  /\ [Next]_vars
         /\ \/ EvaluateAndRecord
            \/ RebuildAndRecord
            \/ UNCHANGED state_graph /\ ~Evaluate
            \/ UNCHANGED state_graph /\ UNCHANGED vars
<1>1. CASE EvaluateAndRecord
  BY <1>1 DEF EvaluateAndRecord, Next
<1>2. CASE RebuildAndRecord
  BY <1>2 DEF RebuildAndRecord, Next, MakeTraceFromHashTrace
<1>3. CASE /\ \/ CatchError
              \/ WalkToParent
              \/ WalkToStart
              \/ (Return \/ MonitorReturnsFalse) /\ UNCHANGED parents
              \/ (RebuildThrows \/ RebuildEnds) /\ UNCHANGED parents
           /\ UNCHANGED state_graph
  <2>1. [Next]_vars
    BY <1>3 DEF Next, MakeTraceFromHashTrace
  <2>2. Evaluate => phase = "search" /\ phase' = "search"
    BY DEF Evaluate, Visit
  <2>3. ~ (phase = "search" /\ phase' = "search")
    BY <1>3 DEF CatchError, Catch, WalkToParent, WalkOn, WalkToStart,
      WalkEnds,
                Return, MonitorReturnsFalse, RebuildThrows, RebuildEnds
  <2> QED
    BY <1>3, <2>1, <2>2, <2>3
<1>4. CASE UNCHANGED commandVars
  BY <1>4 DEF commandVars
<1> QED
  BY <1>1, <1>2, <1>3, <1>4 DEF CommandNext

(* No edge is recorded, and none is missed.                                *)
LEMMA GraphInvInit == CommandInit => GraphInv
<1> SUFFICES ASSUME CommandInit PROVE GraphInv
  OBVIOUS
<1>1. DOMAIN parents = Range(current_states) /\ state_graph = {}
  BY DEF CommandInit, Init, EvalInit
<1> QED
  BY <1>1 DEF GraphInv, EdgesRecorded, EdgesReal

(* An evaluation records the edges of the state it takes off the queue.    *)
LEMMA GraphInvEvaluate ==
  ASSUME TypeOK, SearchInv, GraphInv, EvaluateAndRecord
  PROVE  GraphInv'
<1> DEFINE s == Head(current_states)
           nexts == NextStates(ts, s, State)
<1>1. /\ Evaluate /\ state_graph' = state_graph \cup Edges(s, nexts)
      /\ UNCHANGED <<ts, start, phase>>
      /\ phase = "search"
  BY DEF EvaluateAndRecord, Record, Evaluate, Visit
<1>2. /\ DOMAIN parents' \ Range(current_states')
           \subseteq (DOMAIN parents \ Range(current_states)) \cup {s}
      /\ s \in DOMAIN parents
  BY <1>1, QueueRange
<1>3. /\ \A t : View(t)' = View(t)
      /\ \A t, m : Edges(t, m)' = Edges(t, m)
      /\ Starts' = Starts
  BY <1>1 DEF View, Edges, Starts
<1>4. EdgesRecorded'
  <2> SUFFICES ASSUME NEW t \in DOMAIN parents' \ Range(current_states')
               PROVE  Edges(t, NextStates(ts, t, State))'
                        \subseteq state_graph'
    BY DEF EdgesRecorded
  <2>1. Edges(t, NextStates(ts, t, State))'
          = Edges(t, NextStates(ts, t, State))
    BY <1>1 DEF Edges, View
  <2>2. CASE t = s
    BY <1>1, <2>1, <2>2
  <2>3. CASE t \in DOMAIN parents \ Range(current_states)
    BY <1>1, <2>1, <2>3 DEF GraphInv, EdgesRecorded
  <2> QED
    BY <1>2, <2>2, <2>3
<1>5. s \in Reachable(ts, Starts) /\ s \in State
  BY <1>2 DEF SearchInv, TypeOK
<1>6. nexts \subseteq Reachable(ts, Starts) /\ nexts \subseteq State
  BY <1>5, ReachableClosed DEF TypeOK, NextStates
<1>7. ASSUME NEW e \in Edges(s, nexts)
      PROVE  /\ e \in Transient \X Transient /\ e[1] # e[2]
             /\ \E t, n \in State, i \in Node : EdgeFrom(e, t, n, i)
  <2>1. e \in Transient \X Transient /\ e[1] # e[2]
    BY DEF Edges
  <2>2. PICK n \in nexts, i \in Node : View(s)[i] = e[1] /\ View(n)[i] = e[2]
    BY DEF Edges
  <2>3. EdgeFrom(e, s, n, i)
    BY <1>5, <1>6, <2>2 DEF EdgeFrom
  <2> QED
    BY <1>5, <1>6, <2>1, <2>3
<1>8. EdgesReal'
  <2>1. \A e, t, n, i : EdgeFrom(e, t, n, i)' <=> EdgeFrom(e, t, n, i)
    BY <1>1, <1>3 DEF EdgeFrom
  <2>2. ASSUME NEW e \in state_graph'
        PROVE  /\ e \in Transient \X Transient /\ e[1] # e[2]
               /\ \E t, n \in State, i \in Node : EdgeFrom(e, t, n, i)
    BY <1>1, <1>7 DEF GraphInv, EdgesReal
  <2> QED
    BY <2>1, <2>2 DEF EdgesReal, Transient
<1> QED
  BY <1>4, <1>8 DEF GraphInv

(* Nothing else takes a state off the queue, or records an edge before a   *)
(* trace is rebuilt.                                                       *)
LEMMA GraphInvOther ==
  ASSUME GraphInv, [CommandNext]_commandVars, ~EvaluateAndRecord
  PROVE  GraphInv'
<1>1. CASE RebuildAndRecord
  <2>1. /\ state_graph \subseteq state_graph'
        /\ UNCHANGED <<ts, current_states, parents>>
        /\ phase' \notin {"search", "returned"}
    BY <1>1 DEF RebuildAndRecord, Record, Rebuild, RebuildAborts, searchVars
  <2>2. \A t, m : Edges(t, m)' = Edges(t, m)
    BY <2>1 DEF View, Edges
  <2>3. EdgesRecorded'
    BY <2>1, <2>2 DEF GraphInv, EdgesRecorded
  <2> QED
    BY <2>1, <2>3 DEF GraphInv, EdgesReal
<1>2. CASE UNCHANGED state_graph
        /\ UNCHANGED <<ts, start, current_states, parents>>
  <2>1. phase' \in {"search", "returned"} => phase \in {"search", "returned"}
    BY CommandSteps
       DEF Next, vars, evalVars, searchVars, traceVars, Evaluate, Visit,
           CatchError, Catch, Return, MonitorReturnsFalse, WalkToParent,
           WalkOn, WalkToStart, WalkEnds, MakeTraceFromHashTrace, Rebuild,
           RebuildAborts, RebuildThrows, RebuildEnds
  <2>2. /\ \A t, m : Edges(t, m)' = Edges(t, m)
        /\ \A e, t, n, i : EdgeFrom(e, t, n, i)' <=> EdgeFrom(e, t, n, i)
    BY <1>2 DEF View, Edges, EdgeFrom, Starts
  <2>3. EdgesRecorded'
    BY <1>2, <2>2 DEF GraphInv, EdgesRecorded
  <2>4. EdgesReal'
    BY <1>2, <2>1, <2>2 DEF GraphInv, EdgesReal, Transient
  <2> QED
    BY <2>3, <2>4 DEF GraphInv
<1> QED
  BY <1>1, <1>2, CommandSteps, OnlyEvaluateSearches
    DEF vars, evalVars, searchVars

(* The command is a search, with what is recorded on the side.             *)
LEMMA CommandInvariance == CommandSpec => [](TypeOK /\ SearchInv /\ GraphInv)
<1>1. CommandInit => TypeOK /\ SearchInv /\ GraphInv
  BY InitEstablishes, GraphInvInit DEF CommandInit
<1>2. (TypeOK /\ SearchInv /\ GraphInv) /\ [CommandNext]_commandVars
        => (TypeOK /\ SearchInv /\ GraphInv)'
  BY CommandSteps, NextKeeps, GraphInvEvaluate, GraphInvOther
<1> QED
  BY <1>1, <1>2, PTL DEF CommandSpec

(* A cycle of steps leaves a cycle in the graph, if all edges of steps are *)
(* in it: what leads from a step back to it, and keeps a node transient,   *)
(* leads along the graph.                                                  *)
LEMMA NoCycleNoPingPong ==
  ASSUME NEW i \in Node, Acyclic(state_graph),
         \A s \in Reachable(ts, Starts) :
           Edges(s, NextStates(ts, s, State)) \subseteq state_graph
  PROVE  ~PingPong(i)
<1> SUFFICES ASSUME NEW e \in TransientSteps(i),
                    View(e[1])[i] # View(e[2])[i],
                    Leads(TransientSteps(i), e[2], e[1])
             PROVE  FALSE
  BY DEF PingPong
<1> DEFINE v(s) == View(s)[i]
           steps == TransientSteps(i)
           nodes == {f[1] : f \in steps} \cup {f[2] : f \in steps} \cup {e[2]}
<1>1. ASSUME NEW f \in steps, v(f[1]) # v(f[2])
      PROVE  <<v(f[1]), v(f[2])>> \in state_graph
  <2>1. /\ f[1] \in Reachable(ts, Starts)
        /\ f[2] \in NextStates(ts, f[1], State)
        /\ v(f[1]) \in Transient /\ v(f[2]) \in Transient
    BY DEF TransientSteps
  <2> DEFINE edge == <<v(f[1]), v(f[2])>>
  <2>2. edge \in Transient \X Transient /\ edge[1] # edge[2]
    BY <1>1, <2>1
  <2>3. View(f[1])[i] = edge[1] /\ View(f[2])[i] = edge[2]
    OBVIOUS
  <2>4. edge \in Edges(f[1], NextStates(ts, f[1], State))
    <3> HIDE DEF edge
    <3> QED
      BY <2>1, <2>2, <2>3 DEF Edges
  <2> QED
    BY <2>1, <2>4
<1>2. <<v(e[1]), v(e[2])>> \in state_graph
  BY <1>1
<1>3. ~Leads(state_graph, v(e[2]), v(e[1]))
  <2> DEFINE edge == <<v(e[1]), v(e[2])>>
  <2>1. ~Leads(state_graph, edge[2], edge[1])
    <3> HIDE DEF edge
    <3> QED
      BY <1>2 DEF Acyclic, edge
  <2> QED
    BY <2>1
<1>4. ASSUME NEW C,
             v(e[2]) \in C, \A f \in state_graph : f[1] \in C => f[2] \in C
      PROVE  v(e[1]) \in C
  <2> DEFINE D == {s \in nodes : v(s) \in C}
  <2>1. e[2] \in D
    BY <1>4
  <2>2. ASSUME NEW f \in steps, f[1] \in D PROVE f[2] \in D
    <3>1. f[2] \in nodes
      OBVIOUS
    <3>2. v(f[1]) \in C
      BY <2>2
    <3>3. v(f[2]) \in C
      <4>1. CASE v(f[1]) = v(f[2])
        BY <3>2, <4>1
      <4>2. CASE v(f[1]) # v(f[2])
        <5> DEFINE edge == <<v(f[1]), v(f[2])>>
        <5>1. edge \in state_graph /\ edge[1] = v(f[1]) /\ edge[2] = v(f[2])
          BY <1>1, <4>2
        <5> HIDE DEF edge, v
        <5> QED
          BY <1>4, <3>2, <5>1
      <4> QED
        BY <4>1, <4>2
    <3> QED
      BY <3>1, <3>3
  <2>3. D \in SUBSET nodes
    OBVIOUS
  <2>4. e[1] \in D
    <3> HIDE DEF D
    <3> QED
      BY <2>1, <2>2, <2>3 DEF Leads
  <2> QED
    BY <2>4
<1>5. Leads(state_graph, v(e[2]), v(e[1]))
  <2> HIDE DEF v
  <2> QED
    BY <1>4 DEF Leads
<1> QED
  BY <1>3, <1>5

(* A state that passes has only steps that the simulating system has, and  *)
(* violates none of that system's properties.                              *)
LEMMA PassIsSimulated ==
  ASSUME NEW s, EvaluateThrows(ts, s) = NoError, NEW sim \in ts.simulated_by
  PROVE  /\ Violated(sim.by, sim.cast[s]) = {}
         /\ \A n \in NextStates(ts, s, State) :
              sim.cast[n] \in NextStates(sim.by, sim.cast[s], State)
<1> DEFINE thrown(x) == Thrown(x.by, x.cast[s], State)
           failing == {x \in ts.simulated_by : thrown(x) # NoError}
<1>1. failing = {}
  <2> SUFFICES ASSUME failing # {} PROVE FALSE
    OBVIOUS
  <2>1. thrown(CHOOSE x \in failing : TRUE) # NoError
    <3>1. (CHOOSE x \in failing : TRUE) \in failing
      OBVIOUS
    <3> QED
      BY <3>1
  <2> QED
    BY <2>1 DEF EvaluateThrows
<1>2. Simulation # NoError /\ \A i : PropertyViolation(i) # NoError
  BY DEF Simulation, PropertyViolation, NoError
<1>3. Violated(sim.by, sim.cast[s]) = {}
  BY <1>1, <1>2 DEF Thrown
<1>4. Disallowed(ts, s) = {}
  BY <1>1, <1>2, PassMeansNoViolation DEF EvaluateThrows
<1> QED
  BY <1>3, <1>4 DEF Disallowed

(* So the cast of every reachable state is reachable there.                *)
LEMMA CastIsReachable ==
  ASSUME NEW sim \in ts.simulated_by, ts \in TransitionSystems,
         Starts \subseteq State,
         \A s \in Reachable(ts, Starts) : EvaluateThrows(ts, s) = NoError
  PROVE  \A s \in Reachable(ts, Starts) :
           sim.cast[s] \in Reachable(sim.by, {sim.cast[r] : r \in Starts})
<1> DEFINE R == Reachable(ts, Starts)
           castStarts == {sim.cast[r] : r \in Starts}
<1>1. sim.cast \in [State -> State]
  BY DEF TransitionSystems, SystemsOver
<1>2. Starts \subseteq R /\ R \subseteq State
  BY DEF Reachable, Closed
<1>3. ASSUME NEW C \in SUBSET State, Closed(sim.by, castStarts, C)
      PROVE  \A s \in R : sim.cast[s] \in C
  <2> DEFINE D == {s \in R : sim.cast[s] \in C}
  <2>1. Starts \subseteq D
    BY <1>2, <1>3 DEF Closed
  <2>2. ASSUME NEW s \in D, NEW n \in NextStates(ts, s, State)
        PROVE  n \in D
    <3>1. n \in R
      BY ReachableClosed
    <3>2. sim.cast[n] \in NextStates(sim.by, sim.cast[s], State)
      BY PassIsSimulated
    <3>3. sim.cast[n] \in C
      BY <1>3, <3>2 DEF Closed
    <3> QED
      BY <3>1, <3>3
  <2>3. Closed(ts, Starts, D)
    BY <2>1, <2>2 DEF Closed
  <2>4. D \in SUBSET State
    BY <1>2
  <2>5. R \subseteq D
    <3> HIDE DEF D
    <3> QED
      BY <2>3, <2>4 DEF Reachable
  <2> QED
    BY <2>5
<1> QED
  BY <1>1, <1>2, <1>3 DEF Reachable

(* "VERIFIED" is true: a command that returns 0 with nothing left to       *)
(* evaluate has seen every reachable state, none in error, no protocol     *)
(* node can ping-pong, and every simulation holds.                         *)
THEOREM VerdictSound == CommandSpec => []VerdictIsSound
<1>1. TypeOK /\ SearchInv /\ GraphInv => VerdictIsSound
  <2> SUFFICES ASSUME TypeOK, SearchInv, GraphInv,
                      ExitCode = 0, current_states = <<>>
               PROVE  /\ \A s \in Reachable(ts, Starts) :
                           EvaluateThrows(ts, s) = NoError
                      /\ \A i \in Node : ~PingPong(i)
                      /\ \A sim \in ts.simulated_by :
                           /\ \A s \in Reachable(ts, Starts) :
                                \A n \in NextStates(ts, s, State) :
                                  sim.cast[n] \in
                                    NextStates(sim.by, sim.cast[s], State)
                           /\ \A s \in Reachable(ts, Starts) :
                                /\ sim.cast[s] \in Reachable(sim.by,
                                      {sim.cast[r] : r \in Starts})
                                /\ Violated(sim.by, sim.cast[s]) = {}
    BY DEF VerdictIsSound
  <2>1. /\ Range(current_states) = {}
        /\ DOMAIN parents = Reachable(ts, Starts)
        /\ \A s \in Reachable(ts, Starts) : EvaluateThrows(ts, s) = NoError
    BY EmptyQueueIsExhaustive
  <2>2. Acyclic(state_graph)
    BY DEF ExitCode, IsSatisfied
  <2>3. \A s \in Reachable(ts, Starts) :
          Edges(s, NextStates(ts, s, State)) \subseteq state_graph
    BY <2>1 DEF GraphInv, EdgesRecorded
  <2>4. \A i \in Node : ~PingPong(i)
    BY <2>2, <2>3, NoCycleNoPingPong
  <2>5. ts \in TransitionSystems /\ Starts \subseteq State
    BY <2>1 DEF TypeOK, SearchInv
  <2> QED
    BY <2>1, <2>4, <2>5, PassIsSimulated, CastIsReachable
<1> QED
  BY <1>1, CommandInvariance, PTL

(* With one node whose state is all of the state, what leads along the     *)
(* graph leads along steps.                                                *)
LEMMA CycleIsPingPong ==
  ASSUME EdgesReal, phase = "returned", OneNode,
         NEW e \in state_graph, Leads(state_graph, e[2], e[1])
  PROVE  \E i \in Node : PingPong(i)
<1>1. /\ \A f \in state_graph :
           /\ f \in Transient \X Transient /\ f[1] # f[2]
           /\ \E t, m \in State, j \in Node : EdgeFrom(f, t, m, j)
  BY DEF EdgesReal
<1>2. PICK s \in State, n \in State, i \in Node : EdgeFrom(e, s, n, i)
  BY <1>1
<1> DEFINE steps == TransientSteps(i)
           nodes == {f[1] : f \in steps} \cup {f[2] : f \in steps} \cup {n}
           values == {f[1] : f \in state_graph}
             \cup {f[2] : f \in state_graph}
                       \cup {e[2]}
<1>3. ASSUME NEW f \in state_graph, NEW t \in State, NEW m \in State,
             NEW j \in Node, EdgeFrom(f, t, m, j)
      PROVE  <<t, m>> \in steps /\ View(t)[i] = f[1] /\ View(m)[i] = f[2]
  <2>1. View(t)[i] = View(t)[j] /\ View(m)[i] = View(m)[j]
    BY DEF OneNode
  <2>2. View(t)[i] = f[1] /\ View(m)[i] = f[2]
    BY <1>3, <2>1 DEF EdgeFrom
  <2>3. f[1] \in Transient /\ f[2] \in Transient
    BY <1>1
  <2> DEFINE st == <<t, m>>
  <2>4. /\ st \in Reachable(ts, Starts) \X Reachable(ts, Starts)
        /\ st[1] = t /\ st[2] = m
        /\ m \in NextStates(ts, t, State)
    BY <1>3 DEF EdgeFrom
  <2>5. st \in steps
    <3> HIDE DEF st
    <3> QED
      BY <2>2, <2>3, <2>4 DEF TransientSteps
  <2> QED
    BY <2>2, <2>5
<1>4. <<s, n>> \in steps /\ View(s)[i] = e[1] /\ View(n)[i] = e[2]
  BY <1>2, <1>3
<1>5. ASSUME NEW C \in SUBSET nodes, n \in C,
             \A f \in steps : f[1] \in C => f[2] \in C
      PROVE  s \in C
  <2> DEFINE D == {v \in values : \E x \in C : x \in State /\ View(x)[i] = v}
  <2>1. e[2] \in D
    BY <1>4, <1>5
  <2>2. ASSUME NEW f \in state_graph, f[1] \in D PROVE f[2] \in D
    <3>1. PICK t \in State, m \in State, j \in Node : EdgeFrom(f, t, m, j)
      BY <1>1
    <3>2. <<t, m>> \in steps /\ View(t)[i] = f[1] /\ View(m)[i] = f[2]
      BY <1>3, <3>1
    <3>3. PICK x \in C : x \in State /\ View(x)[i] = f[1]
      BY <2>2
    <3>4. x = t
      BY <3>2, <3>3 DEF OneNode
    <3> DEFINE st == <<t, m>>
    <3>5. st \in steps /\ st[1] = t /\ st[2] = m
      BY <3>2
    <3>6. m \in C
      <4> HIDE DEF st, steps
      <4> QED
        BY <1>5, <3>3, <3>4, <3>5
    <3>7. f[2] \in values
      OBVIOUS
    <3> QED
      BY <3>2, <3>6, <3>7
  <2>3. D \in SUBSET values
    OBVIOUS
  <2>4. e[1] \in D
    <3> HIDE DEF D
    <3> QED
      BY <2>1, <2>2, <2>3 DEF Leads
  <2>5. PICK x \in C : x \in State /\ View(x)[i] = e[1]
    BY <2>4
  <2> QED
    BY <1>4, <2>5 DEF OneNode
<1>6. Leads(steps, n, s)
  <2> HIDE DEF steps
  <2> QED
    BY <1>5 DEF Leads
<1>7. View(s)[i] # View(n)[i]
  BY <1>1, <1>4
<1> DEFINE st == <<s, n>>
<1>8. st \in steps /\ st[1] = s /\ st[2] = n
  BY <1>4
<1> HIDE DEF st
<1> QED
  BY <1>6, <1>7, <1>8 DEF PingPong

(* "VERIFICATION FAILED" is true: the error is that of a reachable state,  *)
(* and with a single node so is the livelock.                              *)
THEOREM FailureReal == CommandSpec => []FailureIsReal
<1>1. TypeOK /\ SearchInv /\ GraphInv => FailureIsReal
  <2> SUFFICES ASSUME TypeOK, SearchInv, GraphInv, ExitCode = 1
               PROVE  IF phase = "threw"
                        THEN \E s \in Reachable(ts, Starts) :
                               EvaluateThrows(ts, s) = error
                                 /\ error # NoError
                        ELSE OneNode => \E i \in Node : PingPong(i)
    BY DEF FailureIsReal
  <2>1. CASE phase = "threw"
    <3>1. /\ current_states # <<>> /\ error # NoError
          /\ error = EvaluateThrows(ts, Head(current_states))
      BY <2>1 DEF SearchInv
    <3>2. Head(current_states) \in Range(current_states)
      BY <3>1, RangeOfTail DEF TypeOK
    <3>3. Head(current_states) \in Reachable(ts, Starts)
      BY <3>2 DEF SearchInv
    <3> QED
      BY <2>1, <3>1, <3>3
  <2>2. CASE phase # "threw"
    <3>1. phase = "returned" /\ ~Acyclic(state_graph)
      BY <2>2 DEF ExitCode, IsSatisfied
    <3>2. PICK e \in state_graph : Leads(state_graph, e[2], e[1])
      BY <3>1 DEF Acyclic
    <3>3. OneNode => \E i \in Node : PingPong(i)
      BY <3>1, <3>2, CycleIsPingPong DEF GraphInv
    <3> QED
      BY <2>2, <3>3
  <2> QED
    BY <2>1, <2>2
<1> QED
  BY <1>1, CommandInvariance, PTL
=============================================================================
