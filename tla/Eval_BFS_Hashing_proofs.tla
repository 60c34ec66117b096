---------------------- MODULE Eval_BFS_Hashing_proofs ----------------------
(***************************************************************************)
(* Proofs about Eval_BFS_Hashing, for every finite set of states, family   *)
(* of transition systems, hash and queue of start states.                  *)
(***************************************************************************)
EXTENDS Eval_BFS_Hashing, SearchLemmas

-----------------------------------------------------------------------------
(***************************************************************************)
(* Hashes found, states evaluated.                                         *)
(***************************************************************************)
(* The hashes found are those of the states evaluated and queued, and the  *)
(* states found are reachable; the start states are among them; what was   *)
(* evaluated passed, and the hashes of its successors were found; the      *)
(* result is the accepting states evaluated.                               *)
HashInv ==
  /\ \A h \in DOMAIN parents :
       /\ parents[h] \in DOMAIN parents
       /\ parents[h] = h => \E s \in Starts : ts.hash[s] = h
       /\ \E s \in evaluated \cup Range(current_states) : ts.hash[s] = h
  /\ \A s \in evaluated \cup Range(current_states) :
       s \in Reachable(ts, Starts) /\ ts.hash[s] \in DOMAIN parents
  /\ Starts \subseteq evaluated \cup Range(current_states)
  /\ \A s \in evaluated :
       /\ EvaluateThrows(ts, s) = NoError
       /\ \A n \in NextStates(ts, s, State) : ts.hash[n] \in DOMAIN parents
  /\ phase \in {"search", "returned"} =>
       Range(result) = evaluated \cap ts.accept
  /\ phase = "walk" => walk \in DOMAIN parents
  /\ phase \notin {"search", "returned"} =>
       /\ current_states # <<>>
       /\ error = EvaluateThrows(ts, Head(current_states))
       /\ error # NoError

(* The start states are found, by their hashes.                            *)
LEMMA HashInvInit == Init => TypeOK /\ HashInv
<1> SUFFICES ASSUME Init PROVE TypeOK /\ HashInv
  OBVIOUS
<1> USE DEF Init, EvalInit
<1>1. ts \in TransitionSystems /\ ts.hash \in [State -> HashVal]
      /\ ts.accept \subseteq State
  BY EvalAssumption DEF TransitionSystems, SystemsOver
<1>2. start \in Seq(State) /\ start # <<>>
  BY EvalAssumption
<1>3. /\ start[1] \in State
      /\ Len(start) \in Nat
      /\ Range(start) \subseteq State
  <2>1. Len(start) \in Nat \ {0} /\ DOMAIN start = 1 .. Len(start)
    BY <1>2, EmptySeq, LenProperties
  <2> QED
    BY <1>2, <2>1, ElementOfSeq DEF Range
<1>4. TypeOK
  BY <1>1, <1>2, <1>3, EvalAssumption
     DEF TypeOK, Phases, Errors, NoError
<1>5. Starts \subseteq Reachable(ts, Starts)
  BY <1>3 DEF Starts, Reachable, Closed
<1>6. Range(current_states) = Starts /\ Starts = Range(start)
  BY DEF Starts
<1>7. DOMAIN parents = {ts.hash[s] : s \in Starts}
      /\ \A h \in DOMAIN parents : parents[h] = h
  BY <1>6
<1>8. Range(result) = {}
  BY DEF Range
<1> QED
  BY <1>4, <1>5, <1>6, <1>7, <1>8 DEF HashInv

(* What an evaluation does to the hashes, the queue and the result.        *)
LEMMA EvaluateEffect ==
  ASSUME TypeOK, HashInv, Evaluate
  PROVE  \E U \in SUBSET NextStates(ts, Head(current_states), State) :
           /\ phase = "search" /\ UNCHANGED <<ts, start, phase>>
           /\ UNCHANGED <<verbose_on_error, error, walk, hash_trace, cursor,
                          rebuilt, trace>>
           /\ num_visited_states' \in Nat /\ num_queued_states' \in Int
           /\ Head(current_states) \in Range(current_states)
           /\ Head(current_states) \in State
           /\ EvaluateThrows(ts, Head(current_states)) = NoError
           /\ evaluated' = evaluated \cup {Head(current_states)}
           /\ current_states' \in Seq(State)
           /\ Range(current_states') = Range(Tail(current_states)) \cup U
           /\ Range(Tail(current_states)) \subseteq Range(current_states)
           /\ Range(current_states)
                \subseteq {Head(current_states)}
                  \cup Range(Tail(current_states))
           /\ HashSeparates(ts, U)
           /\ \A u \in U : ts.hash[u] \notin DOMAIN parents
           /\ \A n \in NextStates(ts, Head(current_states), State) :
                \/ ts.hash[n] \in DOMAIN parents
                \/ \E u \in U : ts.hash[u] = ts.hash[n]
           /\ DOMAIN parents' = DOMAIN parents \cup {ts.hash[u] : u \in U}
           /\ \A h \in DOMAIN parents : parents'[h] = parents[h]
           /\ \A u \in U :
                parents'[ts.hash[u]] = ts.hash[Head(current_states)]
           /\ parents' \in [DOMAIN parents' -> HashVal]
           /\ result' \in Seq(State)
           /\ Range(result') = Range(result)
                                 \cup ({Head(current_states)} \cap ts.accept)
<1> DEFINE s == Head(current_states)
<1>1. PICK U \in Unseen :
        /\ Visit(U)
        /\ parents' = [h \in DOMAIN parents \cup {ts.hash[u] : u \in U} |->
                         IF h \in DOMAIN parents THEN parents[h]
                           ELSE ts.hash[s]]
  BY DEF Evaluate
<1>2. /\ U \subseteq NextStates(ts, s, State)
      /\ HashSeparates(ts, U)
      /\ \A u \in U : ts.hash[u] \notin DOMAIN parents
      /\ \A n \in NextStates(ts, s, State) :
           ts.hash[n] \in DOMAIN parents
             \/ \E u \in U : ts.hash[u] = ts.hash[n]
  BY DEF Unseen
<1>3. /\ current_states \in Seq(State) /\ current_states # <<>>
      /\ U \in SUBSET State
      /\ ts.hash \in [State -> HashVal]
  BY <1>1, <1>2 DEF TypeOK, Visit, NextStates, TransitionSystems, SystemsOver
<1>4. s \in State /\ s \in Range(current_states)
      /\ Tail(current_states) \in Seq(State)
      /\ Range(Tail(current_states)) \subseteq Range(current_states)
      /\ Range(current_states) \subseteq {s} \cup Range(Tail(current_states))
  BY <1>3, RangeOfTail, HeadTailProperties
<1>5. PICK order \in SetToSeqs(U) :
        current_states' = Tail(current_states) \o order
  BY <1>1 DEF Visit, Enqueue
<1>6. order \in Seq(State) /\ Range(order) = U
  BY <1>3, <1>5, OrderOfSet
<1>7. /\ current_states' \in Seq(State)
      /\ Range(current_states') = Range(Tail(current_states)) \cup U
  <2>1. Tail(current_states) \o order \in Seq(State)
    BY <1>4, <1>6, ConcatProperties
  <2>2. Range(Tail(current_states) \o order)
          = Range(Tail(current_states)) \cup Range(order)
    <3>1. Tail(current_states) \in Seq(State) /\ order \in Seq(State)
      BY <1>4, <1>6
    <3>2. \A q, r \in Seq(State) : Range(q \o r) = Range(q) \cup Range(r)
      BY RangeOfConcat
    <3> QED
      BY <3>1, <3>2
  <2> QED
    BY <1>5, <1>6, <2>1, <2>2
<1>8. /\ DOMAIN parents' = DOMAIN parents \cup {ts.hash[u] : u \in U}
      /\ \A h \in DOMAIN parents : parents'[h] = parents[h]
      /\ \A u \in U : parents'[ts.hash[u]] = ts.hash[s]
  BY <1>1, <1>2
<1>9. parents' \in [DOMAIN parents' -> HashVal]
  <2>1. ts.hash[s] \in HashVal
    BY <1>3, <1>4
  <2>2. \A h \in DOMAIN parents' : parents'[h] \in HashVal
    <3> TAKE h \in DOMAIN parents'
    <3>1. CASE h \in DOMAIN parents
      <4>1. parents[h] \in HashVal
        BY <3>1 DEF TypeOK
      <4> QED
        BY <1>8, <3>1, <4>1
    <3>2. CASE h \notin DOMAIN parents
      <4>1. PICK u \in U : h = ts.hash[u]
        BY <1>8, <3>2
      <4> QED
        BY <1>8, <2>1, <4>1
    <3> QED
      BY <3>1, <3>2
  <2>3. parents' = [h \in DOMAIN parents \cup {ts.hash[u] : u \in U} |->
          parents'[h]]
    BY <1>1
  <2> QED
    BY <1>8, <2>2, <2>3
<1>10. /\ phase = "search" /\ EvaluateThrows(ts, s) = NoError
       /\ UNCHANGED <<ts, start, phase>>
       /\ UNCHANGED <<verbose_on_error, error, walk, hash_trace, cursor,
                      rebuilt, trace>>
       /\ result' = Accepting(s)
       /\ evaluated' = evaluated \cup {s}
  BY <1>1 DEF Visit, traceVars, Evaluate
<1>11. num_visited_states' \in Nat /\ num_queued_states' \in Int
  <2>1. Cardinality(U) \in Int
    BY <1>3, FiniteAssumption, FS_Subset, FS_CardinalityType
  <2>2. /\ num_visited_states' = num_visited_states + 1
        /\ num_queued_states' = num_queued_states + Cardinality(U) - 1
    BY <1>1 DEF Visit, Queued
  <2>3. num_visited_states \in Nat /\ num_queued_states \in Int
    BY DEF TypeOK
  <2> QED
    BY <2>1, <2>2, <2>3
<1>12. /\ result' \in Seq(State)
       /\ Range(result') = Range(result) \cup ({s} \cap ts.accept)
  <2>1. result \in Seq(State)
    BY DEF TypeOK
  <2>2. CASE s \in ts.accept
    <3>1. result' = result \o <<s>>
      BY <1>4, <1>10, <2>1, <2>2 DEF Accepting
    <3>2. <<s>> \in Seq(State) /\ Range(<<s>>) = {s}
      BY <1>4 DEF Range
    <3>3. result \o <<s>> \in Seq(State)
      BY <2>1, <3>2, ConcatProperties
    <3>4. Range(result \o <<s>>) = Range(result) \cup Range(<<s>>)
      <4>1. \A q, r \in Seq(State) : Range(q \o r) = Range(q) \cup Range(r)
        BY RangeOfConcat
      <4> QED
        BY <2>1, <3>2, <4>1
    <3> QED
      BY <2>2, <3>1, <3>2, <3>3, <3>4
  <2>3. CASE s \notin ts.accept
    BY <1>10, <2>1, <2>3 DEF Accepting
  <2> QED
    BY <2>2, <2>3
<1> QED
  BY <1>2, <1>4, <1>7, <1>8, <1>9, <1>10, <1>11, <1>12

(* Evaluating a state finds a state for each hash among its successors.    *)
LEMMA HashInvEvaluate ==
  ASSUME TypeOK, HashInv, Evaluate
  PROVE  TypeOK' /\ HashInv'
<1> DEFINE s == Head(current_states)
           known == evaluated \cup Range(current_states)
<1>1. PICK U \in SUBSET NextStates(ts, s, State) :
           /\ phase = "search" /\ UNCHANGED <<ts, start, phase>>
           /\ UNCHANGED <<verbose_on_error, error, walk, hash_trace, cursor,
                          rebuilt, trace>>
           /\ num_visited_states' \in Nat /\ num_queued_states' \in Int
           /\ s \in Range(current_states)
           /\ s \in State
           /\ EvaluateThrows(ts, s) = NoError
           /\ evaluated' = evaluated \cup {s}
           /\ current_states' \in Seq(State)
           /\ Range(current_states') = Range(Tail(current_states)) \cup U
           /\ Range(Tail(current_states)) \subseteq Range(current_states)
           /\ Range(current_states)
                \subseteq {s} \cup Range(Tail(current_states))
           /\ \A n \in NextStates(ts, s, State) :
                \/ ts.hash[n] \in DOMAIN parents
                \/ \E u \in U : ts.hash[u] = ts.hash[n]
           /\ DOMAIN parents' = DOMAIN parents \cup {ts.hash[u] : u \in U}
           /\ \A h \in DOMAIN parents : parents'[h] = parents[h]
           /\ \A u \in U : parents'[ts.hash[u]] = ts.hash[s]
           /\ parents' \in [DOMAIN parents' -> HashVal]
           /\ result' \in Seq(State)
           /\ Range(result') = Range(result) \cup ({s} \cap ts.accept)
  BY EvaluateEffect
<1>2. U \subseteq State /\ ts.hash \in [State -> HashVal]
  BY <1>1 DEF NextStates, TypeOK, TransitionSystems, SystemsOver
<1>3. TypeOK'
  BY <1>1, <1>2 DEF TypeOK
<1>4. known' = known \cup U
  BY <1>1
<1>5. Starts' = Starts /\ Reachable(ts', Starts') = Reachable(ts, Starts)
  BY <1>1 DEF Starts
<1>6. s \in Reachable(ts, Starts) /\ ts.hash[s] \in DOMAIN parents
  BY <1>1 DEF HashInv
<1>7. U \subseteq Reachable(ts, Starts)
  BY <1>1, <1>6, ReachableClosed DEF TypeOK
<1>8. ASSUME NEW h \in DOMAIN parents'
      PROVE  /\ parents'[h] \in DOMAIN parents'
             /\ parents'[h] = h => \E t \in Starts' : ts'.hash[t] = h
             /\ \E t \in known' : ts'.hash[t] = h
  <2>1. CASE h \in DOMAIN parents
    BY <1>1, <1>4, <1>5, <2>1 DEF HashInv
  <2>2. CASE h \notin DOMAIN parents
    <3>1. PICK u \in U : ts.hash[u] = h
      BY <1>1, <2>2
    <3>2. parents'[h] = ts.hash[s] /\ parents'[h] # h
      BY <1>1, <1>6, <2>2, <3>1
    <3> QED
      BY <1>1, <1>4, <1>6, <3>1, <3>2
  <2> QED
    BY <1>1, <2>1, <2>2
<1>9. ASSUME NEW t \in known'
      PROVE  t \in Reachable(ts', Starts') /\ ts'.hash[t] \in DOMAIN parents'
  BY <1>1, <1>4, <1>5, <1>7 DEF HashInv
<1>10. Starts' \subseteq known'
  BY <1>4, <1>5 DEF HashInv
<1>11. ASSUME NEW t \in evaluated'
       PROVE  /\ EvaluateThrows(ts', t) = NoError
              /\ \A n \in NextStates(ts', t, State) :
                   ts'.hash[n] \in DOMAIN parents'
  <2>1. CASE t = s
    BY <1>1, <2>1
  <2>2. CASE t \in evaluated
    BY <1>1, <2>2 DEF HashInv
  <2> QED
    BY <1>1, <2>1, <2>2
<1>12. Range(result') = evaluated' \cap ts'.accept
  BY <1>1 DEF HashInv
<1> QED
  BY <1>1, <1>3, <1>8, <1>9, <1>10, <1>11, <1>12 DEF HashInv

(* The other actions leave the search as it is.                            *)
LEMMA HashInvKept ==
  ASSUME TypeOK, HashInv,
         UNCHANGED <<ts, start, current_states, parents, evaluated>>,
         phase' \in {"search", "returned"} =>
           phase \in {"search", "returned"} /\ result' = result,
         phase' = "walk" => walk' \in DOMAIN parents,
         phase' \notin {"search", "returned"} =>
           /\ current_states # <<>>
           /\ error' = EvaluateThrows(ts, Head(current_states))
           /\ error' # NoError
  PROVE  HashInv'
  BY DEF HashInv, Starts

(* The steps that find nothing keep the invariant.                         *)
LEMMA HashInvOther ==
  ASSUME TypeOK, HashInv, [Next]_vars, ~Evaluate
  PROVE  TypeOK' /\ HashInv'
<1>0. ts.hash \in [State -> HashVal]
  BY DEF TypeOK, TransitionSystems, SystemsOver
<1>1. CASE CatchError
  <2>1. /\ phase' = "walk" /\ walk' = ts.hash[Head(current_states)]
        /\ current_states # <<>>
        /\ error' = EvaluateThrows(ts, Head(current_states))
             /\ error' # NoError
        /\ UNCHANGED <<ts, start, current_states, parents, evaluated>>
    BY <1>1 DEF CatchError, Catch
  <2>2. /\ Head(current_states) \in State
        /\ Head(current_states) \in Range(current_states)
    BY <2>1, RangeOfTail, HeadTailProperties DEF TypeOK
  <2>3. walk' \in DOMAIN parents
    BY <2>1, <2>2 DEF HashInv
  <2>4. HashInv'
    BY <2>1, <2>3, HashInvKept
  <2>5. error' \in Errors /\ result' \in Seq(State)
    BY <1>1, <2>1, <2>2, EvaluateThrowsType
      DEF TypeOK, CatchError, Catch, Accepting
  <2>6. TypeOK'
    BY <1>1, <2>1, <2>3, <2>5 DEF CatchError, Catch, TypeOK, Phases
  <2> QED
    BY <2>4, <2>6
<1>2. CASE (Return \/ MonitorReturnsFalse) /\ UNCHANGED <<parents, evaluated>>
  <2> USE DEF Return, MonitorReturnsFalse, searchVars, traceVars
  <2>1. TypeOK'
    BY <1>2 DEF TypeOK, Phases
  <2>2. HashInv'
    BY <1>2, HashInvKept
  <2> QED
    BY <2>1, <2>2
<1>3. CASE WalkToParent
  <2>1. /\ phase = "walk" /\ phase' = "walk"
        /\ hash_trace' = Append(hash_trace, walk) /\ walk' = parents[walk]
        /\ UNCHANGED <<ts, start, verbose_on_error, searchVars, error, cursor,
                       rebuilt, trace, parents, evaluated>>
    BY <1>3 DEF WalkToParent, WalkOn
  <2>2. /\ walk \in HashVal /\ walk' \in DOMAIN parents /\ walk' \in HashVal
    BY <2>1 DEF HashInv, TypeOK
  <2>3. hash_trace' \in Seq(HashVal)
    BY <2>1, <2>2 DEF TypeOK
  <2>4. TypeOK'
    BY <2>1, <2>2, <2>3 DEF TypeOK, searchVars
  <2>5. HashInv'
    <3>1. /\ current_states # <<>>
          /\ error' = EvaluateThrows(ts, Head(current_states))
          /\ error' # NoError
      BY <2>1 DEF HashInv
    <3> QED
      BY <2>1, <2>2, <3>1, HashInvKept DEF searchVars
  <2> QED
    BY <2>4, <2>5
<1>4. CASE WalkToStart
  <2>1. /\ phase = "walk" /\ phase' \in {"rebuild", "threw_hash"}
        /\ hash_trace' = Append(hash_trace, walk) /\ parents[walk] = walk
        /\ phase' = "rebuild" => /\ rebuilt' = StartWithHash(walk)
                                 /\ cursor' = Len(hash_trace)
        /\ phase' = "threw_hash" => UNCHANGED <<cursor, rebuilt>>
        /\ UNCHANGED <<ts, start, verbose_on_error, searchVars, error, walk,
                       trace, parents, evaluated>>
    BY <1>4 DEF WalkToStart, WalkEnds
  <2>2. walk \in HashVal /\ walk \in DOMAIN parents
    BY <2>1 DEF HashInv, TypeOK
  <2>3. hash_trace' \in Seq(HashVal) /\ Len(hash_trace) \in Nat
    BY <2>1, <2>2, LenProperties DEF TypeOK
  <2>4. StartWithHash(walk) \in State
    <3>1. PICK s \in Starts : ts.hash[s] = walk
      BY <2>1, <2>2 DEF HashInv
    <3>2. StartWithHash(ts.hash[s]) \in Range(start)
      BY StartWithHashFound DEF Starts, TypeOK
    <3>3. Range(start) \subseteq State
      <4>1. DOMAIN start = 1 .. Len(start)
        BY LenProperties DEF TypeOK
      <4> QED
        BY <4>1, ElementOfSeq DEF Range, TypeOK
    <3> QED
      BY <3>1, <3>2, <3>3
  <2>5. rebuilt' \in State /\ cursor' \in Nat
    BY <2>1, <2>3, <2>4 DEF TypeOK
  <2>6. TypeOK'
    BY <2>1, <2>3, <2>5 DEF TypeOK, Phases, searchVars
  <2>7. HashInv'
    <3>1. /\ current_states # <<>>
          /\ error' = EvaluateThrows(ts, Head(current_states))
          /\ error' # NoError
      BY <2>1 DEF HashInv
    <3> QED
      BY <2>1, <3>1, HashInvKept DEF searchVars
  <2> QED
    BY <2>6, <2>7
<1>5. CASE MakeTraceFromHashTrace /\ UNCHANGED <<parents, evaluated>>
  <2> USE DEF MakeTraceFromHashTrace, Rebuild, RebuildAborts, RebuildThrows,
              RebuildEnds, searchVars, traceVars
  <2>1. /\ phase = "rebuild"
        /\ phase' \in {"rebuild", "aborted", "escaped", "threw"}
        /\ UNCHANGED <<ts, start, verbose_on_error, searchVars, error, walk,
                       hash_trace, parents, evaluated>>
    BY <1>5
  <2>2. rebuilt' \in State /\ trace' \in Seq(State) /\ cursor' \in Nat
    <3> rebuilt \in State /\ trace \in Seq(State) /\ cursor \in Nat
      BY DEF TypeOK
    <3>1. CASE Rebuild
      <4>1. cursor > 0 /\ cursor' = cursor - 1
        BY <3>1
      <4>2. rebuilt' \in State /\ trace' = Append(trace, rebuilt)
        BY <3>1
      <4> QED
        BY <4>1, <4>2
    <3>2. CASE RebuildAborts \/ RebuildThrows
      BY <3>2
    <3>3. CASE RebuildEnds
      BY <3>3
    <3> QED
      BY <1>5, <3>1, <3>2, <3>3
  <2>3. TypeOK'
    BY <2>1, <2>2 DEF TypeOK, Phases
  <2>4. HashInv'
    <3>1. /\ current_states # <<>>
          /\ error' = EvaluateThrows(ts, Head(current_states))
          /\ error' # NoError
      BY <2>1 DEF HashInv
    <3> QED
      BY <2>1, <3>1, HashInvKept
  <2> QED
    BY <2>3, <2>4
<1>6. CASE UNCHANGED vars
  <2>1. UNCHANGED <<ts, start, verbose_on_error, phase, searchVars, traceVars,
                    parents, evaluated>>
    BY <1>6 DEF vars, evalVars
  <2> USE DEF searchVars, traceVars
  <2>2. TypeOK'
    BY <2>1 DEF TypeOK
  <2>3. HashInv'
    BY <2>1, HashInvKept DEF HashInv
  <2> QED
    BY <2>2, <2>3
<1> QED
  BY <1>1, <1>2, <1>3, <1>4, <1>5, <1>6 DEF Next

(* The invariant of the search over hashes.                                *)
LEMMA HashInvariance == Spec => [](TypeOK /\ HashInv)
<1>1. Init => TypeOK /\ HashInv
  BY HashInvInit
<1>2. (TypeOK /\ HashInv) /\ [Next]_vars => (TypeOK /\ HashInv)'
  BY HashInvEvaluate, HashInvOther
<1> QED
  BY <1>1, <1>2, PTL DEF Spec

-----------------------------------------------------------------------------
(***************************************************************************)
(* Every step is one of the abstract search or none.                       *)
(***************************************************************************)
LEMMA SameEvaluation ==
  ASSUME NEW t, NEW s
  PROVE  /\ Abstract!EvaluateThrows(t, s) = EvaluateThrows(t, s)
         /\ Abstract!NextStates(t, s, State) = NextStates(t, s, State)
         /\ Abstract!NoError = NoError
BY DEF Abstract!EvaluateThrows, EvaluateThrows, Abstract!Thrown, Thrown,
       Abstract!Violated, Violated, Abstract!Disallowed, Disallowed,
       Abstract!Unknowns, Unknowns, Abstract!NextStates, NextStates,
       Abstract!Deadlock, Deadlock, Abstract!NoError, NoError,
       Abstract!PropertyViolation, PropertyViolation, Abstract!Simulation,
       Simulation

(* The abstract search starts with the same states.                        *)
LEMMA AbstractInit == Init => Abstract!Init
<1> SUFFICES ASSUME Init PROVE Abstract!Init
  OBVIOUS
<1>1. DOMAIN ts.hash = State
  BY HashInvInit DEF TypeOK, TransitionSystems, SystemsOver
<1>2. Outcome = "running"
  BY DEF Outcome, Init, EvalInit
<1> QED
  BY <1>1, <1>2 DEF Init, EvalInit, Abstract!Init, Abstract!Range, Range,
                    Abstract!NoError, NoError

(* Evaluating the head of the queue is exploring it, with the next states  *)
(* queued as the new ones; a state that comes up again adds nothing.       *)
LEMMA EvaluateRefines ==
  ASSUME TypeOK, HashInv, Evaluate
  PROVE  [Abstract!Next]_(Abstract!vars)
<1> DEFINE s == Head(current_states)
           frontier == Range(current_states) \ evaluated
<1>1. PICK U \in SUBSET NextStates(ts, s, State) :
           /\ phase = "search" /\ UNCHANGED <<ts, start, phase, error>>
           /\ s \in Range(current_states)
           /\ s \in State
           /\ EvaluateThrows(ts, s) = NoError
           /\ evaluated' = evaluated \cup {s}
           /\ Range(current_states') = Range(Tail(current_states)) \cup U
           /\ Range(Tail(current_states)) \subseteq Range(current_states)
           /\ Range(current_states)
                \subseteq {s} \cup Range(Tail(current_states))
           /\ \A u \in U : ts.hash[u] \notin DOMAIN parents
           /\ \A n \in NextStates(ts, s, State) :
                \/ ts.hash[n] \in DOMAIN parents
                \/ \E u \in U : ts.hash[u] = ts.hash[n]
  BY EvaluateEffect
<1>2. Outcome = "running" /\ Outcome' = "running"
  BY <1>1 DEF Outcome
<1>3. U \cap (evaluated \cup Range(current_states)) = {}
  BY <1>1 DEF HashInv
<1>4. CASE s \in evaluated
  <2>1. U = {}
    BY <1>1, <1>4 DEF HashInv
  <2>2. evaluated' = evaluated /\ frontier' = frontier
    BY <1>1, <1>4, <2>1
  <2> QED
    BY <1>1, <1>2, <2>2 DEF Abstract!vars
<1>5. CASE s \notin evaluated
  <2>1. frontier' = (frontier \ {s}) \cup U
    BY <1>1, <1>3
  <2>2. U \in SUBSET (NextStates(ts, s, State) \ (evaluated \cup frontier))
    BY <1>1, <1>3
  <2>3. \A t \in NextStates(ts, s, State) :
          \E u \in (evaluated \cup frontier) \cup U : ts.hash[t] = ts.hash[u]
    <3> SUFFICES ASSUME NEW t \in NextStates(ts, s, State)
                 PROVE  \E u \in (evaluated \cup frontier) \cup U :
                          ts.hash[t] = ts.hash[u]
      OBVIOUS
    <3>1. CASE ts.hash[t] \in DOMAIN parents
      BY <3>1 DEF HashInv
    <3>2. CASE \E u \in U : ts.hash[u] = ts.hash[t]
      BY <3>2
    <3> QED
      BY <1>1, <3>1, <3>2
  <2>4. Abstract!Explore(s)
    BY <1>1, <1>2, <1>5, <2>1, <2>2, <2>3, SameEvaluation
       DEF Abstract!Explore, Abstract!Found
  <2> QED
    BY <1>1, <2>4 DEF Abstract!Next
<1> QED
  BY <1>4, <1>5

(* All other steps end the abstract search or do nothing to it.            *)
LEMMA OtherRefines ==
  ASSUME TypeOK, HashInv, [Next]_vars, ~Evaluate
  PROVE  [Abstract!Next]_(Abstract!vars)
<1>1. CASE CatchError
  <2> DEFINE s == Head(current_states)
  <2>1. /\ UNCHANGED <<ts, start, current_states, evaluated>>
        /\ phase = "search" /\ phase' = "walk" /\ current_states # <<>>
        /\ EvaluateThrows(ts, s) # NoError
        /\ error' = EvaluateThrows(ts, s)
    BY <1>1 DEF CatchError, Catch
  <2>2. s \in State /\ s \in Range(current_states) /\ s \notin evaluated
    BY <2>1, RangeOfTail, HeadTailProperties DEF TypeOK, HashInv
  <2>3. Outcome = "running" /\ Outcome' = "failed"
    BY <2>1 DEF Outcome
  <2>4. Abstract!Fail(s)
    BY <2>1, <2>2, <2>3, SameEvaluation DEF Abstract!Fail, Range
  <2> QED
    BY <2>2, <2>4 DEF Abstract!Next
<1>2. CASE Return /\ UNCHANGED <<parents, evaluated>>
  <2>1. /\ UNCHANGED <<ts, start, current_states, evaluated, error>>
        /\ phase = "search" /\ phase' = "returned" /\ current_states = <<>>
    BY <1>2 DEF Return, searchVars, traceVars
  <2>2. Outcome = "running" /\ Outcome' = "complete"
    BY <2>1 DEF Outcome
  <2>3. Range(current_states) = {}
    BY <2>1 DEF Range
  <2> QED
    BY <2>1, <2>2, <2>3 DEF Abstract!Complete, Abstract!Next, Range
<1>3. CASE MonitorReturnsFalse /\ UNCHANGED <<parents, evaluated>>
  <2>1. /\ UNCHANGED <<ts, start, current_states, evaluated, error>>
        /\ phase = "search" /\ phase' = "returned" /\ current_states # <<>>
        /\ MonitorStops
    BY <1>3 DEF MonitorReturnsFalse, searchVars, traceVars
  <2>2. Outcome = "running" /\ Outcome' = "stopped"
    BY <2>1 DEF Outcome
  <2> QED
    BY <2>1, <2>2 DEF Abstract!Stop, Abstract!Next, Range
<1>4. CASE \/ WalkToParent \/ WalkToStart
           \/ MakeTraceFromHashTrace /\ UNCHANGED <<parents, evaluated>>
           \/ UNCHANGED vars
  <2>1. /\ UNCHANGED <<ts, start, current_states, evaluated, error>>
        /\ \/ phase' = phase
           \/ {phase, phase'} \cap {"search", "returned"} = {}
    BY <1>4 DEF vars, evalVars, searchVars, traceVars, WalkToParent, WalkOn,
       WalkToStart, WalkEnds, MakeTraceFromHashTrace, Rebuild, RebuildAborts,
       RebuildThrows, RebuildEnds
  <2>2. Outcome' = Outcome
    BY <2>1 DEF Outcome
  <2> QED
    BY <2>1, <2>2 DEF Abstract!vars, Range
<1> QED
  BY <1>1, <1>2, <1>3, <1>4 DEF Next

-----------------------------------------------------------------------------
(***************************************************************************)
(* The state that each hash found stands for, and the walk back.           *)
(***************************************************************************)
(* Which state a hash found stands for: the one queued for it.             *)
Represents(rep) ==
  /\ rep \in [DOMAIN parents -> State]
  /\ \A h \in DOMAIN parents :
       /\ ts.hash[rep[h]] = h
       /\ IF parents[h] = h THEN rep[h] \in Starts
          ELSE /\ rep[h] \in NextStates(ts, rep[parents[h]], State)
               /\ Violated(ts, rep[parents[h]]) = {}
  /\ \A s \in Range(current_states) : rep[ts.hash[s]] = s

(* Where hashes separate start states and siblings, the parents lead       *)
(* backwards along steps, and so does the walk.                            *)
GenuineInv ==
  SiblingsSeparated(ts, Starts) =>
    \E rep \in [DOMAIN parents -> State] :
      /\ Represents(rep)
      /\ phase = "walk" =>
           \E q \in Seq(State) : HashedRun(q, Len(q) - 1)
             /\ q[Len(q)] = rep[walk]

(* Nothing has been found that is not a start state.                       *)
LEMMA GenuineInit == Init => GenuineInv /\ RebuildInv
<1> SUFFICES ASSUME Init PROVE GenuineInv /\ RebuildInv
  OBVIOUS
<1>1. TypeOK
  BY HashInvInit
<1>2. RebuildInv
  BY DEF Init, EvalInit, RebuildInv
<1> SUFFICES ASSUME SiblingsSeparated(ts, Starts) PROVE GenuineInv
  BY <1>2 DEF GenuineInv
<1>3. /\ DOMAIN parents = {ts.hash[s] : s \in Starts}
      /\ \A h \in DOMAIN parents : parents[h] = h
      /\ Range(current_states) = Starts
      /\ phase = "search"
  BY DEF Init, EvalInit, Starts
<1>4. Starts \subseteq State
  <2>1. DOMAIN start = 1 .. Len(start)
    BY <1>1, LenProperties DEF TypeOK
  <2> QED
    BY <1>1, <2>1, ElementOfSeq DEF Starts, Range, TypeOK
<1> DEFINE rep == [h \in DOMAIN parents |-> CHOOSE s \in Starts :
             ts.hash[s] = h]
<1>5. \A h \in DOMAIN parents : rep[h] \in Starts /\ ts.hash[rep[h]] = h
  BY <1>3
<1>6. \A s \in Starts : rep[ts.hash[s]] = s
  BY <1>3, <1>5 DEF SiblingsSeparated, HashSeparates
<1>7. rep \in [DOMAIN parents -> State]
  BY <1>4, <1>5
<1>8. Represents(rep)
  BY <1>3, <1>5, <1>6, <1>7 DEF Represents
<1> QED
  BY <1>3, <1>7, <1>8 DEF GenuineInv

(* A state that is found has the hash of a successor of a found one.       *)
LEMMA GenuineEvaluate ==
  ASSUME TypeOK, HashInv, GenuineInv, Evaluate
  PROVE  GenuineInv'
<1> DEFINE s == Head(current_states)
<1>1. PICK U \in SUBSET NextStates(ts, s, State) :
           /\ phase = "search" /\ UNCHANGED <<ts, start, phase>>
           /\ s \in Range(current_states)
           /\ s \in State
           /\ EvaluateThrows(ts, s) = NoError
           /\ Range(current_states') = Range(Tail(current_states)) \cup U
           /\ Range(Tail(current_states)) \subseteq Range(current_states)
           /\ HashSeparates(ts, U)
           /\ \A u \in U : ts.hash[u] \notin DOMAIN parents
           /\ DOMAIN parents' = DOMAIN parents \cup {ts.hash[u] : u \in U}
           /\ \A h \in DOMAIN parents : parents'[h] = parents[h]
           /\ \A u \in U : parents'[ts.hash[u]] = ts.hash[s]
  BY EvaluateEffect
<1>2. Starts' = Starts
  BY <1>1 DEF Starts
<1> SUFFICES ASSUME SiblingsSeparated(ts, Starts) PROVE GenuineInv'
  BY <1>1, <1>2 DEF GenuineInv
<1>3. PICK rep \in [DOMAIN parents -> State] : Represents(rep)
  BY DEF GenuineInv
<1> PICK rep2 : rep2 = [h \in DOMAIN parents' |->
                          IF h \in DOMAIN parents THEN rep[h]
                          ELSE CHOOSE u \in U : ts.hash[u] = h]
  OBVIOUS
<1>4. \A h \in DOMAIN parents : rep2[h] = rep[h]
  BY <1>1
<1>5. ASSUME NEW u \in U PROVE rep2[ts.hash[u]] = u
  <2>1. rep2[ts.hash[u]] = CHOOSE v \in U : ts.hash[v] = ts.hash[u]
    BY <1>1
  <2>2. \A v \in U : ts.hash[v] = ts.hash[u] => v = u
    BY <1>1 DEF HashSeparates
  <2> QED
    BY <2>1, <2>2
<1>6. \A h \in DOMAIN parents' : h \in DOMAIN parents
        \/ \E u \in U : h = ts.hash[u]
  BY <1>1
<1>7. U \subseteq State
  BY DEF NextStates
<1>8. rep2 \in [DOMAIN parents' -> State]
  <2>1. \A h \in DOMAIN parents' : rep2[h] \in State
    BY <1>4, <1>5, <1>6, <1>7
  <2>2. rep2 = [h \in DOMAIN parents' |-> rep2[h]]
    OBVIOUS
  <2> QED
    BY <2>1, <2>2
<1>9. ts.hash[s] \in DOMAIN parents /\ rep[ts.hash[s]] = s
  BY <1>1, <1>3 DEF HashInv, Represents
<1>10. Violated(ts, s) = {}
  BY <1>1, PassMeansNoViolation
<1>11. ASSUME NEW h \in DOMAIN parents'
       PROVE  /\ ts'.hash[rep2[h]] = h
              /\ IF parents'[h] = h THEN rep2[h] \in Starts'
                 ELSE /\ rep2[h] \in NextStates(ts', rep2[parents'[h]], State)
                      /\ Violated(ts', rep2[parents'[h]]) = {}
  <2>1. CASE h \in DOMAIN parents
    <3>1. parents'[h] = parents[h] /\ parents[h] \in DOMAIN parents
      BY <1>1, <2>1 DEF HashInv
    <3> QED
      BY <1>1, <1>2, <1>3, <1>4, <2>1, <3>1 DEF Represents
  <2>2. CASE h \notin DOMAIN parents
    <3>1. PICK u \in U : h = ts.hash[u]
      BY <1>6, <2>2
    <3>2. parents'[h] = ts.hash[s] /\ parents'[h] # h /\ rep2[h] = u
      BY <1>1, <1>5, <1>9, <2>2, <3>1
    <3>3. rep2[parents'[h]] = s
      BY <1>4, <1>9, <3>2
    <3> QED
      BY <1>1, <1>10, <3>1, <3>2, <3>3
  <2> QED
    BY <2>1, <2>2
<1>12. ASSUME NEW t \in Range(current_states')
       PROVE  rep2[ts'.hash[t]] = t
  <2>1. CASE t \in U
    BY <1>1, <1>5, <2>1
  <2>2. CASE t \in Range(current_states)
    <3>1. ts.hash[t] \in DOMAIN parents /\ rep[ts.hash[t]] = t
      BY <1>3, <2>2 DEF HashInv, Represents
    <3> QED
      BY <1>1, <1>4, <3>1
  <2> QED
    BY <1>1, <2>1, <2>2
<1>13. Represents(rep2)'
  BY <1>8, <1>11, <1>12 DEF Represents
<1> QED
  BY <1>1, <1>8, <1>13 DEF GenuineInv

(* Walking along the parents and rebuilding the trace.                     *)
LEMMA GenuineOther ==
  ASSUME TypeOK, HashInv, GenuineInv, RebuildInv, [Next]_vars
  PROVE  RebuildInv' /\ (~Evaluate => GenuineInv')
<1>1. /\ hash_trace \in Seq(HashVal) /\ ts.hash \in [State -> HashVal]
      /\ current_states \in Seq(State) /\ start \in Seq(State)
  BY DEF TypeOK, TransitionSystems, SystemsOver
<1>2. CASE Evaluate
  <2>1. phase' = "search" /\ phase = "search" /\ trace' = trace
          /\ hash_trace' = hash_trace
    BY <1>2 DEF Evaluate, Visit, traceVars
  <2> QED
    BY <1>2, <2>1, NoTraceInSearch
<1>3. CASE CatchError
  <2>1. /\ Catch(ts.hash[Head(current_states)]) /\ hash_trace = <<>>
        /\ phase = "search" /\ phase' = "walk" /\ trace' = trace
        /\ walk' = ts.hash[Head(current_states)] /\ current_states # <<>>
        /\ UNCHANGED <<ts, start, current_states, parents>>
    BY <1>3 DEF CatchError, Catch, RebuildInv
  <2>2. RebuildInv'
    BY <2>1, NoTraceYet
  <2>3. \E q \in Seq(State) : /\ HashedRun(q, Len(q) - 1)'
                              /\ q[Len(q)] = Head(current_states)
    BY <1>1, <2>1, RunBegins
  <2>4. Head(current_states) \in Range(current_states)
    BY <1>1, <2>1, RangeOfTail
  <2>5. GenuineInv'
    <3> SUFFICES ASSUME SiblingsSeparated(ts, Starts)
                 PROVE  \E rep \in [DOMAIN parents -> State] :
                          /\ Represents(rep)'
                          /\ \E q \in Seq(State) :
                               /\ HashedRun(q, Len(q) - 1)'
                                                   /\ q[Len(q)] = rep[walk']
      BY <2>1 DEF GenuineInv, Starts
    <3>1. PICK rep \in [DOMAIN parents -> State] : Represents(rep)
      BY DEF GenuineInv
    <3>2. Represents(rep)'
      BY <2>1, <3>1 DEF Represents, Starts
    <3>3. rep[walk'] = Head(current_states)
      BY <2>1, <2>4, <3>1 DEF Represents
    <3> QED
      BY <2>3, <3>2, <3>3
  <2> QED
    BY <2>2, <2>5
<1>4. CASE /\ Return \/ MonitorReturnsFalse
           /\ UNCHANGED <<parents, evaluated>>
  <2>1. /\ phase = "search" /\ phase' = "returned" /\ trace' = trace
        /\ UNCHANGED <<ts, start, current_states, parents>>
    BY <1>4 DEF Return, MonitorReturnsFalse, traceVars, searchVars
  <2>2. GenuineInv'
    BY <2>1 DEF GenuineInv, Represents, Starts
  <2> QED
    BY <2>1, <2>2, NoTraceYet
<1>5. CASE WalkToParent
  <2>1. /\ phase = "walk" /\ phase' = "walk" /\ trace' = trace
        /\ WalkOn(walk, parents[walk])
        /\ walk' = parents[walk] /\ parents[walk] # walk
        /\ UNCHANGED <<ts, start, current_states, parents>>
    BY <1>5 DEF WalkToParent, WalkOn, searchVars
  <2>2. walk \in DOMAIN parents /\ parents[walk] \in DOMAIN parents
    BY <2>1 DEF HashInv
  <2>3. GenuineInv'
    <3> SUFFICES ASSUME SiblingsSeparated(ts, Starts)
                 PROVE  \E rep \in [DOMAIN parents -> State] :
                          /\ Represents(rep)'
                          /\ \E q \in Seq(State) :
                               /\ HashedRun(q, Len(q) - 1)'
                                                   /\ q[Len(q)] = rep[walk']
      BY <2>1 DEF GenuineInv, Starts
    <3>1. PICK rep \in [DOMAIN parents -> State] :
            /\ Represents(rep)
            /\ \E q \in Seq(State) : HashedRun(q, Len(q) - 1)
                 /\ q[Len(q)] = rep[walk]
      BY <2>1 DEF GenuineInv
    <3>2. PICK q \in Seq(State) : HashedRun(q, Len(q) - 1)
                 /\ q[Len(q)] = rep[walk]
      BY <3>1
    <3>3. Represents(rep)'
      BY <2>1, <3>1 DEF Represents, Starts
    <3> DEFINE p == rep[parents[walk]]
    <3>4. /\ p \in State
          /\ rep[walk] \in NextStates(ts, p, State)
          /\ Violated(ts, p) = {}
          /\ ts.hash[rep[walk]] = walk
      BY <2>1, <2>2, <3>1 DEF Represents
    <3>5. WalkOn(ts.hash[q[Len(q)]], parents[walk])
      BY <2>1, <3>2, <3>4
    <3>6. \E r \in Seq(State) : HashedRun(r, Len(r) - 1)' /\ r[Len(r)] = p
      <4>1. q[Len(q)] \in NextStates(ts, p, State)
        BY <3>2, <3>4
      <4> HIDE DEF p
      <4> QED
        BY <1>1, <3>2, <3>4, <3>5, <4>1, RunGrows
    <3> QED
      BY <2>1, <3>3, <3>6
  <2> QED
    BY <2>1, <2>3, NoTraceYet
<1>6. CASE WalkToStart
  <2>1. /\ phase = "walk" /\ phase' \notin {"walk", "search"}
             /\ WalkEnds(walk)
        /\ parents[walk] = walk
        /\ UNCHANGED <<ts, start, current_states, parents>>
    BY <1>6 DEF WalkToStart, WalkEnds, searchVars
  <2>2. GenuineInv'
    BY <2>1 DEF GenuineInv, Represents, Starts
  <2>3. walk \in DOMAIN parents /\ trace = <<>>
    BY <2>1 DEF HashInv, RebuildInv
  <2>4. ASSUME SiblingsSeparated(ts, Range(start))
        PROVE  \E q \in Seq(State) : /\ HashedRun(q, Len(q) - 1)
                                     /\ q[Len(q)] \in Range(start)
                                     /\ walk = ts.hash[q[Len(q)]]
    <3>1. PICK rep \in [DOMAIN parents -> State] :
            /\ Represents(rep)
            /\ \E q \in Seq(State) : HashedRun(q, Len(q) - 1)
                 /\ q[Len(q)] = rep[walk]
      BY <2>1, <2>4 DEF GenuineInv, Starts
    <3>2. rep[walk] \in Range(start) /\ ts.hash[rep[walk]] = walk
      BY <2>1, <2>3, <3>1 DEF Represents, Starts
    <3> QED
      BY <3>1, <3>2
  <2>5. RebuildInv'
    BY <1>1, <2>1, <2>3, <2>4, RebuildStarts
  <2> QED
    BY <2>2, <2>5
<1>7. CASE MakeTraceFromHashTrace /\ UNCHANGED <<parents, evaluated>>
  <2>1. RebuildInv'
    BY <1>7, RebuildContinues DEF TypeOK
  <2>2. /\ phase' # "walk"
        /\ UNCHANGED <<ts, start, current_states, parents>>
    BY <1>7 DEF MakeTraceFromHashTrace, Rebuild, RebuildAborts, RebuildThrows,
                RebuildEnds, searchVars
  <2> QED
    BY <2>1, <2>2 DEF GenuineInv, Represents, Starts
<1>8. CASE UNCHANGED vars
  <2>1. UNCHANGED <<ts, start, phase, current_states, hash_trace, cursor,
                    rebuilt, trace, walk, parents>>
    BY <1>8 DEF vars, evalVars, searchVars, traceVars
  <2>2. RebuildInv'
    BY <2>1, RebuildKept
  <2> QED
    BY <2>1, <2>2 DEF GenuineInv, Represents, HashedRun, Starts
<1> QED
  BY <1>2, <1>3, <1>4, <1>5, <1>6, <1>7, <1>8 DEF Next

(* The invariant of walk and trace.                                        *)
LEMMA GenuineInvariance == Spec => [](GenuineInv /\ RebuildInv)
<1>1. TypeOK /\ HashInv /\ (GenuineInv /\ RebuildInv) /\ [Next]_vars
        => (GenuineInv /\ RebuildInv)'
  BY GenuineEvaluate, GenuineOther
<1> QED
  BY <1>1, GenuineInit, HashInvariance, PTL DEF Spec

-----------------------------------------------------------------------------
(***************************************************************************)
(* The theorems.                                                           *)
(***************************************************************************)
(* Every variable keeps its type.                                          *)
THEOREM TypeCorrect == Spec => []TypeOK
BY HashInvariance, PTL

(* Hash compaction loses states to collisions and nothing else.            *)
THEOREM LossOnly == Spec => []LossOnlyByCollision
<1>1. TypeOK /\ HashInv => LossOnlyByCollision
  <2> SUFFICES ASSUME TypeOK, HashInv, phase = "returned",
                        current_states = <<>>
               PROVE  /\ Starts \subseteq evaluated
                      /\ evaluated \subseteq Reachable(ts, Starts)
                      /\ Range(result) = evaluated \cap ts.accept
                      /\ \A s \in evaluated :
                           /\ EvaluateThrows(ts, s) = NoError
                           /\ \A n \in NextStates(ts, s, State) :
                                \E e \in evaluated : ts.hash[e] = ts.hash[n]
                      /\ HashSeparates(ts, State) =>
                           evaluated = Reachable(ts, Starts)
    BY DEF LossOnlyByCollision
  <2>1. Range(current_states) = {}
    BY DEF Range
  <2>2. /\ Starts \subseteq evaluated
        /\ evaluated \subseteq Reachable(ts, Starts)
        /\ Range(result) = evaluated \cap ts.accept
        /\ \A s \in evaluated : EvaluateThrows(ts, s) = NoError
    BY <2>1 DEF HashInv
  <2>3. ASSUME NEW s \in evaluated, NEW n \in NextStates(ts, s, State)
        PROVE  \E e \in evaluated : ts.hash[e] = ts.hash[n]
    BY <2>1 DEF HashInv
  <2>4. ASSUME HashSeparates(ts, State)
        PROVE  Reachable(ts, Starts) \subseteq evaluated
    <3>1. ASSUME NEW s \in evaluated
          PROVE  NextStates(ts, s, State) \subseteq evaluated
      <4> SUFFICES ASSUME NEW n \in NextStates(ts, s, State)
                   PROVE  n \in evaluated
        OBVIOUS
      <4>1. PICK e \in evaluated : ts.hash[e] = ts.hash[n]
        BY <2>3
      <4>2. e \in State /\ n \in State
        BY DEF TypeOK, NextStates
      <4>3. e = n
        BY <2>4, <4>1, <4>2 DEF HashSeparates
      <4> QED
        BY <4>3
    <3>2. Closed(ts, Starts, evaluated)
      BY <2>2, <3>1 DEF Closed
    <3> QED
      BY <3>2 DEF Reachable, TypeOK
  <2> QED
    BY <2>2, <2>3, <2>4
<1> QED
  BY <1>1, HashInvariance, PTL

(* Where hashes separate the start states and siblings, the trace thrown   *)
(* is a run to a state whose evaluation throws the error, whatever states  *)
(* collide elsewhere, and nothing else is thrown.                          *)
THEOREM Genuine == Spec => []TraceIsGenuine
<1>1. TypeOK /\ HashInv /\ RebuildInv => TraceIsGenuine
  <2> SUFFICES ASSUME TypeOK, HashInv, RebuildInv,
                      SiblingsSeparated(ts, Starts)
               PROVE  /\ phase \notin {"aborted", "escaped"}
                      /\ phase = "threw" =>
                           /\ IsPath(ts, Starts, trace)
                           /\ EvaluateThrows(ts, Last(trace)) = error
    BY DEF TraceIsGenuine
  <2>1. /\ phase \notin {"aborted", "escaped"}
        /\ phase = "threw" =>
             /\ IsPath(ts, Starts, trace)
             /\ Last(trace) = Head(current_states)
    BY RebuildIsGenuine DEF Starts, TypeOK
  <2>2. phase = "threw" => error = EvaluateThrows(ts, Head(current_states))
    BY DEF HashInv
  <2> QED
    BY <2>1, <2>2
<1> QED
  BY <1>1, HashInvariance, GenuineInvariance, PTL

(* Eval_BFS_Hashing implements the search that a backend promises, which   *)
(* confuses states of one hash only: every step is one of its steps.       *)
THEOREM Refinement == Spec => Abstract!SafeSpec
<1>1. TypeOK /\ HashInv /\ [Next]_vars => [Abstract!Next]_(Abstract!vars)
  BY EvaluateRefines, OtherRefines
<1> QED
  BY <1>1, AbstractInit, HashInvariance, PTL DEF Spec, Abstract!SafeSpec
=============================================================================
