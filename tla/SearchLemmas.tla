---------------------------- MODULE SearchLemmas ----------------------------
(***************************************************************************)
(* Facts about queues and minima, and about what TransitionSystem::Evaluate*)
(* returns and throws, for the proofs about the search backends.           *)
(***************************************************************************)
EXTENDS EvalBase, SequenceTheorems, FiniteSetTheorems, WellFoundedInduction,
        TLAPS

(* A non-empty set of naturals has a least element.                        *)
LEMMA LeastNatural ==
  ASSUME NEW S \in SUBSET Nat, S # {}
  PROVE  \E i \in S : \A j \in S : i <= j
<1>1. \E i \in S : \A j \in S : ~ (<<j, i>> \in OpToRel(<, Nat))
  BY NatLessThanWellFounded, WFMin
<1>2. PICK i \in S : \A j \in S : ~ (<<j, i>> \in OpToRel(<, Nat))
  BY <1>1
<1>3. ASSUME NEW j \in S PROVE i <= j
  <2>1. <<j, i>> \notin OpToRel(<, Nat)
    BY <1>2
  <2>2. ~ (j < i)
    BY <2>1 DEF OpToRel
  <2>3. i \in Nat /\ j \in Nat
    OBVIOUS
  <2> QED
    BY <2>2, <2>3
<1> QED
  BY <1>3

(* Popping the head of a queue keeps the other elements.                   *)
LEMMA RangeOfTail ==
  ASSUME NEW S, NEW q \in Seq(S), q # <<>>
  PROVE  /\ Head(q) \in Range(q)
         /\ Range(Tail(q)) \subseteq Range(q)
         /\ Range(q) \subseteq {Head(q)} \cup Range(Tail(q))
<1>1. /\ Len(q) \in Nat \ {0}
      /\ DOMAIN q = 1 .. Len(q)
      /\ Tail(q) \in Seq(S)
      /\ Len(Tail(q)) = Len(q) - 1
      /\ \A i \in 1 .. Len(Tail(q)) : Tail(q)[i] = q[i + 1]
  BY EmptySeq, LenProperties, HeadTailProperties
<1>2. Head(q) = q[1]
  BY <1>1
<1>3. DOMAIN Tail(q) = 1 .. Len(q) - 1
  BY <1>1, LenProperties
<1>4. Head(q) \in Range(q)
  BY <1>1, <1>2 DEF Range
<1>5. ASSUME NEW i \in DOMAIN Tail(q) PROVE Tail(q)[i] \in Range(q)
  BY <1>1, <1>3 DEF Range
<1>6. ASSUME NEW i \in DOMAIN q
      PROVE  q[i] \in {Head(q)} \cup Range(Tail(q))
  <2>1. CASE i = 1
    BY <2>1, <1>2
  <2>2. CASE i # 1
    <3>1. i - 1 \in DOMAIN Tail(q) /\ Tail(q)[i - 1] = q[i]
      BY <2>2, <1>1, <1>3
    <3> QED
      BY <3>1 DEF Range
  <2> QED
    BY <2>1, <2>2
<1> QED
  BY <1>4, <1>5, <1>6 DEF Range

(* Appending a queue to another adds its elements.                         *)
LEMMA RangeOfConcat ==
  ASSUME NEW S, NEW q \in Seq(S), NEW r \in Seq(S)
  PROVE  Range(q \o r) = Range(q) \cup Range(r)
<1>1. /\ q \o r \in Seq(S)
      /\ Len(q) \in Nat
      /\ Len(r) \in Nat
      /\ Len(q \o r) = Len(q) + Len(r)
      /\ \A i \in 1 .. Len(q) + Len(r) :
           (q \o r)[i] = IF i <= Len(q) THEN q[i] ELSE r[i - Len(q)]
      /\ DOMAIN q = 1 .. Len(q)
      /\ DOMAIN r = 1 .. Len(r)
  BY ConcatProperties, LenProperties
<1>2. DOMAIN (q \o r) = 1 .. Len(q) + Len(r)
  BY <1>1, LenProperties
<1>3. ASSUME NEW i \in DOMAIN (q \o r)
      PROVE  (q \o r)[i] \in Range(q) \cup Range(r)
  BY <1>1, <1>2 DEF Range
<1>4. ASSUME NEW i \in DOMAIN q PROVE q[i] \in Range(q \o r)
  BY <1>1, <1>2 DEF Range
<1>5. ASSUME NEW i \in DOMAIN r PROVE r[i] \in Range(q \o r)
  <2>1. Len(q) + i \in DOMAIN (q \o r) /\ (q \o r)[Len(q) + i] = r[i]
    BY <1>1, <1>2
  <2> QED
    BY <2>1 DEF Range
<1> QED
  BY <1>3, <1>4, <1>5 DEF Range

(* A queue once its head is popped and others are pushed.                  *)
LEMMA PopAndPush ==
  ASSUME NEW S, NEW q \in Seq(S), q # <<>>, NEW r \in Seq(S)
  PROVE  /\ Head(q) = q[1] /\ Head(q) \in S
         /\ Len(q) \in Nat \ {0} /\ Len(r) \in Nat
         /\ Tail(q) \o r \in Seq(S)
         /\ Len(Tail(q) \o r) = Len(q) - 1 + Len(r)
         /\ \A i \in 1 .. Len(q) - 1 : (Tail(q) \o r)[i] = q[i + 1]
         /\ \A i \in 1 .. Len(r) : (Tail(q) \o r)[Len(q) - 1 + i] = r[i]
<1>1. /\ Len(q) \in Nat \ {0}
      /\ Tail(q) \in Seq(S)
      /\ Len(Tail(q)) = Len(q) - 1
      /\ \A i \in 1 .. Len(Tail(q)) : Tail(q)[i] = q[i + 1]
      /\ Head(q) = q[1] /\ Head(q) \in S
  BY EmptySeq, LenProperties, HeadTailProperties
<1>2. Len(r) \in Nat
  BY LenProperties
<1>3. /\ Tail(q) \o r \in Seq(S)
      /\ Len(Tail(q) \o r) = Len(Tail(q)) + Len(r)
      /\ \A i \in 1 .. Len(Tail(q)) + Len(r) :
           (Tail(q) \o r)[i] = IF i <= Len(Tail(q)) THEN Tail(q)[i]
                               ELSE r[i - Len(Tail(q))]
  BY <1>1, ConcatProperties
<1>4. ASSUME NEW i \in 1 .. Len(q) - 1 PROVE (Tail(q) \o r)[i] = q[i + 1]
  BY <1>1, <1>2, <1>3
<1>5. ASSUME NEW i \in 1 .. Len(r)
      PROVE  (Tail(q) \o r)[Len(q) - 1 + i] = r[i]
  <2>1. /\ Len(q) - 1 + i \in 1 .. Len(Tail(q)) + Len(r)
        /\ ~ (Len(q) - 1 + i <= Len(Tail(q)))
        /\ (Len(q) - 1 + i) - Len(Tail(q)) = i
    BY <1>1, <1>2
  <2> QED
    BY <1>3, <2>1
<1> QED
  BY <1>1, <1>2, <1>3, <1>4, <1>5

(* The orders in which a set of states can be queued hold exactly the set. *)
LEMMA OrderOfSet ==
  ASSUME NEW U \in SUBSET State, NEW order \in SetToSeqs(U)
  PROVE  /\ order \in Seq(State) /\ Range(order) = U
         /\ \A i, j \in DOMAIN order : order[i] = order[j] => i = j
<1>1. IsFiniteSet(U) /\ Cardinality(U) \in Nat
  BY FiniteAssumption, FS_Subset, FS_CardinalityType
<1> DEFINE D == 1 .. Cardinality(U)
<1>2. order \in [D -> U] /\ \A i, j \in D : i # j => order[i] # order[j]
  BY DEF SetToSeqs
<1>3. order \in Injection(D, U)
  BY <1>2 DEF Injection, IsInjective
<1>4. Cardinality(D) = Cardinality(U)
  BY <1>1, FS_Interval
<1>5. order \in Surjection(D, U)
  BY <1>1, <1>3, <1>4, FS_Injection
<1>6. Range(order) = U
  BY <1>2, <1>5 DEF Surjection, Range
<1>7. order \in Seq(U)
  BY <1>1, <1>2
<1>8. order \in Seq(State)
  BY <1>7, SeqMonotonic
<1>9. \A i, j \in DOMAIN order : order[i] = order[j] => i = j
  BY <1>2
<1> QED
  BY <1>6, <1>8, <1>9

(* What Evaluate throws is one of the two errors, or nothing.              *)
LEMMA ThrownType ==
  ASSUME NEW t \in TransitionSystems, NEW s, NEW Keep
  PROVE  Thrown(t, s, Keep) \in Errors
<1>1. CASE Violated(t, s) # {}
  <2>1. Violated(t, s) \in SUBSET Nat
    <3>1. t.invariant \in Seq(SUBSET State)
      BY DEF TransitionSystems, SystemsOver
    <3>2. DOMAIN t.invariant = 1 .. Len(t.invariant)
      BY <3>1, LenProperties
    <3> QED
      BY <3>2 DEF Violated
  <2>2. \E i \in Violated(t, s) : \A j \in Violated(t, s) : i <= j
    BY <1>1, <2>1, LeastNatural
  <2>3. (CHOOSE i \in Violated(t, s) : \A j \in Violated(t, s) : i <= j)
          \in Nat
    BY <2>1, <2>2
  <2> QED
    BY <1>1, <2>3 DEF Thrown, Errors, PropertyViolation
<1>2. CASE Violated(t, s) = {}
  BY <1>2 DEF Thrown, Errors, Deadlock, NoError
<1> QED
  BY <1>1, <1>2

(* With the exceptions of the simulating system, and SIMULATION, likewise. *)
LEMMA EvaluateThrowsType ==
  ASSUME ts \in TransitionSystems, NEW s
  PROVE  EvaluateThrows(ts, s) \in Errors
<1> DEFINE thrown(sim) == Thrown(sim.by, sim.cast[s], State)
           failing == {sim \in ts.simulated_by : thrown(sim) # NoError}
<1>1. ASSUME NEW sim \in ts.simulated_by
      PROVE  thrown(sim) \in Errors
  <2>1. sim.by \in SystemsOver({})
    BY <1>1 DEF TransitionSystems, SystemsOver
  <2>2. sim.by \in TransitionSystems
    BY <2>1 DEF TransitionSystems, SystemsOver
  <2> QED
    BY <2>2, ThrownType
<1>2. CASE failing # {}
  BY <1>1, <1>2 DEF EvaluateThrows
<1>3. CASE failing = {}
  BY <1>3, ThrownType
    DEF EvaluateThrows, Simulation, PropertyViolation, Errors
<1> QED
  BY <1>2, <1>3

(* find_if finds a start state with the hash of a start state.             *)
LEMMA StartWithHashFound ==
  ASSUME start \in Seq(State), NEW s \in Range(start)
  PROVE  /\ StartWithHash(ts.hash[s]) \in Range(start)
         /\ ts.hash[StartWithHash(ts.hash[s])] = ts.hash[s]
<1> DEFINE h == ts.hash[s]
           I == {i \in DOMAIN start : ts.hash[start[i]] = h}
<1>1. DOMAIN start = 1 .. Len(start) /\ Len(start) \in Nat
  BY LenProperties
<1>2. I \in SUBSET Nat /\ I # {}
  BY <1>1 DEF Range
<1>3. PICK i \in I : \A j \in I : i <= j
  BY <1>2, LeastNatural
<1>4. ASSUME NEW j \in 1 .. i - 1 PROVE ts.hash[start[j]] # h
  <2>1. j \in DOMAIN start /\ ~ (i <= j)
    BY <1>1, <1>2, <1>3
  <2> QED
    BY <1>3, <2>1
<1>5. \E k \in DOMAIN start :
        /\ ts.hash[start[k]] = h
        /\ \A j \in 1 .. k - 1 : ts.hash[start[j]] # h
  BY <1>3, <1>4
<1> QED
  BY <1>5 DEF StartWithHash, Range

(* The successors of a reachable state are reachable.                      *)
LEMMA ReachableClosed ==
  ASSUME NEW S, NEW s \in Reachable(ts, S), ts \in TransitionSystems
  PROVE  NextStates(ts, s, State) \subseteq Reachable(ts, S)
  BY DEF Reachable, Closed, NextStates

-----------------------------------------------------------------------------
(***************************************************************************)
(* MakeTraceFromHashTrace: where hashes separate start states and siblings,*)
(* it retraces the run that the walk along the parents went back.          *)
(***************************************************************************)
(* A state evaluated without error violates no invariant.                  *)
LEMMA PassMeansNoViolation ==
  ASSUME NEW t, NEW s, EvaluateThrows(t, s) = NoError
  PROVE  Violated(t, s) = {}
<1> DEFINE thrown(sim) == Thrown(sim.by, sim.cast[s], State)
           failing == {sim \in t.simulated_by : thrown(sim) # NoError}
<1>1. failing = {}
  <2> SUFFICES ASSUME failing # {} PROVE FALSE
    OBVIOUS
  <2>1. thrown(CHOOSE sim \in failing : TRUE) # NoError
    <3>1. (CHOOSE sim \in failing : TRUE) \in failing
      OBVIOUS
    <3> QED
      BY <3>1
  <2> QED
    BY <2>1 DEF EvaluateThrows
<1>2. Simulation # NoError /\ \A i : PropertyViolation(i) # NoError
  BY DEF Simulation, PropertyViolation, NoError
<1>3. Thrown(t, s, State) = NoError
  BY <1>1, <1>2 DEF EvaluateThrows
<1> QED
  BY <1>2, <1>3 DEF Thrown

(* q leads from the head of the queue, one step back at a time and through *)
(* states that violate no invariant, and the first n hashes of the trace   *)
(* are those of its states.                                                *)
HashedRun(q, n) ==
  /\ q \in Seq(State) /\ q # <<>>
  /\ current_states # <<>> /\ q[1] = Head(current_states)
  /\ \A i \in 1 .. Len(q) - 1 :
       /\ q[i] \in NextStates(ts, q[i + 1], State)
       /\ Violated(ts, q[i + 1]) = {}
  /\ n = Len(hash_trace)
  /\ \A i \in 1 .. n : hash_trace[i] = ts.hash[q[i]]

(* The trace is q backwards, up to where the rebuilding is.                *)
Rebuilding(q) ==
  /\ phase \notin {"aborted", "escaped"}
  /\ phase = "rebuild" =>
       cursor < Len(q) /\ rebuilt = q[cursor + 1]
         /\ Len(trace) = Len(q) - 1 - cursor
  /\ phase = "threw" => Len(trace) = Len(q)
  /\ \A i \in 1 .. Len(trace) : trace[i] = q[Len(q) + 1 - i]

(* Before the rebuilding there is no trace; then hashes that separate start*)
(* states and siblings leave it no way but backwards along such a run.     *)
RebuildInv ==
  /\ phase \in {"search", "walk"} => trace = <<>>
  /\ phase = "search" => hash_trace = <<>>
  /\ /\ phase \in {"rebuild", "threw", "aborted", "escaped"}
     /\ SiblingsSeparated(ts, Range(start))
     => \E q \in Seq(State) : /\ HashedRun(q, Len(q))
                              /\ q[Len(q)] \in Range(start)
                              /\ Rebuilding(q)

(* The rebuilding starts at the start state that the walk ended at.        *)
LEMMA RebuildStarts ==
  ASSUME start \in Seq(State), hash_trace \in Seq(HashVal),
         trace = <<>>, ts.hash \in [State -> HashVal],
         NEW h, WalkEnds(h),
         SiblingsSeparated(ts, Range(start)) =>
           \E q \in Seq(State) : /\ HashedRun(q, Len(q) - 1)
                                 /\ q[Len(q)] \in Range(start)
                                 /\ h = ts.hash[q[Len(q)]]
  PROVE  RebuildInv'
<1>0. phase' \notin {"search", "walk"} /\ ts' = ts /\ start' = start
  BY DEF WalkEnds
<1> SUFFICES ASSUME SiblingsSeparated(ts, Range(start))
             PROVE  RebuildInv'
  BY <1>0 DEF RebuildInv
<1> PICK q \in Seq(State) : /\ HashedRun(q, Len(q) - 1)
                            /\ q[Len(q)] \in Range(start)
                            /\ h = ts.hash[q[Len(q)]]
  OBVIOUS
<1> DEFINE n == Len(q)
           s == q[n]
<1>1. q \in Seq(State) /\ n \in Nat \ {0} /\ s \in State
  <2>1. q \in Seq(State) /\ n \in Nat \ {0}
    BY EmptySeq, LenProperties DEF HashedRun
  <2> QED
    BY <2>1, ElementOfSeq
<1>2. /\ UNCHANGED <<ts, start, current_states, trace>>
      /\ hash_trace' = Append(hash_trace, ts.hash[s])
      /\ phase' \in {"rebuild", "threw_hash"}
      /\ phase' = "rebuild" => /\ rebuilt' = StartWithHash(ts.hash[s])
                               /\ cursor' = n - 1
  BY DEF WalkEnds, HashedRun, searchVars
<1>3. /\ Len(hash_trace') = n
      /\ \A i \in 1 .. n - 1 : hash_trace'[i] = hash_trace[i]
      /\ hash_trace'[n] = ts.hash[s]
  <2>1. ts.hash[s] \in HashVal /\ Len(hash_trace) = n - 1
    BY <1>1 DEF HashedRun
  <2>2. Len(Append(hash_trace, ts.hash[s])) = n
        /\ \A i \in 1 .. n - 1 :
             Append(hash_trace, ts.hash[s])[i] = hash_trace[i]
        /\ Append(hash_trace, ts.hash[s])[n] = ts.hash[s]
    BY <1>1, <2>1, AppendProperties
  <2> QED
    BY <1>2, <2>2
<1>4. \A i \in 1 .. n : hash_trace'[i] = ts.hash[q[i]]
  <2>1. \A i \in 1 .. n : i \in 1 .. n - 1 \/ i = n
    BY <1>1
  <2> QED
    BY <1>3, <2>1 DEF HashedRun
<1>5. HashedRun(q, n)'
  BY <1>1, <1>2, <1>3, <1>4 DEF HashedRun
<1>6. StartWithHash(ts.hash[s]) = s
  <2>1. /\ StartWithHash(ts.hash[s]) \in Range(start)
        /\ ts.hash[StartWithHash(ts.hash[s])] = ts.hash[s]
    BY StartWithHashFound
  <2> QED
    BY <2>1 DEF SiblingsSeparated, HashSeparates
<1>7. Rebuilding(q)'
  <2>1. Len(trace') = 0
    BY <1>2
  <2>2. (n - 1) + 1 = n /\ n - 1 < n /\ 0 = n - 1 - (n - 1)
    BY <1>1
  <2> QED
    BY <1>1, <1>2, <1>6, <2>1, <2>2 DEF Rebuilding
<1> QED
  BY <1>1, <1>2, <1>5, <1>7 DEF RebuildInv

(* Where hashes separate siblings, the next hash of the trace is that of   *)
(* one successor only, and the filtered evaluation does not throw.         *)
LEMMA OneMatch ==
  ASSUME SiblingsSeparated(ts, Range(start)),
         NEW q, HashedRun(q, Len(q)), Rebuilding(q),
         phase = "rebuild", cursor \in Nat, cursor > 0
  PROVE  /\ cursor \in 1 .. Len(q) - 1 /\ q[cursor] \in State
         /\ rebuilt = q[cursor + 1]
         /\ NextStates(ts, rebuilt, Matching) = {q[cursor]}
         /\ Thrown(ts, rebuilt, Matching) = NoError
<1>1. q \in Seq(State) /\ Len(q) \in Nat
  BY LenProperties DEF HashedRun
<1>2. cursor \in 1 .. Len(q) - 1 /\ rebuilt = q[cursor + 1]
  BY <1>1 DEF Rebuilding
<1>3. q[cursor] \in State /\ rebuilt \in State
  <2>1. cursor \in 1 .. Len(q) /\ cursor + 1 \in 1 .. Len(q)
    BY <1>1, <1>2
  <2> QED
    BY <1>1, <1>2, <2>1, ElementOfSeq
<1>4. hash_trace[cursor] = ts.hash[q[cursor]]
  <2>1. cursor \in 1 .. Len(q)
    BY <1>1, <1>2
  <2> QED
    BY <2>1 DEF HashedRun
<1>5. q[cursor] \in NextStates(ts, rebuilt, State)
        /\ Violated(ts, rebuilt) = {}
  BY <1>2 DEF HashedRun
<1>6. NextStates(ts, rebuilt, Matching) = {q[cursor]}
  <2>1. q[cursor] \in NextStates(ts, rebuilt, Matching)
    BY <1>3, <1>4, <1>5 DEF NextStates, Matching
  <2>2. ASSUME NEW m \in NextStates(ts, rebuilt, Matching) PROVE m = q[cursor]
    <3>1. /\ m \in NextStates(ts, rebuilt, State)
          /\ ts.hash[m] = ts.hash[q[cursor]]
      BY <1>4 DEF NextStates, Matching
    <3> QED
      BY <1>3, <1>5, <3>1 DEF SiblingsSeparated, HashSeparates
  <2> QED
    BY <2>1, <2>2
<1>7. Thrown(ts, rebuilt, Matching) = NoError
  BY <1>5, <1>6 DEF Thrown
<1> QED
  BY <1>2, <1>3, <1>6, <1>7

(* So every step of the rebuilding adds the next state of the run.         *)
LEMMA RebuildContinues ==
  ASSUME trace \in Seq(State), rebuilt \in State, cursor \in Nat,
         RebuildInv, MakeTraceFromHashTrace
  PROVE  RebuildInv'
<1> USE DEF MakeTraceFromHashTrace, Rebuild, RebuildAborts, RebuildThrows,
            RebuildEnds, searchVars, traceVars
<1>1. /\ phase = "rebuild"
      /\ phase' \in {"rebuild", "threw", "aborted", "escaped"}
      /\ UNCHANGED <<ts, start, current_states, hash_trace>>
  OBVIOUS
<1> SUFFICES ASSUME SiblingsSeparated(ts, Range(start))
             PROVE  RebuildInv'
  BY <1>1 DEF RebuildInv
<1>2. PICK q \in Seq(State) : /\ HashedRun(q, Len(q))
                              /\ q[Len(q)] \in Range(start)
                              /\ Rebuilding(q)
  BY <1>1 DEF RebuildInv
<1>3. HashedRun(q, Len(q))'
  BY <1>1, <1>2 DEF HashedRun
<1>4. Rebuilding(q)'
  <2> SUFFICES /\ phase' \notin {"aborted", "escaped"}
               /\ phase' = "rebuild" =>
                    /\ cursor' < Len(q) /\ rebuilt' = q[cursor' + 1]
                    /\ Len(trace') = Len(q) - 1 - cursor'
               /\ phase' = "threw" => Len(trace') = Len(q)
               /\ \A i \in 1 .. Len(trace') : trace'[i] = q[Len(q) + 1 - i]
    BY <1>1 DEF Rebuilding
  <2>1. /\ cursor < Len(q) /\ rebuilt = q[cursor + 1]
        /\ Len(trace) = Len(q) - 1 - cursor
        /\ \A i \in 1 .. Len(trace) : trace[i] = q[Len(q) + 1 - i]
    BY <1>1, <1>2 DEF Rebuilding
  <2>2. Len(q) \in Nat /\ Len(trace) \in Nat
    BY LenProperties
  <2>3. /\ Len(Append(trace, rebuilt)) = Len(q) - cursor
        /\ \A i \in 1 .. Len(q) - cursor :
             Append(trace, rebuilt)[i] = q[Len(q) + 1 - i]
    <3>1. /\ Len(Append(trace, rebuilt)) = Len(trace) + 1
          /\ \A i \in 1 .. Len(trace) : Append(trace, rebuilt)[i] = trace[i]
          /\ Append(trace, rebuilt)[Len(trace) + 1] = rebuilt
      BY AppendProperties
    <3>2. Len(trace) + 1 = Len(q) - cursor
      BY <2>1, <2>2
    <3>3. ASSUME NEW i \in 1 .. Len(q) - cursor
          PROVE  Append(trace, rebuilt)[i] = q[Len(q) + 1 - i]
      <4>1. CASE i \in 1 .. Len(trace)
        BY <2>1, <3>1, <4>1
      <4>2. CASE i = Len(trace) + 1
        <5>1. Len(q) + 1 - i = cursor + 1
          BY <2>2, <3>2, <4>2
        <5> QED
          BY <2>1, <3>1, <4>2, <5>1
      <4> QED
        BY <2>2, <3>2, <4>1, <4>2
    <3> QED
      BY <3>1, <3>2, <3>3
  <2>4. CASE cursor > 0
    <3>1. /\ NextStates(ts, rebuilt, Matching) = {q[cursor]}
          /\ Thrown(ts, rebuilt, Matching) = NoError
          /\ q[cursor] \in State
      BY <1>1, <1>2, <2>4, OneMatch
    <3>2. Cardinality(NextStates(ts, rebuilt, Matching)) = 1
      BY <3>1, FS_Singleton
    <3>3. /\ rebuilt' = q[cursor] /\ cursor' = cursor - 1
          /\ trace' = Append(trace, rebuilt) /\ phase' = "rebuild"
      <4>1. Rebuild
        <5>1. ~RebuildAborts
          BY <3>2
        <5>2. ~RebuildThrows
          BY <3>1
        <5>3. ~RebuildEnds
          BY <2>4
        <5> HIDE DEF Rebuild, RebuildAborts, RebuildThrows, RebuildEnds
        <5> QED
          BY <5>1, <5>2, <5>3
      <4>2. PICK m \in State : /\ NextStates(ts, rebuilt, Matching) = {m}
                               /\ rebuilt' = m
        BY <4>1
      <4>3. m = q[cursor]
        BY <3>1, <4>2
      <4> QED
        BY <1>1, <4>1, <4>2, <4>3
    <3>4. /\ cursor' < Len(q) /\ cursor' + 1 = cursor
          /\ Len(q) - cursor = Len(q) - 1 - cursor'
      BY <2>1, <2>2, <3>3
    <3> QED
      BY <2>3, <3>3, <3>4
  <2>5. CASE cursor = 0
    <3>1. trace' = Append(trace, rebuilt) /\ phase' = "threw"
      BY <2>5
    <3>2. Len(q) - cursor = Len(q)
      BY <2>2, <2>5
    <3> QED
      BY <2>3, <3>1, <3>2
  <2> QED
    BY <2>4, <2>5
<1> QED
  BY <1>1, <1>2, <1>3, <1>4 DEF RebuildInv

(* There is no trace to keep before the rebuilding, nor when it does not   *)
(* take place.                                                             *)
LEMMA NoTraceYet ==
  ASSUME RebuildInv, trace' = trace, phase \in {"search", "walk"},
         phase' \in {"walk", "returned", "threw_hash"}
  PROVE  RebuildInv'
BY DEF RebuildInv

(* There is no trace while the search goes on.                             *)
LEMMA NoTraceInSearch ==
  ASSUME RebuildInv, trace' = trace, hash_trace' = hash_trace,
         phase = "search", phase' = "search"
  PROVE  RebuildInv'
BY DEF RebuildInv

(* What was rebuilt of the trace stays.                                    *)
LEMMA RebuildKept ==
  ASSUME RebuildInv,
         UNCHANGED <<ts, start, phase, current_states, hash_trace, cursor,
                     rebuilt, trace>>
  PROVE  RebuildInv'
BY DEF RebuildInv, HashedRun, Rebuilding

(* The trace thrown is a run from a start state to the state that threw,   *)
(* and nothing else ever leaves the rebuilding.                            *)
LEMMA RebuildIsGenuine ==
  ASSUME RebuildInv, SiblingsSeparated(ts, Range(start)), trace \in Seq(State)
  PROVE  /\ phase \notin {"aborted", "escaped"}
         /\ phase = "threw" =>
              /\ IsPath(ts, Range(start), trace)
              /\ Last(trace) = Head(current_states)
              /\ Len(trace) = Len(hash_trace)
<1> SUFFICES ASSUME phase \in {"rebuild", "threw", "aborted", "escaped"}
             PROVE  /\ phase \notin {"aborted", "escaped"}
                    /\ phase = "threw" =>
                         /\ IsPath(ts, Range(start), trace)
                         /\ Last(trace) = Head(current_states)
                         /\ Len(trace) = Len(hash_trace)
  OBVIOUS
<1>1. PICK q \in Seq(State) : /\ HashedRun(q, Len(q))
                              /\ q[Len(q)] \in Range(start)
                              /\ Rebuilding(q)
  BY DEF RebuildInv
<1> DEFINE n == Len(q)
<1>2. n \in Nat \ {0} /\ q[1] = Head(current_states) /\ n = Len(hash_trace)
  BY <1>1, EmptySeq, LenProperties DEF HashedRun
<1>3. phase \notin {"aborted", "escaped"}
  BY <1>1 DEF Rebuilding
<1>4. ASSUME phase = "threw"
      PROVE  /\ IsPath(ts, Range(start), trace)
             /\ Last(trace) = Head(current_states)
             /\ Len(trace) = Len(hash_trace)
  <2>1. Len(trace) = n /\ \A i \in 1 .. n : trace[i] = q[n + 1 - i]
    BY <1>1, <1>4 DEF Rebuilding
  <2>2. trace[1] = q[n] /\ trace[n] = q[1]
    <3>1. 1 \in 1 .. n /\ n \in 1 .. n /\ n + 1 - 1 = n /\ n + 1 - n = 1
      BY <1>2
    <3> QED
      BY <2>1, <3>1
  <2>3. ASSUME NEW i \in 1 .. n - 1
        PROVE  trace[i + 1] \in NextStates(ts, trace[i], State)
    <3>1. /\ i \in 1 .. n /\ i + 1 \in 1 .. n
          /\ n - i \in 1 .. n - 1
          /\ n + 1 - i = (n - i) + 1 /\ n + 1 - (i + 1) = n - i
      BY <1>2
    <3>2. trace[i] = q[(n - i) + 1] /\ trace[i + 1] = q[n - i]
      BY <2>1, <3>1
    <3> QED
      BY <1>1, <3>1, <3>2 DEF HashedRun
  <2>4. trace # <<>>
    BY <1>2, <2>1
  <2> QED
    BY <1>1, <1>2, <2>1, <2>2, <2>3, <2>4 DEF IsPath, Last
<1> QED
  BY <1>3, <1>4

(* An error is caught: the run is the head of the queue alone.             *)
LEMMA RunBegins ==
  ASSUME current_states \in Seq(State), hash_trace = <<>>, NEW first,
           Catch(first)
  PROVE  \E q \in Seq(State) : /\ HashedRun(q, Len(q) - 1)'
                                /\ q[Len(q)] = Head(current_states)
<1>1. /\ UNCHANGED <<ts, current_states, hash_trace>>
      /\ current_states # <<>>
  BY DEF Catch
<1>2. Head(current_states) \in State
  BY <1>1, HeadTailProperties
<1> PICK q : q = <<Head(current_states)>>
  OBVIOUS
<1>3. q \in Seq(State) /\ Len(q) = 1 /\ q[1] = Head(current_states)
        /\ q # <<>>
  BY <1>2
<1>4. HashedRun(q, Len(q) - 1)'
  BY <1>1, <1>3 DEF HashedRun
<1> QED
  BY <1>3, <1>4

(* The walk goes on to a state p that the last one was found from.         *)
LEMMA RunGrows ==
  ASSUME hash_trace \in Seq(HashVal), ts.hash \in [State -> HashVal],
         NEW q, HashedRun(q, Len(q) - 1),
         NEW p \in State, q[Len(q)] \in NextStates(ts, p, State),
         Violated(ts, p) = {},
         NEW next, WalkOn(ts.hash[q[Len(q)]], next)
  PROVE  \E r \in Seq(State) : HashedRun(r, Len(r) - 1)' /\ r[Len(r)] = p
<1> DEFINE n == Len(q)
<1>1. q \in Seq(State) /\ n \in Nat \ {0}
  BY EmptySeq, LenProperties DEF HashedRun
<1>2. q[n] \in State
  BY <1>1, ElementOfSeq
<1>3. /\ UNCHANGED <<ts, current_states>>
      /\ hash_trace' = Append(hash_trace, ts.hash[q[n]])
  BY DEF WalkOn, searchVars
<1>4. /\ Len(hash_trace) = n - 1
      /\ Len(hash_trace') = n
      /\ \A i \in 1 .. n - 1 : hash_trace'[i] = ts.hash[q[i]]
      /\ hash_trace'[n] = ts.hash[q[n]]
  <2>1. ts.hash[q[n]] \in HashVal /\ Len(hash_trace) = n - 1
    BY <1>2 DEF HashedRun
  <2>2. /\ Len(Append(hash_trace, ts.hash[q[n]])) = n
        /\ \A i \in 1 .. n - 1 :
             Append(hash_trace, ts.hash[q[n]])[i] = hash_trace[i]
        /\ Append(hash_trace, ts.hash[q[n]])[n] = ts.hash[q[n]]
    BY <1>1, <2>1, AppendProperties
  <2> QED
    BY <1>3, <2>1, <2>2 DEF HashedRun
<1> PICK r : r = Append(q, p)
  OBVIOUS
<1>5. /\ r \in Seq(State) /\ Len(r) = n + 1
      /\ \A i \in 1 .. n : r[i] = q[i]
      /\ r[n + 1] = p
  BY <1>1, AppendProperties
<1>6. ASSUME NEW i \in 1 .. n
      PROVE  /\ r[i] \in NextStates(ts, r[i + 1], State)
             /\ Violated(ts, r[i + 1]) = {}
             /\ hash_trace'[i] = ts.hash[r[i]]
  <2>1. CASE i = n
    BY <1>1, <1>4, <1>5, <2>1
  <2>2. CASE i # n
    <3>1. i \in 1 .. n - 1 /\ i + 1 \in 1 .. n
      BY <1>1, <2>2
    <3>2. r[i] = q[i] /\ r[i + 1] = q[i + 1]
      BY <1>5, <3>1
    <3> QED
      BY <1>4, <3>1, <3>2 DEF HashedRun
  <2> QED
    BY <2>1, <2>2
<1>7. r # <<>> /\ r[1] = q[1] /\ (n + 1) - 1 = n
  BY <1>1, <1>5
<1>8. HashedRun(r, Len(r) - 1)'
  BY <1>3, <1>4, <1>5, <1>6, <1>7 DEF HashedRun
<1> QED
  BY <1>5, <1>8
=============================================================================
