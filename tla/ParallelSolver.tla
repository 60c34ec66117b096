--------------------------- MODULE ParallelSolver ---------------------------
(***************************************************************************)
(* synthesis/solver.hh: ParallelSolver evaluates the candidates for the    *)
(* holes of a model, Solver one block of them in a thread of its own.      *)
(* Holes are discovered while candidates are evaluated: each evaluation    *)
(* that reaches an unregistered hole extends g_range_enumerate, and the    *)
(* next round enumerates the candidates that this adds.                    *)
(*                                                                         *)
(* The model under synthesis is abstract.  An assignment gives options, 1  *)
(* and up, to some of the holes; `system' says under which assignments a   *)
(* hole is reached (needs), a state in error is (faults), and a property   *)
(* is unsatisfied at the end (unsat).                                      *)
(*                                                                         *)
(* phase is where ParallelSolver::operator() is: "start" of a round, the   *)
(* "first" evaluation, "dispatch" and "join" of the threads, the "check"   *)
(* at the end of a round; "unique faulty", "unique correct", "returned",   *)
(* "threw" (an exception left it) and "aborted" (a contract failed).       *)
(*                                                                         *)
(* An exception that ends a Solver is held by its future while the others  *)
(* go on: future.get() throws it, but to leave operator() the futures not  *)
(* asked yet are destroyed, and that waits for their threads.              *)
(***************************************************************************)
EXTENDS RangeValues, Patterns

CONSTANTS
  Hole,               \* the LambdaOptions of the model
  Options,            \* for each hole, the number of its options
  Systems,            \* the models considered
  Pruning,            \* the values of pruning_enabled_ considered
  ThreadCounts,       \* the values of num_threads_ considered
  MaxCombinations,    \* --synth_max_combinations
  MinPerThread,       \* min_per_thread_variants_
  TargetCandidates    \* target_candidates

(* An assignment of a model can come about: a run reaches one hole after   *)
(* another, so that, whichever of its holes are left, one of them is       *)
(* reached under the others.                                               *)
Possible(s, a) ==
  /\ DOMAIN a \subseteq Hole
  /\ a \in [DOMAIN a -> Nat \ {0}]
  /\ \A h \in DOMAIN a : a[h] <= Options[h]
  /\ \A left \in (SUBSET DOMAIN a) \ {{}} :
       \E h \in left : \E b \in s.needs[h] :
         /\ DOMAIN b \subseteq DOMAIN a \ left
         /\ \A k \in DOMAIN b : a[k] = b[k]

ASSUME SolverAssumption ==
  /\ IsFiniteSet(Hole)
  /\ Options \in [Hole -> Nat \ {0}]
  /\ \A s \in Systems : \A a \in s.faults \cup s.unsat
                               \cup UNION {s.needs[h] : h \in Hole} :
       Possible(s, a)
  /\ Pruning \subseteq BOOLEAN
  /\ ThreadCounts \subseteq Nat \ {0}
  /\ IsFiniteSet(ThreadCounts)
  /\ MaxCombinations \in 0 .. SizeMax
  /\ MinPerThread \in Nat \ {0}
  /\ TargetCandidates \in Nat
  /\ Wildcard = 0

VARIABLES
  system,        \* the model, fixed
  pruning,       \* pruning_enabled_, fixed
  num_threads,   \* num_threads_, fixed
  g_values,      \* g_range_enumerate: the values
  labels,        \* g_range_enumerate: the hole that each value belongs to
  combinations,  \* g_range_enumerate: combinations_
  patterns,      \* pruning_patterns_
  phase,
  cur,           \* cur_range_enumerate
  per_thread,    \* per_thread_variants
  next,          \* the solver to dispatch next
  enumerated,    \* enumerated_candidates
  thread,        \* for each solver, where its loop is
  evaluated,     \* the sum of evaluated_candidates_
  result,        \* the solutions
  seen,          \* history: the numbers of the candidates evaluated
  undispatched   \* history: the numbers that no block of a round contained

fixed == <<system, pruning, num_threads>>
global == <<g_values, labels, combinations>>
main == <<phase, cur, per_thread, next, enumerated, undispatched>>
progress == <<evaluated, result, seen>>
vars == <<fixed, global, patterns, main, thread, progress>>

Thread == 0 .. num_threads - 1
Final == {"unique faulty", "unique correct", "returned", "threw", "aborted"}

-----------------------------------------------------------------------------
(***************************************************************************)
(* What the evaluation of a candidate shows.  An unregistered hole, or one *)
(* that is not among the candidate's values, takes its first option: the   *)
(* wildcard, option 0, which throws Unknown, if pruning is enabled.        *)
(***************************************************************************)
Option(values, h) ==
  LET own == {values[i].value : i \in {j \in DOMAIN values : labels[j] = h}}
      value == IF own = {} THEN 0 ELSE CHOOSE v \in own : TRUE
  IN  IF pruning THEN value ELSE value + 1

Agrees(values, a) == \A h \in DOMAIN a : Option(values, h) = a[h]

Registered == {labels[i] : i \in DOMAIN labels}

Reached(values) ==
  {h \in Hole : \E a \in system.needs[h] : Agrees(values, a)}

Faulty(values) == \E a \in system.faults : Agrees(values, a)

Unsatisfied(values) == \E a \in system.unsat : Agrees(values, a)

(* Faulty: a hole that is reached, but not registered, is no unknown.      *)
UnknownRegistered(values) ==
  \E i \in DOMAIN values : labels[i] \in Reached(values)
                           /\ Option(values, labels[i]) = 0

NoUnknownsThrows(values) ==
  \E h \in Reached(values) : Option(values, h) = 0

(* The registered properties come before NoUnknowns, and the first one     *)
(* that is not satisfied decides.                                          *)
Outcome(values) ==
  IF Faulty(values) THEN "error"
  ELSE IF Unsatisfied(values) THEN "unsatisfied"
  ELSE IF NoUnknownsThrows(values) THEN "unknown" ELSE "solution"

Only(S) == CHOOSE h \in S : TRUE

NewValue(h) ==
  [value |-> 0, range |-> IF pruning THEN Options[h] + 1 ELSE Options[h]]

-----------------------------------------------------------------------------
(***************************************************************************)
(* Solver::operator(): one block of candidates.                            *)
(***************************************************************************)
Idle == [pc |-> "idle", values |-> <<>>, end |-> <<>>, stride |-> 1,
         from |-> 0, count |-> 1, hole |-> {}]

(* A solver that has returned, or that an exception has ended.             *)
Done == [Idle EXCEPT !.pc = "done"]
Failed == [Idle EXCEPT !.pc = "failed"]

(* The last candidate of a block.                                          *)
BlockEnd(values, candidates) ==
  IF Overflows(values, 0, candidates - 1)
    THEN AtMax(values) ELSE Advanced(values, 0, candidates - 1)

(* A solver at its first candidate.                                        *)
Launched(values, candidates, stride) ==
  [pc |-> "evaluate", values |-> values, end |-> BlockEnd(values, candidates),
   stride |-> stride, from |-> 0, count |-> stride, hole |-> {}]

(* SYNTHESIZE_DECL: the evaluation reaches a hole whose id_ is invalid and *)
(* goes for its register_mutex_.                                           *)
ReachHole(t) ==
  /\ thread[t].pc = "evaluate"
  /\ thread[t].hole = {}
  /\ \E h \in Reached(thread[t].values) \ Registered :
       thread' = [thread EXCEPT ![t].hole = {h}]
  /\ UNCHANGED <<fixed, global, patterns, main, progress>>

(* RangeEnumerate::Extend for a new label: at the limit it throws, and has *)
(* changed combinations_ all the same unless the product overflows.        *)
Extend(t, h) ==
  LET range == NewValue(h).range
      product == IF combinations = 0 THEN range ELSE combinations * range
  IN  IF ProductOverflows(combinations, range)
        THEN /\ thread' = [thread EXCEPT ![t] = Failed]
             /\ UNCHANGED global
      ELSE IF product > MaxCombinations
        THEN /\ thread' = [thread EXCEPT ![t] = Failed]
             /\ combinations' = product
             /\ UNCHANGED <<g_values, labels>>
      ELSE /\ thread' = [thread EXCEPT ![t].hole = {}]
           /\ combinations' = product
           /\ g_values' = Append(g_values, NewValue(h))
           /\ labels' = Append(labels, h)

(* Faulty: id_ is not checked again under the lock, and Extend throws for  *)
(* a label that it has already.                                            *)
RegisterUnchecked(t) ==
  /\ thread[t].hole # {}
  /\ IF thread[t].hole \subseteq Registered
       THEN thread' = [thread EXCEPT ![t] = Failed] /\ UNCHANGED global
       ELSE Extend(t, Only(thread[t].hole))
  /\ UNCHANGED <<fixed, patterns, main, progress>>

(* LambdaOptions::Register with the lock held: id_ is checked again, for   *)
(* another thread may have come first; if not, the hole becomes a value.   *)
Register(t) ==
  /\ thread[t].hole # {}
  /\ IF thread[t].hole \subseteq Registered
       THEN thread' = [thread EXCEPT ![t].hole = {}] /\ UNCHANGED global
       ELSE Extend(t, Only(thread[t].hole))
  /\ UNCHANGED <<fixed, patterns, main, progress>>

(* Faulty: a candidate that is merely unknown becomes a pattern.           *)
InsertUnknown(values) ==
  Outcome(values) \in {"error", "unknown"} /\ NonWildcards(Digits(values)) # {}

(* The outcome for which pruning_patterns_->Insert is called.              *)
InsertCalled(values) == Outcome(values) = "error"

(* The evaluation ends when all holes it reaches are registered, or early  *)
(* with an error once the holes that lead there are.  Insert throws for a  *)
(* candidate without a value other than the wildcard.                      *)
Evaluate(t) ==
  LET values == thread[t].values
      prune == pruning /\ InsertCalled(values)
  IN  /\ thread[t].pc = "evaluate"
      /\ thread[t].hole = {}
      /\ \/ Reached(values) \subseteq Registered
         \/ \E a \in system.faults :
              Agrees(values, a) /\ DOMAIN a \subseteq Registered
      /\ IF prune /\ NonWildcards(Digits(values)) = {}
           THEN /\ thread' = [thread EXCEPT ![t] = Failed]
                /\ UNCHANGED <<patterns, progress>>
           ELSE /\ patterns' = IF prune THEN Inserted(patterns, Digits(values))
                                        ELSE patterns
                /\ result' = IF Outcome(values) = "solution"
                               THEN result \cup {values} ELSE result
                /\ seen' = seen \cup {Number(values)}
                /\ evaluated' = evaluated + 1
                /\ thread' = [thread EXCEPT ![t].pc = "advance"]
      /\ UNCHANGED <<fixed, global, main>>

(* validate_range_enum_, which is set if pruning is enabled.               *)
Validate(values) ==
  IF ~pruning THEN kInvalidID
  ELSE IF \E i \in DOMAIN values : values[i].value = Wildcard THEN 0
  ELSE Match(patterns, Digits(values))

(* Faulty: the last candidate of the block is left to the next thread.     *)
Before(values, end) == Compare(values, end) < 0

(* The condition of the loop: t_range_enumerate <= end.                    *)
WithinBlock(values, end) == Compare(values, end) <= 0

(* Advance up to the next validation; it goes on from the ID of a mismatch *)
(* until a candidate is valid or the values overflow.                      *)
Advance(t) ==
  LET s == thread[t]
      values == Advanced(s.values, s.from, s.count)
      id == Validate(values)
  IN  /\ s.pc = "advance"
      /\ thread' = [thread EXCEPT ![t] =
           IF Overflows(s.values, s.from, s.count) THEN Done
           ELSE IF id # kInvalidID
             THEN [s EXCEPT !.values = values, !.from = id, !.count = 1]
           ELSE IF WithinBlock(values, s.end)
             THEN [s EXCEPT !.pc = "evaluate", !.values = values, !.from = 0,
                            !.count = s.stride]
           ELSE Done]
      /\ UNCHANGED <<fixed, global, patterns, main, progress>>

-----------------------------------------------------------------------------
(***************************************************************************)
(* ParallelSolver::operator(): the rounds.                                 *)
(***************************************************************************)
Init ==
  /\ system \in Systems
  /\ pruning \in Pruning
  /\ num_threads \in ThreadCounts
  /\ g_values = <<>>
  /\ labels = <<>>
  /\ combinations = 0
  /\ patterns = NoPatterns
  /\ phase = "start"
  /\ cur = <<>>
  /\ per_thread = 0
  /\ next = 0
  /\ enumerated = 0
  /\ thread = [t \in Thread |-> Idle]
  /\ evaluated = 0
  /\ result = {}
  /\ seen = {}
  /\ undispatched = {}

(* The candidates of a round divided among the threads.                    *)
PerThread ==
  Max({(combinations - enumerated) \div num_threads, MinPerThread})

(* A round starts: no hole yet means one evaluation in the main thread.    *)
StartRound ==
  /\ phase = "start"
  /\ cur' = g_values
  /\ g_values' = AtMax(g_values)
  /\ IF combinations = 0
       THEN /\ thread' = [thread EXCEPT ![0] = Launched(<<>>, 1, 1)]
            /\ phase' = "first"
            /\ UNCHANGED <<per_thread, next, undispatched>>
       ELSE /\ per_thread' = PerThread
            /\ undispatched' = undispatched \cup
                 enumerated + num_threads * PerThread .. combinations - 1
            /\ next' = 0
            /\ phase' = "dispatch"
            /\ UNCHANGED thread
  /\ UNCHANGED <<fixed, labels, combinations, patterns, enumerated, progress>>

(* Faulty: the next block starts at the last candidate of this one.        *)
NextBlock(values) == Advanced(values, 0, per_thread - 1)

(* Where the next block starts.                                            *)
AfterBlock(values) == Advanced(values, 0, per_thread)

(* target_candidates thins the enumeration out.                            *)
Stride ==
  IF TargetCandidates = 0 THEN 1 ELSE combinations \div TargetCandidates

(* One thread is launched while the earlier ones run already.              *)
Dispatch ==
  /\ phase = "dispatch"
  /\ IF Stride = 0
       THEN /\ phase' = "aborted"
            /\ UNCHANGED <<cur, next, enumerated, thread>>
       ELSE /\ thread' = [thread EXCEPT
                            ![next] = Launched(cur, per_thread, Stride)]
            /\ cur' = AfterBlock(cur)
            /\ next' = next + 1
            /\ IF Overflows(cur, 0, per_thread) \/ next = num_threads - 1
                 THEN /\ phase' = "join"
                      /\ enumerated' = Product(cur)
                 ELSE UNCHANGED <<phase, enumerated>>
  /\ UNCHANGED <<fixed, global, patterns, per_thread, undispatched, progress>>

FirstEnds ==
  /\ phase = "first"
  /\ thread[0].pc \in {"done", "failed"}
  /\ thread' = [thread EXCEPT ![0] = Idle]
  /\ IF thread[0].pc = "failed"
       THEN phase' = "threw" /\ UNCHANGED enumerated
     ELSE IF combinations <= 1
       THEN /\ phase' = IF result = {} THEN "unique faulty" ELSE "unique correct"
            /\ UNCHANGED enumerated
       ELSE /\ phase' = "check"
            /\ enumerated' = enumerated + 1
  /\ UNCHANGED <<fixed, global, patterns, cur, per_thread, next, undispatched,
                 progress>>

(* Faulty: threads that were never launched are waited for as well.        *)
AllDone == \A t \in Thread : thread[t].pc \in {"done", "failed"}

(* Every thread launched has ended, and future.get() returns or throws.    *)
LaunchedDone == \A t \in Thread : thread[t].pc \in {"idle", "done", "failed"}

Join ==
  /\ phase = "join"
  /\ LaunchedDone
  /\ thread' = [t \in Thread |-> Idle]
  /\ phase' = IF \E t \in Thread : thread[t].pc = "failed"
                THEN "threw" ELSE "check"
  /\ UNCHANGED <<fixed, global, patterns, cur, per_thread, next, enumerated,
                 undispatched, progress>>

(* The contracts at the end of a round; g_range_enumerate, still at the    *)
(* maximum of what was known before it, advances to the first candidate    *)
(* with a hole discovered since, or overflows if there is none.            *)
EndRound ==
  /\ phase = "check"
  /\ IF enumerated <= combinations /\ evaluated <= combinations
       THEN /\ g_values' = Advanced(g_values, 0, 1)
            /\ phase' = IF Overflows(g_values, 0, 1) THEN "returned" ELSE "start"
       ELSE /\ phase' = "aborted"
            /\ UNCHANGED g_values
  /\ UNCHANGED <<fixed, labels, combinations, patterns, cur, per_thread, next,
                 enumerated, undispatched, thread, progress>>

(* operator() has been left, or a failed contract ended the program.       *)
Main ==
  StartRound \/ Dispatch \/ FirstEnds \/ Join \/ EndRound
Solve(t) ==
  /\ t \in Thread
  /\ phase \notin Final
  /\ ReachHole(t) \/ Register(t) \/ Evaluate(t) \/ Advance(t)
Next == Main \/ \E t \in Thread : Solve(t)

Spec == Init /\ [][Next]_vars

(* While some thread can go on, one does; which one is up to the operating *)
(* system, without regard to fairness between them.                        *)
FairSpec == Spec /\ WF_vars(Next)

-----------------------------------------------------------------------------
TypeOK ==
  /\ g_values \in Seq(Value)
  /\ InRange(g_values)
  /\ labels \in Seq(Hole)
  /\ Len(labels) = Len(g_values)
  /\ \A i, j \in DOMAIN labels : labels[i] = labels[j] => i = j
  /\ combinations \in 0 .. SizeMax
  /\ phase \in Final \cup {"start", "first", "dispatch", "join", "check"}
  /\ next \in 0 .. num_threads
  /\ evaluated \in Nat
  /\ \A t \in Thread :
       /\ thread[t].pc \in {"idle", "evaluate", "advance", "done", "failed"}
       /\ InRange(thread[t].values)
       /\ Len(thread[t].values) <= Len(g_values)
       /\ \A i \in DOMAIN thread[t].values :
            thread[t].values[i].range = g_values[i].range

(* No candidate is evaluated twice, by the same thread or by two, in one   *)
(* round or in two, although every round extends the numbering while the   *)
(* threads of the last one use it.  So no more are evaluated than there    *)
(* are, and the contracts, which count them, hold.                         *)
NoCandidateTwice ==
  /\ phase # "aborted"
  /\ evaluated = Cardinality(seen)
  /\ \A t, u \in Thread :
       thread[t].pc = "evaluate" =>
         /\ phase \notin Final => Number(thread[t].values) \notin seen
         /\ (t # u /\ thread[u].pc = "evaluate") =>
              Number(thread[t].values) # Number(thread[u].values)

(* However the options a solution leaves open are chosen, the model is     *)
(* correct: each assignment with an error, or an unsatisfied property,     *)
(* differs from it in an option that the solution has decided.             *)
SolutionsAreCorrect ==
  \A r \in result, b \in system.faults \cup system.unsat :
    \E h \in DOMAIN b : Option(r, h) \notin {0, b[h]}

(* Pruning is sound: a pattern covers only faulty candidates, whatever     *)
(* holes were unknown to the thread that inserted it.                      *)
PatternsCoverFaulty ==
  pruning => \A v \in Assignments(g_values) :
               Match(patterns, Digits(v)) # kInvalidID => Faulty(v)

(* The assignments of options to all holes, whether discovered or not.     *)
Total == {a \in [Hole -> UNION {1 .. Options[h] : h \in Hole}] :
            \A h \in Hole : a[h] <= Options[h]}
Has(a, b) == \A h \in DOMAIN b : a[h] = b[h]
Correct(a) == \A b \in system.faults \cup system.unsat : ~Has(a, b)
ReachedBy(a) == {h \in Hole : \E b \in system.needs[h] : Has(a, b)}

(* A single thread finds every solution, with and without pruning: when    *)
(* it returns, each correct choice of options agrees with a solution on    *)
(* the holes that it reaches.                                              *)
SolutionsFound ==
  num_threads = 1 /\ phase \in {"returned", "unique correct", "unique faulty"} =>
    \A a \in Total : Correct(a) =>
      \E r \in result : \A h \in ReachedBy(a) : Option(r, h) = a[h]

(* When the search returns, every candidate below enumerated_candidates    *)
(* was in the block of some thread.                                        *)
EveryCandidateDispatched == phase = "returned" => undispatched = {}

(* When the search returns, all candidates were evaluated but those of the *)
(* remainder that no block contained.  With pruning, a candidate may also  *)
(* be skipped, if it is faulty or leaves some hole open: pruning saves     *)
(* only unnecessary computation.                                           *)
OnlyFaultySkipped ==
  phase = "returned" =>
    \A v \in Assignments(g_values) :
      \/ Number(v) \in seen \cup undispatched
      \/ /\ pruning
         /\ Faulty(v) \/ \E i \in DOMAIN v : v[i].value = Wildcard

(* What can leave operator(): Insert throws for a model that is faulty     *)
(* without any hole, and Extend for a hole of the model that is not        *)
(* registered and would bring the candidates above the limit, or beyond a  *)
(* std::size_t.  It never throws for a label it has, whoever reaches a     *)
(* hole at the same time; and what a failed Extend leaves in combinations_ *)
(* makes others fail only in a search that fails anyway.                   *)
TooMany(h) ==
  /\ system.needs[h] # {}
  /\ Product(g_values) * NewValue(h).range > MaxCombinations
ThrowsForAReason ==
  phase = "threw" =>
    \/ pruning /\ <<>> \in system.faults
    \/ \E h \in Hole \ Registered : TooMany(h)

(* The search ends: validated advances, rounds and joins all come to an    *)
(* end once no more holes are discovered, and nobody waits for ever.       *)
Terminates == <>(phase \in Final)
=============================================================================
