# VerC3 in TLA+

VerC3 is a C++14 library for explicit-state model checking and synthesis of
concurrent systems. A *model* is a set of rules and properties over a state type;
a *search backend* explores it; a *solver* runs the search for every candidate that
fills the holes of an incomplete model. This directory models the library's core and
the protocols and machines it ships as examples, model-checks them with TLC, and proves
what matters most about the search, the solver and its pruning, the two MSI protocols,
the TSO machine and the containers with TLAPS.

Paths below are those of the repository (`include/...`, `src/...`, `test/...`).

## 1. Inventory

| Component | Source | State it keeps | Operations | Status |
|---|---|---|---|---|
| Transition systems | `include/verc3/core/ts.hh` | rules, properties (which may record) | `Evaluate(state[, filter])`, `Reset`; a second system that must simulate the first | `TransitionSystem` |
| Search interface | `include/verc3/core/eval.hh` | counters, monitor | `Evaluate`, `MakeTraceFromHashTrace` | `StateSearch`, `EvalBase` |
| Eval_BFS | `include/verc3/core/model_checking.hh` | queue, `parents` by state | the search loop, the walk along the parents | `Eval_BFS` |
| Eval_BFS_Hashing | same | queue, `parents` by hash | the same with hashes | `Eval_BFS_Hashing` |
| LivelockFreedom | `include/verc3/domain/protocol.hh` | a graph of transient node states | `Next`, `IsSatisfied`, `Reset` | `ModelCheckerCommand` |
| ModelCheckerCommand | `include/verc3/command.hh` | a backend | `operator()` | `ModelCheckerCommand`; not running out of memory |
| Symmetric containers | `include/verc3/core/types.hh` | arrays with valid bits | insertion, erasure, lookups, equality up to permutation, hash | `Containers`, `BoundedBags`; not the hash |
| RangeEnumerate | `include/verc3/synthesis/enumerate.hh`, `enumerate.cc` | values with ranges and labels, `combinations_` | `Extend`, `Advance`, setters, `Compare`, `Clear` | `RangeValues`, `RangeEnumerate` |
| RangeEnumerateMatcher | same | patterns by bit pattern, a mutex | `Insert`, `Match`, `Clear` | `Patterns`, `RangeEnumerateMatcher` |
| LambdaOptions | same | an atomic ID, the options | `Register`, `GetCurrent`, `UnregisterAll` | in `ParallelSolver`; not copies and the registry of static objects |
| Solver, ParallelSolver | `include/verc3/synthesis/solver.hh` | global enumeration, thread-local candidate, shared patterns | rounds, dispatch, evaluation, validated advance | `ParallelSolver` |
| MSI directory protocol | `src/models/msi_directory.cc` | caches, directory, channels | 5 requests, 2 L1 receive rules, the directory's | `MSIDirectory` |
| MSI synthesis study | `src/models/synthesis_msi.cc` | caches, directory with its ack count, channels, holes | 5 processor rules, the caches' and the directory's receive rules, `Promising` | `SynthesisMSI` (`SYNON` 0 and 1); not `Promising` |
| TSO litmus model | `src/models/tso_lb.cc` | memory, a copy per thread, the execution so far | reads, writes, propagation, verification | `TSOMachine` |
| Entry, OS, output | `src/main.cc`, `src/models/main.*`, `os.*`, `io.*`, `debug.hh`, `util.hh` | none | selection of a model, limits, printing | not modelled |

How they interact. `ModelCheckerCommand` owns a backend and calls `Evaluate` with a
transition system; the backend calls `TransitionSystem::Evaluate` on one state after
another, which calls the rules and then `Property::Next`; an error is an exception
that the backend turns into a trace (`ErrorTrace`) or only its hashes
(`ErrorHashTrace`). `ParallelSolver` starts a `Solver` in each thread, each with a
command and a transition system of its own. They share `g_range_enumerate`, which the
*rules* extend while they run (a hole is discovered when it is reached), and the
pruning patterns. Each works on its own `t_range_enumerate`, a copy from the start of
the round.

What is hard, and where the properties aim:

- search: bookkeeping of queue and parents around early returns and exceptions; the
  trace that is rebuilt from hashes; hash collisions in the backend that keeps only
  hashes. A model checker that says "verified" wrongly is worse than none.
- command: a property that keeps state sees each state once, in the order of the search,
  and judges runs by it.
- containers: erased elements stay in their slots; a slot is guessed from a count.
- protocol: races of Puts with forwards and invalidations, acknowledgements that
  overtake the data that counts them, channels at their capacity, stalls.
- synthesis: division of the candidates among threads, rounds whose numbering grows
  while threads use it, patterns that other threads insert between two steps of an
  advance, candidates evaluated with holes unknown to them, integer widths; and a
  completion that satisfies every property of the study and still starves a reader.
- TSO: every execution recorded must be one the axioms allow, for the program verifies
  only one of several that end in equal states.

`PROJECT.json` lists the hazards line by line with the properties that cover each.

## 2. Modules and their correspondence to the code

**`TransitionSystem`** — rules and properties as data. A transition system is a record:
`pre`, `action` (a next state, `Refused` if Action returns false, `Hole` if it throws
`Unknown`), `post`, the invariants in order, accepting states, `hash`, and deadlock
detection. `NextStates`, `Unknowns` and `Thrown` are what `TransitionSystem::Evaluate`
returns or throws, given the states that the filter lets pass. A rule whose `Action` throws
`core::Error` is a state that violates one more invariant: either ends the search at the
state evaluated, with nothing of it returned. `simulated_by` makes it a
`TransitionSysSimulation`: `EvaluateThrows` is what the search sees, the exceptions of the
simulating system on the cast of the state first, and `SIMULATION` if a next state has no
counterpart there (`Disallowed`). Rebuilding a trace calls the evaluation of the base class,
which does not compare. Comparing a state with one of the simulating system is comparing
its cast, as the operators in the tests do; a rule of the simulating system that throws
`Unknown` gives no next state, so that the step it might allow is a violation. `Reachable` and `IsPath`
are reference definitions.

**`StateSearch`** — what a backend promises, in terms of two sets: states found are
evaluated one by one, until none is left, one throws, or the monitor stops the search. `SafeSpec` is
that promise without its liveness.

**`EvalBase`** — the state that both backends share and `MakeTraceFromHashTrace`, step by
step: its filtered evaluation of each state of the trace, the contracts that may fail,
and exceptions that may leave it. **`Eval_BFS`** and **`Eval_BFS_Hashing`** add `parents`.
One action is one iteration of the loop (the function is sequential); the order in which
next states are queued is nondeterministic, as an `unordered_multimap`'s is.
Both state how they implement `StateSearch` (`INSTANCE StateSearch WITH ...`): the
abstract search may lose a state only to one of the same class that it has found, and the
class of a state is the state itself for `Eval_BFS` and its hash for `Eval_BFS_Hashing`.

**`ModelCheckerCommand`** — extends `Eval_BFS` with the property that keeps state,
`LivelockFreedom`, and with `operator()`. `EvaluateAndRecord` is an evaluation that does
not throw, which ends with `Property::Next`; `RebuildAndRecord` is the filtered evaluation
of `MakeTraceFromHashTrace`, which records as well. `Edges` is what `Next` inserts,
`IsSatisfied` looks for a cycle (mc2lib's `Acyclic`, by its definition), `ExitCode` is what
`operator()` returns. The properties compare this verdict with the *runs* of the transition
system (`PingPong`), of which the property never sees one.

**`Containers`** — `ArraySet`: an array of slots and its valid bits. One action per member
function that changes it, on several sets; lookups and `operator==` are operators.
`call` and `ret` tell the kind of the last call and what it returned. **`BoundedBags`** is
what a user is promised: bags that reveal neither slots nor order. `Containers` implements
it (`ImplementsBags`), with what the calls by ID reveal of erased elements said openly.

**`SearchLemmas`** and the modules whose names end in **`_proofs`** — see section 5.

**`MSIDirectory`** — the protocol for one line. One action per rule; a message handler
that returns false (a stall) is a rule that is not enabled, one that throws sets
`error`. Unordered channels are `ArraySet`s, which the program compares up to
permutation; they are sets here, and a second copy of a message in flight counts as an
error, so `NoErrorThrown` also shows that no copy is lost by this. `need_acks` is an
integer that goes below zero when acknowledgements come first.

**`SynthesisMSI`** — the protocol of the case study, whose handlers have holes.
`completion`, fixed from the start, gives each of the eight holes of `SYNON = 1` its option;
`Reference` is the code that stands there with `SYNON = 0`. A hole with the wildcard throws
`Unknown`, which `TransitionSystem::Evaluate` takes for no step. A rule computes its
messages first (`out`) and happens as a whole, or throws if `Send` does.

**`TSOMachine`** — the threads of `tso_lb.cc`, each with a copy of the memory, and the
execution (`po`, `rf`, `co`) they record. The axioms of TSO, which the program leaves to
mc2lib, are stated in the usual form: coherence per address, and no cycle of preserved
program order, external reads-from, coherence and from-reads.

**`RangeValues`** — the values of a `RangeEnumerate` as a mixed-radix number, with the
width of `std::size_t`, and the arithmetic of `Advance`, the setters and `Compare`.
**`RangeEnumerate`** — the class: one action per member function, with the three
exceptions of `Extend` and what each leaves changed.

**`Patterns`** — `RangeEnumerateMatcher`'s functions. A bit pattern is the set of its
bits, so that 64-bit values are no burden; a shift of an `int` has its width, its sign
extension, and, beyond its width, which is undefined in C++, the outcome of x86.
**`RangeEnumerateMatcher`** — the class. Its specification is `MatcherSpec`, so that one
module can speak of it and of the solver, which uses `Patterns` only.

**`ParallelSolver`** — composes `RangeValues` and `Patterns` with the main loop and the
threads. A thread's steps are `ReachHole` (a hole is reached whose ID is invalid, and its
lock is asked for), `Register` (with the lock: the second check, and `Extend`, which at the
limit or beyond the width of `std::size_t` throws, and so ends the thread's solver), `Evaluate`
(the evaluation ends: solution, unknown, unsatisfied property, or error, with the
insertion of a pattern) and `Advance` (up to and with one call of the validating function;
a mismatch makes the next step go on from the ID). The main thread's are `StartRound`,
`Dispatch` (one thread launched, while others run), `FirstEnds`, `Join` and `EndRound`. An
exception that ends a solver is held by its future while the other threads go on; `Join`
throws it. In the first round the main thread itself evaluates, and `FirstEnds` throws.
The model under synthesis is abstract: under which assignments of options holes are
reached, states are in error, or properties unsatisfied. Such an assignment is one that a
run can come by (`Possible`): its holes are reached one after another, each under options
of those before. `seen` and `undispatched` are
history variables. `num_threads` is fixed at the start, from the counts considered.

Definitions whose comment begins with "Faulty:" are plausible mistakes in the code that
follows them. Nothing uses them; put in the place of that definition, each makes a
property fail, which shows that the property says something.

The `MC_*` modules give the constants their values.

## 3. Runs

| Run | Question | Instance | Outcome |
|---|---|---|---|
| `bfs` | does `Eval_BFS` find exactly the reachable states and only real errors, is its trace a shortest run and delivered, are accepting states returned once and nearest first, does it implement `StateSearch` (and so end)? is the command's verdict, errors and livelocks, true? | 3000 systems of 3 states, 1024 of 4 and 1152 that one of six others must simulate, 3 start queues, both error modes, monitor; two nodes, or one whose state is the state | holds |
| `hashing` | what does hashing lose, is its trace genuine and delivered, does it implement `StateSearch` up to collisions? | 1728 systems of 4 states, 4 hashes | loses only by collisions; no false alarm |
| `msi` | coherence, no unhandled message or overflow, acknowledgements, tracking of copies, no deadlock; does every cache return to a stable state, without ping-pong? | 3 caches, 4 slots, fair | holds |
| `enumerate` | is the enumeration a number that `Advance` adds to, and `Extend` leaves alone? | up to 3 values, ranges to 4, 4-bit `size_t`, limit 10 | holds |
| `matcher` | does `Match` find exactly what was inserted? | all candidates of 2 and 3 values, 3 patterns, 4-bit `int` | holds |
| `solver` | are threads disjoint and sound, do the contracts hold, what leaves it as an exception, what may be skipped, does a single one find every solution, does the search end? | 35 models of up to 3 holes and 8 of up to 4, limit 27, 6-bit `size_t`, with and without pruning, 1 and 2 threads | holds |
| `synthesis_msi` | is every accepted completion coherent, does it lose no message, acknowledgement or copy, is it free of livelocks? does the reference satisfy every access? | 3 caches, 4 slots, the reference and the 4 solutions, fair | holds |
| `tso` | is every execution one that TSO allows, and coherence the order of writes? | 3 threads, 2 addresses, 4 reads, 2 writes, up to symmetry | holds |
| `containers` | is equality that of contents, are lookups exact, is an `ArraySet` a bag? | 2 sets of 3 slots, 2 elements, up to symmetry | holds |
| `solver_remainder` | is every candidate in some block? | 2 threads | **violated** |
| `solver_skip` | does pruning skip only what is faulty? | 3 threads, 4 holes | **violated** |
| `synthesis_starved` | does a solution of the synthesis satisfy every access? | 3 caches, the 4 solutions, fair | **violated** |

Bounds, and why they suffice:

- search: three states and one unconstrained rule give every functional graph on three
  nodes with refusals and unknowns, and the second rule branches it; the fourth state
  gives two paths of different length to one state, the least that tells shortest runs
  and sibling collisions apart. The simulating systems have two states, onto which the
  cast maps three: enough for a step that they lack, a step into a state where they are
  in error, and a step that the cast makes one from a state to itself.
- protocol: a race involves a requester, an owner or a sharer, and a third cache whose
  request comes in between: two sharers acknowledge a writer, or a third request waits
  while two caches hand a line over. Three is also the programs' own `PROC_COUNT`.
  `NetMax` is the code's `NET_MAX`, processes plus one; in `MSIDirectory` one slot less
  makes `NoErrorThrown` fail, so the bound is tight. Messages, caches and completions are
  model values and records; no state is cut off.
- TSO: three threads are the least for two readers that disagree about a writer other
  than themselves; two writes to two addresses and four reads give every litmus test of
  that size (message passing, store and load buffering, reads of independent writes to
  the extent that three threads allow). The program's own bound, four threads and four
  writes, is beyond TLC within minutes.
- containers: with three slots an element can be erased from the middle, so that each guess of
  a slot can fail; a default and one other element give equal and stale ones.
- enumeration: ranges 1 to 4 include the range that always carries; products exceed the
  four-bit width; counts go beyond a value's range and beyond the product.
- patterns: three positions give bit patterns whose numeric order disagrees with the
  order of their lowest bits. The matcher's `MaxInserted` bounds the candidates inserted.
  Its `int` has four bits: candidates of three values are the longest that just fit, the
  least that do not need as many values as bits (item 4 below).
- solver: three holes of two options (ranges 2 without and 3 with the wildcard) give up
  to 27 candidates in up to three rounds; `MinPerThread` is 1 so that small rounds are
  divided as those above the code's default of 100 are. The limit is 27, so that these
  candidates just meet it; a fourth hole, of four options, exceeds it, or the six bits of a
  `std::size_t`, with the wildcard and without. Solvers fail alone, together, and while
  another is about to register a hole.

`CHECK_DEADLOCK FALSE` is set where the function modelled returns: the search and the
solver, and for `tso`, whose machine stops at its bound. The protocols, the enumeration
and the containers never stop, and deadlock is checked.

### Disagreements found

Shown by a run:

1. The remainder of the division of candidates by threads is never dispatched
   (`solver.hh:284`); at most `num_threads - 1` candidates a round, but a solution may be
   among them. `solver_remainder`; `OnlyFaultySkipped` shows that nothing else is lost
   without pruning.
2. With three threads, pruning may skip candidates that are not faulty
   (`enumerate.hh:276`). In `solver_skip`, thread 1 starts at values (0,1,3,0), where the
   second and third holes alone make the model faulty, and inserts that pattern while
   thread 2 is at (1,1,3,1). Thread 2 advances to (2,1,3,1), matches, and goes on to
   (2,2,3,1): (1,2,3,1) is never evaluated. With one and two threads over the family of
   `solver` nothing is skipped (`OnlyFaultySkipped`, `SolutionsFound`).
3. A completion that the synthesis study accepts may leave a reader waiting for ever
   (`synthesis_starved`). In M_S the directory has called the line back from its owner for
   a reader; the reference answers the owner's Put with data to that reader
   (`synthesis_msi.cc:535`), which is not among the options of the hole. All four
   solutions of the eight holes send nothing. The reader stays in I_S until it happens to
   be invalidated, and then in IS_I; no cache goes *round*, which is all that
   `LivelockFreedom` looks for (`NoLivelock` holds), while `protocol.hh:33` speaks of
   accesses that must eventually be satisfied.

Met while modelling, and described by the models without a run that expects a violation:

4. `AsBitPattern` shifts an `int` (`enumerate.hh:401-434`): with 32 values nothing is
   matched if the last value is set, and with more contracts fail, although 64 are
   admitted. Give `MC_RangeEnumerateMatcher` the candidates `Long`, and `IntBits = 32`,
   `SizeBits = 64`, and `MatchIsExact` is violated. With 31 values or fewer it holds, for
   all candidates (`MatchExact` of `ParallelSolver_proofs`).
5. Exceptions that nobody catches leave the solver. With pruning, a model that is faulty
   before any hole is reached ends in `std::logic_error` from `Insert` instead of the report
   (`solver.hh:131, 268`). And a hole that brings the candidates above
   `synth_max_combinations`, or beyond a `std::size_t`, ends the search in
   `std::overflow_error` from `Extend` (`enumerate.cc:49-59`), and the solutions found so
   far are not returned. `ThrowsForAReason` says that there are no others, and that a search ends in the
   second only if a hole of the model does not fit under the limit.
6. `LivelockFreedom` may report a livelock that no run has: it keeps one graph for all
   nodes, and node states are not states. `FailureIsReal` is exact where neither matters
   (one node whose state is all of the state). No verdict in the other direction is wrong:
   `VerdictIsSound`.
7. `Eval_BFS` queues a start state as often as it is given, and returns it as often if it
   accepts (`model_checking.hh:64`); `eval.hh:99` asks for no duplicates or a word about
   them. `AcceptingReturned` is stated for start states given once.
8. `Extend` leaves `combinations_` multiplied when it throws for the global limit
   (`enumerate.cc:54-59`): the second half of `CombinationsIsProduct`. In the solver, other
   threads then fail at holes that would have fitted, but only in a search that fails anyway
   (`ThrowsForAReason`).
9. `Match` returns the lowest position of the first matching bit pattern in ascending
   order, not the least significant position of any match as a test comments
   (`enumerate.cc:120`, `test/verc3/synthesis/enumerate.cc:343`). Harmless:
   `LowerValuesIrrelevant` shows that the ID may be advanced all the same.
10. `target_candidates` above the combinations known gives stride 0 and a failed contract
    (`solver.hh:303, 102`): `Dispatch` in phase "aborted". No model of the repository sets
    it, and the runs leave it 0, its default.
11. `TransitionSysSimulation::sim_by_ts()` names itself instead of `sim_by_ts_`
    (`ts.hh:344`): a template that nothing instantiates, and that would not compile.
12. `NET_MAX = PROC_COUNT + 1` (`synthesis_msi.cc:42`) fits three caches, the
    `PROC_COUNT` of the study, but not four. A cache that acknowledged an invalidation may
    ask again before the directory takes the acknowledgement; in S_M three of four caches
    do, six messages for five slots, and `Send` throws "Too many messages" (`:206`). Give
    `synthesis_msi.cfg` four caches and `NetMax = 5`, and `NoErrorThrown` is violated; with
    six slots it holds, and `NothingThrown` of `SynthesisMSI_proofs` says how many any
    number of caches needs. In `msi_directory.cc` caches answer each other, and one more
    slot than caches is always enough (`NothingThrown` of `MSIDirectory_proofs`).
13. `Reset` of a `TransitionSysSimulation` is the base class's (`ts.hh:235`): properties of
    the simulating system that keep state are not reset. The command asks only the
    properties of the simulated one for a verdict.

## 4. Fairness

- `Eval_BFS`, `Eval_BFS_Hashing`, `ModelCheckerCommand`, `StateSearch`: `WF(Next)`. They are sequential functions
  that run until they return.
- `MSIDirectory!FairSpec`: weak fairness of each cache's receive rules, strong fairness of
  the directory taking a message *from each cache*. The rules only say what may happen;
  liveness is about a network that does not forget a message. Weak fairness is not enough
  for the directory: it stalls requests in S_D, so a request is takeable only now and then,
  and with three caches the others can overtake it for ever. `EventuallyStable` holds under
  the strong form only, which is an assumption on the arbitration that the program's own
  `LivelockFreedom` does not need, since that looks for ping-pong only (`NoPingPong`, which
  holds without any fairness).
- `SynthesisMSI`: the same, weak fairness of each cache's receive rule and strong fairness of
  the directory per sender. The violation in `synthesis_starved` is found under it, so
  that the reader does not wait for want of scheduling. The source says "A real system
  should provide some fairness guarantees" (`synthesis_msi.cc:901`).
- `ParallelSolver!FairSpec`: weak fairness of the whole next-state relation: while some
  thread can go on, one does. That is less than an operating system gives, and enough.

## 5. Proofs

Every theorem is of the form `Spec => []P` (or an action property, or a refinement) and
holds for every value of the constants that the modules' own assumptions allow. Three kinds
of theorems add an assumption. The two `NothingThrown` ask for slots enough, which the
programs have. Those of `SynthesisMSI_proofs` are about `Accepted`, the reference and the four
completions that the study accepts (of others they are false: that is what it synthesises).
Those about patterns ask for no more values than an `int` has bits; the code does not check
this, and beyond it the matcher is wrong (item 4 above).

| Module | Theorem | What it says | Assumptions |
|---|---|---|---|
| `Eval_BFS_proofs` | `TypeCorrect`, `SearchInvariant` | types; found states are reachable, parents lead back, no false alarm | `FiniteAssumption`, `EvalAssumption`, `NoParentAssumption`: a finite set of states; systems and queues have their types, and a queue is not empty |
| | `Exhaustive` | `ReturnIsExhaustive`: an empty queue has left exactly the reachable states, none in error | |
| | `AcceptingInOrder` | `AcceptingReturned`: accepting states once each, nearest first | |
| | `ShortestCounterexample` | `TraceIsShortestCounterexample`: the trace is a run to that error, no nearer state has one, nothing else is thrown | |
| | `Refinement` | every step is one of `StateSearch` (`Abstract!SafeSpec`) or none | |
| | `VerdictSound`, `FailureReal` | `VerdictIsSound`, `FailureIsReal`: exit codes 0 and 1 are true | those of `Eval_BFS`, `NodeAssumption` |
| `Eval_BFS_Hashing_proofs` | `TypeCorrect`, `LossOnly`, `Genuine` | types, `LossOnlyByCollision`, `TraceIsGenuine` | `FiniteAssumption`, `EvalAssumption` |
| | `Refinement` | every step is one of `StateSearch` with hashes for classes, or none | |
| `TSOMachine_proofs` | `TypeCorrect`, `CoherenceInWriteOrder` | types, `CoherenceIsWriteOrder` | `MachineAssumption` |
| | `AllExecutionsAreTSO` | `ExecutionIsTSO`: the axioms allow what the machine records | |
| `Containers_proofs` | `TypeCorrect`, `LookupsExact`, `EqualityIsContent` | types, `LookupsAreExact`, `EqualIsSameContent` | `SetAssumption` |
| `MSIDirectory_proofs` | `TypeCorrect`, `SingleWriter`, `DirectoryKnowsCopies`, `AcksBalance`, `NoWayBack` | types, `SWMR`, `DirectoryTracksCopies`, `AcksAccountedFor`, `NoPingPong` for any number of caches and slots | `NodeAssumption`: finitely many caches, and nodes that differ |
| | `NothingThrown` | `NoErrorThrown`: every message comes in a state that expects it, channels suffice, the assertions hold | also `Cardinality(Proc) < NetMax`; the program has `NET_MAX = PROC_COUNT + 1` (`msi_directory.cc:35`) |
| `SynthesisMSI_proofs` | `TypeCorrect`, `SingleWriter`, `DirectoryKnowsCopies`, `AcksBalance` | types, `Coherent`, `DirectoryTracksCopies`, `AcksAccountedFor` for any number of caches and slots | `NodeAssumption`; `Completions \subseteq Accepted`, as in `synthesis_msi.cfg` |
| | `NothingThrown` | `NoErrorThrown` | also `Cardinality(Proc) < NetMax` and `2 * Cardinality(Proc) <= NetMax + 2`; the program has 3 caches and `NET_MAX = 4` (`synthesis_msi.cc:41`) |
| `ParallelSolver_proofs` | `MatchExact`, `LowerValuesSkipped` | `MatchIsExact`, `LowerValuesIrrelevant` for any candidates and any number of patterns | `WidthAssumption`, `CandidatesAssumption`; `Narrow`: candidates have fewer values than an `int` has bits |
| | `SolutionsCorrect`, `ThrowsWithReason` | `SolutionsAreCorrect`, `ThrowsForAReason` for every model, any number of holes, options and threads, any limit and width | `SolverAssumption`, with `Possible` |
| | `PruningSound` | `PatternsCoverFaulty` | also `Cardinality(Hole) <= IntBits` |

`SearchLemmas` has what the search proofs share: ranges of sequences and orders of sets,
reachability as a least set closed under steps, and the rebuilding of traces, which both
backends take from `EvalBase`.

**The search.** `TypeOK /\ SearchInv` is inductive. `TypeOK` alone is not, since the walk along
the parents looks its position up; `ReturnIsExhaustive` alone is not, since it says nothing
of a search in progress. `SearchInv` says that every state found and off the queue was
evaluated without error and all its successors were found: with an empty queue, the states
found are closed under steps and contain the start states, so they contain the reachable
ones. Conversely only successors of reachable states are found. Three more invariants are
proved on top of it:

- `QueueInv` counts the start states left at the front of the queue, which may repeat; all
  states behind them are there once. So the states evaluated are those off the queue,
  which is what `Refinement` needs.
- `LevelInv`: *there is* a function from the states found to their distance along the
  parents by which the queue is sorted, spanning two levels at most, with no step from a
  state off the queue that skips a level. By it parents lead back along shortest runs,
  results are nearest first and the walk ends; it also rules out that a start state gets
  a parent. The level is not part of the state, so the invariant is an existential.
- `WalkInv` and `RebuildInv` are about the trace: the hashes collected are those of a run
  read backwards from the error, and, where hashes separate siblings, the state rebuilt so
  far is the one on that run at the position of the cursor.

**Hashing.** `HashInv`: the hashes found are those of states evaluated or queued, which are
reachable, and those of all successors of evaluated states are found. For the trace,
`GenuineInv` says that, where siblings are separated, *there is* a state for each hash, with
that hash, whose successor relation the parents follow (`Represents`): of several states of
one hash only the first was queued, and the walk goes along these.

**The command.** `GraphInv` relates the recorded edges to steps, both ways: all edges of the
states found and off the queue are in the graph, and, until a trace is rebuilt, each edge is
that of a step between reachable states. With one node whose state is the state, a cycle of edges is a run.

**TSO.** `EventInv` (events are numbered, a number names one write) and `CoherenceInv` (the
numbers of the writes to an address are linked in order) are inductive. For the axioms the
proof adds a history to the machine as an existential (`HistoryInv`): which write each
thread last copied the memory at, and for each read which write it observed, the last copy of its
thread, and the last write at its time. An order that puts reads where they observed has all edges of one
address, one that puts them at their last copy has all that TSO keeps; so neither has a cycle.

**Containers.** `TypeOK` is inductive and suffices for the lookups. `EqualIsSameContent` relates
a permutation of slots, by which the code compares, to counts: equal counts give a bijection
for each element, which together with one of the free slots make the permutation.

**The MSI protocol.** None of its properties is inductive: that a reader has no writer beside
it depends on which messages are under way for whom. The proof describes the channels by a
*view*, one fact per cache: its request and the data it wrote back (`request`, `writebacks`),
the data, announcement and acknowledgements on the way to it (`served`, `announced`, `acked`),
and for whom it is being invalidated or forwarded to (`invalidator`, `fwdS`, `fwdM`,
`putAcked`). `Shape` (the channels hold one message of each of these kinds at most, and
nothing follows a Put_Ack) makes the view faithful (`ViewIs`). In terms of the view
`ProtocolInv` has ten parts, inductive together:

- a request, data, forward or Put_Ack is under way only where its receiver, and who asked for
  it, are in states that wait for it (`RequestInv`, `DataInv`, `ForwardInv`, `PutAckInv`);
- the directory's state agrees with owner, sharers and what is on its way back to it
  (`DirectoryInv`), and a sharer has a copy, has given it up and said so, or is about to be
  served (`SharerInv`);
- there is one *holder* at most, a cache with the line to itself or with data on its way that
  gives it that; the directory knows it, or has sent it a forward (`HolderInv`); any other
  reader has an invalidation on behalf of the holder under way (`ReaderInv`);
- an invalidation is for a cache that waits for its acknowledgement (`InvalidationInv`), and
  acknowledgements counted, announced and under way balance (`CountInv`).

The proof has two layers: the effect of each handler on the view (`DataTaken`, `HeadTaken`,
`Broadcast`, ...), and one lemma per kind of step in the view (`AsksPreserves`,
`InvalidatesPreserves`, ...) that preserves each part. The invariant does not mention the
number of slots, since a handler that finds no room throws and changes nothing. That none
does is a count on top of it: the messages in a channel can be charged to different caches
(`DirRoom`, `CacheRoom`), so a channel with one slot more than caches has room.

**The MSI protocol of the study.** The proof has the same two layers, but this protocol
differs in what makes it correct: the directory counts the acknowledgements, and caches
never send to each other but for Invs on the writer's behalf. The view is, per cache, its
request (`getM`, `getS`), its Put and its Ack under way (`puts`, `acked`), and the data, the
acknowledgement of a Put, the directory's Inv and a writer's Inv on the way to it (`data`,
`putAcked`, `recalled`, `invalidated`). `Shape` says that the channels hold nothing else.
`ProtocolInv` has seven parts, none of them inductive without the others:

- `DirectoryInv`: which states have an owner or sharers, and that the reader for whom M_S
  waits has been sent nothing and still waits (so that the answer to the Put, whether the
  reference sends it or a completion does not, finds it where it can take it);
- `RequestInv`: a request is under way only while its cache waits, and is not yet served;
- `CopyInv`: one cache at most has the modified line or a Put with it on the way, and it is
  the owner or is being recalled; a shared copy is a sharer's in S or is being invalidated;
- `DataInv`: data is on its way to the owner of I_M, to a reader that is a sharer in S or is
  being invalidated, or to one that has been, which drops it (IS_I);
- `OwnerInv`: in I_M the owner's data and its Ack are exactly one of the two under way, and
  in M and I_M the owner has the line or sends it back; so an Ack that the hole of I_M
  answers is the owner's, and whether it "tracks" the source makes no difference;
- `PutInv`, `AckInv`: whose Puts, acknowledged Puts, recalls, Invs and Acks there can be, and
  in S_M, that `acks` counts the caches invalidated or acknowledging.

`AcceptedHoles` is all that the proof knows of a completion: the four solutions leave the
owner and the state as the reference has them after an Ack in I_M, and differ from it in
the data not sent after a Put in M_S. `AcksBalance` and `NothingThrown` count: messages of
one kind are as many as their senders (`SenderCount`), and when a cache has something to
send it has no request at the directory, or no acknowledgement (`RoomAtDir`).

**The matcher.** `MatcherInv`: under each bit pattern there are the values of candidates
inserted with just these positions, and all of them. While candidates have fewer values than
an `int` has bits, a bit pattern is the set of positions (`BitsAre`), the patterns between the
bounds and within the bits are those whose positions have values (`ComparableIs`), and the
ascending order of bit patterns is total (`BelowOrder`), so that there is a first match
(`FirstBits`). Which one is first does not matter, only that its lowest position is returned.

**The solver.** `SolverInv` relates what a thread holds to what is registered meanwhile. Labels
only grow and stay distinct (`RegistrationInv`); every candidate, in a thread or a result, has
values for the first holes registered (`Known`), so that holes registered later leave its
options and its outcome as they are (`OptionKept`, `OutcomeKept`). Therefore a result is a
solution still (`ResultInv`), and a pattern has the values of some fault, at the positions
of its holes (`PatternsInv`, `Pins`). From the second, a candidate that matches agrees with that
fault. From the first, a solution is correct under all options of the holes it leaves open:
suppose such options complete a fault; of its holes that were open, one is reached under the
others (`Possible`), and its evaluation would have been unknown. `CountInv` says what
`combinations_` is: up to the limit, the product of the ranges registered; above it, what a
failed `Extend` left. Then, and whenever a solver has failed (`ReasonInv`), there is a reason
that stays one: the hole that did not fit is never registered, as the product only grows.
No theorem depends on which candidates a thread comes by. Of the arithmetic of `RangeValues`
one fact is needed, that a product is multiplied by the range appended (`ProductGrows`); the
products are shown equal weight by weight, from the first at which they could differ.

Only model-checked:

- liveness (`Terminates`, `EventuallyStable`, `ReferenceSatisfiesAccesses`, the fairness half
  of `ImplementsStateSearch`): out of the prover's reach, as is `ENABLED`;
- `ImplementsBags`: the size of a bag is a sum over its elements, and a sum's properties
  need induction over data;
- what depends on the numbers of `RangeValues`: `CombinationsIsProduct`, `CompareIsNumeric`,
  `AdvanceAdds` and `ExtendKeepsNumbers` of `RangeEnumerate`, and of the solver
  `NoCandidateTwice` (with the contracts), `OnlyFaultySkipped` and `SolutionsFound`.
  Numbers and carries of values of any length are recursive functions, and what they
  compute for every length needs induction over data. (`OnlyFaultySkipped` does not hold for
  every number of threads, as `solver_skip` shows.) TLC checks each over all inputs up to
  the bounds of section 3.

## 6. Not modelled, and why

- Output, memory limit, command line, and the selection of models: no state.
- Copy and move of `RangeEnumerate`, and `label_map_`, which caches what `labels` says.
- `candidate_callback`, which is the caller's code.
- Data races proper: `g_range_enumerate.combinations()` is read by the main thread for the
  stride while threads extend it. It is read as one step.
- Running out of memory in `ModelCheckerCommand` and `tso_lb.cc` (exit code 42).
- `SYNON` above 1: more holes of the same kinds in other handlers. The search for the
  solutions is `ParallelSolver`'s; `SynthesisMSI` takes completions as given, and TLC runs
  it for the reference and the solutions.
- `AllStatesUsed`, which counts L1 states, and `Promising`, which picks the candidate whose
  trace is printed after a failure.
- The commutative hash, `Set`, `Relation` and `WeakUnion` of `types.hh`: mc2lib's code, a
  sum, and a cast.
- Permuting caches without renaming the IDs stored elsewhere, as `ArraySet` equality does
  for the protocols: they keep such states apart, so the models have more states than the
  program, and no fewer behaviours.
- The merging of TSO states that differ in the recorded execution only: the machine keeps
  all of them, and all are valid.

## 7. Plan

The modules planned are written, and the theorems about the search, the command, the TSO
machine, the containers, both MSI protocols, the matcher and the solver's results and
patterns are proved. What is left, in order of what it would say:

1. `NoCandidateTwice` of the solver over an abstract enumeration: a successor function on
   candidates with the properties of `Advance` as an assumption that TLC checks of
   `RangeValues`.
2. `SYNON = 2`: the holes of the other handlers, in `SynthesisMSI`.
