-------------------------- MODULE TSOMachine_proofs --------------------------
(***************************************************************************)
(* Proofs about the store-buffer machine of models/tso_lb.cc, for every    *)
(* number of threads and addresses and executions of every length: the     *)
(* executions it records are those of TSO.                                 *)
(***************************************************************************)
EXTENDS TSOMachine, FiniteSetTheorems, WellFoundedInduction, TLAPS

-----------------------------------------------------------------------------
(***************************************************************************)
(* Iteration, transitive closure and acyclicity.                           *)
(***************************************************************************)

(* A non-empty set of naturals has a least element.                        *)
LEMMA LeastNatural ==
  ASSUME NEW S \in SUBSET Nat, S # {}
  PROVE  \E i \in S : \A j \in S : i <= j
<1>1. PICK i \in S : \A j \in S : ~ (<<j, i>> \in OpToRel(<, Nat))
  BY NatLessThanWellFounded, WFMin
<1>2. ASSUME NEW j \in S PROVE i <= j
  <2>1. ~ (j < i)
    BY <1>1 DEF OpToRel
  <2>2. i \in Nat /\ j \in Nat
    OBVIOUS
  <2> QED
    BY <2>1, <2>2
<1> QED
  BY <1>2

(* f[i] is what F makes of a in i steps.                                   *)
Maps(F, D) == \A x \in D : F[x] \in D
Iteration(f, F, a, D, k) ==
  /\ f \in [0 .. k -> D]
  /\ f[0] = a
  /\ \A i \in 1 .. k : f[i] = F[f[i - 1]]

(* A function can be iterated any number of times.                         *)
LEMMA Iterates ==
  ASSUME NEW D, NEW a \in D, NEW F, Maps(F, D), NEW k \in Nat
  PROVE  \E f : Iteration(f, F, a, D, k)
<1> DEFINE P(n) == \E f : Iteration(f, F, a, D, n)
           Bad == {n \in Nat : ~P(n)}
<1> SUFFICES ASSUME Bad # {} PROVE FALSE
  OBVIOUS
<1>1. PICK n \in Bad : \A j \in Bad : n <= j
  <2>1. Bad \in SUBSET Nat
    OBVIOUS
  <2> HIDE DEF Bad
  <2> QED
    BY <2>1, LeastNatural
<1>2. P(0)
  <2> DEFINE f == [i \in 0 .. 0 |-> a]
  <2>1. f \in [0 .. 0 -> D] /\ f[0] = a
          /\ \A i \in 1 .. 0 : f[i] = F[f[i - 1]]
    OBVIOUS
  <2> QED
    BY <2>1 DEF Iteration
<1>3. n # 0 /\ n \in Nat
  BY <1>1, <1>2
<1>4. PICK f : Iteration(f, F, a, D, n - 1)
  <2>1. n - 1 \in Nat /\ ~ (n <= n - 1)
    BY <1>3
  <2> QED
    BY <1>1, <2>1
<1> DEFINE g == [i \in 0 .. n |-> IF i = n THEN F[f[n - 1]] ELSE f[i]]
<1>5. g \in [0 .. n -> D]
  <2> SUFFICES ASSUME NEW i \in 0 .. n PROVE g[i] \in D
    OBVIOUS
  <2>1. n - 1 \in 0 .. n - 1 /\ (i # n => i \in 0 .. n - 1)
    BY <1>3
  <2> QED
    BY <1>4, <2>1 DEF Iteration, Maps
<1>6. g[0] = a
  BY <1>3, <1>4 DEF Iteration
<1>7. ASSUME NEW i \in 1 .. n PROVE g[i] = F[g[i - 1]]
  <2>1. /\ i - 1 \in 0 .. n - 1 /\ i - 1 # n
        /\ i # n => i \in 1 .. n - 1 /\ i \in 0 .. n
        /\ i - 1 \in 0 .. n /\ i \in 0 .. n
    BY <1>3
  <2>2. g[i - 1] = f[i - 1]
    BY <2>1
  <2>3. g[i] = IF i = n THEN F[f[n - 1]] ELSE f[i]
    BY <2>1
  <2> HIDE DEF g
  <2> QED
    BY <1>4, <2>1, <2>2, <2>3 DEF Iteration
<1> HIDE DEF g
<1>8. P(n)
  BY <1>5, <1>6, <1>7 DEF Iteration
<1> QED
  BY <1>1, <1>8

(* The recursion that Closure is defined by.                               *)
Extend(R, b) ==
  b \cup {<<z[1][1], z[2][2]>> : z \in {y \in b \X R : y[1][2] = y[2][1]}}
ClosureRec(R, c) ==
  c = [i \in 0 .. Cardinality(R) |->
         IF i = 0 THEN R ELSE Extend(R, c[i - 1])]

(* It has a solution.                                                      *)
LEMMA ClosureExists ==
  ASSUME NEW U, NEW R \in SUBSET (U \X U), IsFiniteSet(R)
  PROVE  \E c : ClosureRec(R, c)
<1> DEFINE D == SUBSET (U \X U)
           F == [b \in D |-> Extend(R, b)]
           k == Cardinality(R)
<1>1. Maps(F, D)
  <2> SUFFICES ASSUME NEW b \in D PROVE Extend(R, b) \in D
    BY DEF Maps
  <2>1. ASSUME NEW z \in b \X R PROVE <<z[1][1], z[2][2]>> \in U \X U
    OBVIOUS
  <2> QED
    BY <2>1 DEF Extend
<1>2. k \in Nat
  BY FS_CardinalityType
<1>3. PICK c : Iteration(c, F, R, D, k)
  <2>1. R \in D
    OBVIOUS
  <2> HIDE DEF F, D, k
  <2> QED
    BY <1>1, <1>2, <2>1, Iterates
<1>4. ASSUME NEW i \in 0 .. k
      PROVE  c[i] = IF i = 0 THEN R ELSE Extend(R, c[i - 1])
  <2>1. i # 0 => i \in 1 .. k /\ i - 1 \in 0 .. k
    BY <1>2
  <2> QED
    BY <1>3, <2>1 DEF Iteration
<1>5. c = [i \in 0 .. k |-> IF i = 0 THEN R ELSE Extend(R, c[i - 1])]
  BY <1>3, <1>4 DEF Iteration
<1> QED
  BY <1>5 DEF ClosureRec

(* The closure of a relation is in every transitive relation it is in.     *)
LEMMA ClosureIsLeast ==
  ASSUME NEW U, NEW R \in SUBSET (U \X U), IsFiniteSet(R),
         NEW T \in SUBSET (U \X U), R \subseteq T,
         \A x, y, z \in U : <<x, y>> \in T /\ <<y, z>> \in T => <<x, z>> \in T
  PROVE  Closure(R) \subseteq T
<1> DEFINE c == CHOOSE c : ClosureRec(R, c)
           k == Cardinality(R)
<1>1. ClosureRec(R, c)
  BY ClosureExists
<1>2. Closure(R) = c[k]
  BY DEF Closure, ClosureRec, Extend
<1>3. k \in Nat
  BY FS_CardinalityType
<1> HIDE DEF c, k
<1>4. \A i \in 0 .. k : c[i] = IF i = 0 THEN R ELSE Extend(R, c[i - 1])
  BY <1>1 DEF ClosureRec, k
<1> DEFINE Bad == {i \in 0 .. k : ~ (c[i] \subseteq T)}
<1>5. Bad = {}
  <2> SUFFICES ASSUME Bad # {} PROVE FALSE
    OBVIOUS
  <2>1. PICK i \in Bad : \A j \in Bad : i <= j
    <3>1. Bad \in SUBSET Nat
      BY <1>3
    <3> HIDE DEF Bad
    <3> QED
      BY <3>1, LeastNatural
  <2>2. i # 0 /\ i - 1 \in 0 .. k /\ ~ (i <= i - 1)
    BY <1>3, <1>4, <2>1
  <2>3. c[i - 1] \subseteq T
    BY <2>1, <2>2
  <2>4. ASSUME NEW z \in c[i - 1] \X R, z[1][2] = z[2][1]
        PROVE  <<z[1][1], z[2][2]>> \in T
    <3>1. /\ z[1] \in T /\ z[2] \in T
          /\ z[1] \in U \X U /\ z[2] \in U \X U
      BY <2>3
    <3>2. /\ z[1] = <<z[1][1], z[1][2]>> /\ z[2] = <<z[1][2], z[2][2]>>
          /\ z[1][1] \in U /\ z[1][2] \in U /\ z[2][2] \in U
      BY <2>4, <3>1
    <3> QED
      BY <3>1, <3>2
  <2>5. Extend(R, c[i - 1]) \subseteq T
    BY <2>3, <2>4 DEF Extend
  <2> QED
    BY <1>4, <2>1, <2>2, <2>5
<1> QED
  BY <1>2, <1>3, <1>5

(* x comes before y in the order of the ranks f and, where these are equal,*)
(* g.                                                                      *)
Earlier(f, g, x, y) == f[x] < f[y] \/ (f[x] = f[y] /\ g[x] < g[y])

(* A non-empty set of ranked nodes has one that no other is earlier than.  *)
LEMMA EarliestExists ==
  ASSUME NEW N, NEW f, NEW g, \A n \in N : f[n] \in Nat /\ g[n] \in Nat,
         NEW S \in SUBSET N, S # {}
  PROVE  \E n \in S : \A m \in S : ~Earlier(f, g, m, n)
<1>1. PICK n1 \in S : \A m \in S : f[n1] <= f[m]
  <2> DEFINE ranks == {f[m] : m \in S}
  <2>1. ranks \in SUBSET Nat /\ ranks # {}
    OBVIOUS
  <2>2. \E i \in ranks : \A j \in ranks : i <= j
    <3> HIDE DEF ranks
    <3> QED
      BY <2>1, LeastNatural
  <2> QED
    BY <2>2
<1> DEFINE S1 == {m \in S : f[m] = f[n1]}
<1>2. PICK n \in S1 : \A m \in S1 : g[n] <= g[m]
  <2> DEFINE ranks == {g[m] : m \in S1}
  <2>1. ranks \in SUBSET Nat /\ ranks # {}
    OBVIOUS
  <2>2. \E i \in ranks : \A j \in ranks : i <= j
    <3> HIDE DEF ranks
    <3> QED
      BY <2>1, LeastNatural
  <2> QED
    BY <2>2
<1>3. ASSUME NEW m \in S PROVE ~Earlier(f, g, m, n)
  <2>1. /\ f[m] \in Nat /\ f[n] \in Nat /\ g[m] \in Nat /\ g[n] \in Nat
        /\ f[n] <= f[m]
        /\ f[m] = f[n] => g[n] <= g[m]
    BY <1>1, <1>2
  <2> QED
    BY <2>1 DEF Earlier
<1> QED
  BY <1>2, <1>3

(* The recursion that Acyclic is defined by.                               *)
Ends(R) == {e[1] : e \in R} \cup {e[2] : e \in R}
Peeled(R, l) == {n \in l : \E e \in R : e[2] = n /\ e[1] \in l}
AcyclicRec(R, left) ==
  left = [i \in 0 .. Cardinality(Ends(R)) |->
            IF i = 0 THEN Ends(R) ELSE Peeled(R, left[i - 1])]

(* It has a solution.                                                      *)
LEMMA PeelingExists ==
  ASSUME NEW R, IsFiniteSet(Ends(R))
  PROVE  \E left : AcyclicRec(R, left)
<1> DEFINE nodes == Ends(R)
           D == SUBSET nodes
           F == [l \in D |-> Peeled(R, l)]
           k == Cardinality(nodes)
<1>1. Maps(F, D)
  BY DEF Maps, Peeled
<1>2. k \in Nat
  BY FS_CardinalityType
<1>3. PICK c : Iteration(c, F, nodes, D, k)
  <2>1. nodes \in D
    OBVIOUS
  <2> HIDE DEF F, D, k, nodes
  <2> QED
    BY <1>1, <1>2, <2>1, Iterates
<1>4. ASSUME NEW i \in 0 .. k
      PROVE  c[i] = IF i = 0 THEN nodes ELSE Peeled(R, c[i - 1])
  <2>1. i # 0 => i \in 1 .. k /\ i - 1 \in 0 .. k
    BY <1>2
  <2> QED
    BY <1>3, <2>1 DEF Iteration
<1>5. c = [i \in 0 .. k |-> IF i = 0 THEN nodes ELSE Peeled(R, c[i - 1])]
  BY <1>3, <1>4 DEF Iteration
<1> QED
  BY <1>5 DEF AcyclicRec

(* A relation all of whose edges go from an earlier to a later node of a   *)
(* finite set has no cycle.                                                *)
LEMMA RankedIsAcyclic ==
  ASSUME NEW N, IsFiniteSet(N), NEW R \in SUBSET (N \X N),
         NEW f, NEW g, \A n \in N : f[n] \in Nat /\ g[n] \in Nat,
         \A e \in R : Earlier(f, g, e[1], e[2])
  PROVE  Acyclic(R)
<1> DEFINE nodes == Ends(R)
           left == CHOOSE left : AcyclicRec(R, left)
           k == Cardinality(nodes)
<1>1. nodes \in SUBSET N /\ IsFiniteSet(nodes)
  <2>1. nodes \in SUBSET N
    BY DEF Ends
  <2> QED
    BY <2>1, FS_Subset
<1>2. AcyclicRec(R, left)
  BY <1>1, PeelingExists
<1>3. Acyclic(R) <=> left[k] = {}
  BY DEF Acyclic, AcyclicRec, Ends, Peeled
<1>4. k \in Nat
  BY <1>1, FS_CardinalityType
<1> HIDE DEF left, k
<1>5. \A i \in 0 .. k : left[i] = IF i = 0 THEN nodes
        ELSE Peeled(R, left[i - 1])
  BY <1>2 DEF AcyclicRec, k
<1>6. ASSUME NEW l \in SUBSET nodes, l # {}
      PROVE  Peeled(R, l) \subseteq l /\ Peeled(R, l) # l
  <2>1. PICK n \in l : \A m \in l : ~Earlier(f, g, m, n)
    BY <1>1, <1>6, EarliestExists
  <2>2. n \notin Peeled(R, l)
    BY <2>1 DEF Peeled
  <2> QED
    BY <2>2 DEF Peeled
<1> DEFINE Good(i) == left[i] \in SUBSET nodes
             /\ Cardinality(left[i]) <= k - i
           Bad == {i \in 0 .. k : ~Good(i)}
<1>7. Bad = {}
  <2> SUFFICES ASSUME Bad # {} PROVE FALSE
    OBVIOUS
  <2>1. PICK i \in Bad : \A j \in Bad : i <= j
    <3>1. Bad \in SUBSET Nat
      BY <1>4
    <3> HIDE DEF Bad
    <3> QED
      BY <3>1, LeastNatural
  <2>2. i # 0
    BY <1>4, <1>5, <2>1 DEF k
  <2>3. i \in 1 .. k /\ i - 1 \in 0 .. k /\ ~ (i <= i - 1)
    BY <1>4, <2>1, <2>2
  <2>4. left[i - 1] \in SUBSET nodes
          /\ Cardinality(left[i - 1]) <= k - (i - 1)
    BY <2>1, <2>3
  <2> PICK l : l = left[i - 1]
    OBVIOUS
  <2>5. left[i] = Peeled(R, l) /\ Peeled(R, l) \subseteq l
    BY <1>5, <2>2, <2>3 DEF Peeled
  <2>6. IsFiniteSet(l) /\ Cardinality(l) \in Nat
    BY <1>1, <2>4, FS_Subset, FS_CardinalityType
  <2>7. /\ IsFiniteSet(Peeled(R, l)) /\ Cardinality(Peeled(R, l)) \in Nat
        /\ Cardinality(Peeled(R, l)) <= Cardinality(l)
        /\ Cardinality(l) = Cardinality(Peeled(R, l)) => l = Peeled(R, l)
    BY <2>5, <2>6, FS_Subset, FS_CardinalityType
  <2>8. Cardinality(Peeled(R, l)) <= k - i
    <3>1. CASE l = {}
      <4>1. Peeled(R, l) = {} /\ k - i >= 0
        BY <1>4, <2>3, <2>5, <3>1
      <4> QED
        BY <1>4, <2>3, <4>1, FS_EmptySet
    <3>2. CASE l # {}
      <4>1. Cardinality(Peeled(R, l)) # Cardinality(l)
        BY <1>6, <2>4, <2>7, <3>2
      <4> QED
        BY <1>4, <2>3, <2>4, <2>6, <2>7, <4>1
    <3> QED
      BY <3>1, <3>2
  <2>9. Good(i)
    BY <2>4, <2>5, <2>8
  <2> QED
    BY <2>1, <2>9
<1>8. left[k] \in SUBSET nodes /\ Cardinality(left[k]) <= 0
  <2>1. k \in 0 .. k /\ k - k = 0
    BY <1>4
  <2> QED
    BY <1>7, <2>1
<1>9. IsFiniteSet(left[k]) /\ Cardinality(left[k]) \in Nat
  BY <1>1, <1>8, FS_Subset, FS_CardinalityType
<1> QED
  BY <1>3, <1>8, <1>9, FS_EmptySet

-----------------------------------------------------------------------------
(***************************************************************************)
(* What is recorded: events are numbered, and a number names one write.    *)
(***************************************************************************)

(* i is the number of a write to a, or of its initial one.                 *)
Holds(a, i) == i = kInitWrite \/ \E w \in Writes : w.id = i /\ w.addr = a

Numbered ==
  /\ IsFiniteSet(rf) /\ IsFiniteSet(co) /\ IsFiniteSet(po)
  /\ \A p \in Pid : IsFiniteSet(po_last_[p])
  /\ \A w \in Writes : /\ w.type = "Write" /\ w.pid \in Pid
                       /\ 0 < w.id /\ w.id < next_write_id_
  /\ \A v, w \in Writes : v.id = w.id => v = w
  /\ \A r \in Reads : /\ r.type = "Read" /\ r.pid \in Pid
                      /\ 0 < r.id /\ r.id < next_read_id_
  /\ \A d, e \in rf : d[2].id = e[2].id => d = e
  /\ \A a \in Addr : /\ Holds(a, global_[a])
                     /\ \A p \in Pid : Holds(a, local_buffer_[p][a])

(* rf and co relate a write to a read or to a later write of its address.  *)
Linked ==
  /\ \A e \in rf \cup co : /\ e[1] \in Writes \/ e[1] = InitWrite(e[1].addr)
                          /\ e[1].addr = e[2].addr
  /\ \A e \in co : e[1].id < e[2].id

EventInv == TypeOK /\ Numbered /\ Linked

(* There are no events.                                                    *)
LEMMA EventInvInit == Init => EventInv
<1> SUFFICES ASSUME Init PROVE EventInv
  OBVIOUS
<1>1. Reads = {} /\ Writes = {}
  BY DEF Init, Reads, Writes
<1>2. TypeOK
  BY FS_EmptySet DEF Init, TypeOK, kInitWrite
<1>3. Numbered
  BY <1>1, FS_EmptySet DEF Init, Numbered, Holds
<1>4. Linked
  BY DEF Init, Linked
<1> QED
  BY <1>2, <1>3, <1>4 DEF EventInv

(* The numbers are naturals.                                               *)
LEMMA Counters ==
  ASSUME EventInv
  PROVE  /\ next_read_id_ \in Nat \ {0}
         /\ next_write_id_ \in Nat \ {0}
         /\ Cardinality(rf) \in Nat /\ Cardinality(co) \in Nat
<1>1. Cardinality(rf) \in Nat /\ Cardinality(co) \in Nat
  BY FS_CardinalityType DEF EventInv, Numbered
<1> QED
  BY <1>1 DEF EventInv, TypeOK

(* Events are of their type.                                               *)
LEMMA EventTypes ==
  ASSUME EventInv
  PROVE  Writes \subseteq Event /\ Reads \subseteq Event
BY DEF EventInv, TypeOK, Writes, Reads

(* The write found for a number is the one of that number and address.     *)
LEMMA GetWriteFinds ==
  ASSUME EventInv, NEW a \in Addr, NEW i, Holds(a, i)
  PROVE  LET g == GetWrite(a, i)
         IN  /\ g \in Writes \/ g = InitWrite(a)
             /\ g \in Event
             /\ g.type = "Write" /\ g.addr = a /\ g.id = i
<1> DEFINE g == GetWrite(a, i)
<1>1. CASE i = kInitWrite
  <2>1. g = InitWrite(a)
    BY <1>1 DEF GetWrite
  <2>2. /\ InitWrite(a) \in Event
        /\ InitWrite(a).type = "Write"
        /\ InitWrite(a).addr = a
        /\ InitWrite(a).id = kInitWrite
    BY DEF InitWrite, Event, kInitWrite
  <2> QED
    BY <1>1, <2>1, <2>2
<1>2. CASE i # kInitWrite
  <2>1. PICK w \in Writes : w.id = i /\ w.addr = a
    BY <1>2 DEF Holds
  <2>2. g = CHOOSE v \in Writes : v.id = i
    BY <1>2 DEF GetWrite
  <2>3. g \in Writes /\ g.id = i
    BY <2>1, <2>2
  <2>4. g = w
    BY <2>1, <2>3 DEF EventInv, Numbered
  <2>5. w.type = "Write" /\ w \in Event
    BY EventTypes DEF EventInv, Numbered
  <2> QED
    BY <2>1, <2>3, <2>4, <2>5
<1> QED
  BY <1>1, <1>2

(* What a read records.                                                    *)
LEMMA ReadRecords ==
  ASSUME EventInv, NEW p \in Pid, NEW a \in Addr, Read(p, a)
  PROVE  \E r, g :
           /\ r = ReadEvent(p, a) /\ r \in Event
           /\ r.type = "Read" /\ r.addr = a /\ r.pid = p
                /\ r.id = next_read_id_
           /\ g \in Writes \/ g = InitWrite(a)
           /\ g \in Event /\ g.type = "Write" /\ g.addr = a
           /\ g.id = local_buffer_[p][a]
           /\ rf' = rf \cup {<<g, r>>} /\ Reads' = Reads \cup {r}
           /\ co' = co /\ Writes' = Writes
           /\ \A e \in rf : e[2].id < next_read_id_
           /\ InsertPo(p, r)
<1> PICK r : r = ReadEvent(p, a)
  OBVIOUS
<1> PICK g : g = GetWrite(a, local_buffer_[p][a])
  OBVIOUS
<1>1. /\ r \in Event
      /\ r.type = "Read" /\ r.addr = a /\ r.pid = p /\ r.id = next_read_id_
  BY Counters DEF ReadEvent, Event
<1>2. /\ g \in Writes \/ g = InitWrite(a)
      /\ g \in Event /\ g.type = "Write" /\ g.addr = a
      /\ g.id = local_buffer_[p][a]
  BY GetWriteFinds DEF EventInv, Numbered
<1>3. /\ rf' = rf \cup {<<g, r>>} /\ co' = co /\ InsertPo(p, r)
  BY DEF Read
<1>4. Reads' = Reads \cup {r}
  <2>1. <<g, r>>[2] = r
    OBVIOUS
  <2> QED
    BY <1>3, <2>1 DEF Reads
<1>5. Writes' = Writes
  BY <1>3 DEF Writes
<1>6. \A e \in rf : e[2].id < next_read_id_
  BY DEF EventInv, Numbered, Reads
<1> QED
  BY <1>1, <1>2, <1>3, <1>4, <1>5, <1>6

(* What a write records.                                                   *)
LEMMA WriteRecords ==
  ASSUME EventInv, NEW p \in Pid, NEW a \in Addr, Write(p, a)
  PROVE  \E w, g :
           /\ w = WriteEvent(p, a) /\ w \in Event
           /\ w.type = "Write" /\ w.addr = a /\ w.pid = p
           /\ w.id = next_write_id_
           /\ g \in Writes \/ g = InitWrite(a)
           /\ g \in Event /\ g.type = "Write" /\ g.addr = a
           /\ g.id = global_[a]
           /\ co' = co \cup {<<g, w>>} /\ Writes' = Writes \cup {w}
           /\ rf' = rf /\ Reads' = Reads
           /\ \A e \in co : e[2].id < next_write_id_
           /\ InsertPo(p, w)
<1> PICK w : w = WriteEvent(p, a)
  OBVIOUS
<1> PICK g : g = GetWrite(a, global_[a])
  OBVIOUS
<1>1. /\ w \in Event
      /\ w.type = "Write" /\ w.addr = a /\ w.pid = p /\ w.id = next_write_id_
  BY Counters DEF WriteEvent, Event
<1>2. /\ g \in Writes \/ g = InitWrite(a)
      /\ g \in Event /\ g.type = "Write" /\ g.addr = a
      /\ g.id = global_[a]
  BY GetWriteFinds DEF EventInv, Numbered
<1>3. /\ co' = co \cup {<<g, w>>} /\ rf' = rf /\ InsertPo(p, w)
  BY DEF Write
<1>4. Writes' = Writes \cup {w}
  <2>1. <<g, w>>[2] = w
    OBVIOUS
  <2> QED
    BY <1>3, <2>1 DEF Writes
<1>5. Reads' = Reads
  BY <1>3 DEF Reads
<1>6. \A e \in co : e[2].id < next_write_id_
  BY DEF EventInv, Numbered, Writes
<1> QED
  BY <1>1, <1>2, <1>3, <1>4, <1>5, <1>6

(* An event is put after the last one of its thread.                       *)
LEMMA InsertPoKeeps ==
  ASSUME EventInv, NEW p \in Pid, NEW x \in Event, InsertPo(p, x)
  PROVE  /\ po_last_' \in [Pid -> SUBSET Event]
         /\ \A q \in Pid : IsFiniteSet(po_last_'[q])
         /\ po' \subseteq Event \X Event /\ IsFiniteSet(po')
<1>1. /\ po' = po \cup (po_last_[p] \X {x})
      /\ po_last_' = [po_last_ EXCEPT ![p] = {x}]
  BY DEF InsertPo
<1>2. /\ po_last_ \in [Pid -> SUBSET Event] /\ po \subseteq Event \X Event
      /\ \A q \in Pid : IsFiniteSet(po_last_[q])
      /\ IsFiniteSet(po)
  BY DEF EventInv, TypeOK, Numbered
<1>3. IsFiniteSet({x})
  BY FS_Singleton
<1>4. IsFiniteSet(po_last_[p] \X {x})
  BY <1>2, <1>3, FS_Product
<1>5. IsFiniteSet(po')
  BY <1>1, <1>2, <1>4, FS_Union
<1> QED
  BY <1>1, <1>2, <1>3, <1>5

(* A read adds one event at the end of its thread.                         *)
LEMMA EventInvRead ==
  ASSUME EventInv, NEW p \in Pid, NEW a \in Addr, Read(p, a)
  PROVE  EventInv'
<1>1. PICK r, g :
        /\ r = ReadEvent(p, a) /\ r \in Event
        /\ r.type = "Read" /\ r.addr = a /\ r.pid = p /\ r.id = next_read_id_
        /\ g \in Writes \/ g = InitWrite(a)
        /\ g \in Event /\ g.type = "Write" /\ g.addr = a
        /\ g.id = local_buffer_[p][a]
        /\ rf' = rf \cup {<<g, r>>} /\ Reads' = Reads \cup {r}
        /\ co' = co /\ Writes' = Writes
        /\ \A e \in rf : e[2].id < next_read_id_
        /\ InsertPo(p, r)
  BY ReadRecords
<1>2. /\ UNCHANGED <<global_, local_buffer_, co, next_write_id_>>
      /\ next_read_id_' = next_read_id_ + 1
  BY DEF Read
<1>3. /\ <<g, r>> \notin rf /\ <<g, r>>[1] = g /\ <<g, r>>[2] = r
      /\ next_read_id_ \in Nat \ {0}
  <2>1. <<g, r>>[2] = r /\ <<g, r>>[1] = g
    OBVIOUS
  <2> QED
    BY <1>1, <2>1, Counters
<1>4. /\ IsFiniteSet(rf') /\ Cardinality(rf') = Cardinality(rf) + 1
      /\ IsFiniteSet(co')
  BY <1>1, <1>3, FS_AddElement DEF EventInv, Numbered
<1>5. /\ po_last_' \in [Pid -> SUBSET Event]
      /\ \A q \in Pid : IsFiniteSet(po_last_'[q])
      /\ po' \subseteq Event \X Event /\ IsFiniteSet(po')
  BY <1>1, InsertPoKeeps
<1>6. TypeOK'
  BY <1>1, <1>2, <1>3, <1>4, <1>5, Counters DEF EventInv, TypeOK
<1>7. \A b, i : Holds(b, i)' <=> Holds(b, i)
  BY <1>1 DEF Holds
<1>8. ASSUME NEW d \in rf', NEW e \in rf', d[2].id = e[2].id PROVE d = e
  <2>1. \A c \in rf' : c \in rf \/ c = <<g, r>>
    BY <1>1
  <2>2. \A c \in rf : c[2].id # r.id
    BY <1>1, <1>3 DEF EventInv, TypeOK, Event
  <2> QED
    BY <1>3, <1>8, <2>1, <2>2 DEF EventInv, Numbered
<1>9. Numbered'
  <2>1. \A w \in Writes' : /\ w.type = "Write" /\ w.pid \in Pid
                          /\ 0 < w.id /\ w.id < next_write_id_'
    BY <1>1, <1>2 DEF EventInv, Numbered
  <2>2. \A q \in Reads' : /\ q.type = "Read" /\ q.pid \in Pid
                         /\ 0 < q.id /\ q.id < next_read_id_'
    <3>1. \A q \in Reads : /\ q.type = "Read" /\ q.pid \in Pid /\ q.id \in Nat
                          /\ 0 < q.id /\ q.id < next_read_id_
      BY EventTypes DEF EventInv, Numbered, Event
    <3> QED
      BY <1>1, <1>2, <1>3, <3>1
  <2>3. \A v, w \in Writes' : v.id = w.id => v = w
    BY <1>1 DEF EventInv, Numbered
  <2>4. \A b \in Addr : /\ Holds(b, global_[b])'
                       /\ \A q \in Pid : Holds(b, local_buffer_[q][b])'
    BY <1>2, <1>7 DEF EventInv, Numbered
  <2> QED
    BY <1>4, <1>5, <1>8, <2>1, <2>2, <2>3, <2>4 DEF Numbered
<1>10. Linked'
  <2>1. \A e \in rf' : e \in rf \/ e = <<g, r>>
    BY <1>1
  <2>2. \A e \in rf' : /\ e[1] \in Writes' \/ e[1] = InitWrite(e[1].addr)
                      /\ e[1].addr = e[2].addr
    BY <1>1, <1>3, <2>1 DEF EventInv, Linked
  <2> QED
    BY <1>1, <2>2 DEF EventInv, Linked
<1> QED
  BY <1>6, <1>9, <1>10 DEF EventInv

(* A write adds one event, at the end of its thread and in memory.         *)
LEMMA EventInvWrite ==
  ASSUME EventInv, NEW p \in Pid, NEW a \in Addr, Write(p, a)
  PROVE  EventInv'
<1>1. PICK w, g :
        /\ w = WriteEvent(p, a) /\ w \in Event
        /\ w.type = "Write" /\ w.addr = a /\ w.pid = p
        /\ w.id = next_write_id_
        /\ g \in Writes \/ g = InitWrite(a)
        /\ g \in Event /\ g.type = "Write" /\ g.addr = a
        /\ g.id = global_[a]
        /\ co' = co \cup {<<g, w>>} /\ Writes' = Writes \cup {w}
        /\ rf' = rf /\ Reads' = Reads
        /\ \A e \in co : e[2].id < next_write_id_
        /\ InsertPo(p, w)
  BY WriteRecords
<1>2. /\ local_buffer_' = [local_buffer_ EXCEPT ![p][a] = next_write_id_]
      /\ global_' = [global_ EXCEPT ![a] = next_write_id_]
      /\ next_write_id_' = next_write_id_ + 1
      /\ UNCHANGED <<rf, next_read_id_>>
  BY DEF Write
<1>3. /\ <<g, w>> \notin co /\ <<g, w>>[1] = g /\ <<g, w>>[2] = w
      /\ next_write_id_ \in Nat \ {0}
  <2>1. <<g, w>>[2] = w /\ <<g, w>>[1] = g
    OBVIOUS
  <2> QED
    BY <1>1, <2>1, Counters
<1>4. /\ IsFiniteSet(co') /\ Cardinality(co') = Cardinality(co) + 1
      /\ IsFiniteSet(rf')
  BY <1>1, <1>3, FS_AddElement DEF EventInv, Numbered
<1>5. /\ po_last_' \in [Pid -> SUBSET Event]
      /\ \A q \in Pid : IsFiniteSet(po_last_'[q])
      /\ po' \subseteq Event \X Event /\ IsFiniteSet(po')
  BY <1>1, InsertPoKeeps
<1>6. /\ global_ \in [Addr -> 0 .. next_write_id_ - 1]
      /\ local_buffer_ \in [Pid -> [Addr -> 0 .. next_write_id_ - 1]]
  BY DEF EventInv, TypeOK
<1>7. TypeOK'
  <2>1. /\ next_write_id_ \in 0 .. next_write_id_' - 1
        /\ 0 .. next_write_id_ - 1 \subseteq 0 .. next_write_id_' - 1
    BY <1>2, <1>3
  <2>2. /\ global_' \in [Addr -> 0 .. next_write_id_' - 1]
        /\ local_buffer_' \in [Pid -> [Addr -> 0 .. next_write_id_' - 1]]
    BY <1>2, <1>6, <2>1
  <2>3. /\ rf' \subseteq Event \X Event /\ co' \subseteq Event \X Event
        /\ next_read_id_' = 1 + Cardinality(rf')
        /\ next_write_id_' = 1 + Cardinality(co')
    BY <1>1, <1>2, <1>4, Counters DEF EventInv, TypeOK
  <2> QED
    BY <1>5, <2>2, <2>3 DEF TypeOK
<1> PICK n : n = next_write_id_
  OBVIOUS
<1>8. /\ \A b, i : Holds(b, i) => Holds(b, i)'
      /\ Holds(a, n)'
  BY <1>1, <1>2 DEF Holds
<1>9. \A v \in Writes : /\ v.type = "Write" /\ v.pid \in Pid /\ v.id \in Nat
                       /\ 0 < v.id /\ v.id < next_write_id_
  BY EventTypes DEF EventInv, Numbered, Event
<1>10. Numbered'
  <2>1. \A v \in Writes' : /\ v.type = "Write" /\ v.pid \in Pid
                          /\ 0 < v.id /\ v.id < next_write_id_'
    BY <1>1, <1>2, <1>3, <1>9
  <2>2. ASSUME NEW u \in Writes', NEW v \in Writes', u.id = v.id PROVE u = v
    BY <1>1, <1>3, <1>9, <2>2 DEF EventInv, Numbered
  <2>3. \A b \in Addr : Holds(b, global_[b])'
    <3>1. \A b \in Addr : global_'[b] = global_[b]
            \/ (b = a /\ global_'[b] = n)
      BY <1>2, <1>6
    <3> QED
      BY <1>8, <3>1 DEF EventInv, Numbered
  <2>4. \A b \in Addr, q \in Pid : Holds(b, local_buffer_[q][b])'
    <3>1. \A b \in Addr, q \in Pid :
            local_buffer_'[q][b] = local_buffer_[q][b]
              \/ (b = a /\ local_buffer_'[q][b] = n)
      BY <1>2, <1>6
    <3> QED
      BY <1>8, <3>1 DEF EventInv, Numbered
  <2>5. \A q \in Reads' : /\ q.type = "Read" /\ q.pid \in Pid
                         /\ 0 < q.id /\ q.id < next_read_id_'
    BY <1>1, <1>2 DEF EventInv, Numbered
  <2>6. \A d, e \in rf' : d[2].id = e[2].id => d = e
    BY <1>1 DEF EventInv, Numbered
  <2> QED
    BY <1>4, <1>5, <2>1, <2>2, <2>3, <2>4, <2>5, <2>6 DEF Numbered
<1>11. Linked'
  <2>1. \A e \in co' : e \in co \/ e = <<g, w>>
    BY <1>1
  <2>2. \A e \in rf' \cup co' :
          /\ e[1] \in Writes' \/ e[1] = InitWrite(e[1].addr)
          /\ e[1].addr = e[2].addr
    BY <1>1, <1>3, <2>1 DEF EventInv, Linked
  <2>3. g.id < w.id
    BY <1>1, <1>3, <1>6
  <2>4. \A e \in co' : e[1].id < e[2].id
    BY <1>1, <1>3, <2>1, <2>3 DEF EventInv, Linked
  <2> QED
    BY <2>2, <2>4 DEF Linked
<1> QED
  BY <1>7, <1>10, <1>11 DEF EventInv

(* Propagation adds no event.                                              *)
LEMMA EventInvPropagate ==
  ASSUME EventInv, NEW p \in Pid, Propagate(p)
  PROVE  EventInv'
<1>1. /\ local_buffer_' = [local_buffer_ EXCEPT ![p] = global_]
      /\ UNCHANGED <<global_, po_last_, po, rf, co, next_read_id_,
           next_write_id_>>
  BY DEF Propagate, ew_
<1>2. Writes' = Writes /\ Reads' = Reads /\ \A b, i : Holds(b, i)'
        <=> Holds(b, i)
  BY <1>1 DEF Writes, Reads, Holds
<1>3. TypeOK'
  BY <1>1 DEF EventInv, TypeOK
<1>4. Numbered'
  <2>1. \A b \in Addr, q \in Pid : Holds(b, local_buffer_[q][b])'
    <3>1. \A b \in Addr, q \in Pid :
            \/ local_buffer_'[q][b] = local_buffer_[q][b]
            \/ local_buffer_'[q][b] = global_[b]
      BY <1>1 DEF EventInv, TypeOK
    <3> QED
      BY <1>2, <3>1 DEF EventInv, Numbered
  <2> QED
    BY <1>1, <1>2, <2>1 DEF EventInv, Numbered
<1>5. Linked'
  BY <1>1, <1>2 DEF EventInv, Linked
<1> QED
  BY <1>3, <1>4, <1>5 DEF EventInv

(* Every step keeps the invariant of the events.                           *)
LEMMA EventInvNext == EventInv /\ [Next]_vars => EventInv'
<1> SUFFICES ASSUME EventInv, [Next]_vars PROVE EventInv'
  OBVIOUS
<1>1. CASE UNCHANGED vars
  BY <1>1 DEF vars, ew_, EventInv, TypeOK, Numbered, Linked, Holds, Writes,
    Reads
<1>2. CASE Next
  BY <1>2, EventInvRead, EventInvWrite, EventInvPropagate DEF Next
<1> QED
  BY <1>1, <1>2

(* The invariant of the events.                                            *)
LEMMA EventInvariance == Spec => []EventInv
BY EventInvInit, EventInvNext, PTL DEF Spec

(* The variables have their types; the counters are those of the events.   *)
THEOREM TypeCorrect == Spec => []TypeOK
<1>1. EventInv => TypeOK
  BY DEF EventInv
<1> QED
  BY <1>1, EventInvariance, PTL

-----------------------------------------------------------------------------
(***************************************************************************)
(* Coherence order is the order of the writes.                             *)
(***************************************************************************)
Ids(a) == {kInitWrite} \cup {w.id : w \in {v \in Writes : v.addr = a}}
CoIds(a) == {<<e[1].id, e[2].id>> : e \in {x \in co : x[2].addr = a}}
Consecutive(S) ==
  {e \in S \X S : e[1] < e[2] /\ ~\E k \in S : e[1] < k /\ k < e[2]}

Coherent(a) ==
  /\ global_[a] \in Ids(a)
  /\ \A i \in Ids(a) : i <= global_[a]
  /\ CoIds(a) = Consecutive(Ids(a))

CoherenceInv == \A a \in Addr : Coherent(a)

(* Writes are numbered by naturals.                                        *)
LEMMA IdsAreNaturals ==
  ASSUME EventInv, NEW a
  PROVE  Ids(a) \subseteq 0 .. next_write_id_ - 1
<1>1. \A w \in Writes : w.id \in Nat /\ w.id < next_write_id_
  BY EventTypes DEF EventInv, Numbered, Event
<1> QED
  BY <1>1, Counters DEF Ids, kInitWrite

(* A number above all others adds one consecutive pair.                    *)
LEMMA ConsecutiveAdd ==
  ASSUME NEW S \in SUBSET Nat, NEW m \in S, \A i \in S : i <= m,
         NEW n \in Nat, m < n
  PROVE  Consecutive(S \cup {n}) = Consecutive(S) \cup {<<m, n>>}
<1>1. ASSUME NEW i \in S \cup {n}, NEW j \in S \cup {n}
      PROVE  <<i, j>> \in Consecutive(S \cup {n})
               <=> <<i, j>> \in Consecutive(S) \cup {<<m, n>>}
  <2>1. CASE j = n
    <3>1. <<i, n>> \in Consecutive(S \cup {n}) <=> i = m
      BY <2>1 DEF Consecutive
    <3>2. <<i, n>> \notin Consecutive(S)
      BY DEF Consecutive
    <3> QED
      BY <2>1, <3>1, <3>2
  <2>2. CASE j # n
    <3>1. j \in S /\ j < n
      BY <2>2
    <3>2. i = n => <<i, j>> \notin Consecutive(S \cup {n}) /\ n \notin S
      BY <3>1 DEF Consecutive
    <3>3. i \in S => (<<i, j>> \in Consecutive(S \cup {n})
                        <=> <<i, j>> \in Consecutive(S))
      BY <3>1 DEF Consecutive
    <3>4. <<i, j>> \in Consecutive(S) => i \in S
      BY DEF Consecutive
    <3> QED
      BY <2>2, <3>1, <3>2, <3>3, <3>4
  <2> QED
    BY <2>1, <2>2
<1>2. /\ Consecutive(S \cup {n}) \subseteq (S \cup {n}) \X (S \cup {n})
      /\ Consecutive(S) \cup {<<m, n>>} \subseteq (S \cup {n}) \X (S \cup {n})
  BY DEF Consecutive
<1>3. ASSUME NEW e \in (S \cup {n}) \X (S \cup {n})
      PROVE  e \in Consecutive(S \cup {n})
               <=> e \in Consecutive(S) \cup {<<m, n>>}
  <2>1. PICK i \in S \cup {n}, j \in S \cup {n} : e = <<i, j>>
    <3>1. e = <<e[1], e[2]>> /\ e[1] \in S \cup {n} /\ e[2] \in S \cup {n}
      OBVIOUS
    <3> QED
      BY <3>1
  <2>2. <<i, j>> \in Consecutive(S \cup {n})
          <=> <<i, j>> \in Consecutive(S) \cup {<<m, n>>}
    BY <1>1
  <2> QED
    BY <2>1, <2>2
<1> QED
  BY <1>2, <1>3

(* No address has been written.                                            *)
LEMMA CoherenceInvInit == Init => CoherenceInv
<1> SUFFICES ASSUME Init, NEW a \in Addr PROVE Coherent(a)
  BY DEF CoherenceInv
<1>1. Ids(a) = {0} /\ CoIds(a) = {}
  BY DEF Init, Ids, CoIds, Writes, kInitWrite
<1>2. Consecutive({0}) = {}
  BY DEF Consecutive
<1> QED
  BY <1>1, <1>2 DEF Init, Coherent, kInitWrite

(* A write comes after all writes to its address.                          *)
LEMMA CoherenceInvWrite ==
  ASSUME EventInv, CoherenceInv, NEW p \in Pid, NEW a \in Addr, Write(p, a)
  PROVE  CoherenceInv'
<1>1. PICK w, g :
        /\ w = WriteEvent(p, a) /\ w \in Event
        /\ w.type = "Write" /\ w.addr = a /\ w.pid = p
        /\ w.id = next_write_id_
        /\ g \in Writes \/ g = InitWrite(a)
        /\ g \in Event /\ g.type = "Write" /\ g.addr = a
        /\ g.id = global_[a]
        /\ co' = co \cup {<<g, w>>} /\ Writes' = Writes \cup {w}
        /\ rf' = rf /\ Reads' = Reads
        /\ \A e \in co : e[2].id < next_write_id_
        /\ InsertPo(p, w)
  BY WriteRecords
<1> PICK n : n = next_write_id_
  OBVIOUS
<1>2. /\ global_' = [global_ EXCEPT ![a] = n]
      /\ n \in Nat \ {0}
      /\ global_ \in [Addr -> 0 .. n - 1]
  BY Counters DEF Write, EventInv, TypeOK
<1>3. <<g, w>>[1] = g /\ <<g, w>>[2] = w
  OBVIOUS
<1>4. ASSUME NEW b \in Addr, b # a PROVE Coherent(b)'
  <2>1. Ids(b)' = Ids(b)
    BY <1>1, <1>4 DEF Ids
  <2>2. {x \in co' : x[2].addr = b} = {x \in co : x[2].addr = b}
    BY <1>1, <1>3, <1>4
  <2>3. CoIds(b)' = CoIds(b)
    BY <2>2 DEF CoIds
  <2>4. global_'[b] = global_[b]
    BY <1>2, <1>4
  <2> QED
    BY <2>1, <2>3, <2>4 DEF CoherenceInv, Coherent
<1>5. Coherent(a)'
  <2>1. Ids(a)' = Ids(a) \cup {n}
    <3>1. {v \in Writes' : v.addr = a} = {v \in Writes : v.addr = a} \cup {w}
      BY <1>1
    <3> QED
      BY <1>1, <3>1 DEF Ids
  <2>2. CoIds(a)' = CoIds(a) \cup {<<global_[a], n>>}
    <3>1. {x \in co' : x[2].addr = a}
            = {x \in co : x[2].addr = a} \cup {<<g, w>>}
      BY <1>1, <1>3
    <3> QED
      <4> PICK d : d = <<g, w>>
        OBVIOUS
      <4>1. <<d[1].id, d[2].id>> = <<global_[a], n>>
        BY <1>1, <1>3
      <4> QED
        BY <3>1, <4>1 DEF CoIds
  <2>3. global_'[a] = n
    BY <1>2
  <2>4. /\ Ids(a) \in SUBSET Nat /\ \A i \in Ids(a) : i < n
        /\ global_[a] \in Ids(a) /\ \A i \in Ids(a) : i <= global_[a]
        /\ CoIds(a) = Consecutive(Ids(a))
    BY <1>2, IdsAreNaturals DEF CoherenceInv, Coherent
  <2>5. Consecutive(Ids(a) \cup {n})
          = Consecutive(Ids(a)) \cup {<<global_[a], n>>}
    BY <1>2, <2>4, ConsecutiveAdd
  <2> QED
    BY <1>2, <2>1, <2>2, <2>3, <2>4, <2>5 DEF Coherent
<1> QED
  BY <1>4, <1>5 DEF CoherenceInv

(* Every step keeps coherence in the order of writes.                      *)
LEMMA CoherenceInvNext ==
  EventInv /\ CoherenceInv /\ [Next]_vars => CoherenceInv'
<1> SUFFICES ASSUME EventInv, CoherenceInv, [Next]_vars PROVE CoherenceInv'
  OBVIOUS
<1>1. CASE UNCHANGED <<global_, co>>
  BY <1>1 DEF CoherenceInv, Coherent, Ids, CoIds, Writes
<1>2. ASSUME NEW p \in Pid, NEW a \in Addr, Write(p, a) PROVE CoherenceInv'
  BY <1>2, CoherenceInvWrite
<1> QED
  BY <1>1, <1>2 DEF Next, vars, ew_, Read, Propagate

(* The memory holds the newest write of every address, and coherence order *)
(* is the one chain of the writes in the order in which they came.         *)
THEOREM CoherenceInWriteOrder == Spec => []CoherenceIsWriteOrder
<1>1. EventInv /\ CoherenceInv => CoherenceIsWriteOrder
  <2> SUFFICES ASSUME EventInv, CoherenceInv, NEW a \in Addr
               PROVE  /\ global_[a] = Newest(Ids(a))
                      /\ CoIds(a) = Consecutive(Ids(a))
    BY DEF CoherenceIsWriteOrder, Ids, CoIds, Consecutive
  <2>1. Coherent(a) /\ Ids(a) \subseteq Nat
    BY IdsAreNaturals DEF CoherenceInv
  <2> DEFINE i == CHOOSE i \in Ids(a) : \A j \in Ids(a) : j <= i
  <2>2. i \in Ids(a) /\ \A j \in Ids(a) : j <= i
    BY <2>1 DEF Coherent
  <2>3. global_[a] = i
    <3> HIDE DEF i
    <3> QED
      BY <2>1, <2>2 DEF Coherent
  <2> QED
    BY <2>1, <2>3 DEF Coherent, Newest
<1>2. Spec => []CoherenceInv
  BY CoherenceInvInit, CoherenceInvNext, EventInvariance, PTL DEF Spec
<1> QED
  BY <1>1, <1>2, EventInvariance, PTL

-----------------------------------------------------------------------------
(***************************************************************************)
(* The executions are those of TSO.  The proof adds a history to the       *)
(* machine: the number of the last write when a thread last copied the     *)
(* memory (sync), and for each read the number of the write it observed    *)
(* (obs), that of its thread's last copy (snap), and that of the last      *)
(* write when it was executed (time).  An order of the events that puts    *)
(* the reads where obs says has all edges of one address; one that puts    *)
(* them where snap says has all that TSO keeps.                            *)
(***************************************************************************)

(* A thread knows all writes of others up to its last copy, and its own.   *)
Synced(sync) ==
  /\ sync \in [Pid -> Nat]
  /\ \A p \in Pid :
       /\ sync[p] < next_write_id_
       /\ \A a \in Addr : local_buffer_[p][a] <= global_[a]
       /\ \A w \in Writes :
            /\ ~ (local_buffer_[p][w.addr] < w.id /\ w.id <= sync[p])
            /\ w.pid = p => w.id <= local_buffer_[p][w.addr]
            /\ w.id = local_buffer_[p][w.addr] /\ w.pid # p
                 => w.id <= sync[p]

(* What a read observed is what its thread knew, and its thread has not    *)
(* forgotten it since.                                                     *)
ReadsKnow(sync, obs, snap, time) ==
  /\ obs \in [Nat -> Nat] /\ snap \in [Nat -> Nat] /\ time \in [Nat -> Nat]
  /\ \A r \in Reads :
       /\ obs[r.id] <= time[r.id] /\ snap[r.id] <= time[r.id]
       /\ time[r.id] < next_write_id_
       /\ snap[r.id] <= sync[r.pid]
       /\ obs[r.id] <= local_buffer_[r.pid][r.addr]
       /\ \A w \in Writes : w.addr = r.addr =>
            /\ ~ (obs[r.id] < w.id /\ w.id <= snap[r.id])
            /\ w.pid = r.pid /\ w.id <= time[r.id] => w.id <= obs[r.id]
  /\ \A e \in rf :
       /\ e[1].id = obs[e[2].id]
       /\ e[1].pid # e[2].pid => e[1].id <= snap[e[2].id]

(* Later reads know no less.                                               *)
ReadsGrow(obs, snap, time) ==
  \A q, r \in Reads : q.id < r.id =>
    /\ time[q.id] <= time[r.id]
    /\ q.pid = r.pid => snap[q.id] <= snap[r.id]
    /\ q.pid = r.pid /\ q.addr = r.addr => obs[q.id] <= obs[r.id]

(* The place of an event if reads are put where f says; a read comes after *)
(* the write of the same place, and reads stay in the order of execution.  *)
Stamp(f) == [x \in Event |-> IF x.type = "Write" THEN x.id ELSE f[x.id]]
Tie == [x \in Event |-> IF x.type = "Write" THEN 0 ELSE x.id]

(* Program order is that of execution.                                     *)
InOrder(time, x, y) ==
  /\ x \in Reads \cup Writes /\ y \in Reads \cup Writes
  /\ x.pid = y.pid
  /\ Earlier(Stamp(time), Tie, x, y)
PoInOrder(time) ==
  /\ \A p \in Pid : \A x \in po_last_[p] : x \in Reads \cup Writes
       /\ x.pid = p
  /\ \A e \in po : InOrder(time, e[1], e[2])

History(sync, obs, snap, time) ==
  /\ Synced(sync)
  /\ ReadsKnow(sync, obs, snap, time)
  /\ ReadsGrow(obs, snap, time)
  /\ PoInOrder(time)

HistoryInv == \E sync, obs, snap, time : History(sync, obs, snap, time)

(* The empty history fits the empty execution.                             *)
LEMMA HistoryInvInit == Init => HistoryInv
<1> SUFFICES ASSUME Init PROVE HistoryInv
  OBVIOUS
<1> DEFINE sync == [p \in Pid |-> 0]
           none == [i \in Nat |-> 0]
<1>1. Reads = {} /\ Writes = {} /\ rf = {} /\ po = {}
  BY DEF Init, Reads, Writes
<1>2. Synced(sync)
  BY <1>1 DEF Init, Synced, kInitWrite
<1>3. ReadsKnow(sync, none, none, none) /\ ReadsGrow(none, none, none)
  BY <1>1 DEF ReadsKnow, ReadsGrow
<1>4. PoInOrder(none)
  BY <1>1 DEF Init, PoInOrder
<1> QED
  BY <1>2, <1>3, <1>4 DEF HistoryInv, History

(* The number of an event is a natural, that of an event of a thread       *)
(* positive.                                                               *)
LEMMA EventNumbers ==
  ASSUME EventInv
  PROVE  /\ \A r \in Reads : /\ r \in Event /\ r.type = "Read"
                             /\ r.pid \in Pid /\ r.addr \in Addr
                                  /\ r.id \in Nat
                             /\ 0 < r.id /\ r.id < next_read_id_
         /\ \A w \in Writes : /\ w \in Event /\ w.type = "Write"
                              /\ w.pid \in Pid /\ w.addr \in Addr
                                   /\ w.id \in Nat
                              /\ 0 < w.id /\ w.id < next_write_id_
BY EventTypes DEF EventInv, Numbered, Event

(* An event comes after all others of the execution.                       *)
LEMMA LastInOrder ==
  ASSUME EventInv, NEW sync, NEW obs, NEW snap, NEW time,
         History(sync, obs, snap, time),
         NEW x \in Reads \cup Writes, NEW y \in Event,
         NEW t, t \in [Nat -> Nat],
         \A i \in Nat : i < next_read_id_ => t[i] = time[i],
         \/ /\ y.type = "Read" /\ y.id = next_read_id_
            /\ t[next_read_id_] = next_write_id_ - 1
         \/ y.type = "Write" /\ y.id = next_write_id_
  PROVE  Earlier(Stamp(t), Tie, x, y)
<1>1. x \in Event /\ x.id \in Nat /\ y.id \in Nat
  BY EventNumbers DEF Event
<1>3. /\ Stamp(t)[x] = IF x.type = "Write" THEN x.id ELSE t[x.id]
      /\ Stamp(t)[y] = IF y.type = "Write" THEN y.id ELSE t[y.id]
      /\ Tie[x] = IF x.type = "Write" THEN 0 ELSE x.id
      /\ Tie[y] = IF y.type = "Write" THEN 0 ELSE y.id
  BY <1>1 DEF Stamp, Tie
<1>4. CASE x \in Writes
  BY <1>1, <1>3, <1>4, EventNumbers, Counters DEF Earlier
<1>5. CASE x \in Reads
  <2>1. /\ x.type = "Read" /\ x.id < next_read_id_ /\ t[x.id] = time[x.id]
        /\ time[x.id] \in Nat /\ time[x.id] < next_write_id_
    BY <1>1, <1>5, EventNumbers, Counters DEF History, ReadsKnow
  <2> QED
    BY <1>1, <1>3, <2>1, Counters DEF Earlier
<1> QED
  BY <1>4, <1>5

(* What is known of the time of a read stays known.                        *)
LEMMA OrderKept ==
  ASSUME EventInv, NEW x \in Reads \cup Writes, NEW y \in Reads \cup Writes,
         NEW time, NEW t, \A i \in Nat : i < next_read_id_ => t[i] = time[i],
         Earlier(Stamp(time), Tie, x, y)
  PROVE  Earlier(Stamp(t), Tie, x, y)
<1>1. ASSUME NEW z \in Reads \cup Writes PROVE Stamp(t)[z] = Stamp(time)[z]
  <2>1. /\ z \in Event
        /\ z.type # "Write" => z.id \in Nat /\ z.id < next_read_id_
    BY EventNumbers
  <2> QED
    BY <2>1 DEF Stamp
<1> QED
  BY <1>1 DEF Earlier

(* Program order stays that of execution when an event is put last.        *)
LEMMA PoKept ==
  ASSUME EventInv, NEW sync, NEW obs, NEW snap, NEW time,
         History(sync, obs, snap, time),
         NEW p \in Pid, NEW y \in Event, InsertPo(p, y), y.pid = p,
         (Reads \cup Writes)' = (Reads \cup Writes) \cup {y},
         NEW t, t \in [Nat -> Nat],
         \A i \in Nat : i < next_read_id_ => t[i] = time[i],
         \/ /\ y.type = "Read" /\ y.id = next_read_id_
            /\ t[next_read_id_] = next_write_id_ - 1
         \/ y.type = "Write" /\ y.id = next_write_id_
  PROVE  PoInOrder(t)'
<1>1. /\ po' = po \cup (po_last_[p] \X {y})
      /\ po_last_' = [po_last_ EXCEPT ![p] = {y}]
      /\ po_last_ \in [Pid -> SUBSET Event]
  BY DEF InsertPo, EventInv, TypeOK
<1>2. /\ \A q \in Pid : \A x \in po_last_[q] : x \in Reads \cup Writes
           /\ x.pid = q
      /\ \A e \in po : InOrder(time, e[1], e[2])
  BY DEF History, PoInOrder
<1>3. ASSUME NEW q \in Pid, NEW x \in po_last_'[q]
      PROVE  x \in (Reads \cup Writes)' /\ x.pid = q
  <2>1. CASE q = p
    BY <1>1, <2>1
  <2>2. CASE q # p
    BY <1>1, <1>2, <2>2
  <2> QED
    BY <2>1, <2>2
<1>4. ASSUME NEW e \in po' PROVE InOrder(t, e[1], e[2])'
  <2>1. CASE e \in po
    <3>1. InOrder(time, e[1], e[2])
      BY <1>2, <2>1
    <3>2. Earlier(Stamp(t), Tie, e[1], e[2])
      BY <3>1, OrderKept DEF InOrder
    <3> QED
      BY <3>1, <3>2 DEF InOrder, Earlier, Stamp, Tie
  <2>2. CASE e \in po_last_[p] \X {y}
    <3>1. e[1] \in po_last_[p] /\ e[2] = y
      BY <2>2
    <3>2. e[1] \in Reads \cup Writes /\ e[1].pid = p
      BY <1>2, <3>1
    <3>3. Earlier(Stamp(t), Tie, e[1], y)
      BY <3>2, LastInOrder
    <3> QED
      BY <3>1, <3>2, <3>3 DEF InOrder, Earlier, Stamp, Tie
  <2> QED
    BY <1>1, <2>1, <2>2
<1> QED
  BY <1>3, <1>4 DEF PoInOrder

(* A read extends the history with what its thread sees.                   *)
LEMMA HistoryInvRead ==
  ASSUME EventInv, HistoryInv, NEW p \in Pid, NEW a \in Addr, Read(p, a)
  PROVE  HistoryInv'
<1>1. PICK r, g :
        /\ r = ReadEvent(p, a) /\ r \in Event
        /\ r.type = "Read" /\ r.addr = a /\ r.pid = p /\ r.id = next_read_id_
        /\ g \in Writes \/ g = InitWrite(a)
        /\ g \in Event /\ g.type = "Write" /\ g.addr = a
        /\ g.id = local_buffer_[p][a]
        /\ rf' = rf \cup {<<g, r>>} /\ Reads' = Reads \cup {r}
        /\ co' = co /\ Writes' = Writes
        /\ \A e \in rf : e[2].id < next_read_id_
        /\ InsertPo(p, r)
  BY ReadRecords
<1>2. PICK sync, obs, snap, time : History(sync, obs, snap, time)
  BY DEF HistoryInv
<1> PICK n : n = next_read_id_
  OBVIOUS
<1>3. UNCHANGED <<global_, local_buffer_, co, next_write_id_>>
  BY DEF Read
<1>4. /\ local_buffer_ \in [Pid -> [Addr -> 0 .. next_write_id_ - 1]]
      /\ global_ \in [Addr -> 0 .. next_write_id_ - 1]
      /\ next_write_id_ \in Nat \ {0} /\ n \in Nat \ {0}
      /\ rf \subseteq Event \X Event
  BY Counters DEF EventInv, TypeOK
<1>5. /\ sync \in [Pid -> Nat]
      /\ obs \in [Nat -> Nat] /\ snap \in [Nat -> Nat]
           /\ time \in [Nat -> Nat]
  BY <1>2 DEF History, Synced, ReadsKnow
<1> PICK o : o = [obs EXCEPT ![n] = local_buffer_[p][a]]
  OBVIOUS
<1> PICK s : s = [snap EXCEPT ![n] = sync[p]]
  OBVIOUS
<1> PICK t : t = [time EXCEPT ![n] = next_write_id_ - 1]
  OBVIOUS
<1>6. /\ o \in [Nat -> Nat] /\ s \in [Nat -> Nat] /\ t \in [Nat -> Nat]
      /\ o[n] = local_buffer_[p][a] /\ s[n] = sync[p]
           /\ t[n] = next_write_id_ - 1
      /\ \A i \in Nat : i # n => o[i] = obs[i] /\ s[i] = snap[i]
           /\ t[i] = time[i]
      /\ o[n] \in Nat /\ o[n] <= t[n] /\ s[n] <= t[n]
  <2>1. local_buffer_[p][a] \in 0 .. next_write_id_ - 1
    BY <1>4
  <2>2. sync[p] \in Nat /\ sync[p] < next_write_id_
    BY <1>2, <1>5 DEF History, Synced
  <2> QED
    BY <1>4, <1>5, <2>1, <2>2
<1>7. Synced(sync)'
  BY <1>1, <1>2, <1>3 DEF History, Synced
<1>8. /\ \A q \in Reads : q.id \in Nat /\ q.id < n /\ q.pid \in Pid
           /\ q.addr \in Addr
      /\ \A w \in Writes : w.id \in Nat /\ w.id < next_write_id_
  BY EventNumbers
<1>9. ReadsKnow(sync, o, s, t)'
  <2>1. ASSUME NEW q \in Reads'
        PROVE  /\ o[q.id] <= t[q.id] /\ s[q.id] <= t[q.id]
               /\ t[q.id] < next_write_id_
               /\ s[q.id] <= sync[q.pid]
               /\ o[q.id] <= local_buffer_[q.pid][q.addr]
    <3>1. CASE q \in Reads
      <4>1. q.id # n /\ q.id \in Nat
        BY <1>8, <3>1
      <4>2. o[q.id] = obs[q.id] /\ s[q.id] = snap[q.id]
              /\ t[q.id] = time[q.id]
        BY <1>6, <4>1
      <4> QED
        BY <1>2, <3>1, <4>2 DEF History, ReadsKnow
    <3>2. CASE q = r
      BY <1>1, <1>4, <1>5, <1>6, <3>2
    <3> QED
      BY <1>1, <3>1, <3>2
  <2>2. ASSUME NEW q \in Reads', NEW w \in Writes, w.addr = q.addr
        PROVE  /\ ~ (o[q.id] < w.id /\ w.id <= s[q.id])
               /\ w.pid = q.pid /\ w.id <= t[q.id] => w.id <= o[q.id]
    <3>1. CASE q \in Reads
      <4>1. q.id # n /\ q.id \in Nat
        BY <1>8, <3>1
      <4>2. o[q.id] = obs[q.id] /\ s[q.id] = snap[q.id]
              /\ t[q.id] = time[q.id]
        BY <1>6, <4>1
      <4> QED
        BY <1>2, <2>2, <3>1, <4>2 DEF History, ReadsKnow
    <3>2. CASE q = r
      <4>1. /\ ~ (local_buffer_[p][w.addr] < w.id /\ w.id <= sync[p])
            /\ w.pid = p => w.id <= local_buffer_[p][w.addr]
        BY <1>2 DEF History, Synced
      <4> QED
        BY <1>1, <1>6, <2>2, <3>2, <4>1
    <3> QED
      BY <1>1, <3>1, <3>2
  <2>3. ASSUME NEW e \in rf'
        PROVE  /\ e[1].id = o[e[2].id]
               /\ e[1].pid # e[2].pid => e[1].id <= s[e[2].id]
    <3>1. CASE e \in rf
      <4>1. e[2].id # n /\ e[2].id \in Nat
        BY <1>1, <1>4, <3>1 DEF Event
      <4>2. o[e[2].id] = obs[e[2].id] /\ s[e[2].id] = snap[e[2].id]
        BY <1>6, <4>1
      <4> QED
        BY <1>2, <3>1, <4>2 DEF History, ReadsKnow
    <3>2. CASE e = <<g, r>>
      <4>1. e[1] = g /\ e[2] = r
        BY <3>2
      <4>2. CASE g \in Writes
        <5>1. g.id = local_buffer_[p][g.addr] /\ g.pid # p => g.id <= sync[p]
          BY <1>2, <4>2 DEF History, Synced
        <5> QED
          BY <1>1, <1>6, <4>1, <5>1
      <4>3. CASE g = InitWrite(a)
        <5>1. g.id = 0
          BY <4>3 DEF InitWrite, kInitWrite
        <5>2. 0 <= s[n]
          BY <1>4, <1>6
        <5> QED
          BY <1>1, <1>6, <4>1, <5>1, <5>2
      <4> QED
        BY <1>1, <4>2, <4>3
    <3> QED
      BY <1>1, <3>1, <3>2
  <2> QED
    BY <1>1, <1>3, <1>6, <2>1, <2>2, <2>3 DEF ReadsKnow
<1>10. ReadsGrow(o, s, t)'
  <2> SUFFICES ASSUME NEW q \in Reads', NEW u \in Reads', q.id < u.id
               PROVE  /\ t[q.id] <= t[u.id]
                      /\ q.pid = u.pid => s[q.id] <= s[u.id]
                      /\ q.pid = u.pid /\ q.addr = u.addr
                           => o[q.id] <= o[u.id]
    BY DEF ReadsGrow
  <2>1. q \in Reads
    BY <1>1, <1>4, <1>8
  <2>2. /\ o[q.id] = obs[q.id] /\ s[q.id] = snap[q.id] /\ t[q.id] = time[q.id]
        /\ time[q.id] \in Nat
    BY <1>4, <1>5, <1>6, <1>8, <2>1
  <2>3. CASE u \in Reads
    <3>1. o[u.id] = obs[u.id] /\ s[u.id] = snap[u.id] /\ t[u.id] = time[u.id]
      BY <1>4, <1>6, <1>8, <2>3
    <3> QED
      BY <1>2, <2>1, <2>2, <2>3, <3>1 DEF History, ReadsGrow
  <2>4. CASE u = r
    <3>1. /\ time[q.id] < next_write_id_ /\ snap[q.id] <= sync[q.pid]
          /\ obs[q.id] <= local_buffer_[q.pid][q.addr]
      BY <1>2, <2>1 DEF History, ReadsKnow
    <3> QED
      BY <1>1, <1>4, <1>6, <2>2, <2>4, <3>1
  <2> QED
    BY <1>1, <2>3, <2>4
<1>11. PoInOrder(t)'
  <2>1. (Reads \cup Writes)' = (Reads \cup Writes) \cup {r}
    BY <1>1
  <2>2. \A i \in Nat : i < next_read_id_ => t[i] = time[i]
    BY <1>4, <1>6
  <2>3. /\ r.type = "Read" /\ r.id = next_read_id_
        /\ t[next_read_id_] = next_write_id_ - 1
        /\ InsertPo(p, r) /\ r.pid = p /\ r \in Event
    BY <1>1, <1>6
  <2>4. t \in [Nat -> Nat]
    BY <1>6
  <2> QED
    BY <1>2, <2>1, <2>2, <2>3, <2>4, PoKept
<1> QED
  BY <1>7, <1>9, <1>10, <1>11 DEF HistoryInv, History

(* A write extends the history with itself.                                *)
LEMMA HistoryInvWrite ==
  ASSUME EventInv, CoherenceInv, HistoryInv,
         NEW p \in Pid, NEW a \in Addr, Write(p, a)
  PROVE  HistoryInv'
<1>1. PICK w, g :
        /\ w = WriteEvent(p, a) /\ w \in Event
        /\ w.type = "Write" /\ w.addr = a /\ w.pid = p
        /\ w.id = next_write_id_
        /\ g \in Writes \/ g = InitWrite(a)
        /\ g \in Event /\ g.type = "Write" /\ g.addr = a
        /\ g.id = global_[a]
        /\ co' = co \cup {<<g, w>>} /\ Writes' = Writes \cup {w}
        /\ rf' = rf /\ Reads' = Reads
        /\ \A e \in co : e[2].id < next_write_id_
        /\ InsertPo(p, w)
  BY WriteRecords
<1>2. PICK sync, obs, snap, time : History(sync, obs, snap, time)
  BY DEF HistoryInv
<1> PICK n : n = next_write_id_
  OBVIOUS
<1>3. /\ local_buffer_' = [local_buffer_ EXCEPT ![p][a] = n]
      /\ global_' = [global_ EXCEPT ![a] = n]
      /\ next_write_id_' = n + 1
  BY DEF Write
<1>4. /\ local_buffer_ \in [Pid -> [Addr -> 0 .. n - 1]]
      /\ global_ \in [Addr -> 0 .. n - 1]
      /\ n \in Nat \ {0}
  BY Counters DEF EventInv, TypeOK
<1>5. /\ sync \in [Pid -> Nat]
      /\ obs \in [Nat -> Nat] /\ snap \in [Nat -> Nat]
           /\ time \in [Nat -> Nat]
  BY <1>2 DEF History, Synced, ReadsKnow
<1>6. /\ \A q \in Reads : q.id \in Nat /\ q.pid \in Pid /\ q.addr \in Addr
      /\ \A v \in Writes : v.id \in Nat /\ v.id < n /\ v.pid \in Pid
           /\ v.addr \in Addr
  BY EventNumbers
<1>7. ASSUME NEW q \in Pid, NEW b \in Addr
      PROVE  /\ local_buffer_'[q][b] = IF q = p /\ b = a THEN n
                  ELSE local_buffer_[q][b]
             /\ global_'[b] = IF b = a THEN n ELSE global_[b]
             /\ local_buffer_[q][b] \in Nat /\ local_buffer_[q][b] < n
             /\ global_[b] \in Nat /\ global_[b] < n
  <2>1. local_buffer_[q][b] \in 0 .. n - 1 /\ global_[b] \in 0 .. n - 1
    BY <1>4
  <2>2. local_buffer_'[q][b] = IF q = p /\ b = a THEN n
          ELSE local_buffer_[q][b]
    BY <1>3, <1>4
  <2>3. global_'[b] = IF b = a THEN n ELSE global_[b]
    BY <1>3, <1>4
  <2> QED
    BY <1>4, <2>1, <2>2, <2>3
<1>8. Synced(sync)'
  <2>1. ASSUME NEW q \in Pid
        PROVE  sync[q] < next_write_id_'
    <3>1. sync[q] \in Nat /\ sync[q] < n
      BY <1>2, <1>5 DEF History, Synced
    <3> QED
      BY <1>3, <1>4, <3>1
  <2>2. ASSUME NEW q \in Pid, NEW b \in Addr
        PROVE  local_buffer_'[q][b] <= global_'[b]
    <3>1. local_buffer_[q][b] <= global_[b]
      BY <1>2 DEF History, Synced
    <3> QED
      BY <1>4, <1>7, <3>1
  <2>3. ASSUME NEW q \in Pid, NEW v \in Writes'
        PROVE  /\ ~ (local_buffer_'[q][v.addr] < v.id /\ v.id <= sync[q])
               /\ v.pid = q => v.id <= local_buffer_'[q][v.addr]
               /\ v.id = local_buffer_'[q][v.addr] /\ v.pid # q
                    => v.id <= sync[q]
    <3>1. sync[q] \in Nat /\ sync[q] < n
      BY <1>2, <1>5 DEF History, Synced
    <3>2. CASE v = w
      <4>1. /\ local_buffer_'[q][a] = IF q = p THEN n ELSE local_buffer_[q][a]
            /\ local_buffer_[q][a] \in Nat /\ local_buffer_[q][a] < n
        BY <1>7
      <4> QED
        BY <1>1, <1>4, <3>1, <3>2, <4>1
    <3>3. CASE v \in Writes
      <4>1. /\ ~ (local_buffer_[q][v.addr] < v.id /\ v.id <= sync[q])
            /\ v.pid = q => v.id <= local_buffer_[q][v.addr]
            /\ v.id = local_buffer_[q][v.addr] /\ v.pid # q => v.id <= sync[q]
        BY <1>2, <3>3 DEF History, Synced
      <4>2. v.id \in Nat /\ v.id < n /\ v.addr \in Addr
        BY <1>6, <3>3
      <4>3. /\ local_buffer_'[q][v.addr] =
                  IF q = p /\ v.addr = a THEN n ELSE local_buffer_[q][v.addr]
            /\ local_buffer_[q][v.addr] \in Nat
                 /\ local_buffer_[q][v.addr] < n
        BY <1>7, <4>2
      <4>4. CASE q = p /\ v.addr = a
        <5>1. local_buffer_'[q][v.addr] = n
          BY <4>3, <4>4
        <5> QED
          BY <1>4, <3>1, <4>2, <5>1
      <4>5. CASE ~ (q = p /\ v.addr = a)
        <5>1. local_buffer_'[q][v.addr] = local_buffer_[q][v.addr]
          BY <4>3, <4>5
        <5> QED
          BY <4>1, <5>1
      <4> QED
        BY <4>4, <4>5
    <3> QED
      BY <1>1, <3>2, <3>3
  <2> QED
    BY <1>5, <2>1, <2>2, <2>3 DEF Synced
<1>9. ReadsKnow(sync, obs, snap, time)'
  <2>1. ASSUME NEW q \in Reads
        PROVE  /\ obs[q.id] <= time[q.id] /\ snap[q.id] <= time[q.id]
               /\ time[q.id] < next_write_id_'
               /\ snap[q.id] <= sync[q.pid]
               /\ obs[q.id] <= local_buffer_'[q.pid][q.addr]
    <3>1. /\ obs[q.id] <= time[q.id] /\ snap[q.id] <= time[q.id]
          /\ time[q.id] < n
          /\ snap[q.id] <= sync[q.pid]
          /\ obs[q.id] <= local_buffer_[q.pid][q.addr]
      BY <1>2 DEF History, ReadsKnow
    <3>2. obs[q.id] \in Nat /\ time[q.id] \in Nat
      BY <1>5, <1>6
    <3>3. /\ local_buffer_'[q.pid][q.addr] \in {n,
               local_buffer_[q.pid][q.addr]}
          /\ local_buffer_[q.pid][q.addr] < n
          /\ local_buffer_[q.pid][q.addr] \in Nat
      BY <1>6, <1>7
    <3> QED
      BY <1>3, <1>4, <3>1, <3>2, <3>3
  <2>2. ASSUME NEW q \in Reads, NEW v \in Writes', v.addr = q.addr
        PROVE  /\ ~ (obs[q.id] < v.id /\ v.id <= snap[q.id])
               /\ v.pid = q.pid /\ v.id <= time[q.id] => v.id <= obs[q.id]
    <3>1. CASE v = w
      <4>1. /\ snap[q.id] <= time[q.id] /\ time[q.id] < n
            /\ snap[q.id] \in Nat /\ time[q.id] \in Nat
        BY <1>2, <1>5, <1>6 DEF History, ReadsKnow
      <4> QED
        BY <1>1, <1>4, <3>1, <4>1
    <3>2. CASE v \in Writes
      BY <1>2, <2>2, <3>2 DEF History, ReadsKnow
    <3> QED
      BY <1>1, <3>1, <3>2
  <2> QED
    BY <1>1, <1>2, <1>5, <2>1, <2>2 DEF History, ReadsKnow
<1>10. ReadsGrow(obs, snap, time)'
  BY <1>1, <1>2 DEF History, ReadsGrow
<1>11. PoInOrder(time)'
  <2>1. (Reads \cup Writes)' = (Reads \cup Writes) \cup {w}
    BY <1>1
  <2>2. /\ w.type = "Write" /\ w.id = next_write_id_
        /\ InsertPo(p, w) /\ w.pid = p /\ w \in Event
    BY <1>1
  <2> QED
    BY <1>2, <1>5, <2>1, <2>2, PoKept
<1> QED
  BY <1>8, <1>9, <1>10, <1>11 DEF HistoryInv, History

(* Propagation moves only the view of its thread.                          *)
LEMMA HistoryInvPropagate ==
  ASSUME EventInv, CoherenceInv, HistoryInv, NEW p \in Pid, Propagate(p)
  PROVE  HistoryInv'
<1>1. PICK sync, obs, snap, time : History(sync, obs, snap, time)
  BY DEF HistoryInv
<1> PICK n : n = next_write_id_
  OBVIOUS
<1>2. /\ local_buffer_' = [local_buffer_ EXCEPT ![p] = global_]
      /\ UNCHANGED <<global_, po_last_, po, rf, co, next_read_id_,
           next_write_id_>>
  BY DEF Propagate, ew_
<1>3. /\ local_buffer_ \in [Pid -> [Addr -> 0 .. n - 1]]
      /\ global_ \in [Addr -> 0 .. n - 1]
      /\ n \in Nat \ {0}
  BY Counters DEF EventInv, TypeOK
<1>4. Writes' = Writes /\ Reads' = Reads
  BY <1>2 DEF Writes, Reads
<1>5. /\ sync \in [Pid -> Nat] /\ \A q \in Pid : sync[q] < n
      /\ obs \in [Nat -> Nat] /\ snap \in [Nat -> Nat]
           /\ time \in [Nat -> Nat]
  BY <1>1 DEF History, Synced, ReadsKnow
<1>6. /\ \A r \in Reads : r.id \in Nat /\ r.pid \in Pid /\ r.addr \in Addr
      /\ \A w \in Writes : /\ w.id \in Nat /\ w.id < n /\ w.addr \in Addr
                           /\ w.id <= global_[w.addr]
  <2>1. \A w \in Writes : w.id \in Ids(w.addr)
    BY DEF Ids
  <2> QED
    BY <2>1, EventNumbers DEF CoherenceInv, Coherent
<1>7. ASSUME NEW b \in Addr
      PROVE  /\ local_buffer_'[p][b] = global_[b]
             /\ local_buffer_[p][b] <= global_[b]
             /\ \A q \in Pid \ {p} :
                  local_buffer_'[q][b] = local_buffer_[q][b]
             /\ global_[b] \in Nat
             /\ \A q \in Pid : local_buffer_[q][b] \in Nat
  BY <1>1, <1>2, <1>3 DEF History, Synced
<1> PICK s : s = [sync EXCEPT ![p] = n - 1]
  OBVIOUS
<1>8. /\ s \in [Pid -> Nat] /\ s[p] = n - 1
      /\ \A q \in Pid \ {p} : s[q] = sync[q]
      /\ \A q \in Pid : s[q] < n /\ sync[q] <= s[q]
  BY <1>3, <1>5
<1>9. Synced(s)'
  <2>1. ASSUME NEW q \in Pid, NEW b \in Addr
        PROVE  local_buffer_'[q][b] <= global_[b]
    <3>1. local_buffer_[q][b] <= global_[b]
      BY <1>1 DEF History, Synced
    <3> QED
      BY <1>7, <3>1
  <2>2. ASSUME NEW q \in Pid, NEW w \in Writes
        PROVE  /\ ~ (local_buffer_'[q][w.addr] < w.id /\ w.id <= s[q])
               /\ w.pid = q => w.id <= local_buffer_'[q][w.addr]
               /\ w.id = local_buffer_'[q][w.addr] /\ w.pid # q
                    => w.id <= s[q]
    <3>1. CASE q = p
      <4>1. /\ local_buffer_'[q][w.addr] = global_[w.addr]
            /\ global_[w.addr] \in Nat
            /\ w.id <= global_[w.addr] /\ w.id \in Nat /\ w.id < n
        BY <1>6, <1>7, <3>1
      <4> QED
        BY <1>3, <1>8, <3>1, <4>1
    <3>2. CASE q # p
      <4>1. local_buffer_'[q][w.addr] = local_buffer_[q][w.addr]
              /\ s[q] = sync[q]
        BY <1>6, <1>7, <1>8, <3>2
      <4> QED
        BY <1>1, <4>1 DEF History, Synced
    <3> QED
      BY <3>1, <3>2
  <2> QED
    BY <1>2, <1>4, <1>8, <2>1, <2>2 DEF Synced
<1>10. ReadsKnow(s, obs, snap, time)'
  <2>1. ASSUME NEW r \in Reads
        PROVE  snap[r.id] <= s[r.pid]
                 /\ obs[r.id] <= local_buffer_'[r.pid][r.addr]
    <3>1. snap[r.id] <= sync[r.pid]
            /\ obs[r.id] <= local_buffer_[r.pid][r.addr]
      BY <1>1 DEF History, ReadsKnow
    <3>2. /\ snap[r.id] \in Nat /\ obs[r.id] \in Nat
          /\ r.pid \in Pid /\ r.addr \in Addr
          /\ sync[r.pid] \in Nat /\ s[r.pid] \in Nat
               /\ sync[r.pid] <= s[r.pid]
      BY <1>5, <1>6, <1>8
    <3>3. /\ local_buffer_[r.pid][r.addr] <= local_buffer_'[r.pid][r.addr]
          /\ local_buffer_[r.pid][r.addr] \in Nat
          /\ local_buffer_'[r.pid][r.addr] \in Nat
      <4>1. CASE r.pid = p
        BY <1>7, <3>2, <4>1
      <4>2. CASE r.pid # p
        BY <1>7, <3>2, <4>2
      <4> QED
        BY <4>1, <4>2
    <3> QED
      BY <3>1, <3>2, <3>3
  <2> QED
    BY <1>1, <1>2, <1>4, <2>1 DEF History, ReadsKnow
<1>11. ReadsGrow(obs, snap, time)'
  BY <1>1, <1>4 DEF History, ReadsGrow
<1>12. PoInOrder(time)'
  BY <1>1, <1>2, <1>4 DEF History, PoInOrder, InOrder, Earlier, Stamp, Tie
<1> QED
  BY <1>9, <1>10, <1>11, <1>12 DEF HistoryInv, History

(* Every step has a history that extends the one before.                   *)
LEMMA HistoryInvNext ==
  EventInv /\ CoherenceInv /\ HistoryInv /\ [Next]_vars => HistoryInv'
<1> SUFFICES ASSUME EventInv, CoherenceInv, HistoryInv, [Next]_vars
             PROVE  HistoryInv'
  OBVIOUS
<1>1. CASE UNCHANGED vars
  <2>1. PICK sync, obs, snap, time : History(sync, obs, snap, time)
    BY DEF HistoryInv
  <2>2. /\ Reads' = Reads /\ Writes' = Writes
        /\ UNCHANGED <<global_, local_buffer_, po_last_, po, rf,
             next_write_id_>>
    BY <1>1 DEF vars, ew_, Reads, Writes
  <2>3. Synced(sync)'
    BY <2>1, <2>2 DEF History, Synced
  <2>4. ReadsKnow(sync, obs, snap, time)' /\ ReadsGrow(obs, snap, time)'
    BY <2>1, <2>2 DEF History, ReadsKnow, ReadsGrow
  <2>5. PoInOrder(time)'
    BY <2>1, <2>2 DEF History, PoInOrder, InOrder, Earlier, Stamp, Tie
  <2> QED
    BY <2>3, <2>4, <2>5 DEF HistoryInv, History
<1>2. CASE Next
  BY <1>2, HistoryInvRead, HistoryInvWrite, HistoryInvPropagate DEF Next
<1> QED
  BY <1>1, <1>2

(* Every reachable execution has a history.                                *)
LEMMA HistoryInvariance == Spec => [](EventInv /\ CoherenceInv /\ HistoryInv)
<1>1. Spec => []CoherenceInv
  BY CoherenceInvInit, CoherenceInvNext, EventInvariance, PTL DEF Spec
<1> QED
  BY <1>1, HistoryInvInit, HistoryInvNext, EventInvariance, PTL DEF Spec

(* All that executions relate.                                             *)
Nodes == Ends(rf \cup co)

(* The ends of finitely many edges are finitely many.                      *)
LEMMA EndsFinite ==
  ASSUME NEW R, IsFiniteSet(R)
  PROVE  IsFiniteSet(Ends(R))
<1> DEFINE F1 == [e \in R |-> e[1]]
           F2 == [e \in R |-> e[2]]
           S1 == {e[1] : e \in R}
           S2 == {e[2] : e \in R}
<1>1. F1 \in Surjection(R, S1) /\ F2 \in Surjection(R, S2)
  BY DEF Surjection
<1>2. IsFiniteSet(S1) /\ IsFiniteSet(S2)
  <2> HIDE DEF F1, F2, S1, S2
  <2> QED
    BY <1>1, FS_Surjection
<1> QED
  BY <1>2, FS_Union DEF Ends

(* Facts about the nodes.                                                  *)
LEMMA NodesAre ==
  ASSUME EventInv
  PROVE  /\ IsFiniteSet(Nodes) /\ Nodes \subseteq Event
         /\ Reads \subseteq Nodes /\ Writes \subseteq Nodes
         /\ rf \subseteq Nodes \X Nodes /\ co \subseteq Nodes \X Nodes
<1>1. IsFiniteSet(rf \cup co)
  BY FS_Union DEF EventInv, Numbered
<1>2. rf \subseteq Event \X Event /\ co \subseteq Event \X Event
  BY DEF EventInv, TypeOK
<1>3. Nodes \subseteq Event
  BY <1>2 DEF Nodes, Ends
<1>4. ASSUME NEW e \in rf \cup co PROVE e \in Nodes \X Nodes
  <2>1. e[1] \in Nodes /\ e[2] \in Nodes
    BY DEF Nodes, Ends
  <2>2. e = <<e[1], e[2]>>
    BY <1>2
  <2> QED
    BY <2>1, <2>2
<1> QED
  BY <1>1, <1>3, <1>4, EndsFinite DEF Nodes, Ends, Reads, Writes

(* Ranks are naturals.                                                     *)
LEMMA RanksAre ==
  ASSUME EventInv, NEW f \in [Nat -> Nat]
  PROVE  \A n \in Event :
           /\ Stamp(f)[n] = IF n.type = "Write" THEN n.id ELSE f[n.id]
           /\ Tie[n] = IF n.type = "Write" THEN 0 ELSE n.id
           /\ Stamp(f)[n] \in Nat /\ Tie[n] \in Nat
BY DEF Stamp, Tie, Event

(* A write comes before those that follow in coherence order.              *)
LEMMA CoClosure ==
  ASSUME EventInv, NEW e \in Closure(co)
  PROVE  /\ e \in Nodes \X Nodes /\ e[2] \in Writes
         /\ e[1].id < e[2].id /\ e[1].addr = e[2].addr
<1> DEFINE T == {x \in Nodes \X Nodes : /\ x[2] \in Writes
                                       /\ x[1].id < x[2].id
                                       /\ x[1].addr = x[2].addr}
<1>1. IsFiniteSet(co)
  BY DEF EventInv, Numbered
<1>2. co \subseteq T
  BY NodesAre DEF EventInv, Linked, Writes
<1>3. ASSUME NEW x \in Nodes, NEW y \in Nodes, NEW z \in Nodes,
             <<x, y>> \in T, <<y, z>> \in T
      PROVE  <<x, z>> \in T
  <2>1. x.id \in Nat /\ y.id \in Nat /\ z.id \in Nat
    BY NodesAre DEF Event
  <2> QED
    BY <1>3, <2>1
<1>4. Closure(co) \subseteq T
  <2>1. T \in SUBSET (Nodes \X Nodes) /\ co \in SUBSET (Nodes \X Nodes)
    BY NodesAre
  <2> HIDE DEF T
  <2> QED
    BY <1>1, <1>2, <1>3, <2>1, ClosureIsLeast
<1> QED
  BY <1>4

(* Program order, closed, is that of execution.                            *)
LEMMA PoClosure ==
  ASSUME EventInv, NEW time \in [Nat -> Nat], PoInOrder(time),
         NEW e \in Closure(po)
  PROVE  e \in Nodes \X Nodes /\ InOrder(time, e[1], e[2])
<1> DEFINE T == {x \in Nodes \X Nodes : InOrder(time, x[1], x[2])}
<1>1. IsFiniteSet(po) /\ po \subseteq Event \X Event
  BY DEF EventInv, Numbered, TypeOK
<1>2. po \subseteq T
  <2> SUFFICES ASSUME NEW x \in po PROVE x \in T
    OBVIOUS
  <2>1. InOrder(time, x[1], x[2])
    BY DEF PoInOrder
  <2>2. x = <<x[1], x[2]>>
    BY <1>1
  <2>3. x[1] \in Nodes /\ x[2] \in Nodes
    BY <2>1, NodesAre DEF InOrder
  <2> QED
    BY <2>1, <2>2, <2>3
<1>3. ASSUME NEW x \in Nodes, NEW y \in Nodes, NEW z \in Nodes,
             <<x, y>> \in T, <<y, z>> \in T
      PROVE  <<x, z>> \in T
  <2>1. InOrder(time, x, y) /\ InOrder(time, y, z)
    BY <1>3
  <2>2. \A n \in Nodes : Stamp(time)[n] \in Nat /\ Tie[n] \in Nat
    BY NodesAre, RanksAre
  <2>3. Earlier(Stamp(time), Tie, x, z)
    <3>1. Earlier(Stamp(time), Tie, x, y) /\ Earlier(Stamp(time), Tie, y, z)
      BY <2>1 DEF InOrder
    <3> QED
      BY <2>2, <3>1 DEF Earlier
  <2>4. InOrder(time, x, z)
    BY <2>1, <2>3 DEF InOrder
  <2> QED
    BY <2>4
<1>4. Closure(po) \subseteq T
  <2>1. T \in SUBSET (Nodes \X Nodes) /\ po \in SUBSET (Nodes \X Nodes)
    BY <1>2
  <2> HIDE DEF T
  <2> QED
    BY <1>1, <1>2, <1>3, <2>1, ClosureIsLeast
<1> QED
  BY <1>4

(* Two events of a thread, one executed before the other: where they have  *)
(* one address the thread has not forgotten what it saw, and in any case   *)
(* not what it has copied.                                                 *)
LEMMA PoEdge ==
  ASSUME EventInv, NEW sync, NEW obs, NEW snap, NEW time,
         History(sync, obs, snap, time), NEW x, NEW y, InOrder(time, x, y)
  PROVE  /\ x.addr = y.addr => Earlier(Stamp(obs), Tie, x, y)
         /\ ~ (x.type = "Write" /\ y.type = "Read")
              => Earlier(Stamp(snap), Tie, x, y)
<1>1. /\ obs \in [Nat -> Nat] /\ snap \in [Nat -> Nat]
           /\ time \in [Nat -> Nat]
  BY DEF History, ReadsKnow
<1>2. /\ x \in Reads \cup Writes /\ y \in Reads \cup Writes /\ x.pid = y.pid
      /\ Earlier(Stamp(time), Tie, x, y)
      /\ x \in Event /\ y \in Event
  BY EventNumbers DEF InOrder
<1>3. ASSUME NEW n \in {x, y}
      PROVE  /\ Stamp(time)[n] = IF n.type = "Write" THEN n.id ELSE time[n.id]
             /\ Stamp(obs)[n] = IF n.type = "Write" THEN n.id ELSE obs[n.id]
             /\ Stamp(snap)[n] = IF n.type = "Write" THEN n.id ELSE snap[n.id]
             /\ Tie[n] = IF n.type = "Write" THEN 0 ELSE n.id
             /\ n.id \in Nat /\ 0 < n.id
             /\ time[n.id] \in Nat /\ obs[n.id] \in Nat /\ snap[n.id] \in Nat
  BY <1>1, <1>2, RanksAre, EventNumbers
<1>4. /\ \A r \in Reads : /\ r.type = "Read"
                          /\ obs[r.id] <= time[r.id]
                               /\ snap[r.id] <= time[r.id]
      /\ \A w \in Writes : w.type = "Write"
  BY EventNumbers DEF History, ReadsKnow
<1>5. CASE x \in Writes /\ y \in Writes
  BY <1>2, <1>3, <1>4, <1>5 DEF Earlier
<1>6. CASE x \in Writes /\ y \in Reads
  <2>1. x.id <= time[y.id]
    BY <1>2, <1>3, <1>4, <1>6 DEF Earlier
  <2>2. x.addr = y.addr => x.id <= obs[y.id]
    BY <1>2, <1>6, <2>1 DEF History, ReadsKnow
  <2> QED
    BY <1>3, <1>4, <1>6, <2>2 DEF Earlier
<1>7. CASE x \in Reads /\ y \in Writes
  <2>1. time[x.id] < y.id
    BY <1>2, <1>3, <1>4, <1>7 DEF Earlier
  <2>2. obs[x.id] <= time[x.id] /\ snap[x.id] <= time[x.id]
    BY <1>4, <1>7
  <2>3. obs[x.id] < y.id /\ snap[x.id] < y.id
    BY <1>3, <2>1, <2>2
  <2> QED
    BY <1>3, <1>4, <1>7, <2>3 DEF Earlier
<1>8. CASE x \in Reads /\ y \in Reads
  <2>1. x.id < y.id
    <3>1. \/ time[x.id] < time[y.id]
          \/ time[x.id] = time[y.id] /\ x.id < y.id
      BY <1>2, <1>3, <1>4, <1>8 DEF Earlier
    <3>2. y.id < x.id => time[y.id] <= time[x.id]
      BY <1>8 DEF History, ReadsGrow
    <3>3. x.id = y.id => time[x.id] = time[y.id]
      OBVIOUS
    <3> QED
      BY <1>3, <3>1, <3>2, <3>3
  <2>2. snap[x.id] <= snap[y.id]
          /\ (x.addr = y.addr => obs[x.id] <= obs[y.id])
    BY <1>2, <1>8, <2>1 DEF History, ReadsGrow
  <2> QED
    BY <1>3, <1>4, <1>8, <2>1, <2>2 DEF Earlier
<1> QED
  BY <1>2, <1>5, <1>6, <1>7, <1>8

(* A read comes after the write it observes: after that of another thread  *)
(* also where its thread last copied the memory.                           *)
LEMMA RfEdge ==
  ASSUME EventInv, NEW sync, NEW obs, NEW snap, NEW time,
         History(sync, obs, snap, time), NEW e \in rf
  PROVE  /\ Earlier(Stamp(obs), Tie, e[1], e[2])
         /\ e[1].pid # e[2].pid => Earlier(Stamp(snap), Tie, e[1], e[2])
<1>1. /\ obs \in [Nat -> Nat] /\ snap \in [Nat -> Nat]
      /\ e[1].id = obs[e[2].id]
      /\ e[1].pid # e[2].pid => e[1].id <= snap[e[2].id]
  BY DEF History, ReadsKnow
<1>2. e[2] \in Reads /\ e[2].type = "Read" /\ e[2].id \in Nat /\ 0 < e[2].id
  BY EventNumbers DEF Reads
<1>3. e[1] \in Event /\ e[2] \in Event /\ e[1].type = "Write"
        /\ e[1].id \in Nat
  <2>1. e[1] \in Event /\ e[2] \in Event
    BY DEF EventInv, TypeOK
  <2>2. e[1].type = "Write"
    <3>1. \A a : InitWrite(a).type = "Write"
      BY DEF InitWrite
    <3> QED
      BY <3>1, EventNumbers DEF EventInv, Linked
  <2> QED
    BY <2>1, <2>2 DEF Event
<1>4. /\ Stamp(obs)[e[1]] = e[1].id /\ Stamp(snap)[e[1]] = e[1].id
           /\ Tie[e[1]] = 0
      /\ Stamp(obs)[e[2]] = obs[e[2].id] /\ Stamp(snap)[e[2]] = snap[e[2].id]
      /\ Tie[e[2]] = e[2].id
      /\ snap[e[2].id] \in Nat
  BY <1>1, <1>2, <1>3, RanksAre
<1> QED
  BY <1>1, <1>2, <1>3, <1>4 DEF Earlier

(* Writes are in coherence order.                                          *)
LEMMA CoEdge ==
  ASSUME EventInv, NEW f \in [Nat -> Nat], NEW e \in co
  PROVE  Earlier(Stamp(f), Tie, e[1], e[2])
<1>1. e[1].id < e[2].id /\ e[1] \in Event /\ e[2] \in Event
  BY DEF EventInv, Linked, TypeOK
<1>2. e[2].type = "Write" /\ e[1].type = "Write"
  <2>1. \A a : InitWrite(a).type = "Write"
    BY DEF InitWrite
  <2> QED
    BY <2>1, EventNumbers DEF EventInv, Linked, Writes
<1> QED
  BY <1>1, <1>2, RanksAre DEF Earlier

(* A read comes before the writes that follow the one it observes: it had  *)
(* not seen them, nor had its thread copied them.                          *)
LEMMA FrEdge ==
  ASSUME EventInv, NEW sync, NEW obs, NEW snap, NEW time,
         History(sync, obs, snap, time), NEW e \in Fr
  PROVE  /\ e \in Nodes \X Nodes
         /\ Earlier(Stamp(obs), Tie, e[1], e[2])
         /\ Earlier(Stamp(snap), Tie, e[1], e[2])
<1>1. PICK z \in rf \X Closure(co) : /\ z[1][1] = z[2][1]
                                    /\ e = <<z[1][2], z[2][2]>>
  BY DEF Fr
<1> PICK d \in rf, c \in Closure(co) : d = z[1] /\ c = z[2]
  BY <1>1
<1>2. /\ e[1] = d[2] /\ e[2] = c[2] /\ e = <<d[2], c[2]>> /\ d[1] = c[1]
  BY <1>1
<1>3. /\ c \in Nodes \X Nodes /\ c[2] \in Writes
      /\ c[1].id < c[2].id /\ c[1].addr = c[2].addr
  BY CoClosure
<1>4. d[2] \in Reads /\ d[2] \in Nodes /\ c[2] \in Nodes
        /\ d[1].addr = d[2].addr
  BY <1>3, NodesAre DEF Reads, EventInv, Linked
<1>5. /\ obs \in [Nat -> Nat] /\ snap \in [Nat -> Nat]
      /\ d[1].id = obs[d[2].id]
      /\ ~ (obs[d[2].id] < c[2].id /\ c[2].id <= snap[d[2].id])
  <2>1. c[2].addr = d[2].addr
    BY <1>2, <1>3, <1>4
  <2> QED
    BY <1>3, <1>4, <2>1 DEF History, ReadsKnow
<1>6. /\ d[2] \in Event /\ d[2].type = "Read" /\ d[2].id \in Nat
      /\ c[2] \in Event /\ c[2].type = "Write" /\ c[2].id \in Nat
  BY <1>3, <1>4, EventNumbers
<1>7. obs[d[2].id] < c[2].id /\ snap[d[2].id] < c[2].id
  <2>1. obs[d[2].id] \in Nat /\ snap[d[2].id] \in Nat
    BY <1>5, <1>6
  <2> QED
    BY <1>2, <1>3, <1>5, <1>6, <2>1
<1>8. /\ Stamp(obs)[d[2]] = obs[d[2].id] /\ Stamp(snap)[d[2]] = snap[d[2].id]
      /\ Stamp(obs)[c[2]] = c[2].id /\ Stamp(snap)[c[2]] = c[2].id
  BY <1>5, <1>6, RanksAre
<1> QED
  BY <1>2, <1>4, <1>7, <1>8 DEF Earlier

(* Whatever the number of threads, addresses, reads and writes, the        *)
(* machine records no execution that the axioms of TSO forbid.             *)
THEOREM AllExecutionsAreTSO == Spec => []ExecutionIsTSO
<1>1. EventInv /\ HistoryInv => ExecutionIsTSO
  <2> SUFFICES ASSUME EventInv, HistoryInv PROVE ValidExec
    BY DEF ExecutionIsTSO
  <2>1. PICK sync, obs, snap, time : History(sync, obs, snap, time)
    BY DEF HistoryInv
  <2>2. /\ obs \in [Nat -> Nat] /\ snap \in [Nat -> Nat]
             /\ time \in [Nat -> Nat]
        /\ PoInOrder(time)
    BY <2>1 DEF History, ReadsKnow
  <2>3. \A n \in Nodes : /\ Stamp(obs)[n] \in Nat /\ Stamp(snap)[n] \in Nat
                        /\ Tie[n] \in Nat
    BY <2>2, NodesAre, RanksAre
  <2>4. Acyclic(rf \cup co \cup Fr \cup SameAddr(Closure(po)))
    <3> DEFINE R == rf \cup co \cup Fr \cup SameAddr(Closure(po))
    <3>1. ASSUME NEW e \in R
          PROVE  e \in Nodes \X Nodes /\ Earlier(Stamp(obs), Tie, e[1], e[2])
      <4>1. CASE e \in rf
        BY <2>1, <4>1, NodesAre, RfEdge
      <4>2. CASE e \in co
        BY <2>2, <4>2, NodesAre, CoEdge
      <4>3. CASE e \in Fr
        BY <2>1, <4>3, FrEdge
      <4>4. CASE e \in SameAddr(Closure(po))
        <5>1. e \in Closure(po) /\ e[1].addr = e[2].addr
          BY <4>4 DEF SameAddr
        <5>2. e \in Nodes \X Nodes /\ InOrder(time, e[1], e[2])
          BY <2>2, <5>1, PoClosure
        <5> QED
          BY <2>1, <5>1, <5>2, PoEdge
      <4> QED
        BY <4>1, <4>2, <4>3, <4>4
    <3>2. R \in SUBSET (Nodes \X Nodes) /\ IsFiniteSet(Nodes)
      BY <3>1, NodesAre
    <3> HIDE DEF R
    <3>3. Acyclic(R)
      BY <2>3, <3>1, <3>2, RankedIsAcyclic
    <3> QED
      BY <3>3 DEF R
  <2>5. Acyclic(Ppo \cup External(rf) \cup co \cup Fr)
    <3> DEFINE R == Ppo \cup External(rf) \cup co \cup Fr
    <3>1. ASSUME NEW e \in R
          PROVE  e \in Nodes \X Nodes /\ Earlier(Stamp(snap), Tie, e[1], e[2])
      <4>1. CASE e \in Ppo
        <5>1. e \in Closure(po)
                /\ ~ (e[1].type = "Write" /\ e[2].type = "Read")
          BY <4>1 DEF Ppo
        <5>2. e \in Nodes \X Nodes /\ InOrder(time, e[1], e[2])
          BY <2>2, <5>1, PoClosure
        <5> QED
          BY <2>1, <5>1, <5>2, PoEdge
      <4>2. CASE e \in External(rf)
        <5>1. e \in rf /\ e[1].pid # e[2].pid
          BY <4>2 DEF External
        <5> QED
          BY <2>1, <5>1, NodesAre, RfEdge
      <4>3. CASE e \in co
        BY <2>2, <4>3, NodesAre, CoEdge
      <4>4. CASE e \in Fr
        BY <2>1, <4>4, FrEdge
      <4> QED
        BY <4>1, <4>2, <4>3, <4>4
    <3>2. R \in SUBSET (Nodes \X Nodes) /\ IsFiniteSet(Nodes)
      BY <3>1, NodesAre
    <3> HIDE DEF R
    <3>3. Acyclic(R)
      BY <2>3, <3>1, <3>2, RankedIsAcyclic
    <3> QED
      BY <3>3 DEF R
  <2> QED
    BY <2>4, <2>5 DEF ValidExec
<1> QED
  BY <1>1, HistoryInvariance, PTL
==============================================================================
