------------------------ MODULE ParallelSolver_proofs ------------------------
(***************************************************************************)
(* Proofs about RangeEnumerateMatcher: what Match finds, for candidates of *)
(* any number and width up to that of an int; and about what               *)
(* ParallelSolver, which prunes by it, returns and skips, for every model  *)
(* under synthesis, any number of holes, options and threads, and when it  *)
(* throws.  These do not depend on which candidates a thread comes by, so  *)
(* that the arithmetic of RangeValues matters only where a hole registered *)
(* multiplies the product.                                                 *)
(***************************************************************************)
EXTENDS ParallelSolver, RangeEnumerateMatcher, FiniteSetTheorems,
        WellFoundedInduction, TLAPS

-----------------------------------------------------------------------------
(***************************************************************************)
(* The order of the bit patterns.                                          *)
(***************************************************************************)

(* A non-empty set of naturals has a least element.                        *)
LEMMA LeastNatural ==
  ASSUME NEW S \in SUBSET Nat, S # {}
  PROVE  \E i \in S : \A j \in S : i <= j
<1>1. PICK i \in S : \A j \in S : ~ (<<j, i>> \in OpToRel(<, Nat))
  BY NatLessThanWellFounded, WFMin
<1>2. \A j \in S : ~ (j < i)
  BY <1>1 DEF OpToRel
<1> QED
  BY <1>2

(* Bits have a lowest and a highest one.                                   *)
LEMMA Extremes ==
  ASSUME NEW n \in Nat, NEW S \in SUBSET (0 .. n), S # {}
  PROVE  /\ Min(S) \in S /\ \A j \in S : Min(S) <= j
         /\ Max(S) \in S /\ \A j \in S : j <= Max(S)
<1>1. \E i \in S : \A j \in S : i <= j
  BY LeastNatural
<1>2. \E i \in S : \A j \in S : i >= j
  <2> DEFINE T == {n - i : i \in S}
  <2>1. T \in SUBSET Nat /\ T # {}
    <3>1. \A i \in S : n - i \in Nat
      OBVIOUS
    <3> QED
      BY <3>1
  <2>2. PICK k \in T : \A j \in T : k <= j
    BY <2>1, LeastNatural
  <2>3. PICK i \in S : k = n - i
    OBVIOUS
  <2>4. \A j \in S : n - j \in T
    OBVIOUS
  <2> HIDE DEF T
  <2>5. \A j \in S : n - i <= n - j
    BY <2>2, <2>3, <2>4
  <2>6. \A j \in S : i >= j
    BY <2>5
  <2> QED
    BY <2>6
<1>3. Min(S) \in S /\ \A j \in S : Min(S) <= j
  BY <1>1 DEF Min
<1>4. Max(S) \in S /\ \A j \in S : Max(S) >= j
  BY <1>2 DEF Max
<1> QED
  BY <1>3, <1>4

(* a is below b: they agree above some bit, which b has and a has not.     *)
Below(a, b) ==
  \E m \in b \ a : \A k \in a \cup b : k > m => (k \in a <=> k \in b)

(* That is how BitsLeq compares.                                           *)
LEMMA LeqIsBelow ==
  ASSUME NEW n \in Nat, NEW a \in SUBSET (0 .. n), NEW b \in SUBSET (0 .. n)
  PROVE  BitsLeq(a, b) <=> a = b \/ Below(a, b)
<1>1. CASE a = b
  BY <1>1 DEF BitsLeq
<1>2. CASE a # b
  <2>1. PICK D : D = SymDiff(a, b)
    OBVIOUS
  <2>2. \A k : k \in D <=> (k \in a /\ k \notin b) \/ (k \in b /\ k \notin a)
    BY <2>1 DEF SymDiff
  <2>3. D \in SUBSET (0 .. n) /\ D # {}
    BY <1>2, <2>2
  <2>4. Max(D) \in D /\ \A j \in D : j <= Max(D)
    BY <2>3, Extremes
  <2>5. ASSUME Max(D) \in b PROVE Below(a, b)
    <3>1. PICK i : i = Max(D)
      OBVIOUS
    <3>2. i \in b \ a /\ i \in 0 .. n
      BY <2>2, <2>3, <2>4, <2>5, <3>1
    <3>3. \A k \in a \cup b : k > i => k \notin D
      BY <2>4, <3>1, <3>2
    <3> QED
      BY <2>2, <3>2, <3>3 DEF Below
  <2>6. ASSUME Below(a, b) PROVE Max(D) \in b
    <3>1. PICK m \in b \ a :
            \A k \in a \cup b : k > m => (k \in a <=> k \in b)
      BY <2>6 DEF Below
    <3>2. m \in D /\ m <= Max(D)
      BY <2>2, <2>4, <3>1
    <3>3. PICK i : i = Max(D)
      OBVIOUS
    <3>4. i \in 0 .. n /\ m \in 0 .. n /\ m <= i /\ i \in a \cup b
      BY <2>2, <2>3, <2>4, <3>2, <3>3
    <3>5. ~ (i \in a <=> i \in b)
      BY <2>2, <2>4, <3>3
    <3>6. i = m
      BY <3>1, <3>4, <3>5
    <3> QED
      BY <3>1, <3>3, <3>6
  <2> QED
    BY <1>2, <2>1, <2>5, <2>6 DEF BitsLeq
<1> QED
  BY <1>1, <1>2

(* BitsLeq is a total order.                                               *)
LEMMA BelowOrder ==
  ASSUME NEW n \in Nat,
         NEW a \in SUBSET (0 .. n), NEW b \in SUBSET (0 .. n)
  PROVE  /\ a = b \/ Below(a, b) \/ Below(b, a)
         /\ ~ (Below(a, b) /\ Below(b, a))
         /\ ~ Below(a, a)
         /\ \A c \in SUBSET (0 .. n) :
              Below(a, b) /\ Below(b, c) => Below(a, c)
<1>1. a = b \/ Below(a, b) \/ Below(b, a)
  <2> SUFFICES ASSUME a # b PROVE Below(a, b) \/ Below(b, a)
    OBVIOUS
  <2>1. PICK D : D = (a \ b) \cup (b \ a)
    OBVIOUS
  <2>2. D \in SUBSET (0 .. n) /\ D # {}
    BY <2>1
  <2>3. PICK m \in D : \A j \in D : j <= m
    BY <2>2, Extremes
  <2>4. \A k \in a \cup b : k > m => (k \in a <=> k \in b)
    BY <2>1, <2>2, <2>3
  <2> QED
    BY <2>1, <2>4 DEF Below
<1>2. ~ (Below(a, b) /\ Below(b, a))
  <2> SUFFICES ASSUME Below(a, b), Below(b, a) PROVE FALSE
    OBVIOUS
  <2>1. PICK i \in b \ a : \A k \in a \cup b : k > i => (k \in a <=> k \in b)
    BY DEF Below
  <2>2. PICK j \in a \ b : \A k \in a \cup b : k > j => (k \in a <=> k \in b)
    BY DEF Below
  <2> QED
    BY <2>1, <2>2
<1>3. ~ Below(a, a)
  BY DEF Below
<1>4. ASSUME NEW c \in SUBSET (0 .. n), Below(a, b), Below(b, c)
      PROVE  Below(a, c)
  <2>1. PICK i \in b \ a : \A k \in a \cup b : k > i => (k \in a <=> k \in b)
    BY <1>4 DEF Below
  <2>2. PICK j \in c \ b : \A k \in b \cup c : k > j => (k \in b <=> k \in c)
    BY <1>4 DEF Below
  <2>3. CASE i > j
    <3>1. i \in c \ a /\ \A k \in a \cup c : k > i => (k \in a <=> k \in c)
      BY <2>1, <2>2, <2>3
    <3> QED
      BY <3>1 DEF Below
  <2>4. CASE j > i
    <3>1. j \in c \ a /\ \A k \in a \cup c : k > j => (k \in a <=> k \in c)
      BY <2>1, <2>2, <2>4
    <3> QED
      BY <3>1 DEF Below
  <2> QED
    BY <2>1, <2>2, <2>3, <2>4
<1> QED
  BY <1>1, <1>2, <1>3, <1>4

(* So a finite set of bit patterns has a first one.                        *)
LEMMA FirstBits ==
  ASSUME NEW n \in Nat, NEW D \in SUBSET SUBSET (0 .. n), D # {}
  PROVE  \E b \in D : \A d \in D : BitsLeq(b, d)
<1>1. IsFiniteSet(D)
  <2>1. IsFiniteSet(0 .. n)
    BY FS_Interval
  <2>2. IsFiniteSet(SUBSET (0 .. n))
    BY <2>1, FS_SUBSET
  <2> QED
    BY <2>2, FS_Subset
<1> DEFINE Under(b) == {d \in D : Below(d, b)}
<1>2. \A b : IsFiniteSet(Under(b)) /\ Cardinality(Under(b)) \in Nat
  <2> TAKE b
  <2>1. Under(b) \in SUBSET D
    OBVIOUS
  <2>2. IsFiniteSet(Under(b))
    BY <1>1, <2>1, FS_Subset
  <2> QED
    BY <2>2, FS_CardinalityType
<1> DEFINE Ranks == {Cardinality(Under(b)) : b \in D}
<1>3. Ranks \in SUBSET Nat /\ Ranks # {}
  BY <1>2
<1>4. PICK r \in Ranks : \A q \in Ranks : r <= q
  BY <1>3, LeastNatural
<1>5. PICK b \in D : r = Cardinality(Under(b))
  OBVIOUS
<1>6. ASSUME NEW d \in D, Below(d, b)
      PROVE  FALSE
  <2>1. Under(d) \in SUBSET Under(b)
    BY <1>6, BelowOrder
  <2>2. d \in Under(b) /\ d \notin Under(d)
    BY <1>6, BelowOrder
  <2>3. Under(d) # Under(b)
    BY <2>2
  <2>4. Cardinality(Under(d)) \in Ranks
    OBVIOUS
  <2> HIDE DEF Under, Ranks
  <2>5. Cardinality(Under(d)) < Cardinality(Under(b))
    BY <1>2, <2>1, <2>3, FS_Subset
  <2> QED
    BY <1>2, <1>4, <1>5, <2>4, <2>5
<1>7. \A d \in D : b = d \/ Below(b, d)
  BY <1>6, BelowOrder
<1> QED
  BY <1>7, LeqIsBelow

-----------------------------------------------------------------------------
(***************************************************************************)
(* What Match finds, while no candidate has as many values as an int has   *)
(* bits.                                                                   *)
(***************************************************************************)

(* A candidate with a bit for each value that is not the sign.             *)
Short(c) == c \in Seq(Nat) /\ Len(c) < IntBits

(* A candidate's bit pattern is the positions of its values, and the       *)
(* bounds on the patterns searched are the lowest one and all of them up   *)
(* to the highest.                                                         *)
LEMMA BitsAre ==
  ASSUME NEW c, Short(c)
  PROVE  /\ AsBitPattern(c) = NonWildcards(c)
         /\ NonWildcards(c) \in SUBSET (0 .. IntBits)
         /\ NonWildcards(c) # {} =>
              /\ LowerBound(c) = {Min(NonWildcards(c))}
              /\ UpperBound(c) = 0 .. Max(NonWildcards(c))
<1>1. Len(c) \in Nat /\ Len(c) < IntBits /\ IntBits \in Nat \ {0}
  BY WidthAssumption DEF Short
<1>2. PICK S : S = NonWildcards(c)
  OBVIOUS
<1>3. \A i \in S : i \in 0 .. Len(c) - 1
  BY <1>2 DEF NonWildcards
<1>4. \A i \in S : ShiftedOne(i) = {i}
  <2> TAKE i \in S
  <2>1. i % IntBits = i /\ i # IntBits - 1
    BY <1>1, <1>3
  <2> QED
    BY <2>1 DEF ShiftedOne
<1>5. AsBitPattern(c) = S
  <2>1. \A x : x \in AsBitPattern(c) <=> x \in S
    BY <1>2, <1>4 DEF AsBitPattern
  <2> QED
    BY <2>1
<1>6. S \in SUBSET (0 .. IntBits)
  BY <1>1, <1>3
<1>7. ASSUME S # {}
      PROVE  LowerBound(c) = {Min(S)} /\ UpperBound(c) = 0 .. Max(S)
  <2>1. Min(S) \in S /\ Max(S) \in S
    BY <1>1, <1>6, <1>7, Extremes
  <2>2. PICK m : m = Max(S)
    OBVIOUS
  <2>3. PICK q : q = m + 1
    OBVIOUS
  <2>4. q \in 0 .. IntBits - 1 /\ q - 1 = m
    BY <1>1, <1>3, <2>1, <2>2, <2>3
  <2>5. q % IntBits = q
    BY <1>1, <2>4
  <2>6. UpperBound(c) = 0 .. (q % IntBits) - 1
    BY <1>2, <2>2, <2>3 DEF UpperBound, OnesBelow
  <2>7. LowerBound(c) = {Min(S)}
    BY <1>2, <1>4, <2>1 DEF LowerBound
  <2> QED
    BY <2>2, <2>4, <2>5, <2>6, <2>7
<1> QED
  BY <1>2, <1>5, <1>6, <1>7

(* The patterns are searched whose positions have values in the candidate. *)
LEMMA ComparableIs ==
  ASSUME NEW pats, NEW c, Short(c), NEW bits, bits # {},
         bits \subseteq NonWildcards(c)
  PROVE  bits \in Comparable(pats, c) <=> bits \in DOMAIN pats
<1>1. PICK S : S = NonWildcards(c)
  OBVIOUS
<1>2. /\ S \in SUBSET (0 .. IntBits) /\ S # {} /\ IntBits \in Nat
      /\ LowerBound(c) = {Min(S)} /\ UpperBound(c) = 0 .. Max(S)
      /\ AsBitPattern(c) = S
  BY <1>1, BitsAre, WidthAssumption
<1>3. /\ Min(S) \in S /\ \A j \in S : Min(S) <= j
      /\ Max(S) \in S /\ \A j \in S : j <= Max(S)
  BY <1>2, Extremes
<1>4. bits \in SUBSET (0 .. IntBits)
  BY <1>1, <1>2
<1>5. PICK m : m = Min(S)
  OBVIOUS
<1>6. BitsLeq({m}, bits)
  <2>1. PICK i \in bits : \A j \in bits : j <= i
    BY <1>2, <1>4, Extremes
  <2> \A k \in bits : k \in Int /\ m <= k
    BY <1>1, <1>2, <1>3, <1>4, <1>5
  <2> m \in Int
    <3>1. m \in S
      BY <1>3, <1>5
    <3> QED
      BY <1>2, <3>1
  <2>2. CASE i = m
    <3>1. \A k \in bits : k = m
      BY <2>1, <2>2
    <3>2. bits = {m}
      BY <2>1, <2>2, <3>1
    <3> QED
      BY <3>2 DEF BitsLeq
  <2>3. CASE i # m
    <3>1. i \in bits \ {m}
      BY <2>1, <2>3
    <3>2. \A k \in {m} \cup bits : ~ (k > i)
      BY <2>1
    <3>3. Below({m}, bits)
      BY <3>1, <3>2 DEF Below
    <3>4. {m} \in SUBSET (0 .. IntBits)
      BY <1>2, <1>3, <1>5
    <3> QED
      BY <1>2, <1>4, <3>3, <3>4, LeqIsBelow
  <2> QED
    BY <2>2, <2>3
<1>7. BitsLeq(bits, 0 .. Max(S))
  <2>1. PICK up : up = 0 .. Max(S)
    OBVIOUS
  <2>2. up \in SUBSET (0 .. IntBits) /\ bits \subseteq up
    BY <1>1, <1>2, <1>3, <2>1
  <2>3. ~ Below(up, bits)
    BY <2>2 DEF Below
  <2> QED
    BY <1>2, <1>4, <2>1, <2>2, <2>3, BelowOrder, LeqIsBelow
<1> QED
  BY <1>1, <1>2, <1>5, <1>6, <1>7 DEF Comparable

(* Match returns the first position of a pattern that matches, if there is *)
(* one: of the first, but which one does not matter.                       *)
LEMMA MatchFinds ==
  ASSUME NEW pats, NEW c, Short(c),
         \A bits \in DOMAIN pats : bits # {}
  PROVE  LET hits == {bits \in DOMAIN pats :
                        /\ bits \subseteq NonWildcards(c)
                        /\ Sparse(c, bits) \in pats[bits]}
         IN  /\ hits = {} => Match(pats, c) = kInvalidID
             /\ hits # {} => \E bits \in hits : Match(pats, c) = Min(bits)
<1> DEFINE hits == {bits \in DOMAIN pats :
                      /\ bits \subseteq NonWildcards(c)
                      /\ Sparse(c, bits) \in pats[bits]}
<1>1. PICK S : S = NonWildcards(c)
  OBVIOUS
<1>2. S \in SUBSET (0 .. IntBits) /\ AsBitPattern(c) = S /\ IntBits \in Nat
  BY <1>1, BitsAre, WidthAssumption
<1>3. PICK H : H = hits
  OBVIOUS
<1>4. S # {} =>
        {bits \in Comparable(pats, c) : Sparse(c, bits) \in pats[bits]} = H
  <2>1. \A bits : bits \in Comparable(pats, c)
                   <=> bits \in DOMAIN pats /\ bits \subseteq S
    <3>1. \A bits : bits \in Comparable(pats, c)
                      => bits \in DOMAIN pats /\ bits \subseteq S
      BY <1>2 DEF Comparable
    <3> QED
      BY <1>1, <3>1, ComparableIs
  <2> QED
    BY <1>1, <1>3, <2>1
<1>5. S = {} => H = {}
  BY <1>1, <1>3
<1> DEFINE First(X) ==
      IF X = {} THEN kInvalidID
      ELSE FirstID(CHOOSE b \in X : \A d \in X : BitsLeq(b, d), c)
<1>6. Match(pats, c) = First(H)
  <2> DEFINE found == IF NonWildcards(c) = {} THEN {}
                      ELSE {bits \in Comparable(pats, c) :
                              Sparse(c, bits) \in pats[bits]}
  <2>1. found = H
    BY <1>1, <1>4, <1>5
  <2>2. Match(pats, c) = First(found)
    BY Zenon DEF Match
  <2> HIDE DEF First, found
  <2> QED
    BY <2>1, <2>2
<1>7. ASSUME H # {}
      PROVE  \E bits \in H : Match(pats, c) = Min(bits)
  <2>1. H \in SUBSET SUBSET (0 .. IntBits)
    BY <1>1, <1>2, <1>3
  <2>2. \E b \in H : \A d \in H : BitsLeq(b, d)
    BY <1>2, <1>7, <2>1, FirstBits
  <2>3. PICK b : b = CHOOSE x \in H : \A d \in H : BitsLeq(x, d)
    OBVIOUS
  <2>4. b \in H
    BY <2>2, <2>3
  <2>5. b \cap 0 .. Len(c) - 1 = b
    BY <1>3, <2>4 DEF NonWildcards
  <2>6. FirstID(b, c) = Min(b)
    BY <2>5 DEF FirstID
  <2> QED
    BY <1>6, <1>7, <2>3, <2>4, <2>6
<1> QED
  BY <1>3, <1>6, <1>7

(* A candidate has a pattern's values exactly if the pattern covers it.    *)
LEMMA SameSparse ==
  ASSUME NEW p, NEW c, Short(p), Short(c)
  PROVE  /\ NonWildcards(p) \subseteq NonWildcards(c)
         /\ Sparse(c, NonWildcards(p)) = Sparse(p, NonWildcards(p))
         <=> Covers(p, c)
<1>1. PICK S : S = NonWildcards(p)
  OBVIOUS
<1>2. /\ Len(p) \in Nat /\ DOMAIN p = 1 .. Len(p)
      /\ Len(c) \in Nat /\ DOMAIN c = 1 .. Len(c)
  BY DEF Short
<1>3. \A i : i \in S <=> i \in 0 .. Len(p) - 1 /\ p[i + 1] # Wildcard
  BY <1>1 DEF NonWildcards
<1>4. S \cap 0 .. Len(p) - 1 = S
  BY <1>3
<1>5. Sparse(p, S) = [i \in S |-> p[i + 1]]
  BY <1>4 DEF Sparse
<1>6. ASSUME S \subseteq NonWildcards(c), Sparse(c, S) = Sparse(p, S)
      PROVE  Covers(p, c)
  <2>1. S \cap 0 .. Len(c) - 1 = S
    BY <1>6 DEF NonWildcards
  <2>2. Sparse(c, S) = [i \in S |-> c[i + 1]]
    BY <2>1 DEF Sparse
  <2>3. \A i \in S : c[i + 1] = p[i + 1]
    BY <1>5, <1>6, <2>2
  <2>4. \A i \in S : i \in 0 .. Len(c) - 1
    BY <2>1
  <2>5. ASSUME NEW j \in DOMAIN p, p[j] # Wildcard
        PROVE  j \in DOMAIN c /\ c[j] = p[j]
    <3>1. PICK i : i = j - 1
      OBVIOUS
    <3>2. i + 1 = j /\ i \in 0 .. Len(p) - 1
      BY <1>2, <3>1
    <3>3. i \in S
      BY <1>3, <2>5, <3>2
    <3> QED
      BY <1>2, <2>3, <2>4, <3>2, <3>3
  <2> QED
    BY <2>5 DEF Covers
<1>7. ASSUME Covers(p, c)
      PROVE  S \subseteq NonWildcards(c) /\ Sparse(c, S) = Sparse(p, S)
  <2>1. ASSUME NEW i \in S
        PROVE  /\ i \in 0 .. Len(c) - 1 /\ c[i + 1] = p[i + 1]
               /\ i \in NonWildcards(c)
    <3>1. i \in 0 .. Len(p) - 1 /\ p[i + 1] # Wildcard
      BY <1>3, <2>1
    <3>2. i + 1 \in DOMAIN p
      BY <1>2, <3>1
    <3>3. i + 1 \in DOMAIN c /\ c[i + 1] = p[i + 1]
      BY <1>7, <3>1, <3>2 DEF Covers
    <3>4. i \in 0 .. Len(c) - 1
      BY <1>2, <3>1, <3>3
    <3> QED
      BY <3>1, <3>3, <3>4 DEF NonWildcards
  <2>2. S \cap 0 .. Len(c) - 1 = S
    BY <2>1
  <2>3. Sparse(c, S) = [i \in S |-> c[i + 1]]
    BY <2>2 DEF Sparse
  <2>4. [i \in S |-> c[i + 1]] = [i \in S |-> p[i + 1]]
    BY <2>1
  <2> QED
    BY <1>5, <2>1, <2>3, <2>4
<1> QED
  BY <1>1, <1>6, <1>7

-----------------------------------------------------------------------------
(***************************************************************************)
(* RangeEnumerateMatcher.                                                  *)
(***************************************************************************)

(* The patterns are those of the candidates inserted.                      *)
MatcherInv ==
  /\ inserted \subseteq Candidates
  /\ \A p \in inserted :
       /\ NonWildcards(p) # {}
       /\ NonWildcards(p) \in DOMAIN patterns_
       /\ Sparse(p, NonWildcards(p)) \in patterns_[NonWildcards(p)]
  /\ \A bits \in DOMAIN patterns_ : \A s \in patterns_[bits] :
       \E p \in inserted :
         bits = NonWildcards(p) /\ s = Sparse(p, NonWildcards(p))
  /\ \A bits \in DOMAIN patterns_ : bits # {}

(* All candidates are such ones.                                           *)
Narrow == \A c \in Candidates : Len(c) < IntBits

(* Each call preserves it.                                                 *)
LEMMA MatcherNextInv ==
  ASSUME Narrow, MatcherInv, [MatcherNext]_matcher_vars
  PROVE  MatcherInv'
<1>1. CASE UNCHANGED <<patterns_, inserted>>
  BY <1>1 DEF MatcherInv
<1>2. CASE patterns_' = NoPatterns /\ inserted' = {}
  BY <1>2 DEF MatcherInv, NoPatterns
<1>3. ASSUME NEW c \in Candidates, NonWildcards(c) # {},
             patterns_' = Inserted(patterns_, c),
             inserted' = inserted \cup {c}
      PROVE  MatcherInv'
  <2>1. Short(c)
    BY CandidatesAssumption DEF Narrow, Short
  <2>2. PICK S : S = NonWildcards(c)
    OBVIOUS
  <2>3. AsBitPattern(c) = S
    BY <2>1, <2>2, BitsAre
  <2>4. PICK new : new = Sparse(c, S)
    OBVIOUS
  <2>5. /\ DOMAIN patterns_' = DOMAIN patterns_ \cup {S}
        /\ \A bits \in DOMAIN patterns_' :
             patterns_'[bits] =
               IF bits = S
                 THEN (IF S \in DOMAIN patterns_ THEN patterns_[S] ELSE {})
                      \cup {new}
                 ELSE patterns_[bits]
    BY <1>3, <2>3, <2>4 DEF Inserted
  <2>6. \A p \in inserted' :
          /\ NonWildcards(p) # {}
          /\ NonWildcards(p) \in DOMAIN patterns_'
          /\ Sparse(p, NonWildcards(p)) \in patterns_'[NonWildcards(p)]
    <3> TAKE p \in inserted'
    <3>1. CASE p = c
      BY <1>3, <2>2, <2>4, <2>5, <3>1
    <3>2. CASE p \in inserted
      BY <2>5, <3>2 DEF MatcherInv
    <3> QED
      BY <1>3, <3>1, <3>2
  <2>7. \A bits \in DOMAIN patterns_' : \A s \in patterns_'[bits] :
          \E p \in inserted' :
            bits = NonWildcards(p) /\ s = Sparse(p, NonWildcards(p))
    <3> TAKE bits \in DOMAIN patterns_'
    <3> TAKE s \in patterns_'[bits]
    <3>1. CASE bits = S /\ s = new
      BY <1>3, <2>2, <2>4, <3>1
    <3>2. CASE bits \in DOMAIN patterns_ /\ s \in patterns_[bits]
      BY <1>3, <3>2 DEF MatcherInv
    <3> QED
      BY <2>5, <3>1, <3>2
  <2>8. \A bits \in DOMAIN patterns_' : bits # {}
    BY <1>3, <2>2, <2>5 DEF MatcherInv
  <2>9. inserted' \subseteq Candidates
    BY <1>3 DEF MatcherInv
  <2> QED
    BY <2>6, <2>7, <2>8, <2>9 DEF MatcherInv
<1> QED
  BY <1>1, <1>2, <1>3 DEF MatcherNext, Insert, Clear, matcher_vars

(* So it always holds.                                                     *)
LEMMA MatcherInvariant == Narrow => (MatcherSpec => []MatcherInv)
<1> SUFFICES ASSUME Narrow PROVE MatcherSpec => []MatcherInv
  OBVIOUS
<1>1. MatcherInit => MatcherInv
  BY DEF MatcherInit, MatcherInv, NoPatterns
<1>2. MatcherInv /\ [MatcherNext]_matcher_vars => MatcherInv'
  BY MatcherNextInv
<1> QED
  BY <1>1, <1>2, PTL DEF MatcherSpec

(* What Match returns is the first position of a candidate inserted that   *)
(* covers the one asked about.                                             *)
LEMMA MatchCovers ==
  ASSUME Narrow, MatcherInv, NEW c \in Candidates
  PROVE  /\ (\E p \in inserted : Covers(p, c))
              => Match(patterns_, c) # kInvalidID
         /\ Match(patterns_, c) # kInvalidID =>
              \E p \in inserted :
                Covers(p, c) /\ Match(patterns_, c) = Min(NonWildcards(p))
<1>1. Short(c) /\ \A p \in inserted : Short(p)
  BY CandidatesAssumption DEF Narrow, Short, MatcherInv
<1>2. PICK hits :
        hits = {bits \in DOMAIN patterns_ :
                  /\ bits \subseteq NonWildcards(c)
                  /\ Sparse(c, bits) \in patterns_[bits]}
  OBVIOUS
<1>3. /\ hits = {} => Match(patterns_, c) = kInvalidID
      /\ hits # {} => \E bits \in hits : Match(patterns_, c) = Min(bits)
  BY <1>1, <1>2, MatchFinds DEF MatcherInv
<1>4. ASSUME NEW p \in inserted, Covers(p, c)
      PROVE  hits # {}
  <2>1. /\ NonWildcards(p) \subseteq NonWildcards(c)
        /\ Sparse(c, NonWildcards(p)) = Sparse(p, NonWildcards(p))
    BY <1>1, <1>4, SameSparse
  <2>2. NonWildcards(p) \in hits
    BY <1>2, <2>1 DEF MatcherInv
  <2> QED
    BY <2>2
<1>5. ASSUME NEW bits \in hits
      PROVE  /\ \E p \in inserted : Covers(p, c) /\ bits = NonWildcards(p)
             /\ Min(bits) # kInvalidID
  <2>1. /\ bits \in DOMAIN patterns_ /\ bits \subseteq NonWildcards(c)
        /\ Sparse(c, bits) \in patterns_[bits]
    BY <1>2, <1>5
  <2>2. PICK p \in inserted :
          /\ bits = NonWildcards(p)
          /\ Sparse(c, bits) = Sparse(p, NonWildcards(p))
    BY <2>1 DEF MatcherInv
  <2>3. Covers(p, c)
    BY <1>1, <2>1, <2>2, SameSparse
  <2>4. bits \in SUBSET (0 .. IntBits) /\ bits # {} /\ IntBits \in Nat
    BY <1>1, <2>1, <2>2, BitsAre, WidthAssumption DEF MatcherInv
  <2>5. Min(bits) \in 0 .. IntBits
    BY <2>4, Extremes
  <2> QED
    BY <2>2, <2>3, <2>5 DEF kInvalidID
<1> QED
  BY <1>3, <1>4, <1>5

(* Match finds a match exactly if some candidate inserted covers the one   *)
(* asked about, as long as all have fewer values than an int has bits: the *)
(* bounds and the filter by bits skip no pattern.  (With as many, it does: *)
(* the last value's bit is the sign.)                                      *)
THEOREM MatchExact == Narrow => (MatcherSpec => []MatchIsExact)
<1> SUFFICES ASSUME Narrow PROVE MatcherSpec => []MatchIsExact
  OBVIOUS
<1>1. MatcherInv => MatchIsExact
  BY MatchCovers DEF MatchIsExact
<1>2. MatcherSpec => []MatcherInv
  BY MatcherInvariant
<1> QED
  BY <1>1, <1>2, PTL

(* An ID that Match returns may be advanced whatever the values below it:  *)
(* none of the candidates skipped is one that no pattern covers.           *)
THEOREM LowerValuesSkipped ==
  Narrow => (MatcherSpec => []LowerValuesIrrelevant)
<1> SUFFICES ASSUME Narrow PROVE MatcherSpec => []LowerValuesIrrelevant
  OBVIOUS
<1>1. ASSUME MatcherInv PROVE LowerValuesIrrelevant
  <2> SUFFICES ASSUME NEW c \in Candidates, NEW id, id = Match(patterns_, c),
                      id # kInvalidID, NEW d \in Candidates,
                      Len(d) = Len(c), \A i \in id + 1 .. Len(c) : c[i] = d[i]
               PROVE  \E p \in inserted : Covers(p, d)
    BY DEF LowerValuesIrrelevant
  <2>1. PICK p \in inserted : Covers(p, c) /\ id = Min(NonWildcards(p))
    BY <1>1, MatchCovers
  <2>2. Short(p) /\ Short(c) /\ Short(d) /\ NonWildcards(p) # {}
    BY <1>1, CandidatesAssumption DEF Narrow, Short, MatcherInv
  <2>3. NonWildcards(p) \in SUBSET (0 .. IntBits) /\ IntBits \in Nat
    BY <2>2, BitsAre, WidthAssumption
  <2>4. id \in 0 .. IntBits /\ \A i \in NonWildcards(p) : id <= i
    BY <2>1, <2>2, <2>3, Extremes
  <2>5. /\ Len(p) \in Nat /\ DOMAIN p = 1 .. Len(p)
        /\ Len(c) \in Nat /\ DOMAIN c = 1 .. Len(c) /\ DOMAIN d = 1 .. Len(c)
    BY <2>2 DEF Short
  <2>6. ASSUME NEW j \in DOMAIN p, p[j] # Wildcard
        PROVE  j \in DOMAIN d /\ d[j] = p[j]
    <3>1. PICK i : i = j - 1
      OBVIOUS
    <3>2. i + 1 = j /\ i \in 0 .. Len(p) - 1
      BY <2>5, <3>1
    <3>3. id <= i
      BY <2>4, <2>6, <3>2 DEF NonWildcards
    <3>4. j \in DOMAIN c /\ c[j] = p[j]
      BY <2>1, <2>6 DEF Covers
    <3>5. j \in id + 1 .. Len(c)
      BY <2>4, <2>5, <3>2, <3>3, <3>4
    <3> QED
      BY <2>5, <3>4, <3>5
  <2>7. Covers(p, d)
    BY <2>6 DEF Covers
  <2> QED
    BY <2>7
<1>2. MatcherSpec => []MatcherInv
  BY MatcherInvariant
<1> QED
  BY <1>1, <1>2, PTL

-----------------------------------------------------------------------------
(***************************************************************************)
(* ParallelSolver: the inductive invariant.                                *)
(***************************************************************************)

(* Values that belong to the first holes registered.                       *)
Known(values) ==
  \E n \in Nat : n <= Len(labels) /\ DOMAIN values = 1 .. n

(* A hole has one value, whoever registered it.                            *)
RegistrationInv ==
  /\ system \in Systems
  /\ pruning \in BOOLEAN
  /\ labels \in Seq(Hole)
  /\ \A i, j \in DOMAIN labels : labels[i] = labels[j] => i = j
  /\ \E S : g_values \in Seq(S)
  /\ Len(g_values) = Len(labels)
  /\ Known(cur)

(* A solver works on values known, and goes for one hole at a time.        *)
IsSolver(s) ==
  s = [pc |-> s.pc, values |-> s.values, end |-> s.end, stride |-> s.stride,
       from |-> s.from, count |-> s.count, hole |-> s.hole]
SolversInv ==
  /\ thread = [t \in Thread |-> thread[t]]
  /\ \A t \in Thread :
       /\ IsSolver(thread[t])
       /\ Known(thread[t].values)
       /\ thread[t].hole \in SUBSET Hole
       /\ \A h \in thread[t].hole : thread[t].hole = {h}

(* A pattern has the values of some fault, if the bits of an int suffice.  *)
Pins(p, a) ==
  \A h \in DOMAIN a : \E i \in DOMAIN labels :
    labels[i] = h /\ i - 1 \in DOMAIN p /\ p[i - 1] = a[h]
PatternsInv ==
  pruning /\ Cardinality(Hole) <= IntBits =>
    \A bits \in DOMAIN patterns : \A p \in patterns[bits] :
      \E a \in system.faults : Pins(p, a)

(* What was a solution when it was evaluated is one still.                 *)
ResultInv ==
  \A r \in result : Known(r) /\ Outcome(r) = "solution"

SolverInv == RegistrationInv /\ SolversInv /\ PatternsInv /\ ResultInv

-----------------------------------------------------------------------------
(***************************************************************************)
(* Lemmas about values and options.                                        *)
(***************************************************************************)

(* Advancing values, and setting them to the maximum, keeps which they are.*)
LEMMA KnownMoves ==
  ASSUME NEW v, Known(v)
  PROVE  /\ Known(AtMax(v))
         /\ \A from, count : Known(Advanced(v, from, count))
BY DEF Known, AtMax, Advanced

(* The values of no hole are known.                                        *)
LEMMA KnownNone == labels \in Seq(Hole) => Known(<<>>)
BY DEF Known

(* The option of a hole is what its value says,                            *)
LEMMA OptionIs ==
  ASSUME RegistrationInv, NEW v, Known(v), NEW i \in DOMAIN v, NEW h,
         labels[i] = h
  PROVE  Option(v, h) = IF pruning THEN v[i].value ELSE v[i].value + 1
<1>1. \A j \in DOMAIN v : j \in DOMAIN labels
  BY DEF Known, RegistrationInv
<1>2. {j \in DOMAIN v : labels[j] = h} = {i}
  BY <1>1 DEF RegistrationInv
<1>3. {v[k].value : k \in {j \in DOMAIN v : labels[j] = h}} = {v[i].value}
  BY <1>2
<1> QED
  BY <1>3 DEF Option

(* and the first one if it has none.                                       *)
LEMMA OptionNone ==
  ASSUME NEW v, NEW h, \A i \in DOMAIN v : labels[i] # h
  PROVE  Option(v, h) = IF pruning THEN 0 ELSE 0 + 1
<1>1. {v[k].value : k \in {j \in DOMAIN v : labels[j] = h}} = {}
  OBVIOUS
<1> QED
  BY <1>1 DEF Option

(* Holes are registered after the others.                                  *)
Grow ==
  /\ labels' \in Seq(Hole) /\ Len(labels) <= Len(labels')
  /\ \A i \in DOMAIN labels : labels'[i] = labels[i]

(* That does not change the options of a candidate.                        *)
LEMMA OptionKept ==
  ASSUME RegistrationInv, Grow, UNCHANGED pruning, NEW v, Known(v), NEW h
  PROVE  Option(v, h)' = Option(v, h)
<1>1. \A j \in DOMAIN v : labels'[j] = labels[j]
  BY DEF Known, RegistrationInv, Grow
<1>2. PICK A : A = {v[k].value : k \in {j \in DOMAIN v : labels[j] = h}}
  OBVIOUS
<1>3. A = {v[k].value : k \in {j \in DOMAIN v : labels'[j] = h}}
  BY <1>1, <1>2
<1> DEFINE First(own) == IF own = {} THEN 0 ELSE CHOOSE x \in own : TRUE
<1>4. Option(v, h) = IF pruning THEN First(A) ELSE First(A) + 1
  BY <1>2 DEF Option
<1>5. Option(v, h)' = IF pruning THEN First(A) ELSE First(A) + 1
  BY <1>3 DEF Option
<1> HIDE DEF First
<1> QED
  BY <1>4, <1>5

(* So its outcome stays what it was.                                       *)
LEMMA OutcomeKept ==
  ASSUME RegistrationInv, Grow, UNCHANGED <<system, pruning>>,
         NEW v, Known(v)
  PROVE  Outcome(v)' = Outcome(v)
<1>1. \A h : Option(v, h)' = Option(v, h)
  BY OptionKept
<1>2. \A a : Agrees(v, a)' <=> Agrees(v, a)
  BY <1>1 DEF Agrees
<1>3. /\ Faulty(v)' <=> Faulty(v)
      /\ Unsatisfied(v)' <=> Unsatisfied(v)
      /\ Reached(v)' = Reached(v)
  BY <1>2 DEF Faulty, Unsatisfied, Reached
<1>4. NoUnknownsThrows(v)' <=> NoUnknownsThrows(v)
  BY <1>1, <1>3 DEF NoUnknownsThrows
<1> QED
  BY <1>3, <1>4 DEF Outcome

(* And so do patterns and results.                                         *)
LEMMA RecordsKept ==
  ASSUME SolverInv, Grow, UNCHANGED <<system, pruning>>
  PROVE  /\ \A v : Known(v) => Known(v)'
         /\ \A p, a : Pins(p, a) => Pins(p, a)'
         /\ UNCHANGED patterns => PatternsInv'
         /\ UNCHANGED result => ResultInv'
<1>1. \A v : Known(v) => Known(v)'
  BY DEF Known, Grow, SolverInv, RegistrationInv
<1>2. \A p, a : Pins(p, a) => Pins(p, a)'
  BY DEF Pins, Grow, SolverInv, RegistrationInv
<1>3. ASSUME UNCHANGED patterns PROVE PatternsInv'
  BY <1>2, <1>3 DEF SolverInv, PatternsInv
<1>4. ASSUME UNCHANGED result PROVE ResultInv'
  <2>1. \A v : Known(v) => Outcome(v)' = Outcome(v)
    BY OutcomeKept DEF SolverInv
  <2> QED
    BY <1>1, <1>4, <2>1 DEF SolverInv, ResultInv
<1> QED
  BY <1>1, <1>2, <1>3, <1>4

(* A step after which each solver is at the same values or at known ones   *)
(* preserves the solvers' part.                                            *)
LEMMA SolversKept ==
  ASSUME SolverInv, Grow, UNCHANGED <<system, pruning, num_threads>>,
         thread' = [t \in Thread |-> thread'[t]],
         \A t \in Thread :
           /\ IsSolver(thread'[t])
           /\ thread'[t].hole \in SUBSET Hole
           /\ \A h \in thread'[t].hole : thread'[t].hole = {h}
           /\ \E v : Known(v) /\ thread'[t].values = v
  PROVE  SolversInv'
<1>1. Thread' = Thread
  BY DEF Thread
<1>2. \A v : Known(v) => Known(v)'
  BY RecordsKept
<1>3. \A t \in Thread : Known(thread[t].values)'
  <2> TAKE t \in Thread
  <2>1. PICK v : Known(v) /\ thread'[t].values = v
    OBVIOUS
  <2>2. \E n \in Nat : n <= Len(labels') /\ DOMAIN v = 1 .. n
    BY <1>2, <2>1 DEF Known
  <2> QED
    BY <2>1, <2>2 DEF Known
<1> QED
  BY <1>1, <1>3 DEF SolversInv, IsSolver

(* One solver changes.                                                     *)
LEMMA OneSolver ==
  ASSUME SolverInv, Grow, UNCHANGED <<system, pruning, num_threads>>,
         NEW t, NEW s, thread' = [thread EXCEPT ![t] = s],
         IsSolver(s), s.hole \in SUBSET Hole,
         \A h \in s.hole : s.hole = {h}, Known(s.values)
  PROVE  SolversInv'
<1>1. thread' = [u \in Thread |-> thread'[u]]
  BY DEF SolverInv, SolversInv
<1>2. \A u \in Thread : thread'[u] = thread[u] \/ thread'[u] = s
  BY DEF SolverInv, SolversInv
<1>3. \A u \in Thread :
        /\ IsSolver(thread'[u])
        /\ thread'[u].hole \in SUBSET Hole
        /\ \A h \in thread'[u].hole : thread'[u].hole = {h}
        /\ \E v : Known(v) /\ thread'[u].values = v
  BY <1>2 DEF SolverInv, SolversInv
<1> QED
  BY <1>1, <1>3, SolversKept

(* It is so if none is registered.                                         *)
LEMMA NoneGrows ==
  ASSUME SolverInv, UNCHANGED labels
  PROVE  Grow
BY DEF SolverInv, RegistrationInv, Grow

(* A solver is launched at values known,                                   *)
LEMMA Launches ==
  ASSUME NEW v, Known(v), NEW n, NEW stride
  PROVE  /\ IsSolver(Launched(v, n, stride))
         /\ Launched(v, n, stride).values = v
         /\ Launched(v, n, stride).hole = {}
BY DEF IsSolver, Launched

(* and has none before and after.                                          *)
LEMMA IdleIs ==
  /\ IsSolver(Idle) /\ Idle.values = <<>> /\ Idle.hole = {}
  /\ IsSolver(Done) /\ Done.values = <<>> /\ Done.hole = {}
  /\ IsSolver(Failed) /\ Failed.values = <<>> /\ Failed.hole = {}
  /\ Idle.pc = "idle" /\ Done.pc = "done"
<1>1. /\ IsSolver(Idle) /\ Idle.values = <<>> /\ Idle.hole = {}
      /\ Idle.pc = "idle"
  BY DEF IsSolver, Idle
<1>2. /\ IsSolver(Done) /\ Done.values = <<>> /\ Done.hole = {}
      /\ Done.pc = "done"
  <2>1. Done = [pc |-> "done", values |-> <<>>, end |-> <<>>, stride |-> 1,
                from |-> 0, count |-> 1, hole |-> {}]
    BY DEF Done, Idle
  <2> QED
    BY <2>1 DEF IsSolver
<1>3. IsSolver(Failed) /\ Failed.values = <<>> /\ Failed.hole = {}
  <2>1. PICK s : s = Failed
    OBVIOUS
  <2>2. s = [pc |-> "failed", values |-> <<>>, end |-> <<>>, stride |-> 1,
             from |-> 0, count |-> 1, hole |-> {}]
    BY <2>1 DEF Failed, Idle
  <2>3. IsSolver(s) /\ s.values = <<>> /\ s.hole = {}
    BY <2>2 DEF IsSolver
  <2> QED
    BY <2>1, <2>3
<1> QED
  BY <1>1, <1>2, <1>3

-----------------------------------------------------------------------------
(***************************************************************************)
(* The steps of the rounds.                                                *)
(***************************************************************************)

(* A function on 1 .. n is a sequence.                                     *)
LEMMA Listed ==
  ASSUME NEW n \in Nat, NEW f, f = [i \in 1 .. n |-> f[i]]
  PROVE  (\E S : f \in Seq(S)) /\ Len(f) = n
<1>1. f \in [1 .. n -> {f[i] : i \in 1 .. n}]
  OBVIOUS
<1>2. f \in Seq({f[i] : i \in 1 .. n}) /\ Len(f) = n
  BY <1>1
<1> QED
  BY <1>2

(* g_range_enumerate moves, and keeps its values.                          *)
LEMMA Moved ==
  ASSUME SolverInv
  PROVE  /\ Known(g_values)
         /\ (\E S : AtMax(g_values) \in Seq(S))
              /\ Len(AtMax(g_values)) = Len(labels)
         /\ \A from, count :
              (\E S : Advanced(g_values, from, count) \in Seq(S))
                /\ Len(Advanced(g_values, from, count)) = Len(labels)
<1>1. Len(labels) \in Nat /\ DOMAIN g_values = 1 .. Len(labels)
  BY DEF SolverInv, RegistrationInv
<1>2. AtMax(g_values) = [i \in 1 .. Len(labels) |-> AtMax(g_values)[i]]
  BY <1>1 DEF AtMax
<1>3. \A from, count : Advanced(g_values, from, count)
        = [i \in 1 .. Len(labels) |-> Advanced(g_values, from, count)[i]]
  BY <1>1 DEF Advanced
<1>4. (\E S : AtMax(g_values) \in Seq(S))
        /\ Len(AtMax(g_values)) = Len(labels)
  BY <1>1, <1>2, Listed
<1>5. \A from, count :
        (\E S : Advanced(g_values, from, count) \in Seq(S))
          /\ Len(Advanced(g_values, from, count)) = Len(labels)
  BY <1>1, <1>3, Listed
<1> QED
  BY <1>1, <1>4, <1>5 DEF Known

(* What holds after any step that registers no hole and records nothing.   *)
LEMMA Unrecorded ==
  ASSUME SolverInv, UNCHANGED <<fixed, labels, patterns, result>>,
         \E S : g_values' \in Seq(S), Len(g_values') = Len(labels),
         NEW v, Known(v), cur' = v, SolversInv'
  PROVE  SolverInv'
<1>1. UNCHANGED <<system, pruning, num_threads>>
  BY DEF fixed
<1>2. Grow
  BY NoneGrows
<1>3. PatternsInv' /\ ResultInv' /\ Known(v)'
  BY <1>1, <1>2, RecordsKept
<1>4. Known(cur)'
  BY <1>3 DEF Known
<1>5. RegistrationInv'
  BY <1>1, <1>4 DEF SolverInv, RegistrationInv
<1> QED
  BY <1>3, <1>5 DEF SolverInv

(* No solver changes.                                                      *)
LEMMA NoSolver ==
  ASSUME SolverInv, UNCHANGED <<system, pruning, num_threads, labels, thread>>
  PROVE  SolversInv'
BY DEF SolverInv, SolversInv, IsSolver, Known, Thread

(* A round starts.                                                         *)
LEMMA StartRoundInv ==
  ASSUME SolverInv, StartRound
  PROVE  SolverInv'
<1>1. /\ UNCHANGED <<fixed, labels, patterns, result>>
      /\ UNCHANGED <<system, pruning, num_threads>>
  BY DEF StartRound, fixed, progress
<1>2. PICK v : v = g_values
  OBVIOUS
<1>3. Known(v) /\ cur' = v
  BY <1>2, Moved DEF StartRound
<1>4. (\E S : g_values' \in Seq(S)) /\ Len(g_values') = Len(labels)
  BY Moved DEF StartRound
<1>5. Grow
  BY <1>1, NoneGrows
<1>6. SolversInv'
  <2>1. CASE UNCHANGED thread
    BY <1>1, <2>1, NoSolver
  <2>2. CASE thread' = [thread EXCEPT ![0] = Launched(<<>>, 1, 1)]
    <3>1. Known(<<>>)
      BY KnownNone DEF SolverInv, RegistrationInv
    <3>2. PICK s : s = Launched(<<>>, 1, 1)
      OBVIOUS
    <3>3. IsSolver(s) /\ s.values = <<>> /\ s.hole = {}
      BY <3>1, <3>2, Launches
    <3>4. Known(s.values)
      BY <3>1, <3>3
    <3> QED
      BY <1>1, <1>5, <2>2, <3>2, <3>3, <3>4, OneSolver
  <2> QED
    BY <2>1, <2>2 DEF StartRound
<1> QED
  BY <1>1, <1>3, <1>4, <1>6, Unrecorded

(* A block is handed to a thread.                                          *)
LEMMA DispatchInv ==
  ASSUME SolverInv, Dispatch
  PROVE  SolverInv'
<1>1. /\ UNCHANGED <<fixed, labels, patterns, result, g_values>>
      /\ UNCHANGED <<system, pruning, num_threads>>
  BY DEF Dispatch, fixed, global, progress
<1>2. Known(cur)
  BY DEF SolverInv, RegistrationInv
<1>3. (\E S : g_values' \in Seq(S)) /\ Len(g_values') = Len(labels)
  BY <1>1 DEF SolverInv, RegistrationInv
<1>4. Grow
  BY <1>1, NoneGrows
<1>5. CASE Stride = 0
  <2>1. UNCHANGED <<cur, thread>>
    BY <1>5 DEF Dispatch
  <2>2. PICK v : v = cur
    OBVIOUS
  <2>3. SolversInv'
    BY <1>1, <2>1, NoSolver
  <2> QED
    BY <1>1, <1>2, <1>3, <2>1, <2>2, <2>3, Unrecorded
<1>6. CASE Stride # 0
  <2>1. PICK s : s = Launched(cur, per_thread, Stride)
    OBVIOUS
  <2>2. IsSolver(s) /\ s.values = cur /\ s.hole = {}
    BY <1>2, <2>1, Launches
  <2>3. thread' = [thread EXCEPT ![next] = s] /\ cur' = AfterBlock(cur)
    BY <1>6, <2>1 DEF Dispatch
  <2>4. SolversInv'
    <3>1. Known(s.values)
      BY <1>2, <2>2
    <3> QED
      BY <1>1, <1>4, <2>2, <2>3, <3>1, OneSolver
  <2>5. PICK v : v = AfterBlock(cur)
    OBVIOUS
  <2>6. Known(v)
    BY <1>2, <2>5, KnownMoves DEF AfterBlock
  <2> QED
    BY <1>1, <1>3, <2>3, <2>4, <2>5, <2>6, Unrecorded
<1> QED
  BY <1>5, <1>6

(* A round ends.                                                           *)
LEMMA RoundEndsInv ==
  ASSUME SolverInv, FirstEnds \/ Join \/ EndRound
  PROVE  SolverInv'
<1>1. /\ UNCHANGED <<fixed, labels, patterns, result, cur>>
      /\ UNCHANGED <<system, pruning, num_threads>>
  BY DEF FirstEnds, Join, EndRound, fixed, global, progress
<1>2. PICK v : v = cur
  OBVIOUS
<1>3. Known(v) /\ cur' = v
  BY <1>1, <1>2 DEF SolverInv, RegistrationInv
<1>4. (\E S : g_values' \in Seq(S)) /\ Len(g_values') = Len(labels)
  <2>1. UNCHANGED g_values \/ g_values' = Advanced(g_values, 0, 1)
    BY DEF FirstEnds, Join, EndRound, global
  <2> QED
    BY <2>1, Moved DEF SolverInv, RegistrationInv
<1>5. Grow
  BY <1>1, NoneGrows
<1>6. Known(<<>>)
  BY KnownNone DEF SolverInv, RegistrationInv
<1>7. SolversInv'
  <2>1. CASE EndRound
    BY <1>1, <2>1, NoSolver DEF EndRound
  <2>2. CASE FirstEnds
    <3>1. thread' = [thread EXCEPT ![0] = Idle] /\ Known(Idle.values)
      BY <1>6, <2>2, IdleIs DEF FirstEnds
    <3> QED
      BY <1>1, <1>5, <3>1, IdleIs, OneSolver
  <2>3. CASE Join
    <3>1. thread' = [t \in Thread |-> Idle]
      BY <2>3 DEF Join
    <3>2. \A t \in Thread :
            /\ IsSolver(thread'[t])
            /\ thread'[t].hole \in SUBSET Hole
            /\ \A h \in thread'[t].hole : thread'[t].hole = {h}
            /\ \E w : Known(w) /\ thread'[t].values = w
      BY <1>6, <3>1, IdleIs
    <3> QED
      BY <1>1, <1>5, <3>1, <3>2, SolversKept
  <2> QED
    BY <2>1, <2>2, <2>3
<1> QED
  BY <1>1, <1>3, <1>4, <1>7, Unrecorded

-----------------------------------------------------------------------------
(***************************************************************************)
(* The steps of a solver.                                                  *)
(***************************************************************************)

(* A thread goes for a hole that is not registered.                        *)
LEMMA ReachHoleInv ==
  ASSUME SolverInv, NEW t \in Thread, ReachHole(t)
  PROVE  SolverInv'
<1>1. /\ UNCHANGED <<fixed, labels, patterns, result, cur, g_values>>
      /\ UNCHANGED <<system, pruning, num_threads>>
  BY DEF ReachHole, fixed, global, main, progress
<1>2. PICK v : v = cur
  OBVIOUS
<1>3. Known(v) /\ cur' = v
  BY <1>1, <1>2 DEF SolverInv, RegistrationInv
<1>4. (\E S : g_values' \in Seq(S)) /\ Len(g_values') = Len(labels)
  BY <1>1 DEF SolverInv, RegistrationInv
<1>5. PICK h \in Hole : thread' = [thread EXCEPT ![t].hole = {h}]
  BY DEF ReachHole, Reached
<1>6. PICK s : s = [thread[t] EXCEPT !.hole = {h}]
  OBVIOUS
<1>7. IsSolver(s) /\ s.values = thread[t].values /\ s.hole = {h}
  <2>1. PICK r : r = thread[t] /\ IsSolver(r)
    BY DEF SolverInv, SolversInv
  <2>2. s = [pc |-> r.pc, values |-> r.values, end |-> r.end,
             stride |-> r.stride, from |-> r.from, count |-> r.count,
             hole |-> {h}]
    BY <1>6, <2>1 DEF IsSolver
  <2> QED
    BY <2>1, <2>2 DEF IsSolver
<1>8. thread' = [thread EXCEPT ![t] = s] /\ Known(s.values)
  BY <1>5, <1>6, <1>7 DEF SolverInv, SolversInv
<1>9. SolversInv'
  BY <1>1, <1>7, <1>8, NoneGrows, OneSolver
<1> QED
  BY <1>1, <1>3, <1>4, <1>9, Unrecorded

(* A thread goes on to other values of the same holes.                     *)
LEMMA AdvanceInv ==
  ASSUME SolverInv, NEW t \in Thread, Advance(t)
  PROVE  SolverInv'
<1>1. /\ UNCHANGED <<fixed, labels, patterns, result, cur, g_values>>
      /\ UNCHANGED <<system, pruning, num_threads>>
  BY DEF Advance, fixed, global, main, progress
<1>2. PICK v : v = cur
  OBVIOUS
<1>3. Known(v) /\ cur' = v
  BY <1>1, <1>2 DEF SolverInv, RegistrationInv
<1>4. (\E S : g_values' \in Seq(S)) /\ Len(g_values') = Len(labels)
  BY <1>1 DEF SolverInv, RegistrationInv
<1>5. PICK values : values = Advanced(thread[t].values, thread[t].from,
                                      thread[t].count)
  OBVIOUS
<1>6. Known(values) /\ Known(<<>>)
  BY <1>5, KnownMoves, KnownNone DEF SolverInv, RegistrationInv, SolversInv
<1>7. PICK s :
        /\ thread' = [thread EXCEPT ![t] = s]
        /\ \/ s = Done
           \/ \E id : s = [thread[t] EXCEPT !.values = values, !.from = id,
                                            !.count = 1]
           \/ s = [thread[t] EXCEPT !.pc = "evaluate", !.values = values,
                                    !.from = 0, !.count = thread[t].stride]
  BY <1>5, Zenon DEF Advance
<1>8. /\ IsSolver(s) /\ Known(s.values)
      /\ s.hole = {} \/ s.hole = thread[t].hole
  BY <1>6, <1>7, IdleIs DEF SolverInv, SolversInv, IsSolver
<1>9. SolversInv'
  BY <1>1, <1>7, <1>8, NoneGrows, OneSolver DEF SolverInv, SolversInv
<1> QED
  BY <1>1, <1>3, <1>4, <1>9, Unrecorded

(* A thread that has what it went for goes on at the same values.          *)
LEMMA HoleLeft ==
  ASSUME SolverInv, NEW t \in Thread
  PROVE  \E s : /\ s = [thread[t] EXCEPT !.hole = {}]
                /\ IsSolver(s) /\ s.hole = {} /\ Known(s.values)
                /\ s.pc = thread[t].pc
                /\ [thread EXCEPT ![t].hole = {}] = [thread EXCEPT ![t] = s]
<1>1. PICK s : s = [thread[t] EXCEPT !.hole = {}]
  OBVIOUS
<1>2. IsSolver(s) /\ s.values = thread[t].values /\ s.hole = {}
      /\ s.pc = thread[t].pc
  <2>1. PICK r : r = thread[t] /\ IsSolver(r)
    BY DEF SolverInv, SolversInv
  <2>2. s = [pc |-> r.pc, values |-> r.values, end |-> r.end,
             stride |-> r.stride, from |-> r.from, count |-> r.count,
             hole |-> {}]
    BY <1>1, <2>1 DEF IsSolver
  <2> QED
    BY <2>1, <2>2 DEF IsSolver
<1>3. Known(s.values)
  BY <1>2 DEF SolverInv, SolversInv
<1>4. [thread EXCEPT ![t].hole = {}] = [thread EXCEPT ![t] = s]
  BY <1>1
<1> QED
  BY <1>1, <1>2, <1>3, <1>4

(* It registers the hole, unless another thread has or Extend throws.      *)
LEMMA RegisterIs ==
  ASSUME SolverInv, NEW t \in Thread, Register(t)
  PROVE  \E h \in Hole :
           /\ thread[t].hole = {h}
           /\ \/ /\ h \in Registered
                 /\ thread' = [thread EXCEPT ![t].hole = {}]
                 /\ UNCHANGED global
              \/ h \notin Registered /\ Extend(t, h)
<1>1. PICK h \in Hole : thread[t].hole = {h}
  BY DEF Register, SolverInv, SolversInv
<1>2. Only({h}) = h
  BY DEF Only
<1> QED
  BY <1>1, <1>2 DEF Register

(* Registering keeps the invariant.                                        *)
LEMMA RegisterInv ==
  ASSUME SolverInv, NEW t \in Thread, Register(t)
  PROVE  SolverInv'
<1>1. /\ UNCHANGED <<fixed, patterns, result, cur>>
      /\ UNCHANGED <<system, pruning, num_threads>>
  BY DEF Register, fixed, main, progress
<1>2. PICK h \in Hole :
        /\ thread[t].hole = {h}
        /\ \/ /\ h \in Registered
              /\ thread' = [thread EXCEPT ![t].hole = {}]
              /\ UNCHANGED global
           \/ h \notin Registered /\ Extend(t, h)
  BY RegisterIs
<1>3. PICK s :
        /\ IsSolver(s) /\ s.hole = {} /\ Known(s.values)
        /\ thread' = [thread EXCEPT ![t] = s]
  <2>1. CASE thread' = [thread EXCEPT ![t].hole = {}]
    BY <2>1, HoleLeft
  <2>2. CASE thread' = [thread EXCEPT ![t] = Failed]
    <3>1. Known(<<>>)
      BY KnownNone DEF SolverInv, RegistrationInv
    <3>2. PICK s : s = Failed
      OBVIOUS
    <3>3. IsSolver(s) /\ s.values = <<>> /\ s.hole = {}
      BY <3>2, IdleIs
    <3>4. Known(s.values)
      BY <3>1, <3>3
    <3> QED
      BY <2>2, <3>2, <3>3, <3>4
  <2> QED
    BY <1>2, <2>1, <2>2 DEF Extend
<1>4. CASE UNCHANGED <<g_values, labels>>
  <2>1. SolversInv'
    BY <1>1, <1>3, <1>4, NoneGrows, OneSolver
  <2>2. PICK v : v = cur
    OBVIOUS
  <2>3. Known(v) /\ cur' = v
    BY <1>1, <2>2 DEF SolverInv, RegistrationInv
  <2>4. (\E S : g_values' \in Seq(S)) /\ Len(g_values') = Len(labels)
    BY <1>4 DEF SolverInv, RegistrationInv
  <2> QED
    BY <1>1, <1>4, <2>1, <2>3, <2>4, Unrecorded
<1>5. ASSUME NEW x, g_values' = Append(g_values, x),
             labels' = Append(labels, h), h \notin Registered
      PROVE  SolverInv'
  <2>1. Grow
    BY <1>5 DEF SolverInv, RegistrationInv, Grow
  <2>2. /\ labels' \in Seq(Hole)
        /\ \A i, j \in DOMAIN labels' : labels'[i] = labels'[j] => i = j
    <3>1. \A i \in DOMAIN labels : labels[i] # h
      BY <1>5 DEF Registered
    <3> QED
      BY <1>5, <3>1 DEF SolverInv, RegistrationInv
  <2>3. (\E S : g_values' \in Seq(S)) /\ Len(g_values') = Len(labels')
    <3>1. PICK S : g_values \in Seq(S)
      BY DEF SolverInv, RegistrationInv
    <3>2. g_values \in Seq(S \cup {x})
      BY <3>1
    <3>3. /\ g_values' \in Seq(S \cup {x})
          /\ Len(g_values') = Len(g_values) + 1
      BY <1>5, <3>2
    <3>4. Len(labels') = Len(labels) + 1
      BY <1>5 DEF SolverInv, RegistrationInv
    <3> QED
      BY <3>3, <3>4 DEF SolverInv, RegistrationInv
  <2>4. SolversInv'
    BY <1>1, <1>3, <2>1, OneSolver
  <2>5. PatternsInv' /\ ResultInv'
    BY <1>1, <2>1, RecordsKept
  <2>6. Known(cur)'
    BY <1>1, <2>1 DEF SolverInv, RegistrationInv, Known, Grow
  <2>7. RegistrationInv'
    BY <1>1, <2>2, <2>3, <2>6 DEF SolverInv, RegistrationInv
  <2> QED
    BY <2>4, <2>5, <2>7 DEF SolverInv
<1>6. \/ UNCHANGED <<g_values, labels>>
      \/ \E x : /\ g_values' = Append(g_values, x)
               /\ labels' = Append(labels, h) /\ h \notin Registered
  BY <1>2 DEF Extend, global
<1> QED
  BY <1>4, <1>5, <1>6

-----------------------------------------------------------------------------
(***************************************************************************)
(* What a pattern pins.                                                    *)
(***************************************************************************)

(* The bit patterns are wide enough for every hole, so that each position  *)
(* with a value has a bit of its own.                                      *)
LEMMA PositionsFit ==
  ASSUME RegistrationInv, Cardinality(Hole) <= IntBits
  PROVE  Len(labels) <= IntBits
<1>1. Len(labels) \in Nat /\ DOMAIN labels = 1 .. Len(labels)
  BY DEF RegistrationInv
<1>2. /\ IsFiniteSet(1 .. Len(labels))
      /\ Cardinality(1 .. Len(labels)) = Len(labels)
  <2>1. /\ IsFiniteSet(1 .. Len(labels))
        /\ Cardinality(1 .. Len(labels))
             = IF 1 > Len(labels) THEN 0 ELSE Len(labels) - 1 + 1
    BY <1>1, FS_Interval
  <2> QED
    BY <1>1, <2>1
<1>3. labels \in Injection(1 .. Len(labels), Hole)
  BY <1>1 DEF RegistrationInv, Injection, IsInjective
<1>4. Cardinality(1 .. Len(labels)) <= Cardinality(Hole)
  BY <1>2, <1>3, SolverAssumption, FS_Injection
<1>5. IsFiniteSet(Hole) /\ Cardinality(Hole) \in Nat
  BY SolverAssumption, FS_CardinalityType
<1> QED
  BY <1>1, <1>2, <1>4, <1>5, WidthAssumption

(* The digits of values known.                                             *)
LEMMA DigitsAre ==
  ASSUME NEW v, NEW n \in Nat, DOMAIN v = 1 .. n
  PROVE  /\ Len(Digits(v)) = n
         /\ \A i \in 0 .. n - 1 : Digits(v)[i + 1] = v[i + 1].value
<1>1. Digits(v) = [i \in 1 .. n |-> Digits(v)[i]]
  BY DEF Digits
<1> QED
  BY <1>1, Listed DEF Digits

(* A position with a value has its bit set.                                *)
LEMMA BitSet ==
  ASSUME NEW c, NEW n \in Nat, Len(c) = n, n <= IntBits,
         NEW i \in 0 .. n - 1, c[i + 1] # Wildcard
  PROVE  i \in AsBitPattern(c)
<1>1. i \in NonWildcards(c)
  BY DEF NonWildcards
<1>2. i % IntBits = i
  BY WidthAssumption
<1>3. i \in ShiftedOne(i)
  BY <1>2, WidthAssumption DEF ShiftedOne
<1> QED
  BY <1>1, <1>3 DEF AsBitPattern

(* A faulty candidate becomes a pattern with the values of its fault.      *)
LEMMA FaultPinned ==
  ASSUME SolverInv, pruning, Cardinality(Hole) <= IntBits,
         NEW v, Known(v), Faulty(v)
  PROVE  \E a \in system.faults :
           Pins(Sparse(Digits(v), AsBitPattern(Digits(v))), a)
<1>1. PICK n \in Nat : n <= Len(labels) /\ DOMAIN v = 1 .. n
  BY DEF Known
<1>2. n <= IntBits
  BY <1>1, PositionsFit, WidthAssumption DEF SolverInv, RegistrationInv
<1>3. PICK c : c = Digits(v)
  OBVIOUS
<1>4. Len(c) = n /\ \A i \in 0 .. n - 1 : c[i + 1] = v[i + 1].value
  BY <1>1, <1>3, DigitsAre
<1>5. PICK a \in system.faults : Agrees(v, a)
  BY DEF Faulty
<1>6. \A h \in DOMAIN a : h \in Hole /\ a[h] \in Nat /\ a[h] # 0
  BY <1>5, SolverAssumption DEF SolverInv, RegistrationInv, Possible
<1>7. PICK p : p = Sparse(c, AsBitPattern(c))
  OBVIOUS
<1>8. ASSUME NEW h \in DOMAIN a
      PROVE  \E i \in DOMAIN labels :
               labels[i] = h /\ i - 1 \in DOMAIN p /\ p[i - 1] = a[h]
  <2>1. Option(v, h) = a[h] /\ a[h] # 0
    BY <1>5, <1>6, <1>8 DEF Agrees
  <2>2. PICK i \in DOMAIN v : labels[i] = h
    BY <2>1, OptionNone
  <2>3. v[i].value = a[h]
    BY <2>1, <2>2, OptionIs DEF SolverInv
  <2>4. PICK k : k = i - 1
    OBVIOUS
  <2>5. k \in 0 .. n - 1 /\ k + 1 = i
    BY <1>1, <2>4
  <2>6. c[k + 1] = a[h] /\ c[k + 1] # Wildcard
    BY <1>4, <2>1, <2>3, <2>5, SolverAssumption
  <2>7. k \in AsBitPattern(c)
    BY <1>2, <1>4, <2>5, <2>6, BitSet
  <2>8. k \in DOMAIN p /\ p[k] = a[h]
    BY <1>4, <1>7, <2>5, <2>6, <2>7 DEF Sparse
  <2>9. i \in DOMAIN labels
    BY <1>1, <2>2 DEF SolverInv, RegistrationInv
  <2> QED
    BY <2>2, <2>4, <2>8, <2>9
<1> QED
  BY <1>3, <1>5, <1>7, <1>8 DEF Pins

(* A candidate is evaluated, and recorded as a pattern or a solution.      *)
LEMMA EvaluateInv ==
  ASSUME SolverInv, NEW t \in Thread, Evaluate(t)
  PROVE  SolverInv'
<1>1. /\ UNCHANGED <<fixed, global, cur>>
      /\ UNCHANGED <<system, pruning, num_threads>>
      /\ UNCHANGED <<g_values, labels>>
  BY DEF Evaluate, fixed, global, main
<1>2. Grow
  BY <1>1, NoneGrows
<1>3. PICK v : v = thread[t].values
  OBVIOUS
<1>4. Known(v)
  BY <1>3 DEF SolverInv, SolversInv
<1>5. /\ \A w : Known(w) => Known(w)'
      /\ \A p, a : Pins(p, a) => Pins(p, a)'
      /\ UNCHANGED patterns => PatternsInv'
      /\ UNCHANGED result => ResultInv'
  BY <1>1, <1>2, RecordsKept
<1>6. RegistrationInv'
  <2>1. Known(cur)'
    BY <1>1 DEF SolverInv, RegistrationInv, Known
  <2> QED
    BY <1>1, <2>1 DEF SolverInv, RegistrationInv
<1>7. SolversInv'
  <2>1. CASE thread' = [thread EXCEPT ![t] = Failed]
    <3>1. Known(<<>>)
      BY KnownNone DEF SolverInv, RegistrationInv
    <3>2. PICK s : s = Failed
      OBVIOUS
    <3>3. IsSolver(s) /\ s.values = <<>> /\ s.hole = {}
      BY <3>2, IdleIs
    <3>4. Known(s.values)
      BY <3>1, <3>3
    <3> QED
      BY <1>1, <1>2, <2>1, <3>2, <3>3, <3>4, OneSolver
  <2>2. CASE thread' = [thread EXCEPT ![t].pc = "advance"]
    <3>1. PICK r : r = thread[t] /\ IsSolver(r)
      BY DEF SolverInv, SolversInv
    <3>2. PICK s : s = [r EXCEPT !.pc = "advance"]
      OBVIOUS
    <3>3. s = [pc |-> "advance", values |-> r.values, end |-> r.end,
               stride |-> r.stride, from |-> r.from, count |-> r.count,
               hole |-> r.hole]
      BY <3>1, <3>2 DEF IsSolver
    <3>4. IsSolver(s) /\ s.values = v /\ s.hole = r.hole
      BY <1>3, <3>1, <3>3 DEF IsSolver
    <3>5. thread' = [thread EXCEPT ![t] = s]
      BY <2>2, <3>1, <3>2
    <3>6. s.hole \in SUBSET Hole /\ \A h \in s.hole : s.hole = {h}
      BY <3>1, <3>4 DEF SolverInv, SolversInv
    <3>7. Known(s.values)
      BY <1>4, <3>4
    <3> QED
      BY <1>1, <1>2, <3>4, <3>5, <3>6, <3>7, OneSolver
  <2> QED
    BY <2>1, <2>2 DEF Evaluate
<1>8. PatternsInv'
  <2>1. CASE UNCHANGED patterns
    BY <1>5, <2>1
  <2>2. CASE pruning /\ Outcome(v) = "error"
             /\ patterns' = Inserted(patterns, Digits(v))
    <3> SUFFICES ASSUME pruning', Cardinality(Hole) <= IntBits
                 PROVE  \A bits \in DOMAIN patterns' :
                          \A p \in patterns'[bits] :
                            \E a \in system.faults' : Pins(p, a)'
      BY DEF PatternsInv
    <3>1. Faulty(v)
      BY <2>2 DEF Outcome
    <3>2. PICK a \in system.faults :
            Pins(Sparse(Digits(v), AsBitPattern(Digits(v))), a)
      BY <1>4, <2>2, <3>1, FaultPinned
    <3>3. PICK new : new = Sparse(Digits(v), AsBitPattern(Digits(v)))
      OBVIOUS
    <3>4. \A bits \in DOMAIN patterns' : \A p \in patterns'[bits] :
            \/ p = new
            \/ bits \in DOMAIN patterns /\ p \in patterns[bits]
      BY <2>2, <3>3 DEF Inserted
    <3>5. \A bits \in DOMAIN patterns' : \A p \in patterns'[bits] :
            \E b \in system.faults : Pins(p, b)
      BY <2>2, <3>2, <3>3, <3>4 DEF SolverInv, PatternsInv
    <3> QED
      BY <1>1, <1>5, <3>5
  <2> QED
    BY <1>3, <2>1, <2>2 DEF Evaluate, InsertCalled, progress
<1>9. ResultInv'
  <2>1. CASE UNCHANGED result
    BY <1>5, <2>1
  <2>2. CASE result' = result \cup {v} /\ Outcome(v) = "solution"
    <3>1. \A r \in result' : Known(r) /\ Outcome(r) = "solution"
      BY <1>4, <2>2 DEF SolverInv, ResultInv
    <3>2. \A r : Known(r) => Outcome(r)' = Outcome(r)
      BY <1>1, <1>2, OutcomeKept DEF SolverInv
    <3> QED
      BY <1>5, <3>1, <3>2 DEF ResultInv
  <2> QED
    BY <1>3, <2>1, <2>2 DEF Evaluate, progress
<1> QED
  BY <1>6, <1>7, <1>8, <1>9 DEF SolverInv

-----------------------------------------------------------------------------
(***************************************************************************)
(* The invariant holds.                                                    *)
(***************************************************************************)

(* Nothing is registered or recorded at first.                             *)
LEMMA InitInv == Init => SolverInv
<1> SUFFICES ASSUME Init PROVE SolverInv
  OBVIOUS
<1>1. labels = <<>> /\ g_values = <<>> /\ cur = <<>>
  BY DEF Init
<1>2. Known(<<>>) /\ Known(cur)
  BY <1>1, KnownNone
<1>3. RegistrationInv
  BY <1>1, <1>2, SolverAssumption DEF Init, RegistrationInv
<1>4. SolversInv
  <2>1. thread = [t \in Thread |-> Idle]
    BY DEF Init
  <2> QED
    BY <1>2, <2>1, IdleIs DEF SolversInv
<1>5. PatternsInv /\ ResultInv
  BY DEF Init, PatternsInv, ResultInv, NoPatterns
<1> QED
  BY <1>3, <1>4, <1>5 DEF SolverInv

(* Each step preserves it.                                                 *)
LEMMA NextInv ==
  ASSUME SolverInv, [Next]_vars
  PROVE  SolverInv'
<1>1. CASE StartRound
  BY <1>1, StartRoundInv
<1>2. CASE Dispatch
  BY <1>2, DispatchInv
<1>3. CASE FirstEnds \/ Join \/ EndRound
  BY <1>3, RoundEndsInv
<1>4. ASSUME NEW t \in Thread, Solve(t)
      PROVE  SolverInv'
  <2>1. CASE ReachHole(t)
    BY <2>1, ReachHoleInv
  <2>2. CASE Register(t)
    BY <2>2, RegisterInv
  <2>3. CASE Evaluate(t)
    BY <2>3, EvaluateInv
  <2>4. CASE Advance(t)
    BY <2>4, AdvanceInv
  <2> QED
    BY <1>4, <2>1, <2>2, <2>3, <2>4 DEF Solve
<1>5. CASE UNCHANGED vars
  <2>1. /\ UNCHANGED <<system, pruning, num_threads, thread, labels>>
        /\ UNCHANGED <<fixed, labels, patterns, result, g_values, cur>>
    BY <1>5 DEF vars, fixed, global, main, progress
  <2>2. PICK v : v = cur
    OBVIOUS
  <2>3. Known(v) /\ cur' = v
    BY <2>1, <2>2 DEF SolverInv, RegistrationInv
  <2>4. SolversInv'
    BY <2>1, NoSolver
  <2>5. (\E S : g_values' \in Seq(S)) /\ Len(g_values') = Len(labels)
    BY <2>1 DEF SolverInv, RegistrationInv
  <2> QED
    BY <2>1, <2>3, <2>4, <2>5, Unrecorded
<1> QED
  BY <1>1, <1>2, <1>3, <1>4, <1>5 DEF Next, Main

(* So it always holds.                                                     *)
LEMMA SolverInvariant == Spec => []SolverInv
<1>1. Init => SolverInv
  BY InitInv
<1>2. SolverInv /\ [Next]_vars => SolverInv'
  BY NextInv
<1> QED
  BY <1>1, <1>2, PTL DEF Spec

-----------------------------------------------------------------------------
(***************************************************************************)
(* Pruning is sound: a pattern that matches a candidate has the values of  *)
(* a fault, and so has the candidate.                                      *)
(***************************************************************************)

(* A match has its values in the pattern's positions.                      *)
LEMMA MatchIs ==
  ASSUME NEW c, Match(patterns, c) # kInvalidID
  PROVE  \E bits \in DOMAIN patterns : Sparse(c, bits) \in patterns[bits]
<1> DEFINE hits == IF NonWildcards(c) = {} THEN {}
                   ELSE {bits \in Comparable(patterns, c) :
                           Sparse(c, bits) \in patterns[bits]}
<1>1. hits # {}
  BY DEF Match
<1> QED
  BY <1>1 DEF Comparable

(* What has the values of an assignment agrees with it.                    *)
LEMMA PinsAgrees ==
  ASSUME SolverInv, pruning, NEW v, Known(v), NEW bits, NEW a,
         Pins(Sparse(Digits(v), bits), a)
  PROVE  Agrees(v, a)
<1>1. PICK n \in Nat : n <= Len(labels) /\ DOMAIN v = 1 .. n
  BY DEF Known
<1>2. PICK c : c = Digits(v)
  OBVIOUS
<1>3. Len(c) = n /\ \A i \in 0 .. n - 1 : c[i + 1] = v[i + 1].value
  BY <1>1, <1>2, DigitsAre
<1>4. ASSUME NEW h \in DOMAIN a
      PROVE  Option(v, h) = a[h]
  <2>1. PICK i \in DOMAIN labels :
          /\ labels[i] = h
          /\ i - 1 \in DOMAIN Sparse(c, bits)
          /\ Sparse(c, bits)[i - 1] = a[h]
    BY <1>2 DEF Pins
  <2>2. PICK k : k = i - 1
    OBVIOUS
  <2>3. k + 1 = i
    BY <2>2 DEF SolverInv, RegistrationInv
  <2>4. k \in 0 .. n - 1 /\ c[k + 1] = a[h]
    BY <1>3, <2>1, <2>2 DEF Sparse
  <2>5. i \in DOMAIN v /\ v[i].value = a[h]
    BY <1>1, <1>3, <2>3, <2>4
  <2> QED
    BY <2>1, <2>5, OptionIs DEF SolverInv
<1> QED
  BY <1>4 DEF Agrees

(* By the invariant, that is a candidate that has the values of a fault.   *)
LEMMA PatternsSound ==
  SolverInv /\ Cardinality(Hole) <= IntBits => PatternsCoverFaulty
<1> SUFFICES ASSUME SolverInv, Cardinality(Hole) <= IntBits, pruning,
                    NEW v \in Assignments(g_values),
                    Match(patterns, Digits(v)) # kInvalidID
             PROVE  Faulty(v)
  BY DEF PatternsCoverFaulty
<1>1. DOMAIN v = DOMAIN g_values
  BY DEF Assignments
<1>2. Known(v)
  BY <1>1 DEF SolverInv, RegistrationInv, Known
<1>3. PICK bits \in DOMAIN patterns :
        Sparse(Digits(v), bits) \in patterns[bits]
  BY MatchIs
<1>4. PICK a \in system.faults : Pins(Sparse(Digits(v), bits), a)
  BY <1>3 DEF SolverInv, PatternsInv
<1> QED
  BY <1>2, <1>4, PinsAgrees DEF Faulty

(* Pruning is sound: while no more holes are known than an int has bits, a *)
(* pattern of RangeEnumerateMatcher covers only faulty candidates, in      *)
(* whatever order threads insert patterns and register holes.              *)
THEOREM PruningSound ==
  Cardinality(Hole) <= IntBits => (Spec => []PatternsCoverFaulty)
<1> SUFFICES ASSUME Cardinality(Hole) <= IntBits
             PROVE  Spec => []PatternsCoverFaulty
  OBVIOUS
<1>1. SolverInv => PatternsCoverFaulty
  BY PatternsSound
<1> QED
  BY <1>1, SolverInvariant, PTL

-----------------------------------------------------------------------------
(***************************************************************************)
(* A solution leaves no hole open that matters: if one were reached with   *)
(* its option open, the evaluation had met an unknown.                     *)
(***************************************************************************)

(* Of the holes of an assignment that a candidate leaves open, one is      *)
(* reached if the candidate agrees on all others.                          *)
LEMMA OpenIsReached ==
  ASSUME SolverInv, NEW r, NEW b, Possible(system, b),
         NEW U, U = {h \in DOMAIN b : Option(r, h) = 0}, U # {},
         \A h \in DOMAIN b : Option(r, h) # 0 => Option(r, h) = b[h]
  PROVE  \E h \in U : h \in Reached(r)
<1>1. U \in (SUBSET DOMAIN b) \ {{}}
  OBVIOUS
<1>2. PICK h \in U : \E n \in system.needs[h] :
        /\ DOMAIN n \subseteq DOMAIN b \ U
        /\ \A k \in DOMAIN n : b[k] = n[k]
  BY <1>1 DEF Possible
<1>3. PICK n \in system.needs[h] :
        /\ DOMAIN n \subseteq DOMAIN b \ U
        /\ \A k \in DOMAIN n : b[k] = n[k]
  BY <1>2
<1>4. Agrees(r, n)
  BY <1>3 DEF Agrees
<1>5. h \in Hole
  BY DEF Possible
<1> QED
  BY <1>3, <1>4, <1>5 DEF Reached

(* Such a hole would have thrown Unknown.                                  *)
LEMMA SolutionsSound == SolverInv => SolutionsAreCorrect
<1> SUFFICES ASSUME SolverInv, NEW r \in result,
                    NEW b \in system.faults \cup system.unsat,
                    \A h \in DOMAIN b : Option(r, h) \in {0, b[h]}
             PROVE  FALSE
  BY DEF SolutionsAreCorrect
<1>1. Outcome(r) = "solution"
  BY DEF SolverInv, ResultInv
<1>2. ~Faulty(r) /\ ~Unsatisfied(r) /\ ~NoUnknownsThrows(r)
  BY <1>1 DEF Outcome
<1>3. Possible(system, b)
  BY SolverAssumption DEF SolverInv, RegistrationInv
<1>4. \A h \in DOMAIN b : Option(r, h) # 0 => Option(r, h) = b[h]
  OBVIOUS
<1>5. PICK U : U = {h \in DOMAIN b : Option(r, h) = 0}
  OBVIOUS
<1>6. CASE U = {}
  <2>1. Agrees(r, b)
    BY <1>4, <1>5, <1>6 DEF Agrees
  <2> QED
    BY <1>2, <2>1 DEF Faulty, Unsatisfied
<1>7. CASE U # {}
  <2>1. PICK h \in U : h \in Reached(r)
    BY <1>3, <1>4, <1>5, <1>7, OpenIsReached
  <2> QED
    BY <1>2, <1>5, <2>1 DEF NoUnknownsThrows
<1> QED
  BY <1>6, <1>7

(* What ParallelSolver returns is correct, however the options that a      *)
(* solution leaves open are chosen, and although holes are registered      *)
(* after it was found.                                                     *)
THEOREM SolutionsCorrect == Spec => []SolutionsAreCorrect
<1>1. SolverInv => SolutionsAreCorrect
  BY SolutionsSound
<1> QED
  BY <1>1, SolverInvariant, PTL

-----------------------------------------------------------------------------
(***************************************************************************)
(* When Insert throws.                                                     *)
(***************************************************************************)

(* A faulty candidate without a value, with pruning, is faulty without any *)
(* hole.                                                                   *)
LEMMA FaultyAnyway ==
  ASSUME SolverInv, pruning, NEW v, Known(v), Faulty(v),
         NonWildcards(Digits(v)) = {}
  PROVE  <<>> \in system.faults
<1>1. PICK n \in Nat : n <= Len(labels) /\ DOMAIN v = 1 .. n
  BY DEF Known
<1>2. PICK c : c = Digits(v)
  OBVIOUS
<1>3. Len(c) = n /\ \A i \in 0 .. n - 1 : c[i + 1] = v[i + 1].value
  BY <1>1, <1>2, DigitsAre
<1>4. \A i \in 0 .. n - 1 : c[i + 1] = 0
  BY <1>2, <1>3, SolverAssumption DEF NonWildcards
<1>5. PICK a \in system.faults : Agrees(v, a)
  BY DEF Faulty
<1>6. /\ a = [h \in DOMAIN a |-> a[h]]
      /\ \A h \in DOMAIN a : a[h] # 0
  BY <1>5, SolverAssumption DEF SolverInv, RegistrationInv, Possible
<1>7. ASSUME NEW h \in DOMAIN a
      PROVE  FALSE
  <2>1. Option(v, h) = a[h] /\ a[h] # 0
    BY <1>5, <1>6, <1>7 DEF Agrees
  <2>2. PICK i \in DOMAIN v : labels[i] = h
    BY <2>1, OptionNone
  <2>3. v[i].value = a[h]
    BY <2>1, <2>2, OptionIs DEF SolverInv
  <2>4. PICK k : k = i - 1
    OBVIOUS
  <2>5. k \in 0 .. n - 1 /\ k + 1 = i
    BY <1>1, <2>4
  <2> QED
    BY <1>3, <1>4, <2>1, <2>3, <2>5
<1>8. DOMAIN a = {} /\ a = [h \in DOMAIN a |-> a[h]]
  BY <1>6, <1>7
<1>9. a \in [{} -> Nat]
  BY <1>8
<1>10. <<>> \in [{} -> Nat]
  OBVIOUS
<1>11. a = <<>>
  BY <1>9, <1>10
<1> QED
  BY <1>5, <1>11

-----------------------------------------------------------------------------
(***************************************************************************)
(* Products: the weights of values are one function, they depend on the    *)
(* ranges only, and a value appended multiplies their product.             *)
(***************************************************************************)

(* w is the weights of the first n values.                                 *)
IsWeight(w, v, n) ==
  w = [i \in 0 .. n |-> IF i = 0 THEN 1 ELSE w[i - 1] * v[i].range]

(* The recursion has a solution for every n: no n is the first without.    *)
LEMMA WeightExists ==
  ASSUME NEW v, NEW n \in Nat
  PROVE  \E w : IsWeight(w, v, n)
<1> DEFINE Bad == {m \in Nat : ~ \E w : IsWeight(w, v, m)}
<1>1. SUFFICES ASSUME Bad # {} PROVE FALSE
  OBVIOUS
<1>2. PICK m \in Bad : \A k \in Bad : m <= k
  BY <1>1, LeastNatural
<1>3. IsWeight([i \in 0 .. 0 |-> 1], v, 0)
  BY DEF IsWeight
<1>4. m # 0
  BY <1>2, <1>3
<1>5. PICK k : k = m - 1
  OBVIOUS
<1>6. k \in Nat /\ k + 1 = m /\ k \notin Bad
  BY <1>2, <1>4, <1>5
<1>7. PICK w : IsWeight(w, v, k)
  BY <1>6
<1>8. PICK x :
        x = [i \in 0 .. m |-> IF i = m THEN w[k] * v[m].range ELSE w[i]]
  OBVIOUS
<1>9. ASSUME NEW i \in 0 .. m
      PROVE  x[i] = IF i = 0 THEN 1 ELSE x[i - 1] * v[i].range
  <2>1. CASE i = m
    <3>1. i - 1 = k /\ i - 1 # m /\ i - 1 \in 0 .. m
      BY <1>6, <2>1
    <3>2. x[i] = w[k] * v[m].range /\ x[k] = w[k]
      BY <1>8, <2>1, <3>1
    <3> QED
      BY <1>4, <2>1, <3>1, <3>2
  <2>2. CASE i # m
    <3>1. i \in 0 .. k /\ x[i] = w[i]
      BY <1>6, <1>8, <2>2
    <3>2. w[i] = IF i = 0 THEN 1 ELSE w[i - 1] * v[i].range
      BY <1>7, <3>1 DEF IsWeight
    <3>3. ASSUME i # 0 PROVE x[i - 1] = w[i - 1]
      <4>1. PICK j : j = i - 1
        OBVIOUS
      <4>2. j \in 0 .. m /\ j # m
        BY <1>6, <3>1, <3>3, <4>1
      <4> QED
        BY <1>8, <4>1, <4>2
    <3> QED
      BY <3>1, <3>2, <3>3
  <2> QED
    BY <2>1, <2>2
<1>10. x = [i \in 0 .. m |-> x[i]]
  BY <1>8
<1>11. IsWeight(x, v, m)
  <2> DEFINE f == [i \in 0 .. m |->
                     IF i = 0 THEN 1 ELSE x[i - 1] * v[i].range]
  <2>1. \A i \in 0 .. m : x[i] = f[i]
    BY <1>9
  <2>2. x = f
    BY <1>10, <2>1
  <2> QED
    BY <2>2 DEF IsWeight
<1> QED
  BY <1>2, <1>11

(* Weight is such a function.                                              *)
LEMMA WeightIs ==
  ASSUME NEW v, Len(v) \in Nat
  PROVE  IsWeight(Weight(v), v, Len(v))
<1>1. \E w : IsWeight(w, v, Len(v))
  BY WeightExists
<1>2. Weight(v) = CHOOSE w :
        w = [i \in 0 .. Len(v) |->
               IF i = 0 THEN 1 ELSE w[i - 1] * v[i].range]
  BY Zenon DEF Weight
<1> QED
  BY <1>1, <1>2, Zenon DEF IsWeight

(* Weights follow the ranges of the values.                                *)
Follows(w, v, n) ==
  w[0] = 1 /\ \A i \in 1 .. n : w[i] = w[i - 1] * v[i].range

(* Those of Weight do, up to every value.                                  *)
LEMMA WeightFollows ==
  ASSUME NEW v, Len(v) \in Nat, NEW n \in Nat, n <= Len(v)
  PROVE  Follows(Weight(v), v, n)
<1>1. PICK w : w = Weight(v)
  OBVIOUS
<1>2. IsWeight(w, v, Len(v))
  BY <1>1, WeightIs
<1>3. \A i \in 0 .. Len(v) :
        w[i] = IF i = 0 THEN 1 ELSE w[i - 1] * v[i].range
  BY <1>2 DEF IsWeight
<1> QED
  BY <1>1, <1>3 DEF Follows

(* Weights up to n depend on the ranges up to n.                           *)
LEMMA WeightsAgree ==
  ASSUME NEW n \in Nat, NEW v, NEW u, NEW w, NEW x,
         Follows(w, v, n), Follows(x, u, n),
         \A i \in 1 .. n : v[i].range = u[i].range
  PROVE  \A i \in 0 .. n : w[i] = x[i]
<1> DEFINE Bad == {i \in 0 .. n : w[i] # x[i]}
<1>1. SUFFICES ASSUME Bad # {} PROVE FALSE
  OBVIOUS
<1>2. PICK m \in Bad : \A i \in Bad : m <= i
  <2>1. Bad \in SUBSET Nat
    OBVIOUS
  <2> HIDE DEF Bad
  <2> QED
    BY <1>1, <2>1, LeastNatural
<1>3. m # 0
  BY <1>2 DEF Follows
<1>4. m \in 1 .. n
  BY <1>2, <1>3
<1>5. w[m] = w[m - 1] * v[m].range /\ x[m] = x[m - 1] * u[m].range
  BY <1>4 DEF Follows
<1>6. PICK i : i = m - 1
  OBVIOUS
<1>7. i \in 0 .. n /\ i < m
  BY <1>4, <1>6
<1>8. w[i] = x[i]
  BY <1>2, <1>7
<1> QED
  BY <1>2, <1>4, <1>5, <1>6, <1>8

(* A product of two positive numbers is one, and no smaller.               *)
LEMMA Times ==
  ASSUME NEW p \in Nat \ {0}, NEW r \in Nat \ {0}
  PROVE  p * r \in Nat \ {0} /\ p * r >= p /\ p * r >= r
OBVIOUS

(* Weights are positive if the ranges are.                                 *)
LEMMA WeightsPositive ==
  ASSUME NEW n \in Nat, NEW v, NEW w, Follows(w, v, n),
         \A i \in 1 .. n : v[i].range \in Nat \ {0}
  PROVE  \A i \in 0 .. n : w[i] \in Nat \ {0}
<1> DEFINE Bad == {i \in 0 .. n : w[i] \notin Nat \ {0}}
<1>1. SUFFICES ASSUME Bad # {} PROVE FALSE
  OBVIOUS
<1>2. PICK m \in Bad : \A i \in Bad : m <= i
  <2>1. Bad \in SUBSET Nat
    OBVIOUS
  <2> HIDE DEF Bad
  <2> QED
    BY <1>1, <2>1, LeastNatural
<1>3. m # 0
  BY <1>2 DEF Follows
<1>4. m \in 1 .. n
  BY <1>2, <1>3
<1>5. w[m] = w[m - 1] * v[m].range
  BY <1>4 DEF Follows
<1>6. PICK i : i = m - 1
  OBVIOUS
<1>7. i \in 0 .. n /\ i < m
  BY <1>4, <1>6
<1>8. w[i] \in Nat \ {0} /\ v[m].range \in Nat \ {0}
  BY <1>2, <1>4, <1>7
<1>9. w[i] * v[m].range \in Nat \ {0}
  BY <1>8, Times
<1> QED
  BY <1>2, <1>5, <1>6, <1>9

(* The product of no values is one, and products are positive.             *)
LEMMA ProductPositive ==
  ASSUME NEW v, NEW n \in Nat, Len(v) = n,
         \A i \in 1 .. n : v[i].range \in Nat \ {0}
  PROVE  /\ Product(v) \in Nat \ {0}
         /\ n = 0 => Product(v) = 1
<1>1. PICK w : w = Weight(v)
  OBVIOUS
<1>2. Follows(w, v, n)
  BY <1>1, WeightFollows
<1>3. \A i \in 0 .. n : w[i] \in Nat \ {0}
  BY <1>2, WeightsPositive
<1>4. w[0] = 1
  BY <1>2 DEF Follows
<1> QED
  BY <1>1, <1>3, <1>4 DEF Product

(* The product depends on the ranges only.                                 *)
LEMMA ProductKept ==
  ASSUME NEW v, NEW u, NEW n \in Nat, Len(v) = n, Len(u) = n,
         \A i \in 1 .. n : v[i].range = u[i].range
  PROVE  Product(u) = Product(v)
<1>1. PICK w : w = Weight(v)
  OBVIOUS
<1>2. PICK x : x = Weight(u)
  OBVIOUS
<1>3. Follows(w, v, n) /\ Follows(x, u, n)
  BY <1>1, <1>2, WeightFollows
<1>4. \A i \in 0 .. n : w[i] = x[i]
  BY <1>3, WeightsAgree
<1> QED
  BY <1>1, <1>2, <1>4 DEF Product

(* One value more multiplies it.                                           *)
LEMMA ProductGrows ==
  ASSUME NEW v, NEW u, NEW n \in Nat, Len(v) = n, Len(u) = n + 1,
         \A i \in 1 .. n : v[i].range = u[i].range
  PROVE  Product(u) = Product(v) * u[n + 1].range
<1>1. PICK w : w = Weight(v)
  OBVIOUS
<1>2. PICK x : x = Weight(u)
  OBVIOUS
<1>3. Follows(w, v, n) /\ Follows(x, u, n) /\ Follows(x, u, n + 1)
  BY <1>1, <1>2, WeightFollows
<1>4. \A i \in 0 .. n : w[i] = x[i]
  BY <1>3, WeightsAgree
<1>5. x[n + 1] = x[n] * u[n + 1].range
  <2>1. PICK m : m = n + 1
    OBVIOUS
  <2>2. m \in 1 .. n + 1 /\ m - 1 = n
    BY <2>1
  <2>3. x[m] = x[m - 1] * u[m].range
    BY <1>3, <2>1, <2>2 DEF Follows
  <2> QED
    BY <2>1, <2>2, <2>3
<1> QED
  BY <1>1, <1>2, <1>4, <1>5 DEF Product

-----------------------------------------------------------------------------
(***************************************************************************)
(* Whatever leaves operator() has its reason.                              *)
(***************************************************************************)

(* What can make a solver fail.                                            *)
Reason ==
  \/ pruning /\ <<>> \in system.faults
  \/ \E h \in Hole \ Registered : TooMany(h)

(* combinations_ is the product of the ranges up to the limit, above which *)
(* it shows that an Extend has failed; and no solver fails without reason. *)
Ranged(v) ==
  \A i \in DOMAIN v :
    /\ v[i] = [value |-> v[i].value, range |-> v[i].range]
    /\ v[i].range \in Nat \ {0}
CountInv ==
  /\ Ranged(g_values)
  /\ combinations \in Nat
  /\ combinations <= MaxCombinations =>
       combinations = IF g_values = <<>> THEN 0 ELSE Product(g_values)
  /\ combinations > MaxCombinations => Reason
ReasonInv ==
  /\ num_threads \in Nat \ {0}
  /\ \A t \in Thread : \A h \in thread[t].hole : system.needs[h] # {}
  /\ \A t \in Thread : thread[t].pc = "failed" => Reason
  /\ phase = "threw" => Reason

(* Moving values keeps their ranges, and so their product.                 *)
LEMMA RangesKept ==
  ASSUME NEW v, Ranged(v), NEW n \in Nat, DOMAIN v = 1 .. n, NEW u,
         u = AtMax(v) \/ u = Advanced(v, 0, 1)
  PROVE  /\ Ranged(u) /\ DOMAIN u = 1 .. n
         /\ \A i \in 1 .. n : v[i].range = u[i].range
<1>1. PICK d : \A i \in 1 .. n :
        u[i] = [v[i] EXCEPT !.value = d[i]] \/ u[i] = v[i]
  <2>1. CASE u = AtMax(v)
    <3>1. PICK d : d = [i \in 1 .. n |-> v[i].range - 1]
      OBVIOUS
    <3>2. \A i \in 1 .. n : u[i] = [v[i] EXCEPT !.value = d[i]]
      BY <2>1, <3>1 DEF AtMax
    <3> QED
      BY <3>2
  <2>2. CASE u = Advanced(v, 0, 1)
    <3>1. PICK c : c = Carry(v, 0, 1)
      OBVIOUS
    <3>2. PICK d :
            d = [i \in 1 .. n |-> Sum(v[i].value, c[i - 1]) % v[i].range]
      OBVIOUS
    <3>3. \A i \in 1 .. n :
            u[i] = IF i <= 0 THEN v[i]
                   ELSE [v[i] EXCEPT
                           !.value = Sum(@, c[i - 1]) % v[i].range]
      BY <2>2, <3>1 DEF Advanced
    <3>4. \A i \in 1 .. n : u[i] = [v[i] EXCEPT !.value = d[i]] \/ u[i] = v[i]
      BY <3>2, <3>3
    <3> QED
      BY <3>4
  <2> QED
    BY <2>1, <2>2
<1>2. DOMAIN u = 1 .. n
  BY DEF AtMax, Advanced
<1>3. ASSUME NEW i \in 1 .. n
      PROVE  /\ u[i] = [value |-> u[i].value, range |-> u[i].range]
             /\ u[i].range = v[i].range
  <2>1. PICK r : r = v[i]
    OBVIOUS
  <2>2. r = [value |-> r.value, range |-> r.range]
    BY <2>1 DEF Ranged
  <2>3. PICK x : x = [r EXCEPT !.value = d[i]]
    OBVIOUS
  <2>4. x = [value |-> d[i], range |-> r.range]
    BY <2>2, <2>3
  <2>5. x = [value |-> x.value, range |-> x.range] /\ x.range = r.range
    BY <2>4
  <2>6. u[i] = x \/ u[i] = r
    BY <1>1, <2>1, <2>3
  <2> QED
    BY <2>1, <2>2, <2>5, <2>6
<1> QED
  BY <1>2, <1>3 DEF Ranged

(* A reason stays one while no hole is registered.                         *)
LEMMA ReasonKept ==
  ASSUME SolverInv, CountInv,
         UNCHANGED <<system, pruning, labels, combinations>>,
         \/ UNCHANGED g_values
         \/ g_values' = AtMax(g_values)
         \/ g_values' = Advanced(g_values, 0, 1)
  PROVE  CountInv' /\ (Reason' <=> Reason)
<1>1. PICK n \in Nat : n = Len(g_values) /\ DOMAIN g_values = 1 .. n
  BY DEF SolverInv, RegistrationInv
<1>2. PICK v : v = g_values
  OBVIOUS
<1>3. PICK u : u = g_values'
  OBVIOUS
<1>4. /\ Ranged(u) /\ DOMAIN u = 1 .. n
      /\ \A i \in 1 .. n : v[i].range = u[i].range
  <2>1. CASE u = v
    BY <1>1, <1>2, <2>1 DEF CountInv
  <2>2. CASE u = AtMax(v) \/ u = Advanced(v, 0, 1)
    BY <1>1, <1>2, <2>2, RangesKept DEF CountInv
  <2> QED
    BY <1>2, <1>3, <2>1, <2>2
<1>5. Len(u) = n
  BY <1>1, <1>2, <1>3, Moved DEF SolverInv, RegistrationInv
<1>6. Product(u) = Product(v)
  BY <1>1, <1>2, <1>4, <1>5, ProductKept
<1>7. (u = <<>>) = (v = <<>>)
  BY <1>1, <1>2, <1>3, <1>4
<1>8. Registered' = Registered
  BY DEF Registered
<1>9. \A h : NewValue(h)' = NewValue(h)
  BY DEF NewValue
<1>10. Product(g_values)' = Product(g_values)
  BY <1>2, <1>3, <1>6
<1>11. \A h : TooMany(h)' <=> TooMany(h)
  BY <1>9, <1>10 DEF TooMany
<1>12. Reason' <=> Reason
  BY <1>8, <1>11 DEF Reason
<1>13. Ranged(g_values)'
  BY <1>3, <1>4 DEF Ranged
<1> QED
  BY <1>2, <1>3, <1>7, <1>10, <1>12, <1>13 DEF CountInv

(* A quotient below p.                                                     *)
LEMMA DivBelow ==
  ASSUME NEW m \in Nat, NEW p \in Nat, NEW r \in Nat \ {0}, m \div r < p
  PROVE  p * r > m
<1>1. PICK q \in Nat : q = m \div r
  OBVIOUS
<1>2. m < (q + 1) * r
  BY <1>1
<1>3. PICK d \in Nat : p = q + 1 + d
  <2>1. p - q - 1 \in Nat /\ p = q + 1 + (p - q - 1)
    BY <1>1
  <2> QED
    BY <2>1
<1>4. p * r = (q + 1) * r + d * r /\ d * r >= 0
  BY <1>3
<1> QED
  BY <1>2, <1>4

(* Registering a hole leaves each reason a reason, since none of those it  *)
(* does not fit is registered; and it fails for no other reason.           *)
LEMMA ExtendCounts ==
  ASSUME SolverInv, CountInv, NEW t, NEW h \in Hole, h \notin Registered,
         system.needs[h] # {}, UNCHANGED <<system, pruning>>, Extend(t, h)
  PROVE  /\ CountInv'
         /\ Reason => Reason'
         /\ \/ thread' = [thread EXCEPT ![t].hole = {}]
            \/ thread' = [thread EXCEPT ![t] = Failed] /\ Reason'
<1>1. PICK n \in Nat : n = Len(g_values) /\ DOMAIN g_values = 1 .. n
  BY DEF SolverInv, RegistrationInv
<1>2. PICK r : r = NewValue(h).range
  OBVIOUS
<1>3. \A k \in Hole : NewValue(k).range \in Nat \ {0}
  BY SolverAssumption DEF NewValue
<1>4. PICK p : p = Product(g_values)
  OBVIOUS
<1>5. p \in Nat \ {0} /\ (g_values = <<>> => p = 1) /\ r \in Nat \ {0}
  <2>1. \A i \in 1 .. n : g_values[i].range \in Nat \ {0}
    BY <1>1 DEF CountInv, Ranged
  <2>2. p \in Nat \ {0} /\ (n = 0 => p = 1)
    BY <1>1, <1>4, <2>1, ProductPositive
  <2>3. g_values = <<>> => n = 0
    BY <1>1
  <2> QED
    BY <1>2, <1>3, <2>2, <2>3
<1>6. MaxCombinations \in Nat /\ SizeMax \in Nat /\ MaxCombinations <= SizeMax
  BY SolverAssumption, SizeAssumption
<1>7. PICK product :
        product = IF combinations = 0 THEN r ELSE combinations * r
  OBVIOUS
<1>8. product \in Nat /\ combinations \in Nat /\ product >= combinations
  BY <1>5, <1>7, Times DEF CountInv
<1>9. combinations <= MaxCombinations => product = p * r
  <2>1. CASE combinations <= MaxCombinations /\ g_values = <<>>
    BY <1>5, <1>7, <2>1 DEF CountInv
  <2>2. CASE combinations <= MaxCombinations /\ g_values # <<>>
    BY <1>4, <1>5, <1>7, <2>2 DEF CountInv
  <2> QED
    BY <2>1, <2>2
<1>10. p * r > MaxCombinations => TooMany(h)
  BY <1>2, <1>4 DEF TooMany
<1>11. \A k : NewValue(k)' = NewValue(k)
  BY DEF NewValue
<1>12. CASE ProductOverflows(combinations, r)
  <2>1. thread' = [thread EXCEPT ![t] = Failed] /\ UNCHANGED global
    BY <1>2, <1>12 DEF Extend
  <2>2. UNCHANGED <<g_values, labels, combinations>>
    BY <2>1 DEF global
  <2>3. CountInv' /\ (Reason' <=> Reason)
    BY <2>2, ReasonKept
  <2>4. Reason
    <3>1. CASE combinations > MaxCombinations
      BY <3>1 DEF CountInv
    <3>2. CASE combinations <= MaxCombinations
      <4>1. combinations # 0 /\ SizeMax \div r < combinations
        BY <1>12 DEF ProductOverflows
      <4>2. combinations * r > SizeMax
        BY <1>5, <1>6, <1>8, <4>1, DivBelow
      <4>3. product > SizeMax
        BY <1>7, <4>1, <4>2
      <4>4. p * r > MaxCombinations
        BY <1>6, <1>8, <1>9, <3>2, <4>3
      <4> QED
        BY <1>10, <4>4 DEF Reason
    <3> QED
      BY <1>6, <1>8, <3>1, <3>2
  <2> QED
    BY <2>1, <2>3, <2>4
<1>13. CASE ~ProductOverflows(combinations, r) /\ product > MaxCombinations
  <2>1. /\ thread' = [thread EXCEPT ![t] = Failed]
        /\ combinations' = product /\ UNCHANGED <<g_values, labels>>
    BY <1>2, <1>7, <1>13 DEF Extend
  <2>2. Reason
    <3>1. CASE combinations > MaxCombinations
      BY <3>1 DEF CountInv
    <3>2. CASE combinations <= MaxCombinations
      BY <1>9, <1>10, <1>13, <3>2 DEF Reason
    <3> QED
      BY <1>6, <1>8, <3>1, <3>2
  <2>3. Reason'
    <3>1. Registered' = Registered /\ Product(g_values)' = Product(g_values)
      BY <2>1 DEF Registered
    <3>2. \A k : TooMany(k)' <=> TooMany(k)
      BY <1>11, <3>1 DEF TooMany
    <3> QED
      BY <2>2, <3>1, <3>2 DEF Reason
  <2>4. Ranged(g_values)'
    BY <2>1 DEF CountInv, Ranged
  <2>5. ~ (combinations' <= MaxCombinations)
    BY <1>6, <1>8, <1>13, <2>1
  <2>6. CountInv'
    BY <1>8, <2>1, <2>3, <2>4, <2>5 DEF CountInv
  <2> QED
    BY <2>1, <2>3, <2>6
<1>14. CASE /\ ~ProductOverflows(combinations, r)
            /\ ~ (product > MaxCombinations)
  <2>1. PICK x : x = NewValue(h)
    OBVIOUS
  <2>2. /\ thread' = [thread EXCEPT ![t].hole = {}]
        /\ combinations' = product
        /\ g_values' = Append(g_values, x) /\ labels' = Append(labels, h)
    BY <1>2, <1>7, <1>14, <2>1 DEF Extend
  <2>3. product <= MaxCombinations /\ combinations <= MaxCombinations
    BY <1>6, <1>8, <1>14
  <2>4. PICK u : u = g_values'
    OBVIOUS
  <2>5. /\ Len(u) = n + 1 /\ DOMAIN u = 1 .. n + 1 /\ u[n + 1] = x
        /\ \A i \in 1 .. n : u[i] = g_values[i]
    <3>1. PICK S : g_values \in Seq(S)
      BY DEF SolverInv, RegistrationInv
    <3>2. g_values \in Seq(S \cup {x})
      BY <3>1
    <3> QED
      BY <1>1, <2>2, <2>4, <3>2
  <2>6. Product(u) = p * r
    <3>1. \A i \in 1 .. n : g_values[i].range = u[i].range
      BY <2>5
    <3>2. Product(u) = Product(g_values) * u[n + 1].range
      BY <1>1, <2>5, <3>1, ProductGrows
    <3> QED
      BY <1>2, <1>4, <2>1, <2>5, <3>2
  <2>7. Product(g_values)' = p * r /\ combinations' = p * r
    BY <1>9, <2>2, <2>3, <2>4, <2>6
  <2>8. Ranged(u)
    <3>1. x = [value |-> x.value, range |-> x.range] /\ x.range = r
      BY <1>2, <2>1 DEF NewValue
    <3>2. \A i \in 1 .. n + 1 : i \in 1 .. n \/ i = n + 1
      OBVIOUS
    <3> QED
      BY <1>1, <1>5, <2>5, <3>1, <3>2 DEF CountInv, Ranged
  <2>9. CountInv'
    <3>1. u # <<>>
      BY <2>5
    <3>2. Ranged(g_values)'
      BY <2>4, <2>8 DEF Ranged
    <3>3. combinations' \in Nat /\ combinations' <= MaxCombinations
      BY <1>8, <2>2, <2>3
    <3>4. ~ (combinations' > MaxCombinations)
      BY <1>6, <3>3
    <3> QED
      BY <2>4, <2>7, <3>1, <3>2, <3>3, <3>4 DEF CountInv
  <2>10. ASSUME NEW k \in Hole \ Registered, TooMany(k)
         PROVE  k \in Hole \ Registered' /\ TooMany(k)'
    <3>1. PICK s : s = NewValue(k).range
      OBVIOUS
    <3>2. s \in Nat \ {0} /\ p * s > MaxCombinations
      BY <1>3, <1>4, <2>10, <3>1 DEF TooMany
    <3>3. k # h
      BY <1>2, <1>6, <1>8, <1>9, <2>3, <3>1, <3>2
    <3>4. k \notin Registered'
      <4>1. \A i \in DOMAIN labels' :
              labels'[i] = h \/ labels'[i] \in Registered
        BY <2>2 DEF SolverInv, RegistrationInv, Registered
      <4> QED
        BY <2>10, <3>3, <4>1 DEF Registered
    <3>5. (p * r) * s >= p * s
      <4>1. p * s \in Nat \ {0}
        BY <1>5, <3>2, Times
      <4>2. (p * s) * r >= p * s
        BY <1>5, <4>1, Times
      <4>3. (p * r) * s = (p * s) * r
        BY <1>5, <3>2
      <4> QED
        BY <4>2, <4>3
    <3>6. (p * r) * s > MaxCombinations
      <4>1. p * s \in Nat /\ (p * r) * s \in Nat
        BY <1>5, <3>2
      <4> QED
        BY <1>6, <3>2, <3>5, <4>1
    <3>7. NewValue(k)'.range = s
      BY <1>11, <3>1
    <3> QED
      BY <2>7, <2>10, <3>4, <3>6, <3>7 DEF TooMany
  <2>11. Reason => Reason'
    BY <2>10 DEF Reason
  <2> QED
    BY <2>2, <2>9, <2>11
<1> QED
  BY <1>12, <1>13, <1>14

(* One solver changes, and fails for a reason only.                        *)
LEMMA OneReason ==
  ASSUME SolverInv, ReasonInv, UNCHANGED <<system, num_threads>>,
         Reason => Reason', UNCHANGED phase,
         NEW t, NEW s, thread' = [thread EXCEPT ![t] = s],
         \A h \in s.hole : system.needs[h] # {},
         s.pc = "failed" => Reason'
  PROVE  ReasonInv'
<1>1. Thread' = Thread
  BY DEF Thread
<1>2. \A u \in Thread : thread'[u] = thread[u] \/ thread'[u] = s
  BY DEF SolverInv, SolversInv
<1>3. \A u \in Thread :
        /\ \A h \in thread'[u].hole : system.needs[h] # {}
        /\ thread'[u].pc = "failed" => Reason'
  BY <1>2 DEF ReasonInv
<1> QED
  BY <1>1, <1>3 DEF ReasonInv

(* The steps of the rounds: a failed solver's exception is thrown.         *)
LEMMA MainReason ==
  ASSUME SolverInv, CountInv, ReasonInv, Main
  PROVE  CountInv' /\ ReasonInv'
<1>1. UNCHANGED <<system, pruning, num_threads, labels, combinations>>
  BY DEF Main, StartRound, Dispatch, FirstEnds, Join, EndRound, fixed, global
<1>2. \/ UNCHANGED g_values
      \/ g_values' = AtMax(g_values)
      \/ g_values' = Advanced(g_values, 0, 1)
  BY DEF Main, StartRound, Dispatch, FirstEnds, Join, EndRound, global
<1>3. CountInv' /\ (Reason' <=> Reason)
  BY <1>1, <1>2, ReasonKept
<1>4. Thread' = Thread
  BY <1>1 DEF Thread
<1>5. phase' = "threw" => Reason'
  <2>1. CASE phase' = "threw" => phase = "threw"
    BY <1>3, <2>1 DEF ReasonInv
  <2>2. CASE phase' = "threw" /\ phase # "threw"
    <3>1. \E t \in Thread : thread[t].pc = "failed"
      <4>1. CASE FirstEnds
        <5>1. 0 \in Thread
          BY DEF ReasonInv, Thread
        <5> QED
          BY <2>2, <4>1, <5>1 DEF FirstEnds
      <4>2. CASE Join
        BY <2>2, <4>2 DEF Join
      <4>3. CASE StartRound \/ Dispatch \/ EndRound
        BY <2>2, <4>3 DEF StartRound, Dispatch, EndRound
      <4> QED
        BY <4>1, <4>2, <4>3 DEF Main
    <3> QED
      BY <1>3, <3>1 DEF ReasonInv
  <2> QED
    BY <2>1, <2>2
<1>6. ASSUME NEW u \in Thread
      PROVE  \/ thread'[u] = thread[u]
             \/ thread'[u].hole = {} /\ thread'[u].pc # "failed"
  <2>1. \A v, n, s : Launched(v, n, s).hole = {}
                     /\ Launched(v, n, s).pc # "failed"
    BY DEF Launched
  <2>2. CASE UNCHANGED thread
    BY <2>2
  <2>3. ASSUME NEW t, NEW s, thread' = [thread EXCEPT ![t] = s],
               s.hole = {} /\ s.pc # "failed"
        PROVE  \/ thread'[u] = thread[u]
               \/ thread'[u].hole = {} /\ thread'[u].pc # "failed"
    BY <2>3 DEF SolverInv, SolversInv
  <2>4. CASE thread' = [t \in Thread |-> Idle]
    BY <2>4, IdleIs
  <2>5. \/ UNCHANGED thread
        \/ thread' = [t \in Thread |-> Idle]
        \/ \E t, v, n, s : thread' = [thread EXCEPT ![t] = Launched(v, n, s)]
        \/ thread' = [thread EXCEPT ![0] = Idle]
    <3>1. CASE StartRound
      BY <3>1 DEF StartRound
    <3>2. CASE Dispatch
      BY <3>2 DEF Dispatch
    <3>3. CASE FirstEnds
      BY <3>3 DEF FirstEnds
    <3>4. CASE Join \/ EndRound
      BY <3>4 DEF Join, EndRound
    <3> QED
      BY <3>1, <3>2, <3>3, <3>4 DEF Main
  <2>6. CASE thread' = [thread EXCEPT ![0] = Idle]
    BY <2>3, <2>6, IdleIs
  <2>7. CASE \E t, v, n, s :
               thread' = [thread EXCEPT ![t] = Launched(v, n, s)]
    <3>1. PICK t, v, n, s : thread' = [thread EXCEPT ![t] = Launched(v, n, s)]
      BY <2>7
    <3> QED
      BY <2>1, <2>3, <3>1
  <2> QED
    BY <2>2, <2>4, <2>5, <2>6, <2>7
<1>7. \A u \in Thread :
        /\ \A h \in thread'[u].hole : system.needs[h] # {}
        /\ thread'[u].pc = "failed" => Reason'
  BY <1>3, <1>6 DEF ReasonInv
<1> QED
  BY <1>1, <1>3, <1>4, <1>5, <1>7 DEF ReasonInv

(* The steps of a solver: it fails for a reason.                           *)
LEMMA SolveReason ==
  ASSUME SolverInv, CountInv, ReasonInv, NEW t \in Thread, Solve(t)
  PROVE  CountInv' /\ ReasonInv'
<1>1. UNCHANGED <<system, pruning, num_threads, phase>>
  BY DEF Solve, ReachHole, Register, Evaluate, Advance, fixed, main
<1>2. ASSUME NEW s, thread' = [thread EXCEPT ![t] = s], UNCHANGED global,
             \A h \in s.hole : system.needs[h] # {},
             s.pc = "failed" => Reason
      PROVE  CountInv' /\ ReasonInv'
  <2>1. UNCHANGED <<g_values, labels, combinations>>
    BY <1>2 DEF global
  <2>2. CountInv' /\ (Reason' <=> Reason)
    BY <1>1, <2>1, ReasonKept
  <2>3. s.pc = "failed" => Reason'
    BY <1>2, <2>2
  <2>4. ReasonInv'
    BY <1>1, <1>2, <2>2, <2>3, OneReason
  <2> QED
    BY <2>2, <2>4
<1>3. CASE ReachHole(t)
  <2>1. PICK h \in Hole :
          /\ thread' = [thread EXCEPT ![t].hole = {h}]
          /\ h \in Reached(thread[t].values)
          /\ thread[t].pc = "evaluate" /\ UNCHANGED global
    BY <1>3 DEF ReachHole, Reached
  <2>2. system.needs[h] # {}
    BY <2>1 DEF Reached
  <2>3. PICK s : s = [thread[t] EXCEPT !.hole = {h}]
    OBVIOUS
  <2>4. s.hole = {h} /\ s.pc = "evaluate"
    <3>1. PICK r : r = thread[t] /\ IsSolver(r)
      BY DEF SolverInv, SolversInv
    <3>2. s = [pc |-> r.pc, values |-> r.values, end |-> r.end,
               stride |-> r.stride, from |-> r.from, count |-> r.count,
               hole |-> {h}]
      BY <2>3, <3>1 DEF IsSolver
    <3> QED
      BY <2>1, <3>1, <3>2
  <2>5. thread' = [thread EXCEPT ![t] = s]
    BY <2>1, <2>3
  <2>6. \A k \in s.hole : system.needs[k] # {}
    BY <2>2, <2>4
  <2>7. s.pc # "failed"
    BY <2>4
  <2> QED
    BY <1>2, <2>1, <2>5, <2>6, <2>7
<1>4. CASE Register(t)
  <2>1. PICK h \in Hole :
          /\ thread[t].hole = {h}
          /\ \/ /\ h \in Registered
                /\ thread' = [thread EXCEPT ![t].hole = {}]
                /\ UNCHANGED global
             \/ h \notin Registered /\ Extend(t, h)
    BY <1>4, RegisterIs
  <2>2. system.needs[h] # {}
    BY <2>1 DEF ReasonInv
  <2>3. PICK s : /\ s.hole = {} /\ s.pc = thread[t].pc
                 /\ [thread EXCEPT ![t].hole = {}] = [thread EXCEPT ![t] = s]
    BY HoleLeft
  <2>4. s.pc = "failed" => Reason
    BY <2>3 DEF ReasonInv
  <2>5. CASE thread' = [thread EXCEPT ![t].hole = {}] /\ UNCHANGED global
    BY <1>2, <2>3, <2>4, <2>5
  <2>6. CASE h \notin Registered /\ Extend(t, h)
    <3>1. /\ CountInv'
          /\ Reason => Reason'
          /\ \/ thread' = [thread EXCEPT ![t].hole = {}]
             \/ thread' = [thread EXCEPT ![t] = Failed] /\ Reason'
      BY <1>1, <2>2, <2>6, ExtendCounts
    <3>2. CASE thread' = [thread EXCEPT ![t].hole = {}]
      <4>1. thread' = [thread EXCEPT ![t] = s]
        BY <2>3, <3>2
      <4>2. s.pc = "failed" => Reason'
        BY <2>4, <3>1
      <4>3. ReasonInv'
        BY <1>1, <2>3, <3>1, <4>1, <4>2, OneReason
      <4> QED
        BY <3>1, <4>3
    <3>3. CASE thread' = [thread EXCEPT ![t] = Failed] /\ Reason'
      <4>1. PICK f : f = Failed
        OBVIOUS
      <4>2. f.hole = {}
        BY <4>1, IdleIs
      <4>3. thread' = [thread EXCEPT ![t] = f]
        BY <3>3, <4>1
      <4>4. ReasonInv'
        BY <1>1, <3>1, <3>3, <4>2, <4>3, OneReason
      <4> QED
        BY <3>1, <4>4
    <3> QED
      BY <3>1, <3>2, <3>3
  <2> QED
    BY <2>1, <2>5, <2>6
<1>5. CASE Evaluate(t)
  <2>1. UNCHANGED global
    BY <1>5 DEF Evaluate
  <2>2. PICK v : v = thread[t].values
    OBVIOUS
  <2>3. CASE /\ pruning /\ Outcome(v) = "error"
             /\ NonWildcards(Digits(v)) = {}
             /\ thread' = [thread EXCEPT ![t] = Failed]
    <3>1. Faulty(v) /\ Known(v)
      BY <2>2, <2>3 DEF Outcome, SolverInv, SolversInv
    <3>2. Reason
      BY <2>3, <3>1, FaultyAnyway DEF Reason
    <3>3. PICK f : f = Failed
      OBVIOUS
    <3>4. f.hole = {} /\ thread' = [thread EXCEPT ![t] = f]
      BY <2>3, <3>3, IdleIs
    <3> QED
      BY <1>2, <2>1, <3>2, <3>4
  <2>4. CASE thread' = [thread EXCEPT ![t].pc = "advance"]
    <3>1. PICK r : r = thread[t] /\ IsSolver(r)
      BY DEF SolverInv, SolversInv
    <3>2. PICK s : s = [r EXCEPT !.pc = "advance"]
      OBVIOUS
    <3>3. s = [pc |-> "advance", values |-> r.values, end |-> r.end,
               stride |-> r.stride, from |-> r.from, count |-> r.count,
               hole |-> r.hole]
      BY <3>1, <3>2 DEF IsSolver
    <3>4. s.hole = {} /\ s.pc # "failed"
      BY <1>5, <3>1, <3>3 DEF Evaluate
    <3>5. thread' = [thread EXCEPT ![t] = s]
      BY <2>4, <3>1, <3>2
    <3> QED
      BY <1>2, <2>1, <3>4, <3>5
  <2> QED
    BY <1>5, <2>2, <2>3, <2>4 DEF Evaluate, InsertCalled
<1>6. CASE Advance(t)
  <2>1. UNCHANGED global
    BY <1>6 DEF Advance
  <2>2. PICK values : values = Advanced(thread[t].values, thread[t].from,
                                        thread[t].count)
    OBVIOUS
  <2>3. PICK s :
          /\ thread' = [thread EXCEPT ![t] = s]
          /\ \/ s = Done
             \/ \E id : s = [thread[t] EXCEPT !.values = values, !.from = id,
                                              !.count = 1]
             \/ s = [thread[t] EXCEPT !.pc = "evaluate", !.values = values,
                                      !.from = 0, !.count = thread[t].stride]
    BY <1>6, <2>2, Zenon DEF Advance
  <2>4. PICK r : r = thread[t] /\ IsSolver(r)
    BY DEF SolverInv, SolversInv
  <2>5. s.hole = {} \/ s.hole = r.hole
    BY <2>3, <2>4, IdleIs DEF IsSolver
  <2>6. s.pc \in {"done", "evaluate"} \/ s.pc = r.pc
    BY <2>3, <2>4, IdleIs DEF IsSolver
  <2>7. \A h \in s.hole : system.needs[h] # {}
    BY <2>4, <2>5 DEF ReasonInv
  <2>8. s.pc = "failed" => Reason
    BY <2>4, <2>6 DEF ReasonInv
  <2> QED
    BY <1>2, <2>1, <2>3, <2>7, <2>8
<1> QED
  BY <1>3, <1>4, <1>5, <1>6 DEF Solve

(* Each step preserves both.                                               *)
LEMMA ReasonSteps ==
  ASSUME SolverInv, CountInv, ReasonInv, [Next]_vars
  PROVE  CountInv' /\ ReasonInv'
<1>1. CASE Main
  BY <1>1, MainReason
<1>2. CASE \E t \in Thread : Solve(t)
  BY <1>2, SolveReason
<1>3. CASE UNCHANGED vars
  <2>1. /\ UNCHANGED <<system, pruning, num_threads>>
        /\ UNCHANGED <<g_values, labels, combinations>>
        /\ UNCHANGED <<thread, phase>>
    BY <1>3 DEF vars, fixed, global, main
  <2>2. CountInv' /\ (Reason' <=> Reason)
    BY <2>1, ReasonKept
  <2>3. Thread' = Thread
    BY <2>1 DEF Thread
  <2> QED
    BY <2>1, <2>2, <2>3 DEF ReasonInv
<1> QED
  BY <1>1, <1>2, <1>3 DEF Next

(* What leaves operator() is Insert's exception, for a model faulty        *)
(* without any hole, or Extend's, for a hole that exceeds the limit:       *)
(* however many threads reach a hole at once, and whichever of them fails. *)
THEOREM ThrowsWithReason == Spec => []ThrowsForAReason
<1>1. Init => CountInv /\ ReasonInv
  <2> SUFFICES ASSUME Init PROVE CountInv /\ ReasonInv
    OBVIOUS
  <2>1. /\ g_values = <<>> /\ combinations = 0 /\ phase = "start"
        /\ thread = [t \in Thread |-> Idle]
    BY DEF Init
  <2>2. CountInv
    BY <2>1, SolverAssumption, SizeAssumption DEF CountInv, Ranged
  <2>3. ReasonInv
    BY <2>1, IdleIs, SolverAssumption DEF Init, ReasonInv
  <2> QED
    BY <2>2, <2>3
<1>2. SolverInv /\ CountInv /\ ReasonInv /\ [Next]_vars
        => CountInv' /\ ReasonInv'
  BY ReasonSteps
<1>3. ReasonInv => ThrowsForAReason
  BY DEF ReasonInv, Reason, ThrowsForAReason
<1> QED
  BY <1>1, <1>2, <1>3, SolverInvariant, PTL DEF Spec
=============================================================================
