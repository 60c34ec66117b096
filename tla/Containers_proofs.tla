-------------------------- MODULE Containers_proofs --------------------------
(***************************************************************************)
(* Proofs about ArraySet, for any elements and any number of slots: what   *)
(* the lookups return, and what equality is.                               *)
(***************************************************************************)
EXTENDS Containers, FiniteSetTheorems, FunctionTheorems, WellFoundedInduction,
        TLAPS

-----------------------------------------------------------------------------
(***************************************************************************)
(* Types.                                                                  *)
(***************************************************************************)

(* A member ID is that of a slot, and the others are not.                  *)
LEMMA MemberIDs ==
  /\ \A id \in IDs \cup {Size + Base} : IsMember(id) => IDtoIdx(id) \in Slot
  /\ \A i \in Slot : /\ IDtoIdx(IdxToID(i)) = i /\ IdxToID(i) # kUndefined
                     /\ IdxToID(i) \in IDs
  /\ Base \in IDs
BY SetAssumption DEF IDs, IsMember, IDtoIdx, IdxToID, Slot, kUndefined

(* A set of slots has a lowest one.                                        *)
LEMMA LowestIsLeast ==
  ASSUME NEW S \in SUBSET Slot, S # {}
  PROVE  Lowest(S) \in S /\ \A j \in S : Lowest(S) <= j
<1>1. S \in SUBSET Nat
  BY SetAssumption DEF Slot
<1>2. PICK i \in S : \A j \in S : ~ (<<j, i>> \in OpToRel(<, Nat))
  BY <1>1, NatLessThanWellFounded, WFMin
<1>3. \A j \in S : i <= j
  <2> SUFFICES ASSUME NEW j \in S PROVE i <= j
    OBVIOUS
  <2>1. ~ (j < i)
    BY <1>1, <1>2 DEF OpToRel
  <2> QED
    BY <1>1, <2>1
<1> QED
  BY <1>3 DEF Lowest

(* How many slots there are, and how many of them may be valid.            *)
LEMMA SlotCount ==
  /\ IsFiniteSet(Slot) /\ Cardinality(Slot) = Size
  /\ \A S \in SUBSET Slot :
       /\ IsFiniteSet(S) /\ Cardinality(S) \in Nat /\ Cardinality(S) <= Size
       /\ Cardinality(S) = Size => S = Slot
       /\ Cardinality(S) = 0 <=> S = {}
<1>1. IsFiniteSet(Slot) /\ Cardinality(Slot) = Size
  <2>1. 0 \in Int /\ Size - 1 \in Int /\ ~ (0 > Size - 1)
          /\ Size - 1 - 0 + 1 = Size
    BY SetAssumption
  <2> QED
    BY <2>1, FS_Interval DEF Slot
<1> SUFFICES ASSUME NEW S \in SUBSET Slot
             PROVE  /\ IsFiniteSet(S) /\ Cardinality(S) \in Nat
                    /\ Cardinality(S) <= Size
                    /\ Cardinality(S) = Size => S = Slot
                    /\ Cardinality(S) = 0 <=> S = {}
  BY <1>1
<1>2. /\ IsFiniteSet(S) /\ Cardinality(S) <= Size
      /\ Cardinality(S) = Size => S = Slot
  BY <1>1, FS_Subset
<1> QED
  BY <1>2, FS_CardinalityType, FS_EmptySet

(* The lookups find a slot that is valid, or one that is not.              *)
LEMMA NextValidFinds ==
  ASSUME NEW s \in ArraySet
  PROVE  IF s.valid = {} THEN NextValid(s) = kUndefined
         ELSE \E i \in s.valid : /\ NextValid(s) = IdxToID(i)
                                 /\ IDtoIdx(NextValid(s)) = i
                                 /\ NextValid(s) # kUndefined
<1>1. s.valid \in SUBSET Slot
  BY DEF ArraySet
<1>2. s.valid # {} => Lowest(s.valid) \in s.valid
  BY <1>1, LowestIsLeast
<1> QED
  BY <1>1, <1>2, MemberIDs DEF NextValid

(* NextInvalid finds a free slot if there is one.                          *)
LEMMA NextInvalidFinds ==
  ASSUME NEW s \in ArraySet
  PROVE  IF s.valid = Slot THEN NextInvalid(s) = kUndefined
         ELSE \E i \in Slot \ s.valid : /\ NextInvalid(s) = IdxToID(i)
                                        /\ IDtoIdx(NextInvalid(s)) = i
                                        /\ NextInvalid(s) # kUndefined
<1>1. s.valid \in SUBSET Slot /\ Slot \ s.valid \in SUBSET Slot
  BY DEF ArraySet
<1>2. s.valid # Slot => Lowest(Slot \ s.valid) \in Slot \ s.valid
  BY <1>1, LowestIsLeast
<1>3. s.valid # Slot => size(s) \in Slot
  <2>1. Cardinality(s.valid) \in Nat /\ Cardinality(s.valid) <= Size
    BY <1>1, SlotCount
  <2>2. s.valid # Slot => Cardinality(s.valid) # Size
    BY <1>1, SlotCount
  <2> QED
    BY <2>1, <2>2, SetAssumption DEF size, Slot
<1> QED
  BY <1>1, <1>2, <1>3, MemberIDs DEF NextInvalid

(* GetID finds a slot of the element if it is in the set.                  *)
LEMMA GetIDFinds ==
  ASSUME NEW s \in ArraySet, NEW e
  PROVE  IF \E i \in s.valid : s.array[i] = e
           THEN \E i \in s.valid : /\ s.array[i] = e
                                   /\ GetID(s, e) = IdxToID(i)
                                   /\ IDtoIdx(GetID(s, e)) = i
                                   /\ GetID(s, e) # kUndefined
           ELSE GetID(s, e) = kUndefined
<1> DEFINE at == {i \in s.valid : s.array[i] = e}
<1>1. at \in SUBSET Slot
  BY DEF ArraySet
<1>2. at # {} => Lowest(at) \in at
  <2> HIDE DEF at
  <2> QED
    BY <1>1, LowestIsLeast
<1>3. GetID(s, e) = IF at = {} THEN kUndefined ELSE IdxToID(Lowest(at))
  BY DEF GetID
<1> QED
  BY <1>1, <1>2, <1>3, MemberIDs

(* Empty sets have their types.                                            *)
LEMMA TypeOKInit == Init => TypeOK
<1>1. Empty \in ArraySet
  BY SetAssumption DEF Empty, ArraySet
<1> QED
  BY <1>1, MemberIDs DEF Init, TypeOK

(* The parts of a step keep the type of a set.                             *)
LEMMA SetTypes ==
  ASSUME NEW s \in ArraySet
  PROVE  /\ \A i \in Slot, e \in Element :
              [array |-> [s.array EXCEPT ![i] = e],
                valid |-> s.valid \cup {i}]
                \in ArraySet
         /\ \A V \in SUBSET Slot : [s EXCEPT !.valid = V] \in ArraySet
         /\ \A i \in Slot : s.array[i] \in Element
         /\ s.valid \subseteq Slot
BY DEF ArraySet

(* A set that is replaced by one of the right type.                        *)
LEMMA BecomeKeeps ==
  ASSUME TypeOK, NEW n \in Name,
         NEW kind \in {"Insert", "Erase", "ID", "Clear", "Assign"},
         NEW s \in ArraySet, NEW id \in IDs, Become(n, kind, s, id)
  PROVE  TypeOK'
BY DEF TypeOK, Become

(* Every member function keeps the types.                                  *)
LEMMA TypeOKNext == TypeOK /\ [Next]_vars => TypeOK'
<1> SUFFICES ASSUME TypeOK, [Next]_vars PROVE TypeOK'
  OBVIOUS
<1>1. \A n \in Name : sets[n] \in ArraySet
  BY DEF TypeOK
<1>2. kUndefined \in IDs /\ Base \in IDs
  BY MemberIDs DEF IDs
<1>3. ASSUME NEW n \in Name, NEW e \in Element, Insert(n, e) PROVE TypeOK'
  <2> PICK s : s = sets[n]
    OBVIOUS
  <2>1. \/ /\ NextInvalid(s) = kUndefined
           /\ Become(n, "Insert", s, kUndefined)
        \/ \E i \in Slot : /\ NextInvalid(s) = IdxToID(i)
                           /\ IDtoIdx(NextInvalid(s)) = i
                           /\ NextInvalid(s) # kUndefined
                           /\ Become(n, "Insert", Put(s, IdxToID(i), e),
                                IdxToID(i))
    BY <1>1, <1>3, NextInvalidFinds DEF Insert
  <2>2. \A i \in Slot : Put(s, IdxToID(i), e) \in ArraySet
          /\ IdxToID(i) \in IDs
    BY <1>1, MemberIDs, SetTypes DEF Put
  <2> QED
    BY <1>1, <1>2, <2>1, <2>2, BecomeKeeps
<1>4. ASSUME NEW s \in ArraySet, NEW id \in IDs \cup {Size + Base}
      PROVE  Invalidated(s, id) \in ArraySet
  <2>1. IsMember(id) => s.valid \ {IDtoIdx(id)} \in SUBSET Slot
    BY <1>4, SetTypes
  <2> QED
    BY <2>1, SetTypes DEF Invalidated
<1>5. ASSUME NEW n \in Name, NEW e \in Element, Erase(n, e) PROVE TypeOK'
  <2> PICK s : s = sets[n]
    OBVIOUS
  <2>1. GetID(s, e) \in IDs
    BY <1>1, <1>2, GetIDFinds, MemberIDs, SetTypes
  <2>2. Become(n, "Erase", Invalidated(s, GetID(s, e)), GetID(s, e))
    BY <1>5 DEF Erase
  <2>3. Invalidated(s, GetID(s, e)) \in ArraySet
    BY <1>1, <1>4, <2>1
  <2> QED
    BY <2>1, <2>2, <2>3, BecomeKeeps
<1>6. ASSUME NEW n \in Name, NEW id \in IDs \cup {Size + Base}, IsMember(id),
             NEW e \in Element, Become(n, "ID", Put(sets[n], id, e), id)
      PROVE  TypeOK'
  <2>1. Put(sets[n], id, e) \in ArraySet
    BY <1>1, <1>6, MemberIDs, SetTypes DEF Put
  <2>2. id \in IDs
    BY <1>6, SetAssumption DEF IsMember
  <2> QED
    BY <1>6, <2>1, <2>2, BecomeKeeps
<1>7. ASSUME NEW n \in Name, NEW id \in IDs \cup {Size + Base},
             \/ \E e \in Element : WriteAt(n, id, e)
             \/ ReadAt(n, id)
             \/ SetValid(n, id)
             \/ SetInvalid(n, id)
      PROVE  TypeOK'
  <2>1. CASE \E e \in Element : WriteAt(n, id, e)
    BY <1>6, <2>1 DEF WriteAt
  <2>2. CASE ReadAt(n, id)
    <3>1. IsMember(id) /\ sets[n].array[IDtoIdx(id)] \in Element
      BY <1>1, <2>2, MemberIDs, SetTypes DEF ReadAt
    <3> QED
      BY <1>6, <2>2, <3>1 DEF ReadAt
  <2>3. CASE SetValid(n, id)
    <3>1. IsMember(id) =>
            [sets[n] EXCEPT !.valid = @ \cup {IDtoIdx(id)}] \in ArraySet
      <4>1. IsMember(id) => sets[n].valid \cup {IDtoIdx(id)} \in SUBSET Slot
        BY <1>1, MemberIDs, SetTypes
      <4> QED
        BY <1>1, <4>1, SetTypes
    <3> QED
      BY <1>1, <1>2, <2>3, <3>1, BecomeKeeps DEF SetValid
  <2>4. CASE SetInvalid(n, id)
    BY <1>1, <1>2, <1>4, <2>4, BecomeKeeps DEF SetInvalid
  <2> QED
    BY <1>7, <2>1, <2>2, <2>3, <2>4
<1>8. ASSUME NEW n \in Name, Clear(n) \/ SetAllValid(n) PROVE TypeOK'
  <2>1. \A V \in SUBSET Slot : [sets[n] EXCEPT !.valid = V] \in ArraySet
    BY <1>1, SetTypes
  <2> QED
    BY <1>2, <1>8, <2>1, BecomeKeeps DEF Clear, SetAllValid
<1>9. ASSUME NEW n \in Name, NEW m \in Name, Assign(n, m) PROVE TypeOK'
  BY <1>1, <1>2, <1>9, BecomeKeeps DEF Assign
<1>10. CASE UNCHANGED vars
  BY <1>10 DEF vars, TypeOK
<1>11. CASE Next
  BY <1>3, <1>5, <1>7, <1>8, <1>9, <1>11 DEF Next
<1> QED
  BY <1>10, <1>11

(* The slots, valid bits and IDs stay in their ranges.                     *)
THEOREM TypeCorrect == Spec => []TypeOK
BY TypeOKInit, TypeOKNext, PTL DEF Spec

-----------------------------------------------------------------------------
(***************************************************************************)
(* The lookups.                                                            *)
(***************************************************************************)

(* operator() gives e exactly if e is all there is, once.                  *)
LEMMA OnlyIsContent ==
  ASSUME NEW s \in ArraySet
  PROVE  Only(s) = {e \in Element : Content(s) = [f \in {e} |-> 1]}
<1>1. s.valid \in SUBSET Slot
  BY DEF ArraySet
<1>2. IsFiniteSet(s.valid)
        /\ (Cardinality(s.valid) = 1 <=> \E i : s.valid = {i})
  BY <1>1, SlotCount, FS_Singleton
<1>3. ASSUME NEW i, s.valid = {i}
      PROVE  Only(s) = {e \in Element : Content(s) = [f \in {e} |-> 1]}
  <2>1. Only(s) = {s.array[i]}
    BY <1>2, <1>3, NextValidFinds DEF Only, size
  <2>2. {s.array[j] : j \in s.valid} = {s.array[i]}
    BY <1>3
  <2>3. {j \in s.valid : s.array[j] = s.array[i]} = {i}
    BY <1>3
  <2>4. Cardinality({i}) = 1
    BY FS_Singleton
  <2>5. Content(s) = [f \in {s.array[i]} |-> 1]
    <3>1. \A e \in {s.array[i]} :
            Cardinality({j \in s.valid : s.array[j] = e}) = 1
      BY <2>3, <2>4
    <3> QED
      BY <2>2, <3>1 DEF Content
  <2>6. \A e : Content(s) = [f \in {e} |-> 1] => e = s.array[i]
    <3> SUFFICES ASSUME NEW e, [f \in {s.array[i]} |-> 1] = [f \in {e} |-> 1]
                 PROVE  e = s.array[i]
      BY <2>5
    <3>1. DOMAIN [f \in {s.array[i]} |-> 1] = DOMAIN [f \in {e} |-> 1]
      OBVIOUS
    <3> QED
      BY <3>1
  <2>7. s.array[i] \in Element
    BY <1>1, <1>3, SetTypes
  <2> QED
    BY <2>1, <2>5, <2>6, <2>7
<1>4. ASSUME ~ \E i : s.valid = {i}
      PROVE  Only(s) = {e \in Element : Content(s) = [f \in {e} |-> 1]}
  <2>1. Only(s) = {}
    BY <1>2, <1>4 DEF Only, size
  <2>2. ASSUME NEW e, Content(s) = [f \in {e} |-> 1] PROVE FALSE
    <3>1. DOMAIN Content(s) = {e} /\ Content(s)[e] = 1
      BY <2>2
    <3>2. {s.array[i] : i \in s.valid} = {e}
      BY <3>1 DEF Content
    <3>3. {i \in s.valid : s.array[i] = e} = s.valid
      BY <3>2
    <3>4. Content(s)[e] = Cardinality({i \in s.valid : s.array[i] = e})
      BY <3>2 DEF Content
    <3> QED
      BY <1>2, <1>4, <3>1, <3>3, <3>4
  <2> QED
    BY <2>1, <2>2
<1> QED
  BY <1>3, <1>4

(* Whatever was erased before, a lookup finds a slot if there is one, and  *)
(* that slot is in the set (or free, for NextInvalid).                     *)
THEOREM LookupsExact == Spec => []LookupsAreExact
<1>1. TypeOK => LookupsAreExact
  <2> SUFFICES ASSUME TypeOK, NEW n \in Name, NEW s, s = sets[n]
               PROVE  /\ (NextValid(s) = kUndefined) = (s.valid = {})
                      /\ s.valid # {} => IDtoIdx(NextValid(s)) \in s.valid
                      /\ (NextInvalid(s) = kUndefined) = (s.valid = Slot)
                      /\ s.valid # Slot
                           => IDtoIdx(NextInvalid(s)) \in Slot \ s.valid
                      /\ Only(s) = {e \in Element :
                           Content(s) = [f \in {e} |-> 1]}
                      /\ \A e \in Element :
                           /\ Contains(s, e) = (GetID(s, e) # kUndefined)
                           /\ Contains(s, e)
                                => s.array[IDtoIdx(GetID(s, e))] = e
    BY DEF LookupsAreExact
  <2>1. s \in ArraySet
    BY DEF TypeOK
  <2>2. /\ (NextValid(s) = kUndefined) = (s.valid = {})
        /\ s.valid # {} => IDtoIdx(NextValid(s)) \in s.valid
    BY <2>1, NextValidFinds
  <2>3. /\ (NextInvalid(s) = kUndefined) = (s.valid = Slot)
        /\ s.valid # Slot => IDtoIdx(NextInvalid(s)) \in Slot \ s.valid
    BY <2>1, NextInvalidFinds
  <2>4. ASSUME NEW e \in Element
        PROVE  /\ Contains(s, e) = (GetID(s, e) # kUndefined)
               /\ Contains(s, e) => s.array[IDtoIdx(GetID(s, e))] = e
    BY <2>1, GetIDFinds DEF Contains
  <2> QED
    BY <2>1, <2>2, <2>3, <2>4, OnlyIsContent
<1> QED
  BY <1>1, TypeCorrect, PTL

-----------------------------------------------------------------------------
(***************************************************************************)
(* Equality.  A permutation that matches two sets maps, for every element, *)
(* the slots that hold it in one onto those that hold it in the other; and *)
(* where there are as many of them, such a permutation can be put together *)
(* from a bijection for each element and one of the slots left over.       *)
(***************************************************************************)
Holding(s, e) == {i \in s.valid : s.array[i] = e}

(* The content says how many slots hold each element.                      *)
LEMMA ContentCounts ==
  ASSUME NEW s \in ArraySet, NEW t \in ArraySet
  PROVE  Content(s) = Content(t)
           <=> \A e : Cardinality(Holding(s, e)) = Cardinality(Holding(t, e))
<1> DEFINE elements(u) == {u.array[i] : i \in u.valid}
<1>1. \A u : Content(u) = [e \in elements(u) |-> Cardinality(Holding(u, e))]
  BY DEF Content, Holding
<1>2. \A u \in ArraySet : \A e :
        e \in elements(u) <=> Cardinality(Holding(u, e)) # 0
  <2> SUFFICES ASSUME NEW u \in ArraySet, NEW e
               PROVE  e \in elements(u) <=> Cardinality(Holding(u, e)) # 0
    OBVIOUS
  <2>1. Holding(u, e) \in SUBSET Slot
    BY DEF Holding, ArraySet
  <2>2. e \in elements(u) <=> Holding(u, e) # {}
    BY DEF Holding
  <2> QED
    BY <2>1, <2>2, SlotCount
<1>3. ASSUME Content(s) = Content(t), NEW e
      PROVE  Cardinality(Holding(s, e)) = Cardinality(Holding(t, e))
  <2>1. DOMAIN Content(s) = elements(s) /\ DOMAIN Content(t) = elements(t)
    BY <1>1
  <2>2. elements(s) = elements(t)
    BY <1>3, <2>1
  <2>3. CASE e \in elements(s)
    <3> HIDE DEF elements
    <3>1. Content(s)[e] = Cardinality(Holding(s, e))
      BY <1>1, <2>3
    <3>2. Content(t)[e] = Cardinality(Holding(t, e))
      BY <1>1, <2>2, <2>3
    <3> QED
      BY <1>3, <3>1, <3>2
  <2>4. CASE e \notin elements(s)
    BY <1>2, <2>2, <2>4
  <2> QED
    BY <2>3, <2>4
<1>4. ASSUME \A e : Cardinality(Holding(s, e)) = Cardinality(Holding(t, e))
      PROVE  Content(s) = Content(t)
  <2> HIDE DEF elements
  <2>1. elements(s) = elements(t)
    BY <1>2, <1>4
  <2> QED
    BY <1>1, <1>4, <2>1
<1> QED
  BY <1>3, <1>4

(* An injection of the slots into themselves is onto.                      *)
LEMMA InjectionIsOnto ==
  ASSUME NEW pi \in [Slot -> Slot], \A i, j \in Slot : pi[i] = pi[j] => i = j
  PROVE  \A j \in Slot : \E i \in Slot : pi[i] = j
<1>1. pi \in Injection(Slot, Slot)
  BY Fun_IsInj
<1>2. pi \in Surjection(Slot, Slot)
  BY <1>1, SlotCount, FS_Injection
<1> QED
  BY <1>2, Fun_SurjectionProperties

(* Matching sets hold each element in equally many slots.                  *)
LEMMA EqualCounts ==
  ASSUME NEW s \in ArraySet, NEW t \in ArraySet, Equal(s, t), NEW e
  PROVE  Cardinality(Holding(s, e)) = Cardinality(Holding(t, e))
<1>1. PICK pi \in [Slot -> Slot] :
        /\ \A i, j \in Slot : pi[i] = pi[j] => i = j
        /\ \A i \in Slot : Match(s, t, i, pi[i])
  BY DEF Equal
<1>2. \A j \in Slot : \E i \in Slot : pi[i] = j
  BY <1>1, InjectionIsOnto
<1>3. Holding(s, e) \in SUBSET Slot /\ Holding(t, e) \in SUBSET Slot
  BY DEF Holding, ArraySet
<1>4. \A i \in Slot : i \in Holding(s, e) <=> pi[i] \in Holding(t, e)
  BY <1>1 DEF Match, Holding
<1>5. PICK f : f = [i \in Holding(s, e) |-> pi[i]]
  OBVIOUS
<1>6. f \in [Holding(s, e) -> Holding(t, e)]
  BY <1>3, <1>4, <1>5
<1>7. \A i, j \in Holding(s, e) : f[i] = f[j] => i = j
  BY <1>1, <1>3, <1>5
<1>8. \A j \in Holding(t, e) : \E i \in Holding(s, e) : f[i] = j
  BY <1>2, <1>3, <1>4, <1>5
<1>9. f \in Bijection(Holding(s, e), Holding(t, e))
  BY <1>6, <1>7, <1>8, Fun_IsBij
<1>10. ExistsBijection(Holding(s, e), Holding(t, e))
  BY <1>9 DEF ExistsBijection
<1>11. IsFiniteSet(Holding(s, e))
  BY <1>3, SlotCount
<1> QED
  BY <1>10, <1>11, FS_Bijection

(* With as many slots for each element, the valid slots can be matched.    *)
LEMMA ValidSlotsMatch ==
  ASSUME NEW s \in ArraySet, NEW t \in ArraySet,
         \A e : Cardinality(Holding(s, e)) = Cardinality(Holding(t, e))
  PROVE  \E g \in Bijection(s.valid, t.valid) :
           \A i \in s.valid : s.array[i] = t.array[g[i]]
<1>1. \A e : Holding(s, e) \in SUBSET Slot /\ Holding(t, e) \in SUBSET Slot
  BY DEF Holding, ArraySet
<1>2. \A e : \E b : b \in Bijection(Holding(s, e), Holding(t, e))
  <2> SUFFICES ASSUME NEW e
               PROVE  \E b : b \in Bijection(Holding(s, e), Holding(t, e))
    OBVIOUS
  <2>1. IsFiniteSet(Holding(s, e)) /\ IsFiniteSet(Holding(t, e))
    BY <1>1, SlotCount
  <2>2. ExistsBijection(Holding(s, e), Holding(t, e))
    BY <2>1, FS_SameCardinalityBij
  <2> QED
    BY <2>2 DEF ExistsBijection
<1> DEFINE matched(e) == CHOOSE b :
             b \in Bijection(Holding(s, e), Holding(t, e))
<1>3. \A e : matched(e) \in Bijection(Holding(s, e), Holding(t, e))
  BY <1>2
<1> HIDE DEF matched
<1>4. \A e : /\ matched(e) \in [Holding(s, e) -> Holding(t, e)]
             /\ \A i, j \in Holding(s, e) : matched(e)[i] = matched(e)[j]
                  => i = j
             /\ \A j \in Holding(t, e) : \E i \in Holding(s, e) :
                  matched(e)[i] = j
  BY <1>3, Fun_BijectionProperties
<1>5. PICK g : g = [i \in s.valid |-> matched(s.array[i])[i]]
  OBVIOUS
<1>6. \A i \in s.valid : i \in Holding(s, s.array[i])
  BY DEF Holding
<1>7. \A i \in s.valid : g[i] \in Holding(t, s.array[i])
  <2> SUFFICES ASSUME NEW i \in s.valid PROVE g[i] \in Holding(t, s.array[i])
    OBVIOUS
  <2>1. matched(s.array[i])[i] \in Holding(t, s.array[i])
    BY <1>4, <1>6
  <2> QED
    BY <1>5, <2>1
<1>8. \A i \in s.valid : g[i] \in t.valid /\ t.array[g[i]] = s.array[i]
  BY <1>7 DEF Holding
<1>9. g \in [s.valid -> t.valid]
  BY <1>5, <1>8
<1>10. \A i, j \in s.valid : g[i] = g[j] => i = j
  <2> SUFFICES ASSUME NEW i \in s.valid, NEW j \in s.valid, g[i] = g[j]
               PROVE  i = j
    OBVIOUS
  <2>1. s.array[i] = s.array[j]
    BY <1>8
  <2>2. PICK e : e = s.array[i]
    OBVIOUS
  <2>3. i \in Holding(s, e) /\ j \in Holding(s, e)
    BY <2>1, <2>2 DEF Holding
  <2>4. matched(e)[i] = matched(e)[j]
    BY <1>5, <2>1, <2>2
  <2> QED
    BY <1>4, <2>3, <2>4
<1>11. \A j \in t.valid : \E i \in s.valid : g[i] = j
  <2> SUFFICES ASSUME NEW j \in t.valid PROVE \E i \in s.valid : g[i] = j
    OBVIOUS
  <2>1. PICK e : e = t.array[j]
    OBVIOUS
  <2>2. j \in Holding(t, e)
    BY <2>1 DEF Holding
  <2>3. PICK i \in Holding(s, e) : matched(e)[i] = j
    BY <1>4, <2>2
  <2>4. i \in s.valid /\ s.array[i] = e
    BY <2>3 DEF Holding
  <2> QED
    BY <1>5, <2>3, <2>4
<1>12. g \in Bijection(s.valid, t.valid)
  BY <1>9, <1>10, <1>11, Fun_IsBij
<1> QED
  BY <1>8, <1>12

(* And so can the slots that are left over.                                *)
LEMMA CountsEqual ==
  ASSUME NEW s \in ArraySet, NEW t \in ArraySet,
         \A e : Cardinality(Holding(s, e)) = Cardinality(Holding(t, e))
  PROVE  Equal(s, t)
<1>1. PICK g \in Bijection(s.valid, t.valid) :
        \A i \in s.valid : s.array[i] = t.array[g[i]]
  BY ValidSlotsMatch
<1>2. /\ s.valid \in SUBSET Slot /\ t.valid \in SUBSET Slot
      /\ Slot \ s.valid \in SUBSET Slot /\ Slot \ t.valid \in SUBSET Slot
  BY DEF ArraySet
<1>3. /\ IsFiniteSet(s.valid) /\ IsFiniteSet(t.valid)
      /\ IsFiniteSet(Slot \ s.valid) /\ IsFiniteSet(Slot \ t.valid)
      /\ IsFiniteSet(Slot)
  BY <1>2, SlotCount
<1>4. Cardinality(s.valid) = Cardinality(t.valid)
  <2>1. ExistsBijection(s.valid, t.valid)
    BY DEF ExistsBijection
  <2> QED
    BY <1>3, <2>1, FS_Bijection
<1>5. Cardinality(Slot \ s.valid) = Cardinality(Slot \ t.valid)
  <2>1. Slot \cap s.valid = s.valid /\ Slot \cap t.valid = t.valid
    BY <1>2
  <2>2. /\ Cardinality(Slot \ s.valid)
             = Cardinality(Slot) - Cardinality(s.valid)
        /\ Cardinality(Slot \ t.valid)
             = Cardinality(Slot) - Cardinality(t.valid)
    <3>1. /\ Cardinality(Slot \ s.valid)
               = Cardinality(Slot) - Cardinality(Slot \cap s.valid)
          /\ Cardinality(Slot \ t.valid)
               = Cardinality(Slot) - Cardinality(Slot \cap t.valid)
      BY <1>3, FS_Difference
    <3> QED
      BY <2>1, <3>1
  <2> QED
    BY <1>4, <2>2
<1>6. PICK h : h \in Bijection(Slot \ s.valid, Slot \ t.valid)
  <2>1. ExistsBijection(Slot \ s.valid, Slot \ t.valid)
    BY <1>3, <1>5, FS_SameCardinalityBij
  <2> QED
    BY <2>1 DEF ExistsBijection
<1>7. /\ g \in [s.valid -> t.valid]
      /\ \A i, j \in s.valid : g[i] = g[j] => i = j
  BY Fun_BijectionProperties
<1>8. /\ h \in [Slot \ s.valid -> Slot \ t.valid]
      /\ \A i, j \in Slot \ s.valid : h[i] = h[j] => i = j
  BY <1>6, Fun_BijectionProperties
<1>9. PICK pi : pi = [i \in Slot |-> IF i \in s.valid THEN g[i] ELSE h[i]]
  OBVIOUS
<1>10. \A i \in Slot : /\ i \in s.valid => pi[i] = g[i] /\ pi[i] \in t.valid
                       /\ i \notin s.valid => pi[i] = h[i]
                            /\ pi[i] \in Slot \ t.valid
  BY <1>7, <1>8, <1>9
<1>11. pi \in [Slot -> Slot]
  BY <1>2, <1>9, <1>10
<1>12. \A i, j \in Slot : pi[i] = pi[j] => i = j
  BY <1>7, <1>8, <1>10
<1>13. \A i \in Slot : Match(s, t, i, pi[i])
  BY <1>1, <1>10 DEF Match
<1> QED
  BY <1>11, <1>12, <1>13 DEF Equal

(* Two sets compare equal exactly if they hold the same elements, each as  *)
(* often, wherever they are and whatever erased elements left behind.      *)
THEOREM EqualityIsContent == Spec => []EqualIsSameContent
<1>1. TypeOK => EqualIsSameContent
  <2> SUFFICES ASSUME TypeOK, NEW n \in Name, NEW m \in Name,
                      NEW s, s = sets[n], NEW t, t = sets[m]
               PROVE  Equal(s, t) <=> Content(s) = Content(t)
    BY DEF EqualIsSameContent
  <2>1. s \in ArraySet /\ t \in ArraySet
    BY DEF TypeOK
  <2> QED
    BY <2>1, ContentCounts, EqualCounts, CountsEqual
<1> QED
  BY <1>1, TypeCorrect, PTL
=============================================================================
