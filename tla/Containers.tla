----------------------------- MODULE Containers -----------------------------
(***************************************************************************)
(* core/types.hh: ArraySet, the sets that symmetric states are built from. *)
(* A set is an array of slots with valid bits; erasing only clears a bit,  *)
(* so that the element stays behind in its slot, out of the set.  IDs are  *)
(* slots shifted by kBase, which keeps the IDs of united sets apart.       *)
(***************************************************************************)
EXTENDS Integers, FiniteSets

CONSTANTS
  Element,     \* ElementT
  Default,     \* a default-constructed element
  Size,        \* size_
  Base,        \* kBase, the kNextBase of the set before it in a union
  Name         \* the sets there are

ASSUME SetAssumption ==
  /\ Default \in Element
  /\ Size \in Nat \ {0}
  /\ Base \in Nat \ {0}

Slot == 0 .. Size - 1
ArraySet == [array : [Slot -> Element], valid : SUBSET Slot]

kUndefined == 0
IDs == {kUndefined} \cup {Base + i : i \in Slot}
IDtoIdx(id) == id - Base
IdxToID(idx) == Base + idx
IsMember(id) == id >= Base /\ id < Size + Base

Empty == [array |-> [i \in Slot |-> Default], valid |-> {}]

size(s) == Cardinality(s.valid)
Contains(s, e) == \E i \in s.valid : s.array[i] = e

Lowest(slots) == CHOOSE i \in slots : \A j \in slots : i <= j

-----------------------------------------------------------------------------
(***************************************************************************)
(* Lookups.  NextValid and NextInvalid first try the slot where it would   *)
(* be if the valid slots were the first ones.                              *)
(***************************************************************************)
NextValid(s) ==
  IF s.valid = {} THEN kUndefined
  ELSE IdxToID(IF size(s) - 1 \in s.valid THEN size(s) - 1 ELSE Lowest(s.valid))

(* Faulty: no fallback when an element was erased from the middle.         *)
NextInvalidGuessed(s) == IF s.valid = Slot THEN kUndefined ELSE IdxToID(size(s))

NextInvalid(s) ==
  IF s.valid = Slot THEN kUndefined
  ELSE IdxToID(IF size(s) \notin s.valid THEN size(s) ELSE Lowest(Slot \ s.valid))

(* Faulty: an element that was erased is still found.                      *)
GetIDStale(s, e) ==
  LET at == {i \in Slot : s.array[i] = e}
  IN  IF at = {} THEN kUndefined ELSE IdxToID(Lowest(at))

GetID(s, e) ==
  LET at == {i \in s.valid : s.array[i] = e}
  IN  IF at = {} THEN kUndefined ELSE IdxToID(Lowest(at))

(* operator(): the element of a singleton, nullptr otherwise.              *)
Only(s) == IF size(s) = 1 THEN {s.array[IDtoIdx(NextValid(s))]} ELSE {}

(* Faulty: what is left in the invalid slots is compared as well.          *)
MatchStale(s, t, i, j) == (i \in s.valid <=> j \in t.valid) /\ s.array[i] = t.array[j]

(* operator==, std::is_permutation: elements are matched one to one, and   *)
(* those that are not valid match any other that is not valid.             *)
Match(s, t, i, j) ==
  IF i \notin s.valid \/ j \notin t.valid
    THEN i \notin s.valid /\ j \notin t.valid
    ELSE s.array[i] = t.array[j]

Equal(s, t) ==
  \E pi \in [Slot -> Slot] :
    /\ \A i, j \in Slot : pi[i] = pi[j] => i = j
    /\ \A i \in Slot : Match(s, t, i, pi[i])

-----------------------------------------------------------------------------
(***************************************************************************)
(* The calls that change a set.  `call' is the kind of the last one, `ret' *)
(* the ID it returned, kUndefined also when it returned false.             *)
(***************************************************************************)
VARIABLES sets, call, ret

vars == <<sets, call, ret>>

TypeOK ==
  /\ sets \in [Name -> ArraySet]
  /\ call \in {"Insert", "Erase", "ID", "Clear", "Assign"}
  /\ ret \in IDs

Init ==
  /\ sets = [n \in Name |-> Empty]
  /\ call = "Clear"
  /\ ret = Base

Become(n, kind, s, id) ==
  /\ sets' = [sets EXCEPT ![n] = s]
  /\ call' = kind
  /\ ret' = id

(* operator[], not const: the slot is valid from now on, and e is written. *)
Put(s, id, e) ==
  [array |-> [s.array EXCEPT ![IDtoIdx(id)] = e],
   valid |-> s.valid \cup {IDtoIdx(id)}]

(* Also what Send does: NextInvalid, then operator[] and the fields.       *)
Insert(n, e) ==
  LET id == NextInvalid(sets[n])
  IN  Become(n, "Insert",
             IF id = kUndefined THEN sets[n] ELSE Put(sets[n], id, e), id)

WriteAt(n, id, e) ==
  IsMember(id) /\ Become(n, "ID", Put(sets[n], id, e), id)

ReadAt(n, id) ==
  /\ IsMember(id)
  /\ Become(n, "ID", Put(sets[n], id, sets[n].array[IDtoIdx(id)]), id)

SetValid(n, id) ==
  IF IsMember(id)
    THEN Become(n, "ID", [sets[n] EXCEPT !.valid = @ \cup {IDtoIdx(id)}], Base)
    ELSE Become(n, "ID", sets[n], kUndefined)

Invalidated(s, id) ==
  IF IsMember(id) THEN [s EXCEPT !.valid = @ \ {IDtoIdx(id)}] ELSE s

SetInvalid(n, id) ==
  Become(n, "ID", Invalidated(sets[n], id),
         IF IsMember(id) THEN Base ELSE kUndefined)

Erase(n, e) ==
  LET id == GetID(sets[n], e)
  IN  Become(n, "Erase", Invalidated(sets[n], id), id)

Clear(n) == Become(n, "Clear", [sets[n] EXCEPT !.valid = {}], Base)

SetAllValid(n) == Become(n, "ID", [sets[n] EXCEPT !.valid = Slot], Base)

Assign(n, m) == Become(n, "Assign", sets[m], Base)

Next ==
  \E n \in Name :
    \/ \E e \in Element : Insert(n, e) \/ Erase(n, e)
    \/ \E id \in IDs \cup {Size + Base} :
         \/ \E e \in Element : WriteAt(n, id, e)
         \/ ReadAt(n, id)
         \/ SetValid(n, id)
         \/ SetInvalid(n, id)
    \/ Clear(n)
    \/ SetAllValid(n)
    \/ \E m \in Name : Assign(n, m)

Spec == Init /\ [][Next]_vars

-----------------------------------------------------------------------------
(***************************************************************************)
(* Properties.                                                             *)
(***************************************************************************)
Content(s) ==
  [e \in {s.array[i] : i \in s.valid} |->
     Cardinality({i \in s.valid : s.array[i] = e})]

(* Two sets are equal exactly if they hold the same elements as often,     *)
(* whatever the slots, and whatever the invalid slots still hold.          *)
EqualIsSameContent ==
  \A n, m \in Name : Equal(sets[n], sets[m]) <=> Content(sets[n]) = Content(sets[m])

(* The lookups agree with the content: an ID found is valid and a free one *)
(* is not, none is given exactly if there is none, and operator() gives    *)
(* the only element wherever it is.                                        *)
LookupsAreExact ==
  \A n \in Name :
    LET s == sets[n]
    IN  /\ (NextValid(s) = kUndefined) = (s.valid = {})
        /\ s.valid # {} => IDtoIdx(NextValid(s)) \in s.valid
        /\ (NextInvalid(s) = kUndefined) = (s.valid = Slot)
        /\ s.valid # Slot => IDtoIdx(NextInvalid(s)) \in Slot \ s.valid
        /\ Only(s) = {e \in Element : Content(s) = [f \in {e} |-> 1]}
        /\ \A e \in Element :
             /\ Contains(s, e) = (GetID(s, e) # kUndefined)
             /\ Contains(s, e) => s.array[IDtoIdx(GetID(s, e))] = e

Abstract == INSTANCE BoundedBags WITH
  bag <- [n \in Name |-> Content(sets[n])],
  found <- ret # kUndefined

(* An ArraySet is the bag it promises to be: an insertion loses no other   *)
(* element and is refused only when the set is full, Erase removes one     *)
(* copy, and an assignment copies all.                                     *)
ImplementsBags == Abstract!Spec
=============================================================================
