---------------------------- MODULE BoundedBags ----------------------------
(***************************************************************************)
(* What the sets of core/types.hh promise: bags of at most Size elements,  *)
(* which reveal neither the order nor the places of their elements.        *)
(* `call' is the kind of the last call, and `found' tells if it found what *)
(* it needed: room for a new element, the element to erase, the ID.  Only  *)
(* a call that names an ID may change an element for another or bring back *)
(* what the slots of erased elements still hold.                           *)
(***************************************************************************)
EXTENDS Integers, Bags, BagsExt

CONSTANTS Name, Element, Size

VARIABLES bag, call, found

vars == <<bag, call, found>>

Init ==
  /\ bag = [n \in Name |-> EmptyBag]
  /\ call = "Clear"
  /\ found = TRUE

Insert(n, e) ==
  /\ call' = "Insert"
  /\ found' = (BagCardinality(bag[n]) < Size)
  /\ bag' = IF found' THEN [bag EXCEPT ![n] = BagAdd(@, e)] ELSE bag

Erase(n, e) ==
  /\ call' = "Erase"
  /\ found' = BagIn(e, bag[n])
  /\ bag' = [bag EXCEPT ![n] = BagRemove(@, e)]

Clear(n) ==
  /\ call' = "Clear"
  /\ bag' = [bag EXCEPT ![n] = EmptyBag]
  /\ found' = TRUE

Assign(n, m) ==
  /\ call' = "Assign"
  /\ bag' = [bag EXCEPT ![n] = bag[m]]
  /\ found' = TRUE

(* Calls with an ID: an element is changed for another or removed, one     *)
(* comes back or is written into a free slot, or all slots are filled with *)
(* what they still hold.                                                   *)
Change(n, e, f) ==
  /\ BagIn(e, bag[n])
  /\ bag' = [bag EXCEPT ![n] = BagAdd(BagRemove(@, e), f)]
Remove(n, e) ==
  bag' = [bag EXCEPT ![n] = BagRemove(@, e)]
Revive(n, e) ==
  /\ BagCardinality(bag[n]) < Size
  /\ bag' = [bag EXCEPT ![n] = BagAdd(@, e)]
Fill(n) ==
  /\ \A m \in Name \ {n} : bag'[m] = bag[m]
  /\ bag[n] \sqsubseteq bag'[n]
  /\ BagCardinality(bag'[n]) = Size
ByID ==
  /\ call' = "ID"
  /\ \/ found' = FALSE /\ UNCHANGED bag
     \/ /\ found' = TRUE
        /\ \E n \in Name :
             \/ \E e, f \in Element : Change(n, e, f)
             \/ \E e \in Element : Remove(n, e) \/ Revive(n, e)
             \/ Fill(n)

Next ==
  \/ \E n \in Name :
       \/ \E e \in Element : Insert(n, e) \/ Erase(n, e)
       \/ Clear(n)
       \/ \E m \in Name : Assign(n, m)
  \/ ByID

Spec == Init /\ [][Next]_vars
=============================================================================
