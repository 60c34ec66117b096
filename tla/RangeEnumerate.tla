--------------------------- MODULE RangeEnumerate ---------------------------
(***************************************************************************)
(* synthesis/enumerate.hh and enumerate.cc: RangeEnumerate, the counter    *)
(* over all candidates.  One action per member function that changes it;   *)
(* `call' is the last call and `outcome' how it ended.  Copies and moves   *)
(* rebuild label_map_, which is the positions of `labels' here.            *)
(***************************************************************************)
EXTENDS RangeValues

CONSTANTS
  Label,             \* the labels of values
  MaxCombinations,   \* --synth_max_combinations
  Ranges,            \* the ranges that values are extended by
  Counts,            \* the counts that values are advanced by
  Bounds             \* the bounds given to SetBounded

ASSUME EnumerateAssumption ==
  /\ MaxCombinations \in 1 .. SizeMax
  /\ Ranges \subseteq 1 .. SizeMax
  /\ Counts \subseteq 0 .. SizeMax
  /\ Bounds \subseteq 0 .. SizeMax

VARIABLES values, labels, combinations, call, outcome

vars == <<values, labels, combinations, call, outcome>>

(* Every value stays below its range, and every value has its own label.   *)
TypeOK ==
  /\ values \in Seq(Value)
  /\ InRange(values)
  /\ labels \in Seq(Label)
  /\ Len(labels) = Len(values)
  /\ \A i, j \in DOMAIN labels : labels[i] = labels[j] => i = j
  /\ combinations \in 0 .. SizeMax
  /\ outcome \in {"ok", "overflow", "domain_error", "overflow_error"}

Init ==
  /\ values = <<>>
  /\ labels = <<>>
  /\ combinations = 0
  /\ call = <<"RangeEnumerate">>
  /\ outcome = "ok"

(* Faulty: the new value becomes the least significant one.                *)
Prepended(range) == <<[value |-> 0, range |-> range]>> \o values

Extended(range) == Append(values, [value |-> 0, range |-> range])

Extend(range, label) ==
  LET product == IF combinations = 0
                   THEN range
                   ELSE (combinations * range) % (SizeMax + 1)
  IN  /\ call' = <<"Extend", range>>
      /\ \/ /\ \E i \in DOMAIN labels : labels[i] = label
            /\ outcome' = "domain_error"
            /\ UNCHANGED <<values, labels, combinations>>
         \/ /\ \A i \in DOMAIN labels : labels[i] # label
            /\ ProductOverflows(combinations, range)
            /\ outcome' = "overflow_error"
            /\ UNCHANGED <<values, labels, combinations>>
         \/ /\ \A i \in DOMAIN labels : labels[i] # label
            /\ ~ProductOverflows(combinations, range)
            /\ combinations' = product
            /\ IF product > MaxCombinations
                 THEN /\ outcome' = "overflow_error"
                      /\ UNCHANGED <<values, labels>>
                 ELSE /\ outcome' = "ok"
                      /\ values' = Extended(range)
                      /\ labels' = Append(labels, label)

Advance(count) ==
  /\ values' = Advanced(values, 0, count)
  /\ outcome' = IF Overflows(values, 0, count) THEN "overflow" ELSE "ok"
  /\ call' = <<"Advance", count>>
  /\ UNCHANGED <<labels, combinations>>

Set(name, to) ==
  /\ values' = to
  /\ call' = name
  /\ outcome' = "ok"
  /\ UNCHANGED <<labels, combinations>>

SetMin == Set(<<"SetMin">>, AtMin(values))
SetMax == Set(<<"SetMax">>, AtMax(values))
SetBounded(min, max) ==
  min <= max /\ Set(<<"SetBounded", min, max>>, Bounded(values, min, max))
SetFrom(other) == Set(<<"SetFrom">>, From(values, other))

Clear ==
  /\ values' = <<>>
  /\ labels' = <<>>
  /\ combinations' = 0
  /\ call' = <<"Clear">>
  /\ outcome' = "ok"

Next ==
  \/ \E range \in Ranges, label \in Label : Extend(range, label)
  \/ \E count \in Counts : Advance(count)
  \/ SetMin
  \/ SetMax
  \/ \E min, max \in Bounds : SetBounded(min, max)
  \/ \E n \in 0 .. Len(values) :
       \E other \in Assignments(SubSeq(values, 1, n)) : SetFrom(other)
  \/ Clear

Spec == Init /\ [][Next]_vars

-----------------------------------------------------------------------------
(* combinations() is the number of assignments of the values there are:    *)
(* the product of their ranges, 0 while there is none.  ParallelSolver     *)
(* divides this number among its threads.  But an Extend that is rejected  *)
(* for --synth_max_combinations has multiplied it all the same: it stays   *)
(* above the limit and no Extend succeeds before the next Clear.           *)
CombinationsIsProduct ==
  /\ combinations <= MaxCombinations =>
       combinations = IF values = <<>> THEN 0 ELSE Product(values)
  /\ combinations > MaxCombinations =>
       /\ combinations >= Product(values)
       /\ call[1] = "Extend" => outcome # "ok"

(* Advance(count) adds count to the number the values stand for, and       *)
(* returns false exactly if the sum is not below the product.  (A value   *)
(* plus count beyond std::size_t wraps and is left out.)                   *)
AdvanceAdds ==
  [][\A count \in Counts :
       (/\ call' = <<"Advance", count>>
        /\ values # <<>>
        /\ \A i \in DOMAIN values : values[i].value + count <= SizeMax)
       => /\ Number(values') = (Number(values) + count) % Product(values)
          /\ outcome' = "overflow" <=> Number(values) + count >= Product(values)
    ]_vars

(* Extend never renumbers: IDs and the number of every candidate found     *)
(* so far stay what they were, which is why enumerated_candidates of       *)
(* ParallelSolver remains meaningful when a hole is discovered.            *)
ExtendKeepsNumbers ==
  [][call'[1] = "Extend" =>
       /\ SubSeq(values', 1, Len(values)) = values
       /\ Number(values') = Number(values)]_vars

(* operator< and its relatives, which end a solver's loop, order           *)
(* assignments by their numbers.                                           *)
CompareIsNumeric ==
  \A other \in Assignments(values) :
    LET l == Number(values)
        r == Number(other)
    IN  Compare(values, other) = IF l < r THEN -1 ELSE IF l > r THEN 1 ELSE 0
=============================================================================
