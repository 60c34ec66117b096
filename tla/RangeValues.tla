---------------------------- MODULE RangeValues ----------------------------
(***************************************************************************)
(* synthesis/enumerate.hh: RangeEnumerate::Values, the digits of a         *)
(* candidate.  Values are a mixed-radix number, the least significant      *)
(* value first; ID i of the code is the value at position i + 1.           *)
(***************************************************************************)
EXTENDS Integers, Sequences

CONSTANT SizeMax   \* the largest std::size_t

ASSUME SizeAssumption == SizeMax \in Nat \ {0}

Value == [value : Nat, range : Nat \ {0}]

(* set_value Expects every value below its range.                          *)
InRange(values) == \A i \in DOMAIN values : values[i].value < values[i].range

Digits(values) == [i \in DOMAIN values |-> values[i].value]

(* The weight of position i + 1, and so the product of all ranges.         *)
Weight(values) ==
  LET w[i \in 0 .. Len(values)] ==
        IF i = 0 THEN 1 ELSE w[i - 1] * values[i].range
  IN  w
Product(values) == Weight(values)[Len(values)]

(* Faulty: the product is not checked before it is taken.                  *)
NeverOverflows(product, range) == FALSE

(* A product times another range would not fit a std::size_t.              *)
ProductOverflows(product, range) ==
  product # 0 /\ SizeMax \div range < product

(* The number that the values stand for.                                   *)
Number(values) ==
  LET w == Weight(values)
      n[i \in 0 .. Len(values)] ==
        IF i = 0 THEN 0 ELSE n[i - 1] + values[i].value * w[i - 1]
  IN  n[Len(values)]

(* All assignments of the same ranges.                                     *)
Assignments(values) ==
  LET some == UNION {0 .. values[i].range - 1 : i \in DOMAIN values}
  IN  {[i \in DOMAIN values |-> [value |-> d[i], range |-> values[i].range]] :
         d \in {e \in [DOMAIN values -> some] :
                  \A i \in DOMAIN values : e[i] < values[i].range}}

-----------------------------------------------------------------------------
(***************************************************************************)
(* Advance by count from ID `from' on: the carry into each position, the   *)
(* values, and whether a carry is left (Advance then returns false).       *)
(***************************************************************************)
Sum(a, b) == (a + b) % (SizeMax + 1)

(* Faulty: the carry is one, however often the count exceeds the range.    *)
CarryOne(values, from, count) ==
  LET c[i \in from .. Len(values)] ==
        IF i = from THEN count
        ELSE IF Sum(values[i].value, c[i - 1]) < values[i].range THEN 0 ELSE 1
  IN  c

Carry(values, from, count) ==
  LET c[i \in from .. Len(values)] ==
        IF i = from THEN count
                    ELSE Sum(values[i].value, c[i - 1]) \div values[i].range
  IN  c

Advanced(values, from, count) ==
  LET c == Carry(values, from, count)
  IN  [i \in DOMAIN values |->
         IF i <= from THEN values[i]
         ELSE [values[i] EXCEPT
                 !.value = Sum(@, c[i - 1]) % values[i].range]]

Overflows(values, from, count) ==
  \/ from >= Len(values)
  \/ Carry(values, from, count)[Len(values)] > 0

-----------------------------------------------------------------------------
AtMin(values) == [i \in DOMAIN values |-> [values[i] EXCEPT !.value = 0]]

AtMax(values) ==
  [i \in DOMAIN values |-> [values[i] EXCEPT !.value = values[i].range - 1]]

(* A value below min goes to min or its largest, one above max to max.     *)
Bounded(values, min, max) ==
  [i \in DOMAIN values |->
     [values[i] EXCEPT
        !.value = IF @ < min
                    THEN IF min < values[i].range THEN min
                                                  ELSE values[i].range - 1
                    ELSE IF @ > max THEN max ELSE @]]

(* The common prefix is taken from the other's.                            *)
From(values, other) ==
  [i \in DOMAIN values |-> IF i \in DOMAIN other THEN other[i] ELSE values[i]]

(* Faulty: the least significant difference decides.                       *)
CompareUp(values, rhs) ==
  LET differ == {i \in DOMAIN values : values[i].value # rhs[i].value}
  IN  IF differ = {} THEN 0
      ELSE LET low == CHOOSE i \in differ : \A j \in differ : i <= j
           IN  IF values[low].value < rhs[low].value THEN -1 ELSE 1

(* -1, 0 or 1, decided by the most significant difference.                 *)
Compare(values, rhs) ==
  LET differ == {i \in DOMAIN values : values[i].value # rhs[i].value}
  IN  IF differ = {} THEN 0
      ELSE LET top == CHOOSE i \in differ : \A j \in differ : j <= i
           IN  IF values[top].value < rhs[top].value THEN -1 ELSE 1
=============================================================================
