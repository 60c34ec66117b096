------------------------------ MODULE Patterns ------------------------------
(***************************************************************************)
(* synthesis/enumerate.hh and enumerate.cc: what RangeEnumerateMatcher     *)
(* computes.  A candidate is the sequence of its values; a pattern is a    *)
(* candidate some of whose values are the wildcard and match any value.    *)
(* Patterns are kept by the bit pattern of their other positions:          *)
(* `patterns' maps each bit pattern to its set of sparse patterns.         *)
(*                                                                         *)
(* A std::size_t used as a bit pattern is the set of its bits.  The code   *)
(* shifts an int: the result is converted to std::size_t with its sign,    *)
(* and a shift by IntBits or more, undefined in C++, takes the distance    *)
(* modulo IntBits as x86 does.                                             *)
(***************************************************************************)
EXTENDS Integers, Sequences, FiniteSets, FiniteSetsExt

CONSTANTS
  Wildcard,   \* wildcard_
  IntBits,    \* the width of int
  SizeBits    \* the width of std::size_t, and kMaxValuesSize

ASSUME WidthAssumption ==
  /\ Wildcard \in Nat
  /\ IntBits \in Nat \ {0}
  /\ SizeBits \in Nat \ {0}
  /\ IntBits <= SizeBits

kInvalidID == -1
NoPatterns == <<>>   \* patterns_ when empty: the function without domain

(* 1 << i, and (1 << i) - 1.                                               *)
ShiftedOne(i) ==
  LET bit == i % IntBits
  IN  IF bit = IntBits - 1 THEN bit .. SizeBits - 1 ELSE {bit}
OnesBelow(i) == 0 .. (i % IntBits) - 1

(* a <= b for two bit patterns: the highest bit in which they differ.      *)
BitsLeq(a, b) == a = b \/ Max(SymDiff(a, b)) \in b

NonWildcards(c) == {i \in 0 .. Len(c) - 1 : c[i + 1] # Wildcard}

AsBitPattern(c) == UNION {ShiftedOne(i) : i \in NonWildcards(c)}
LowerBound(c) == ShiftedOne(Min(NonWildcards(c)))

(* Faulty: patterns that have the last value are above the bound.          *)
BelowLast(c) == OnesBelow(Max(NonWildcards(c)))

UpperBound(c) == OnesBelow(Max(NonWildcards(c)) + 1)

(* RangeEnumerateToVector: the values at the bits set.                     *)
Sparse(c, bits) == [i \in bits \cap 0 .. Len(c) - 1 |-> c[i + 1]]

(* Its contracts, when a pattern is inserted.                              *)
SparseExpects(c, bits) ==
  /\ \A i \in DOMAIN Sparse(c, bits) : c[i + 1] # Wildcard
  /\ \A i \in NonWildcards(c) : i <= Max(bits) => i \in bits
  /\ Cardinality(DOMAIN Sparse(c, bits)) = Cardinality(NonWildcards(c))

-----------------------------------------------------------------------------
Inserted(patterns, c) ==
  LET bits == AsBitPattern(c)
      old == IF bits \in DOMAIN patterns THEN patterns[bits] ELSE {}
  IN  [b \in DOMAIN patterns \cup {bits} |->
         IF b = bits THEN old \cup {Sparse(c, bits)} ELSE patterns[b]]

(* The bit patterns that c has values for, in the range searched.          *)
Comparable(patterns, c) ==
  {bits \in DOMAIN patterns :
     /\ BitsLeq(LowerBound(c), bits)
     /\ BitsLeq(bits, UpperBound(c))
     /\ bits \subseteq AsBitPattern(c)}

(* Faulty: the most significant value of the match.                        *)
LastID(bits, c) == Max(bits \cap 0 .. Len(c) - 1)

FirstID(bits, c) == Min(bits \cap 0 .. Len(c) - 1)

(* The first bit pattern, in ascending order, with a match decides.        *)
Match(patterns, c) ==
  LET hits == IF NonWildcards(c) = {} THEN {}
              ELSE {bits \in Comparable(patterns, c) :
                      Sparse(c, bits) \in patterns[bits]}
      first == CHOOSE b \in hits : \A d \in hits : BitsLeq(b, d)
  IN  IF hits = {} THEN kInvalidID ELSE FirstID(first, c)

-----------------------------------------------------------------------------
(* What a pattern stands for: the candidates that have its values.         *)
Covers(p, c) ==
  \A i \in DOMAIN p : p[i] # Wildcard => i \in DOMAIN c /\ c[i] = p[i]
=============================================================================
