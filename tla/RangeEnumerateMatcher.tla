----------------------- MODULE RangeEnumerateMatcher -----------------------
(***************************************************************************)
(* synthesis/enumerate.hh and enumerate.cc: RangeEnumerateMatcher, the     *)
(* patterns of faulty candidates that all solvers share.  Every operation  *)
(* holds the mutex while it uses patterns_, and is one step.  `inserted'   *)
(* remembers the candidates that were inserted.                            *)
(***************************************************************************)
EXTENDS Patterns

CONSTANTS
  Candidates,     \* the candidates inserted and matched
  MaxInserted     \* bound: the number of candidates inserted

ASSUME CandidatesAssumption ==
  /\ Candidates \subseteq Seq(Nat)
  /\ \A c \in Candidates : Len(c) <= SizeBits
  /\ MaxInserted \in Nat

VARIABLES patterns_, size, inserted, outcome

matcher_vars == <<patterns_, size, inserted, outcome>>

(* Under a bit pattern there are only sparse patterns with these bits, and *)
(* size() is the number of all of them.                                    *)
MatcherTypeOK ==
  /\ DOMAIN patterns_ \subseteq SUBSET (0 .. SizeBits - 1)
  /\ \A bits \in DOMAIN patterns_ :
       patterns_[bits] # {} /\ \A s \in patterns_[bits] : DOMAIN s \subseteq bits
  /\ size = Cardinality(UNION {{bits} \X patterns_[bits] :
                                bits \in DOMAIN patterns_})
  /\ inserted \subseteq Candidates
  /\ outcome \in {"ok", "too many", "logic_error", "aborted"}

MatcherInit ==
  /\ patterns_ = NoPatterns
  /\ size = 0
  /\ inserted = {}
  /\ outcome = "ok"

(* ++size_ if emplace inserted.                                            *)
Counted(c) ==
  LET bits == AsBitPattern(c)
  IN  IF bits \in DOMAIN patterns_ /\ Sparse(c, bits) \in patterns_[bits]
        THEN size ELSE size + 1

Insert(c, max_nonwildcard) ==
  /\ outcome # "aborted"
  /\ \/ /\ max_nonwildcard < Cardinality(NonWildcards(c))
        /\ outcome' = "too many"
        /\ UNCHANGED <<patterns_, size, inserted>>
     \/ /\ max_nonwildcard >= Cardinality(NonWildcards(c))
        /\ NonWildcards(c) = {}
        /\ outcome' = "logic_error"
        /\ UNCHANGED <<patterns_, size, inserted>>
     \/ /\ max_nonwildcard >= Cardinality(NonWildcards(c))
        /\ NonWildcards(c) # {}
        /\ IF SparseExpects(c, AsBitPattern(c))
             THEN /\ Cardinality(inserted \cup {c}) <= MaxInserted
                  /\ patterns_' = Inserted(patterns_, c)
                  /\ size' = Counted(c)
                  /\ inserted' = inserted \cup {c}
                  /\ outcome' = "ok"
             ELSE /\ outcome' = "aborted"
                  /\ UNCHANGED <<patterns_, size, inserted>>

Clear ==
  /\ outcome # "aborted"
  /\ patterns_' = NoPatterns
  /\ size' = 0
  /\ inserted' = {}
  /\ outcome' = "ok"

MatcherNext ==
  \/ \E c \in Candidates, n \in {1, SizeBits} : Insert(c, n)
  \/ Clear

MatcherSpec == MatcherInit /\ [][MatcherNext]_matcher_vars

-----------------------------------------------------------------------------
(* Match finds a match exactly if some inserted candidate covers the one   *)
(* asked about: neither the bounds on the bit patterns searched nor the    *)
(* filter by bits loses one, also for candidates of other lengths.         *)
MatchIsExact ==
  \A c \in Candidates :
    Match(patterns_, c) # kInvalidID <=> \E p \in inserted : Covers(p, c)

(* An ID that Match returns may be advanced without looking at the lower   *)
(* values: whatever they are, some inserted candidate covers the result.   *)
(* This is what RangeEnumerate::Advance takes "the first mismatch" for.    *)
LowerValuesIrrelevant ==
  \A c \in Candidates :
    LET id == Match(patterns_, c)
    IN  id # kInvalidID =>
          \A d \in Candidates :
            Len(d) = Len(c) /\ (\A i \in id + 1 .. Len(c) : c[i] = d[i])
            => \E p \in inserted : Covers(p, d)
=============================================================================
