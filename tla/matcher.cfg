SPECIFICATION MatcherSpec
CONSTANTS
  Wildcard = 0
  IntBits = 4
  SizeBits = 8
  Candidates <- Short
  MaxInserted = 3
INVARIANTS
  MatchIsExact
  LowerValuesIrrelevant
