SPECIFICATION FairSpec
CONSTANTS
  SizeMax = 63
  Wildcard = 0
  IntBits = 32
  SizeBits = 64
  h1 = h1
  h2 = h2
  h3 = h3
  h4 = h4
  Hole = {h1, h2, h3, h4}
  Options <- TwoOrFour
  Systems <- AllAndLimited
  Pruning = {TRUE, FALSE}
  ThreadCounts = {1, 2}
  MaxCombinations = 27
  MinPerThread = 1
  TargetCandidates = 0
INVARIANTS
  NoCandidateTwice
  SolutionsAreCorrect
  PatternsCoverFaulty
  ThrowsForAReason
  OnlyFaultySkipped
  SolutionsFound
PROPERTIES
  Terminates
CHECK_DEADLOCK FALSE
