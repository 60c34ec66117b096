SPECIFICATION Spec
CONSTANTS
  SizeMax = 127
  Wildcard = 0
  IntBits = 32
  SizeBits = 64
  h1 = h1
  h2 = h2
  h3 = h3
  h4 = h4
  Hole = {h1, h2, h3, h4}
  Options <- Uneven
  Systems <- Skipping
  Pruning = {TRUE}
  ThreadCounts = {3}
  MaxCombinations = 127
  MinPerThread = 1
  TargetCandidates = 0
INVARIANTS
  OnlyFaultySkipped
CHECK_DEADLOCK FALSE
