SPECIFICATION Spec
CONSTANTS
  SizeMax = 63
  Wildcard = 0
  IntBits = 32
  SizeBits = 64
  h1 = h1
  h2 = h2
  h3 = h3
  h4 = h4
  Hole = {h1, h2, h3}
  Options <- Two
  Systems <- AllButFaulty
  Pruning = {FALSE}
  ThreadCounts = {2}
  MaxCombinations = 63
  MinPerThread = 1
  TargetCandidates = 0
INVARIANTS
  EveryCandidateDispatched
CHECK_DEADLOCK FALSE
