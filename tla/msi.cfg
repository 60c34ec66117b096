SPECIFICATION FairSpec
CONSTANTS
  p1 = p1
  p2 = p2
  p3 = p3
  Proc = {p1, p2, p3}
  Dir = Dir
  NoProc = NoProc
  NetMax = 4
INVARIANTS
  SWMR
  NoErrorThrown
  AcksAccountedFor
  DirectoryTracksCopies
PROPERTIES
  EventuallyStable
  NoPingPong
