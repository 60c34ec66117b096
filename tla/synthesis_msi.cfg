SPECIFICATION Spec
CONSTANTS
  Proc = {p1, p2, p3}
  Dir = Dir
  NoProc = NoProc
  NetMax = 4
  Completions <- Accepted
INVARIANTS
  Coherent
  NoErrorThrown
  AcksAccountedFor
  DirectoryTracksCopies
PROPERTIES
  NoLivelock
  ReferenceSatisfiesAccesses
