SPECIFICATION Spec
CONSTANTS
  a = a
  b = b
  c = c
  d = d
  r1 = r1
  r2 = r2
  State = {a, b, c, d}
  Rule = {r1, r2}
  HashVal = {1, 2, 3, 4}
  Refused = Refused
  Hole = Hole
  Systems <- Colliding
  StartQueues <- StartQueues4
  Verbose = {TRUE, FALSE}
  MonitorStops = TRUE
INVARIANTS
  LossOnlyByCollision
  TraceIsGenuine
PROPERTIES
  ImplementsStateSearch
CHECK_DEADLOCK FALSE
