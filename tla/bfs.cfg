SPECIFICATION CommandSpec
CONSTANTS
  a = a
  b = b
  c = c
  d = d
  r1 = r1
  r2 = r2
  n1 = n1
  n2 = n2
  I = I
  T = T
  U = U
  V = V
  Node = {n1, n2}
  NodeState = {I, T, U, V}
  Stable = {I}
  NodeStates <- NodeStatesOf
  State = {a, b, c, d}
  Rule = {r1, r2}
  HashVal = {1, 2, 3, 4}
  Refused = Refused
  Hole = Hole
  NoParent = NoParent
  Systems <- MCSystems
  StartQueues <- MCStarts
  Verbose = {TRUE, FALSE}
  MonitorStops = TRUE
INVARIANTS
  SearchInv
  ReturnIsExhaustive
  TraceIsShortestCounterexample
  AcceptingReturned
  VerdictIsSound
  FailureIsReal
PROPERTIES
  ImplementsStateSearch
CHECK_DEADLOCK FALSE
