SPECIFICATION Spec
CONSTANTS
  Pid = {t1, t2, t3}
  Addr = {x, y}
  NoPid = NoPid
  AcceptRf = 4
  AcceptCo = 2
SYMMETRY Symmetry
INVARIANTS
  ExecutionIsTSO
  CoherenceIsWriteOrder
CHECK_DEADLOCK FALSE
