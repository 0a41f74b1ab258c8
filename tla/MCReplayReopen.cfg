SPECIFICATION Spec
CONSTANTS
  Nonces = {n1, n2}
  Callers = {c1, c2}
  NoOne = NoOne
  Window = 2
  Second = 2
  CompactAfter = 1
  Capacity = 2
  MaxRefs = 1
  MaxPending = 1
  MaxClock = 1
INVARIANT AllGrantsDurable
CHECK_DEADLOCK FALSE
