CONSTANTS
  k1 = k1
  k2 = k2
  a1 = a1
  a2 = a2
  Keys = {k1, k2}
  Addresses = {a1, a2}
  ICMP = {a2}
  Tasks <- MCTasks
  Workers = {w1, w2}
  Targets = {t1, t2}
  None = None
  QueueSize = 1
  MaxMem = 2
  MaxSessions = 1
  MaxTargets = 1
  Budget = 1
SPECIFICATION Spec
INVARIANTS SessionLimit
CHECK_DEADLOCK FALSE
