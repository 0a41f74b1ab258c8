CONSTANTS
  Forwarders = {f1, f2}
  Addresses = {a1, a2}
  ICMP = {a2}
  Targets = {t1, t2}
  None = None
  MaxTargets = 1
  Budget = 1
  MaxOthers = 1
SPECIFICATION FairSpec
INVARIANTS BudgetExact CachedLive NothingAfterClose
PROPERTIES CloseReturns
