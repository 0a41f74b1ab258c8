CONSTANTS
  Carriers = {k1, k2, k3}
  Dials = {d1, d2}
  None = None
  BaseCarriers = {k1}
  MaxCarriers = 2
  Callers = {a1}
  Threshold = 1
  Peak = 6
  MinIdle = 1
  Cooldown = 1
  Sessions = {s1}
  Skew = 1
  Bucket = 2
  CacheWindow = 4
  Idle = 2
  Retention = 2
  Size = 2
  MaxSeq = 3
  MaxQueue = 1
  MaxTime = 6
SPECIFICATION PartSpec
INVARIANTS ReservationsExact NoStreamEvicted NothingAfterClose NoReplay
PROPERTIES IdleReclaimed CloseReturns ResumesNextBucket
CHECK_DEADLOCK FALSE
