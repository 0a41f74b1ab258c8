SPECIFICATION TopicSpec
CONSTANTS
  n1 = n1
  n2 = n2
  c1 = c1
  r1 = r1
  Nonces = {n1, n2, n3}
  Callers = {c1, c2}
  NoOne = NoOne
  Window = 3
  Second = 2
  CompactAfter = 1
  Capacity = 2
  MaxRefs = 2
  MaxPending = 1
  MaxClock = 4
  Conns = {r1, r2}
  Hellos = {h1}
  None = None
  MaxConns = 2
  MaxHandshakes = 2
  PerSecond = 1
  MaxSkew = 1
  Patience = 1
  Stamps = {0, 1}
  MaxWall = 2
INVARIANTS
  GrantsDurable
  SlotsExact OncePerRecord SealedClose HalfClosePreserved
PROPERTIES GuardSpec AcceptTerminates CloseReturns
CHECK_DEADLOCK FALSE
