CONSTANTS
  Conns = {r1}
  Hellos = {h1}
  None = None
  MaxConns = 1
  MaxHandshakes = 1
  PerSecond = 1
  MaxSkew = 1
  Patience = 0
  Stamps = {1}
  MaxWall = 2
SPECIFICATION ServerSpec
INVARIANTS OncePerNonce
CHECK_DEADLOCK FALSE
