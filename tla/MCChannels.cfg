SPECIFICATION ChannelSpec
CONSTANTS
  Size = 3
  Skew = 1
  RingSize = 2
  MaxSeq = 8
  MaxResp = 2
  MaxClock = 3
  MinChunk = 1
  MidChunk = 1
  MaxChunk = 2
  Phase1 = 1
  Phase2 = 2
  Batch = 6
  MaxSequence = 4
  WriteSizes = {1, 4}
  MaxBytes = 6
  MaxTimeouts = 1
  Keys <- MCKeys
  Stranger = "nobody"
  MaxSkew = 1
  MaxPad = 2
  DomainLens = {3, 4}
  RingCapacity = 3
  RingFirst = 1
  RingSizes = {1, 2, 4}
  RingBytes = 9
INVARIANTS
  WindowExact ResponseOnce FreshResponseAccepted
  NothingHeldBack FailsOnlyOnFault HandshakeAgrees
PROPERTIES PipesSpec EndsArrive
CHECK_DEADLOCK FALSE
