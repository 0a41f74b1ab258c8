SPECIFICATION EndpointSpec
CONSTANTS
  Callers = {c1, c2}
  Ticker = tickerLoop
  Closer = closeCall
  None = none
  UdpKeys = {"u"}
  IcmpKeys = {"i"}
  MaxRoutes = 1
  RouteLimit = 1
  RouteIdle = 1
  RouteCalls = 2
  RouteClock = 1
  Writers = {w1, w2}
  PipeCalls = 3
  Deadlines = 2
  Assocs = {1, 2, 3}
  Peer <- MCPeer
  Costs = {1, 2}
  QueueSlots = 2
  SocketBytes = 3
  ProcessBytes = 4
  MaxFeeds = 3
  Dialers = {1, 2}
  Manager = 0
  SlotsOf <- MCSlotsOf
  DialCalls = 2
  PacketReaders = {1, 2}
  PacketClock = 2
  DeadlineMoves = 2
  Consumers = {1, 2}
  MaxChunks = 3
  ChunkSizes = {0, 2}
  BufferSizes = {1, 2}
  ReadMoves = 2
  InitialCapacity = 2
  MaxCapacity = 3
  MaxAge = 1
  FlowBytes = 4
  GlobalBytes = 4
  BatchSize = 2
  PacketSizes = {1, 2}
  MaxPushes = 4
  SenderClock = 2
  Torn = torn
  MaxChanges = 4
INVARIANTS EndpointsOwned EndpointsHonest
PROPERTIES EndpointsReturn
CHECK_DEADLOCK FALSE
