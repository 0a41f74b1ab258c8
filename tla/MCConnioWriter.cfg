SPECIFICATION FairSpec
CONSTANTS
  Procs = {p1, p2}
  Requests = {r1, r2, r3}
  NoReq = NoReq
  MaxOps = 3
INVARIANTS LeasesIntact QueueDiscipline HonestCount HalfCloseComplete
PROPERTY ExitDrains
