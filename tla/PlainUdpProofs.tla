--------------------------- MODULE PlainUdpProofs ---------------------------
(***************************************************************************)
(* TLAPS proofs about PlainUdp for any keys, addresses, workers, targets   *)
(* and limits.                                                             *)
(***************************************************************************)
EXTENDS PlainUdp, FiniteSetTheorems, TLAPS

\* The prover of a leaf that names no other.
USE Zenon

Open == {"count", "lock", "target", "resolve", "install"}  \* has a session
Locked == {"target", "resolve", "install"}                 \* and its lock
Dialing == {"resolve", "install"}                          \* and a lease
Labels == {"idle", "session", "store"} \cup Open

Homes == Keys \X Addresses
Swept == {"upstream", "done"}
Late == {"sweep"} \cup Swept     \* the workers have been joined

Types ==
  /\ workerOf \in [Keys -> Workers]
  /\ closed \in BOOLEAN /\ cancelled \in BOOLEAN
  /\ serve \in {"new", "loop", "workers"} \cup Late
  /\ queue \in [Workers -> Seq(Tasks)] /\ pc \in [Workers -> Labels]
  /\ task \in [Workers -> Tasks \cup {None}] /\ stale \subseteq Workers
  /\ made \in [Workers -> Targets \cup {None}]
  /\ inFlightMem \in Int /\ sessionCount \in Int
  /\ sessions \subseteq Keys /\ IsFiniteSet(sessions)
  /\ targetMu \in [Keys -> Workers \cup {None}] /\ idle \subseteq Keys
  /\ targets \in [Keys -> [Addresses -> Targets \cup {None}]]
  /\ targetCount \in [Keys -> Int] /\ leased \subseteq Targets
  /\ reader \in [Targets -> {"none", "read", "uncount"}]
  /\ home \in [Targets -> Homes \cup {None}]
  /\ cleaner \in {"idle", "try", "count", "gone"}
  /\ victim \in Keys \cup {None}

\* A worker has a task, a lock and a target as its program counter says, and
\* the keys of its tasks are its own.
WorkInv ==
  /\ \A w \in Workers : pc[w] = "idle" <=> task[w] = None
  /\ \A w \in Workers : pc[w] # "idle" => workerOf[task[w].key] = w
  /\ \A w \in Workers : \A i \in 1..Len(queue[w]) :
       workerOf[queue[w][i].key] = w
  /\ \A w \in Workers : pc[w] \in Dialing <=> made[w] # None
  /\ \A w \in Workers : pc[w] \in Locked =>
       targetMu[task[w].key] = w /\ w \notin stale
  /\ \A k \in Keys : targetMu[k] # None =>
       pc[targetMu[k]] \in Locked /\ task[targetMu[k]].key = k
  /\ \A w \in stale : pc[w] \in {"count", "lock"}

\* Who has a session that was not closed under them finds it in the table.
SessionInv ==
  /\ \A w \in Workers \ stale : pc[w] \in Open => task[w].key \in sessions
  /\ \A w \in Workers : pc[w] = "store" => task[w].key \notin sessions
  /\ cleaner \in {"try", "count"} => victim \in Keys
  /\ cleaner = "try" /\ serve \notin Swept => victim \in sessions

\* A listed target has its reader, which knows where it is listed.
ListInv ==
  /\ \A k \in Keys, a \in Addresses : targets[k][a] # None =>
       \/ reader[targets[k][a]] = "read" /\ home[targets[k][a]] = <<k, a>>
       \/ reader[targets[k][a]] = "none" /\ (closed \/ cancelled)
  /\ \A t \in Targets, k \in Keys, a \in Addresses :
       reader[t] = "read" /\ home[t] = <<k, a>> => targets[k][a] = t
  /\ \A k, l \in Keys, a, b \in Addresses :
       targets[k][a] = targets[l][b] /\ targets[k][a] # None => k = l /\ a = b
  /\ \A t \in Targets : reader[t] = "none" => home[t] = None

\* The target that is being made is known to its worker only.
MadeInv ==
  \A w \in Workers : pc[w] \in Dialing =>
    /\ TargetOf(w) = None /\ targetCount[task[w].key] < MaxTargets
    /\ reader[made[w]] = "none" /\ made[w] \in leased
    /\ \A k \in Keys, a \in Addresses : targets[k][a] # made[w]
    /\ \A v \in Workers \ {w} : made[v] # made[w]

LeaseInv ==
  /\ leased \subseteq Making \cup Reading
  /\ ~closed /\ ~cancelled => \A k \in Keys, a \in Addresses :
       targets[k][a] # None => k \in sessions /\ targets[k][a] \in leased

TargetInv == ListInv /\ MadeInv /\ LeaseInv

\* What the end of the loop joins stays joined.
ServeInv ==
  /\ serve \notin {"new", "loop"} => closed /\ cancelled
  /\ serve \in Late => WorkersGone
  /\ serve \in Swept => sessions = {}
  /\ serve = "done" => Reading = {}
  /\ serve = "new" => WorkersGone /\ sessions = {} /\ Reading = {}

\* The counters, and the sessions that workers are about to count.
Storing == {w \in Workers : pc[w] \in {"store", "count"}}
MemInv ==
  IsFiniteSet(Queued) /\ inFlightMem = Cardinality(Busy) + Cardinality(Queued)
PlaceInv ==
  \A k \in Keys :
    /\ targetCount[k] = Cardinality(Held(k)) + Cardinality(Uncounting(k))
    /\ targetCount[k] <= MaxTargets
TableInv ==
  serve \notin Swept =>
    sessionCount = Cardinality(sessions) - Cardinality(Counting)
                     + (IF cleaner = "count" THEN 1 ELSE 0)
LimitInv ==
  sessionCount + Cardinality(Storing) <= MaxSessions + Cardinality(Workers) - 1

CountInv == MemInv /\ PlaceInv /\ TableInv /\ LimitInv

IInv == Types /\ WorkInv /\ SessionInv /\ TargetInv /\ ServeInv /\ CountInv

-----------------------------------------------------------------------------
(* Types *)

\* What the constants are.
LEMMA TaskFacts ==
  /\ \A m \in Tasks : m.key \in Keys /\ m.addr \in Addresses /\ m # None
  /\ None \notin Keys /\ None \notin Workers /\ None \notin Targets
  /\ None \notin Homes
BY PlainUdpAssumption DEF Homes

\* What a worker at work has.
LEMMA WorkerFacts ==
  ASSUME Types, WorkInv, NEW w \in Workers, pc[w] # "idle"
  PROVE  /\ task[w] \in Tasks /\ task[w].key \in Keys
         /\ task[w].addr \in Addresses
         /\ pc[w] \in Dialing => made[w] \in Targets
<1>1. task[w] # None
  BY DEF WorkInv
<1>2. task[w] \in Tasks
  BY <1>1 DEF Types
<1>3. pc[w] \in Dialing => made[w] \in Targets
  BY SMT DEF WorkInv, Types
<1> QED
  BY <1>2, <1>3, TaskFacts

\* Initially nobody has anything.
LEMMA Initially ==
  ASSUME Init
  PROVE  IInv
<1>1. Types
  <2>1. <<>> \in Seq(Tasks)
    BY SMT
  <2>2. IsFiniteSet({})
    BY FS_EmptySet
  <2>3. /\ inFlightMem \in Int /\ sessionCount \in Int
        /\ targetCount \in [Keys -> Int]
    BY SMT DEF Init
  <2>4. targets \in [Keys -> [Addresses -> Targets \cup {None}]]
    BY DEF Init, NoTargets
  <2> QED
    BY <2>1, <2>2, <2>3, <2>4 DEF Init, Types, Labels, Open, Late
<1>2. \A w \in Workers : pc[w] = "idle" /\ queue[w] = <<>> /\ made[w] = None
  BY DEF Init
<1>3. \A w \in Workers : Len(queue[w]) = 0
  BY SMT, <1>2
<1>4. WorkInv /\ SessionInv
  <2>1. \A w \in Workers : \A i \in 1..Len(queue[w]) : FALSE
    BY SMT, <1>3
  <2> QED
    BY <1>2, <2>1 DEF Init, WorkInv, SessionInv, Open, Dialing, Locked
<1>5. Reading = {} /\ WorkersGone
  BY <1>2 DEF Init, Reading, WorkersGone
<1>6. TargetInv /\ ServeInv
  BY <1>2, <1>5 DEF Init, TargetInv, ListInv, MadeInv, LeaseInv, ServeInv, Late,
     Swept, Dialing, NoTargets
<1>7. Busy = {} /\ Counting = {} /\ Storing = {}
  BY <1>2 DEF Busy, Counting, Storing
<1>8. Queued = {}
  BY SMT, <1>3 DEF Queued
<1>9. \A k \in Keys : Held(k) = {} /\ Uncounting(k) = {}
  BY DEF Init, Held, Uncounting, NoTargets
<1>10. Cardinality({}) = 0 /\ Cardinality(Workers) \in Nat
       /\ Cardinality(Workers) # 0
  BY FS_EmptySet, FS_CardinalityType, PlainUdpAssumption
<1>11. MaxTargets >= 0 /\ MaxSessions \in Nat
  BY SMT, PlainUdpAssumption
<1>12. CountInv
  <2>1. inFlightMem = 0 /\ sessionCount = 0 /\ sessions = {} /\ cleaner = "idle"
        /\ \A k \in Keys : targetCount[k] = 0
    BY DEF Init
  <2>2. /\ Cardinality(Busy) = 0 /\ Cardinality(Queued) = 0
        /\ Cardinality(Counting) = 0 /\ Cardinality(Storing) = 0
        /\ Cardinality(sessions) = 0
    BY <1>7, <1>8, <1>10, <2>1
  <2>3. \A k \in Keys : Cardinality(Held(k)) = 0 /\ Cardinality(Uncounting(k)) = 0
    BY <1>9, <1>10
  <2> QED
    BY SMT, <1>8, <1>10, <1>11, <2>1, <2>2, <2>3, FS_EmptySet
    DEF CountInv, MemInv, PlaceInv, TableInv, LimitInv
<1> QED
  BY <1>1, <1>4, <1>6, <1>12 DEF IInv

\* A task ends: the worker is idle, with no lock and no target.
LEMMA FinishTypes ==
  ASSUME Types, NEW w \in Workers, Finish(w)
  PROVE  /\ pc' \in [Workers -> Labels] /\ task' \in [Workers -> Tasks \cup {None}]
         /\ stale' \subseteq Workers /\ made' \in [Workers -> Targets \cup {None}]
         /\ targetMu' \in [Keys -> Workers \cup {None}]
         /\ inFlightMem' \in Int
<1>1. inFlightMem' \in Int
  BY SMT DEF Types, Finish
<1> QED
  BY <1>1 DEF Types, Finish, Goto, Labels

\* Every step of the server keeps the types...
LEMMA ServerTypes ==
  ASSUME IInv,
         \/ Serve \/ Close \/ CloseDone \/ ParentCancels \/ LoopEnds
         \/ ServeJoinsWorkers \/ ServeSweeps \/ ServeDone
         \/ \E m \in Tasks : Receive(m)
  PROVE  Types'
<1>1. Types
  BY DEF IInv
<1>2. CASE Serve \/ Close \/ CloseDone \/ ParentCancels \/ LoopEnds
           \/ ServeJoinsWorkers \/ ServeDone
  BY <1>1, <1>2 DEF Serve, Close, CloseDone, ParentCancels, LoopEnds,
     ServeJoinsWorkers, ServeDone, Types, Late, Swept, work, table, upstream,
     sweep
<1>3. CASE ServeSweeps
  BY <1>1, <1>3, FS_EmptySet DEF ServeSweeps, closeSessions, Types, Late, Swept,
     work, sweep
<1>4. ASSUME NEW m \in Tasks, Receive(m)
      PROVE  Types'
  <2>1. PICK w : /\ w \in Workers /\ queue[w] \in Seq(Tasks)
                 /\ queue' = [queue EXCEPT ![w] = Append(@, m)]
                 /\ inFlightMem' = inFlightMem + 1
    BY <1>1, <1>4, TaskFacts DEF Receive, Types
  <2>2. Append(queue[w], m) \in Seq(Tasks)
    BY SMT, <2>1
  <2>3. queue' \in [Workers -> Seq(Tasks)]
    BY <1>1, <2>1, <2>2 DEF Types
  <2>4. inFlightMem' \in Int
    BY SMT, <1>1, <2>1 DEF Types
  <2> QED
    BY <1>1, <1>4, <2>3, <2>4 DEF Receive, Types, server, table, upstream,
       sweep
<1> QED
  BY <1>2, <1>3, <1>4

\* ...and so does every step of a worker...
LEMMA WorkerTypes ==
  ASSUME IInv, NEW w \in Workers, WorkerStep(w)
  PROVE  Types'
<1>1. Types /\ WorkInv
  BY DEF IInv
<1>2. CASE Take(w)
  <2>1. queue[w] \in Seq(Tasks) /\ queue[w] # <<>>
    BY <1>1, <1>2 DEF Types, Take
  <2>2. Head(queue[w]) \in Tasks /\ Tail(queue[w]) \in Seq(Tasks)
    BY SMT, <2>1
  <2>3. queue' \in [Workers -> Seq(Tasks)]
    BY <1>1, <1>2, <2>2 DEF Types, Take
  <2>4. inFlightMem' \in Int
    BY SMT, <1>1, <1>2 DEF Types, Take
  <2>5. pc' \in [Workers -> Labels] /\ task' \in [Workers -> Tasks \cup {None}]
    <3>1. CASE cancelled
      BY <1>1, <1>2, <3>1 DEF Take, Types
    <3>2. CASE ~cancelled
      BY <1>1, <1>2, <2>2, <3>2 DEF Take, Goto, Types, Labels
    <3> QED
      BY <3>1, <3>2
  <2> QED
    BY <1>1, <1>2, <2>3, <2>4, <2>5 DEF Take, Types, server, table, upstream,
       sweep
<1>3. CASE FindSession(w) \/ CheckLimit(w) \/ Resolved(w)
  BY <1>1, <1>3 DEF FindSession, CheckLimit, Resolved, Goto, Types, server,
     table, upstream, sweep, Labels, Open
<1>4. CASE DropAtLimit(w) \/ Refuse(w) \/ UseOrDrop(w)
  <2>1. Finish(w)
    BY <1>4 DEF DropAtLimit, Refuse, UseOrDrop
  <2> QED
    BY <1>1, <1>4, <2>1, FinishTypes DEF DropAtLimit, Refuse, UseOrDrop, Types,
       server, table, upstream, sweep
<1>5. CASE StoreSession(w)
  <2>1. sessions' \subseteq Keys /\ idle' \subseteq Keys
    BY <1>1, <1>5, WorkerFacts DEF StoreSession, Types
  <2>2. IsFiniteSet(sessions')
    BY ZenonT(60), <1>1, <1>5, FS_AddElement DEF StoreSession, Types
  <2> QED
    BY <1>1, <1>5, <2>1, <2>2 DEF StoreSession, Goto, Types, server, upstream,
       sweep, Labels, Open
<1>6. CASE CountSession(w)
  <2>1. sessionCount' \in Int
    BY SMT, <1>1, <1>6 DEF CountSession, Types
  <2> QED
    BY <1>1, <1>6, <2>1 DEF CountSession, Goto, Types, server, upstream, sweep,
       Labels, Open
<1>7. CASE AcceptTask(w)
  BY <1>1, <1>7 DEF AcceptTask, Goto, Types, server, table, upstream, sweep,
     Labels, Open
<1>8. ASSUME NEW t \in Targets, Reserve(w, t)
      PROVE  Types'
  BY <1>1, <1>8 DEF Reserve, Goto, Types, server, table, sweep, Labels, Open
<1>9. CASE ResolveFails(w)
  <2>1. Finish(w)
    BY <1>9 DEF ResolveFails
  <2> QED
    BY <1>1, <1>9, <2>1, FinishTypes DEF ResolveFails, Types, server, table, sweep
<1>10. CASE Install(w)
  <2>1. Finish(w)
    BY <1>10 DEF Install
  <2>2. /\ made[w] \in Targets /\ task[w].key \in Keys
        /\ task[w].addr \in Addresses
    BY <1>1, <1>10, WorkerFacts DEF Install, Dialing
  <2>3. targets' \in [Keys -> [Addresses -> Targets \cup {None}]]
    BY SMT, <1>1, <1>10, <2>2 DEF Install, Types
  <2>4. targetCount' \in [Keys -> Int]
    BY SMT, <1>1, <1>10, <2>2 DEF Install, Types
  <2>5. home' \in [Targets -> Homes \cup {None}]
    BY <1>1, <1>10, <2>2 DEF Install, Types, Homes
  <2> QED
    BY <1>1, <1>10, <2>1, <2>3, <2>4, <2>5, FinishTypes DEF Install, Types,
       server, table, sweep
<1> QED
  BY <1>2, <1>3, <1>4, <1>5, <1>6, <1>7, <1>8, <1>9, <1>10 DEF WorkerStep

\* ...of a reader, and of the cleaner.
LEMMA OtherTypes ==
  ASSUME IInv,
         \/ \E t \in Targets : Answer(t) \/ ReaderStep(t)
         \/ \E k \in Keys : Age(k) \/ CleanerSees(k)
         \/ CleanerStep
  PROVE  Types'
<1>1. Types
  BY DEF IInv
<1>2. ASSUME NEW t \in Targets, Answer(t)
      PROVE  Types'
  BY <1>1, <1>2 DEF Answer, Types, server, work, table, upstream, sweep
<1>3. ASSUME NEW t \in Targets, ReaderEnds(t)
      PROVE  /\ leased' \subseteq Targets /\ home' \in [Targets -> Homes \cup {None}]
             /\ reader' \in [Targets -> {"none", "read", "uncount"}]
  BY <1>1, <1>3 DEF ReaderEnds, Types
<1>4. ASSUME NEW t \in Targets, ReaderStops(t)
      PROVE  Types'
  BY <1>1, <1>3, <1>4 DEF ReaderStops, Types, server, work, table, sweep
<1>5. ASSUME NEW t \in Targets, ReadFails(t)
      PROVE  Types'
  <2>1. targets' \in [Keys -> [Addresses -> Targets \cup {None}]]
    BY SMT, <1>1, <1>5 DEF ReadFails, Types
  <2>2. /\ leased' \subseteq Targets /\ home' \in [Targets -> Homes \cup {None}]
        /\ reader' \in [Targets -> {"none", "read", "uncount"}]
    BY <1>1, <1>3, <1>5 DEF ReadFails, Types
  <2> QED
    BY <1>1, <1>5, <2>1, <2>2 DEF ReadFails, Types, server, work, table, sweep
<1>6. ASSUME NEW t \in Targets, ReaderUncounts(t)
      PROVE  Types'
  <2>1. targetCount' \in [Keys -> Int]
    BY SMT, <1>1, <1>6 DEF ReaderUncounts, Types
  <2> QED
    BY <1>1, <1>3, <1>6, <2>1 DEF ReaderUncounts, Types, server, work, table,
       sweep
<1>7. ASSUME NEW k \in Keys, Age(k) \/ CleanerSees(k)
      PROVE  Types'
  BY <1>1, <1>7 DEF Age, CleanerSees, Types, server, work, table, upstream, sweep
<1>8. CASE CleanerSkips \/ CleanerStops
  BY <1>1, <1>8 DEF CleanerSkips, CleanerStops, Types, server, work, table,
     upstream
<1>9. CASE CleanerCloses
  <2>1. targets' \in [Keys -> [Addresses -> Targets \cup {None}]]
    BY SMT, <1>1, <1>9 DEF CleanerCloses, CloseSession, Types, NoTargets
  <2>2. targetCount' \in [Keys -> Int]
    BY SMT, <1>1, <1>9 DEF CleanerCloses, CloseSession, Types
  <2>3. IsFiniteSet(sessions')
    BY <1>1, <1>9, FS_RemoveElement DEF CleanerCloses, CloseSession, Types
  <2>4. /\ stale' \subseteq Workers /\ leased' \subseteq Targets
        /\ home' \in [Targets -> Homes \cup {None}]
        /\ sessions' \subseteq Keys /\ idle' \subseteq Keys
    BY <1>1, <1>9 DEF CleanerCloses, CloseSession, Types
  <2> QED
    BY <1>1, <1>9, <2>1, <2>2, <2>3, <2>4 DEF CleanerCloses, CloseSession, Types,
       server
<1>10. CASE CleanerCounts
  <2>1. sessionCount' \in Int
    BY SMT, <1>1, <1>10 DEF CleanerCounts, Types
  <2> QED
    BY <1>1, <1>10, <2>1 DEF CleanerCounts, Types, server, work, upstream
<1> QED
  BY <1>2, <1>4, <1>5, <1>6, <1>7, <1>8, <1>9, <1>10 DEF ReaderStep, CleanerStep

-----------------------------------------------------------------------------
(* Workers *)

\* What the end of a task changes.
LEMMA FinishFacts ==
  ASSUME Types, NEW w \in Workers, Finish(w)
  PROVE  /\ pc'[w] = "idle" /\ task'[w] = None /\ made'[w] = None
         /\ w \notin stale'
         /\ \A v \in Workers \ {w} :
              /\ pc'[v] = pc[v] /\ task'[v] = task[v] /\ made'[v] = made[v]
              /\ v \in stale' <=> v \in stale
         /\ \A k \in Keys :
              targetMu'[k] = IF targetMu[k] = w THEN None ELSE targetMu[k]
BY DEF Types, Finish, Goto

\* The others keep their tasks, locks and targets.
LEMMA FinishWork ==
  ASSUME IInv, NEW w \in Workers, Finish(w), UNCHANGED <<workerOf, queue>>
  PROVE  WorkInv'
<1>1. Types /\ WorkInv
  BY DEF IInv
<1>2. /\ pc'[w] = "idle" /\ task'[w] = None /\ made'[w] = None
      /\ w \notin stale'
      /\ \A v \in Workers \ {w} :
           /\ pc'[v] = pc[v] /\ task'[v] = task[v] /\ made'[v] = made[v]
           /\ v \in stale' <=> v \in stale
      /\ \A k \in Keys :
           targetMu'[k] = IF targetMu[k] = w THEN None ELSE targetMu[k]
  BY <1>1, FinishFacts
<1>3. stale' \subseteq stale
  BY DEF Finish
<1>4. /\ \A v \in Workers : pc'[v] = "idle" <=> task'[v] = None
      /\ \A v \in Workers : pc'[v] # "idle" => workerOf[task'[v].key] = v
      /\ \A v \in Workers : pc'[v] \in Dialing <=> made'[v] # None
  BY SMT, <1>1, <1>2 DEF WorkInv, Dialing
<1>5. ASSUME NEW v \in Workers, pc'[v] \in Locked
      PROVE  targetMu'[task'[v].key] = v /\ v \notin stale'
  <2>1. v # w /\ pc[v] \in Locked /\ task'[v] = task[v] /\ task[v].key \in Keys
    BY <1>1, <1>2, <1>5, WorkerFacts DEF Locked
  <2> QED
    BY SMT, <1>1, <1>2, <2>1 DEF WorkInv
<1>6. ASSUME NEW k \in Keys, targetMu'[k] # None
      PROVE  pc'[targetMu'[k]] \in Locked /\ task'[targetMu'[k]].key = k
  <2>1. targetMu'[k] = targetMu[k] /\ targetMu[k] # w
    BY <1>2, <1>6
  <2>2. targetMu[k] \in Workers \ {w}
    BY SMT, <1>1, <1>6, <2>1 DEF Types
  <2> QED
    BY SMT, <1>1, <1>2, <1>6, <2>1, <2>2 DEF WorkInv
<1>7. \A v \in stale' : pc'[v] \in {"count", "lock"}
  <2>1. stale \subseteq Workers /\ \A v \in stale : pc[v] \in {"count", "lock"}
    BY <1>1 DEF WorkInv, Types
  <2> QED
    BY <1>2, <1>3, <2>1
<1> QED
  BY <1>1, <1>4, <1>5, <1>6, <1>7 DEF WorkInv

\* A step of w that takes and gives back neither a lock nor a target.
LEMMA MoveWork ==
  ASSUME IInv, NEW w \in Workers, NEW label, Goto(w, label),
         UNCHANGED <<workerOf, queue, task, made, targetMu, stale>>,
         pc[w] # "idle", label # "idle",
         label \in Dialing <=> pc[w] \in Dialing,
         label \in Locked <=> pc[w] \in Locked,
         w \in stale => label \in {"count", "lock"}
  PROVE  WorkInv'
<1>1. Types /\ WorkInv
  BY DEF IInv
<1>2. pc'[w] = label /\ \A v \in Workers \ {w} : pc'[v] = pc[v]
  BY <1>1 DEF Goto, Types
<1>3. \A k \in Keys : targetMu[k] # None => targetMu[k] \in Workers
  BY SMT, <1>1 DEF Types
<1>4. stale \subseteq Workers
  BY <1>1 DEF Types
<1> QED
  BY ZenonT(60), <1>1, <1>2, <1>3, <1>4 DEF WorkInv

\* A worker takes a task of its own queue.
LEMMA TakeWork ==
  ASSUME IInv, NEW w \in Workers, Take(w)
  PROVE  WorkInv'
<1>1. Types /\ WorkInv
  BY DEF IInv
<1>2. queue[w] \in Seq(Tasks) /\ queue[w] # <<>> /\ pc[w] = "idle"
  BY <1>1 DEF Types, Take
<1>3. /\ Head(queue[w]) = queue[w][1] /\ 1 \in 1..Len(queue[w])
      /\ Head(queue[w]) \in Tasks
      /\ \A i \in 1..Len(Tail(queue[w])) :
           i + 1 \in 1..Len(queue[w]) /\ Tail(queue[w])[i] = queue[w][i + 1]
  BY SMT, <1>2
<1>4. queue'[w] = Tail(queue[w]) /\ \A v \in Workers \ {w} : queue'[v] = queue[v]
  BY <1>1 DEF Take, Types
<1>5. \A v \in Workers : \A i \in 1..Len(queue'[v]) :
        workerOf[queue'[v][i].key] = v
  <2>1. \A v \in Workers : \A i \in 1..Len(queue[v]) :
          workerOf[queue[v][i].key] = v
    BY <1>1 DEF WorkInv
  <2>2. ASSUME NEW i \in 1..Len(queue'[w])
        PROVE  workerOf[queue'[w][i].key] = w
    <3>1. i + 1 \in 1..Len(queue[w]) /\ queue'[w][i] = queue[w][i + 1]
      BY <1>3, <1>4
    <3> QED
      BY <2>1, <3>1
  <2> QED
    BY <1>4, <2>1, <2>2
<1>6. UNCHANGED <<workerOf, made, targetMu, stale>>
  BY DEF Take
<1>7. CASE cancelled
  BY SMTT(60), <1>1, <1>5, <1>6, <1>7 DEF Take, WorkInv
<1>8. CASE ~cancelled
  <2>1. /\ pc'[w] = "session" /\ task'[w] = Head(queue[w])
        /\ \A v \in Workers \ {w} : pc'[v] = pc[v] /\ task'[v] = task[v]
    BY <1>1, <1>8 DEF Take, Goto, Types
  <2>2. task'[w] # None /\ workerOf[task'[w].key] = w
    BY SMT, <1>1, <1>3, <2>1, TaskFacts DEF WorkInv
  <2>3. made[w] = None /\ w \notin stale
    BY <1>1, <1>2 DEF WorkInv, Dialing
  <2>4. \A k \in Keys : targetMu[k] # None => targetMu[k] \in Workers \ {w}
    <3>1. \A k \in Keys : targetMu[k] # None => targetMu[k] \in Workers
      BY SMT, <1>1 DEF Types
    <3> QED
      BY <1>1, <1>2, <3>1 DEF WorkInv, Locked
  <2>5. stale \subseteq Workers
    BY <1>1 DEF Types
  <2>6. /\ \A v \in Workers : pc'[v] = "idle" <=> task'[v] = None
        /\ \A v \in Workers : pc'[v] # "idle" => workerOf[task'[v].key] = v
        /\ \A v \in Workers : pc'[v] \in Dialing <=> made[v] # None
    BY SMT, <1>1, <2>1, <2>2, <2>3 DEF WorkInv, Dialing
  <2>7. /\ \A v \in Workers : pc'[v] \in Locked =>
             targetMu[task'[v].key] = v /\ v \notin stale
        /\ \A v \in stale : pc'[v] \in {"count", "lock"}
    BY SMT, <1>1, <2>1, <2>3, <2>5 DEF WorkInv, Locked
  <2>8. \A k \in Keys : targetMu[k] # None =>
          pc'[targetMu[k]] \in Locked /\ task'[targetMu[k]].key = k
    BY ZenonT(60), <1>1, <2>1, <2>4 DEF WorkInv
  <2> QED
    BY <1>5, <1>6, <2>6, <2>7, <2>8 DEF WorkInv
<1> QED
  BY <1>7, <1>8

\* A worker locks its session, or reserves a target.
LEMMA LockWork ==
  ASSUME IInv, NEW w \in Workers,
         AcceptTask(w) \/ \E t \in Targets : Reserve(w, t)
  PROVE  WorkInv'
<1>1. Types /\ WorkInv
  BY DEF IInv
<1>2. stale \subseteq Workers
      /\ \A k \in Keys : targetMu[k] # None => targetMu[k] \in Workers
  BY SMT, <1>1 DEF Types
<1>3. CASE AcceptTask(w)
  <2>1. /\ pc[w] = "lock" /\ pc'[w] = "target" /\ w \notin stale
        /\ task[w].key \in Keys /\ targetMu[task[w].key] = None
        /\ targetMu'[task[w].key] = w
        /\ \A v \in Workers \ {w} : pc'[v] = pc[v]
        /\ \A k \in Keys \ {task[w].key} : targetMu'[k] = targetMu[k]
        /\ UNCHANGED <<workerOf, queue, task, made, stale>>
    BY <1>1, <1>3, WorkerFacts DEF AcceptTask, Enter, Goto, Types
  <2>2. ASSUME NEW v \in Workers \ {w}, pc[v] \in Locked
        PROVE  task[v].key \in Keys \ {task[w].key}
    <3>1. targetMu[task[v].key] = v /\ task[v].key \in Keys
      BY <1>1, <2>2, WorkerFacts DEF WorkInv, Locked
    <3> QED
      BY <2>1, <3>1, TaskFacts
  <2>3. /\ \A v \in Workers : pc'[v] \in Locked =>
             targetMu'[task[v].key] = v /\ v \notin stale
        /\ \A v \in stale : pc'[v] \in {"count", "lock"}
    BY SMT, <1>1, <1>2, <2>1, <2>2 DEF WorkInv, Locked
  <2>4. \A k \in Keys : targetMu'[k] # None =>
          pc'[targetMu'[k]] \in Locked /\ task[targetMu'[k]].key = k
    BY SMT, <1>1, <1>2, <2>1 DEF WorkInv, Locked
  <2>5. /\ \A v \in Workers : pc'[v] = "idle" <=> task[v] = None
        /\ \A v \in Workers : pc'[v] # "idle" => workerOf[task[v].key] = v
        /\ \A v \in Workers : pc'[v] \in Dialing <=> made[v] # None
    BY SMT, <1>1, <2>1 DEF WorkInv, Dialing
  <2> QED
    BY <1>1, <2>1, <2>3, <2>4, <2>5 DEF WorkInv
<1>4. ASSUME NEW t \in Targets, Reserve(w, t)
      PROVE  WorkInv'
  <2>1. /\ pc[w] = "target" /\ pc'[w] = "resolve" /\ made'[w] = t
        /\ \A v \in Workers \ {w} : pc'[v] = pc[v] /\ made'[v] = made[v]
        /\ UNCHANGED <<workerOf, queue, task, targetMu, stale>>
    BY <1>1, <1>4 DEF Reserve, Goto, Types
  <2>2. t # None
    BY TaskFacts
  <2>3. /\ \A v \in Workers : pc'[v] = "idle" <=> task[v] = None
        /\ \A v \in Workers : pc'[v] # "idle" => workerOf[task[v].key] = v
        /\ \A v \in Workers : pc'[v] \in Dialing <=> made'[v] # None
    BY SMT, <1>1, <2>1, <2>2 DEF WorkInv, Dialing
  <2>4. /\ \A v \in Workers : pc'[v] \in Locked =>
             targetMu[task[v].key] = v /\ v \notin stale
        /\ \A v \in stale : pc'[v] \in {"count", "lock"}
    BY SMT, <1>1, <1>2, <2>1 DEF WorkInv, Locked
  <2>5. \A k \in Keys : targetMu[k] # None =>
          pc'[targetMu[k]] \in Locked /\ task[targetMu[k]].key = k
    BY <1>1, <1>2, <2>1 DEF WorkInv, Locked
  <2> QED
    BY <1>1, <2>1, <2>3, <2>4, <2>5 DEF WorkInv
<1> QED
  BY <1>3, <1>4

\* The receiving loop queues a task with the worker of its key.
LEMMA ReceiveWork ==
  ASSUME IInv, NEW m \in Tasks, Receive(m)
  PROVE  WorkInv'
<1> DEFINE w == workerOf[m.key]
<1>1. Types /\ WorkInv
  BY DEF IInv
<1>2. w \in Workers /\ queue[w] \in Seq(Tasks)
  BY <1>1, TaskFacts DEF Types
<1>3. /\ queue'[w] = Append(queue[w], m)
      /\ \A v \in Workers \ {w} : queue'[v] = queue[v]
      /\ UNCHANGED <<workerOf, pc, task, stale, made, targetMu>>
  BY <1>1, <1>2 DEF Receive, Types
<1>4. \A i \in 1..Len(Append(queue[w], m)) :
        \/ i \in 1..Len(queue[w]) /\ Append(queue[w], m)[i] = queue[w][i]
        \/ Append(queue[w], m)[i] = m
  BY SMT, <1>2
<1>5. \A v \in Workers : \A i \in 1..Len(queue[v]) :
        workerOf[queue[v][i].key] = v
  BY <1>1 DEF WorkInv
<1> HIDE DEF w
<1>6. ASSUME NEW i \in 1..Len(queue'[w])
      PROVE  workerOf[queue'[w][i].key] = w
  <2>1. \/ i \in 1..Len(queue[w]) /\ queue'[w][i] = queue[w][i]
        \/ queue'[w][i] = m
    BY <1>3, <1>4
  <2> QED
    BY <1>2, <1>5, <2>1 DEF w
<1>7. \A v \in Workers : \A i \in 1..Len(queue'[v]) :
        workerOf[queue'[v][i].key] = v
  BY <1>3, <1>5, <1>6
<1> QED
  BY <1>1, <1>3, <1>7 DEF WorkInv

\* The cleaner closes a session nobody has locked.
LEMMA CloseWork ==
  ASSUME IInv, CleanerCloses
  PROVE  /\ WorkInv'
         /\ \A w \in Workers : pc[w] \in Locked => task[w].key # victim
<1>1. Types /\ WorkInv /\ SessionInv
  BY DEF IInv
<1>2. /\ targetMu[victim] = None /\ victim \in Keys
      /\ stale' = stale \cup {w \in Workers : task[w] # None
                     /\ task[w].key = victim /\ pc[w] \notin {"session", "store"}}
      /\ UNCHANGED <<workerOf, queue, pc, task, made, targetMu>>
  BY <1>1 DEF CleanerCloses, CloseSession, SessionInv
<1>3. ASSUME NEW w \in Workers, pc[w] \in Locked
      PROVE  task[w].key # victim
  <2>1. targetMu[task[w].key] = w
    BY <1>1, <1>3 DEF WorkInv
  <2> QED
    BY <1>2, <2>1, TaskFacts
<1>4. ASSUME NEW w \in stale'
      PROVE  pc[w] \in {"count", "lock"}
  <2>1. CASE w \in stale
    BY <1>1, <2>1 DEF WorkInv
  <2>2. CASE w \notin stale
    <3>1. /\ w \in Workers /\ task[w] # None /\ task[w].key = victim
          /\ pc[w] \notin {"session", "store"}
      BY <1>2, <1>4, <2>2
    <3>2. pc[w] \in Labels /\ pc[w] # "idle" /\ pc[w] \notin Locked
      BY <1>1, <1>3, <3>1 DEF WorkInv, Types
    <3> QED
      BY <3>1, <3>2 DEF Labels, Open, Locked
  <2> QED
    BY <2>1, <2>2
<1>5. \A w \in Workers : pc[w] \in Locked => w \notin stale'
  BY <1>4 DEF Locked
<1>6. WorkInv'
  BY <1>1, <1>2, <1>4, <1>5 DEF WorkInv
<1> QED
  BY <1>3, <1>6

\* Every step keeps the workers' invariant.
LEMMA WorkStep ==
  ASSUME IInv, Next
  PROVE  WorkInv'
<1>1. ASSUME UNCHANGED <<workerOf, work, targetMu>>
      PROVE  WorkInv'
  BY <1>1 DEF IInv, WorkInv, work
<1>2. CASE \/ Serve \/ Close \/ CloseDone \/ ParentCancels \/ LoopEnds
           \/ ServeJoinsWorkers \/ ServeSweeps \/ ServeDone
  BY <1>1, <1>2 DEF Serve, Close, CloseDone, ParentCancels, LoopEnds,
     ServeJoinsWorkers, ServeSweeps, ServeDone
<1>3. ASSUME NEW t \in Targets, Answer(t) \/ ReaderStep(t)
      PROVE  WorkInv'
  BY <1>1, <1>3 DEF Answer, ReaderStep, ReaderStops, ReadFails, ReaderUncounts
<1>4. ASSUME NEW k \in Keys, Age(k) \/ CleanerSees(k)
      PROVE  WorkInv'
  BY <1>1, <1>4 DEF Age, CleanerSees
<1>5. CASE CleanerSkips \/ CleanerCounts \/ CleanerStops
  BY <1>1, <1>5 DEF CleanerSkips, CleanerCounts, CleanerStops
<1>6. ASSUME NEW w \in Workers, WorkerStep(w)
      PROVE  WorkInv'
  <2>1. CASE Take(w)
    BY <2>1, TakeWork
  <2>2. CASE AcceptTask(w) \/ \E t \in Targets : Reserve(w, t)
    BY <2>2, LockWork
  <2>3. CASE \/ DropAtLimit(w) \/ Refuse(w) \/ UseOrDrop(w)
             \/ ResolveFails(w) \/ Install(w)
    BY <2>3, FinishWork DEF DropAtLimit, Refuse, UseOrDrop, ResolveFails,
       Install
  <2>4. w \in stale => pc[w] \in {"count", "lock"}
    BY DEF IInv, WorkInv
  <2>5. CASE FindSession(w)
    <3>1. pc[w] # "idle" /\ w \notin stale /\ pc[w] \notin Locked \cup Dialing
      BY <2>4, <2>5 DEF FindSession, Locked, Dialing
    <3>2. "lock" \notin Locked \cup Dialing
      BY DEF Locked, Dialing
    <3> QED
      BY <2>5, <3>1, <3>2, MoveWork DEF FindSession
  <2>6. CASE CheckLimit(w)
    <3>1. pc[w] # "idle" /\ w \notin stale /\ pc[w] \notin Locked \cup Dialing
      BY <2>4, <2>6 DEF CheckLimit, Locked, Dialing
    <3>2. "store" \notin Locked \cup Dialing
      BY DEF Locked, Dialing
    <3> QED
      BY <2>6, <3>1, <3>2, MoveWork DEF CheckLimit
  <2>7. CASE StoreSession(w)
    <3>1. pc[w] # "idle" /\ w \notin stale /\ pc[w] \notin Locked \cup Dialing
      BY <2>4, <2>7 DEF StoreSession, Locked, Dialing
    <3>2. "count" \notin Locked \cup Dialing
      BY DEF Locked, Dialing
    <3> QED
      BY <2>7, <3>1, <3>2, MoveWork DEF StoreSession
  <2>8. CASE CountSession(w)
    <3>1. pc[w] # "idle" /\ pc[w] \notin Locked \cup Dialing
      BY <2>8 DEF CountSession, Locked, Dialing
    <3>2. "lock" \notin Locked \cup Dialing
      BY DEF Locked, Dialing
    <3> QED
      BY <2>8, <3>1, <3>2, MoveWork DEF CountSession
  <2>9. CASE Resolved(w)
    <3>1. pc[w] # "idle" /\ w \notin stale /\ pc[w] \in Locked \cap Dialing
      BY <2>4, <2>9 DEF Resolved, Locked, Dialing
    <3>2. "install" \in Locked \cap Dialing
      BY DEF Locked, Dialing
    <3> QED
      BY <2>9, <3>1, <3>2, MoveWork DEF Resolved
  <2> QED
    BY <1>6, <2>1, <2>2, <2>3, <2>5, <2>6, <2>7, <2>8, <2>9 DEF WorkerStep
<1> QED
  BY <1>2, <1>3, <1>4, <1>5, <1>6, ReceiveWork, CloseWork DEF Next, CleanerStep

-----------------------------------------------------------------------------
(* Sessions *)

\* A worker that leaves a session for another step of its own keeps it.
LEMMA SessionMove ==
  ASSUME IInv, NEW w \in Workers, UNCHANGED <<sessions, cleaner, victim, serve>>,
         stale' = stale \/ stale' = stale \ {w},
         \A v \in Workers \ {w} : pc'[v] = pc[v] /\ task'[v] = task[v],
         pc'[w] = "store" => task'[w].key \notin sessions,
         pc'[w] \in Open /\ w \notin stale => task'[w].key \in sessions,
         w \in stale => w \in stale' \/ pc'[w] \notin Open
  PROVE  SessionInv'
<1>1. SessionInv
  BY DEF IInv
<1>2. \A v \in Workers \ {w} : v \in stale' <=> v \in stale
  OBVIOUS
<1>3. \A v \in Workers \ stale' : pc'[v] \in Open => task'[v].key \in sessions
  <2> SUFFICES ASSUME NEW v \in Workers \ stale', pc'[v] \in Open
               PROVE  task'[v].key \in sessions
    OBVIOUS
  <2>1. CASE v = w
    BY <2>1
  <2>2. CASE v # w
    BY <1>1, <1>2, <2>2 DEF SessionInv
  <2> QED
    BY <2>1, <2>2
<1>4. \A v \in Workers : pc'[v] = "store" => task'[v].key \notin sessions
  <2> SUFFICES ASSUME NEW v \in Workers, pc'[v] = "store"
               PROVE  task'[v].key \notin sessions
    OBVIOUS
  <2>1. CASE v = w
    BY <2>1
  <2>2. CASE v # w
    BY <1>1, <2>2 DEF SessionInv
  <2> QED
    BY <2>1, <2>2
<1> QED
  BY <1>1, <1>3, <1>4 DEF SessionInv

\* A session is stored by the one worker of its key, and the table is new to
\* nobody else.
LEMMA StoreSessions ==
  ASSUME IInv, NEW w \in Workers, StoreSession(w)
  PROVE  SessionInv'
<1>1. Types /\ WorkInv /\ SessionInv
  BY DEF IInv
<1>2. /\ pc[w] = "store" /\ pc'[w] = "count"
      /\ \A v \in Workers \ {w} : pc'[v] = pc[v]
      /\ sessions' = sessions \cup {task[w].key}
      /\ UNCHANGED <<task, stale, cleaner, victim, serve>>
  BY <1>1 DEF StoreSession, Goto, Types, sweep, server
<1>3. ASSUME NEW v \in Workers \ {w}, pc[v] = "store"
      PROVE  task[v].key # task[w].key
  <2>1. workerOf[task[v].key] = v /\ workerOf[task[w].key] = w
    BY <1>1, <1>2, <1>3 DEF WorkInv
  <2> QED
    BY <2>1
<1>4. \A v \in Workers : pc'[v] = "store" => task[v].key \notin sessions'
  BY <1>1, <1>2, <1>3 DEF SessionInv
<1>5. \A v \in Workers \ stale : pc'[v] \in Open => task[v].key \in sessions'
  BY <1>1, <1>2 DEF SessionInv, Open
<1> QED
  BY <1>1, <1>2, <1>4, <1>5 DEF SessionInv

\* Whoever holds the session the cleaner closes is told so.
LEMMA CloseSessions ==
  ASSUME IInv, CleanerCloses
  PROVE  SessionInv'
<1>1. Types /\ WorkInv /\ SessionInv
  BY DEF IInv
<1>2. /\ sessions' = sessions \ {victim} /\ cleaner' = "count" /\ victim \in Keys
      /\ stale' = stale \cup {w \in Workers : task[w] # None
                     /\ task[w].key = victim /\ pc[w] \notin {"session", "store"}}
      /\ UNCHANGED <<pc, task, victim>>
  BY <1>1 DEF CleanerCloses, CloseSession, SessionInv
<1>3. ASSUME NEW w \in Workers \ stale', pc[w] \in Open
      PROVE  task[w].key \in sessions'
  <2>1. w \notin stale /\ task[w] # None /\ pc[w] \notin {"session", "store"}
    BY <1>1, <1>2, <1>3 DEF Open, WorkInv
  <2> QED
    BY <1>1, <1>2, <1>3, <2>1 DEF SessionInv
<1>4. \A w \in Workers : pc[w] = "store" => task[w].key \notin sessions'
  BY <1>1, <1>2 DEF SessionInv
<1> QED
  BY <1>2, <1>3, <1>4 DEF SessionInv

\* Every step keeps the sessions' invariant.
LEMMA SessionStep ==
  ASSUME IInv, Next
  PROVE  SessionInv'
<1>0. Types /\ WorkInv /\ SessionInv
  BY DEF IInv
<1>1. ASSUME UNCHANGED <<stale, pc, task, sessions, cleaner, victim>>,
             serve' \notin Swept => serve \notin Swept
      PROVE  SessionInv'
  BY <1>0, <1>1 DEF SessionInv
<1>2. CASE \/ Serve \/ Close \/ CloseDone \/ ParentCancels \/ LoopEnds
           \/ ServeJoinsWorkers \/ ServeDone
  BY <1>1, <1>2 DEF Serve, Close, CloseDone, ParentCancels, LoopEnds, Swept,
     ServeJoinsWorkers, ServeDone, work, table, sweep
<1>3. CASE ServeSweeps
  <2>1. WorkersGone
    BY <1>3 DEF IInv, ServeInv, ServeSweeps, Late
  <2>2. \A w \in Workers : pc[w] = "idle"
    BY <2>1 DEF WorkersGone
  <2>3. serve' \in Swept /\ UNCHANGED <<pc, cleaner, victim>>
    BY <1>3 DEF ServeSweeps, Swept, work, sweep
  <2> QED
    BY <1>0, <2>2, <2>3 DEF SessionInv, Open
<1>4. ASSUME NEW m \in Tasks, Receive(m)
      PROVE  SessionInv'
  BY <1>1, <1>4 DEF Receive, server, table, sweep
<1>5. ASSUME NEW t \in Targets, Answer(t) \/ ReaderStep(t)
      PROVE  SessionInv'
  BY <1>1, <1>5 DEF Answer, ReaderStep, ReaderStops, ReadFails, ReaderUncounts,
     work, server, table, sweep
<1>6. ASSUME NEW k \in Keys, Age(k) \/ CleanerSees(k)
      PROVE  SessionInv'
  <2>1. CASE Age(k)
    BY <1>1, <2>1 DEF Age, work, server, table, sweep
  <2>2. CASE CleanerSees(k)
    BY <1>0, <2>2 DEF CleanerSees, SessionInv, work, table
  <2> QED
    BY <1>6, <2>1, <2>2
<1>7. CASE CleanerSkips \/ CleanerCounts \/ CleanerStops
  BY <1>0, <1>7 DEF CleanerSkips, CleanerCounts, CleanerStops, SessionInv, work,
     table
<1>8. ASSUME NEW w \in Workers, WorkerStep(w)
      PROVE  SessionInv'
  <2>1. pc[w] \in Open /\ w \notin stale => task[w].key \in sessions
    BY <1>0 DEF SessionInv
  <2>2. CASE Take(w)
    <3>1. /\ \A v \in Workers \ {w} : pc'[v] = pc[v] /\ task'[v] = task[v]
          /\ pc'[w] \in {"idle", "session"}
          /\ UNCHANGED <<sessions, cleaner, victim, serve, stale>>
          /\ pc[w] = "idle"
      BY <1>0, <2>2 DEF Take, Goto, Types, table, sweep, server
    <3>2. pc'[w] # "store" /\ pc'[w] \notin Open
      BY <3>1 DEF Open
    <3> QED
      BY <3>1, <3>2, SessionMove
  <2>3. CASE \/ DropAtLimit(w) \/ Refuse(w) \/ UseOrDrop(w)
             \/ ResolveFails(w) \/ Install(w)
    <3>1. Finish(w) /\ UNCHANGED <<sessions, cleaner, victim, serve>>
      BY <2>3 DEF DropAtLimit, Refuse, UseOrDrop, ResolveFails, Install, table,
         sweep, server
    <3>2. /\ \A v \in Workers \ {w} : pc'[v] = pc[v] /\ task'[v] = task[v]
          /\ pc'[w] = "idle" /\ stale' = stale \ {w}
      BY <1>0, <3>1, FinishFacts DEF Finish
    <3> QED
      BY <3>1, <3>2, SessionMove DEF Open
  <2>4. CASE StoreSession(w)
    BY <2>4, StoreSessions
  <2>5. CASE FindSession(w) \/ CheckLimit(w)
    <3>1. /\ \A v \in Workers \ {w} : pc'[v] = pc[v] /\ task'[v] = task[v]
          /\ \/ pc'[w] = "lock" /\ task'[w].key \in sessions
             \/ pc'[w] = "store" /\ task'[w].key \notin sessions
          /\ pc[w] = "session"
          /\ UNCHANGED <<sessions, cleaner, victim, serve, stale>>
      <4>1. CASE FindSession(w)
        BY <1>0, <4>1 DEF FindSession, Goto, Types, table, sweep, server
      <4>2. CASE CheckLimit(w)
        BY <1>0, <4>2 DEF CheckLimit, Goto, Types, table, sweep, server
      <4> QED
        BY <2>5, <4>1, <4>2
    <3> QED
      BY <3>1, SessionMove DEF Open
  <2>6. CASE \/ CountSession(w) \/ AcceptTask(w) \/ Resolved(w)
             \/ \E t \in Targets : Reserve(w, t)
    <3>1. /\ \A v \in Workers \ {w} : pc'[v] = pc[v] /\ task'[v] = task[v]
          /\ pc'[w] \in Open /\ pc'[w] # "store" /\ pc[w] \in Open
          /\ task'[w] = task[w]
          /\ UNCHANGED <<sessions, cleaner, victim, serve, stale>>
      <4>1. \E label \in Open : Goto(w, label)
        BY <2>6 DEF CountSession, AcceptTask, Resolved, Reserve, Open
      <4>2. pc[w] \in Open /\ "store" \notin Open
        BY <2>6 DEF CountSession, AcceptTask, Resolved, Reserve, Enter, Open
      <4>3. UNCHANGED <<task, sessions, cleaner, victim, serve, stale>>
        BY <2>6 DEF CountSession, AcceptTask, Resolved, Reserve, table, sweep,
           server
      <4> QED
        BY ZenonT(60), <1>0, <4>1, <4>2, <4>3 DEF Goto, Types
    <3> QED
      BY <2>1, <3>1, SessionMove
  <2> QED
    BY <1>8, <2>2, <2>3, <2>4, <2>5, <2>6 DEF WorkerStep
<1> QED
  BY <1>2, <1>3, <1>4, <1>5, <1>6, <1>7, <1>8, CloseSessions
  DEF Next, CleanerStep

-----------------------------------------------------------------------------
(* Targets *)

\* A listed target is one of the targets.
LEMMA ListedFacts ==
  ASSUME Types, NEW k \in Keys, NEW a \in Addresses
  PROVE  targets[k][a] \in Targets \cup {None}
<1>1. targets[k] \in [Addresses -> Targets \cup {None}]
  BY DEF Types
<1> QED
  BY <1>1

\* A step that leaves the targets alone and takes no lease.
LEMMA TargetFrame ==
  ASSUME IInv, UNCHANGED <<targets, reader, home, leased, targetCount, made>>,
         closed => closed', cancelled => cancelled', sessions \subseteq sessions',
         \A v \in Workers : pc'[v] \in Dialing =>
           pc[v] \in Dialing /\ task'[v] = task[v]
  PROVE  TargetInv'
<1>1. TargetInv
  BY DEF IInv
<1>2. ListInv'
  BY SMT, <1>1 DEF TargetInv, ListInv
<1>3. MadeInv'
  BY SMT, <1>1 DEF TargetInv, MadeInv, TargetOf
<1>4. LeaseInv'
  BY <1>1 DEF TargetInv, LeaseInv, Making, Reading
<1> QED
  BY <1>2, <1>3, <1>4 DEF TargetInv

\* A lease is taken for a target nobody can reach.
LEMMA ReserveTargets ==
  ASSUME IInv, NEW w \in Workers, NEW t \in Targets, Reserve(w, t)
  PROVE  TargetInv'
<1>1. Types /\ WorkInv /\ TargetInv
  BY DEF IInv
<1>2. /\ pc[w] = "target" /\ pc'[w] = "resolve" /\ made'[w] = t
      /\ \A v \in Workers \ {w} : pc'[v] = pc[v] /\ made'[v] = made[v]
      /\ leased' = leased \cup {t}
      /\ UNCHANGED <<targets, targetCount, reader, home, task, closed, cancelled,
                     sessions>>
  BY <1>1 DEF Reserve, Goto, Types, server, table
<1>3. /\ reader[t] = "none" /\ \A v \in Workers : made[v] # t
      /\ \A k \in Keys, a \in Addresses : targets[k][a] # t
  BY DEF Reserve, NewTarget, Unused
<1>4. ListInv'
  BY SMTT(60), <1>1, <1>2 DEF TargetInv, ListInv
<1>5. MadeInv'
  <2>1. TargetOf(w) = None /\ targetCount[task[w].key] < MaxTargets
    BY DEF Reserve
  <2>2. /\ TargetOf(w)' = None /\ targetCount'[task'[w].key] < MaxTargets
        /\ reader'[made'[w]] = "none" /\ made'[w] \in leased'
        /\ \A k \in Keys, a \in Addresses : targets'[k][a] # made'[w]
        /\ \A v \in Workers \ {w} : made'[v] # made'[w]
    BY <1>2, <1>3, <2>1 DEF TargetOf
  <2>3. ASSUME NEW v \in Workers \ {w}, pc'[v] \in Dialing
        PROVE  /\ TargetOf(v)' = None /\ targetCount'[task'[v].key] < MaxTargets
               /\ reader'[made'[v]] = "none" /\ made'[v] \in leased'
               /\ \A k \in Keys, a \in Addresses : targets'[k][a] # made'[v]
               /\ \A u \in Workers \ {v} : made'[u] # made'[v]
    <3>1. /\ TargetOf(v) = None /\ targetCount[task[v].key] < MaxTargets
          /\ reader[made[v]] = "none" /\ made[v] \in leased
          /\ \A k \in Keys, a \in Addresses : targets[k][a] # made[v]
          /\ \A u \in Workers \ {v} : made[u] # made[v]
      BY <1>1, <1>2, <2>3 DEF TargetInv, MadeInv
    <3>2. \A u \in Workers \ {v} : made'[u] # made'[v]
      BY <1>2, <1>3, <3>1
    <3> QED
      BY ZenonT(60), <1>2, <2>3, <3>1, <3>2 DEF TargetOf
  <2> QED
    BY <2>2, <2>3 DEF MadeInv
<1>6. LeaseInv'
  <2>1. made[w] = None
    BY <1>1, <1>2 DEF WorkInv, Dialing
  <2>2. ASSUME NEW x \in Making \cup {t}
        PROVE  x \in Making'
    <3>1. x # None
      BY <2>2, TaskFacts DEF Making
    <3>2. \E v \in Workers : x = made'[v]
      BY <1>2, <2>1, <2>2, <3>1 DEF Making
    <3> QED
      BY <3>1, <3>2 DEF Making
  <2>3. Reading' = Reading
    BY <1>2 DEF Reading
  <2>4. leased \subseteq Making \cup Reading
    BY <1>1 DEF TargetInv, LeaseInv
  <2>5. leased' \subseteq Making' \cup Reading'
    BY <1>2, <2>2, <2>3, <2>4
  <2> QED
    BY <1>1, <1>2, <2>5 DEF TargetInv, LeaseInv
<1> QED
  BY <1>4, <1>5, <1>6 DEF TargetInv

\* What another worker that makes a target keeps when the task of w ends.
LEMMA OthersMade ==
  ASSUME IInv, NEW w \in Workers, Finish(w), NEW v \in Workers,
         pc'[v] \in Dialing
  PROVE  /\ v # w /\ pc[v] \in Dialing /\ made[v] \in Targets
         /\ made'[v] = made[v] /\ task'[v] = task[v]
         /\ TargetOf(v) = None /\ targetCount[task[v].key] < MaxTargets
         /\ reader[made[v]] = "none" /\ made[v] \in leased
         /\ \A k \in Keys, a \in Addresses : targets[k][a] # made[v]
         /\ \A u \in Workers \ {v} : made[u] # made[v]
         /\ \A u \in Workers \ {v} : made'[u] # made'[v]
<1>1. Types /\ WorkInv /\ TargetInv
  BY DEF IInv
<1>2. /\ pc'[w] = "idle" /\ made'[w] = None
      /\ \A u \in Workers \ {w} :
           pc'[u] = pc[u] /\ task'[u] = task[u] /\ made'[u] = made[u]
  BY <1>1, FinishFacts
<1>3. v # w /\ pc[v] \in Dialing
  BY <1>2 DEF Dialing
<1>4. made[v] \in Targets
  BY <1>1, <1>3, WorkerFacts DEF Dialing
<1>5. /\ TargetOf(v) = None /\ targetCount[task[v].key] < MaxTargets
      /\ reader[made[v]] = "none" /\ made[v] \in leased
      /\ \A k \in Keys, a \in Addresses : targets[k][a] # made[v]
      /\ \A u \in Workers \ {v} : made[u] # made[v]
  BY <1>1, <1>3 DEF TargetInv, MadeInv
<1>6. made'[v] = made[v] /\ task'[v] = task[v]
  BY <1>2, <1>3
<1>7. \A u \in Workers \ {v} : made'[u] # made'[v]
  BY ZenonT(60), <1>2, <1>4, <1>5, <1>6, TaskFacts
<1> QED
  BY <1>3, <1>4, <1>5, <1>6, <1>7

\* A target that cannot be had gives its lease back.
LEMMA FailTargets ==
  ASSUME IInv, NEW w \in Workers, ResolveFails(w)
  PROVE  TargetInv'
<1>1. Types /\ WorkInv /\ TargetInv
  BY DEF IInv
<1>2. /\ Finish(w) /\ leased' = leased \ {made[w]} /\ pc[w] \in Dialing
      /\ UNCHANGED <<targets, targetCount, reader, home, closed, cancelled,
                     sessions>>
  BY DEF ResolveFails, Dialing, server, table
<1>3. \A v \in Workers \ {w} : made'[v] = made[v]
  BY <1>1, <1>2, FinishFacts
<1>4. ListInv'
  BY SMTT(60), <1>1, <1>2 DEF TargetInv, ListInv
<1>5. MadeInv'
  <2> SUFFICES ASSUME NEW v \in Workers, pc'[v] \in Dialing
               PROVE  /\ TargetOf(v)' = None
                      /\ targetCount'[task'[v].key] < MaxTargets
                      /\ reader'[made'[v]] = "none" /\ made'[v] \in leased'
                      /\ \A k \in Keys, a \in Addresses :
                           targets'[k][a] # made'[v]
                      /\ \A u \in Workers \ {v} : made'[u] # made'[v]
    BY DEF MadeInv
  <2>1. /\ v # w /\ made'[v] = made[v] /\ task'[v] = task[v]
        /\ TargetOf(v) = None /\ targetCount[task[v].key] < MaxTargets
        /\ reader[made[v]] = "none" /\ made[v] \in leased
        /\ \A k \in Keys, a \in Addresses : targets[k][a] # made[v]
        /\ \A u \in Workers \ {v} : made[u] # made[v]
        /\ \A u \in Workers \ {v} : made'[u] # made'[v]
    BY <1>2, OthersMade
  <2>2. made[v] \in leased'
    BY <1>2, <2>1
  <2> QED
    BY <1>2, <2>1, <2>2 DEF TargetOf
<1>6. LeaseInv'
  <2>1. leased \subseteq Making \cup Reading
    BY <1>1 DEF TargetInv, LeaseInv
  <2>2. Making \ {made[w]} \subseteq Making'
    BY <1>3 DEF Making
  <2>3. leased' \subseteq Making' \cup Reading'
    BY <1>2, <2>1, <2>2 DEF Reading
  <2>4. \A k \in Keys, a \in Addresses : targets[k][a] # made[w]
    BY <1>1, <1>2 DEF TargetInv, MadeInv
  <2> QED
    BY <1>1, <1>2, <2>3, <2>4 DEF TargetInv, LeaseInv
<1> QED
  BY <1>4, <1>5, <1>6 DEF TargetInv

\* What Install does to the tables.
LEMMA InstallFacts ==
  ASSUME IInv, NEW w \in Workers, Install(w)
  PROVE  LET k == task[w].key
             a == task[w].addr
             t == made[w]
         IN  /\ k \in Keys /\ a \in Addresses /\ t \in Targets /\ t \in leased
             /\ k \in sessions /\ pc[w] \in Dialing /\ Finish(w)
             /\ targets[k][a] = None /\ targets'[k][a] = t
             /\ \A l \in Keys, b \in Addresses :
                  l # k \/ b # a => targets'[l][b] = targets[l][b]
             /\ targetCount[k] < MaxTargets
             /\ targetCount'[k] = targetCount[k] + 1
             /\ \A l \in Keys \ {k} : targetCount'[l] = targetCount[l]
             /\ reader[t] = "none"
             /\ reader'[t] = "read" /\ home'[t] = <<k, a>>
             /\ \A u \in Targets \ {t} :
                  reader'[u] = reader[u] /\ home'[u] = home[u]
             /\ \A l \in Keys, b \in Addresses : targets[l][b] # t
             /\ UNCHANGED <<leased, closed, cancelled, sessions>>
<1> DEFINE k == task[w].key
           a == task[w].addr
           t == made[w]
<1>1. Types /\ WorkInv /\ SessionInv /\ TargetInv
  BY DEF IInv
<1>2. /\ pc[w] = "install" /\ Finish(w)
      /\ targets' = [targets EXCEPT ![k][a] = t]
      /\ targetCount' = [targetCount EXCEPT ![k] = @ + 1]
      /\ reader' = [reader EXCEPT ![t] = "read"]
      /\ home' = [home EXCEPT ![t] = <<k, a>>]
      /\ UNCHANGED <<leased, closed, cancelled, sessions>>
  BY DEF Install, server, table
<1>3. k \in Keys /\ a \in Addresses /\ t \in Targets /\ pc[w] \in Dialing
  BY <1>1, <1>2, WorkerFacts DEF Dialing
<1>4. k \in sessions
  BY <1>1, <1>2 DEF SessionInv, WorkInv, Locked, Open
<1>5. /\ targets[k][a] = None /\ targetCount[k] < MaxTargets
      /\ reader[t] = "none" /\ t \in leased
      /\ \A l \in Keys, b \in Addresses : targets[l][b] # t
  BY <1>1, <1>3 DEF TargetInv, MadeInv, TargetOf
<1> HIDE DEF k, a, t
<1>6. /\ targets'[k][a] = t
      /\ \A l \in Keys, b \in Addresses :
           l # k \/ b # a => targets'[l][b] = targets[l][b]
  BY SMT, <1>1, <1>2, <1>3 DEF Types
<1>7. /\ targetCount'[k] = targetCount[k] + 1
      /\ \A l \in Keys \ {k} : targetCount'[l] = targetCount[l]
  BY <1>1, <1>2, <1>3 DEF Types
<1>8. /\ reader'[t] = "read" /\ home'[t] = <<k, a>>
      /\ \A u \in Targets \ {t} : reader'[u] = reader[u] /\ home'[u] = home[u]
  BY <1>1, <1>2, <1>3 DEF Types
<1> QED
  BY <1>2, <1>3, <1>4, <1>5, <1>6, <1>7, <1>8 DEF k, a, t

\* A target is listed once, with its reader, by the session its worker locked.
LEMMA InstallTargets ==
  ASSUME IInv, NEW w \in Workers, Install(w)
  PROVE  TargetInv'
<1> DEFINE k == task[w].key
           a == task[w].addr
           t == made[w]
<1>1. Types /\ WorkInv /\ TargetInv
  BY DEF IInv
<1>2. /\ k \in Keys /\ a \in Addresses /\ t \in Targets /\ t \in leased
      /\ k \in sessions /\ pc[w] \in Dialing /\ Finish(w)
      /\ targets[k][a] = None /\ targets'[k][a] = t
      /\ \A l \in Keys, b \in Addresses :
           l # k \/ b # a => targets'[l][b] = targets[l][b]
      /\ \A l \in Keys \ {k} : targetCount'[l] = targetCount[l]
      /\ reader'[t] = "read" /\ home'[t] = <<k, a>>
      /\ \A u \in Targets \ {t} :
           reader'[u] = reader[u] /\ home'[u] = home[u]
      /\ \A l \in Keys, b \in Addresses : targets[l][b] # t
      /\ UNCHANGED <<leased, closed, cancelled, sessions>>
  BY ZenonT(60), InstallFacts
<1>3. MadeInv'
  <2> SUFFICES ASSUME NEW v \in Workers, pc'[v] \in Dialing
               PROVE  /\ TargetOf(v)' = None
                      /\ targetCount'[task'[v].key] < MaxTargets
                      /\ reader'[made'[v]] = "none" /\ made'[v] \in leased'
                      /\ \A l \in Keys, b \in Addresses :
                           targets'[l][b] # made'[v]
                      /\ \A u \in Workers \ {v} : made'[u] # made'[v]
    BY DEF MadeInv
  <2>1. /\ v # w /\ pc[v] \in Dialing /\ made[v] \in Targets
        /\ made'[v] = made[v] /\ task'[v] = task[v]
        /\ TargetOf(v) = None /\ targetCount[task[v].key] < MaxTargets
        /\ reader[made[v]] = "none" /\ made[v] \in leased
        /\ \A l \in Keys, b \in Addresses : targets[l][b] # made[v]
        /\ \A u \in Workers \ {v} : made[u] # made[v]
        /\ \A u \in Workers \ {v} : made'[u] # made'[v]
    BY <1>2, OthersMade
  <2>2. task[v].key \in Keys /\ task[v].addr \in Addresses
        /\ task[v].key # task[w].key
    <3>1. workerOf[task[v].key] = v /\ workerOf[task[w].key] = w
      BY <1>1, <1>2, <2>1 DEF WorkInv, Dialing
    <3> QED
      BY <1>1, <2>1, <3>1, WorkerFacts DEF Dialing
  <2>3. made[v] # t
    BY <2>1
  <2>4. targets'[task[v].key][task[v].addr] = None
    BY <1>2, <2>1, <2>2 DEF TargetOf
  <2>5. targetCount'[task[v].key] = targetCount[task[v].key]
    BY <1>2, <2>2
  <2>6. reader'[made[v]] = "none"
    BY ZenonT(60), <1>2, <2>1, <2>3
  <2>7. \A l \in Keys, b \in Addresses : targets'[l][b] # made[v]
    <3> SUFFICES ASSUME NEW l \in Keys, NEW b \in Addresses
                 PROVE  targets'[l][b] # made[v]
      OBVIOUS
    <3> QED
      BY SMTT(60), <1>2, <2>1, <2>3
  <2> QED
    BY SMTT(60), <1>2, <2>1, <2>4, <2>5, <2>6, <2>7 DEF TargetOf
<1> HIDE DEF k, a, t
<1>4. \A l \in Keys, b \in Addresses :
        targets'[l][b] = IF l = k /\ b = a THEN t ELSE targets[l][b]
  BY <1>2
<1>5. ListInv'
  <2>1. \A l \in Keys, b \in Addresses : targets[l][b] \in Targets \cup {None}
    BY <1>1, ListedFacts
  <2>2. ASSUME NEW l \in Keys, NEW b \in Addresses, targets'[l][b] # None
        PROVE  \/ reader'[targets'[l][b]] = "read"
                    /\ home'[targets'[l][b]] = <<l, b>>
               \/ reader'[targets'[l][b]] = "none" /\ (closed' \/ cancelled')
    <3>1. CASE l = k /\ b = a
      BY <1>2, <3>1
    <3>2. CASE ~(l = k /\ b = a)
      <4>1. targets'[l][b] = targets[l][b] /\ targets[l][b] \in Targets \ {t}
        BY SMT, <1>2, <1>4, <2>1, <2>2, <3>2
      <4>2. \/ reader[targets[l][b]] = "read" /\ home[targets[l][b]] = <<l, b>>
            \/ reader[targets[l][b]] = "none" /\ (closed \/ cancelled)
        BY <1>1, <2>2, <4>1 DEF TargetInv, ListInv
      <4> QED
        BY <1>2, <4>1, <4>2
    <3> QED
      BY <3>1, <3>2
  <2>3. ASSUME NEW u \in Targets, NEW l \in Keys, NEW b \in Addresses,
               reader'[u] = "read", home'[u] = <<l, b>>
        PROVE  targets'[l][b] = u
    <3>1. CASE u = t
      BY SMT, <1>2, <2>3, <3>1
    <3>2. CASE u # t
      <4>1. targets[l][b] = u
        BY SMTT(60), <1>1, <1>2, <2>3, <3>2 DEF TargetInv, ListInv
      <4> QED
        BY <1>2, <1>4, <4>1, TaskFacts
    <3> QED
      BY <3>1, <3>2
  <2>4. ASSUME NEW l \in Keys, NEW b \in Addresses, NEW m \in Keys,
               NEW c \in Addresses, targets'[l][b] = targets'[m][c],
               targets'[l][b] # None
        PROVE  l = m /\ b = c
    BY SMT, <1>1, <1>2, <1>4, <2>4 DEF TargetInv, ListInv
  <2>5. \A u \in Targets : reader'[u] = "none" => home'[u] = None
    BY ZenonT(60), <1>1, <1>2 DEF TargetInv, ListInv
  <2> QED
    BY SMT, <2>2, <2>3, <2>4, <2>5 DEF ListInv
<1>6. LeaseInv'
  <2>1. leased \subseteq Making \cup Reading
    BY <1>1 DEF TargetInv, LeaseInv
  <2>2. Making \ {t} \subseteq Making'
    <3>1. \A v \in Workers \ {w} : made'[v] = made[v]
      BY <1>1, <1>2, FinishFacts
    <3> QED
      BY <3>1 DEF Making, t
  <2>3. Reading \cup {t} \subseteq Reading'
    BY <1>2 DEF Reading
  <2>4. leased' \subseteq Making' \cup Reading'
    BY <1>2, <2>1, <2>2, <2>3
  <2> QED
    BY ZenonT(60), <1>1, <1>2, <1>4, <2>4 DEF TargetInv, LeaseInv
<1> QED
  BY <1>3, <1>5, <1>6 DEF TargetInv

\* The reader of a target that is not listed, or of a server that stops, ends.
LEMMA ReaderEndsTargets ==
  ASSUME IInv, NEW t \in Targets, ReaderEnds(t), reader[t] # "none",
         UNCHANGED <<targets, pc, task, made, closed, cancelled, sessions>>,
         closed \/ cancelled \/ \A k \in Keys, a \in Addresses : targets[k][a] # t,
         \A w \in Workers : pc[w] \in Dialing =>
           targetCount'[task[w].key] < MaxTargets
  PROVE  TargetInv'
<1>1. Types /\ WorkInv /\ TargetInv
  BY DEF IInv
<1>2. /\ leased' = leased \ {t} /\ reader'[t] = "none" /\ home'[t] = None
      /\ \A u \in Targets \ {t} : reader'[u] = reader[u] /\ home'[u] = home[u]
  BY <1>1 DEF ReaderEnds, Types
<1>3. \A l \in Keys, b \in Addresses : targets[l][b] \in Targets \cup {None}
  BY <1>1, ListedFacts
<1>4. ListInv'
  <2>1. ASSUME NEW k \in Keys, NEW a \in Addresses, targets[k][a] # None
        PROVE  \/ reader'[targets[k][a]] = "read"
                    /\ home'[targets[k][a]] = <<k, a>>
               \/ reader'[targets[k][a]] = "none" /\ (closed \/ cancelled)
    <3>1. CASE targets[k][a] = t
      BY <1>2, <3>1
    <3>2. CASE targets[k][a] # t
      <4>1. targets[k][a] \in Targets \ {t}
        BY <1>3, <2>1, <3>2
      <4>2. \/ reader[targets[k][a]] = "read" /\ home[targets[k][a]] = <<k, a>>
            \/ reader[targets[k][a]] = "none" /\ (closed \/ cancelled)
        BY <1>1, <2>1 DEF TargetInv, ListInv
      <4> QED
        BY <1>2, <4>1, <4>2
    <3> QED
      BY <3>1, <3>2
  <2>2. \A u \in Targets, k \in Keys, a \in Addresses :
          reader'[u] = "read" /\ home'[u] = <<k, a>> => targets[k][a] = u
    BY SMT, <1>1, <1>2 DEF TargetInv, ListInv
  <2>3. \A u \in Targets : reader'[u] = "none" => home'[u] = None
    BY <1>1, <1>2 DEF TargetInv, ListInv
  <2> QED
    BY SMT, <1>1, <2>1, <2>2, <2>3 DEF TargetInv, ListInv
<1>5. MadeInv'
  <2> SUFFICES ASSUME NEW w \in Workers, pc[w] \in Dialing
               PROVE  /\ TargetOf(w)' = None
                      /\ targetCount'[task'[w].key] < MaxTargets
                      /\ reader'[made'[w]] = "none" /\ made'[w] \in leased'
                      /\ \A k \in Keys, a \in Addresses :
                           targets'[k][a] # made'[w]
                      /\ \A v \in Workers \ {w} : made'[v] # made'[w]
    BY DEF MadeInv
  <2>1. /\ TargetOf(w) = None /\ reader[made[w]] = "none" /\ made[w] \in leased
        /\ \A k \in Keys, a \in Addresses : targets[k][a] # made[w]
        /\ \A v \in Workers \ {w} : made[v] # made[w]
    BY <1>1 DEF TargetInv, MadeInv
  <2>2. made[w] \in Targets \ {t}
    BY <1>1, <2>1, WorkerFacts DEF Dialing
  <2>3. reader'[made[w]] = "none" /\ made[w] \in leased'
    BY <1>2, <2>1, <2>2
  <2> QED
    BY <2>1, <2>3 DEF TargetOf
<1>6. LeaseInv'
  <2>1. Making' = Making /\ Reading \ {t} \subseteq Reading'
    BY <1>2 DEF Making, Reading
  <2>2. leased' \subseteq Making' \cup Reading'
    BY <1>1, <1>2, <2>1 DEF TargetInv, LeaseInv
  <2> QED
    BY <1>1, <1>2, <2>2 DEF TargetInv, LeaseInv
<1> QED
  BY <1>4, <1>5, <1>6 DEF TargetInv

\* What a read error does to the tables.
LEMMA ReadFailsFacts ==
  ASSUME IInv, NEW t \in Targets, ReadFails(t)
  PROVE  \/ /\ home[t] = None /\ targets' = targets /\ ReaderEnds(t)
            /\ \A k \in Keys, a \in Addresses : targets[k][a] # t
         \/ \E k \in Keys, a \in Addresses :
              /\ home[t] = <<k, a>> /\ targets[k][a] = t
              /\ targets'[k][a] = None
              /\ \A l \in Keys, b \in Addresses :
                   l # k \/ b # a => /\ targets'[l][b] = targets[l][b]
                                     /\ targets[l][b] # t
              /\ reader'[t] = "uncount"
              /\ \A u \in Targets \ {t} : reader'[u] = reader[u]
              /\ UNCHANGED <<leased, home>>
<1>1. Types /\ TargetInv
  BY DEF IInv
<1>2. /\ reader[t] = "read"
      /\ targets' = [k \in Keys |-> [a \in Addresses |->
                       IF home[t] = <<k, a>> THEN None ELSE targets[k][a]]]
      /\ IF targets' # targets
         THEN /\ reader' = [reader EXCEPT ![t] = "uncount"]
              /\ UNCHANGED <<leased, home>>
         ELSE ReaderEnds(t)
  BY DEF ReadFails
<1>3. \A l \in Keys, b \in Addresses :
        targets'[l][b] = IF home[t] = <<l, b>> THEN None ELSE targets[l][b]
  BY <1>2
<1>4. home[t] \in Homes \cup {None}
  BY <1>1 DEF Types
<1>5. CASE home[t] = None
  <2>1. \A k \in Keys, a \in Addresses : home[t] # <<k, a>>
    BY SMT, <1>5, TaskFacts DEF Homes
  <2>2. targets' = targets
    <3>1. targets' = [k \in Keys |-> [a \in Addresses |-> targets[k][a]]]
      BY SMT, <1>2, <2>1
    <3>2. \A k \in Keys : targets[k] = [a \in Addresses |-> targets[k][a]]
      BY <1>1 DEF Types
    <3>3. targets = [k \in Keys |-> targets[k]]
      BY <1>1 DEF Types
    <3> QED
      BY SMTT(60), <3>1, <3>2, <3>3
  <2>3. \A k \in Keys, a \in Addresses : targets[k][a] # t
    BY SMT, <1>1, <1>2, <2>1, TaskFacts DEF TargetInv, ListInv
  <2> QED
    BY <1>2, <1>5, <2>2, <2>3
<1>6. CASE home[t] # None
  <2>1. PICK k \in Keys, a \in Addresses : home[t] = <<k, a>>
    BY SMTT(60), <1>4, <1>6 DEF Homes
  <2>2. targets[k][a] = t /\ t # None
    BY SMTT(60), <1>1, <1>2, <2>1, TaskFacts DEF TargetInv, ListInv
  <2>3. targets'[k][a] = None
    BY <1>3, <2>1
  <2>4. targets' # targets
    BY <2>2, <2>3
  <2>5. ASSUME NEW l \in Keys, NEW b \in Addresses, l # k \/ b # a
        PROVE  targets'[l][b] = targets[l][b] /\ targets[l][b] # t
    <3>1. home[t] # <<l, b>>
      BY SMTT(60), <2>1, <2>5
    <3>2. targets[l][b] # t
      BY SMT, <1>1, <2>2, <2>5 DEF TargetInv, ListInv
    <3> QED
      BY <1>3, <3>1, <3>2
  <2>6. /\ reader'[t] = "uncount" /\ UNCHANGED <<leased, home>>
        /\ \A u \in Targets \ {t} : reader'[u] = reader[u]
    BY <1>1, <1>2, <2>4 DEF Types
  <2> QED
    BY <2>1, <2>2, <2>3, <2>5, <2>6
<1> QED
  BY <1>5, <1>6

\* A target that fails leaves its place and nothing else.
LEMMA ReadFailsTargets ==
  ASSUME IInv, NEW t \in Targets, ReadFails(t)
  PROVE  TargetInv'
<1>1. Types /\ WorkInv /\ TargetInv
  BY DEF IInv
<1>2. /\ reader[t] = "read"
      /\ UNCHANGED <<pc, task, made, closed, cancelled, sessions, targetCount>>
  BY DEF ReadFails, work, server, table
<1>3. CASE /\ targets' = targets /\ ReaderEnds(t)
           /\ \A k \in Keys, a \in Addresses : targets[k][a] # t
  <2>1. \A w \in Workers : pc[w] \in Dialing =>
          targetCount'[task[w].key] < MaxTargets
    BY <1>1, <1>2 DEF TargetInv, MadeInv
  <2> QED
    BY <1>2, <1>3, <2>1, ReaderEndsTargets
<1>4. ASSUME NEW k \in Keys, NEW a \in Addresses,
             home[t] = <<k, a>>, targets[k][a] = t, targets'[k][a] = None,
             \A l \in Keys, b \in Addresses :
               l # k \/ b # a => targets'[l][b] = targets[l][b]
                                 /\ targets[l][b] # t,
             reader'[t] = "uncount",
             \A u \in Targets \ {t} : reader'[u] = reader[u],
             UNCHANGED <<leased, home>>
      PROVE  TargetInv'
  <2>1. \A l \in Keys, b \in Addresses :
          /\ targets[l][b] \in Targets \cup {None}
          /\ targets'[l][b] # None => /\ targets'[l][b] = targets[l][b]
                                      /\ targets[l][b] \in Targets \ {t}
          /\ targets[l][b] = None => targets'[l][b] = None
    BY SMTT(60), <1>1, <1>4, ListedFacts, TaskFacts
  <2>2. ListInv'
    <3>1. ASSUME NEW l \in Keys, NEW b \in Addresses, targets'[l][b] # None
          PROVE  \/ reader'[targets'[l][b]] = "read"
                      /\ home'[targets'[l][b]] = <<l, b>>
                 \/ reader'[targets'[l][b]] = "none" /\ (closed' \/ cancelled')
      <4>1. targets'[l][b] = targets[l][b] /\ targets[l][b] \in Targets \ {t}
        BY <2>1, <3>1
      <4>2. \/ reader[targets[l][b]] = "read" /\ home[targets[l][b]] = <<l, b>>
            \/ reader[targets[l][b]] = "none" /\ (closed \/ cancelled)
        BY <1>1, <3>1, <4>1 DEF TargetInv, ListInv
      <4> QED
        BY <1>2, <1>4, <4>1, <4>2
    <3>2. ASSUME NEW u \in Targets, NEW l \in Keys, NEW b \in Addresses,
                 reader'[u] = "read", home'[u] = <<l, b>>
          PROVE  targets'[l][b] = u
      <4>1. u # t
        BY <1>4, <3>2
      <4>2. targets[l][b] = u
        BY SMTT(60), <1>1, <1>4, <3>2, <4>1 DEF TargetInv, ListInv
      <4> QED
        BY SMTT(60), <1>4, <4>1, <4>2
    <3>3. ASSUME NEW l \in Keys, NEW b \in Addresses, NEW m \in Keys,
                 NEW c \in Addresses, targets'[l][b] = targets'[m][c],
                 targets'[l][b] # None
          PROVE  l = m /\ b = c
      BY SMTT(60), <1>1, <2>1, <3>3 DEF TargetInv, ListInv
    <3>4. \A u \in Targets : reader'[u] = "none" => home'[u] = None
      BY SMT, <1>1, <1>4 DEF TargetInv, ListInv
    <3> QED
      BY SMTT(60), <3>1, <3>2, <3>3, <3>4 DEF ListInv
  <2>3. MadeInv'
    <3> SUFFICES ASSUME NEW w \in Workers, pc[w] \in Dialing
                 PROVE  /\ TargetOf(w)' = None
                        /\ targetCount'[task'[w].key] < MaxTargets
                        /\ reader'[made'[w]] = "none" /\ made'[w] \in leased'
                        /\ \A l \in Keys, b \in Addresses :
                             targets'[l][b] # made'[w]
                        /\ \A v \in Workers \ {w} : made'[v] # made'[w]
      BY <1>2 DEF MadeInv
    <3>1. /\ TargetOf(w) = None /\ reader[made[w]] = "none" /\ made[w] \in leased
          /\ \A l \in Keys, b \in Addresses : targets[l][b] # made[w]
          /\ \A v \in Workers \ {w} : made[v] # made[w]
          /\ targetCount[task[w].key] < MaxTargets
      BY <1>1 DEF TargetInv, MadeInv
    <3>2. /\ made[w] \in Targets \ {t} /\ task[w].key \in Keys
          /\ task[w].addr \in Addresses
      BY <1>1, <1>2, <3>1, WorkerFacts DEF Dialing
    <3>3. reader'[made[w]] = "none"
      BY <1>4, <3>1, <3>2
    <3>4. TargetOf(w)' = None
      BY <1>2, <2>1, <3>1, <3>2 DEF TargetOf
    <3>5. \A l \in Keys, b \in Addresses : targets'[l][b] # made[w]
      BY SMTT(60), <2>1, <3>1, <3>2, TaskFacts
    <3> QED
      BY <1>2, <1>4, <3>1, <3>3, <3>4, <3>5
  <2>4. LeaseInv'
    <3>1. Making' = Making /\ Reading \subseteq Reading'
      <4>1. \A u \in Targets : reader[u] # "none" => reader'[u] # "none"
        BY <1>4
      <4> QED
        BY <1>2, <4>1 DEF Making, Reading
    <3>2. leased' \subseteq Making' \cup Reading'
      BY <1>1, <1>4, <3>1 DEF TargetInv, LeaseInv
    <3>3. ASSUME ~closed, ~cancelled, NEW l \in Keys, NEW b \in Addresses,
                 targets'[l][b] # None
          PROVE  l \in sessions /\ targets'[l][b] \in leased
      <4>1. targets'[l][b] = targets[l][b]
        BY <2>1, <3>3
      <4> QED
        BY <1>1, <3>3, <4>1 DEF TargetInv, LeaseInv
    <3> QED
      BY <1>2, <1>4, <3>2, <3>3 DEF LeaseInv
  <2> QED
    BY <2>2, <2>3, <2>4 DEF TargetInv
<1> QED
  BY SMT, <1>3, <1>4, ReadFailsFacts

\* Readers end.
LEMMA ReaderTargets ==
  ASSUME IInv, NEW t \in Targets, ReaderStops(t) \/ ReaderUncounts(t)
  PROVE  TargetInv'
<1>1. Types /\ WorkInv /\ TargetInv
  BY DEF IInv
<1>2. \A w \in Workers : pc[w] \in Dialing =>
        targetCount[task[w].key] < MaxTargets /\ task[w].key \in Keys
  BY <1>1, WorkerFacts DEF TargetInv, MadeInv, Dialing
<1>3. CASE ReaderStops(t)
  BY <1>2, <1>3, ReaderEndsTargets DEF ReaderStops, work, server, table
<1>4. CASE ReaderUncounts(t)
  <2>1. \A k \in Keys : \/ targetCount'[k] = targetCount[k]
                        \/ targetCount'[k] = targetCount[k] - 1
    BY <1>4 DEF ReaderUncounts
  <2>2. \A k \in Keys : targetCount[k] \in Int
    BY <1>1 DEF Types
  <2>3. MaxTargets \in Nat
    BY PlainUdpAssumption
  <2>4. \A k \in Keys : targetCount[k] < MaxTargets =>
          targetCount'[k] < MaxTargets
    BY SMTT(60), <2>1, <2>2, <2>3
  <2>5. \A k \in Keys, a \in Addresses : targets[k][a] # t
    BY SMT, <1>1, <1>4, TaskFacts DEF ReaderUncounts, TargetInv, ListInv
  <2>6. /\ ReaderEnds(t) /\ reader[t] # "none"
        /\ UNCHANGED <<targets, pc, task, made, closed, cancelled, sessions>>
    BY <1>4 DEF ReaderUncounts, work, server, table
  <2> QED
    BY <1>2, <2>4, <2>5, <2>6, ReaderEndsTargets
<1> QED
  BY <1>3, <1>4

\* The cleaner closes the targets of a session that no worker has locked.
LEMMA CloseTargets ==
  ASSUME IInv, CleanerCloses
  PROVE  TargetInv'
<1>1. Types /\ WorkInv /\ SessionInv /\ TargetInv
  BY DEF IInv
<1>2. /\ victim \in Keys
      /\ leased' = leased \ Held(victim)
      /\ targets' = [targets EXCEPT ![victim] = NoTargets]
      /\ targetCount' = [targetCount EXCEPT ![victim] = 0]
      /\ home' = [t \in Targets |-> IF home[t] # None /\ home[t][1] = victim
                                    THEN None ELSE home[t]]
      /\ sessions' = sessions \ {victim}
      /\ UNCHANGED <<pc, task, made, reader, closed, cancelled>>
  BY <1>1 DEF CleanerCloses, CloseSession, SessionInv, server
<1>3. \A a \in Addresses : targets'[victim][a] = None
  BY <1>1, <1>2 DEF Types, NoTargets
<1>4. \A k \in Keys \ {victim}, a \in Addresses : targets'[k][a] = targets[k][a]
  BY <1>1, <1>2 DEF Types
<1>5. \A k \in Keys, a \in Addresses : targets'[k][a] # None =>
        /\ k # victim /\ targets'[k][a] = targets[k][a]
        /\ targets[k][a] \in Targets
  BY SMT, <1>1, <1>3, <1>4, ListedFacts
<1>6. \A k \in Keys \ {victim} : targetCount'[k] = targetCount[k]
  BY <1>1, <1>2 DEF Types
<1>7. \A t \in Targets, k \in Keys \ {victim}, a \in Addresses :
        home[t] = <<k, a>> => home'[t] = <<k, a>>
  BY SMT, <1>2, TaskFacts
<1>8. \A t \in Targets, k \in Keys, a \in Addresses :
        home'[t] = <<k, a>> => home[t] = <<k, a>> /\ k # victim
  <2>1. \A t \in Targets :
          home'[t] = IF home[t] # None /\ home[t][1] = victim
                     THEN None ELSE home[t]
    BY <1>2
  <2>2. \A k \in Keys, a \in Addresses : <<k, a>> # None /\ <<k, a>>[1] = k
    BY SMTT(60), TaskFacts DEF Homes
  <2> QED
    BY SMT, <2>1, <2>2
<1>9. ListInv'
  <2>1. ASSUME NEW l \in Keys, NEW b \in Addresses, targets'[l][b] # None
        PROVE  \/ reader'[targets'[l][b]] = "read"
                    /\ home'[targets'[l][b]] = <<l, b>>
               \/ reader'[targets'[l][b]] = "none" /\ (closed' \/ cancelled')
    <3>1. /\ targets'[l][b] = targets[l][b] /\ targets[l][b] \in Targets
          /\ l # victim
      BY <1>5, <2>1
    <3>2. \/ reader[targets[l][b]] = "read" /\ home[targets[l][b]] = <<l, b>>
          \/ reader[targets[l][b]] = "none" /\ (closed \/ cancelled)
      BY <1>1, <2>1, <3>1 DEF TargetInv, ListInv
    <3>3. home[targets[l][b]] = <<l, b>> => home'[targets[l][b]] = <<l, b>>
      BY <1>7, <3>1
    <3> QED
      BY <1>2, <3>1, <3>2, <3>3
  <2>2. ASSUME NEW u \in Targets, NEW l \in Keys, NEW b \in Addresses,
               reader'[u] = "read", home'[u] = <<l, b>>
        PROVE  targets'[l][b] = u
    <3>1. home[u] = <<l, b>> /\ l # victim
      BY <1>8, <2>2
    <3>2. targets[l][b] = u
      BY SMTT(60), <1>1, <1>2, <2>2, <3>1 DEF TargetInv, ListInv
    <3> QED
      BY <1>4, <3>1, <3>2
  <2>3. ASSUME NEW l \in Keys, NEW b \in Addresses, NEW m \in Keys,
               NEW c \in Addresses, targets'[l][b] = targets'[m][c],
               targets'[l][b] # None
        PROVE  l = m /\ b = c
    BY SMT, <1>1, <1>5, <2>3 DEF TargetInv, ListInv
  <2>4. ASSUME NEW u \in Targets, reader'[u] = "none"
        PROVE  home'[u] = None
    <3>1. home[u] = None
      BY <1>1, <1>2, <2>4 DEF TargetInv, ListInv
    <3> QED
      BY <1>2, <3>1
  <2> QED
    BY SMTT(60), <2>1, <2>2, <2>3, <2>4 DEF ListInv
<1>10. MadeInv'
  <2> SUFFICES ASSUME NEW w \in Workers, pc[w] \in Dialing
               PROVE  /\ TargetOf(w)' = None
                      /\ targetCount'[task'[w].key] < MaxTargets
                      /\ reader'[made'[w]] = "none" /\ made'[w] \in leased'
                      /\ \A l \in Keys, b \in Addresses :
                           targets'[l][b] # made'[w]
                      /\ \A v \in Workers \ {w} : made'[v] # made'[w]
    BY <1>2 DEF MadeInv
  <2>1. /\ TargetOf(w) = None /\ reader[made[w]] = "none" /\ made[w] \in leased
        /\ \A l \in Keys, b \in Addresses : targets[l][b] # made[w]
        /\ \A v \in Workers \ {w} : made[v] # made[w]
        /\ targetCount[task[w].key] < MaxTargets
    BY <1>1 DEF TargetInv, MadeInv
  <2>2. /\ made[w] \in Targets /\ task[w].key \in Keys
        /\ task[w].addr \in Addresses
    BY <1>1, WorkerFacts DEF Dialing
  <2>3. task[w].key # victim
    BY CloseWork DEF Dialing, Locked
  <2>4. TargetOf(w)' = None
    BY SMTT(60), <1>2, <1>4, <2>1, <2>2, <2>3 DEF TargetOf
  <2>5. targetCount'[task[w].key] < MaxTargets
    BY <1>6, <2>1, <2>2, <2>3
  <2>6. made[w] \notin Held(victim)
    BY <1>2, <2>1 DEF Held
  <2>7. \A l \in Keys, b \in Addresses : targets'[l][b] # made[w]
    BY SMTT(60), <1>5, <2>1, <2>2, TaskFacts
  <2> QED
    BY <1>2, <2>1, <2>4, <2>5, <2>6, <2>7
<1>11. LeaseInv'
  <2>1. Making' = Making /\ Reading' = Reading
    BY <1>2 DEF Making, Reading
  <2>2. leased' \subseteq Making' \cup Reading'
    BY <1>1, <1>2, <2>1 DEF TargetInv, LeaseInv
  <2>3. ASSUME ~closed, ~cancelled, NEW l \in Keys, NEW b \in Addresses,
               targets'[l][b] # None
        PROVE  l \in sessions' /\ targets'[l][b] \in leased'
    <3>1. targets'[l][b] = targets[l][b] /\ l # victim
      BY <1>5, <2>3
    <3>2. l \in sessions /\ targets[l][b] \in leased
      BY <1>1, <2>3, <3>1 DEF TargetInv, LeaseInv
    <3>3. targets[l][b] \notin Held(victim)
      BY SMTT(60), <1>1, <1>2, <2>3, <3>1 DEF Held, TargetInv, ListInv
    <3> QED
      BY SMT, <1>2, <3>1, <3>2, <3>3
  <2> QED
    BY <1>2, <2>2, <2>3 DEF LeaseInv
<1> QED
  BY <1>9, <1>10, <1>11 DEF TargetInv

\* The end of the loop closes what is left; no worker is there to mind.
LEMMA SweepTargets ==
  ASSUME IInv, ServeSweeps
  PROVE  TargetInv'
<1>1. Types /\ TargetInv /\ ServeInv
  BY DEF IInv
<1>2. WorkersGone /\ closed /\ cancelled
  BY <1>1 DEF ServeInv, ServeSweeps, Late
<1>3. \A w \in Workers : pc[w] \notin Dialing
  BY <1>2 DEF WorkersGone, Dialing
<1>4. /\ leased' \subseteq leased
      /\ UNCHANGED <<targets, targetCount, reader, home, pc, task, made, closed,
                     cancelled>>
  BY DEF ServeSweeps, closeSessions, work
<1>5. ListInv'
  BY SMT, <1>1, <1>4 DEF TargetInv, ListInv
<1>6. MadeInv'
  BY <1>3, <1>4 DEF MadeInv
<1>7. LeaseInv'
  BY <1>1, <1>2, <1>4 DEF TargetInv, LeaseInv, Making, Reading
<1> QED
  BY <1>5, <1>6, <1>7 DEF TargetInv

\* Every step keeps the targets' invariant.
LEMMA TargetStep ==
  ASSUME IInv, Next
  PROVE  TargetInv'
<1>0. Types /\ WorkInv
  BY DEF IInv
<1>1. CASE \/ Serve \/ Close \/ CloseDone \/ ParentCancels \/ LoopEnds
           \/ ServeJoinsWorkers \/ ServeDone
  <2>1. /\ closed' = closed \/ closed' = TRUE
        /\ cancelled' = cancelled \/ cancelled' = TRUE
        /\ UNCHANGED <<targets, reader, home, leased, targetCount, made, sessions,
                       pc, task>>
    BY <1>1 DEF Serve, Close, CloseDone, ParentCancels, LoopEnds,
       ServeJoinsWorkers, ServeDone, work, table, upstream
  <2>2. closed => closed'
    BY <2>1
  <2>3. cancelled => cancelled'
    BY <2>1
  <2> QED
    BY <2>1, <2>2, <2>3, TargetFrame
<1>2. ASSUME NEW m \in Tasks, Receive(m)
      PROVE  TargetInv'
  BY <1>2, TargetFrame DEF Receive, server, table, upstream
<1>3. ASSUME NEW t \in Targets, Answer(t) \/ ReaderStep(t)
      PROVE  TargetInv'
  <2>1. CASE Answer(t)
    BY <2>1, TargetFrame DEF Answer, server, work, table, upstream
  <2> QED
    BY <1>3, <2>1, ReadFailsTargets, ReaderTargets DEF ReaderStep
<1>4. ASSUME NEW k \in Keys, Age(k) \/ CleanerSees(k)
      PROVE  TargetInv'
  <2>1. UNCHANGED <<server, work, table, upstream>>
    BY <1>4 DEF Age, CleanerSees
  <2> QED
    BY <2>1, TargetFrame DEF server, work, table, upstream
<1>5. CASE CleanerSkips \/ CleanerCounts \/ CleanerStops
  <2>1. UNCHANGED <<server, work, sessions, upstream>>
    BY <1>5 DEF CleanerSkips, CleanerCounts, CleanerStops, table
  <2> QED
    BY <2>1, TargetFrame DEF server, work, upstream
<1>6. ASSUME NEW w \in Workers, WorkerStep(w)
      PROVE  TargetInv'
  <2>1. CASE Take(w)
    <3>1. /\ \A v \in Workers \ {w} : pc'[v] = pc[v] /\ task'[v] = task[v]
          /\ pc'[w] \in {"idle", "session"}
          /\ UNCHANGED <<sessions, closed, cancelled, targets, targetCount,
                         leased, reader, home, made>>
      BY <1>0, <2>1 DEF Take, Goto, Types, table, server, upstream
    <3> QED
      BY <3>1, TargetFrame DEF Dialing
  <2>2. CASE \/ FindSession(w) \/ CheckLimit(w) \/ StoreSession(w)
             \/ CountSession(w) \/ AcceptTask(w)
    <3>1. /\ \E label \in {"lock", "store", "count", "target"} : Goto(w, label)
          /\ sessions \subseteq sessions' /\ task' = task
          /\ UNCHANGED <<closed, cancelled, targets, targetCount, leased, reader,
                         home, made>>
      BY <2>2 DEF FindSession, CheckLimit, StoreSession, CountSession,
         AcceptTask, table, server, upstream
    <3>2. \A v \in Workers : pc'[v] \in Dialing => pc[v] \in Dialing
      BY <1>0, <3>1 DEF Goto, Types, Dialing
    <3> QED
      BY <3>1, <3>2, TargetFrame
  <2>3. CASE Resolved(w)
    <3>1. pc[w] = "resolve" /\ Goto(w, "install")
      BY <2>3 DEF Resolved
    <3>2. \A v \in Workers : pc'[v] \in Dialing => pc[v] \in Dialing
      BY <1>0, <3>1 DEF Goto, Types, Dialing
    <3> QED
      BY <2>3, <3>2, TargetFrame DEF Resolved, table, server, upstream
  <2>4. CASE DropAtLimit(w) \/ Refuse(w) \/ UseOrDrop(w)
    <3>1. /\ Finish(w) /\ pc[w] \notin Dialing
          /\ UNCHANGED <<sessions, closed, cancelled, targets, targetCount,
                         leased, reader, home>>
      BY <2>4 DEF DropAtLimit, Refuse, UseOrDrop, Enter, Dialing, table, server,
         upstream
    <3>2. made' = made
      <4>1. made[w] = None
        BY <1>0, <3>1 DEF WorkInv
      <4> QED
        BY <1>0, <3>1, <4>1 DEF Finish, Types
    <3>3. \A v \in Workers : pc'[v] \in Dialing =>
            pc[v] \in Dialing /\ task'[v] = task[v]
      BY <3>1, OthersMade
    <3> QED
      BY <3>1, <3>2, <3>3, TargetFrame
  <2> QED
    BY <1>6, <2>1, <2>2, <2>3, <2>4, ReserveTargets, FailTargets, InstallTargets
    DEF WorkerStep
<1> QED
  BY <1>1, <1>2, <1>3, <1>4, <1>5, <1>6, CloseTargets, SweepTargets
  DEF Next, CleanerStep

-----------------------------------------------------------------------------
(* Serve *)

\* Workers work between the start of the loop and their end.
LEMMA AtWork ==
  ASSUME IInv, NEW w \in Workers, WorkerStep(w)
  PROVE  serve \notin Late \cup {"new"}
<1>1. pc[w] # "idle" \/ queue[w] # <<>>
  BY DEF WorkerStep, Take, FindSession, CheckLimit, DropAtLimit, StoreSession,
     CountSession, Refuse, AcceptTask, Enter, UseOrDrop, Reserve, Resolved,
     ResolveFails, Install
<1>2. ~WorkersGone
  BY <1>1 DEF WorkersGone
<1> QED
  BY <1>2 DEF IInv, ServeInv

\* Every step keeps what Serve has joined.
LEMMA ServeKeeps ==
  ASSUME IInv, Next
  PROVE  ServeInv'
<1>0. Types /\ ServeInv
  BY DEF IInv
<1>1. ASSUME UNCHANGED <<serve, closed, cancelled, pc, queue>>,
             sessions' \subseteq sessions, Reading' \subseteq Reading
      PROVE  ServeInv'
  <2>1. WorkersGone => WorkersGone'
    BY <1>1 DEF WorkersGone
  <2>2. Reading = {} => Reading' = {}
    BY <1>1
  <2>3. sessions = {} => sessions' = {}
    BY <1>1
  <2> QED
    BY <1>0, <1>1, <2>1, <2>2, <2>3 DEF ServeInv
<1>2. CASE Serve \/ LoopEnds \/ ParentCancels
  BY <1>0, <1>2 DEF Serve, LoopEnds, ParentCancels, ServeInv, Late, Swept
<1>3. CASE Close
  <2>1. /\ UNCHANGED <<serve, pc, queue, sessions, reader>>
        /\ closed' = TRUE /\ cancelled' = TRUE
    BY <1>3 DEF Close, work, table, upstream
  <2>2. (WorkersGone => WorkersGone') /\ Reading' = Reading
    BY <2>1 DEF WorkersGone, Reading
  <2> QED
    BY <1>0, <2>1, <2>2 DEF ServeInv
<1>4. CASE CloseDone
  BY <1>1, <1>4 DEF CloseDone, work, table, upstream, Reading
<1>5. CASE ServeJoinsWorkers
  <2>1. /\ closed /\ cancelled /\ WorkersGone /\ serve' = "sweep"
        /\ UNCHANGED <<closed, cancelled, pc, queue>>
    BY <1>0, <1>5 DEF ServeJoinsWorkers, ServeInv, work
  <2>2. WorkersGone'
    BY <2>1 DEF WorkersGone
  <2> QED
    BY <2>1, <2>2 DEF ServeInv, Swept
<1>6. CASE ServeSweeps
  <2>1. /\ closed /\ cancelled /\ WorkersGone /\ serve' = "upstream"
        /\ sessions' = {} /\ UNCHANGED <<closed, cancelled, pc, queue>>
    BY <1>0, <1>6 DEF ServeSweeps, closeSessions, ServeInv, work, Late
  <2>2. WorkersGone'
    BY <2>1 DEF WorkersGone
  <2> QED
    BY <2>1, <2>2 DEF ServeInv
<1>7. CASE ServeDone
  <2>1. /\ closed /\ cancelled /\ WorkersGone /\ serve' = "done"
        /\ sessions = {} /\ UNCHANGED <<closed, cancelled, pc, queue, sessions>>
    BY <1>0, <1>7 DEF ServeDone, ServeInv, work, table, Late, Swept
  <2>2. WorkersGone'
    BY <2>1 DEF WorkersGone
  <2>3. Reading' = {}
    BY <1>7 DEF ServeDone, Reading, upstream
  <2> QED
    BY <2>1, <2>2, <2>3 DEF ServeInv
<1>8. ASSUME NEW m \in Tasks, Receive(m)
      PROVE  ServeInv'
  <2>1. serve' = "loop"
    BY <1>8 DEF Receive, server
  <2> QED
    BY <2>1 DEF ServeInv, Late, Swept
<1>9. ASSUME NEW w \in Workers, WorkerStep(w)
      PROVE  ServeInv'
  <2>1. UNCHANGED <<serve, closed, cancelled>>
    BY <1>9 DEF WorkerStep, Take, FindSession, CheckLimit, DropAtLimit,
       StoreSession, CountSession, Refuse, AcceptTask, UseOrDrop, Reserve,
       Resolved, ResolveFails, Install, server
  <2>2. serve \notin Late \cup {"new"}
    BY <1>9, AtWork
  <2> QED
    BY <1>0, <2>1, <2>2 DEF ServeInv, Late, Swept
<1>10. ASSUME NEW t \in Targets, Answer(t) \/ ReaderStep(t)
       PROVE  ServeInv'
  <2>1. \/ reader' = reader
        \/ /\ reader[t] # "none"
           /\ \E r : reader' = [reader EXCEPT ![t] = r]
    BY <1>10 DEF Answer, ReaderStep, ReaderStops, ReadFails, ReaderUncounts,
       ReaderEnds, upstream
  <2>2. Reading' \subseteq Reading
    BY <1>0, <2>1 DEF Reading, Types
  <2>3. UNCHANGED <<serve, closed, cancelled, pc, queue, sessions>>
    BY <1>10 DEF Answer, ReaderStep, ReaderStops, ReadFails, ReaderUncounts,
       server, work, table
  <2> QED
    BY <1>1, <2>2, <2>3
<1>11. ASSUME NEW k \in Keys, Age(k) \/ CleanerSees(k)
       PROVE  ServeInv'
  <2>1. UNCHANGED <<server, work, table, upstream>>
    BY <1>11 DEF Age, CleanerSees
  <2> QED
    BY <1>1, <2>1 DEF server, work, table, upstream, Reading
<1>12. CASE CleanerStep
  <2>1. /\ UNCHANGED <<serve, closed, cancelled, pc, queue, reader>>
        /\ sessions' \subseteq sessions
    BY <1>12 DEF CleanerStep, CleanerSkips, CleanerCloses, CloseSession,
       CleanerCounts, CleanerStops, server, work, table, upstream
  <2> QED
    BY <1>1, <2>1 DEF Reading
<1> QED
  BY <1>2, <1>3, <1>4, <1>5, <1>6, <1>7, <1>8, <1>9, <1>10, <1>11, <1>12
  DEF Next

-----------------------------------------------------------------------------
(* Counters *)

\* A set of workers or of targets is finite; two that differ in one element at
\* most differ by one at most.
LEMMA Counts ==
  ASSUME NEW U, IsFiniteSet(U), NEW S \in SUBSET U, NEW T \in SUBSET U,
         NEW x \in U, \A y \in U \ {x} : y \in S <=> y \in T
  PROVE  /\ Cardinality(S) \in Nat /\ Cardinality(T) \in Nat
         /\ x \in T /\ x \notin S => Cardinality(T) = Cardinality(S) + 1
         /\ x \notin T /\ x \in S => Cardinality(T) = Cardinality(S) - 1
         /\ (x \in T <=> x \in S) => T = S
<1>1. IsFiniteSet(S) /\ IsFiniteSet(T)
  BY FS_Subset
<1>2. Cardinality(S) \in Nat /\ Cardinality(T) \in Nat
  BY <1>1, FS_CardinalityType
<1>3. ASSUME x \in S, x \notin T
      PROVE  Cardinality(T) = Cardinality(S) - 1
  <2>1. T = S \ {x}
    BY <1>3
  <2> QED
    BY <1>1, <1>3, <2>1, FS_RemoveElement
<1>4. ASSUME x \notin S, x \in T
      PROVE  Cardinality(T) = Cardinality(S) + 1
  <2>1. T = S \cup {x}
    BY <1>4
  <2> QED
    BY <1>1, <1>4, <2>1, FS_AddElement
<1>5. (x \in T <=> x \in S) => T = S
  BY SMT
<1> QED
  BY <1>2, <1>3, <1>4, <1>5

\* What a step of one worker does to the sets of workers that are counted.
LEMMA WorkerCounts ==
  ASSUME NEW w \in Workers, \A v \in Workers \ {w} : pc'[v] = pc[v]
  PROVE  /\ Cardinality(Busy) \in Nat /\ Cardinality(Busy') \in Nat
         /\ pc'[w] # "idle" /\ pc[w] = "idle" =>
              Cardinality(Busy') = Cardinality(Busy) + 1
         /\ pc'[w] = "idle" /\ pc[w] # "idle" =>
              Cardinality(Busy') = Cardinality(Busy) - 1
         /\ (pc'[w] = "idle" <=> pc[w] = "idle") => Busy' = Busy
         /\ Cardinality(Counting) \in Nat /\ Cardinality(Counting') \in Nat
         /\ pc'[w] = "count" /\ pc[w] # "count" =>
              Cardinality(Counting') = Cardinality(Counting) + 1
         /\ pc'[w] # "count" /\ pc[w] = "count" =>
              Cardinality(Counting') = Cardinality(Counting) - 1
         /\ (pc'[w] = "count" <=> pc[w] = "count") => Counting' = Counting
         /\ Cardinality(Storing) \in Nat /\ Cardinality(Storing') \in Nat
         /\ pc'[w] \notin {"store", "count"} /\ pc[w] \in {"store", "count"} =>
              Cardinality(Storing') = Cardinality(Storing) - 1
         /\ (pc'[w] \in {"store", "count"} <=> pc[w] \in {"store", "count"}) =>
              Storing' = Storing
<1>1. IsFiniteSet(Workers)
  BY PlainUdpAssumption
<1>2. /\ Busy \in SUBSET Workers /\ Busy' \in SUBSET Workers
      /\ \A v \in Workers \ {w} : v \in Busy <=> v \in Busy'
      /\ w \in Busy <=> pc[w] # "idle"
      /\ w \in Busy' <=> pc'[w] # "idle"
  BY DEF Busy
<1>3. /\ Counting \in SUBSET Workers /\ Counting' \in SUBSET Workers
      /\ \A v \in Workers \ {w} : v \in Counting <=> v \in Counting'
      /\ w \in Counting <=> pc[w] = "count"
      /\ w \in Counting' <=> pc'[w] = "count"
  BY DEF Counting
<1>4. /\ Storing \in SUBSET Workers /\ Storing' \in SUBSET Workers
      /\ \A v \in Workers \ {w} : v \in Storing <=> v \in Storing'
  BY DEF Storing
<1>5. /\ Cardinality(Busy) \in Nat /\ Cardinality(Busy') \in Nat
      /\ w \in Busy' /\ w \notin Busy =>
           Cardinality(Busy') = Cardinality(Busy) + 1
      /\ w \notin Busy' /\ w \in Busy =>
           Cardinality(Busy') = Cardinality(Busy) - 1
      /\ (w \in Busy' <=> w \in Busy) => Busy' = Busy
  BY <1>1, <1>2, Counts
<1>6. /\ Cardinality(Counting) \in Nat /\ Cardinality(Counting') \in Nat
      /\ w \in Counting' /\ w \notin Counting =>
           Cardinality(Counting') = Cardinality(Counting) + 1
      /\ w \notin Counting' /\ w \in Counting =>
           Cardinality(Counting') = Cardinality(Counting) - 1
      /\ (w \in Counting' <=> w \in Counting) => Counting' = Counting
  BY <1>1, <1>3, Counts
<1>7. /\ Cardinality(Storing) \in Nat /\ Cardinality(Storing') \in Nat
      /\ w \in Storing' /\ w \notin Storing =>
           Cardinality(Storing') = Cardinality(Storing) + 1
      /\ w \notin Storing' /\ w \in Storing =>
           Cardinality(Storing') = Cardinality(Storing) - 1
      /\ (w \in Storing' <=> w \in Storing) => Storing' = Storing
  BY <1>1, <1>4, Counts
<1>8. /\ pc'[w] # "idle" /\ pc[w] = "idle" =>
           Cardinality(Busy') = Cardinality(Busy) + 1
      /\ pc'[w] = "idle" /\ pc[w] # "idle" =>
           Cardinality(Busy') = Cardinality(Busy) - 1
      /\ (pc'[w] = "idle" <=> pc[w] = "idle") => Busy' = Busy
  BY <1>2, <1>5
<1>9. /\ pc'[w] = "count" /\ pc[w] # "count" =>
           Cardinality(Counting') = Cardinality(Counting) + 1
      /\ pc'[w] # "count" /\ pc[w] = "count" =>
           Cardinality(Counting') = Cardinality(Counting) - 1
      /\ (pc'[w] = "count" <=> pc[w] = "count") => Counting' = Counting
  BY <1>3, <1>6
<1>10. /\ pc'[w] \notin {"store", "count"} /\ pc[w] \in {"store", "count"} =>
            Cardinality(Storing') = Cardinality(Storing) - 1
       /\ (pc'[w] \in {"store", "count"} <=> pc[w] \in {"store", "count"}) =>
            Storing' = Storing
  BY <1>7 DEF Storing
<1> QED
  BY <1>5, <1>6, <1>7, <1>8, <1>9, <1>10

\* A worker's step leaves the program counters of the others.
LEMMA OthersStay ==
  ASSUME Types, NEW w \in Workers, WorkerStep(w)
  PROVE  \A v \in Workers \ {w} : pc'[v] = pc[v]
<1>1. pc' = pc \/ \E label : Goto(w, label)
  BY DEF WorkerStep, Take, FindSession, CheckLimit, DropAtLimit, StoreSession,
     CountSession, Refuse, AcceptTask, UseOrDrop, Reserve, Resolved,
     ResolveFails, Install, Finish
<1> QED
  BY <1>1 DEF Goto, Types

\* What a datagram adds to the queues and a worker takes off.
LEMMA QueueCounts ==
  ASSUME Types, IsFiniteSet(Queued), NEW w \in Workers,
         \A v \in Workers \ {w} : queue'[v] = queue[v],
         queue'[w] \in Seq(Tasks)
  PROVE  /\ Cardinality(Queued) \in Nat
         /\ Len(queue'[w]) = Len(queue[w]) + 1 =>
              /\ IsFiniteSet(Queued')
              /\ Cardinality(Queued') = Cardinality(Queued) + 1
         /\ Len(queue'[w]) = Len(queue[w]) - 1 =>
              /\ IsFiniteSet(Queued')
              /\ Cardinality(Queued') = Cardinality(Queued) - 1
<1>1. \A p : p \in Queued <=>
        \E v \in Workers : \E i \in 1..Len(queue[v]) : p = <<v, i>>
  BY SMT DEF Queued
<1>2. \A p : p \in Queued' <=>
        \E v \in Workers : \E i \in 1..Len(queue'[v]) : p = <<v, i>>
  BY SMT DEF Queued
<1>3. Cardinality(Queued) \in Nat
  BY FS_CardinalityType
<1>4. Len(queue[w]) \in Nat /\ Len(queue'[w]) \in Nat
  BY SMT DEF Types
<1>5. ASSUME Len(queue'[w]) = Len(queue[w]) + 1
      PROVE  /\ IsFiniteSet(Queued')
             /\ Cardinality(Queued') = Cardinality(Queued) + 1
  <2> DEFINE p == <<w, Len(queue'[w])>>
  <2>1. 1..Len(queue'[w]) = (1..Len(queue[w])) \cup {Len(queue'[w])}
        /\ Len(queue'[w]) \notin 1..Len(queue[w])
    BY SMT, <1>4, <1>5
  <2>2. p \notin Queued
    BY SMTT(60), <1>1, <2>1
  <2>3. Queued' = Queued \cup {p}
    BY SMT, <1>1, <1>2, <2>1
  <2> QED
    BY <2>2, <2>3, FS_AddElement
<1>6. ASSUME Len(queue'[w]) = Len(queue[w]) - 1
      PROVE  /\ IsFiniteSet(Queued')
             /\ Cardinality(Queued') = Cardinality(Queued) - 1
  <2> DEFINE p == <<w, Len(queue[w])>>
  <2>1. /\ 1..Len(queue'[w]) = (1..Len(queue[w])) \ {Len(queue[w])}
        /\ Len(queue[w]) \in 1..Len(queue[w])
    BY SMTT(60), <1>4, <1>6
  <2>2. p \in Queued
    BY SMTT(60), <1>1, <2>1
  <2>3. Queued' = Queued \ {p}
    BY SMTT(60), <1>1, <1>2, <2>1
  <2> QED
    BY <2>2, <2>3, FS_RemoveElement
<1> QED
  BY <1>3, <1>5, <1>6

\* The steps of a worker: from the queue, to the end of a task, and between.
LEMMA WorkerMoves ==
  ASSUME Types, NEW w \in Workers, WorkerStep(w), ~Take(w)
  PROVE  /\ pc[w] # "idle" /\ queue' = queue
         /\ \/ Finish(w) /\ pc[w] \notin {"store", "count"}
            \/ UNCHANGED inFlightMem /\ pc'[w] # "idle"
         /\ ~StoreSession(w) => UNCHANGED sessions
         /\ ~CountSession(w) => UNCHANGED sessionCount
         /\ UNCHANGED <<serve, cleaner>>
         /\ ~StoreSession(w) /\ ~CountSession(w) =>
              pc[w] # "count" /\ pc'[w] # "count"
         /\ ~StoreSession(w) /\ ~CountSession(w) /\ ~CheckLimit(w) =>
              /\ pc[w] \notin {"store", "count"}
              /\ pc'[w] \notin {"store", "count"}
<1>1. CASE FindSession(w) \/ CheckLimit(w) \/ Resolved(w)
  BY <1>1 DEF FindSession, CheckLimit, Resolved, Goto, Types, table, server,
     sweep
<1>2. CASE AcceptTask(w) \/ \E t \in Targets : Reserve(w, t)
  BY <1>2 DEF AcceptTask, Reserve, Enter, Goto, Types, table, server, sweep
<1>3. CASE StoreSession(w)
  BY <1>3 DEF StoreSession, Goto, Types, table, server, sweep
<1>4. CASE CountSession(w)
  BY <1>4 DEF CountSession, Goto, Types, table, server, sweep
<1>5. CASE \/ DropAtLimit(w) \/ Refuse(w) \/ UseOrDrop(w)
           \/ ResolveFails(w) \/ Install(w)
  <2>1. /\ pc[w] \notin {"idle", "store", "count"} /\ Finish(w)
        /\ UNCHANGED <<queue, sessions, sessionCount, serve, cleaner>>
    BY <1>5 DEF DropAtLimit, Refuse, UseOrDrop, ResolveFails, Install, Enter,
       table, server, sweep
  <2>2. pc'[w] = "idle"
    BY <2>1, FinishFacts
  <2> QED
    BY <2>1, <2>2
<1> QED
  BY <1>1, <1>2, <1>3, <1>4, <1>5 DEF WorkerStep

\* Every step keeps the memory counter exact.
LEMMA MemStep ==
  ASSUME IInv, Next
  PROVE  MemInv'
<1>1. /\ Types /\ IsFiniteSet(Queued) /\ inFlightMem \in Int
      /\ inFlightMem = Cardinality(Busy) + Cardinality(Queued)
  BY DEF IInv, CountInv, MemInv, Types
<1>2. ASSUME UNCHANGED <<pc, queue, inFlightMem>>
      PROVE  MemInv'
  BY <1>1, <1>2 DEF MemInv, Busy, Queued
<1>3. CASE \/ Serve \/ Close \/ CloseDone \/ ParentCancels \/ LoopEnds
           \/ ServeJoinsWorkers \/ ServeSweeps \/ ServeDone
  BY <1>2, <1>3 DEF Serve, Close, CloseDone, ParentCancels, LoopEnds,
     ServeJoinsWorkers, ServeSweeps, ServeDone, work
<1>4. ASSUME NEW m \in Tasks, Receive(m)
      PROVE  MemInv'
  <2> DEFINE w == workerOf[m.key]
  <2>1. w \in Workers /\ queue[w] \in Seq(Tasks)
    BY <1>1, TaskFacts DEF Types
  <2>2. /\ queue'[w] = Append(queue[w], m)
        /\ \A v \in Workers \ {w} : queue'[v] = queue[v]
        /\ inFlightMem' = inFlightMem + 1 /\ UNCHANGED pc
    BY <1>1, <1>4, <2>1 DEF Receive, Types
  <2>3. queue'[w] \in Seq(Tasks) /\ Len(queue'[w]) = Len(queue[w]) + 1
    BY SMT, <2>1, <2>2
  <2> HIDE DEF w
  <2>4. /\ Cardinality(Queued) \in Nat /\ IsFiniteSet(Queued')
        /\ Cardinality(Queued') = Cardinality(Queued) + 1
    BY <1>1, <2>1, <2>2, <2>3, QueueCounts
  <2>5. Busy' = Busy /\ Cardinality(Busy) \in Nat
    <3>1. Busy' = Busy
      BY <2>2 DEF Busy
    <3>2. \A v \in Workers \ {w} : pc'[v] = pc[v]
      BY <2>2
    <3> QED
      BY <2>1, <3>1, <3>2, WorkerCounts
  <2> QED
    BY SMTT(60), <1>1, <2>2, <2>4, <2>5 DEF MemInv
<1>5. ASSUME NEW w \in Workers, Take(w)
      PROVE  MemInv'
  <2>1. /\ queue[w] \in Seq(Tasks) /\ queue[w] # <<>>
        /\ queue'[w] = Tail(queue[w])
        /\ \A v \in Workers \ {w} : queue'[v] = queue[v]
    BY <1>1, <1>5 DEF Take, Types
  <2>2. queue'[w] \in Seq(Tasks) /\ Len(queue'[w]) = Len(queue[w]) - 1
    BY SMT, <2>1
  <2>3. /\ Cardinality(Queued) \in Nat /\ IsFiniteSet(Queued')
        /\ Cardinality(Queued') = Cardinality(Queued) - 1
    BY <1>1, <2>1, <2>2, QueueCounts
  <2>4. \A v \in Workers \ {w} : pc'[v] = pc[v]
    BY <1>1, <1>5, OthersStay DEF WorkerStep
  <2>5. CASE cancelled
    <3>1. inFlightMem' = inFlightMem - 1 /\ UNCHANGED pc
      BY <1>5, <2>5 DEF Take
    <3>2. Busy' = Busy /\ Cardinality(Busy) \in Nat
      BY <2>4, <3>1, WorkerCounts
    <3> QED
      BY SMT, <1>1, <2>3, <3>1, <3>2 DEF MemInv
  <2>6. CASE ~cancelled
    <3>1. inFlightMem' = inFlightMem /\ pc[w] = "idle" /\ pc'[w] = "session"
      BY <1>1, <1>5, <2>6 DEF Take, Goto, Types
    <3>2. /\ Cardinality(Busy') = Cardinality(Busy) + 1
          /\ Cardinality(Busy) \in Nat
      BY <2>4, <3>1, WorkerCounts
    <3> QED
      BY SMTT(60), <1>1, <2>3, <3>1, <3>2 DEF MemInv
  <2> QED
    BY <2>5, <2>6
<1>6. ASSUME NEW w \in Workers, WorkerStep(w), ~Take(w)
      PROVE  MemInv'
  <2>1. \A v \in Workers \ {w} : pc'[v] = pc[v]
    BY <1>1, <1>6, OthersStay
  <2>2. /\ pc[w] # "idle" /\ queue' = queue
        /\ Finish(w) \/ (UNCHANGED inFlightMem /\ pc'[w] # "idle")
    BY <1>1, <1>6, WorkerMoves
  <2>3. Queued' = Queued /\ Cardinality(Queued) \in Nat
    BY <1>1, <2>2, FS_CardinalityType DEF Queued
  <2>4. CASE Finish(w)
    <3>1. pc'[w] = "idle" /\ inFlightMem' = inFlightMem - 1
      BY <1>1, <2>4, FinishFacts DEF Finish
    <3>2. /\ Cardinality(Busy') = Cardinality(Busy) - 1
          /\ Cardinality(Busy) \in Nat
      BY <2>1, <2>2, <3>1, WorkerCounts
    <3> QED
      BY SMTT(60), <1>1, <2>3, <3>1, <3>2 DEF MemInv
  <2>5. CASE UNCHANGED inFlightMem /\ pc'[w] # "idle"
    <3>1. Busy' = Busy
      BY <2>1, <2>2, <2>5, WorkerCounts
    <3> QED
      BY <1>1, <2>3, <2>5, <3>1 DEF MemInv
  <2> QED
    BY <2>2, <2>4, <2>5
<1>7. ASSUME NEW t \in Targets, Answer(t) \/ ReaderStep(t)
      PROVE  MemInv'
  BY <1>2, <1>7 DEF Answer, ReaderStep, ReaderStops, ReadFails, ReaderUncounts,
     work
<1>8. ASSUME NEW k \in Keys, Age(k) \/ CleanerSees(k)
      PROVE  MemInv'
  BY <1>2, <1>8 DEF Age, CleanerSees, work
<1>9. CASE CleanerStep
  BY <1>2, <1>9 DEF CleanerStep, CleanerSkips, CleanerCloses, CloseSession,
     CleanerCounts, CleanerStops, work
<1> QED
  BY <1>3, <1>4, <1>5, <1>6, <1>7, <1>8, <1>9 DEF Next

\* Every step keeps the session counter exact until the table is emptied.
LEMMA TableStep ==
  ASSUME IInv, Next
  PROVE  TableInv'
<1>1. /\ Types /\ SessionInv /\ TableInv
      /\ IsFiniteSet(sessions) /\ sessionCount \in Int
  BY DEF IInv, CountInv, Types
<1>2. Cardinality(sessions) \in Nat
  BY <1>1, FS_CardinalityType
<1>3. Cardinality(Counting) \in Nat
  <2>1. Counting \in SUBSET Workers
    BY DEF Counting
  <2>2. IsFiniteSet(Counting)
    BY <2>1, FS_Subset, PlainUdpAssumption
  <2> QED
    BY <2>2, FS_CardinalityType
<1>4. ASSUME UNCHANGED <<pc, sessions, sessionCount>>,
             cleaner' = cleaner \/ "count" \notin {cleaner, cleaner'},
             serve' \notin Swept => serve \notin Swept
      PROVE  TableInv'
  <2>1. Counting' = Counting
    BY <1>4 DEF Counting
  <2> QED
    BY <1>1, <1>4, <2>1 DEF TableInv
<1>5. CASE \/ Serve \/ Close \/ CloseDone \/ ParentCancels \/ LoopEnds
           \/ ServeJoinsWorkers \/ ServeDone
  BY <1>4, <1>5 DEF Serve, Close, CloseDone, ParentCancels, LoopEnds, Swept,
     ServeJoinsWorkers, ServeDone, work, table, sweep
<1>6. CASE ServeSweeps
  BY <1>6 DEF ServeSweeps, TableInv, Swept
<1>7. ASSUME NEW m \in Tasks, Receive(m)
      PROVE  TableInv'
  BY <1>4, <1>7 DEF Receive, server, table, sweep
<1>8. ASSUME NEW t \in Targets, Answer(t) \/ ReaderStep(t)
      PROVE  TableInv'
  BY <1>4, <1>8 DEF Answer, ReaderStep, ReaderStops, ReadFails, ReaderUncounts,
     work, server, table, sweep
<1>9. ASSUME NEW k \in Keys, Age(k) \/ CleanerSees(k)
      PROVE  TableInv'
  <2>1. CASE Age(k)
    BY <1>4, <2>1 DEF Age, work, server, table, sweep
  <2>2. CASE CleanerSees(k)
    BY <1>4, <2>2 DEF CleanerSees, work, server, table
  <2> QED
    BY <1>9, <2>1, <2>2
<1>10. CASE CleanerSkips \/ CleanerStops
  BY <1>4, <1>10 DEF CleanerSkips, CleanerStops, work, server, table
<1>11. CASE CleanerCounts
  <2>1. /\ cleaner = "count" /\ cleaner' = "idle"
        /\ sessionCount' = sessionCount - 1
        /\ UNCHANGED <<sessions, pc, serve>>
    BY <1>11 DEF CleanerCounts, work, server
  <2>2. Counting' = Counting
    BY <2>1 DEF Counting
  <2> QED
    BY SMTT(60), <1>1, <1>2, <1>3, <2>1, <2>2 DEF TableInv
<1>12. CASE CleanerCloses
  <2>1. /\ cleaner = "try" /\ cleaner' = "count"
        /\ sessions' = sessions \ {victim}
        /\ UNCHANGED <<sessionCount, pc, serve>>
    BY <1>12 DEF CleanerCloses, CloseSession, server
  <2>2. Counting' = Counting
    BY <2>1 DEF Counting
  <2>3. ASSUME serve \notin Swept
        PROVE  Cardinality(sessions') = Cardinality(sessions) - 1
    <3>1. victim \in sessions
      BY <1>1, <2>1, <2>3 DEF SessionInv
    <3> QED
      BY <1>1, <2>1, <3>1, FS_RemoveElement
  <2> QED
    BY SMTT(60), <1>1, <1>2, <1>3, <2>1, <2>2, <2>3 DEF TableInv
<1>13. ASSUME NEW w \in Workers, WorkerStep(w)
       PROVE  TableInv'
  <2>1. \A v \in Workers \ {w} : pc'[v] = pc[v]
    BY <1>1, <1>13, OthersStay
  <2>2. CASE Take(w)
    <3>1. /\ pc[w] = "idle" /\ pc'[w] \in {"idle", "session"}
          /\ UNCHANGED <<sessions, sessionCount, serve, cleaner>>
      BY <1>1, <2>2 DEF Take, Goto, Types, table, server, sweep
    <3>2. Counting' = Counting
      BY <2>1, <3>1, WorkerCounts
    <3> QED
      BY <1>1, <3>1, <3>2 DEF TableInv
  <2>3. CASE StoreSession(w)
    <3>1. /\ pc[w] = "store" /\ pc'[w] = "count"
          /\ sessions' = sessions \cup {task[w].key}
          /\ UNCHANGED <<sessionCount, serve, cleaner>>
      BY <1>1, <2>3 DEF StoreSession, Goto, Types, server, sweep
    <3>2. Cardinality(Counting') = Cardinality(Counting) + 1
      BY <2>1, <3>1, WorkerCounts
    <3>3. task[w].key \notin sessions
      BY <1>1, <3>1 DEF SessionInv
    <3>4. Cardinality(sessions') = Cardinality(sessions) + 1
      BY <1>1, <3>1, <3>3, FS_AddElement
    <3> QED
      BY SMTT(60), <1>1, <1>2, <1>3, <3>1, <3>2, <3>4 DEF TableInv
  <2>4. CASE CountSession(w)
    <3>1. /\ pc[w] = "count" /\ pc'[w] = "lock"
          /\ sessionCount' = sessionCount + 1
          /\ UNCHANGED <<sessions, serve, cleaner>>
      BY <1>1, <2>4 DEF CountSession, Goto, Types, server, sweep
    <3>2. Cardinality(Counting') = Cardinality(Counting) - 1
      BY <2>1, <3>1, WorkerCounts
    <3> QED
      BY SMTT(60), <1>1, <1>2, <1>3, <3>1, <3>2 DEF TableInv
  <2>5. CASE ~Take(w) /\ ~StoreSession(w) /\ ~CountSession(w)
    <3>1. /\ UNCHANGED <<sessions, sessionCount, serve, cleaner>>
          /\ pc[w] # "count" /\ pc'[w] # "count"
      BY <1>1, <1>13, <2>5, WorkerMoves
    <3>2. Counting' = Counting
      BY <2>1, <3>1, WorkerCounts
    <3> QED
      BY <1>1, <3>1, <3>2 DEF TableInv
  <2> QED
    BY <2>2, <2>3, <2>4, <2>5
<1> QED
  BY <1>5, <1>6, <1>7, <1>8, <1>9, <1>10, <1>11, <1>12, <1>13
  DEF Next, CleanerStep

\* Every step keeps the limit: a worker that found room is one of those whose
\* session is not counted yet.
LEMMA LimitStep ==
  ASSUME IInv, Next
  PROVE  LimitInv'
<1>1. Types /\ LimitInv /\ sessionCount \in Int
  BY DEF IInv, CountInv, Types
<1>2. MaxSessions \in Nat /\ IsFiniteSet(Workers)
  BY PlainUdpAssumption
<1>3. Cardinality(Workers) \in Nat
  BY <1>2, FS_CardinalityType
<1>4. /\ Cardinality(Storing) \in Nat
      /\ Cardinality(Storing') \in Nat
      /\ Cardinality(Storing') <= Cardinality(Workers)
  <2>1. Storing \in SUBSET Workers /\ Storing' \in SUBSET Workers
    BY DEF Storing
  <2>2. /\ IsFiniteSet(Storing) /\ IsFiniteSet(Storing')
        /\ Cardinality(Storing') <= Cardinality(Workers)
    BY <1>2, <2>1, FS_Subset
  <2> QED
    BY <2>2, FS_CardinalityType
<1>5. ASSUME UNCHANGED <<pc, sessionCount>>
      PROVE  LimitInv'
  BY <1>1, <1>5 DEF LimitInv, Storing
<1>6. CASE \/ Serve \/ Close \/ CloseDone \/ ParentCancels \/ LoopEnds
           \/ ServeJoinsWorkers \/ ServeSweeps \/ ServeDone
  BY <1>5, <1>6 DEF Serve, Close, CloseDone, ParentCancels, LoopEnds,
     ServeJoinsWorkers, ServeSweeps, ServeDone, work, table
<1>7. ASSUME NEW m \in Tasks, Receive(m)
      PROVE  LimitInv'
  BY <1>5, <1>7 DEF Receive, table
<1>8. ASSUME NEW t \in Targets, Answer(t) \/ ReaderStep(t)
      PROVE  LimitInv'
  BY <1>5, <1>8 DEF Answer, ReaderStep, ReaderStops, ReadFails, ReaderUncounts,
     work, table
<1>9. ASSUME NEW k \in Keys, Age(k) \/ CleanerSees(k)
      PROVE  LimitInv'
  BY <1>5, <1>9 DEF Age, CleanerSees, work, table
<1>10. CASE CleanerSkips \/ CleanerCloses \/ CleanerStops
  BY <1>5, <1>10 DEF CleanerSkips, CleanerCloses, CloseSession, CleanerStops,
     work, table
<1>11. CASE CleanerCounts
  <2>1. sessionCount' = sessionCount - 1 /\ Storing' = Storing
    BY <1>11 DEF CleanerCounts, work, Storing
  <2> QED
    BY SMTT(60), <1>1, <1>2, <1>3, <1>4, <2>1 DEF LimitInv
<1>12. ASSUME NEW w \in Workers, WorkerStep(w)
       PROVE  LimitInv'
  <2>1. \A v \in Workers \ {w} : pc'[v] = pc[v]
    BY <1>1, <1>12, OthersStay
  <2>2. CASE Take(w)
    <3>1. /\ pc[w] = "idle" /\ pc'[w] \in {"idle", "session"}
          /\ UNCHANGED sessionCount
      BY <1>1, <2>2 DEF Take, Goto, Types, table
    <3>2. Storing' = Storing
      BY <2>1, <3>1, WorkerCounts
    <3> QED
      BY <1>1, <3>1, <3>2 DEF LimitInv
  <2>3. CASE CheckLimit(w)
    <3>1. sessionCount < MaxSessions /\ sessionCount' = sessionCount
      BY <2>3 DEF CheckLimit, table
    <3> QED
      BY SMTT(60), <1>1, <1>2, <1>3, <1>4, <3>1 DEF LimitInv
  <2>4. CASE StoreSession(w)
    <3>1. pc[w] = "store" /\ pc'[w] = "count" /\ UNCHANGED sessionCount
      BY <1>1, <2>4 DEF StoreSession, Goto, Types
    <3>2. Storing' = Storing
      BY <2>1, <3>1, WorkerCounts
    <3> QED
      BY <1>1, <3>1, <3>2 DEF LimitInv
  <2>5. CASE CountSession(w)
    <3>1. /\ pc[w] = "count" /\ pc'[w] = "lock"
          /\ sessionCount' = sessionCount + 1
      BY <1>1, <2>5 DEF CountSession, Goto, Types
    <3>2. Cardinality(Storing') = Cardinality(Storing) - 1
      BY <2>1, <3>1, WorkerCounts
    <3> QED
      BY SMTT(60), <1>1, <1>2, <1>3, <1>4, <3>1, <3>2 DEF LimitInv
  <2>6. CASE ~Take(w) /\ ~StoreSession(w) /\ ~CountSession(w) /\ ~CheckLimit(w)
    <3>1. /\ UNCHANGED sessionCount
          /\ pc[w] \notin {"store", "count"} /\ pc'[w] \notin {"store", "count"}
      BY <1>1, <1>12, <2>6, WorkerMoves
    <3>2. Storing' = Storing
      BY <2>1, <3>1, WorkerCounts
    <3> QED
      BY <1>1, <3>1, <3>2 DEF LimitInv
  <2> QED
    BY <2>2, <2>3, <2>4, <2>5, <2>6
<1> QED
  BY <1>6, <1>7, <1>8, <1>9, <1>10, <1>11, <1>12 DEF Next, CleanerStep

\* Sets of targets, as in Counts.
LEMMA TargetCounts ==
  ASSUME Types, NEW k \in Keys
  PROVE  /\ Held(k) \in SUBSET Targets /\ Uncounting(k) \in SUBSET Targets
         /\ IsFiniteSet(Targets)
         /\ Cardinality(Held(k)) \in Nat /\ Cardinality(Uncounting(k)) \in Nat
<1>1. Held(k) \in SUBSET Targets
  BY SMT, ListedFacts DEF Held
<1>2. Uncounting(k) \in SUBSET Targets
  BY DEF Uncounting
<1>3. IsFiniteSet(Targets)
  BY PlainUdpAssumption
<1> QED
  BY <1>1, <1>2, <1>3, FS_Subset, FS_CardinalityType

\* Installing a target counts it.
LEMMA InstallCounts ==
  ASSUME IInv, Types', NEW w \in Workers, Install(w)
  PROVE  PlaceInv'
<1>1. Types /\ PlaceInv
  BY DEF IInv, CountInv
<1>2. PICK k \in Keys, a \in Addresses, t \in Targets :
      /\ targets[k][a] = None /\ targets'[k][a] = t
      /\ \A l \in Keys, b \in Addresses :
           l # k \/ b # a => targets'[l][b] = targets[l][b]
      /\ targetCount[k] < MaxTargets
      /\ targetCount'[k] = targetCount[k] + 1
      /\ \A l \in Keys \ {k} : targetCount'[l] = targetCount[l]
      /\ reader[t] = "none" /\ reader'[t] = "read"
      /\ \A u \in Targets \ {t} :
           reader'[u] = reader[u] /\ home'[u] = home[u]
      /\ \A l \in Keys, b \in Addresses : targets[l][b] # t
  BY SMTT(60), InstallFacts
<1>3. \A l \in Keys : Uncounting(l)' = Uncounting(l)
  <2> SUFFICES ASSUME NEW l \in Keys
               PROVE  Uncounting(l)' = Uncounting(l)
    OBVIOUS
  <2>1. t \notin Uncounting(l) /\ t \notin Uncounting(l)'
    BY <1>2 DEF Uncounting
  <2>2. \A u \in Targets \ {t} : u \in Uncounting(l)' <=> u \in Uncounting(l)
    BY <1>2 DEF Uncounting
  <2> QED
    BY <2>1, <2>2 DEF Uncounting
<1>4. \A l \in Keys \ {k} : Held(l)' = Held(l)
  BY SMTT(60), <1>2 DEF Held
<1>5. Held(k)' = Held(k) \cup {t} /\ t \notin Held(k)
  <2>1. t # None
    BY <1>2, TaskFacts
  <2>2. t \notin Held(k)
    BY <1>2 DEF Held
  <2>3. \A x : x \in Held(k)' => x \in Held(k) \cup {t}
    BY SMT, <1>2 DEF Held
  <2>4. \A x : x \in Held(k) \cup {t} => x \in Held(k)'
    BY SMT, <1>2, <2>1 DEF Held
  <2> QED
    BY <2>2, <2>3, <2>4
<1>6. Cardinality(Held(k)') = Cardinality(Held(k)) + 1
  <2>1. IsFiniteSet(Held(k))
    BY <1>1, TargetCounts, FS_Subset
  <2> QED
    BY <1>5, <2>1, FS_AddElement
<1>7. /\ Cardinality(Held(k)) \in Nat /\ Cardinality(Uncounting(k)) \in Nat
      /\ MaxTargets \in Nat /\ targetCount[k] \in Int
  BY <1>1, <1>2, TargetCounts, PlainUdpAssumption DEF Types
<1>8. /\ targetCount'[k] = Cardinality(Held(k)') + Cardinality(Uncounting(k)')
      /\ targetCount'[k] <= MaxTargets
  <2>1. targetCount[k] = Cardinality(Held(k)) + Cardinality(Uncounting(k))
    BY <1>1, <1>2 DEF PlaceInv
  <2>2. Uncounting(k)' = Uncounting(k)
    BY <1>2, <1>3
  <2> QED
    BY SMT, <1>2, <1>6, <1>7, <2>1, <2>2
<1>9. \A l \in Keys \ {k} :
        /\ targetCount'[l] = Cardinality(Held(l)') + Cardinality(Uncounting(l)')
        /\ targetCount'[l] <= MaxTargets
  BY ZenonT(60), <1>1, <1>2, <1>3, <1>4 DEF PlaceInv
<1> QED
  BY <1>8, <1>9 DEF PlaceInv

\* A reader that ends without having been taken off a table counts nothing.
LEMMA EndsCounts ==
  ASSUME IInv, NEW t \in Targets, ReaderEnds(t),
         reader[t] = "read" \/ home[t] = None, UNCHANGED <<targets, targetCount>>
  PROVE  PlaceInv'
<1>1. Types /\ PlaceInv
  BY DEF IInv, CountInv
<1>2. /\ reader'[t] = "none" /\ home'[t] = None
      /\ \A u \in Targets \ {t} : reader'[u] = reader[u] /\ home'[u] = home[u]
  BY <1>1 DEF ReaderEnds, Types
<1>3. \A l \in Keys : Uncounting(l)' = Uncounting(l)
  <2> SUFFICES ASSUME NEW l \in Keys
               PROVE  Uncounting(l)' = Uncounting(l)
    OBVIOUS
  <2>1. t \notin Uncounting(l) /\ t \notin Uncounting(l)'
    BY <1>2 DEF Uncounting
  <2>2. \A u \in Targets \ {t} : u \in Uncounting(l)' <=> u \in Uncounting(l)
    BY <1>2 DEF Uncounting
  <2> QED
    BY <2>1, <2>2 DEF Uncounting
<1>4. \A l \in Keys : Held(l)' = Held(l)
  BY DEF Held
<1> QED
  BY <1>1, <1>3, <1>4 DEF PlaceInv

\* A read error moves a target from the listed to those to be counted off.
LEMMA FailsCounts ==
  ASSUME IInv, NEW t \in Targets, ReadFails(t)
  PROVE  PlaceInv'
<1>1. Types /\ PlaceInv
  BY DEF IInv, CountInv
<1>2. reader[t] = "read" /\ UNCHANGED targetCount
  BY DEF ReadFails
<1>3. CASE targets' = targets /\ ReaderEnds(t)
  BY <1>2, <1>3, EndsCounts
<1>4. ASSUME NEW k \in Keys, NEW a \in Addresses,
             home[t] = <<k, a>>, targets[k][a] = t, targets'[k][a] = None,
             \A l \in Keys, b \in Addresses :
               l # k \/ b # a => targets'[l][b] = targets[l][b]
                                 /\ targets[l][b] # t,
             reader'[t] = "uncount",
             \A u \in Targets \ {t} : reader'[u] = reader[u],
             UNCHANGED <<leased, home>>
      PROVE  PlaceInv'
  <2>1. t # None /\ home[t] # None /\ home[t][1] = k
    BY SMT, <1>4, TaskFacts DEF Homes
  <2>2. /\ \A l \in Keys \ {k} : Held(l)' = Held(l)
        /\ \A l \in Keys \ {k} : Uncounting(l)' = Uncounting(l)
    <3> SUFFICES ASSUME NEW l \in Keys \ {k}
                 PROVE  Held(l)' = Held(l) /\ Uncounting(l)' = Uncounting(l)
      OBVIOUS
    <3>1. Held(l)' = Held(l)
      BY SMT, <1>4 DEF Held
    <3>2. t \notin Uncounting(l) /\ t \notin Uncounting(l)'
      BY <1>4, <2>1 DEF Uncounting
    <3>3. \A u \in Targets \ {t} : u \in Uncounting(l)' <=> u \in Uncounting(l)
      BY <1>4 DEF Uncounting
    <3> QED
      BY <3>1, <3>2, <3>3 DEF Uncounting
  <2>3. Held(k)' = Held(k) \ {t} /\ t \in Held(k)
    <3>1. t \in Held(k)
      BY <1>4, <2>1 DEF Held
    <3>2. \A x : x \in Held(k)' => x \in Held(k) \ {t}
      BY SMT, <1>4, <2>1 DEF Held
    <3>3. \A x : x \in Held(k) \ {t} => x \in Held(k)'
      BY SMT, <1>4 DEF Held
    <3> QED
      BY <3>1, <3>2, <3>3
  <2>4. Uncounting(k)' = Uncounting(k) \cup {t} /\ t \notin Uncounting(k)
    <3>1. t \notin Uncounting(k) /\ t \in Uncounting(k)'
      BY <1>2, <1>4, <2>1 DEF Uncounting
    <3>2. \A u \in Targets \ {t} : u \in Uncounting(k)' <=> u \in Uncounting(k)
      BY <1>4 DEF Uncounting
    <3> QED
      BY <3>1, <3>2 DEF Uncounting
  <2>5. /\ Cardinality(Held(k)') = Cardinality(Held(k)) - 1
        /\ Cardinality(Uncounting(k)') = Cardinality(Uncounting(k)) + 1
    <3>1. IsFiniteSet(Held(k)) /\ IsFiniteSet(Uncounting(k))
      BY <1>1, TargetCounts, FS_Subset
    <3>2. Cardinality(Held(k)') = Cardinality(Held(k)) - 1
      BY <2>3, <3>1, FS_RemoveElement
    <3>3. Cardinality(Uncounting(k)') = Cardinality(Uncounting(k)) + 1
      BY <2>4, <3>1, FS_AddElement
    <3> QED
      BY <3>2, <3>3
  <2>6. Cardinality(Held(k)) \in Nat /\ Cardinality(Uncounting(k)) \in Nat
    BY <1>1, TargetCounts
  <2>7. Cardinality(Held(k)') + Cardinality(Uncounting(k)')
          = Cardinality(Held(k)) + Cardinality(Uncounting(k))
    BY SMT, <2>5, <2>6
  <2>8. /\ targetCount'[k] = Cardinality(Held(k)') + Cardinality(Uncounting(k)')
        /\ targetCount'[k] <= MaxTargets
    BY <1>1, <1>2, <2>7 DEF PlaceInv
  <2>9. \A l \in Keys \ {k} :
          /\ targetCount'[l] = Cardinality(Held(l)') + Cardinality(Uncounting(l)')
          /\ targetCount'[l] <= MaxTargets
    BY <1>1, <1>2, <2>2 DEF PlaceInv
  <2> QED
    BY <2>8, <2>9 DEF PlaceInv
<1> QED
  BY SMTT(60), <1>3, <1>4, ReadFailsFacts

\* A target is counted off once.
LEMMA UncountCounts ==
  ASSUME IInv, NEW t \in Targets, ReaderUncounts(t)
  PROVE  PlaceInv'
<1>1. Types /\ PlaceInv
  BY DEF IInv, CountInv
<1>2. /\ reader[t] = "uncount" /\ ReaderEnds(t) /\ UNCHANGED targets
      /\ targetCount' = [k \in Keys |->
           IF home[t] # None /\ home[t][1] = k
           THEN targetCount[k] - 1 ELSE targetCount[k]]
  BY DEF ReaderUncounts
<1>3. home[t] \in Homes \cup {None}
  BY <1>1 DEF Types
<1>4. CASE home[t] = None
  <2>1. targetCount' = [k \in Keys |-> targetCount[k]]
    BY <1>2, <1>4
  <2>2. targetCount' = targetCount
    BY <1>1, <2>1 DEF Types
  <2> QED
    BY <1>2, <1>4, <2>2, EndsCounts
<1>5. CASE home[t] # None
  <2>1. PICK k \in Keys : home[t][1] = k
    BY SMT, <1>3, <1>5 DEF Homes
  <2>2. /\ reader'[t] = "none" /\ home'[t] = None
        /\ \A u \in Targets \ {t} : reader'[u] = reader[u] /\ home'[u] = home[u]
    BY <1>1, <1>2 DEF ReaderEnds, Types
  <2>3. \A l \in Keys : Held(l)' = Held(l)
    BY <1>2 DEF Held
  <2>4. ASSUME NEW l \in Keys \ {k}
        PROVE  Uncounting(l)' = Uncounting(l)
    <3>1. t \notin Uncounting(l) /\ t \notin Uncounting(l)'
      BY <2>1, <2>2, <2>4 DEF Uncounting
    <3>2. \A u \in Targets \ {t} : u \in Uncounting(l)' <=> u \in Uncounting(l)
      BY <2>2 DEF Uncounting
    <3> QED
      BY <3>1, <3>2 DEF Uncounting
  <2>5. Uncounting(k)' = Uncounting(k) \ {t} /\ t \in Uncounting(k)
    <3>1. t \in Uncounting(k) /\ t \notin Uncounting(k)'
      BY <1>2, <1>5, <2>1, <2>2 DEF Uncounting
    <3>2. \A u \in Targets \ {t} : u \in Uncounting(k)' <=> u \in Uncounting(k)
      BY <2>2 DEF Uncounting
    <3> QED
      BY <3>1, <3>2 DEF Uncounting
  <2>6. Cardinality(Uncounting(k)') = Cardinality(Uncounting(k)) - 1
    <3>1. IsFiniteSet(Uncounting(k))
      BY <1>1, TargetCounts, FS_Subset
    <3> QED
      BY <2>5, <3>1, FS_RemoveElement
  <2>7. /\ Cardinality(Held(k)) \in Nat /\ Cardinality(Uncounting(k)) \in Nat
        /\ MaxTargets \in Nat /\ targetCount[k] \in Int
    BY <1>1, TargetCounts, PlainUdpAssumption DEF Types
  <2>8. /\ targetCount'[k] = targetCount[k] - 1
        /\ \A l \in Keys \ {k} : targetCount'[l] = targetCount[l]
    BY <1>2, <1>5, <2>1
  <2>9. /\ targetCount'[k] = Cardinality(Held(k)') + Cardinality(Uncounting(k)')
        /\ targetCount'[k] <= MaxTargets
    <3>1. /\ targetCount[k] = Cardinality(Held(k)) + Cardinality(Uncounting(k))
          /\ targetCount[k] <= MaxTargets
      BY <1>1 DEF PlaceInv
    <3>2. Held(k)' = Held(k)
      BY <2>3
    <3> QED
      BY SMTT(60), <2>6, <2>7, <2>8, <3>1, <3>2
  <2>10. \A l \in Keys \ {k} :
          /\ targetCount'[l] = Cardinality(Held(l)') + Cardinality(Uncounting(l)')
          /\ targetCount'[l] <= MaxTargets
    BY <1>1, <2>3, <2>4, <2>8 DEF PlaceInv
  <2> QED
    BY <2>9, <2>10 DEF PlaceInv
<1> QED
  BY <1>4, <1>5

\* A closed session lists and counts nothing.
LEMMA CloseCounts ==
  ASSUME IInv, CleanerCloses
  PROVE  PlaceInv'
<1>1. Types /\ PlaceInv /\ SessionInv
  BY DEF IInv, CountInv
<1>2. PICK k \in Keys : k = victim
  BY <1>1 DEF CleanerCloses, SessionInv
<1>3. /\ targets' = [targets EXCEPT ![k] = NoTargets]
      /\ targetCount' = [targetCount EXCEPT ![k] = 0]
      /\ home' = [t \in Targets |-> IF home[t] # None /\ home[t][1] = k
                                    THEN None ELSE home[t]]
      /\ UNCHANGED reader
  BY <1>2 DEF CleanerCloses, CloseSession
<1>4. /\ \A l \in Keys \ {k} : targets'[l] = targets[l]
      /\ \A l \in Keys \ {k} : targetCount'[l] = targetCount[l]
      /\ targetCount'[k] = 0
  BY <1>1, <1>3 DEF Types
<1>5. \A l \in Keys \ {k} : Held(l)' = Held(l)
  BY <1>4 DEF Held
<1>6. Held(k)' = {}
  <2>1. \A a \in Addresses : targets'[k][a] = None
    BY <1>1, <1>3 DEF Types, NoTargets
  <2> QED
    BY <2>1 DEF Held
<1>7. ASSUME NEW l \in Keys \ {k}
      PROVE  Uncounting(l)' = Uncounting(l)
  <2>1. \A t \in Targets : home'[t] # None /\ home'[t][1] = l
                             <=> home[t] # None /\ home[t][1] = l
    BY <1>3, <1>7
  <2> QED
    BY <1>3, <2>1 DEF Uncounting
<1>8. Uncounting(k)' = {}
  <2>1. \A t \in Targets : ~(home'[t] # None /\ home'[t][1] = k)
    BY <1>3
  <2> QED
    BY <2>1 DEF Uncounting
<1>9. /\ targetCount'[k] = Cardinality(Held(k)') + Cardinality(Uncounting(k)')
      /\ targetCount'[k] <= MaxTargets
  <2>1. Cardinality(Held(k)') = 0 /\ Cardinality(Uncounting(k)') = 0
    BY <1>6, <1>8, FS_EmptySet
  <2>2. MaxTargets \in Nat
    BY PlainUdpAssumption
  <2> QED
    BY SMT, <1>4, <2>1, <2>2
<1>10. \A l \in Keys \ {k} :
        /\ targetCount'[l] = Cardinality(Held(l)') + Cardinality(Uncounting(l)')
        /\ targetCount'[l] <= MaxTargets
  BY <1>1, <1>4, <1>5, <1>7 DEF PlaceInv
<1> QED
  BY <1>9, <1>10 DEF PlaceInv

\* Every step keeps the target counters exact.
LEMMA PlaceStep ==
  ASSUME IInv, Types', Next
  PROVE  PlaceInv'
<1>1. Types /\ PlaceInv
  BY DEF IInv, CountInv
<1>2. ASSUME UNCHANGED <<targets, targetCount, reader, home>>
      PROVE  PlaceInv'
  BY <1>1, <1>2 DEF PlaceInv, Held, Uncounting
<1>3. CASE \/ Serve \/ Close \/ CloseDone \/ ParentCancels \/ LoopEnds
           \/ ServeJoinsWorkers \/ ServeSweeps \/ ServeDone
  BY <1>2, <1>3 DEF Serve, Close, CloseDone, ParentCancels, LoopEnds,
     ServeJoinsWorkers, ServeSweeps, ServeDone, upstream
<1>4. ASSUME NEW m \in Tasks, Receive(m)
      PROVE  PlaceInv'
  BY <1>2, <1>4 DEF Receive, upstream
<1>5. ASSUME NEW t \in Targets, Answer(t) \/ ReaderStep(t)
      PROVE  PlaceInv'
  <2>1. CASE Answer(t)
    BY <1>2, <2>1 DEF Answer, upstream
  <2>2. CASE ReaderStops(t)
    BY <2>2, EndsCounts DEF ReaderStops
  <2> QED
    BY <1>5, <2>1, <2>2, FailsCounts, UncountCounts DEF ReaderStep
<1>6. ASSUME NEW k \in Keys, Age(k) \/ CleanerSees(k)
      PROVE  PlaceInv'
  BY <1>2, <1>6 DEF Age, CleanerSees, upstream
<1>7. CASE CleanerSkips \/ CleanerCounts \/ CleanerStops
  BY <1>2, <1>7 DEF CleanerSkips, CleanerCounts, CleanerStops, upstream
<1>8. ASSUME NEW w \in Workers, WorkerStep(w), ~Install(w)
      PROVE  PlaceInv'
  BY <1>2, <1>8 DEF WorkerStep, Take, FindSession, CheckLimit, DropAtLimit,
     StoreSession, CountSession, Refuse, AcceptTask, UseOrDrop, Reserve,
     Resolved, ResolveFails, upstream
<1> QED
  BY <1>3, <1>4, <1>5, <1>6, <1>7, <1>8, InstallCounts, CloseCounts
  DEF Next, CleanerStep

-----------------------------------------------------------------------------
(* The theorems *)

\* Every step keeps the invariant.
LEMMA NextStep ==
  ASSUME IInv, [Next]_vars
  PROVE  IInv'
<1>1. CASE Next
  <2>1. Types'
    BY <1>1, ServerTypes, WorkerTypes, OtherTypes DEF IInv, Next
  <2>2. WorkInv' /\ SessionInv' /\ TargetInv' /\ ServeInv'
    BY <1>1, WorkStep, SessionStep, TargetStep, ServeKeeps
  <2>3. CountInv'
    BY <1>1, <2>1, MemStep, PlaceStep, TableStep, LimitStep DEF CountInv
  <2> QED
    BY <2>1, <2>2, <2>3 DEF IInv
<1>2. CASE UNCHANGED vars
  <2>1. /\ Types /\ WorkInv /\ SessionInv /\ TargetInv /\ ServeInv
        /\ CountInv
    BY DEF IInv
  <2>2. UNCHANGED <<workerOf, server, work, inFlightMem, table, targetMu,
                    upstream, sweep, idle>>
    BY <1>2 DEF vars
  <2>3. Types' /\ WorkInv' /\ SessionInv'
    BY ZenonT(60), <2>1, <2>2 DEF server, work, table, upstream, sweep, Types,
       WorkInv,
       SessionInv
  <2>4. ListInv' /\ MadeInv' /\ LeaseInv'
    BY SMTT(60), <2>1, <2>2 DEF server, work, table, upstream, TargetInv,
       ListInv,
       MadeInv, LeaseInv, TargetOf, Making, Reading
  <2>5. ServeInv'
    BY <2>1, <2>2 DEF server, work, table, upstream, ServeInv, Reading,
       WorkersGone
  <2>6. MemInv' /\ PlaceInv' /\ TableInv' /\ LimitInv'
    BY <2>1, <2>2 DEF server, work, table, upstream, sweep, CountInv, MemInv,
       PlaceInv, TableInv, LimitInv, Held, Uncounting, Busy, Queued, Counting,
       Storing
  <2> QED
    BY <2>3, <2>4, <2>5, <2>6 DEF IInv, TargetInv, CountInv
<1> QED
  BY <1>1, <1>2

\* The inductive invariant of the plain UDP server: who holds which session,
\* lock, target and lease at every step of workers, readers, cleaner and Serve.
THEOREM UdpInvariant == Spec => []IInv
BY Initially, NextStep, PTL DEF Spec

\* No lease of ReserveUDPTarget is lost or given back twice, and a listed target
\* is open and has its reader while the server runs.
THEOREM Leases == Spec => []LeasesExact
<1>1. ASSUME IInv
      PROVE  LeasesExact
  <2>1. Types /\ WorkInv /\ TargetInv
    BY <1>1 DEF IInv
  <2>2. leased \subseteq Making \cup Reading
    BY <2>1 DEF TargetInv, LeaseInv
  <2>3. Making \subseteq leased
    <3> SUFFICES ASSUME NEW w \in Workers, made[w] # None
                 PROVE  made[w] \in leased
      BY DEF Making
    <3> QED
      BY <2>1 DEF WorkInv, TargetInv, MadeInv
  <2>4. ASSUME ~closed, ~cancelled, NEW k \in Keys, NEW a \in Addresses,
               targets[k][a] # None
        PROVE  /\ k \in sessions
               /\ targets[k][a] \in Reading \cap leased
               /\ home[targets[k][a]] = <<k, a>>
    <3>1. targets[k][a] \in Targets
      BY <2>1, <2>4, ListedFacts
    <3>2. /\ reader[targets[k][a]] = "read"
          /\ home[targets[k][a]] = <<k, a>>
      BY <2>1, <2>4 DEF TargetInv, ListInv
    <3>3. k \in sessions /\ targets[k][a] \in leased
      BY <2>1, <2>4 DEF TargetInv, LeaseInv
    <3> QED
      BY <3>1, <3>2, <3>3 DEF Reading
  <2> QED
    BY <2>2, <2>3, <2>4 DEF LeasesExact
<1> QED
  BY <1>1, UdpInvariant, PTL

\* inFlightMem, targetCount and sessionCount count what they are for, up to the
\* steps between, and no session has more targets than its limit.
THEOREM Counters == Spec => []CountersExact
<1>1. ASSUME IInv
      PROVE  CountersExact
  BY <1>1 DEF IInv, CountInv, MemInv, PlaceInv, TableInv, Swept, CountersExact
<1> QED
  BY <1>1, UdpInvariant, PTL

\* The workers that check sessionCount before any of them stores its session
\* pass maxSessions by less than one session for each worker.
THEOREM Overshoot == Spec => []SessionOvershoot
<1>1. ASSUME IInv
      PROVE  SessionOvershoot
  <2>1. Types /\ LimitInv
    BY <1>1 DEF IInv, CountInv
  <2>2. Storing \in SUBSET Workers /\ IsFiniteSet(Workers)
    BY PlainUdpAssumption DEF Storing
  <2>3. IsFiniteSet(Storing)
    BY <2>2, FS_Subset
  <2>4. Cardinality(Storing) \in Nat /\ Cardinality(Workers) \in Nat
    BY <2>2, <2>3, FS_CardinalityType
  <2>5. MaxSessions \in Nat /\ sessionCount \in Int
    BY <2>1, PlainUdpAssumption DEF Types
  <2> QED
    BY SMT, <2>1, <2>4, <2>5 DEF LimitInv, SessionOvershoot
<1> QED
  BY <1>1, UdpInvariant, PTL

\* When Serve has returned, or Close before Serve was called, nothing is left:
\* no goroutine, lease, session or memory.
THEOREM Stopped == Spec => []StopsClean
<1>1. ASSUME IInv, serve \in {"new", "done"}
      PROVE  /\ leased = {} /\ Reading = {} /\ inFlightMem = 0 /\ WorkersGone
             /\ sessions = {}
  <2>1. /\ Types /\ WorkInv /\ TargetInv /\ CountInv
        /\ WorkersGone /\ sessions = {} /\ Reading = {}
    BY <1>1 DEF IInv, ServeInv, Late, Swept
  <2>2. \A w \in Workers : pc[w] = "idle" /\ queue[w] = <<>> /\ made[w] = None
    BY <2>1 DEF WorkersGone, WorkInv, Dialing
  <2>3. leased = {}
    BY <2>1, <2>2 DEF TargetInv, LeaseInv, Making
  <2>4. Busy = {}
    BY <2>2 DEF Busy
  <2>5. Queued = {}
    <3>1. \A w \in Workers : 1..Len(queue[w]) = {}
      BY SMT, <2>2
    <3> QED
      BY SMT, <3>1 DEF Queued
  <2>6. inFlightMem = Cardinality(Busy) + Cardinality(Queued)
    BY <2>1 DEF CountInv, MemInv
  <2>7. Cardinality({}) = 0
    BY FS_EmptySet
  <2>8. inFlightMem = 0
    BY SMT, <2>4, <2>5, <2>6, <2>7
  <2> QED
    BY <2>1, <2>3, <2>8
<1>2. IInv => StopsClean
  BY <1>1 DEF StopsClean
<1> QED
  BY <1>2, UdpInvariant, PTL
=============================================================================
