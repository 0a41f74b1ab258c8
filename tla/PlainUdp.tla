------------------------------ MODULE PlainUdp ------------------------------
(***************************************************************************)
(* pkg/server/plain_udp.go: the plain UDP server.  One loop receives        *)
(* datagrams within a memory budget and hands each to the worker of its    *)
(* session; workers create sessions and targets, each target has a reader, *)
(* a cleaner closes idle sessions, and the end of the loop joins them all. *)
(* Whether a datagram is fresh is UdpReplay's subject and an input here.   *)
(*                                                                         *)
(* Of the session objects of a key at most one is in the table; a worker   *)
(* or a reader may still hold one that was removed ("stale", or no home),  *)
(* which only ever leads it to its end.                                    *)
(***************************************************************************)
EXTENDS Integers, FiniteSets, Sequences

CONSTANTS Keys,       \* (user, session id) pairs
          Addresses, ICMP,   \* target addresses, and the "icmp:" ones
          Tasks,      \* the (key, address) pairs of the datagrams clients send
          Workers, Targets, None,
          QueueSize,  \* capacity of a worker's queue
          MaxMem,     \* maxMemBudget, in datagrams
          MaxSessions, MaxTargets,  \* maxSessions; 32 targets of a session
          Budget      \* leases ReserveUDPTarget grants

ASSUME PlainUdpAssumption ==
  /\ ICMP \subseteq Addresses
  /\ Tasks \subseteq [key : Keys, addr : Addresses]
  /\ {QueueSize, MaxMem, MaxSessions, MaxTargets, Budget} \subseteq Nat
  /\ IsFiniteSet(Workers) /\ Workers # {} /\ IsFiniteSet(Targets)
  /\ None \notin Keys \cup Workers \cup Targets \cup Tasks
  /\ None \notin Keys \X Addresses

VARIABLES
  workerOf,   \* the worker a key hashes to
  closed, cancelled,
  serve,      \* progress of Serve
  closer,     \* progress of Close
  queue, pc, task,   \* of each worker; task[w]: [key, addr]
  stale,      \* workers whose session was closed under them
  made,       \* the target a worker is making
  inFlightMem,
  sessions, sessionCount,  \* the keys in the sync.Map, and its counter
  targetMu,   \* of the session of each key: its holder
  idle,       \* keys whose session was not active for over 60 s
  targets, targetCount,    \* of the session of each key
  leased,     \* targets whose lease and socket are not released
  reader, home,   \* of each target: its goroutine; <<key, address>>
  cleaner, victim

server == <<closed, cancelled, serve, closer>>
work == <<queue, pc, task, stale, made>>
table == <<sessions, sessionCount>>
upstream == <<targets, targetCount, leased, reader, home>>
sweep == <<cleaner, victim>>
vars == <<workerOf, server, work, inFlightMem, table, targetMu, idle, upstream,
          sweep>>

NoTargets == [a \in Addresses |-> None]

Init ==
  /\ workerOf \in [Keys -> Workers]
  /\ closed = FALSE /\ cancelled = FALSE /\ serve = "new" /\ closer = "no"
  /\ queue = [w \in Workers |-> <<>>] /\ pc = [w \in Workers |-> "idle"]
  /\ task = [w \in Workers |-> None] /\ stale = {}
  /\ made = [w \in Workers |-> None]
  /\ inFlightMem = 0
  /\ sessions = {} /\ sessionCount = 0
  /\ targetMu = [k \in Keys |-> None] /\ idle = {}
  /\ targets = [k \in Keys |-> NoTargets]
  /\ targetCount = [k \in Keys |-> 0]
  /\ leased = {} /\ reader = [t \in Targets |-> "none"]
  /\ home = [t \in Targets |-> None]
  /\ cleaner = "idle" /\ victim = None

\* The next target allocated is one nobody can reach.
Unused(t) ==
  /\ reader[t] = "none" /\ \A w \in Workers : made[w] # t
  /\ \A k \in Keys, a \in Addresses : targets[k][a] # t
NewTarget(t) == Unused(t) /\ t = CHOOSE x \in Targets : Unused(x)

-----------------------------------------------------------------------------
(* Serve: the receiving loop *)

Serve ==
  /\ serve = "new" /\ ~closed
  /\ serve' = "loop"
  /\ UNCHANGED <<workerOf, closed, cancelled, closer, work, inFlightMem, table,
                 targetMu, idle, upstream, sweep>>

\* A datagram within the budget is queued if it authenticates and its worker's
\* queue has room; its memory is given back at once if not.  The loop may have
\* read it while the server was being closed.
Receive(m) ==
  LET w == workerOf[m.key]
  IN  /\ serve = "loop"
      /\ inFlightMem < MaxMem /\ Len(queue[w]) < QueueSize
      /\ inFlightMem' = inFlightMem + 1
      /\ queue' = [queue EXCEPT ![w] = Append(@, m)]
      /\ UNCHANGED <<workerOf, server, pc, task, stale, made, table, targetMu,
                     idle, upstream, sweep>>

\* The loop ends: closed, cancelled, or a read error; the deferred function
\* closes the workers' queues.
LoopEnds ==
  /\ serve = "loop"
  /\ serve' = "workers" /\ closed' = TRUE /\ cancelled' = TRUE
  /\ UNCHANGED <<workerOf, closer, work, inFlightMem, table, targetMu, idle,
                 upstream, sweep>>

WorkersGone == \A w \in Workers : pc[w] = "idle" /\ queue[w] = <<>>

\* workerWg.Wait
ServeJoinsWorkers ==
  /\ serve = "workers" /\ WorkersGone
  /\ serve' = "sweep"
  /\ UNCHANGED <<workerOf, closed, cancelled, closer, work, inFlightMem, table,
                 targetMu, idle, upstream, sweep>>

Held(k) == {targets[k][a] : a \in Addresses} \ {None}

\* Every target of every session is closed, and the table emptied.
closeSessions ==
  /\ leased' = leased \ UNION {Held(k) : k \in sessions}
  /\ sessions' = {}

ServeSweeps ==
  /\ serve = "sweep" /\ closeSessions
  /\ serve' = "upstream"
  /\ UNCHANGED <<workerOf, closed, cancelled, closer, work, inFlightMem,
                 sessionCount, targetMu, idle, targets, targetCount, reader,
                 home, sweep>>

\* upstreamWg.Wait and cleanerDone
ServeDone ==
  /\ serve = "upstream" /\ cleaner = "gone"
  /\ \A t \in Targets : reader[t] = "none"
  /\ serve' = "done"
  /\ UNCHANGED <<workerOf, closed, cancelled, closer, work, inFlightMem, table,
                 targetMu, idle, upstream, sweep>>

\* Close, or the end of the context given to Serve, cancels.
Close ==
  /\ closer = "no"
  /\ closed' = TRUE /\ cancelled' = TRUE
  /\ closer' = IF serve = "new" THEN "done" ELSE "wait"
  /\ UNCHANGED <<workerOf, serve, work, inFlightMem, table, targetMu, idle,
                 upstream, sweep>>

CloseDone ==
  /\ closer = "wait" /\ serve = "done"
  /\ closer' = "done"
  /\ UNCHANGED <<workerOf, closed, cancelled, serve, work, inFlightMem, table,
                 targetMu, idle, upstream, sweep>>

ParentCancels ==
  /\ serve = "loop" /\ ~cancelled
  /\ cancelled' = TRUE
  /\ UNCHANGED <<workerOf, closed, serve, closer, work, inFlightMem, table,
                 targetMu, idle, upstream, sweep>>

-----------------------------------------------------------------------------
(* workerLoop and processTask *)

Goto(w, label) == pc' = [pc EXCEPT ![w] = label]

\* processTask returns: the deferred unlock, then the memory is given back.
Finish(w) ==
  /\ Goto(w, "idle")
  /\ task' = [task EXCEPT ![w] = None]
  /\ stale' = stale \ {w} /\ made' = [made EXCEPT ![w] = None]
  /\ targetMu' = [k \in Keys |->
                    IF targetMu[k] = w THEN None ELSE targetMu[k]]
  /\ inFlightMem' = inFlightMem - 1

\* A task is taken from the queue; after a cancel it is only counted off.
Take(w) ==
  /\ serve # "new" /\ pc[w] = "idle" /\ queue[w] # <<>>
  /\ queue' = [queue EXCEPT ![w] = Tail(@)]
  /\ IF cancelled
     THEN inFlightMem' = inFlightMem - 1 /\ UNCHANGED <<pc, task>>
     ELSE /\ Goto(w, "session") /\ UNCHANGED inFlightMem
          /\ task' = [task EXCEPT ![w] = Head(queue[w])]
  /\ UNCHANGED <<workerOf, server, stale, made, table, targetMu, idle,
                 upstream, sweep>>

\* sessions.Load finds the session...
FindSession(w) ==
  /\ pc[w] = "session" /\ task[w].key \in sessions
  /\ Goto(w, "lock")
  /\ UNCHANGED <<workerOf, server, queue, task, stale, made, inFlightMem, table,
                 targetMu, idle, upstream, sweep>>

\* ...or the limit is looked at, and a session stored a little later.
CheckLimit(w) ==
  /\ pc[w] = "session" /\ task[w].key \notin sessions
  /\ sessionCount < MaxSessions
  /\ Goto(w, "store")
  /\ UNCHANGED <<workerOf, server, queue, task, stale, made, inFlightMem, table,
                 targetMu, idle, upstream, sweep>>

DropAtLimit(w) ==
  /\ pc[w] = "session" /\ task[w].key \notin sessions
  /\ sessionCount >= MaxSessions
  /\ Finish(w)
  /\ UNCHANGED <<workerOf, server, queue, table, idle, upstream, sweep>>

\* LoadOrStore: a key has one worker, so nobody else stores it.  lastActive is
\* zero until a datagram is accepted.
StoreSession(w) ==
  /\ pc[w] = "store"
  /\ sessions' = sessions \cup {task[w].key}
  /\ idle' = idle \cup {task[w].key}
  /\ Goto(w, "count")
  /\ UNCHANGED <<workerOf, server, queue, task, stale, made, inFlightMem,
                 sessionCount, targetMu, upstream, sweep>>

CountSession(w) ==
  /\ pc[w] = "count"
  /\ sessionCount' = sessionCount + 1
  /\ Goto(w, "lock")
  /\ UNCHANGED <<workerOf, server, queue, task, stale, made, inFlightMem,
                 sessions, targetMu, idle, upstream, sweep>>

\* targetMu.Lock: a session that was closed is locked until it is counted off.
Enter(w) ==
  /\ pc[w] = "lock"
  /\ IF w \in stale THEN ~(cleaner = "count" /\ victim = task[w].key)
     ELSE targetMu[task[w].key] = None

\* A session closed meanwhile, a cancel and a datagram that is not accepted
\* end the task.
Refuse(w) ==
  /\ Enter(w)
  /\ Finish(w)
  /\ UNCHANGED <<workerOf, server, queue, table, idle, upstream, sweep>>

\* AcceptAuthenticated: lastActive is now.
AcceptTask(w) ==
  /\ Enter(w) /\ w \notin stale /\ ~cancelled
  /\ targetMu' = [targetMu EXCEPT ![task[w].key] = w]
  /\ idle' = idle \ {task[w].key}
  /\ Goto(w, "target")
  /\ UNCHANGED <<workerOf, server, queue, task, stale, made, inFlightMem, table,
                 upstream, sweep>>

TargetOf(w) == targets[task[w].key][task[w].addr]

\* Variant: an early return leaves the session locked.
DropLocked(w) ==
  /\ pc[w] = "target"
  /\ \/ TargetOf(w) # None
     \/ targetCount[task[w].key] >= MaxTargets
     \/ Cardinality(leased) >= Budget
     \/ task[w].addr \in ICMP
  /\ Goto(w, "idle") /\ task' = [task EXCEPT ![w] = None]
  /\ inFlightMem' = inFlightMem - 1
  /\ UNCHANGED <<workerOf, server, queue, stale, made, table, targetMu, idle,
                 upstream, sweep>>

\* The target is there and is written to; or it cannot be had: the session has
\* its 32 targets, no lease is left, or the address of an ICMP target does not
\* resolve.
UseOrDrop(w) ==
  /\ pc[w] = "target"
  /\ \/ TargetOf(w) # None
     \/ targetCount[task[w].key] >= MaxTargets
     \/ Cardinality(leased) >= Budget
     \/ task[w].addr \in ICMP
  /\ Finish(w)
  /\ UNCHANGED <<workerOf, server, queue, table, idle, upstream, sweep>>

\* ReserveUDPTarget; then the name is resolved, or the ICMP socket opened.
Reserve(w, t) ==
  /\ pc[w] = "target" /\ TargetOf(w) = None
  /\ targetCount[task[w].key] < MaxTargets /\ Cardinality(leased) < Budget
  /\ NewTarget(t)
  /\ leased' = leased \cup {t}
  /\ made' = [made EXCEPT ![w] = t]
  /\ Goto(w, "resolve")
  /\ UNCHANGED <<workerOf, server, queue, task, stale, inFlightMem, table,
                 targetMu, idle, targets, targetCount, reader, home, sweep>>

\* The context is looked at before the target is stored.
Resolved(w) ==
  /\ pc[w] = "resolve" /\ ~cancelled
  /\ Goto(w, "install")
  /\ UNCHANGED <<workerOf, server, queue, task, stale, made, inFlightMem, table,
                 targetMu, idle, upstream, sweep>>

\* Variant: the lease of a name that does not resolve is kept.
ResolveKeepsLease(w) ==
  /\ \/ pc[w] = "resolve"
     \/ pc[w] = "install" /\ task[w].addr \notin ICMP
  /\ Finish(w)
  /\ UNCHANGED <<workerOf, server, queue, table, idle, upstream, sweep>>

\* Resolving or dialling fails, or the server was cancelled meanwhile.
ResolveFails(w) ==
  /\ \/ pc[w] = "resolve"
     \/ pc[w] = "install" /\ task[w].addr \notin ICMP
  /\ leased' = leased \ {made[w]}
  /\ Finish(w)
  /\ UNCHANGED <<workerOf, server, queue, table, idle, targets, targetCount,
                 reader, home, sweep>>

\* LoadOrStore under targetMu, targetCount, and a goroutine reads the target.
Install(w) ==
  LET k == task[w].key
      t == made[w]
  IN  /\ pc[w] = "install"
      /\ targets' = [targets EXCEPT ![k][task[w].addr] = t]
      /\ targetCount' = [targetCount EXCEPT ![k] = @ + 1]
      /\ reader' = [reader EXCEPT ![t] = "read"]
      /\ home' = [home EXCEPT ![t] = <<k, task[w].addr>>]
      /\ Finish(w)
      /\ UNCHANGED <<workerOf, server, queue, table, idle, leased, sweep>>

-----------------------------------------------------------------------------
(* listenUpstream and listenICMPUpstream *)

\* A datagram of the target is passed on to the client.
Answer(t) ==
  /\ reader[t] = "read" /\ t \in leased
  /\ home[t] # None /\ home[t][1] \in idle
  /\ idle' = idle \ {home[t][1]}
  /\ UNCHANGED <<workerOf, server, work, inFlightMem, table, targetMu, upstream,
                 sweep>>

\* The goroutine ends; the deferred call closes the target.
ReaderEnds(t) ==
  /\ leased' = leased \ {t}
  /\ reader' = [reader EXCEPT ![t] = "none"]
  /\ home' = [home EXCEPT ![t] = None]

\* The loop sees closed or the cancel.
ReaderStops(t) ==
  /\ reader[t] = "read" /\ (closed \/ cancelled)
  /\ ReaderEnds(t)
  /\ UNCHANGED <<workerOf, server, work, inFlightMem, table, targetMu, idle,
                 targets, targetCount, sweep>>

\* Variant: the target is removed and not counted off.
ReadFailsForgets(t) ==
  /\ reader[t] = "read"
  /\ targets' = [k \in Keys |-> [a \in Addresses |->
                   IF home[t] = <<k, a>> THEN None ELSE targets[k][a]]]
  /\ ReaderEnds(t)
  /\ UNCHANGED <<workerOf, server, work, inFlightMem, table, targetMu, idle,
                 targetCount, sweep>>

\* A read error (an unreachable target, 60 s of silence, a closed socket):
\* LoadAndDelete by address.  Nothing is listed any more of a closed session.
ReadFails(t) ==
  /\ reader[t] = "read"
  /\ targets' = [k \in Keys |-> [a \in Addresses |->
                   IF home[t] = <<k, a>> THEN None ELSE targets[k][a]]]
  /\ IF targets' # targets
     THEN /\ reader' = [reader EXCEPT ![t] = "uncount"]
          /\ UNCHANGED <<leased, home>>
     ELSE ReaderEnds(t)
  /\ UNCHANGED <<workerOf, server, work, inFlightMem, table, targetMu, idle,
                 targetCount, sweep>>

\* The counter follows if the target was still listed.
ReaderUncounts(t) ==
  /\ reader[t] = "uncount"
  /\ targetCount' = [k \in Keys |-> IF home[t] # None /\ home[t][1] = k
                                   THEN targetCount[k] - 1 ELSE targetCount[k]]
  /\ ReaderEnds(t)
  /\ UNCHANGED <<workerOf, server, work, inFlightMem, table, targetMu, idle,
                 targets, sweep>>

-----------------------------------------------------------------------------
(* cleaner *)

\* A minute passes without a datagram of the session.
Age(k) ==
  /\ k \in sessions \ idle
  /\ idle' = idle \cup {k}
  /\ UNCHANGED <<workerOf, server, work, inFlightMem, table, targetMu, upstream,
                 sweep>>

\* Range meets a session that looks idle;
CleanerSees(k) ==
  /\ serve # "new" /\ cleaner = "idle" /\ ~cancelled
  /\ k \in sessions \cap idle
  /\ cleaner' = "try" /\ victim' = k
  /\ UNCHANGED <<workerOf, server, work, inFlightMem, table, targetMu, idle,
                 upstream>>

\* TryLock fails, or the session has become active.
CleanerSkips ==
  /\ cleaner = "try" /\ (targetMu[victim] # None \/ victim \notin idle)
  /\ cleaner' = "idle" /\ victim' = None
  /\ UNCHANGED <<workerOf, server, work, inFlightMem, table, targetMu, idle,
                 upstream>>

\* The session is closed with its targets and removed: whoever still holds it
\* holds a session nobody else will find.
CloseSession(k) ==
  /\ stale' = stale \cup {w \in Workers : task[w] # None /\ task[w].key = k
                              /\ pc[w] \notin {"session", "store"}}
  /\ leased' = leased \ Held(k)
  /\ targets' = [targets EXCEPT ![k] = NoTargets]
  /\ targetCount' = [targetCount EXCEPT ![k] = 0]
  /\ home' = [t \in Targets |-> IF home[t] # None /\ home[t][1] = k
                                THEN None ELSE home[t]]
  /\ sessions' = sessions \ {k} /\ idle' = idle \ {k}
  /\ cleaner' = "count"
  /\ UNCHANGED <<workerOf, server, queue, pc, task, made, inFlightMem,
                 sessionCount, targetMu, reader, victim>>

\* Variant: a session is removed while a worker holds its lock.
CleanerForces == cleaner = "try" /\ victim \in idle /\ CloseSession(victim)

\* TryLock, the second look at lastActive, and the removal...
CleanerCloses ==
  /\ cleaner = "try" /\ targetMu[victim] = None /\ victim \in idle
  /\ CloseSession(victim)

\* ...which is counted off before the lock is given back.
CleanerCounts ==
  /\ cleaner = "count"
  /\ sessionCount' = sessionCount - 1
  /\ cleaner' = "idle" /\ victim' = None
  /\ UNCHANGED <<workerOf, server, work, inFlightMem, sessions, targetMu, idle,
                 upstream>>

CleanerStops ==
  /\ serve # "new" /\ cleaner = "idle" /\ cancelled
  /\ cleaner' = "gone"
  /\ UNCHANGED <<workerOf, server, work, inFlightMem, table, targetMu, idle,
                 upstream, victim>>

-----------------------------------------------------------------------------
ServeStep ==
  \/ cancelled /\ LoopEnds
  \/ ServeJoinsWorkers \/ ServeSweeps \/ ServeDone

WorkerStep(w) ==
  \/ Take(w) \/ FindSession(w) \/ CheckLimit(w) \/ DropAtLimit(w)
  \/ StoreSession(w) \/ CountSession(w)
  \/ Refuse(w) \/ AcceptTask(w) \/ UseOrDrop(w)
  \/ \E t \in Targets : Reserve(w, t)
  \/ Resolved(w) \/ ResolveFails(w) \/ Install(w)

ReaderStep(t) == ReaderStops(t) \/ ReadFails(t) \/ ReaderUncounts(t)

CleanerStep == CleanerSkips \/ CleanerCloses \/ CleanerCounts \/ CleanerStops

Next ==
  \/ Serve \/ Close \/ CloseDone \/ ParentCancels \/ LoopEnds
  \/ ServeJoinsWorkers \/ ServeSweeps \/ ServeDone
  \/ \E m \in Tasks : Receive(m)
  \/ \E w \in Workers : WorkerStep(w)
  \/ \E t \in Targets : Answer(t) \/ ReaderStep(t)
  \/ \E k \in Keys : Age(k) \/ CleanerSees(k)
  \/ CleanerStep

Spec == Init /\ [][Next]_vars

\* Goroutines run; a cancelled resolver and a closed or silent socket return.
Fairness ==
  /\ WF_vars(ServeStep) /\ WF_vars(CloseDone) /\ WF_vars(CleanerStep)
  /\ \A w \in Workers : WF_vars(WorkerStep(w))
  /\ \A t \in Targets : WF_vars(ReaderStep(t))

FairSpec == Spec /\ Fairness

-----------------------------------------------------------------------------
(* Properties *)

Reading == {t \in Targets : reader[t] # "none"}
Making == {made[w] : w \in Workers} \ {None}

\* Every lease ReserveUDPTarget granted belongs to a target being made or one
\* with a reader that will give it back, and while the server runs a target is
\* listed only by a session in the table and is open: cleaner, read errors,
\* failed dials and stop never lose a lease nor leave a target nobody cleans.
LeasesExact ==
  /\ leased \subseteq Making \cup Reading
  /\ Making \subseteq leased
  /\ ~closed /\ ~cancelled =>
       \A k \in Keys, a \in Addresses : targets[k][a] # None =>
         /\ k \in sessions
         /\ targets[k][a] \in Reading \cap leased
         /\ home[targets[k][a]] = <<k, a>>

Busy == {w \in Workers : pc[w] # "idle"}
Queued == UNION {{w} \X (1..Len(queue[w])) : w \in Workers}
Counting == {w \in Workers : pc[w] = "count"}

Uncounting(k) ==
  {t \in Targets : reader[t] = "uncount" /\ home[t] # None /\ home[t][1] = k}

\* The counters agree with what they count but for the steps between: memory
\* with the datagrams queued and worked on, targetCount with the targets of a
\* session and within its limit, sessionCount with the sessions.
CountersExact ==
  /\ inFlightMem = Cardinality(Busy) + Cardinality(Queued)
  /\ \A k \in Keys :
       /\ targetCount[k] = Cardinality(Held(k)) + Cardinality(Uncounting(k))
       /\ targetCount[k] <= MaxTargets
  /\ serve \notin {"upstream", "done"} =>
       sessionCount = Cardinality(sessions)
         - Cardinality(Counting) + (IF cleaner = "count" THEN 1 ELSE 0)

\* The table holds no more than maxSessions sessions, whichever workers look at
\* sessionCount before they store (getOrCreateSession).
SessionLimit == Cardinality(sessions) <= MaxSessions

\* What that check keeps to when every worker may pass it at once.
SessionOvershoot == sessionCount <= MaxSessions + Cardinality(Workers) - 1

\* When Serve and Close have returned, every goroutine has ended, every lease
\* and every byte of the memory budget has been given back.
StopsClean ==
  serve = "done" \/ (closer = "done" /\ serve = "new") =>
    /\ leased = {} /\ Reading = {} /\ inFlightMem = 0 /\ WorkersGone
    /\ sessions = {}

\* Close returns: no worker, reader or cleaner waits for another for ever.
CloseReturns == []<>(closer \in {"no", "done"})
=============================================================================
