------------------------- MODULE ConnioWriterProofs -------------------------
(***************************************************************************)
(* TLAPS proofs about ConnioWriter for any set of callers, any pool and    *)
(* any number of writes: the inductive invariant, that every step keeps    *)
(* its types, its gate, its stopping, its references and the ownership of  *)
(* its writes, that what callers are told of their writes is what the      *)
(* transport took, the half-close, and the theorems that follow.           *)
(***************************************************************************)
EXTENDS ConnioWriter, TLAPS

\* The prover of a leaf that names no other.
USE Zenon

-----------------------------------------------------------------------------
(* The inductive invariant; types, gate and stopping *)

Stopped == {"takeGate", "drain", "drained", "exit"}
Writing == {"acquireWrite", "check"} \cup Holding

\* The transport has none of a request's bytes; if its caller has left, it was
\* told that all of them count as sent.
Unwritten(r) ==
  /\ wire[data[r]] = None
  /\ ret[data[r]].back => ret[data[r]].n = All /\ ~ret[data[r]].ok

\* The gate is a mutual exclusion lock between callers and drainOnExit.
GateInv ==
  /\ gate => wpc # "drain" /\ \A p \in Procs : pc[p] \notin Gated
  /\ \A p \in Procs : pc[p] \in Gated => wpc # "drain"
  /\ \A p, q \in Procs : pc[p] \in Gated /\ pc[q] \in Gated => p = q

\* Who holds which reference.
LeaseInv ==
  /\ wreq # NoReq <=> wpc \in {"check", "writing", "release", "releaseStop"}
  /\ queue # NoReq => queue # wreq
  /\ \A r \in Requests : refs[r] = 0 => ~resCh[r].full
  /\ \A p \in Procs : pc[p] \in Holding =>
       req[p] # NoReq /\ refs[req[p]] # 0 /\ data[req[p]] = cur[p]
  /\ \A p \in Procs : pc[p] \in {"loop", "submit"} =>
       /\ refs[req[p]] = 2 /\ req[p] # queue /\ req[p] # wreq
       /\ ~resCh[req[p]].full
  /\ \A p \in Procs : pc[p] = "await" /\ req[p] \in {queue, wreq} =>
       refs[req[p]] = 2
  /\ queue # NoReq =>
       refs[queue] # 0 /\ data[queue] \in accepted /\ ~resCh[queue].full
  /\ wreq # NoReq => refs[wreq] # 0 /\ data[wreq] \in accepted
  /\ wpc \in {"check", "writing"} => ~resCh[wreq].full

\* What the closed channels say about the worker and the queue.
StopInv ==
  /\ qclosed = fin
  /\ started <=> wpc # "off"
  /\ stopping <=> wpc \in Stopped
  /\ exited <=> wpc = "exit"
  /\ \A p \in Procs : pc[p] \in {"loop", "submit"} => ~fin
  /\ wpc \in {"drained", "exit"} =>
       queue = NoReq /\ \A p \in Procs : pc[p] \notin {"submit", "await"}

\* Each write is performed by at most one caller and carried by at most one
\* request; writes not yet issued have left no trace.
OpsInv ==
  /\ \A p \in Procs : cur[p] # 0 <=> pc[p] \in Writing
  /\ \A p \in Procs : cur[p] < nextOp
  /\ \A p, q \in Procs : cur[p] # 0 /\ cur[p] = cur[q] => p = q
  /\ \A p \in Procs, r \in Requests :
       pc[p] \in {"acquireWrite", "check"} => data[r] # cur[p]
  /\ \A r \in Requests : data[r] < nextOp /\ (refs[r] = 0 => data[r] = 0)
  /\ \A r, s \in Requests : data[r] # 0 /\ data[r] = data[s] => r = s
  /\ \A o \in accepted : o < nextOp
  /\ \A p \in Procs : pc[p] \in Writing \ {"await"} => cur[p] \notin accepted

\* How much of a write the transport has is known from where its request is.
CountInv ==
  /\ \A o \in Ops : o >= nextOp => ~ret[o].back
  /\ \A p \in Procs : pc[p] \in Writing => ~ret[cur[p]].back
  /\ \A o \in Ops : o \notin accepted => wire[o] = None
  /\ queue # NoReq => Unwritten(queue)
  /\ wpc \in {"check", "writing"} => Unwritten(wreq)
  /\ \A r \in Requests : resCh[r].full /\ data[r] # 0 =>
       /\ wire[data[r]] = resCh[r].n
       /\ resCh[r].ok => resCh[r].n = All
  /\ HonestCount

\* What has to be true for a half-close to be complete.
CloseInv ==
  /\ wpc \in {"off", "select", "check", "writing", "release"} =>
       /\ ~err
       /\ \A o \in accepted :
            \/ wire[o] = All
            \/ queue # NoReq /\ o = data[queue]
            \/ wpc \in {"check", "writing"} /\ o = data[wreq]
  /\ finished => fin /\ queue = NoReq /\ \A o \in accepted : wire[o] = All
  /\ finished => wpc \in {"finishing", "stop"} \cup Stopped
  /\ wpc = "finishing" => finished
  /\ wpc \in {"releaseStop", "stop"} \cup Stopped /\ ~err /\ ~done => finished
  /\ halfClosed => finished

IInv ==
  /\ TypeOK /\ GateInv /\ LeaseInv /\ StopInv
  /\ OpsInv /\ CountInv /\ CloseInv
-----------------------------------------------------------------------------
\* What release does to the types and to the request (writeRequest.release).
LEMMA ReleaseType ==
  ASSUME TypeOK, NEW r \in Requests, NEW k \in {1, 2}, refs[r] >= k,
         NEW ch \in [Requests -> Results], Release(r, k, ch)
  PROVE  /\ refs' \in [Requests -> 0..2]
         /\ data' \in [Requests -> 0..MaxOps]
         /\ resCh' \in [Requests -> Results]
<1>1. refs[r] - k \in 0..2
  BY SMT DEF TypeOK
<1>2. NoResult \in Results
  BY DEF NoResult, Results, None, Some, All
<1> QED
  BY SMT, <1>1, <1>2, WriterAssumption DEF Release, TypeOK

\* What returning from WritePacket does to the caller's variables.
LEMMA ReturnType ==
  ASSUME TypeOK, NEW p \in Procs,
         NEW n \in {None, Some, All}, NEW ok \in BOOLEAN, ReturnWrite(p, n, ok)
  PROVE  /\ pc' \in [Procs -> CallerPC]
         /\ cur' \in [Procs -> 0..MaxOps]
         /\ req' \in [Procs -> Requests \cup {NoReq}]
         /\ ret' \in [Ops -> Returns]
<1>1. Returned(n, ok) \in Returns
  BY DEF Returned, Returns
<1>2. ret' \in [Ops -> Returns]
  BY <1>1 DEF ReturnWrite, TypeOK
<1>3. cur' \in [Procs -> 0..MaxOps]
  BY SMT, WriterAssumption DEF ReturnWrite, TypeOK
<1> QED
  BY <1>2, <1>3 DEF ReturnWrite, TypeOK, CallerPC

\* release changes one request only, and empties it with its last reference.
LEMMA ReleaseEffect ==
  ASSUME TypeOK, NEW r \in Requests, NEW k \in {1, 2}, refs[r] >= k,
         NEW ch \in [Requests -> Results], Release(r, k, ch)
  PROVE  /\ \A s \in Requests \ {r} :
              refs'[s] = refs[s] /\ data'[s] = data[s] /\ resCh'[s] = ch[s]
         /\ refs'[r] = refs[r] - k
         /\ IF refs'[r] = 0 THEN data'[r] = 0 /\ resCh'[r] = NoResult
                            ELSE data'[r] = data[r] /\ resCh'[r] = ch[r]
<1>1. /\ refs' = [refs EXCEPT ![r] = @ - k]
      /\ refs \in [Requests -> 0..2] /\ data \in [Requests -> 0..MaxOps]
  BY DEF Release, TypeOK
<1>2. CASE refs[r] = k
  <2>1. data' = [data EXCEPT ![r] = 0] /\ resCh' = [ch EXCEPT ![r] = NoResult]
    BY <1>2 DEF Release
  <2> QED
    BY SMT, <1>1, <1>2, <2>1
<1>3. CASE refs[r] # k
  <2>1. data' = data /\ resCh' = ch
    BY <1>3 DEF Release
  <2> QED
    BY SMT, <1>1, <1>3, <2>1
<1> QED
  BY <1>2, <1>3

\* A request loses its data exactly when its last reference goes.
LEMMA ReleaseClears ==
  ASSUME IInv, NEW r \in Requests, NEW k \in {1, 2}, refs[r] >= k,
         NEW ch \in [Requests -> Results], Release(r, k, ch)
  PROVE  \A s \in Requests : /\ data'[s] \in {0, data[s]}
                             /\ refs'[s] = 0 => data'[s] = 0
<1>1. /\ \A s \in Requests \ {r} : refs'[s] = refs[s] /\ data'[s] = data[s]
      /\ IF refs'[r] = 0 THEN data'[r] = 0 ELSE data'[r] = data[r]
  BY ReleaseEffect DEF IInv
<1> QED
  BY <1>1 DEF IInv, OpsInv

-----------------------------------------------------------------------------
(* Each conjunct of the inductive invariant survives every action.         *)

\* Every variable stays in its type.
LEMMA TypeStep == ASSUME IInv, Next PROVE TypeOK'
<1> USE WriterAssumption DEF IInv, TypeOK
<1>1. ASSUME NEW p \in Procs, BeginWrite(p)
      PROVE  TypeOK'
  BY SMT, <1>1 DEF BeginWrite, Go, channels, leases, CallerPC, Gated
<1>2. ASSUME NEW p \in Procs, AcquireWrite(p)
      PROVE  TypeOK'
  <2>1. pc' \in [Procs -> CallerPC]
    BY <1>2 DEF AcquireWrite, Go, CallerPC, Gated
  <2>2. gate' \in BOOLEAN
    BY <1>2 DEF AcquireWrite
  <2> QED
    BY SMT, <1>2, <2>1, <2>2 DEF AcquireWrite, flags, worker, leases, history
<1>3. ASSUME NEW p \in Procs, AcquireWriteFails(p)
      PROVE  TypeOK'
  <2>1. /\ pc' \in [Procs -> CallerPC]
        /\ cur' \in [Procs -> 0..MaxOps]
        /\ req' \in [Procs -> Requests \cup {NoReq}]
        /\ ret' \in [Ops -> Returns]
    BY <1>3, ReturnType DEF AcquireWriteFails, IInv, None, Some, All
  <2> QED
    BY SMT, <1>3, <2>1 DEF AcquireWriteFails, channels, flags, worker, leases
<1>4. ASSUME NEW p \in Procs, CheckRefuses(p)
      PROVE  TypeOK'
  <2>1. /\ pc' \in [Procs -> CallerPC]
        /\ cur' \in [Procs -> 0..MaxOps]
        /\ req' \in [Procs -> Requests \cup {NoReq}]
        /\ ret' \in [Ops -> Returns]
    BY <1>4, ReturnType DEF CheckRefuses, IInv, None, Some, All
  <2>2. gate' \in BOOLEAN
    BY <1>4 DEF CheckRefuses
  <2> QED
    BY SMT, <1>4, <2>1, <2>2 DEF CheckRefuses, flags, worker, leases
<1>5. ASSUME NEW p \in Procs, NEW r \in Requests, Lease(p, r)
      PROVE  TypeOK'
  BY SMT, <1>5 DEF Lease, Go, Pool, channels, flags, worker, history, CallerPC,
      Gated
<1>6. ASSUME NEW p \in Procs, LoopContinues(p)
      PROVE  TypeOK'
  BY SMT, <1>6 DEF LoopContinues, Go, channels, flags, worker, leases, history,
      CallerPC, Gated
<1>7. ASSUME NEW p \in Procs, GiveUp(p)
      PROVE  TypeOK'
  <2>1. req[p] \in Requests /\ refs[req[p]] >= 2
    BY SMT, <1>7 DEF GiveUp, IInv, TypeOK, LeaseInv, Holding
  <2>2. /\ refs' \in [Requests -> 0..2]
        /\ data' \in [Requests -> 0..MaxOps]
        /\ resCh' \in [Requests -> Results]
    BY <1>7, <2>1, ReleaseType DEF GiveUp, IInv, TypeOK
  <2>3. /\ pc' \in [Procs -> CallerPC]
        /\ cur' \in [Procs -> 0..MaxOps]
        /\ req' \in [Procs -> Requests \cup {NoReq}]
        /\ ret' \in [Ops -> Returns]
    BY <1>7, <2>1, ReturnType DEF GiveUp, IInv, None, Some, All
  <2>4. gate' \in BOOLEAN
    BY <1>7 DEF GiveUp
  <2> QED
    BY SMT, <1>7, <2>1, <2>2, <2>3, <2>4 DEF GiveUp, flags, worker
<1>8. ASSUME NEW p \in Procs, Rewatch(p)
      PROVE  TypeOK'
  BY SMT,
     <1>8 DEF Rewatch, Go, channels, flags, worker, leases, history, CallerPC,
      Gated
<1>9. ASSUME NEW p \in Procs, Submit(p)
      PROVE  TypeOK'
  <2>1. cur[p] \in Ops
    BY SMT, <1>9 DEF Submit, IInv, TypeOK, OpsInv, Writing, Holding, Ops
  <2>2. pc' \in [Procs -> CallerPC]
    BY <1>9 DEF Submit, Go, CallerPC, Gated
  <2>3. queue' \in Requests \cup {NoReq} /\ accepted' \subseteq Ops
    BY <1>9, <2>1 DEF Submit
  <2> QED
    BY SMT, <1>9, <2>1, <2>2, <2>3 DEF Submit, flags, worker, leases
<1>10. ASSUME NEW p \in Procs, AwaitResult(p)
      PROVE  TypeOK'
  <2>1. req[p] \in Requests /\ refs[req[p]] >= 1
    BY SMT, <1>10 DEF AwaitResult, IInv, TypeOK, LeaseInv, Holding
  <2>2. /\ [resCh EXCEPT ![req[p]] = NoResult] \in [Requests -> Results]
        /\ resCh[req[p]].n \in {None, Some, All} /\ resCh[req[p]].ok \in BOOLEAN
    BY <2>1 DEF IInv, TypeOK, Results, NoResult, None, Some, All
  <2>3. /\ refs' \in [Requests -> 0..2]
        /\ data' \in [Requests -> 0..MaxOps]
        /\ resCh' \in [Requests -> Results]
    BY <1>10, <2>1, <2>2, ReleaseType DEF AwaitResult, IInv, TypeOK
  <2>4. /\ pc' \in [Procs -> CallerPC]
        /\ cur' \in [Procs -> 0..MaxOps]
        /\ req' \in [Procs -> Requests \cup {NoReq}]
        /\ ret' \in [Ops -> Returns]
    BY ZenonT(60),
       <1>10, <2>1, <2>2, ReturnType DEF AwaitResult, IInv, None, Some, All
  <2>5. gate' \in BOOLEAN
    BY <1>10 DEF AwaitResult
  <2> QED
    BY SMT, <1>10, <2>1, <2>2, <2>3, <2>4, <2>5 DEF AwaitResult, flags, worker
<1>11. ASSUME NEW p \in Procs, AwaitGivesUp(p)
      PROVE  TypeOK'
  <2>1. req[p] \in Requests /\ refs[req[p]] >= 1
    BY SMT, <1>11 DEF AwaitGivesUp, IInv, TypeOK, LeaseInv, Holding
  <2>2. /\ refs' \in [Requests -> 0..2]
        /\ data' \in [Requests -> 0..MaxOps]
        /\ resCh' \in [Requests -> Results]
    BY <1>11, <2>1, ReleaseType DEF AwaitGivesUp, IInv, TypeOK
  <2>3. /\ pc' \in [Procs -> CallerPC]
        /\ cur' \in [Procs -> 0..MaxOps]
        /\ req' \in [Procs -> Requests \cup {NoReq}]
        /\ ret' \in [Ops -> Returns]
    BY <1>11, <2>1, ReturnType DEF AwaitGivesUp, IInv, None, Some, All
  <2>4. gate' \in BOOLEAN
    BY <1>11 DEF AwaitGivesUp
  <2> QED
    BY SMT, <1>11, <2>1, <2>2, <2>3, <2>4 DEF AwaitGivesUp, flags, worker
<1>12. ASSUME NEW p \in Procs, BeginCloseWrite(p)
      PROVE  TypeOK'
  BY SMT,
     <1>12 DEF BeginCloseWrite, Go, channels, leases, history, CallerPC, Gated
<1>13. ASSUME NEW p \in Procs, AcquireClose(p)
      PROVE  TypeOK'
  <2>1. pc' \in [Procs -> CallerPC]
    BY <1>13 DEF AcquireClose, Go, CallerPC, Gated
  <2>2. gate' \in BOOLEAN
    BY <1>13 DEF AcquireClose
  <2> QED
    BY SMT, <1>13, <2>1, <2>2 DEF AcquireClose, flags, worker, leases, history
<1>14. ASSUME NEW p \in Procs, AcquireCloseFails(p)
      PROVE  TypeOK'
  BY SMT,
     <1>14 DEF AcquireCloseFails, Go, channels, flags, worker, leases, history,
      CallerPC, Gated
<1>15. ASSUME NEW p \in Procs, CloseQueue(p)
      PROVE  TypeOK'
  BY SMT, <1>15 DEF CloseQueue, Go, worker, leases, history, CallerPC, Gated
<1>16. ASSUME NEW p \in Procs, CloseWriteReturns(p)
      PROVE  TypeOK'
  BY SMT, <1>16 DEF CloseWriteReturns, Go, channels, flags, worker, leases,
      CallerPC, Gated
<1>17. ASSUME NEW p \in Procs, CloseWriteGivesUp(p)
      PROVE  TypeOK'
  BY SMT,
     <1>17 DEF CloseWriteGivesUp, Go, channels, flags, worker, leases, history,
      CallerPC, Gated
<1>18. ASSUME NEW p \in Procs, BeginClose(p)
      PROVE  TypeOK'
  BY SMT, <1>18 DEF BeginClose, Go, leases, history, CallerPC, Gated
<1>19. ASSUME NEW p \in Procs, CloseReturns(p)
      PROVE  TypeOK'
  BY SMT, <1>19 DEF CloseReturns, Go, channels, flags, worker, leases, history,
      CallerPC, Gated
<1>20. ASSUME WorkerReceive
      PROVE  TypeOK'
  BY ZenonT(60), <1>20 DEF WorkerReceive, callers, flags, leases, history
<1>21. ASSUME WorkerFinish
      PROVE  TypeOK'
  BY ZenonT(60), <1>21 DEF WorkerFinish, callers, channels, flags, leases
<1>22. ASSUME WorkerSeesDone
      PROVE  TypeOK'
  BY SMT, <1>22 DEF WorkerSeesDone, callers, channels, flags, leases, history
<1>23. ASSUME WorkerAbandons
      PROVE  TypeOK'
  <2>1. resCh' \in [Requests -> Results]
    BY <1>23 DEF WorkerAbandons, Result, Results, None, Some, All
  <2>2. UNCHANGED <<callers, channels, flags, refs, data, expired, history>>
    BY <1>23 DEF WorkerAbandons
  <2>3. wpc' = "releaseStop" /\ wreq' = wreq
    BY <1>23 DEF WorkerAbandons
  <2> QED
    BY SMT, <2>1, <2>2, <2>3 DEF callers, channels, flags, history
<1>24. ASSUME WorkerStartsWrite
      PROVE  TypeOK'
  BY SMT, <1>24 DEF WorkerStartsWrite, callers, channels, flags, leases, history
<1>25. ASSUME WorkerReleases
      PROVE  TypeOK'
  <2>1. wreq \in Requests /\ refs[wreq] >= 1
    BY SMT, <1>25 DEF WorkerReleases, LeaseInv
  <2>2. /\ refs' \in [Requests -> 0..2]
        /\ data' \in [Requests -> 0..MaxOps]
        /\ resCh' \in [Requests -> Results]
    BY <1>25, <2>1, ReleaseType DEF WorkerReleases
  <2> QED
    BY SMT,
       <1>25, <2>1, <2>2 DEF WorkerReleases, callers, channels, flags, history
<1>26. ASSUME CloseStopping
      PROVE  TypeOK'
  BY SMT, <1>26 DEF CloseStopping, callers, flags, leases, history
<1>27. ASSUME DrainTakesGate
      PROVE  TypeOK'
  <2>1. gate' \in BOOLEAN
    BY <1>27 DEF DrainTakesGate
  <2> QED
    BY SMT, <1>27, <2>1 DEF DrainTakesGate, callers, flags, leases, history
<1>28. ASSUME DrainOne
      PROVE  TypeOK'
  <2>1. queue \in Requests /\ refs[queue] >= 1
    BY SMT, <1>28 DEF DrainOne, LeaseInv
  <2>2. [resCh EXCEPT ![queue] = Result(None, FALSE)] \in [Requests -> Results]
    BY <2>1 DEF Result, Results, None, Some, All
  <2>3. /\ refs' \in [Requests -> 0..2]
        /\ data' \in [Requests -> 0..MaxOps]
        /\ resCh' \in [Requests -> Results]
    BY <1>28, <2>1, <2>2, ReleaseType DEF DrainOne
  <2> QED
    BY SMT,
       <1>28, <2>1, <2>2, <2>3 DEF DrainOne, callers, flags, worker, history
<1>29. ASSUME DrainReturnsGate
      PROVE  TypeOK'
  BY ZenonT(60), <1>29 DEF DrainReturnsGate, callers, flags, leases, history
<1>30. ASSUME CloseExited
      PROVE  TypeOK'
  BY SMT, <1>30 DEF CloseExited, callers, flags, leases, history
<1>31. ASSUME NEW n \in {None, Some, All}, NEW ok \in BOOLEAN,
                WriteReturns(n, ok)
      PROVE  TypeOK'
  <2>1. resCh' \in [Requests -> Results]
    BY <1>31 DEF WriteReturns, Result, Results
  <2>2. wire' \in [Ops -> {None, Some, All}]
    BY <1>31 DEF WriteReturns
  <2>3. err' \in BOOLEAN
    BY <1>31 DEF WriteReturns
  <2> QED
    BY SMT, <1>31, <2>1, <2>2, <2>3 DEF WriteReturns, callers, channels
<1>32. ASSUME NEW ok \in BOOLEAN, FinishReturns(ok)
      PROVE  TypeOK'
  BY SMT, <1>32 DEF FinishReturns, callers, channels, leases, history
<1>33. ASSUME SetDeadline
      PROVE  TypeOK'
  BY SMT,
     <1>33 DEF SetDeadline, callers, channels, flags, worker, leases, history
<1> HIDE DEF IInv, TypeOK
<1> QED
  BY <1>1, <1>2, <1>3, <1>4, <1>5, <1>6, <1>7, <1>8, <1>9, <1>10,
     <1>11, <1>12, <1>13, <1>14, <1>15, <1>16, <1>17, <1>18, <1>19, <1>20,
     <1>21, <1>22, <1>23, <1>24, <1>25, <1>26, <1>27, <1>28, <1>29, <1>30,
     <1>31, <1>32, <1>33
  DEF Next, CallerStep, CallerBegins, WorkerStep, TransportReturns

\* The gate admits one holder.
LEMMA GateStep == ASSUME IInv, Next PROVE GateInv'
<1> USE WriterAssumption DEF IInv, TypeOK, GateInv, Gated
<1>1. ASSUME NEW p \in Procs, BeginWrite(p)
      PROVE  GateInv'
  BY <1>1 DEF BeginWrite, Go, channels, leases
<1>2. ASSUME NEW p \in Procs, AcquireWrite(p)
      PROVE  GateInv'
  BY <1>2 DEF AcquireWrite, Go, flags, worker, leases, history
<1>3. ASSUME NEW p \in Procs, AcquireWriteFails(p)
      PROVE  GateInv'
  BY <1>3 DEF AcquireWriteFails, ReturnWrite, Returned, channels, flags,
      worker, leases
<1>4. ASSUME NEW p \in Procs, CheckRefuses(p)
      PROVE  GateInv'
  BY <1>4 DEF CheckRefuses, ReturnWrite, Returned, flags, worker, leases
<1>5. ASSUME NEW p \in Procs, NEW r \in Requests, Lease(p, r)
      PROVE  GateInv'
  BY ZenonT(60), <1>5 DEF Lease, Go, Pool, channels, flags, worker, history
<1>6. ASSUME NEW p \in Procs, LoopContinues(p)
      PROVE  GateInv'
  BY <1>6 DEF LoopContinues, Go, channels, flags, worker, leases, history
<1>7. ASSUME NEW p \in Procs, GiveUp(p)
      PROVE  GateInv'
  BY <1>7 DEF GiveUp, Release, ReturnWrite, NoResult, Returned, flags, worker
<1>8. ASSUME NEW p \in Procs, Rewatch(p)
      PROVE  GateInv'
  BY <1>8 DEF Rewatch, Go, channels, flags, worker, leases, history
<1>9. ASSUME NEW p \in Procs, Submit(p)
      PROVE  GateInv'
  BY <1>9 DEF Submit, Go, flags, worker, leases
<1>10. ASSUME NEW p \in Procs, AwaitResult(p)
      PROVE  GateInv'
  BY <1>10 DEF AwaitResult, Release, ReturnWrite, NoResult, Returned, flags,
      worker
<1>11. ASSUME NEW p \in Procs, AwaitGivesUp(p)
      PROVE  GateInv'
  BY <1>11 DEF AwaitGivesUp, Release, ReturnWrite, NoResult, Returned, flags,
      worker
<1>12. ASSUME NEW p \in Procs, BeginCloseWrite(p)
      PROVE  GateInv'
  BY <1>12 DEF BeginCloseWrite, Go, channels, leases, history
<1>13. ASSUME NEW p \in Procs, AcquireClose(p)
      PROVE  GateInv'
  BY <1>13 DEF AcquireClose, Go, flags, worker, leases, history
<1>14. ASSUME NEW p \in Procs, AcquireCloseFails(p)
      PROVE  GateInv'
  BY <1>14 DEF AcquireCloseFails, Go, channels, flags, worker, leases, history
<1>15. ASSUME NEW p \in Procs, CloseQueue(p)
      PROVE  GateInv'
  BY <1>15 DEF CloseQueue, Go, worker, leases, history
<1>16. ASSUME NEW p \in Procs, CloseWriteReturns(p)
      PROVE  GateInv'
  BY <1>16 DEF CloseWriteReturns, Go, channels, flags, worker, leases
<1>17. ASSUME NEW p \in Procs, CloseWriteGivesUp(p)
      PROVE  GateInv'
  BY <1>17 DEF CloseWriteGivesUp, Go, channels, flags, worker, leases, history
<1>18. ASSUME NEW p \in Procs, BeginClose(p)
      PROVE  GateInv'
  BY <1>18 DEF BeginClose, Go, leases, history
<1>19. ASSUME NEW p \in Procs, CloseReturns(p)
      PROVE  GateInv'
  BY <1>19 DEF CloseReturns, Go, channels, flags, worker, leases, history
<1>20. ASSUME WorkerReceive
      PROVE  GateInv'
  BY <1>20 DEF WorkerReceive, callers, flags, leases, history
<1>21. ASSUME WorkerFinish
      PROVE  GateInv'
  BY <1>21 DEF WorkerFinish, callers, channels, flags, leases
<1>22. ASSUME WorkerSeesDone
      PROVE  GateInv'
  BY <1>22 DEF WorkerSeesDone, callers, channels, flags, leases, history
<1>23. ASSUME WorkerAbandons
      PROVE  GateInv'
  BY <1>23 DEF WorkerAbandons, NoResult, Result, callers, channels, flags,
      history
<1>24. ASSUME WorkerStartsWrite
      PROVE  GateInv'
  BY <1>24 DEF WorkerStartsWrite, callers, channels, flags, leases, history
<1>25. ASSUME WorkerReleases
      PROVE  GateInv'
  BY <1>25 DEF WorkerReleases, Release, NoResult, callers, channels, flags,
      history
<1>26. ASSUME CloseStopping
      PROVE  GateInv'
  BY <1>26 DEF CloseStopping, callers, flags, leases, history
<1>27. ASSUME DrainTakesGate
      PROVE  GateInv'
  BY <1>27 DEF DrainTakesGate, callers, flags, leases, history
<1>28. ASSUME DrainOne
      PROVE  GateInv'
  BY <1>28 DEF DrainOne, Release, NoResult, Result, callers, flags, worker,
      history
<1>29. ASSUME DrainReturnsGate
      PROVE  GateInv'
  BY <1>29 DEF DrainReturnsGate, callers, flags, leases, history
<1>30. ASSUME CloseExited
      PROVE  GateInv'
  BY <1>30 DEF CloseExited, callers, flags, leases, history
<1>31. ASSUME NEW n \in {None, Some, All}, NEW ok \in BOOLEAN,
                WriteReturns(n, ok)
      PROVE  GateInv'
  BY <1>31 DEF WriteReturns, NoResult, Result, callers, channels
<1>32. ASSUME NEW ok \in BOOLEAN, FinishReturns(ok)
      PROVE  GateInv'
  BY <1>32 DEF FinishReturns, callers, channels, leases, history
<1>33. ASSUME SetDeadline
      PROVE  GateInv'
  BY <1>33 DEF SetDeadline, callers, channels, flags, worker, leases, history
<1> HIDE DEF IInv, TypeOK, GateInv
<1> QED
  BY <1>1, <1>2, <1>3, <1>4, <1>5, <1>6, <1>7, <1>8, <1>9, <1>10,
     <1>11, <1>12, <1>13, <1>14, <1>15, <1>16, <1>17, <1>18, <1>19, <1>20,
     <1>21, <1>22, <1>23, <1>24, <1>25, <1>26, <1>27, <1>28, <1>29, <1>30,
     <1>31, <1>32, <1>33
  DEF Next, CallerStep, CallerBegins, WorkerStep, TransportReturns

\* The channels tell where the worker is.
LEMMA StopStep == ASSUME IInv, Next PROVE StopInv'
<1> USE WriterAssumption DEF IInv, TypeOK, GateInv, LeaseInv, StopInv, Stopped,
    Gated
<1>1. ASSUME NEW p \in Procs, BeginWrite(p)
      PROVE  StopInv'
  BY <1>1 DEF BeginWrite, Go, channels, leases
<1>2. ASSUME NEW p \in Procs, AcquireWrite(p)
      PROVE  StopInv'
  BY <1>2 DEF AcquireWrite, Go, flags, worker, leases, history
<1>3. ASSUME NEW p \in Procs, AcquireWriteFails(p)
      PROVE  StopInv'
  BY <1>3 DEF AcquireWriteFails, ReturnWrite, Returned, channels, flags,
      worker, leases
<1>4. ASSUME NEW p \in Procs, CheckRefuses(p)
      PROVE  StopInv'
  BY <1>4 DEF CheckRefuses, ReturnWrite, Returned, flags, worker, leases
<1>5. ASSUME NEW p \in Procs, NEW r \in Requests, Lease(p, r)
      PROVE  StopInv'
  BY <1>5 DEF Lease, Go, Pool, channels, flags, worker, history
<1>6. ASSUME NEW p \in Procs, LoopContinues(p)
      PROVE  StopInv'
  BY <1>6 DEF LoopContinues, Go, channels, flags, worker, leases, history
<1>7. ASSUME NEW p \in Procs, GiveUp(p)
      PROVE  StopInv'
  BY <1>7 DEF GiveUp, Release, ReturnWrite, NoResult, Returned, flags, worker
<1>8. ASSUME NEW p \in Procs, Rewatch(p)
      PROVE  StopInv'
  BY <1>8 DEF Rewatch, Go, channels, flags, worker, leases, history
<1>9. ASSUME NEW p \in Procs, Submit(p)
      PROVE  StopInv'
  BY <1>9 DEF Submit, Go, flags, worker, leases
<1>10. ASSUME NEW p \in Procs, AwaitResult(p)
      PROVE  StopInv'
  BY <1>10 DEF AwaitResult, Release, ReturnWrite, NoResult, Returned,
     flags, worker
<1>11. ASSUME NEW p \in Procs, AwaitGivesUp(p)
      PROVE  StopInv'
  BY <1>11 DEF AwaitGivesUp, Release, ReturnWrite, NoResult, Returned,
     flags, worker
<1>12. ASSUME NEW p \in Procs, BeginCloseWrite(p)
      PROVE  StopInv'
  BY <1>12 DEF BeginCloseWrite, Go, channels, leases, history
<1>13. ASSUME NEW p \in Procs, AcquireClose(p)
      PROVE  StopInv'
  BY <1>13 DEF AcquireClose, Go, flags, worker, leases, history
<1>14. ASSUME NEW p \in Procs, AcquireCloseFails(p)
      PROVE  StopInv'
  BY <1>14 DEF AcquireCloseFails, Go, channels, flags, worker, leases,
     history
<1>15. ASSUME NEW p \in Procs, CloseQueue(p)
      PROVE  StopInv'
  BY <1>15 DEF CloseQueue, Go, worker, leases, history
<1>16. ASSUME NEW p \in Procs, CloseWriteReturns(p)
      PROVE  StopInv'
  BY <1>16 DEF CloseWriteReturns, Go, channels, flags, worker, leases
<1>17. ASSUME NEW p \in Procs, CloseWriteGivesUp(p)
      PROVE  StopInv'
  BY <1>17 DEF CloseWriteGivesUp, Go, channels, flags, worker, leases,
     history
<1>18. ASSUME NEW p \in Procs, BeginClose(p)
      PROVE  StopInv'
  BY <1>18 DEF BeginClose, Go, leases, history
<1>19. ASSUME NEW p \in Procs, CloseReturns(p)
      PROVE  StopInv'
  BY <1>19 DEF CloseReturns, Go, channels, flags, worker, leases, history
<1>20. ASSUME WorkerReceive
      PROVE  StopInv'
  BY <1>20 DEF WorkerReceive, callers, flags, leases, history
<1>21. ASSUME WorkerFinish
      PROVE  StopInv'
  BY <1>21 DEF WorkerFinish, callers, channels, flags, leases
<1>22. ASSUME WorkerSeesDone
      PROVE  StopInv'
  BY <1>22 DEF WorkerSeesDone, callers, channels, flags, leases, history
<1>23. ASSUME WorkerAbandons
      PROVE  StopInv'
  BY <1>23 DEF WorkerAbandons, NoResult, Result, callers, channels,
     flags, history
<1>24. ASSUME WorkerStartsWrite
      PROVE  StopInv'
  BY <1>24 DEF WorkerStartsWrite, callers, channels, flags, leases, history
<1>25. ASSUME WorkerReleases
      PROVE  StopInv'
  BY <1>25 DEF WorkerReleases, Release, NoResult, callers, channels,
     flags, history
<1>26. ASSUME CloseStopping
      PROVE  StopInv'
  BY <1>26 DEF CloseStopping, callers, flags, leases, history
<1>27. ASSUME DrainTakesGate
      PROVE  StopInv'
  BY <1>27 DEF DrainTakesGate, callers, flags, leases, history
<1>28. ASSUME DrainOne
      PROVE  StopInv'
  BY <1>28 DEF DrainOne, Release, NoResult, Result, callers, flags,
     worker, history
<1>29. ASSUME DrainReturnsGate
      PROVE  StopInv'
  BY <1>29 DEF DrainReturnsGate, callers, flags, leases, history
<1>30. ASSUME CloseExited
      PROVE  StopInv'
  BY <1>30 DEF CloseExited, callers, flags, leases, history
<1>31. ASSUME NEW n \in {None, Some, All}, NEW ok \in BOOLEAN,
                WriteReturns(n, ok)
      PROVE  StopInv'
  BY <1>31 DEF WriteReturns, NoResult, Result, callers, channels
<1>32. ASSUME NEW ok \in BOOLEAN, FinishReturns(ok)
      PROVE  StopInv'
  BY <1>32 DEF FinishReturns, callers, channels, leases, history
<1>33. ASSUME SetDeadline
      PROVE  StopInv'
  BY <1>33 DEF SetDeadline, callers, channels, flags, worker, leases, history
<1> HIDE DEF IInv, TypeOK, GateInv, LeaseInv, StopInv
<1> QED
  BY <1>1, <1>2, <1>3, <1>4, <1>5, <1>6, <1>7, <1>8, <1>9, <1>10,
     <1>11, <1>12, <1>13, <1>14, <1>15, <1>16, <1>17, <1>18, <1>19, <1>20,
     <1>21, <1>22, <1>23, <1>24, <1>25, <1>26, <1>27, <1>28, <1>29, <1>30,
     <1>31, <1>32, <1>33
  DEF Next, CallerStep, CallerBegins, WorkerStep, TransportReturns

-----------------------------------------------------------------------------
(* References are counted as they are held; no write is carried twice *)

\* OpsInv survives callers that return and requests that lose their data.
LEMMA OpsKept ==
  ASSUME IInv, accepted' = accepted, nextOp' = nextOp,
         \A q \in Procs : \/ cur'[q] = cur[q] /\ pc'[q] = pc[q]
                          \/ cur'[q] = 0 /\ pc'[q] = "idle",
         \A s \in Requests : /\ data'[s] \in {0, data[s]}
                             /\ refs'[s] = 0 => data'[s] = 0
  PROVE  OpsInv'
<1> USE DEF IInv, OpsInv
<1>1. nextOp \in Nat \ {0} /\ \A r \in Requests : data[r] \in Nat
  BY SMT, WriterAssumption DEF TypeOK
<1>2. (\A p \in Procs : cur[p] # 0 <=> pc[p] \in Writing)'
  BY DEF Writing, Holding
<1>3. (\A p \in Procs, r \in Requests :
        pc[p] \in {"acquireWrite", "check"} => data[r] # cur[p])'
  BY ZenonT(60), <1>1 DEF Writing
<1>4. (\A r \in Requests : data[r] < nextOp /\ (refs[r] = 0 => data[r] = 0))'
  BY SMT, <1>1
<1>5. (\A r, s \in Requests : data[r] # 0 /\ data[r] = data[s] => r = s)'
  BY ZenonT(60), <1>1
<1>6. (\A p \in Procs :
        pc[p] \in Writing \ {"await"} => cur[p] \notin accepted)'
  BY DEF Writing, Holding
<1>7. (\A p \in Procs : cur[p] < nextOp)'
  BY SMTT(60), <1>1
<1> QED
  BY SMTT(60), <1>2, <1>3, <1>4, <1>5, <1>6, <1>7

\* What releasing a reference does to OpsInv.
LEMMA ReleaseOps ==
  ASSUME IInv, NEW r \in Requests, NEW k \in {1, 2}, refs[r] >= k,
         NEW ch \in [Requests -> Results], Release(r, k, ch),
         accepted' = accepted, nextOp' = nextOp,
         \A q \in Procs : \/ cur'[q] = cur[q] /\ pc'[q] = pc[q]
                          \/ cur'[q] = 0 /\ pc'[q] = "idle"
  PROVE  OpsInv'
BY ReleaseClears, OpsKept

\* The five actions that release a request keep OpsInv.
LEMMA ReleasesOps ==
  ASSUME IInv,
         \/ \E p \in Procs : GiveUp(p) \/ AwaitResult(p) \/ AwaitGivesUp(p)
         \/ WorkerReleases \/ DrainOne
  PROVE  OpsInv'
<1>1. NoResult \in Results /\ Result(None, FALSE) \in Results
  BY DEF NoResult, Result, Results, None, Some, All
<1>2. ASSUME NEW p \in Procs, GiveUp(p) \/ AwaitResult(p) \/ AwaitGivesUp(p)
      PROVE  OpsInv'
  <2>1. /\ req[p] \in Requests /\ refs[req[p]] >= 1
        /\ GiveUp(p) => refs[req[p]] >= 2
    <3>1. pc[p] \in Holding /\ (GiveUp(p) => pc[p] \in {"loop", "submit"})
      BY <1>2 DEF Holding, GiveUp, AwaitResult, AwaitGivesUp
    <3> QED
      BY SMT, <3>1 DEF IInv, TypeOK, LeaseInv
  <2>2. /\ resCh \in [Requests -> Results]
        /\ [resCh EXCEPT ![req[p]] = NoResult] \in [Requests -> Results]
    BY <1>1, <2>1 DEF IInv, TypeOK
  <2>3. /\ accepted' = accepted /\ nextOp' = nextOp
        /\ \A q \in Procs : \/ cur'[q] = cur[q] /\ pc'[q] = pc[q]
                            \/ cur'[q] = 0 /\ pc'[q] = "idle"
    BY <1>2 DEF GiveUp, AwaitResult, AwaitGivesUp, ReturnWrite, IInv,
       TypeOK
  <2>4. \/ Release(req[p], 1, resCh)
        \/ Release(req[p], 2, resCh) /\ refs[req[p]] >= 2
        \/ Release(req[p], 1, [resCh EXCEPT ![req[p]] = NoResult])
    BY <1>2, <2>1 DEF GiveUp, AwaitResult, AwaitGivesUp
  <2> QED
    BY <2>1, <2>2, <2>3, <2>4, ReleaseOps
<1>3. CASE WorkerReleases
  <2>1. wreq \in Requests /\ refs[wreq] >= 1 /\ resCh \in [Requests -> Results]
    BY SMT, <1>3 DEF IInv, TypeOK, LeaseInv, WorkerReleases
  <2> QED
    BY <1>3, <2>1, ReleaseOps DEF WorkerReleases, callers, history
<1>4. CASE DrainOne
  <2>1. queue \in Requests /\ refs[queue] >= 1
    BY SMT, <1>4 DEF IInv, TypeOK, LeaseInv, DrainOne
  <2>2. [resCh EXCEPT ![queue] = Result(None, FALSE)] \in [Requests -> Results]
    BY <1>1, <2>1 DEF IInv, TypeOK
  <2> QED
    BY <1>4, <2>1, <2>2, ReleaseOps DEF DrainOne, callers, history
<1> QED
  BY <1>2, <1>3, <1>4

-----------------------------------------------------------------------------
\* References are counted as they are held.
LEMMA LeaseStep == ASSUME IInv, Next PROVE LeaseInv'
<1>a. LeaseInv
  BY DEF IInv
<1> USE WriterAssumption DEF IInv, TypeOK, GateInv, LeaseInv, Holding, Gated,
    Results
<1>1. ASSUME NEW p \in Procs, BeginWrite(p)
      PROVE  LeaseInv'
  BY <1>1 DEF BeginWrite, Go, channels, leases, StopInv
<1>2. ASSUME NEW p \in Procs, AcquireWrite(p)
      PROVE  LeaseInv'
  BY <1>2 DEF AcquireWrite, Go, flags, worker, leases, history
<1>3. ASSUME NEW p \in Procs, AcquireWriteFails(p)
      PROVE  LeaseInv'
  BY <1>3 DEF AcquireWriteFails, ReturnWrite, Returned, channels, flags,
      worker, leases
<1>4. ASSUME NEW p \in Procs, CheckRefuses(p)
      PROVE  LeaseInv'
  BY <1>4 DEF CheckRefuses, ReturnWrite, Returned, flags, worker, leases
<1>5. ASSUME NEW p \in Procs, NEW r \in Requests, Lease(p, r)
      PROVE  LeaseInv'
  BY SMTT(60), <1>5 DEF Lease, Go, Pool, channels, flags, worker, history
<1>6. ASSUME NEW p \in Procs, LoopContinues(p)
      PROVE  LeaseInv'
  BY <1>6 DEF LoopContinues, Go, channels, flags, worker, leases, history
<1>7. ASSUME NEW p \in Procs, GiveUp(p)
      PROVE  LeaseInv'
  BY SMTT(120),
     <1>7 DEF GiveUp, Release, ReturnWrite, NoResult, Returned, flags, worker
<1>8. ASSUME NEW p \in Procs, Rewatch(p)
      PROVE  LeaseInv'
  BY <1>8 DEF Rewatch, Go, channels, flags, worker, leases, history
<1>9. ASSUME NEW p \in Procs, Submit(p)
      PROVE  LeaseInv'
  BY ZenonT(60), <1>9 DEF Submit, Go, flags, worker, leases
<1>10. ASSUME NEW p \in Procs, AwaitResult(p)
      PROVE  LeaseInv'
  <2>1. req[p] \in Requests /\ refs[req[p]] \in {1, 2}
    BY SMTT(60), <1>10 DEF AwaitResult
  <2>2. ~resCh'[req[p]].full
    BY SMTT(60), <1>10, <2>1 DEF AwaitResult, Release, NoResult
  <2>3. \A r \in Requests \ {req[p]} :
        refs'[r] = refs[r] /\ data'[r] = data[r] /\ resCh'[r] = resCh[r]
    BY ZenonT(60), <1>10, <2>1 DEF AwaitResult, Release
  <2>4. refs[req[p]] = 2 =>
          refs'[req[p]] # 0 /\ data'[req[p]] = data[req[p]]
    BY SMTT(60), <1>10, <2>1 DEF AwaitResult, Release
  <2>5. \A q \in Procs \ {p} : pc'[q] \notin Holding
    BY <1>10 DEF AwaitResult, ReturnWrite
  <2>6. pc'[p] = "idle"
    BY <1>10 DEF AwaitResult, ReturnWrite
  <2>7. /\ UNCHANGED <<queue, wreq, wpc, accepted>>
        /\ queue \in Requests \cup {NoReq} /\ wreq \in Requests \cup {NoReq}
    BY <1>10 DEF AwaitResult, flags, worker
  <2>8. req[p] \in {queue, wreq} => refs[req[p]] = 2
    BY <1>10 DEF AwaitResult
  <2>9. \A q \in Procs : pc'[q] \notin Holding
    BY <2>5, <2>6
  <2>10. (\A r \in Requests : refs[r] = 0 => ~resCh[r].full)'
    BY <2>2, <2>3
  <2>11. (queue # NoReq =>
            /\ refs[queue] # 0 /\ data[queue] \in accepted
            /\ ~resCh[queue].full)'
    BY ONLY <1>a, <2>2, <2>3, <2>4, <2>7, <2>8, Zenon DEF LeaseInv
  <2>12. (wreq # NoReq => refs[wreq] # 0 /\ data[wreq] \in accepted)'
    BY ONLY <1>a, <2>3, <2>4, <2>7, <2>8, Zenon DEF LeaseInv
  <2>13. (wpc \in {"check", "writing"} => ~resCh[wreq].full)'
    BY ONLY <1>a, <2>2, <2>3, <2>7, Zenon DEF LeaseInv
  <2> QED
    BY ONLY <1>a, <2>7, <2>9, <2>10, <2>11, <2>12, <2>13, Zenon
    DEF LeaseInv, Holding
<1>11. ASSUME NEW p \in Procs, AwaitGivesUp(p)
      PROVE  LeaseInv'
  BY <1>11, SMTT(120) DEF AwaitGivesUp, Release, ReturnWrite, NoResult,
     Returned, flags, worker
<1>12. ASSUME NEW p \in Procs, BeginCloseWrite(p)
      PROVE  LeaseInv'
  BY <1>12 DEF BeginCloseWrite, Go, channels, leases, history, StopInv
<1>13. ASSUME NEW p \in Procs, AcquireClose(p)
      PROVE  LeaseInv'
  BY <1>13 DEF AcquireClose, Go, flags, worker, leases, history
<1>14. ASSUME NEW p \in Procs, AcquireCloseFails(p)
      PROVE  LeaseInv'
  BY <1>14 DEF AcquireCloseFails, Go, channels, flags, worker, leases,
     history
<1>15. ASSUME NEW p \in Procs, CloseQueue(p)
      PROVE  LeaseInv'
  BY <1>15 DEF CloseQueue, Go, worker, leases, history
<1>16. ASSUME NEW p \in Procs, CloseWriteReturns(p)
      PROVE  LeaseInv'
  BY <1>16 DEF CloseWriteReturns, Go, channels, flags, worker, leases
<1>17. ASSUME NEW p \in Procs, CloseWriteGivesUp(p)
      PROVE  LeaseInv'
  BY <1>17 DEF CloseWriteGivesUp, Go, channels, flags, worker, leases, history
<1>18. ASSUME NEW p \in Procs, BeginClose(p)
      PROVE  LeaseInv'
  BY <1>18 DEF BeginClose, Go, leases, history, StopInv
<1>19. ASSUME NEW p \in Procs, CloseReturns(p)
      PROVE  LeaseInv'
  BY <1>19 DEF CloseReturns, Go, channels, flags, worker, leases, history
<1>20. ASSUME WorkerReceive
      PROVE  LeaseInv'
  BY <1>20 DEF WorkerReceive, callers, flags, leases, history
<1>21. ASSUME WorkerFinish
      PROVE  LeaseInv'
  BY <1>21 DEF WorkerFinish, callers, channels, flags, leases
<1>22. ASSUME WorkerSeesDone
      PROVE  LeaseInv'
  BY <1>22 DEF WorkerSeesDone, callers, channels, flags, leases, history
<1>23. ASSUME WorkerAbandons
      PROVE  LeaseInv'
  BY SMTT(60),
     <1>23 DEF WorkerAbandons, NoResult, Result, callers, channels, flags,
      history
<1>24. ASSUME WorkerStartsWrite
      PROVE  LeaseInv'
  BY <1>24 DEF WorkerStartsWrite, callers, channels, flags, leases, history
<1>25. ASSUME WorkerReleases
      PROVE  LeaseInv'
  BY <1>25, SMTT(40) DEF WorkerReleases, Release, NoResult, callers, channels,
     flags, history
<1>26. ASSUME CloseStopping
      PROVE  LeaseInv'
  BY <1>26 DEF CloseStopping, callers, flags, leases, history
<1>27. ASSUME DrainTakesGate
      PROVE  LeaseInv'
  BY <1>27 DEF DrainTakesGate, callers, flags, leases, history
<1>28. ASSUME DrainOne
      PROVE  LeaseInv'
  BY SMTT(60),
     <1>28 DEF DrainOne, Release, NoResult, Result, callers, flags, worker,
      history
<1>29. ASSUME DrainReturnsGate
      PROVE  LeaseInv'
  BY <1>29 DEF DrainReturnsGate, callers, flags, leases, history
<1>30. ASSUME CloseExited
      PROVE  LeaseInv'
  BY <1>30 DEF CloseExited, callers, flags, leases, history
<1>31. ASSUME NEW n \in {None, Some, All}, NEW ok \in BOOLEAN,
                WriteReturns(n, ok)
      PROVE  LeaseInv'
  BY ZenonT(60), <1>31 DEF WriteReturns, NoResult, Result, callers, channels
<1>32. ASSUME NEW ok \in BOOLEAN, FinishReturns(ok)
      PROVE  LeaseInv'
  BY <1>32 DEF FinishReturns, callers, channels, leases, history
<1>33. ASSUME SetDeadline
      PROVE  LeaseInv'
  BY <1>33 DEF SetDeadline, callers, channels, flags, worker, leases, history
<1> HIDE DEF IInv, TypeOK, GateInv, LeaseInv
<1> QED
  BY <1>1, <1>2, <1>3, <1>4, <1>5, <1>6, <1>7, <1>8, <1>9, <1>10,
     <1>11, <1>12, <1>13, <1>14, <1>15, <1>16, <1>17, <1>18, <1>19, <1>20,
     <1>21, <1>22, <1>23, <1>24, <1>25, <1>26, <1>27, <1>28, <1>29, <1>30,
     <1>31, <1>32, <1>33
  DEF Next, CallerStep, CallerBegins, WorkerStep, TransportReturns

\* No write is carried twice.
LEMMA OpsStep == ASSUME IInv, Next PROVE OpsInv'
<1> USE WriterAssumption DEF IInv, TypeOK, GateInv, LeaseInv, OpsInv, Holding,
    Gated, Writing, Ops
<1>1. ASSUME NEW p \in Procs, BeginWrite(p)
      PROVE  OpsInv'
  BY <1>1, SMTT(120) DEF BeginWrite, Go, channels, leases
<1>2. ASSUME NEW p \in Procs, AcquireWrite(p)
      PROVE  OpsInv'
  BY <1>2, SMTT(120) DEF AcquireWrite, Go, flags, worker, leases, history
<1>3. ASSUME NEW p \in Procs, AcquireWriteFails(p)
      PROVE  OpsInv'
  BY <1>3, SMTT(120) DEF AcquireWriteFails, ReturnWrite, Returned, channels,
     flags, worker, leases
<1>4. ASSUME NEW p \in Procs, CheckRefuses(p)
      PROVE  OpsInv'
  BY <1>4, SMTT(120) DEF CheckRefuses, ReturnWrite, Returned, flags, worker,
     leases
<1>5. ASSUME NEW p \in Procs, NEW r \in Requests, Lease(p, r)
      PROVE  OpsInv'
  BY <1>5, SMTT(120) DEF Lease, Go, Pool, channels, flags, worker, history
<1>6. ASSUME NEW p \in Procs, LoopContinues(p)
      PROVE  OpsInv'
  BY ZenonT(60),
     <1>6 DEF LoopContinues, Go, channels, flags, worker, leases, history
<1>7. ASSUME NEW p \in Procs, GiveUp(p)
      PROVE  OpsInv'
  BY <1>7, IInv, ReleasesOps
<1>8. ASSUME NEW p \in Procs, Rewatch(p)
      PROVE  OpsInv'
  BY ZenonT(60), <1>8 DEF Rewatch, Go, channels, flags, worker, leases, history
<1>9. ASSUME NEW p \in Procs, Submit(p)
      PROVE  OpsInv'
  BY <1>9, SMTT(40) DEF Submit, Go, flags, worker, leases
<1>10. ASSUME NEW p \in Procs, AwaitResult(p)
      PROVE  OpsInv'
  BY <1>10, IInv, ReleasesOps
<1>11. ASSUME NEW p \in Procs, AwaitGivesUp(p)
      PROVE  OpsInv'
  BY <1>11, IInv, ReleasesOps
<1>12. ASSUME NEW p \in Procs, BeginCloseWrite(p)
      PROVE  OpsInv'
  BY <1>12, ZenonT(60) DEF BeginCloseWrite, Go, channels, leases, history
<1>13. ASSUME NEW p \in Procs, AcquireClose(p)
      PROVE  OpsInv'
  BY SMTT(60), <1>13 DEF AcquireClose, Go, flags, worker, leases, history
<1>14. ASSUME NEW p \in Procs, AcquireCloseFails(p)
      PROVE  OpsInv'
  BY ZenonT(60),
     <1>14 DEF AcquireCloseFails, Go, channels, flags, worker, leases, history
<1>15. ASSUME NEW p \in Procs, CloseQueue(p)
      PROVE  OpsInv'
  BY ZenonT(60), <1>15 DEF CloseQueue, Go, worker, leases, history
<1>16. ASSUME NEW p \in Procs, CloseWriteReturns(p)
      PROVE  OpsInv'
  BY <1>16, ZenonT(60)
     DEF CloseWriteReturns, Go, channels, flags, worker, leases
<1>17. ASSUME NEW p \in Procs, CloseWriteGivesUp(p)
      PROVE  OpsInv'
  BY <1>17, ZenonT(60)
     DEF CloseWriteGivesUp, Go, channels, flags, worker, leases,
     history
<1>18. ASSUME NEW p \in Procs, BeginClose(p)
      PROVE  OpsInv'
  BY <1>18, ZenonT(60) DEF BeginClose, Go, leases, history
<1>19. ASSUME NEW p \in Procs, CloseReturns(p)
      PROVE  OpsInv'
  BY <1>19, ZenonT(60)
     DEF CloseReturns, Go, channels, flags, worker, leases, history
<1>20. ASSUME WorkerReceive
      PROVE  OpsInv'
  BY <1>20 DEF WorkerReceive, callers, flags, leases, history
<1>21. ASSUME WorkerFinish
      PROVE  OpsInv'
  BY <1>21 DEF WorkerFinish, callers, channels, flags, leases
<1>22. ASSUME WorkerSeesDone
      PROVE  OpsInv'
  BY <1>22 DEF WorkerSeesDone, callers, channels, flags, leases, history
<1>23. ASSUME WorkerAbandons
      PROVE  OpsInv'
  BY <1>23 DEF WorkerAbandons, NoResult, Result, callers, channels,
     flags, history
<1>24. ASSUME WorkerStartsWrite
      PROVE  OpsInv'
  BY <1>24 DEF WorkerStartsWrite, callers, channels, flags, leases,
     history
<1>25. ASSUME WorkerReleases
      PROVE  OpsInv'
  BY <1>25, IInv, ReleasesOps
<1>26. ASSUME CloseStopping
      PROVE  OpsInv'
  BY <1>26 DEF CloseStopping, callers, flags, leases, history
<1>27. ASSUME DrainTakesGate
      PROVE  OpsInv'
  BY <1>27 DEF DrainTakesGate, callers, flags, leases, history
<1>28. ASSUME DrainOne
      PROVE  OpsInv'
  BY <1>28, IInv, ReleasesOps
<1>29. ASSUME DrainReturnsGate
      PROVE  OpsInv'
  BY <1>29 DEF DrainReturnsGate, callers, flags, leases, history
<1>30. ASSUME CloseExited
      PROVE  OpsInv'
  BY <1>30 DEF CloseExited, callers, flags, leases, history
<1>31. ASSUME NEW n \in {None, Some, All}, NEW ok \in BOOLEAN,
                WriteReturns(n, ok)
      PROVE  OpsInv'
  BY <1>31 DEF WriteReturns, NoResult, Result, callers, channels
<1>32. ASSUME NEW ok \in BOOLEAN, FinishReturns(ok)
      PROVE  OpsInv'
  BY <1>32 DEF FinishReturns, callers, channels, leases, history
<1>33. ASSUME SetDeadline
      PROVE  OpsInv'
  BY <1>33 DEF SetDeadline, callers, channels, flags, worker, leases,
     history
<1> HIDE DEF IInv, TypeOK, GateInv, LeaseInv, OpsInv
<1> QED
  BY <1>1, <1>2, <1>3, <1>4, <1>5, <1>6, <1>7, <1>8, <1>9, <1>10,
     <1>11, <1>12, <1>13, <1>14, <1>15, <1>16, <1>17, <1>18, <1>19, <1>20,
     <1>21, <1>22, <1>23, <1>24, <1>25, <1>26, <1>27, <1>28, <1>29, <1>30,
     <1>31, <1>32, <1>33
  DEF Next, CallerStep, CallerBegins, WorkerStep, TransportReturns

-----------------------------------------------------------------------------
(* What callers are told of their writes is what the transport took *)

(* CountInv survives three kinds of steps.                                 *)

\* Steps that touch neither the writes nor what the requests carry.
LEMMA CountKept ==
  ASSUME IInv, UNCHANGED <<nextOp, ret, wire, accepted, data, resCh>>,
         \A q \in Procs : pc'[q] \in Writing =>
           pc[q] \in Writing /\ cur'[q] = cur[q],
         queue' # NoReq => queue' = queue,
         wpc' \in {"check", "writing"} =>
           \/ wpc \in {"check", "writing"} /\ wreq' = wreq
           \/ queue # NoReq /\ wreq' = queue
  PROVE  CountInv'
<1>1. CountInv
  BY DEF IInv
<1>2. \A r : Unwritten(r) => /\ wire'[data'[r]] = None
                             /\ ret'[data'[r]].back =>
                                  ret'[data'[r]].n = All /\ ~ret'[data'[r]].ok
  BY DEF Unwritten
<1>3. (queue # NoReq => Unwritten(queue))'
  BY <1>1, <1>2 DEF CountInv, Unwritten
<1>4. (wpc \in {"check", "writing"} => Unwritten(wreq))'
  BY <1>1, <1>2 DEF CountInv, Unwritten
<1>5. (\A q \in Procs : pc[q] \in Writing => ~ret[cur[q]].back)'
  BY <1>1 DEF CountInv
<1>6. HonestCount'
  BY <1>1 DEF CountInv, HonestCount
<1> QED
  BY <1>1, <1>3, <1>4, <1>5, <1>6 DEF CountInv

\* What is known of a request in the queue or in the worker's hands.
LEMMA Carried ==
  ASSUME IInv
  PROVE  /\ queue # NoReq => queue \in Requests /\ data[queue] \in Ops
         /\ wpc \in {"check", "writing"} => /\ wreq \in Requests /\ wreq # NoReq
                                            /\ data[wreq] \in Ops
  BY DEF IInv, TypeOK, LeaseInv

\* A caller returns (n, ok) and requests may lose their data: n must cover
\* what was written and what may still be.
LEMMA ReturnCount ==
  ASSUME IInv, NEW p \in Procs, pc[p] \in Writing,
         NEW n \in {None, Some, All}, NEW ok \in BOOLEAN, ReturnWrite(p, n, ok),
         UNCHANGED <<queue, worker, nextOp, wire, accepted>>,
         \A s \in Requests : /\ data'[s] \in {0, data[s]}
                             /\ resCh'[s].full => resCh'[s] = resCh[s],
         \A s \in Requests :
           s = queue \/ (wpc \in {"check", "writing"} /\ s = wreq) =>
              data'[s] = data[s] /\ (data[s] = cur[p] => n = All /\ ~ok),
         wire[cur[p]] <= n, ok => wire[cur[p]] = All
  PROVE  CountInv'
<1>1. CountInv /\ cur[p] \in Ops /\ cur[p] < nextOp
  BY SMT DEF IInv, TypeOK, OpsInv, Ops
<1>2. \A o \in Ops : ret'[o] = IF o = cur[p] THEN Returned(n, ok) ELSE ret[o]
  BY <1>1 DEF ReturnWrite, IInv, TypeOK
<1>3. wpc' = wpc /\ wreq' = wreq
  BY DEF worker
<1>4. HonestCount'
  BY SMT, <1>1, <1>2 DEF HonestCount, CountInv, Returned
<1>5. (\A o \in Ops : o >= nextOp => ~ret[o].back)'
  <2>1. nextOp \in Nat /\ \A o \in Ops : o \in Nat
    BY SMT, WriterAssumption DEF IInv, TypeOK, Ops
  <2>2. \A o \in Ops : o >= nextOp => o # cur[p] /\ ~ret[o].back
    BY SMTT(60), <1>1, <2>1 DEF CountInv
  <2> QED
    BY <1>2, <2>2
<1>6. (\A q \in Procs : pc[q] \in Writing => ~ret[cur[q]].back)'
  <2> SUFFICES ASSUME NEW q \in Procs, pc'[q] \in Writing
               PROVE  ~ret'[cur'[q]].back
    OBVIOUS
  <2>1. q # p /\ pc[q] \in Writing /\ cur'[q] = cur[q]
    BY DEF ReturnWrite, IInv, TypeOK, Writing, Holding
  <2>2. cur[q] \in Ops /\ cur[q] # cur[p]
    BY SMTT(60), <1>1, <2>1 DEF IInv, OpsInv, TypeOK, Ops
  <2> QED
    BY SMTT(60), <1>1, <1>2, <2>1, <2>2 DEF CountInv
<1>7. ASSUME NEW s \in Requests, data[s] \in Ops, Unwritten(s),
             s = queue \/ (wpc \in {"check", "writing"} /\ s = wreq)
      PROVE  Unwritten(s)'
  BY SMT, <1>2, <1>7 DEF Unwritten, Returned
<1>8. (queue # NoReq => Unwritten(queue))'
  BY <1>1, <1>7, Carried DEF CountInv
<1>9. (wpc \in {"check", "writing"} => Unwritten(wreq))'
  BY <1>1, <1>3, <1>7, Carried DEF CountInv
<1>10. (\A r \in Requests : resCh[r].full /\ data[r] # 0 =>
         /\ wire[data[r]] = resCh[r].n
         /\ resCh[r].ok => resCh[r].n = All)'
  BY <1>1 DEF CountInv
<1> QED
  BY <1>1, <1>4, <1>5, <1>6, <1>8, <1>9, <1>10 DEF CountInv

\* Requests get results, or lose their data, and nobody returns.
LEMMA ResultCount ==
  ASSUME IInv, UNCHANGED <<pc, cur, nextOp, ret, wire, accepted>>,
         queue' \in {queue, NoReq},
         wpc' \in {"check", "writing"} =>
           wpc \in {"check", "writing"} /\ wreq' = wreq,
         \A s \in Requests : data'[s] \in {0, data[s]},
         \A s \in Requests : resCh'[s].full =>
           \/ resCh'[s] = resCh[s]
           \/ resCh'[s] = Result(None, FALSE) /\ Unwritten(s),
         queue' # NoReq => data'[queue] = data[queue],
         wpc' \in {"check", "writing"} => data'[wreq] = data[wreq]
  PROVE  CountInv'
<1>1. CountInv
  BY DEF IInv
<1>2. (queue # NoReq => Unwritten(queue))'
  BY <1>1 DEF CountInv, Unwritten
<1>3. (wpc \in {"check", "writing"} => Unwritten(wreq))'
  BY <1>1 DEF CountInv, Unwritten
<1>4. (\A r \in Requests : resCh[r].full /\ data[r] # 0 =>
        /\ wire[data[r]] = resCh[r].n
        /\ resCh[r].ok => resCh[r].n = All)'
  BY SMTT(60), <1>1 DEF CountInv, Unwritten, Result
<1> QED
  BY <1>1, <1>2, <1>3, <1>4 DEF CountInv, HonestCount

-----------------------------------------------------------------------------
\* The reports stay honest.
LEMMA CountStep == ASSUME IInv, Next PROVE CountInv'
<1>1. ASSUME NEW p \in Procs, BeginWrite(p)
      PROVE  CountInv'
  <2>1. /\ UNCHANGED <<ret, wire, accepted, data, resCh, queue, wreq>>
        /\ nextOp' = nextOp + 1 /\ nextOp \in Ops
        /\ wpc' = IF started THEN wpc ELSE "select"
    BY SMT, <1>1, WriterAssumption
    DEF BeginWrite, channels, leases, IInv, TypeOK, Ops
  <2>2. \A q \in Procs : /\ q # p => pc'[q] = pc[q] /\ cur'[q] = cur[q]
                         /\ cur'[p] = nextOp
    BY <1>1 DEF BeginWrite, Go, IInv, TypeOK
  <2>3. CountInv
    BY DEF IInv
  <2>4. (\A q \in Procs : pc[q] \in Writing => ~ret[cur[q]].back)'
    BY <2>1, <2>2, <2>3, SMTT(40) DEF CountInv, Ops
  <2>5. (\A o \in Ops : o >= nextOp => ~ret[o].back)'
    BY SMT, <2>1, <2>3, WriterAssumption DEF CountInv, Ops
  <2>6. wpc' \in {"check", "writing"} => wpc \in {"check", "writing"}
    BY <2>1
  <2> QED
    BY <2>1, <2>3, <2>4, <2>5, <2>6 DEF CountInv, Unwritten, HonestCount
<1>2. ASSUME NEW p \in Procs, AcquireWrite(p)
      PROVE  CountInv'
  BY <1>2, CountKept DEF AcquireWrite, Go, flags, worker, leases, history,
      IInv, TypeOK, Writing, Holding
<1>3. ASSUME NEW p \in Procs, AcquireWriteFails(p)
      PROVE  CountInv'
  <2>1. /\ pc[p] \in Writing
        /\ ReturnWrite(p, None, FALSE)
        /\ UNCHANGED <<queue, worker, nextOp, wire, accepted>>
    BY <1>3 DEF AcquireWriteFails, Writing, Holding, channels
  <2>2. /\ data' = data /\ resCh' = resCh /\ wire[cur[p]] = None
        /\ \A s \in Requests : data[s] # cur[p]
    <3>1. cur[p] \in Ops /\ cur[p] \notin accepted
      BY SMT, <1>3 DEF AcquireWriteFails, IInv, TypeOK, OpsInv, Writing, Ops
    <3> QED
      BY <1>3, <3>1 DEF AcquireWriteFails, leases, IInv, CountInv, OpsInv
  <2>3. wire[cur[p]] <= None
    BY SMT, <2>2 DEF None
  <2> QED
    BY <2>1, <2>2, <2>3, ReturnCount
<1>4. ASSUME NEW p \in Procs, CheckRefuses(p)
      PROVE  CountInv'
  <2>1. /\ pc[p] \in Writing
        /\ ReturnWrite(p, None, FALSE)
        /\ UNCHANGED <<queue, worker, nextOp, wire, accepted>>
    BY <1>4 DEF CheckRefuses, Writing, Holding
  <2>2. /\ data' = data /\ resCh' = resCh /\ wire[cur[p]] = None
        /\ \A s \in Requests : data[s] # cur[p]
    <3>1. cur[p] \in Ops /\ cur[p] \notin accepted
      BY SMT, <1>4 DEF CheckRefuses, IInv, TypeOK, OpsInv, Writing, Ops
    <3> QED
      BY <1>4, <3>1 DEF CheckRefuses, leases, IInv, CountInv, OpsInv
  <2>3. wire[cur[p]] <= None
    BY SMT, <2>2 DEF None
  <2> QED
    BY <2>1, <2>2, <2>3, ReturnCount
<1>5. ASSUME NEW p \in Procs, NEW r \in Requests, Lease(p, r)
      PROVE  CountInv'
  <2>1. /\ UNCHANGED <<cur, nextOp, ret, wire, accepted, resCh, queue, worker>>
        /\ pc[p] = "check" /\ refs[r] = 0 /\ data' = [data EXCEPT ![r] = cur[p]]
        /\ pc' = [pc EXCEPT ![p] = "loop"]
    BY <1>5 DEF Lease, Go, Pool, channels, worker, history
  <2>2. CountInv /\ ~resCh[r].full /\ r # queue /\ r # wreq
    BY <1>5, <2>1, WriterAssumption DEF IInv, LeaseInv
  <2>3. /\ wpc' = wpc /\ wreq' = wreq
        /\ \A s \in Requests \ {r} : data'[s] = data[s]
    BY <2>1 DEF worker, IInv, TypeOK
  <2>4. (queue # NoReq => Unwritten(queue))'
    BY <2>1, <2>2, <2>3, Carried, SMTT(40) DEF CountInv, Unwritten
  <2>5. (wpc \in {"check", "writing"} => Unwritten(wreq))'
    BY <2>1, <2>2, <2>3, Carried, SMTT(40) DEF CountInv, Unwritten
  <2>6. (\A q \in Procs : pc[q] \in Writing => ~ret[cur[q]].back)'
    BY <2>1, <2>2 DEF CountInv, Writing, IInv, TypeOK
  <2>7. (\A s \in Requests : resCh[s].full /\ data[s] # 0 =>
          /\ wire[data[s]] = resCh[s].n
          /\ resCh[s].ok => resCh[s].n = All)'
    BY <2>1, <2>2, <2>3 DEF CountInv
  <2> QED
    BY <2>1, <2>2, <2>4, <2>5, <2>6, <2>7 DEF CountInv, HonestCount
<1>6. ASSUME NEW p \in Procs, LoopContinues(p)
      PROVE  CountInv'
  BY <1>6, CountKept DEF LoopContinues, Go, channels, flags, worker, leases,
      history, IInv, TypeOK, Writing, Holding
<1>7. ASSUME NEW p \in Procs, GiveUp(p)
      PROVE  CountInv'
  <2>1. /\ pc[p] \in Writing
        /\ ReturnWrite(p, None, FALSE)
        /\ UNCHANGED <<queue, worker, nextOp, wire, accepted>>
    BY <1>7 DEF GiveUp, Writing, Holding
  <2>2. /\ req[p] \in Requests /\ refs[req[p]] = 2 /\ data[req[p]] = cur[p]
        /\ req[p] # queue /\ req[p] # wreq /\ cur[p] # 0
        /\ wire[cur[p]] = None
    <3>1. /\ pc[p] \in {"loop", "submit"} /\ pc[p] \in Holding
          /\ pc[p] \in Writing \ {"await"}
      BY <1>7 DEF GiveUp, Holding, Writing
    <3>2. cur[p] \in Ops /\ cur[p] \notin accepted
      BY SMTT(60), <3>1 DEF IInv, TypeOK, OpsInv, Ops
    <3> QED
      BY <3>1, <3>2, SMTT(40) DEF IInv, TypeOK, LeaseInv, CountInv, Ops
  <2>3. /\ resCh \in [Requests -> Results] /\ Release(req[p], 2, resCh)
        /\ TypeOK
    BY <1>7 DEF GiveUp, IInv, TypeOK
  <2>4. \A s \in Requests : /\ data'[s] \in {0, data[s]}
                            /\ resCh'[s].full => resCh'[s] = resCh[s]
                            /\ s # req[p] => data'[s] = data[s]
    BY <2>2, <2>3, ReleaseEffect, SMTT(40) DEF NoResult
  <2>5. \A s \in Requests : data[s] = cur[p] => s = req[p]
    BY <2>2 DEF IInv, OpsInv
  <2>6. wire[cur[p]] <= None
    BY SMTT(60), <2>2 DEF None
  <2> QED
    BY <2>1, <2>2, <2>4, <2>5, <2>6, ReturnCount, ZenonT(60)
<1>8. ASSUME NEW p \in Procs, Rewatch(p)
      PROVE  CountInv'
  BY <1>8, CountKept DEF Rewatch, Go, channels, flags, worker, leases,
     history, IInv, TypeOK, Writing, Holding
<1>9. ASSUME NEW p \in Procs, Submit(p)
      PROVE  CountInv'
  <2>1. /\ UNCHANGED <<cur, nextOp, ret, wire, data, resCh, worker>>
        /\ queue' = req[p] /\ accepted' = accepted \cup {cur[p]}
        /\ pc[p] = "submit" /\ pc' = [pc EXCEPT ![p] = "await"]
    BY <1>9 DEF Submit, Go, leases
  <2>2. /\ cur[p] \in Ops /\ wire[cur[p]] = None /\ ~ret[cur[p]].back
        /\ data[req[p]] = cur[p] /\ CountInv
    <3>1. cur[p] \in Ops /\ cur[p] \notin accepted /\ data[req[p]] = cur[p]
      BY <2>1, SMTT(40) DEF IInv, TypeOK, OpsInv, LeaseInv, Writing, Holding,
         Ops
    <3> QED
      BY <2>1, <3>1 DEF IInv, CountInv, Writing, Holding
  <2>3. Unwritten(queue)'
    BY <2>1, <2>2 DEF Unwritten
  <2>4. (wpc \in {"check", "writing"} => Unwritten(wreq))'
    BY <2>1, <2>2 DEF CountInv, Unwritten, worker
  <2>5. (\A q \in Procs : pc[q] \in Writing => ~ret[cur[q]].back)'
    BY ZenonT(60), <2>1, <2>2 DEF CountInv, Writing, Holding, IInv, TypeOK
  <2> QED
    BY <2>1, <2>2, <2>3, <2>4, <2>5 DEF CountInv, HonestCount
<1>10. ASSUME NEW p \in Procs, AwaitResult(p)
      PROVE  CountInv'
  <2>1. /\ pc[p] \in Writing
        /\ ReturnWrite(p, resCh[req[p]].n, resCh[req[p]].ok)
        /\ UNCHANGED <<queue, worker, nextOp, wire, accepted>>
    BY <1>10 DEF AwaitResult, Writing, Holding
  <2>2. /\ req[p] \in Requests /\ refs[req[p]] \in {1, 2}
        /\ data[req[p]] = cur[p] /\ cur[p] \in Ops /\ TypeOK
        /\ req[p] = queue \/ req[p] = wreq => refs[req[p]] = 2
    BY <1>10, SMTT(40) DEF AwaitResult, IInv, TypeOK, LeaseInv, OpsInv, Writing,
       Holding, Ops
  <2> DEFINE ch == [resCh EXCEPT ![req[p]] = NoResult]
  <2>3. /\ ch \in [Requests -> Results] /\ Release(req[p], 1, ch)
        /\ \A s \in Requests : ch[s].full => ch[s] = resCh[s]
    BY <1>10, <2>2
    DEF AwaitResult, TypeOK, Results, NoResult, None, Some, All
  <2> HIDE DEF ch
  <2>4. \A s \in Requests : /\ data'[s] \in {0, data[s]}
                            /\ resCh'[s].full => resCh'[s] = resCh[s]
                            /\ s # req[p] \/ refs[s] = 2 => data'[s] = data[s]
    <3>1. refs[req[p]] >= 1
      BY SMT, <2>2
    <3>2. /\ \A s \in Requests \ {req[p]} :
               data'[s] = data[s] /\ resCh'[s] = ch[s]
          /\ refs'[req[p]] = refs[req[p]] - 1
          /\ IF refs'[req[p]] = 0
             THEN data'[req[p]] = 0 /\ resCh'[req[p]] = NoResult
             ELSE data'[req[p]] = data[req[p]] /\ resCh'[req[p]] = ch[req[p]]
      BY <2>2, <2>3, <3>1, ReleaseEffect, ZenonT(60)
    <3>3. refs'[req[p]] = refs[req[p]] - 1
      BY <3>2
    <3>4. refs[req[p]] = 2 => refs'[req[p]] # 0
      BY SMT, <3>3
    <3>5. ~NoResult.full
      BY DEF NoResult
    <3> QED
      BY ZenonT(60), <2>3, <3>2, <3>4, <3>5
  <2>5. /\ wire[cur[p]] = resCh[req[p]].n
        /\ resCh[req[p]].ok => resCh[req[p]].n = All
        /\ req[p] # queue /\ (wpc \in {"check", "writing"} => req[p] # wreq)
    <3>1. resCh[req[p]].full
      BY <1>10 DEF AwaitResult
    <3>2. data[req[p]] # 0
      BY <2>2, SMTT(40) DEF Ops
    <3> QED
      BY <2>2, <3>1, <3>2, WriterAssumption, ZenonT(60)
      DEF IInv, CountInv, LeaseInv
  <2>6. \A s \in Requests : data[s] = cur[p] => s = req[p]
    <3>1. data[req[p]] # 0
      BY SMTT(60), <2>2 DEF Ops
    <3> QED
      BY <2>2, <3>1 DEF IInv, OpsInv
  <2>7. /\ resCh[req[p]].n \in {None, Some, All} /\ resCh[req[p]].ok \in BOOLEAN
        /\ wire[cur[p]] <= resCh[req[p]].n
    BY SMT, <2>2, <2>5 DEF TypeOK, Results, None, Some, All
  <2> QED
    BY <2>1, <2>2, <2>4, <2>5, <2>6, <2>7, ReturnCount, SMTT(40)
<1>11. ASSUME NEW p \in Procs, AwaitGivesUp(p)
      PROVE  CountInv'
  <2>1. /\ pc[p] \in Writing
        /\ ReturnWrite(p, All, FALSE)
        /\ UNCHANGED <<queue, worker, nextOp, wire, accepted>>
    BY <1>11 DEF AwaitGivesUp, Writing, Holding
  <2>2. /\ req[p] \in Requests /\ refs[req[p]] \in {1, 2}
        /\ data[req[p]] = cur[p] /\ cur[p] \in Ops /\ TypeOK
        /\ req[p] = queue \/ req[p] = wreq => refs[req[p]] = 2
    BY <1>11, SMTT(40) DEF AwaitGivesUp, IInv, TypeOK, LeaseInv, OpsInv,
       Writing, Holding, Ops
  <2>3. resCh \in [Requests -> Results] /\ Release(req[p], 1, resCh)
    BY <1>11, <2>2 DEF AwaitGivesUp, TypeOK
  <2>4. \A s \in Requests : /\ data'[s] \in {0, data[s]}
                            /\ resCh'[s].full => resCh'[s] = resCh[s]
                            /\ s # req[p] \/ refs[s] = 2 => data'[s] = data[s]
    <3>1. refs[req[p]] >= 1
      BY SMT, <2>2
    <3>2. /\ \A s \in Requests \ {req[p]} :
               data'[s] = data[s] /\ resCh'[s] = resCh[s]
          /\ refs'[req[p]] = refs[req[p]] - 1
          /\ IF refs'[req[p]] = 0
             THEN data'[req[p]] = 0 /\ resCh'[req[p]] = NoResult
             ELSE data'[req[p]] = data[req[p]] /\ resCh'[req[p]] = resCh[req[p]]
      BY <2>2, <2>3, <3>1, ReleaseEffect, ZenonT(60)
    <3>3. refs'[req[p]] = refs[req[p]] - 1
      BY <3>2
    <3>4. refs[req[p]] = 2 => refs'[req[p]] # 0
      BY SMT, <3>3
    <3>5. ~NoResult.full
      BY DEF NoResult
    <3> QED
      BY ZenonT(60), <2>3, <3>2, <3>4, <3>5
  <2>5. wire[cur[p]] <= All
    BY SMT, <2>2 DEF TypeOK, None, Some, All
  <2> QED
    BY ZenonT(60), <2>1, <2>2, <2>4, <2>5, ReturnCount
<1>12. ASSUME NEW p \in Procs, BeginCloseWrite(p)
      PROVE  CountInv'
  BY <1>12, CountKept DEF BeginCloseWrite, Go, channels, leases, history,
     IInv, TypeOK, Writing, Holding
<1>13. ASSUME NEW p \in Procs, AcquireClose(p)
      PROVE  CountInv'
  BY <1>13, CountKept DEF AcquireClose, Go, flags, worker, leases, history,
      IInv, TypeOK, Writing, Holding
<1>14. ASSUME NEW p \in Procs, AcquireCloseFails(p)
      PROVE  CountInv'
  BY <1>14, CountKept DEF AcquireCloseFails, Go, channels, flags, worker,
      leases, history, IInv, TypeOK, Writing, Holding
<1>15. ASSUME NEW p \in Procs, CloseQueue(p)
      PROVE  CountInv'
  BY <1>15, CountKept DEF CloseQueue, Go, worker, leases, history, IInv,
      TypeOK, Writing, Holding
<1>16. ASSUME NEW p \in Procs, CloseWriteReturns(p)
      PROVE  CountInv'
  BY <1>16, CountKept DEF CloseWriteReturns, Go, channels, flags, worker,
      leases, IInv, TypeOK, Writing, Holding
<1>17. ASSUME NEW p \in Procs, CloseWriteGivesUp(p)
      PROVE  CountInv'
  BY <1>17, CountKept DEF CloseWriteGivesUp, Go, channels, flags, worker,
      leases, history, IInv, TypeOK, Writing, Holding
<1>18. ASSUME NEW p \in Procs, BeginClose(p)
      PROVE  CountInv'
  BY <1>18, CountKept DEF BeginClose, Go, leases, history, IInv, TypeOK,
      Writing, Holding
<1>19. ASSUME NEW p \in Procs, CloseReturns(p)
      PROVE  CountInv'
  BY <1>19, CountKept DEF CloseReturns, Go, channels, flags, worker, leases,
      history, IInv, TypeOK, Writing, Holding
<1>20. ASSUME WorkerReceive
      PROVE  CountInv'
  BY <1>20, CountKept DEF WorkerReceive, callers, flags, leases, history, IInv,
      TypeOK, Writing, Holding
<1>21. ASSUME WorkerFinish
      PROVE  CountInv'
  BY <1>21, CountKept DEF WorkerFinish, callers, channels, flags, leases,
     IInv, TypeOK, Writing, Holding
<1>22. ASSUME WorkerSeesDone
      PROVE  CountInv'
  BY <1>22, CountKept DEF WorkerSeesDone, callers, channels, flags,
     leases, history, IInv, TypeOK, Writing, Holding
<1>23. ASSUME WorkerAbandons
      PROVE  CountInv'
  <2>1. /\ UNCHANGED <<pc, cur, nextOp, ret, wire, accepted, queue, data>>
        /\ wpc = "check" /\ wpc' = "releaseStop"
        /\ resCh' = [resCh EXCEPT ![wreq] = Result(None, FALSE)]
    BY <1>23 DEF WorkerAbandons, callers, channels, history
  <2>2. wreq \in Requests /\ Unwritten(wreq) /\ resCh \in [Requests -> Results]
    BY <2>1, Carried DEF IInv, CountInv, TypeOK
  <2> QED
    BY <2>1, <2>2, ResultCount
<1>24. ASSUME WorkerStartsWrite
      PROVE  CountInv'
  BY <1>24, CountKept DEF WorkerStartsWrite, callers, channels, flags, leases,
      history, IInv, TypeOK, Writing, Holding
<1>25. ASSUME WorkerReleases
      PROVE  CountInv'
  <2>1. /\ UNCHANGED <<pc, cur, nextOp, ret, wire, accepted, queue>>
        /\ wpc' \in {"select", "stop"}
    BY <1>25 DEF WorkerReleases, callers, channels, history
  <2>2. /\ wreq \in Requests /\ wreq # queue /\ refs[wreq] >= 1
        /\ TypeOK /\ resCh \in [Requests -> Results] /\ Release(wreq, 1, resCh)
    BY <1>25, SMTT(40) DEF WorkerReleases, IInv, TypeOK, LeaseInv
  <2>3. \A s \in Requests : /\ data'[s] \in {0, data[s]}
                            /\ resCh'[s].full => resCh'[s] = resCh[s]
                            /\ s # wreq => data'[s] = data[s]
    <3>1. /\ \A s \in Requests \ {wreq} :
               data'[s] = data[s] /\ resCh'[s] = resCh[s]
          /\ IF refs'[wreq] = 0 THEN data'[wreq] = 0 /\ resCh'[wreq] = NoResult
             ELSE data'[wreq] = data[wreq] /\ resCh'[wreq] = resCh[wreq]
      BY <2>2, ReleaseEffect
    <3>2. ~NoResult.full
      BY DEF NoResult
    <3> QED
      BY <3>1, <3>2
  <2> QED
    BY <2>1, <2>2, <2>3, ResultCount, Carried
<1>26. ASSUME CloseStopping
      PROVE  CountInv'
  BY <1>26, CountKept DEF CloseStopping, callers, flags, leases, history, IInv,
      TypeOK, Writing, Holding
<1>27. ASSUME DrainTakesGate
      PROVE  CountInv'
  BY <1>27, CountKept DEF DrainTakesGate, callers, flags, leases, history,
      IInv, TypeOK, Writing, Holding
<1>28. ASSUME DrainOne
      PROVE  CountInv'
  <2>1. /\ UNCHANGED <<pc, cur, nextOp, ret, wire, accepted, wpc, wreq>>
        /\ wpc = "drain" /\ queue' = NoReq /\ queue # NoReq
    BY <1>28 DEF DrainOne, callers, worker, history
  <2> DEFINE ch == [resCh EXCEPT ![queue] = Result(None, FALSE)]
  <2>2. /\ queue \in Requests /\ refs[queue] >= 1 /\ TypeOK
        /\ ch \in [Requests -> Results] /\ Release(queue, 1, ch)
        /\ Unwritten(queue) /\ ch[queue] = Result(None, FALSE)
        /\ \A s \in Requests \ {queue} : ch[s] = resCh[s]
    <3>1. queue \in Requests /\ refs[queue] >= 1 /\ TypeOK /\ Unwritten(queue)
      <4>1. TypeOK /\ queue \in Requests /\ refs[queue] # 0
        BY <2>1 DEF IInv, TypeOK, LeaseInv
      <4>2. refs[queue] >= 1
        BY SMT, <4>1 DEF TypeOK
      <4> QED
        BY <2>1, <4>1, <4>2 DEF IInv, CountInv
    <3>2. ch \in [Requests -> Results] /\ ch[queue] = Result(None, FALSE)
      BY <3>1 DEF TypeOK, Result, Results, None, Some, All
    <3> QED
      BY <1>28, <3>1, <3>2 DEF DrainOne, TypeOK
  <2> HIDE DEF ch
  <2>3. /\ \A s \in Requests \ {queue} : data'[s] = data[s] /\ resCh'[s] = ch[s]
        /\ IF refs'[queue] = 0 THEN data'[queue] = 0 /\ resCh'[queue] = NoResult
           ELSE data'[queue] = data[queue] /\ resCh'[queue] = ch[queue]
    BY <2>2, ReleaseEffect
  <2>4. \A s \in Requests : /\ data'[s] \in {0, data[s]}
                            /\ resCh'[s].full =>
                                 \/ resCh'[s] = resCh[s]
                                 \/ /\ resCh'[s] = Result(None, FALSE)
                                    /\ Unwritten(s)
    <3>1. ~NoResult.full
      BY DEF NoResult
    <3> QED
      BY <2>2, <2>3, <3>1
  <2> QED
    BY <2>1, <2>4, ResultCount
<1>29. ASSUME DrainReturnsGate
      PROVE  CountInv'
  BY <1>29, CountKept DEF DrainReturnsGate, callers, flags, leases, history,
      IInv, TypeOK, Writing, Holding
<1>30. ASSUME CloseExited
      PROVE  CountInv'
  BY <1>30, CountKept DEF CloseExited, callers, flags, leases, history, IInv,
      TypeOK, Writing, Holding
<1>31. ASSUME NEW n \in {None, Some, All}, NEW ok \in BOOLEAN,
                WriteReturns(n, ok)
      PROVE  CountInv'
  <2>1. /\ UNCHANGED <<pc, cur, nextOp, ret, accepted, queue, data, wreq>>
        /\ wpc = "writing" /\ wpc' \in {"release", "releaseStop"}
        /\ ok => n = All
        /\ resCh' = [resCh EXCEPT ![wreq] = Result(n, ok)]
        /\ wire' = [wire EXCEPT ![data[wreq]] = n]
    BY <1>31 DEF WriteReturns, callers, channels
  <2>2. /\ wreq \in Requests /\ data[wreq] \in Ops /\ Unwritten(wreq)
        /\ CountInv /\ data[wreq] \in accepted /\ queue # wreq
    BY <2>1, Carried DEF IInv, CountInv, LeaseInv
  <2>3. \A o \in Ops : wire'[o] = IF o = data[wreq] THEN n ELSE wire[o]
    BY <2>1, <2>2 DEF IInv, TypeOK
  <2>4. \A s \in Requests :
          resCh'[s] = IF s = wreq THEN Result(n, ok) ELSE resCh[s]
    BY <2>1, <2>2 DEF IInv, TypeOK
  <2>5. \A s \in Requests : s # wreq => data[s] # data[wreq]
    BY <2>2, SMTT(40) DEF IInv, OpsInv, Ops
  <2>6. HonestCount'
    BY <1>31, <2>1, <2>2, <2>3, SMTT(40)
    DEF HonestCount, CountInv, Unwritten, None, Some, All
  <2>7. (queue # NoReq => Unwritten(queue))'
    BY ZenonT(60), <2>1, <2>2, <2>3, <2>5, Carried DEF CountInv, Unwritten
  <2>8. (\A r \in Requests : resCh[r].full /\ data[r] # 0 =>
          /\ wire[data[r]] = resCh[r].n
          /\ resCh[r].ok => resCh[r].n = All)'
    <3>1. \A s \in Requests : data[s] # 0 => data[s] \in Ops
      BY SMT DEF IInv, TypeOK, Ops
    <3>2. /\ wire'[data[wreq]] = n /\ resCh'[wreq].n = n
          /\ resCh'[wreq].ok => n = All
      BY SMT, <2>1, <2>2, <2>3, <2>4 DEF Result
    <3>3. \A s \in Requests \ {wreq} : data[s] # 0 =>
            wire'[data[s]] = wire[data[s]] /\ resCh'[s] = resCh[s]
      BY <2>3, <2>4, <2>5, <3>1
    <3> QED
      BY <2>1, <2>2, <3>2, <3>3, SMTT(40) DEF CountInv
  <2>9. (\A o \in Ops : o \notin accepted => wire[o] = None)'
    BY <2>1, <2>2, <2>3 DEF CountInv
  <2> QED
    BY <2>1, <2>2, <2>6, <2>7, <2>8, <2>9 DEF CountInv
<1>32. ASSUME NEW ok \in BOOLEAN, FinishReturns(ok)
      PROVE  CountInv'
  BY <1>32, CountKept DEF FinishReturns, callers, channels, leases, history,
      IInv, TypeOK, Writing, Holding
<1>33. ASSUME SetDeadline
      PROVE  CountInv'
  BY <1>33, CountKept DEF SetDeadline, callers, channels, flags, worker,
      leases, history, IInv, TypeOK, Writing, Holding
<1> QED
  BY <1>1, <1>2, <1>3, <1>4, <1>5, <1>6, <1>7, <1>8, <1>9, <1>10,
     <1>11, <1>12, <1>13, <1>14, <1>15, <1>16, <1>17, <1>18, <1>19, <1>20,
     <1>21, <1>22, <1>23, <1>24, <1>25, <1>26, <1>27, <1>28, <1>29, <1>30,
     <1>31, <1>32, <1>33
  DEF Next, CallerStep, CallerBegins, WorkerStep, TransportReturns

-----------------------------------------------------------------------------
(* The half-close, and the theorems *)

\* CloseInv only looks at what the queue and the worker hold.
LEMMA CloseKept ==
  ASSUME IInv, UNCHANGED <<worker, queue, accepted, wire, finished, fin, err>>,
         done => done', halfClosed' => halfClosed,
         queue # NoReq => data'[queue] = data[queue],
         wpc \in {"check", "writing"} => data'[wreq] = data[wreq]
  PROVE  CloseInv'
<1>1. CloseInv /\ wpc' = wpc /\ wreq' = wreq
  BY DEF IInv, worker
<1> QED
  BY <1>1 DEF CloseInv

\* Releasing a reference leaves the data of carried requests alone.
LEMMA ReleasesCarried ==
  ASSUME IInv,
         \/ \E p \in Procs : GiveUp(p) \/ AwaitResult(p) \/ AwaitGivesUp(p)
         \/ WorkerReleases
  PROVE  /\ queue # NoReq => data'[queue] = data[queue]
         /\ wpc \in {"check", "writing"} => data'[wreq] = data[wreq]
<1>1. ASSUME NEW p \in Procs, GiveUp(p) \/ AwaitResult(p) \/ AwaitGivesUp(p)
      PROVE  /\ queue # NoReq => data'[queue] = data[queue]
             /\ wpc \in {"check", "writing"} => data'[wreq] = data[wreq]
  <2>1. pc[p] \in Holding /\ (GiveUp(p) => pc[p] \in {"loop", "submit"})
        /\ (~GiveUp(p) => pc[p] = "await")
    BY <1>1 DEF GiveUp, AwaitResult, AwaitGivesUp, Holding
  <2>2. \/ refs[req[p]] = 2 /\ req[p] # queue /\ req[p] # wreq
        \/ ~GiveUp(p) /\ (req[p] \in {queue, wreq} => refs[req[p]] = 2)
    BY <2>1 DEF IInv, LeaseInv
  <2>3. \/ data' = data
        \/ /\ data' = [data EXCEPT ![req[p]] = 0]
           /\ refs[req[p]] = 1 \/ GiveUp(p)
    BY <1>1 DEF GiveUp, AwaitResult, AwaitGivesUp, Release
  <2> QED
    BY SMT, <2>2, <2>3, Carried DEF IInv, TypeOK
<1>2. CASE WorkerReleases
  BY <1>2, Carried DEF WorkerReleases, Release, IInv, TypeOK, LeaseInv
<1> QED
  BY <1>1, <1>2

-----------------------------------------------------------------------------
\* A half-close covers what was accepted.
LEMMA CloseStep == ASSUME IInv, Next PROVE CloseInv'
<1>1. ASSUME NEW p \in Procs, BeginWrite(p)
      PROVE  CloseInv'
  BY <1>1 DEF BeginWrite, Go, channels, leases, IInv, CloseInv, StopInv,
      Stopped
<1>2. ASSUME NEW p \in Procs, AcquireWrite(p)
      PROVE  CloseInv'
  BY <1>2, CloseKept DEF AcquireWrite, Go, flags, worker, leases, history
<1>3. ASSUME NEW p \in Procs, AcquireWriteFails(p)
      PROVE  CloseInv'
  BY <1>3, CloseKept DEF AcquireWriteFails, ReturnWrite, Returned, channels,
      flags, worker, leases
<1>4. ASSUME NEW p \in Procs, CheckRefuses(p)
      PROVE  CloseInv'
  BY <1>4, CloseKept DEF CheckRefuses, ReturnWrite, Returned, flags, worker,
      leases
<1>5. ASSUME NEW p \in Procs, NEW r \in Requests, Lease(p, r)
      PROVE  CloseInv'
  <2>1. UNCHANGED <<worker, queue, accepted, wire, finished, fin, err, done,
                    halfClosed>>
    BY <1>5 DEF Lease, channels, flags, history
  <2>2. r # queue /\ r # wreq /\ data' = [data EXCEPT ![r] = cur[p]]
    BY <1>5, WriterAssumption DEF Lease, Pool, IInv, LeaseInv
  <2> QED
    BY <2>1, <2>2, Carried, CloseKept DEF IInv, TypeOK
<1>6. ASSUME NEW p \in Procs, LoopContinues(p)
      PROVE  CloseInv'
  BY <1>6, CloseKept DEF LoopContinues, Go, channels, flags, worker, leases,
      history
<1>7. ASSUME NEW p \in Procs, GiveUp(p)
      PROVE  CloseInv'
  <2>1. UNCHANGED <<worker, queue, accepted, wire, finished, fin, err, done,
                    halfClosed>>
    BY <1>7 DEF GiveUp, flags
  <2>2. /\ queue # NoReq => data'[queue] = data[queue]
        /\ wpc \in {"check", "writing"} => data'[wreq] = data[wreq]
    BY <1>7, ReleasesCarried
  <2> QED
    BY <2>1, <2>2, CloseKept
<1>8. ASSUME NEW p \in Procs, Rewatch(p)
      PROVE  CloseInv'
  BY <1>8, CloseKept DEF Rewatch, Go, channels, flags, worker, leases, history
<1>9. ASSUME NEW p \in Procs, Submit(p)
      PROVE  CloseInv'
  <2>1. /\ UNCHANGED <<worker, wire, finished, fin, err, done, data>>
        /\ UNCHANGED halfClosed
        /\ queue' = req[p] /\ accepted' = accepted \cup {cur[p]}
        /\ queue = NoReq /\ pc[p] = "submit"
    BY <1>9 DEF Submit, flags, worker, leases
  <2>2. ~fin /\ data[req[p]] = cur[p] /\ req[p] # NoReq
    BY <2>1 DEF IInv, StopInv, LeaseInv, Holding
  <2> QED
    BY <2>1, <2>2 DEF IInv, CloseInv, worker, Stopped
<1>10. ASSUME NEW p \in Procs, AwaitResult(p)
      PROVE  CloseInv'
  <2>1. UNCHANGED <<worker, queue, accepted, wire, finished, fin, err, done,
                    halfClosed>>
    BY <1>10 DEF AwaitResult, flags
  <2>2. /\ queue # NoReq => data'[queue] = data[queue]
        /\ wpc \in {"check", "writing"} => data'[wreq] = data[wreq]
    BY <1>10, ReleasesCarried
  <2> QED
    BY <2>1, <2>2, CloseKept
<1>11. ASSUME NEW p \in Procs, AwaitGivesUp(p)
      PROVE  CloseInv'
  <2>1. UNCHANGED <<worker, queue, accepted, wire, finished, fin, err, done,
                    halfClosed>>
    BY <1>11 DEF AwaitGivesUp, flags
  <2>2. /\ queue # NoReq => data'[queue] = data[queue]
        /\ wpc \in {"check", "writing"} => data'[wreq] = data[wreq]
    BY <1>11, ReleasesCarried
  <2> QED
    BY <2>1, <2>2, CloseKept
<1>12. ASSUME NEW p \in Procs, BeginCloseWrite(p)
      PROVE  CloseInv'
  BY <1>12 DEF BeginCloseWrite, Go, channels, leases, history, IInv, CloseInv,
      StopInv, Stopped
<1>13. ASSUME NEW p \in Procs, AcquireClose(p)
      PROVE  CloseInv'
  BY <1>13, CloseKept DEF AcquireClose, Go, flags, worker, leases, history
<1>14. ASSUME NEW p \in Procs, AcquireCloseFails(p)
      PROVE  CloseInv'
  BY <1>14, CloseKept DEF AcquireCloseFails, Go, channels, flags, worker,
      leases, history
<1>15. ASSUME NEW p \in Procs, CloseQueue(p)
      PROVE  CloseInv'
  BY <1>15 DEF CloseQueue, Go, worker, leases, history, IInv, CloseInv,
      StopInv, Stopped
<1>16. ASSUME NEW p \in Procs, CloseWriteReturns(p)
      PROVE  CloseInv'
  BY <1>16 DEF CloseWriteReturns, Go, channels, flags, worker, leases,
     IInv, CloseInv, StopInv, Stopped
<1>17. ASSUME NEW p \in Procs, CloseWriteGivesUp(p)
      PROVE  CloseInv'
  BY <1>17, CloseKept DEF CloseWriteGivesUp, Go, channels, flags, worker,
      leases, history
<1>18. ASSUME NEW p \in Procs, BeginClose(p)
      PROVE  CloseInv'
  BY <1>18 DEF BeginClose, Go, leases, history, IInv, CloseInv, StopInv,
      Stopped
<1>19. ASSUME NEW p \in Procs, CloseReturns(p)
      PROVE  CloseInv'
  BY <1>19, CloseKept DEF CloseReturns, Go, channels, flags, worker, leases,
      history
<1>20. ASSUME WorkerReceive
      PROVE  CloseInv'
  BY <1>20 DEF WorkerReceive, callers, flags, leases, history, IInv,
     CloseInv, StopInv, Stopped, LeaseInv
<1>21. ASSUME WorkerFinish
      PROVE  CloseInv'
  BY <1>21 DEF WorkerFinish, callers, channels, flags, leases, IInv,
     CloseInv, StopInv, Stopped, LeaseInv
<1>22. ASSUME WorkerSeesDone
      PROVE  CloseInv'
  BY <1>22 DEF WorkerSeesDone, callers, channels, flags, leases, history,
     IInv, CloseInv, StopInv, Stopped
<1>23. ASSUME WorkerAbandons
      PROVE  CloseInv'
  BY <1>23 DEF WorkerAbandons, NoResult, Result, callers, channels,
     flags, history, IInv, CloseInv, StopInv, Stopped, LeaseInv
<1>24. ASSUME WorkerStartsWrite
      PROVE  CloseInv'
  BY <1>24 DEF WorkerStartsWrite, callers, channels, flags, leases,
     history, IInv, CloseInv, StopInv, Stopped, LeaseInv
<1>25. ASSUME WorkerReleases
      PROVE  CloseInv'
  <2>1. /\ UNCHANGED <<queue, accepted, wire, finished, fin, err, done>>
        /\ UNCHANGED halfClosed
        /\ wpc' = IF wpc = "release" THEN "select" ELSE "stop"
        /\ wpc \in {"release", "releaseStop"}
    BY <1>25 DEF WorkerReleases, channels, flags, history
  <2>2. queue # NoReq => data'[queue] = data[queue]
    BY <1>25, ReleasesCarried
  <2> QED
    BY <2>1, <2>2 DEF IInv, CloseInv, Stopped
<1>26. ASSUME CloseStopping
      PROVE  CloseInv'
  BY <1>26 DEF CloseStopping, callers, flags, leases, history, IInv, CloseInv,
      StopInv, Stopped
<1>27. ASSUME DrainTakesGate
      PROVE  CloseInv'
  BY <1>27 DEF DrainTakesGate, callers, flags, leases, history, IInv, CloseInv,
      StopInv, Stopped
<1>28. ASSUME DrainOne
      PROVE  CloseInv'
  <2>1. /\ UNCHANGED <<worker, accepted, wire, finished, fin, err, done,
                       halfClosed>>
        /\ wpc = "drain" /\ queue' = NoReq
    BY <1>28 DEF DrainOne, flags, history
  <2> QED
    BY <2>1 DEF IInv, CloseInv, Stopped, worker
<1>29. ASSUME DrainReturnsGate
      PROVE  CloseInv'
  BY <1>29 DEF DrainReturnsGate, callers, flags, leases, history, IInv,
      CloseInv, StopInv, Stopped
<1>30. ASSUME CloseExited
      PROVE  CloseInv'
  BY <1>30 DEF CloseExited, callers, flags, leases, history, IInv,
     CloseInv, StopInv, Stopped
<1>31. ASSUME NEW n \in {None, Some, All}, NEW ok \in BOOLEAN,
                WriteReturns(n, ok)
      PROVE  CloseInv'
  <2>1. /\ UNCHANGED <<accepted, queue, data, wreq, fin, done>>
        /\ UNCHANGED <<finished, halfClosed>>
        /\ wpc = "writing" /\ wpc' \in {"release", "releaseStop"}
        /\ wpc' = "release" => n = All
        /\ wpc' = "release" /\ ~err => ~err'
        /\ wpc' = "releaseStop" => err'
        /\ wire' = [wire EXCEPT ![data[wreq]] = n]
    BY <1>31 DEF WriteReturns, channels
  <2>2. wreq \in Requests /\ data[wreq] \in Ops /\ ~err /\ ~finished
    BY <2>1, Carried DEF IInv, CloseInv, Stopped
  <2>3. \A o \in Ops : wire'[o] = IF o = data[wreq] THEN n ELSE wire[o]
    BY <2>1, <2>2 DEF IInv, TypeOK
  <2>4. wpc' = "release" =>
          \A o \in accepted : \/ wire'[o] = All
                              \/ queue # NoReq /\ o = data[queue]
    BY <2>1, <2>2, <2>3 DEF IInv, CloseInv, TypeOK
  <2> QED
    BY <2>1, <2>2, <2>4 DEF IInv, CloseInv, Stopped
<1>32. ASSUME NEW ok \in BOOLEAN, FinishReturns(ok)
      PROVE  CloseInv'
  BY <1>32 DEF FinishReturns, callers, channels, leases, history, IInv,
      CloseInv, StopInv, Stopped
<1>33. ASSUME SetDeadline
      PROVE  CloseInv'
  BY <1>33 DEF SetDeadline, callers, channels, flags, worker, leases,
     history, IInv, CloseInv, StopInv, Stopped
<1> QED
  BY <1>1, <1>2, <1>3, <1>4, <1>5, <1>6, <1>7, <1>8, <1>9, <1>10,
     <1>11, <1>12, <1>13, <1>14, <1>15, <1>16, <1>17, <1>18, <1>19, <1>20,
     <1>21, <1>22, <1>23, <1>24, <1>25, <1>26, <1>27, <1>28, <1>29, <1>30,
     <1>31, <1>32, <1>33
  DEF Next, CallerStep, CallerBegins, WorkerStep, TransportReturns

-----------------------------------------------------------------------------
\* Before the first call nothing is leased, queued or written.
LEMMA InitInv == Init => IInv
<1> SUFFICES ASSUME Init PROVE IInv
  OBVIOUS
<1> USE WriterAssumption DEF Init
<1>1. TypeOK
  <2>1. NoResult \in Results /\ Pending \in Returns
    BY DEF NoResult, Results, Pending, Returns, None, Some, All
  <2>2. /\ pc \in [Procs -> CallerPC] /\ cur \in [Procs -> 0..MaxOps]
        /\ req \in [Procs -> Requests \cup {NoReq}]
    BY SMT DEF CallerPC
  <2>3. /\ refs \in [Requests -> 0..2] /\ data \in [Requests -> 0..MaxOps]
        /\ resCh \in [Requests -> Results]
    BY SMT, <2>1
  <2>4. /\ nextOp \in 1..(MaxOps + 1) /\ accepted \subseteq Ops
        /\ wire \in [Ops -> {None, Some, All}] /\ ret \in [Ops -> Returns]
    BY SMT, <2>1
  <2> QED
    BY <2>2, <2>3, <2>4 DEF TypeOK
<1>2. GateInv
  BY DEF GateInv, Gated
<1>3. LeaseInv
  BY DEF LeaseInv, Holding, NoResult
<1>4. StopInv
  BY DEF StopInv, Stopped
<1>5. OpsInv
  BY SMT DEF OpsInv, Writing, Holding
<1>6. CountInv
  BY DEF CountInv, HonestCount, Writing, Holding, Pending, NoResult
<1>7. CloseInv
  BY DEF CloseInv, Stopped
<1> QED
  BY <1>1, <1>2, <1>3, <1>4, <1>5, <1>6, <1>7 DEF IInv

\* A step that changes nothing keeps the invariant.
LEMMA StutterInv == IInv /\ UNCHANGED vars => IInv'
<1> SUFFICES ASSUME IInv, UNCHANGED vars PROVE IInv'
  OBVIOUS
<1> USE DEF vars, IInv
<1>1. TypeOK'
  <2>1. TypeOK
    OBVIOUS
  <2> HIDE DEF IInv
  <2> QED
    BY SMT, <2>1 DEF TypeOK
<1>2. GateInv' /\ StopInv'
  BY DEF GateInv, StopInv
<1>3. LeaseInv'
  BY DEF LeaseInv
<1>4. OpsInv'
  BY DEF OpsInv
<1>5. CountInv'
  BY DEF CountInv, Unwritten, HonestCount
<1>6. CloseInv'
  BY DEF CloseInv
<1> QED
  BY <1>1, <1>2, <1>3, <1>4, <1>5, <1>6

\* The inductive invariant of the Writer: it holds in every reachable state.
THEOREM WriterInvariant == Spec => []IInv
<1>1. IInv /\ [Next]_vars => IInv'
  BY StutterInv, TypeStep, GateStep, LeaseStep, StopStep, OpsStep, CountStep,
     CloseStep DEF IInv
<1> QED
  BY InitInv, <1>1, PTL DEF Spec

\* Every variable has its type, for any number of callers, requests and writes.
THEOREM WriterTypes == Spec => []TypeOK
BY WriterInvariant, PTL DEF IInv

\* A pooled request is never in use and a result channel always has room.
THEOREM WriterLeases == Spec => []LeasesIntact
<1>1. IInv => LeasesIntact
  <2> SUFFICES ASSUME IInv PROVE LeasesIntact
    OBVIOUS
  <2> USE DEF IInv, TypeOK, LeaseInv
  <2>1. \A p \in Procs : pc[p] \in Holding =>
          req[p] \notin Pool /\ data[req[p]] = cur[p]
    BY DEF Pool
  <2>2. \A r \in {queue, wreq} \ {NoReq} : r \notin Pool /\ data[r] \in accepted
    BY SMTT(60) DEF Pool
  <2> QED
    BY <2>1, <2>2 DEF LeasesIntact, Pool
<1> QED
  BY <1>1, WriterInvariant, PTL

\* Nobody sends on a closed queue, and nothing is queued once exited is closed.
THEOREM WriterQueue == Spec => []QueueDiscipline
<1>1. IInv => QueueDiscipline
  BY SMT DEF IInv, TypeOK, LeaseInv, StopInv, QueueDiscipline
<1> QED
  BY <1>1, WriterInvariant, PTL

\* WritePacket never reports fewer bytes than the transport takes.
THEOREM WriterCounts == Spec => []HonestCount
<1>1. IInv => HonestCount
  BY DEF IInv, CountInv
<1> QED
  BY <1>1, WriterInvariant, PTL

\* A successful CloseWrite means that every accepted write was written.
THEOREM WriterHalfClose == Spec => []HalfCloseComplete
<1>1. IInv => HalfCloseComplete
  BY DEF IInv, CloseInv, HalfCloseComplete
<1> QED
  BY <1>1, WriterInvariant, PTL
=============================================================================
