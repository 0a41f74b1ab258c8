---------------------------- MODULE ConnioWriter ----------------------------
(***************************************************************************)
(* pkg/connio/deadline.go, type Writer: a blocking transport write turned  *)
(* into one with recoverable deadlines.  Callers take a one-token gate,    *)
(* lease a pooled request, put it on a one-slot queue and wait; a single   *)
(* worker goroutine performs the transport writes.  A request is shared by *)
(* its caller and the worker, each holding one of its two references, and  *)
(* goes back to the pool when both have let go.                            *)
(*                                                                         *)
(* A byte count is abstracted to none (0), some (1) or all (2) of a write. *)
(***************************************************************************)
EXTENDS Naturals, FiniteSets

CONSTANTS Procs,     \* goroutines that call WritePacket, CloseWrite and Close
          Requests,  \* writeRequest objects the pool can hand out
          NoReq,     \* no request
          MaxOps     \* bound: WritePacket calls in a behaviour

ASSUME WriterAssumption ==
  /\ MaxOps \in Nat
  /\ NoReq \notin Requests

Ops == 1..MaxOps
None == 0
Some == 1
All == 2

VARIABLES
  pc,        \* where each caller is
  cur,       \* the write a caller is performing (0: none)
  req,       \* the request a caller holds a reference to
  gate,      \* the gate channel holds its token
  queue,     \* the request in the one-slot queue channel
  qclosed,   \* the queue channel is closed
  done, stopping, exited,     \* the channels of those names are closed
  err, fin,  \* w.err # nil, w.fin
  started,   \* start's Once has run
  wpc,       \* where the worker goroutine is
  wreq,      \* the request the worker holds a reference to
  refs,      \* reference count of each request
  data,      \* the write whose bytes a request carries (0: nil)
  resCh,     \* what each request's one-slot result channel holds
  expired,   \* the current deadline lies in the past
  nextOp,    \* the next write to be issued
  wire,      \* how much of each write the transport took
  ret,       \* what WritePacket returned for each write
  accepted,  \* writes that entered the queue
  finished,  \* w.finish has been called
  halfClosed \* some CloseWrite returned nil while done was open

vars == <<pc, cur, req, gate, queue, qclosed, done, stopping, exited, err, fin,
          started, wpc, wreq, refs, data, resCh, expired, nextOp, wire, ret,
          accepted, finished, halfClosed>>

callers  == <<pc, cur, req>>
channels == <<gate, queue, qclosed, done, stopping, exited>>
flags    == <<err, fin, started>>
worker   == <<wpc, wreq>>
leases   == <<refs, data, resCh>>
history  == <<nextOp, wire, ret, accepted, finished, halfClosed>>

NoResult == [n |-> None, ok |-> FALSE, full |-> FALSE]
Result(n, ok) == [n |-> n, ok |-> ok, full |-> TRUE]
Pending == [n |-> None, ok |-> FALSE, back |-> FALSE]
Returned(n, ok) == [n |-> n, ok |-> ok, back |-> TRUE]

\* A request is in writeRequestPool exactly when nobody holds a reference.
\* Those in the pool are alike, so it does not matter which one Get returns.
Pool == {r \in Requests : refs[r] = 0}
Get == CHOOSE r \in Pool : TRUE

Init ==
  /\ pc = [p \in Procs |-> "idle"]
  /\ cur = [p \in Procs |-> 0]
  /\ req = [p \in Procs |-> NoReq]
  /\ gate = TRUE /\ queue = NoReq /\ qclosed = FALSE
  /\ done = FALSE /\ stopping = FALSE /\ exited = FALSE
  /\ err = FALSE /\ fin = FALSE /\ started = FALSE
  /\ wpc = "off" /\ wreq = NoReq
  /\ refs = [r \in Requests |-> 0]
  /\ data = [r \in Requests |-> 0]
  /\ resCh = [r \in Requests |-> NoResult]
  /\ expired = FALSE
  /\ nextOp = 1
  /\ wire = [o \in Ops |-> None]
  /\ ret = [o \in Ops |-> Pending]
  /\ accepted = {} /\ finished = FALSE /\ halfClosed = FALSE

-----------------------------------------------------------------------------
(* References.  release() of a request whose result channel holds ch[r]:   *)
(* the last of k references clears the data, drains the channel and puts   *)
(* the request into the pool.                                              *)

\* Variant for sensitivity: the result of an expired caller is not drained.
ReleaseKeepsResult(r, k, ch) ==
  /\ refs' = [refs EXCEPT ![r] = @ - k]
  /\ data' = IF refs[r] = k THEN [data EXCEPT ![r] = 0] ELSE data
  /\ resCh' = ch

Release(r, k, ch) ==
  /\ refs' = [refs EXCEPT ![r] = @ - k]
  /\ IF refs[r] = k
     THEN /\ data' = [data EXCEPT ![r] = 0]
          /\ resCh' = [ch EXCEPT ![r] = NoResult]
     ELSE /\ data' = data
          /\ resCh' = ch

\* WritePacket returns (n, ok): the caller is idle again.
ReturnWrite(p, n, ok) ==
  /\ pc' = [pc EXCEPT ![p] = "idle"]
  /\ cur' = [cur EXCEPT ![p] = 0]
  /\ req' = [req EXCEPT ![p] = NoReq]
  /\ ret' = [ret EXCEPT ![cur[p]] = Returned(n, ok)]

Go(p, to) == pc' = [pc EXCEPT ![p] = to]

-----------------------------------------------------------------------------
(* WritePacket *)

\* WritePacket enters acquire, which starts the worker.  Write calls it once
\* per chunk of at most 65535 bytes.
BeginWrite(p) ==
  /\ pc[p] = "idle" /\ nextOp <= MaxOps
  /\ cur' = [cur EXCEPT ![p] = nextOp]
  /\ nextOp' = nextOp + 1
  /\ started' = TRUE
  /\ wpc' = IF started THEN wpc ELSE "select"
  /\ Go(p, "acquireWrite")
  /\ UNCHANGED <<req, channels, err, fin, wreq, leases, expired, wire, ret,
                 accepted, finished, halfClosed>>

\* acquire takes the gate token; the select may prefer it to a closed done
\* or stopping.
AcquireWrite(p) ==
  /\ pc[p] = "acquireWrite" /\ gate
  /\ gate' = FALSE
  /\ Go(p, "check")
  /\ UNCHANGED <<cur, req, queue, qclosed, done, stopping, exited, flags,
                 worker, leases, expired, history>>

\* acquire fails: deadline, done or stopping.
AcquireWriteFails(p) ==
  /\ pc[p] = "acquireWrite"
  /\ expired \/ done \/ stopping
  /\ ReturnWrite(p, None, FALSE)
  /\ UNCHANGED <<channels, flags, worker, leases, expired, nextOp, wire,
                 accepted, finished, halfClosed>>

\* Under the gate: an earlier error or half-close refuses the write.
CheckRefuses(p) ==
  /\ pc[p] = "check" /\ (err \/ fin)
  /\ ReturnWrite(p, None, FALSE)
  /\ gate' = TRUE
  /\ UNCHANGED <<queue, qclosed, done, stopping, exited, flags, worker, leases,
                 expired, nextOp, wire, accepted, finished, halfClosed>>

\* A request and a buffer are leased: refs.Store(2), one for the worker.
Lease(p, r) ==
  /\ pc[p] = "check" /\ ~err /\ ~fin
  /\ r \in Pool /\ r = Get
  /\ req' = [req EXCEPT ![p] = r]
  /\ refs' = [refs EXCEPT ![r] = 2]
  /\ data' = [data EXCEPT ![r] = cur[p]]
  /\ Go(p, "loop")
  /\ UNCHANGED <<cur, channels, flags, worker, resCh, expired, history>>

\* Variant: the first select is missing.
LoopIgnoresStop(p) ==
  /\ pc[p] = "loop" /\ ~expired
  /\ Go(p, "submit")
  /\ UNCHANGED <<cur, req, channels, flags, worker, leases, expired, history>>

\* First select of the submission loop: nothing is submitted once done or
\* stopping is seen closed, or the deadline has passed.
LoopContinues(p) ==
  /\ pc[p] = "loop" /\ ~done /\ ~stopping /\ ~expired
  /\ Go(p, "submit")
  /\ UNCHANGED <<cur, req, channels, flags, worker, leases, expired, history>>

\* Both references are dropped and the gate is returned: nothing was queued.
GiveUp(p) ==
  /\ \/ pc[p] = "loop" /\ (done \/ stopping \/ expired)
     \/ pc[p] = "submit" /\ (done \/ stopping)
  /\ Release(req[p], 2, resCh)
  /\ ReturnWrite(p, None, FALSE)
  /\ gate' = TRUE
  /\ UNCHANGED <<queue, qclosed, done, stopping, exited, flags, worker, expired,
                 nextOp, wire, accepted, finished, halfClosed>>

\* The timer of the second select fires, or the deadline was moved.
Rewatch(p) ==
  /\ pc[p] = "submit" /\ expired
  /\ Go(p, "loop")
  /\ UNCHANGED <<cur, req, channels, flags, worker, leases, expired, history>>

\* w.queue <- req; the second select may choose it although done is closed.
Submit(p) ==
  /\ pc[p] = "submit" /\ queue = NoReq
  /\ queue' = req[p]
  /\ accepted' = accepted \cup {cur[p]}
  /\ Go(p, "await")
  /\ UNCHANGED <<cur, req, gate, qclosed, done, stopping, exited, flags, worker,
                 leases, expired, nextOp, wire, ret, finished, halfClosed>>

\* awaitWrite receives the result, drops the caller's reference, and the
\* deferred function of WritePacket returns the gate token.
AwaitResult(p) ==
  /\ pc[p] = "await" /\ resCh[req[p]].full
  /\ ReturnWrite(p, resCh[req[p]].n, resCh[req[p]].ok)
  /\ Release(req[p], 1, [resCh EXCEPT ![req[p]] = NoResult])
  /\ gate' = TRUE
  /\ UNCHANGED <<queue, qclosed, done, stopping, exited, flags, worker, expired,
                 nextOp, wire, accepted, finished, halfClosed>>

\* Variant: a timeout reports no bytes.
AwaitReportsNone(p) ==
  /\ pc[p] = "await"
  /\ expired \/ done \/ (stopping /\ ~resCh[req[p]].full)
  /\ ReturnWrite(p, None, FALSE)
  /\ Release(req[p], 1, resCh)
  /\ gate' = TRUE
  /\ UNCHANGED <<queue, qclosed, done, stopping, exited, flags, worker, expired,
                 nextOp, wire, accepted, finished, halfClosed>>

\* Deadline, done, or stopping with no result yet: the queued bytes may still
\* be delivered, so all of them are reported.
AwaitGivesUp(p) ==
  /\ pc[p] = "await"
  /\ expired \/ done \/ (stopping /\ ~resCh[req[p]].full)
  /\ ReturnWrite(p, All, FALSE)
  /\ Release(req[p], 1, resCh)
  /\ gate' = TRUE
  /\ UNCHANGED <<queue, qclosed, done, stopping, exited, flags, worker, expired,
                 nextOp, wire, accepted, finished, halfClosed>>

-----------------------------------------------------------------------------
(* CloseWrite, Close, SetDeadline *)

\* CloseWrite reads w.fin; only the first caller needs the gate.
BeginCloseWrite(p) ==
  /\ pc[p] = "idle"
  /\ started' = (started \/ ~fin)
  /\ wpc' = IF started \/ fin THEN wpc ELSE "select"
  /\ Go(p, IF fin THEN "waitExit" ELSE "acquireClose")
  /\ UNCHANGED <<cur, req, channels, err, fin, wreq, leases, expired, history>>

AcquireClose(p) ==
  /\ pc[p] = "acquireClose" /\ gate
  /\ gate' = FALSE
  /\ Go(p, "closeQueue")
  /\ UNCHANGED <<cur, req, queue, qclosed, done, stopping, exited, flags,
                 worker, leases, expired, history>>

AcquireCloseFails(p) ==
  /\ pc[p] = "acquireClose"
  /\ expired \/ done \/ stopping
  /\ Go(p, "idle")
  /\ UNCHANGED <<cur, req, channels, flags, worker, leases, expired, history>>

\* w.fin is set and the queue closed once, then the gate is returned.
CloseQueue(p) ==
  /\ pc[p] = "closeQueue"
  /\ fin' = TRUE /\ qclosed' = TRUE
  /\ gate' = TRUE
  /\ Go(p, "waitExit")
  /\ UNCHANGED <<cur, req, queue, done, stopping, exited, err, started, worker,
                 leases, expired, history>>

\* exited is closed: CloseWrite returns w.result().
CloseWriteReturns(p) ==
  /\ pc[p] = "waitExit" /\ exited
  /\ Go(p, "idle")
  /\ halfClosed' = (halfClosed \/ (~err /\ ~done))
  /\ UNCHANGED <<cur, req, channels, flags, worker, leases, expired, nextOp,
                 wire, ret, accepted, finished>>

CloseWriteGivesUp(p) ==
  /\ pc[p] = "waitExit" /\ (done \/ expired)
  /\ Go(p, "idle")
  /\ UNCHANGED <<cur, req, channels, flags, worker, leases, expired, history>>

\* Close closes done once, aborts the transport and waits for exited.
BeginClose(p) ==
  /\ pc[p] = "idle"
  /\ done' = TRUE
  /\ started' = TRUE
  /\ wpc' = IF started THEN wpc ELSE "select"
  /\ Go(p, "joinWorker")
  /\ UNCHANGED <<cur, req, gate, queue, qclosed, stopping, exited, err, fin,
                 wreq, leases, expired, history>>

CloseReturns(p) ==
  /\ pc[p] = "joinWorker" /\ exited
  /\ Go(p, "idle")
  /\ UNCHANGED <<cur, req, channels, flags, worker, leases, expired, history>>

\* SetDeadline replaces the deadline, or time reaches it.
SetDeadline ==
  /\ expired' = ~expired
  /\ UNCHANGED <<callers, channels, flags, worker, leases, history>>

-----------------------------------------------------------------------------
(* The worker goroutine *)

\* A request is received from the queue.
WorkerReceive ==
  /\ wpc = "select" /\ queue # NoReq
  /\ wreq' = queue /\ queue' = NoReq
  /\ wpc' = "check"
  /\ UNCHANGED <<callers, gate, qclosed, done, stopping, exited, flags, leases,
                 expired, history>>

\* The queue is closed and empty: finish half-closes the transport.
WorkerFinish ==
  /\ wpc = "select" /\ queue = NoReq /\ qclosed
  /\ wpc' = "finishing"
  /\ finished' = TRUE
  /\ UNCHANGED <<callers, channels, flags, wreq, leases, expired, nextOp, wire,
                 ret, accepted, halfClosed>>

\* finish returns; setError records what it returned.
FinishReturns(ok) ==
  /\ wpc = "finishing"
  /\ err' = (err \/ ~ok)
  /\ wpc' = "stop"
  /\ UNCHANGED <<callers, channels, fin, started, wreq, leases, expired,
                 history>>

WorkerSeesDone ==
  /\ wpc = "select" /\ done
  /\ wpc' = "stop"
  /\ UNCHANGED <<callers, channels, flags, wreq, leases, expired, history>>

\* done is checked again before the transport is touched.
WorkerAbandons ==
  /\ wpc = "check" /\ done
  /\ resCh' = [resCh EXCEPT ![wreq] = Result(None, FALSE)]
  /\ wpc' = "releaseStop"
  /\ UNCHANGED <<callers, channels, flags, wreq, refs, data, expired, history>>

WorkerStartsWrite ==
  /\ wpc = "check" /\ ~done
  /\ wpc' = "writing"
  /\ UNCHANGED <<callers, channels, flags, wreq, leases, expired, history>>

\* Variant: a failed write is not recorded with setError.
WriteErrorForgotten(n, ok) ==
  /\ wpc = "writing"
  /\ ok => n = All
  /\ wire' = [wire EXCEPT ![data[wreq]] = n]
  /\ resCh' = [resCh EXCEPT ![wreq] = Result(n, ok)]
  /\ wpc' = IF ok THEN "release" ELSE "releaseStop"
  /\ UNCHANGED <<callers, channels, flags, wreq, refs, data, expired,
                 nextOp, ret, accepted, finished, halfClosed>>

\* w.write returns (n, nil) for a complete write, else n and an error; a
\* short write is an error too.  setError precedes the result.
WriteReturns(n, ok) ==
  /\ wpc = "writing"
  /\ ok => n = All
  /\ wire' = [wire EXCEPT ![data[wreq]] = n]
  /\ err' = (err \/ ~ok)
  /\ resCh' = [resCh EXCEPT ![wreq] = Result(n, ok)]
  /\ wpc' = IF ok THEN "release" ELSE "releaseStop"
  /\ UNCHANGED <<callers, channels, fin, started, wreq, refs, data, expired,
                 nextOp, ret, accepted, finished, halfClosed>>

\* The worker drops its reference and loops, or leaves after an error.
WorkerReleases ==
  /\ wpc \in {"release", "releaseStop"}
  /\ Release(wreq, 1, resCh)
  /\ wreq' = NoReq
  /\ wpc' = IF wpc = "release" THEN "select" ELSE "stop"
  /\ UNCHANGED <<callers, channels, flags, expired, history>>

\* Variant: the gate is taken before the waiters are woken.
StoppingNotClosed ==
  /\ wpc = "stop"
  /\ wpc' = "takeGate"
  /\ UNCHANGED <<callers, channels, flags, wreq, leases, expired, history>>

\* drainOnExit: wake the waiters, then take the gate.
CloseStopping ==
  /\ wpc = "stop"
  /\ stopping' = TRUE
  /\ wpc' = "takeGate"
  /\ UNCHANGED <<callers, gate, queue, qclosed, done, exited, flags, wreq,
                 leases, expired, history>>

DrainTakesGate ==
  /\ wpc = "takeGate" /\ gate
  /\ gate' = FALSE
  /\ wpc' = "drain"
  /\ UNCHANGED <<callers, queue, qclosed, done, stopping, exited, flags, wreq,
                 leases, expired, history>>

\* One queued request gets a result without having been written.
DrainOne ==
  /\ wpc = "drain" /\ queue # NoReq
  /\ queue' = NoReq
  /\ Release(queue, 1, [resCh EXCEPT ![queue] = Result(None, FALSE)])
  /\ UNCHANGED <<callers, gate, qclosed, done, stopping, exited, flags, worker,
                 expired, history>>

DrainReturnsGate ==
  /\ wpc = "drain" /\ queue = NoReq
  /\ gate' = TRUE
  /\ wpc' = "drained"
  /\ UNCHANGED <<callers, queue, qclosed, done, stopping, exited, flags, wreq,
                 leases, expired, history>>

CloseExited ==
  /\ wpc = "drained"
  /\ exited' = TRUE
  /\ wpc' = "exit"
  /\ UNCHANGED <<callers, gate, queue, qclosed, done, stopping, flags, wreq,
                 leases, expired, history>>

-----------------------------------------------------------------------------
CallerStep(p) ==
  \/ AcquireWrite(p) \/ AcquireWriteFails(p) \/ CheckRefuses(p)
  \/ \E r \in Requests : Lease(p, r)
  \/ LoopContinues(p) \/ GiveUp(p) \/ Rewatch(p) \/ Submit(p)
  \/ AwaitResult(p) \/ AwaitGivesUp(p)
  \/ AcquireClose(p) \/ AcquireCloseFails(p) \/ CloseQueue(p)
  \/ CloseWriteReturns(p) \/ CloseWriteGivesUp(p) \/ CloseReturns(p)

CallerBegins(p) == BeginWrite(p) \/ BeginCloseWrite(p) \/ BeginClose(p)

WorkerStep ==
  \/ WorkerReceive \/ WorkerFinish \/ WorkerSeesDone
  \/ WorkerAbandons \/ WorkerStartsWrite \/ WorkerReleases
  \/ CloseStopping \/ DrainTakesGate \/ DrainOne \/ DrainReturnsGate
  \/ CloseExited

TransportReturns ==
  \/ \E n \in {None, Some, All}, ok \in BOOLEAN : WriteReturns(n, ok)
  \/ \E ok \in BOOLEAN : FinishReturns(ok)

Next ==
  \/ \E p \in Procs : CallerStep(p) \/ CallerBegins(p)
  \/ WorkerStep
  \/ TransportReturns
  \/ SetDeadline

Spec == Init /\ [][Next]_vars

\* Goroutines keep running; the transport is only known to return once abort
\* has been called, that is once done is closed.
Fairness ==
  /\ \A p \in Procs : WF_vars(CallerStep(p))
  /\ WF_vars(WorkerStep)
  /\ WF_vars(done /\ TransportReturns)

FairSpec == Spec /\ Fairness
-----------------------------------------------------------------------------
(* Properties *)

Holding == {"loop", "submit", "await"}       \* the caller holds a request
Gated == {"check", "loop", "submit", "await", "closeQueue"}  \* and the gate

CallerPC == {"idle", "acquireWrite", "acquireClose", "waitExit", "joinWorker"}
              \cup Gated
Results == [n : {None, Some, All}, ok : BOOLEAN, full : BOOLEAN]
Returns == [n : {None, Some, All}, ok : BOOLEAN, back : BOOLEAN]

\* The state is well formed: the one-slot channels hold at most one request or
\* result, and a request has at most the two references of caller and worker.
TypeOK ==
  /\ pc \in [Procs -> CallerPC]
  /\ cur \in [Procs -> 0..MaxOps]
  /\ req \in [Procs -> Requests \cup {NoReq}]
  /\ gate \in BOOLEAN /\ qclosed \in BOOLEAN /\ done \in BOOLEAN
  /\ stopping \in BOOLEAN /\ exited \in BOOLEAN /\ err \in BOOLEAN
  /\ fin \in BOOLEAN /\ started \in BOOLEAN /\ expired \in BOOLEAN
  /\ finished \in BOOLEAN /\ halfClosed \in BOOLEAN
  /\ queue \in Requests \cup {NoReq}
  /\ wpc \in {"off", "select", "check", "writing", "finishing", "release",
              "releaseStop", "stop", "takeGate", "drain", "drained", "exit"}
  /\ wreq \in Requests \cup {NoReq}
  /\ refs \in [Requests -> 0..2]
  /\ data \in [Requests -> 0..MaxOps]
  /\ resCh \in [Requests -> Results]
  /\ nextOp \in 1..(MaxOps + 1)
  /\ wire \in [Ops -> {None, Some, All}]
  /\ ret \in [Ops -> Returns]
  /\ accepted \subseteq Ops

\* A pooled request is never in use: the request a caller waits on still
\* carries that caller's write, the queue and the worker only hold requests
\* whose bytes were accepted, and a result channel is empty whenever the
\* worker or drainOnExit is about to send on it, so that send never blocks
\* and never leaks an old result into the next use (writeRequest.release).
LeasesIntact ==
  /\ \A p \in Procs : pc[p] \in Holding =>
       /\ req[p] \notin Pool
       /\ data[req[p]] = cur[p]
  /\ \A r \in {queue, wreq} \ {NoReq} : r \notin Pool /\ data[r] \in accepted
  /\ queue # NoReq => ~resCh[queue].full
  /\ wpc \in {"check", "writing"} => ~resCh[wreq].full
  /\ \A r \in Pool : ~resCh[r].full

\* drainOnExit's promise: nobody is about to send on a closed queue, and once
\* exited is closed no lease is queued and none can arrive any more.
QueueDiscipline ==
  /\ \A p \in Procs : pc[p] = "submit" => ~qclosed
  /\ exited => /\ queue = NoReq /\ wreq = NoReq
               /\ \A p \in Procs : pc[p] \notin {"submit", "await"}

\* The byte count WritePacket reports is never smaller than what the transport
\* has taken or will still take, so a caller never resends owned bytes; and a
\* nil error means that all bytes were written.
HonestCount ==
  \A o \in Ops : ret[o].back =>
    /\ wire[o] <= ret[o].n
    /\ ret[o].ok => wire[o] = All

\* A CloseWrite that returns nil on a connection nobody has closed means that
\* every accepted write, timed-out ones included, reached the transport and
\* the transport was half-closed.
HalfCloseComplete ==
  halfClosed => finished /\ \A o \in accepted : wire[o] = All

\* Once the worker leaves its loop, after Close or after a failed write, it
\* gets the gate from whoever waits under it and exits; and after Close every
\* blocked call returns.
ExitDrains ==
  /\ (wpc = "stop") ~> exited
  /\ \A p \in Procs : done ~> (exited /\ pc[p] = "idle")
=============================================================================
