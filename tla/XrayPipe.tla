------------------------------ MODULE XrayPipe ------------------------------
(***************************************************************************)
(* pipeWriteQueue (integration/xray/pipe_writer.go): the write half of the *)
(* connections the Xray inbound hands to the servers.  A writer takes the  *)
(* one gate token, leases a pooled request and submits it to the worker;   *)
(* it may leave on its deadline or on Close while the worker still owns    *)
(* the request.  The half-close travels through the same queue.            *)
(*                                                                         *)
(* Calls are numbered; note[i] says what became of call i downstream and   *)
(* what its caller was told.  A request remembers the call it serves.      *)
(***************************************************************************)
EXTENDS Naturals, Sequences

CONSTANTS Writers,      \* goroutines in Write, WriteDatagrams, CloseWrite
          PipeCalls,    \* bound: calls they make
          Deadlines     \* bound: times the deadline passes or is moved

ASSUME PipeAssumption == PipeCalls \in Nat

Calls == 1..PipeCalls
Requests == Calls      \* the pool never needs more than one request per call

VARIABLES token,        \* gate holds its token
          jobs, worker, \* the one-slot queue; run()
          finished,     \* w.fin
          failed,       \* w.err # nil
          shut,         \* w.closed, and done is closed
          due,          \* the deadline has passed
          refs, result, serves,  \* the pooled requests
          wcall,        \* what each writer is doing
          note, pipeClose, moves

queueVars == <<token, jobs, finished, failed, shut, due>>
poolVars == <<refs, result, serves>>
pipeVars == <<queueVars, poolVars, worker, wcall, note, pipeClose, moves>>

PipeInit ==
  /\ token = TRUE /\ jobs = <<>> /\ worker = [pc |-> "new", req |-> 0]
  /\ finished = FALSE /\ failed = FALSE /\ shut = FALSE /\ due = FALSE
  /\ refs = [r \in Requests |-> 0] /\ result = [r \in Requests |-> <<>>]
  /\ serves = [r \in Requests |-> 0]
  /\ wcall = [c \in Writers |-> [pc |-> "idle", n |-> 0, req |-> 0]]
  /\ note = <<>> /\ pipeClose = "idle" /\ moves = 0

Kind(n) == note[n].kind
Start(w) == IF w.pc = "new" THEN [w EXCEPT !.pc = "idle"] ELSE w
Exited == worker.pc = "exited"

\* The caller returns and is told ans: "ok", "kept" (the deadline or Close
\* came after the request was accepted) or "refused" (0 and an error).
Answer(c, ans) ==
  /\ note' = [note EXCEPT ![wcall[c].n].answer = ans]
  /\ wcall' = [wcall EXCEPT ![c] = [pc |-> "idle", n |-> 0, req |-> 0]]

\* release: the last reference drains the result and pools the request.
Unref(rf, rs, r) ==
  /\ refs' = [rf EXCEPT ![r] = @ - 1]
  /\ result' = IF rf[r] = 1 THEN [rs EXCEPT ![r] = <<>>] ELSE rs
----------------------------------------------------------------------------
(* Write, WriteDatagrams ("data") and CloseWrite ("fin").                  *)
Enter(c, kind) ==
  /\ wcall[c].pc = "idle" /\ Len(note) < PipeCalls
  /\ note' = Append(note, [kind |-> kind, fate |-> "none", answer |-> "none"])
  /\ wcall' = [wcall EXCEPT ![c] =
       [pc |-> IF kind = "fin" /\ finished THEN "tail" ELSE "acquire",
        n |-> Len(note) + 1, req |-> 0]]
  /\ worker' = IF kind = "fin" /\ finished THEN worker ELSE Start(worker)
  /\ UNCHANGED <<queueVars, poolVars, pipeClose, moves>>

\* A call that got no request in: a CloseWrite that lost to another one
\* waits for that one, everything else returns the error.
TurnedAway(c) ==
  IF Kind(wcall[c].n) = "fin" /\ finished /\ ~shut /\ ~failed
  THEN wcall' = [wcall EXCEPT ![c].pc = "tail"] /\ UNCHANGED note
  ELSE Answer(c, "refused")

\* acquire.  The select may take any case that is ready.
Acquire(c) ==
  /\ wcall[c].pc = "acquire"
  /\ \/ /\ due \/ shut \/ Exited
        /\ TurnedAway(c)
        /\ UNCHANGED <<token, poolVars>>
     \/ /\ token /\ token' = FALSE
        /\ LET r == CHOOSE q \in Requests : refs[q] = 0  \* out of the pool
           IN /\ refs' = [refs EXCEPT ![r] = 1]
              /\ serves' = [serves EXCEPT ![r] = wcall[c].n]
              /\ wcall' = [wcall EXCEPT ![c].pc = "submit", ![c].req = r]
        /\ UNCHANGED <<result, note>>
  /\ UNCHANGED <<jobs, finished, failed, shut, due, worker, pipeClose, moves>>

\* Variant: an earlier write's error is not looked at.
SubmitRefusesLate == shut \/ finished \/ due

\* closed, w.err, closing and the deadline, under the lock.
SubmitRefuses == shut \/ failed \/ finished \/ due

\* submit, and the caller's release and gate return when it refuses.
Submit(c) ==
  LET r == wcall[c].req
      n == wcall[c].n
  IN /\ wcall[c].pc = "submit"
     /\ \/ /\ SubmitRefuses
           /\ Unref(refs, result, r)
           /\ token' = TRUE
           /\ TurnedAway(c)
           /\ UNCHANGED <<jobs, finished>>
        \/ /\ ~SubmitRefuses
           /\ finished' = (Kind(n) = "fin")
           /\ refs' = [refs EXCEPT ![r] = @ + 1]
           /\ jobs' = Append(jobs, r)
           /\ note' = [note EXCEPT ![n].fate = "queued"]
           /\ wcall' = [wcall EXCEPT ![c].pc = "await"]
           /\ UNCHANGED <<token, result>>
     /\ UNCHANGED <<failed, shut, due, serves, worker, pipeClose, moves>>

\* await and the deferred release.  The worker leaves its result before it
\* exits, so an exited worker's result is found.
Await(c) ==
  LET r == wcall[c].req
      Told(res) == CASE res = "ok" -> "ok"
                     [] res = "closed" -> "kept"
                     [] OTHER -> "refused"
  IN /\ wcall[c].pc = "await"
     /\ \/ /\ result[r] # <<>>
           /\ Answer(c, Told(Head(result[r])))
           /\ Unref(refs, [result EXCEPT ![r] = <<>>], r)
        \/ /\ due \/ shut
           /\ Answer(c, "kept")
           /\ Unref(refs, result, r)
        \/ /\ Exited /\ result[r] = <<>>
           /\ Answer(c, "refused")
           /\ Unref(refs, result, r)
     /\ UNCHANGED <<queueVars, serves, worker, pipeClose, moves>>

\* The end of CloseWrite: wait for the worker that handles the half-close.
AwaitFin(c) ==
  /\ wcall[c].pc = "tail"
  /\ \/ Exited /\ Answer(c, IF failed THEN "refused" ELSE "ok")
     \/ (due \/ shut) /\ Answer(c, "refused")
  /\ UNCHANGED <<queueVars, poolVars, worker, pipeClose, moves>>
----------------------------------------------------------------------------
(* run().                                                                  *)
\* complete: the result, the worker's reference, the gate's token.
Complete(r, res, fate) ==
  /\ Unref(refs, [result EXCEPT ![r] = <<res>>], r)
  /\ note' = [note EXCEPT ![serves[r]].fate = fate]
  /\ token' = TRUE

\* done is closed: a queued request is answered net.ErrClosed.
Quit ==
  /\ worker.pc = "idle" /\ shut
  /\ worker' = [pc |-> "exited", req |-> 0]
  /\ \/ jobs = <<>> /\ UNCHANGED <<token, jobs, refs, result, note>>
     \/ /\ jobs # <<>> /\ jobs' = <<>>
        /\ Complete(Head(jobs), "closed", "dropped")
  /\ UNCHANGED <<finished, failed, shut, due, serves, wcall, pipeClose, moves>>

Take ==
  /\ worker.pc = "idle" /\ ~shut /\ jobs # <<>>
  /\ worker' = [pc |-> "busy", req |-> Head(jobs)]
  /\ jobs' = <<>>
  /\ UNCHANGED <<token, finished, failed, shut, due, poolVars, wcall, note,
                 pipeClose, moves>>

\* WriteMultiBuffer or common.Close returns.
Work ==
  LET r == worker.req
      fin == Kind(serves[r]) = "fin"
  IN /\ worker.pc = "busy"
     /\ \E ok \in BOOLEAN :
          /\ failed' = ~ok
          /\ Complete(r, IF ok THEN "ok" ELSE "fail",
                      IF ok THEN "done" ELSE "failed")
          /\ worker' = [pc |-> IF fin \/ ~ok THEN "stopping" ELSE "idle",
                        req |-> 0]
     /\ UNCHANGED <<jobs, finished, shut, due, serves, wcall, pipeClose, moves>>

Exit ==
  /\ worker.pc = "stopping"
  /\ worker' = [worker EXCEPT !.pc = "exited"]
  /\ UNCHANGED <<queueVars, poolVars, wcall, note, pipeClose, moves>>
----------------------------------------------------------------------------
\* Close: done is closed and the writer interrupted, then the worker joined.
PipeShut ==
  /\ pipeClose = "idle" /\ pipeClose' = "closing"
  /\ shut' = TRUE /\ worker' = Start(worker)
  /\ UNCHANGED <<token, jobs, finished, failed, due, poolVars, wcall, note,
                 moves>>

PipeJoin ==
  /\ pipeClose = "closing" /\ Exited /\ pipeClose' = "returned"
  /\ UNCHANGED <<queueVars, poolVars, worker, wcall, note, moves>>

\* SetDeadline, or the time passing a deadline that was set.
SetDeadline ==
  /\ moves < Deadlines /\ moves' = moves + 1 /\ due' = ~due
  /\ UNCHANGED <<token, jobs, finished, failed, shut, poolVars, worker, wcall,
                 note, pipeClose>>

PipeProgress ==
  \/ \E c \in Writers : Acquire(c) \/ Submit(c) \/ Await(c) \/ AwaitFin(c)
  \/ Quit \/ Take \/ Exit \/ PipeJoin
  \/ shut /\ Work  \* only an interrupted write is known to return

PipeNext ==
  \/ PipeProgress \/ Work \/ PipeShut \/ SetDeadline
  \/ \E c \in Writers, kind \in {"data", "fin"} : Enter(c, kind)
----------------------------------------------------------------------------
(* What a caller is told is what happens: refused data is never written,   *)
(* "Accepted bytes remain owned after timeout/close" (pipe_writer.go:248), *)
(* a half-close reported done leaves no accepted data behind it unless the *)
(* queue was closed; and a request that somebody still uses, or that holds *)
(* an old result, is never in the pool.                                    *)
PipeHonest ==
  /\ \A n \in DOMAIN note :
       /\ note[n].answer = "refused" => note[n].fate \in {"none", "failed"}
       /\ note[n].answer = "kept" => note[n].fate # "none"
       /\ note[n].answer = "ok" /\ note[n].kind = "data" =>
            note[n].fate = "done"
       /\ note[n].answer = "ok" /\ note[n].kind = "fin" =>
            \/ shut
            \/ /\ \E m \in DOMAIN note :
                    note[m].kind = "fin" /\ note[m].fate = "done"
               /\ \A m \in DOMAIN note : note[m].fate # "queued"
  /\ \A r \in Requests : refs[r] = 0 =>
       /\ result[r] = <<>> /\ worker.req # r
       /\ \A i \in DOMAIN jobs : jobs[i] # r
  /\ token => jobs = <<>> /\ worker.pc # "busy"

\* Close is under way; it has returned and so has everybody who was writing.
PipeDue == pipeClose = "closing"
PipeDone == pipeClose = "returned" /\ \A c \in Writers : wcall[c].pc = "idle"
=============================================================================
