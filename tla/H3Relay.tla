------------------------------- MODULE H3Relay -------------------------------
(***************************************************************************)
(* pkg/server/http3.go and udp_budget.go: the udpRelay of one HTTP/3 UDP   *)
(* session, its table of UDP and ICMP targets, the goroutine that reads    *)
(* the responses of each target, and the process-wide budget of targets    *)
(* that it shares with the other relays and transports.                    *)
(*                                                                         *)
(* serveHTTP3UDP forwards from one goroutine and closes the relay when it  *)
(* returns; the table is written, and tested, for several callers of       *)
(* target and for a concurrent Close, and is modelled so.  UDP and ICMP    *)
(* targets live in two maps with disjoint addresses: here in one table.    *)
(***************************************************************************)
EXTENDS Integers, FiniteSets, TLC

CONSTANTS Forwarders, Addresses,
          ICMP,        \* the addresses of the form "icmp:..."
          Targets,     \* target objects; one is reused when nobody refers to it
          None,
          MaxTargets,  \* the relay's limit (64)
          Budget,      \* MaxUDPTargets, MaxUserUDPTargets
          MaxOthers    \* bound: targets that the rest of the process holds

ASSUME RelayAssumption ==
  /\ ICMP \subseteq Addresses
  /\ None \notin Forwarders \cup Targets
  /\ MaxTargets \in Nat /\ Budget \in Nat /\ MaxOthers \in Nat

VARIABLES
  cancelled,  \* r.ctx is done
  closed,
  table,      \* r.targets and r.icmpTargets
  opening,    \* r.opening: who is creating the address's target
  used,       \* udpTargetsBudget
  others,     \* of it, what the rest of the process holds
  waitGroup,
  open,       \* the targets whose connection is open
  leased,     \* the targets whose release has not been called
  reader,     \* reader[t]: the goroutine of receive / receiveICMP
  pc,         \* pc[f]: where forwarder f is
  address,    \* the address whose target it is looking up
  found,      \* the target it found or made
  current,    \* ForwardBatch's currentTarget
  erred,      \* the forwarders whose batch has had an error (firstErr)
  unused,     \* the forwarders whose opening holds a lease and no target yet
  closer,     \* progress of Close
  sweep       \* the targets Close has still to close

state == <<cancelled, closed, table, opening>>
budget == <<used, others>>
objects == <<open, leased, reader>>
batch == <<current, erred>>
callers == <<pc, address, found, batch, unused>>
closing == <<closer, sweep>>
vars == <<state, budget, waitGroup, objects, callers, closing>>

Init ==
  /\ cancelled = FALSE /\ closed = FALSE
  /\ table = [a \in Addresses |-> None]
  /\ opening = [a \in Addresses |-> None]
  /\ used = 0 /\ others = 0 /\ waitGroup = 0
  /\ open = {} /\ leased = {} /\ reader = [t \in Targets |-> "off"]
  /\ pc = [f \in Forwarders |-> "idle"]
  /\ address = [f \in Forwarders |-> None]
  /\ found = [f \in Forwarders |-> None]
  /\ current = [f \in Forwarders |-> None]
  /\ erred = {} /\ unused = {}
  /\ closer = "no" /\ sweep = {}

Cached == {a \in Addresses : table[a] # None}
Opening == {a \in Addresses : opening[a] # None}

\* An object whose memory can be that of a new target.
Unreferenced(t) ==
  /\ reader[t] = "off" /\ t \notin open \cup leased \cup sweep
  /\ \A a \in Addresses : table[a] # t
  /\ \A f \in Forwarders : found[f] # t /\ current[f] # t

-----------------------------------------------------------------------------
(* Steps shared by several handlers *)

Goto(f, label) == pc' = [pc EXCEPT ![f] = label]

\* target or getOrCreateICMPTarget returns an error: the packet is dropped.
LookupFails(f) ==
  /\ Goto(f, "idle")
  /\ address' = [address EXCEPT ![f] = None]
  /\ found' = [found EXCEPT ![f] = None]
  /\ erred' = erred \cup {f}
  /\ UNCHANGED current

\* Variant: the connection is closed once, the lease released every time.
CloseReleasesAgain(t) ==
  /\ open' = open \ {t} /\ leased' = leased \ {t}
  /\ used' = used - 1

\* close: the connection is closed and the lease released, once.
CloseTarget(t) ==
  /\ open' = open \ {t} /\ leased' = leased \ {t}
  /\ used' = IF t \in leased THEN used - 1 ELSE used

\* The first half of removeTarget and removeICMPTarget: the table forgets the
\* target, if it still is the one it has.
Evict(t) == table' = [a \in Addresses |->
                        IF table[a] = t THEN None ELSE table[a]]

-----------------------------------------------------------------------------
(* target, getOrCreateICMPTarget: look the target up, or create it *)

\* A packet for another address than the current target's (for ICMP the current
\* target has been flushed and dropped before).  The mutex is released again.
Lookup(f, a) ==
  /\ pc[f] = "idle"
  /\ a \in ICMP => current[f] = None
  /\ current[f] # None => table[a] # current[f]
  /\ IF closed
     THEN LookupFails(f)
     ELSE /\ address' = [address EXCEPT ![f] = a]
          /\ found' = [found EXCEPT ![f] = table[a]]
          /\ Goto(f, IF table[a] = None THEN "begin" ELSE "found")
          /\ UNCHANGED batch
  /\ UNCHANGED <<state, budget, waitGroup, objects, unused, closing>>

Full == \/ Cardinality(Cached) + Cardinality(Opening) >= MaxTargets
        \/ used >= Budget

\* beginTarget refuses: closed, too many targets, or no budget.
BeginRefused(f) ==
  /\ pc[f] = "begin"
  /\ \/ closed \/ cancelled
     \/ opening[address[f]] = None /\ table[address[f]] = None /\ Full
  /\ LookupFails(f)
  /\ UNCHANGED <<state, budget, waitGroup, objects, unused, closing>>

\* Another caller is creating the target, or has created it meanwhile.
BeginJoins(f) ==
  LET a == address[f]
  IN  /\ pc[f] = "begin" /\ ~closed /\ ~cancelled
      /\ opening[a] # None \/ table[a] # None
      /\ Goto(f, IF opening[a] # None THEN "wait" ELSE "joined")
      /\ found' = [found EXCEPT ![f] =
                     IF opening[a] # None THEN None ELSE table[a]]
      /\ UNCHANGED <<state, budget, waitGroup, objects, address, batch, unused,
                     closing>>

\* ReserveUDPTarget succeeds: this caller creates the target.
BeginCreates(f) ==
  LET a == address[f]
  IN  /\ pc[f] = "begin" /\ ~closed /\ ~cancelled
      /\ opening[a] = None /\ table[a] = None /\ ~Full
      /\ used' = used + 1 /\ unused' = unused \cup {f}
      /\ opening' = [opening EXCEPT ![a] = f]
      /\ waitGroup' = waitGroup + 1
      /\ Goto(f, "dial")
      /\ UNCHANGED <<cancelled, closed, table, others, objects, address, found,
                     batch, closing>>

\* The address does not resolve, or the dial fails.
DialFails(f) ==
  /\ pc[f] = "dial"
  /\ Goto(f, "finish")
  /\ UNCHANGED <<state, budget, waitGroup, objects, address, found, batch,
                 unused, closing>>

\* The connection is made; the target object takes over the lease.
Dialled(f, t) ==
  /\ pc[f] = "dial" /\ Unreferenced(t)
  /\ open' = open \cup {t} /\ leased' = leased \cup {t}
  /\ unused' = unused \ {f}
  /\ found' = [found EXCEPT ![f] = t]
  /\ Goto(f, "finish")
  /\ UNCHANGED <<state, budget, waitGroup, reader, address, batch, closing>>

\* close(p.done): the opener goes on at the label, its waiters have t.
Publish(f, label, t) ==
  LET waiting == {g \in Forwarders : pc[g] = "wait" /\ address[g] = address[f]}
  IN  /\ opening' = [opening EXCEPT ![address[f]] = None]
      /\ pc' = [g \in Forwarders |-> IF g = f THEN label
                                     ELSE IF g \in waiting THEN "joined"
                                     ELSE pc[g]]
      /\ found' = [g \in Forwarders |-> IF g \in waiting THEN t ELSE found[g]]

\* finishTarget, under the mutex: the target enters the table and its reader
\* starts.
Install(f) ==
  /\ table' = [table EXCEPT ![address[f]] = found[f]]
  /\ reader' = [reader EXCEPT ![found[f]] = "run"]
  /\ waitGroup' = waitGroup + 1
  /\ Publish(f, "made", found[f])
  /\ UNCHANGED <<cancelled, closed, budget, open, leased, address, batch, unused,
                 closing>>

\* Variant: a relay closed during the dial is not noticed.
FinishUnchecked(f) == pc[f] = "finish" /\ found[f] # None /\ Install(f)

FinishInstalls(f) ==
  /\ pc[f] = "finish" /\ found[f] # None
  /\ ~closed /\ ~cancelled
  /\ Install(f)

FinishRejects(f) ==
  /\ pc[f] = "finish" /\ (found[f] = None \/ closed \/ cancelled)
  /\ Publish(f, "abort", None)
  /\ UNCHANGED <<cancelled, closed, table, budget, waitGroup, objects, address,
                 batch, unused, closing>>

\* ...after the mutex: nothing more to do,
FinishMade(f) ==
  /\ pc[f] = "made"
  /\ waitGroup' = waitGroup - 1
  /\ Goto(f, "found")
  /\ UNCHANGED <<state, budget, objects, address, found, batch, unused, closing>>

\* Variant: a refused target is closed by its reader, which never started.
AbortKeepsTarget(f) ==
  /\ pc[f] = "abort"
  /\ IF found[f] # None THEN UNCHANGED <<used, open, leased>>
     ELSE used' = used - 1 /\ UNCHANGED <<open, leased>>
  /\ unused' = unused \ {f}
  /\ waitGroup' = waitGroup - 1
  /\ LookupFails(f)
  /\ UNCHANGED <<state, others, reader, closing>>

\* or the target is closed, or the lease that has no target released.
FinishAborts(f) ==
  /\ pc[f] = "abort"
  /\ IF found[f] # None THEN CloseTarget(found[f])
     ELSE used' = used - 1 /\ UNCHANGED <<open, leased>>
  /\ unused' = unused \ {f}
  /\ waitGroup' = waitGroup - 1
  /\ LookupFails(f)
  /\ UNCHANGED <<state, others, reader, closing>>

\* A waiter sees the end of the context, or the opener's error.
WaitFails(f) ==
  /\ \/ pc[f] = "joined" /\ found[f] = None
     \/ pc[f] \in {"wait", "joined"} /\ cancelled
  /\ LookupFails(f)
  /\ UNCHANGED <<state, budget, waitGroup, objects, unused, closing>>

WaitSucceeds(f) ==
  /\ pc[f] = "joined" /\ found[f] # None
  /\ Goto(f, "found")
  /\ UNCHANGED <<state, budget, waitGroup, objects, address, found, batch,
                 unused, closing>>

-----------------------------------------------------------------------------
(* ForwardBatch: payloads collect for the current target and are flushed to *)
(* it when another target is found, when 64 are there and at the end.       *)

\* The found target becomes the current one; an ICMP request is just written.
Settle(f) ==
  /\ pc[f] = "found"
  /\ current' = [current EXCEPT ![f] =
                   IF address[f] \in ICMP THEN None ELSE found[f]]
  /\ erred' \in IF address[f] \in ICMP THEN {erred, erred \cup {f}} ELSE {erred}
  /\ Goto(f, "idle")
  /\ address' = [address EXCEPT ![f] = None]
  /\ found' = [found EXCEPT ![f] = None]
  /\ UNCHANGED <<state, budget, waitGroup, objects, unused, closing>>

\* An undecodable or replayed packet.
InvalidPacket(f) ==
  /\ pc[f] = "idle"
  /\ erred' = erred \cup {f}
  /\ UNCHANGED <<state, budget, waitGroup, objects, pc, address, found, current,
                 unused, closing>>

\* writeBatch fails: the first error of a batch removes the target it met.
FlushFails(f) ==
  /\ pc[f] \in {"idle", "found"} /\ current[f] # None /\ f \notin erred
  /\ erred' = erred \cup {f}
  /\ Goto(f, "remove")
  /\ UNCHANGED <<state, budget, waitGroup, objects, address, found, current,
                 unused, closing>>

FlushRemoves(f) ==
  /\ pc[f] = "remove"
  /\ Evict(current[f])
  /\ Goto(f, "close")
  /\ UNCHANGED <<cancelled, closed, opening, budget, waitGroup, objects, address,
                 found, batch, unused, closing>>

\* The removed target stays the current one until another is found.
FlushCloses(f) ==
  /\ pc[f] = "close"
  /\ CloseTarget(current[f])
  /\ Goto(f, IF found[f] = None THEN "idle" ELSE "found")
  /\ UNCHANGED <<state, others, waitGroup, reader, address, found, batch, unused,
                 closing>>

\* The batch ends, or an ICMP packet in it drops the current target.
BatchEnds(f) ==
  /\ pc[f] = "idle" /\ (current[f] # None \/ f \in erred)
  /\ current' = [current EXCEPT ![f] = None]
  /\ erred' \in {erred, erred \ {f}}
  /\ UNCHANGED <<state, budget, waitGroup, objects, pc, address, found, unused,
                 closing>>

-----------------------------------------------------------------------------
(* receive, receiveICMP: one goroutine for each target in the table *)

\* A read or a response fails, or the target was idle for a minute.
ReadFails(t) ==
  /\ reader[t] = "run"
  /\ reader' = [reader EXCEPT ![t] = "remove"]
  /\ UNCHANGED <<state, budget, waitGroup, open, leased, callers, closing>>

\* Variant: the reader closes its target and leaves it in the table.
ReadForgetsTable(t) ==
  /\ reader[t] = "remove"
  /\ reader' = [reader EXCEPT ![t] = "close"]
  /\ UNCHANGED <<state, budget, waitGroup, open, leased, callers, closing>>

ReadRemoves(t) ==
  /\ reader[t] = "remove"
  /\ Evict(t)
  /\ reader' = [reader EXCEPT ![t] = "close"]
  /\ UNCHANGED <<cancelled, closed, opening, budget, waitGroup, open, leased,
                 callers, closing>>

ReadCloses(t) ==
  /\ reader[t] = "close"
  /\ CloseTarget(t)
  /\ reader' = [reader EXCEPT ![t] = "off"]
  /\ waitGroup' = waitGroup - 1
  /\ UNCHANGED <<state, others, callers, closing>>

-----------------------------------------------------------------------------
(* Close, the end of the request, and the rest of the process *)

\* The context of the HTTP/3 request ends.
Cancel ==
  /\ ~cancelled
  /\ cancelled' = TRUE
  /\ UNCHANGED <<closed, table, opening, budget, waitGroup, objects, callers,
                 closing>>

Close ==
  /\ closer = "no"
  /\ cancelled' = TRUE /\ closer' = "lock"
  /\ UNCHANGED <<closed, table, opening, budget, waitGroup, objects, callers,
                 sweep>>

CloseLocks ==
  /\ closer = "lock"
  /\ closed' = TRUE
  /\ sweep' = {table[a] : a \in Cached}
  /\ table' = [a \in Addresses |-> None]
  /\ closer' = "sweep"
  /\ UNCHANGED <<cancelled, opening, budget, waitGroup, objects, callers>>

CloseSweeps(t) ==
  /\ closer = "sweep" /\ t \in sweep
  /\ CloseTarget(t)
  /\ sweep' = sweep \ {t}
  /\ UNCHANGED <<state, others, waitGroup, reader, callers, closer>>

\* waitGroup.Wait
CloseJoins ==
  /\ closer = "sweep" /\ sweep = {} /\ waitGroup = 0
  /\ closer' = "done"
  /\ UNCHANGED <<state, budget, waitGroup, objects, callers, sweep>>

\* Other relays and transports reserve and release.
OtherReserves ==
  /\ used < Budget /\ others < MaxOthers
  /\ used' = used + 1 /\ others' = others + 1
  /\ UNCHANGED <<state, waitGroup, objects, callers, closing>>

OtherReleases ==
  /\ others > 0
  /\ used' = used - 1 /\ others' = others - 1
  /\ UNCHANGED <<state, waitGroup, objects, callers, closing>>

-----------------------------------------------------------------------------
LookupStep(f) ==
  \/ BeginRefused(f) \/ BeginJoins(f) \/ BeginCreates(f)
  \/ DialFails(f) \/ \E t \in Targets : Dialled(f, t)
  \/ FinishInstalls(f) \/ FinishRejects(f) \/ FinishMade(f) \/ FinishAborts(f)
  \/ WaitFails(f) \/ WaitSucceeds(f)

ForwardStep(f) ==
  \/ \E a \in Addresses : Lookup(f, a)
  \/ Settle(f) \/ InvalidPacket(f) \/ FlushFails(f) \/ FlushRemoves(f)
  \/ FlushCloses(f) \/ BatchEnds(f)

ReaderStep(t) == ReadFails(t) \/ ReadRemoves(t) \/ ReadCloses(t)

CloserStep ==
  CloseLocks \/ CloseJoins \/ \E t \in Targets : CloseSweeps(t)

Next ==
  \/ \E f \in Forwarders : LookupStep(f) \/ ForwardStep(f)
  \/ \E t \in Targets : ReaderStep(t)
  \/ Cancel \/ Close \/ CloserStep \/ OtherReserves \/ OtherReleases

Spec == Init /\ [][Next]_vars

\* Every goroutine runs, a dial ends (its context is the relay's), and a read
\* of a closed connection fails.  A read of an open one may wait for ever.
Fairness ==
  /\ \A f \in Forwarders : /\ WF_vars(LookupStep(f))
                           /\ WF_vars(FlushRemoves(f) \/ FlushCloses(f))
  /\ \A t \in Targets : /\ WF_vars(t \notin open /\ ReadFails(t))
                         /\ WF_vars(ReadRemoves(t) \/ ReadCloses(t))
  /\ WF_vars(CloserStep)

FairSpec == Spec /\ Fairness

-----------------------------------------------------------------------------
Labels == {"idle", "begin", "dial", "finish", "made", "abort", "wait", "joined",
           "found", "remove", "close"}

\* The state is well formed.  The counter of the WaitGroup never goes below
\* zero, which would panic, and neither the table with the targets still being
\* opened nor the budget exceeds its limit (beginTarget, ReserveUDPTarget).
TypeOK ==
  /\ cancelled \in BOOLEAN /\ closed \in BOOLEAN
  /\ table \in [Addresses -> Targets \cup {None}]
  /\ opening \in [Addresses -> Forwarders \cup {None}]
  /\ used \in 0..Budget /\ others \in 0..Budget /\ waitGroup \in Nat
  /\ open \subseteq Targets /\ leased \subseteq Targets /\ sweep \subseteq Targets
  /\ reader \in [Targets -> {"off", "run", "remove", "close"}]
  /\ pc \in [Forwarders -> Labels]
  /\ address \in [Forwarders -> Addresses \cup {None}]
  /\ found \in [Forwarders -> Targets \cup {None}]
  /\ current \in [Forwarders -> Targets \cup {None}]
  /\ erred \subseteq Forwarders /\ unused \subseteq Forwarders
  /\ closer \in {"no", "lock", "sweep", "done"}
  /\ Cardinality(Cached) + Cardinality(Opening) <= MaxTargets

\* The budget counts exactly the targets that exist: every lease belongs to an
\* opening or to a target whose connection is open, so that failures, races of
\* removeTarget with Close and repeated closes neither leak nor return twice.
BudgetExact ==
  /\ used = others + Cardinality(leased) + Cardinality(unused)
  /\ leased = open

\* A target in the table can be used: its connection is open and a goroutine
\* answers for it and will remove it, whoever closes targets concurrently.
CachedLive ==
  \A a \in Cached : /\ table[a] \in open
                     /\ reader[table[a]] \in {"run", "remove"}

\* Once Close has returned the relay owns nothing: no connection, no lease, no
\* goroutine, and no lookup that was under way brings one back.
NothingAfterClose ==
  closer = "done" =>
    /\ open = {} /\ unused = {} /\ Cached = {} /\ Opening = {}
    /\ \A t \in Targets : reader[t] = "off"
    /\ used = others

\* Close returns, whatever dials, waits and reads are under way.
CloseReturns == []<>(closer \in {"no", "done"})

Symmetry == Permutations(Forwarders) \cup Permutations(Targets)
=============================================================================
