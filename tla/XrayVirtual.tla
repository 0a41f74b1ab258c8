---------------------------- MODULE XrayVirtual ----------------------------
(***************************************************************************)
(* virtualPacketConn (integration/xray/inbound.go): the packet socket the  *)
(* HTTP/3 server reads, fed by the Xray UDP associations.  An association  *)
(* registers its connection under its peer's address, feeds what it reads  *)
(* into one bounded queue and unregisters when it ends; an association     *)
(* with the same address takes the entry over.  Queued bytes count against *)
(* the socket and against the process.  A read deadline, which only makes  *)
(* ReadFrom return or look again, and WriteTo, whose writer is a           *)
(* ConnioWriter, are left out.                                             *)
(***************************************************************************)
EXTENDS Naturals, Sequences, FiniteSets

LOCAL INSTANCE SequencesExt

CONSTANTS Assocs,        \* associations, numbered
          Peer,          \* the address of each
          Costs,         \* len(data) + 64
          QueueSlots,    \* capacity of recvCh
          SocketBytes, ProcessBytes,  \* the 16 MiB and 64 MiB budgets
          MaxFeeds       \* bound: packets fed

Addresses == {Peer[a] : a \in Assocs}
VCloser == 0             \* the goroutine in Close; an association is its number
Nobody == 0

VARIABLES recvCh, queuedBytes,
          processBytes,  \* virtualQueuedBytes
          elsewhere,     \* the part other sockets of the process hold
          vclosed,       \* closed, closeCh
          writers,       \* writers and writeHelpers
          assoc,         \* how far each association is
          helper,        \* its connio.Writer is open
          closing,       \* writers each goroutine must still close
          vreader,       \* ReadFrom
          vclose, feeds

byteVars == <<recvCh, queuedBytes, processBytes, elsewhere>>
assocVars == <<writers, assoc, helper, closing>>
virtualVars == <<byteVars, assocVars, vclosed, vreader, vclose, feeds>>

VirtualInit ==
  /\ recvCh = <<>> /\ queuedBytes = 0 /\ processBytes = 0 /\ elsewhere = 0
  /\ vclosed = FALSE /\ vclose = "idle" /\ feeds = 0
  /\ writers = [p \in Addresses |-> Nobody]
  /\ assoc = [a \in Assocs |-> "new"] /\ helper = [a \in Assocs |-> FALSE]
  /\ closing = [g \in Assocs \cup {VCloser} |-> {}]
  /\ vreader = [pc |-> "idle", cost |-> 0]
----------------------------------------------------------------------------
(* registerConn and unregisterConn, called by handleUDP.                   *)
Register(a) ==
  LET old == writers[Peer[a]] IN
  /\ assoc[a] = "new"
  /\ \/ /\ vclosed
        /\ assoc' = [assoc EXCEPT ![a] = "refused"]
        /\ UNCHANGED <<writers, helper, closing>>
     \/ /\ ~vclosed
        /\ writers' = [writers EXCEPT ![Peer[a]] = a]
        /\ helper' = [helper EXCEPT ![a] = TRUE]
        /\ assoc' = [b \in Assocs |->
             IF b = a THEN "live" ELSE IF b = old THEN "replaced" ELSE assoc[b]]
        /\ closing' = [closing EXCEPT ![a] = {old} \ {Nobody}]
  /\ UNCHANGED <<byteVars, vclosed, vreader, vclose, feeds>>

\* The association may have been replaced: it removes only its own entry.
Unregister(a) ==
  LET own == writers[Peer[a]] = a IN
  /\ assoc[a] \in {"live", "replaced", "refused"} /\ closing[a] = {}
  /\ assoc' = [assoc EXCEPT ![a] = "ended"]
  /\ writers' = IF own THEN [writers EXCEPT ![Peer[a]] = Nobody] ELSE writers
  /\ closing' = IF own THEN [closing EXCEPT ![a] = {a}] ELSE closing
  /\ UNCHANGED <<byteVars, helper, vclosed, vreader, vclose, feeds>>

\* writer.Close, outside the lock.
CloseHelper(g) ==
  \E a \in closing[g] :
    /\ helper' = [helper EXCEPT ![a] = FALSE]
    /\ closing' = [closing EXCEPT ![g] = @ \ {a}]
    /\ UNCHANGED <<byteVars, writers, assoc, vclosed, vreader, vclose, feeds>>
----------------------------------------------------------------------------
(* feed, under feedMu: dropped when closed, over a budget or out of slots. *)
Charge(cost) ==
  /\ queuedBytes' = queuedBytes + cost
  /\ processBytes' = processBytes + cost

Refund(cost) ==
  /\ queuedBytes' = queuedBytes - cost
  /\ processBytes' = processBytes - cost

Feed(a, cost) ==
  /\ assoc[a] \in {"live", "replaced"} /\ closing[a] = {} /\ feeds < MaxFeeds
  /\ feeds' = feeds + 1
  /\ \/ /\ \/ vclosed \/ Len(recvCh) = QueueSlots
           \/ queuedBytes + cost > SocketBytes
           \/ processBytes + cost > ProcessBytes
        /\ UNCHANGED byteVars
     \/ /\ ~vclosed /\ Len(recvCh) < QueueSlots
        /\ queuedBytes + cost <= SocketBytes
        /\ processBytes + cost <= ProcessBytes
        /\ Charge(cost)
        /\ recvCh' = Append(recvCh, cost)
        /\ UNCHANGED elsewhere
  /\ UNCHANGED <<assocVars, vclosed, vreader, vclose>>

\* Another socket of the process takes or returns bytes.
Elsewhere ==
  /\ \E n \in {elsewhere - 1, elsewhere + 1} \cap (0..1) :
       /\ processBytes - elsewhere + n <= ProcessBytes
       /\ elsewhere' = n
       /\ processBytes' = processBytes - elsewhere + n
  /\ UNCHANGED <<recvCh, queuedBytes, assocVars, vclosed, vreader, vclose,
                 feeds>>
----------------------------------------------------------------------------
(* ReadFrom: the check of closed, the select, the accounting.              *)
ReadEnter ==
  /\ vreader.pc = "idle"
  /\ vreader' = [vreader EXCEPT !.pc = IF vclosed THEN "returned" ELSE "select"]
  /\ UNCHANGED <<byteVars, assocVars, vclosed, vclose, feeds>>

ReadSelect ==
  /\ vreader.pc = "select"
  /\ \/ /\ recvCh # <<>>
        /\ vreader' = [pc |-> "took", cost |-> Head(recvCh)]
        /\ recvCh' = Tail(recvCh)
     \/ /\ vclosed
        /\ vreader' = [vreader EXCEPT !.pc = "returned"]
        /\ UNCHANGED recvCh
  /\ UNCHANGED <<queuedBytes, processBytes, elsewhere, assocVars, vclosed,
                 vclose, feeds>>

ReadAccount ==
  /\ vreader.pc = "took"
  /\ Refund(vreader.cost)
  /\ vreader' = [pc |-> "idle", cost |-> 0]
  /\ UNCHANGED <<recvCh, elsewhere, assocVars, vclosed, vclose, feeds>>
----------------------------------------------------------------------------
(* Close: mark and drain under feedMu, then close the writers it finds.    *)
TotalCost(q) == FoldSeq(LAMBDA c, sum : c + sum, 0, q)

CloseDrain ==
  /\ vclose = "idle" /\ vclose' = "drained"
  /\ vclosed' = TRUE /\ recvCh' = <<>>
  /\ Refund(TotalCost(recvCh))
  /\ UNCHANGED <<elsewhere, assocVars, vreader, feeds>>

CloseSnapshot ==
  /\ vclose = "drained" /\ vclose' = "closing"
  /\ closing' = [closing EXCEPT ![VCloser] =
                   {writers[p] : p \in Addresses} \ {Nobody}]
  /\ UNCHANGED <<byteVars, writers, assoc, helper, vclosed, vreader, feeds>>

CloseDone ==
  /\ vclose = "closing" /\ closing[VCloser] = {} /\ vclose' = "returned"
  /\ UNCHANGED <<byteVars, assocVars, vclosed, vreader, feeds>>

VirtualProgress ==
  \/ \E g \in Assocs \cup {VCloser} : CloseHelper(g)
  \/ ReadEnter \/ ReadSelect \/ ReadAccount \/ CloseSnapshot \/ CloseDone

VirtualNext ==
  \/ VirtualProgress \/ CloseDrain \/ Elsewhere
  \/ \E a \in Assocs : \/ Register(a) \/ Unregister(a)
                       \/ \E cost \in Costs : Feed(a, cost)
----------------------------------------------------------------------------
(* Both byte counters are exactly what is queued or being read, within     *)
(* their budgets, and nothing is queued once closed; a live association    *)
(* keeps its entry and its writer until it ends, is replaced or the socket *)
(* closes, and no writer is left open by one that has ended, nor after     *)
(* Close (inbound.go: feed, ReadFrom, registerConn, unregisterConn, Close).*)
VirtualExact ==
  /\ queuedBytes = TotalCost(recvCh) + vreader.cost
  /\ processBytes = queuedBytes + elsewhere
  /\ queuedBytes <= SocketBytes /\ processBytes <= ProcessBytes
  /\ vclosed => recvCh = <<>>
  /\ \A a \in Assocs :
       /\ assoc[a] = "live" =>
            writers[Peer[a]] = a /\ (helper[a] \/ vclosed)
       /\ assoc[a] \in {"replaced", "ended"} /\ helper[a] =>
            \E g \in DOMAIN closing : a \in closing[g]
       /\ vclose = "returned" /\ helper[a] =>
            \E g \in Assocs : a \in closing[g]

\* Close is under way; it has returned and so has the blocked ReadFrom.
VirtualDue == vclose = "drained"
VirtualDone == vclose = "returned" /\ vreader.pc = "returned"
=============================================================================
