----------------------------- MODULE CarrierPool -----------------------------
(***************************************************************************)
(* pkg/client (client.go, scaler.go, conn_tcp.go) with                     *)
(* pkg/plugin/autoscaler: the pool of H2 carriers of one Client.  Dials    *)
(* reserve a stream on the least loaded carrier, AddCarrier probes a new   *)
(* carrier without a lock and then registers it, RemoveIdleCarrier evicts  *)
(* one that has been idle, and Close drains the pool.  The H3 pool is kept *)
(* by a copy of the same code.                                             *)
(*                                                                         *)
(* carrierMu is represented by `readers`, the dials that hold it for       *)
(* reading: a section under the write lock is one step, taken when there   *)
(* are none; a sweep that waits for the lock keeps new readers out.  Times *)
(* are kept as ages that stop at the limit they are compared with.         *)
(***************************************************************************)
EXTENDS Integers, Sequences, FiniteSets, Functions

CONSTANTS Carriers, Dials, None,
          BaseCarriers,  \* the carriers New creates
          MaxCarriers,   \* c.maxCarriers, and the autoscaler's MaxCarriers
          Callers,       \* callers of AddCarrier other than the autoscaler
          Threshold, Peak,  \* ScaleUpThreshold, max(6, 2 * ScaleUpThreshold)
          MinIdle,       \* ScaleDownIdle
          Cooldown

BaseList == CHOOSE s \in [1..Cardinality(BaseCarriers) -> BaseCarriers] :
              IsInjective(s)
Base == Len(BaseList)    \* baseH2Carriers
Scaler == "scaler"       \* the runLoop goroutine of the Autoscaler
Adders == Callers \cup {Scaler}
Zero == -1               \* time.Time{}

ASSUME PoolAssumption ==
  /\ BaseCarriers \subseteq Carriers /\ IsFiniteSet(BaseCarriers)
  /\ MaxCarriers \in Nat /\ Base \in 1..MaxCarriers
  /\ MinIdle \in Nat \ {0} /\ Cooldown \in Nat
  /\ IsFiniteSet(Dials) /\ Scaler \notin Callers
  /\ Carriers \cap {None, "idle", "book", "sweep", "exit"} = {}

VARIABLES
  closed,      \* c.closed
  pool,        \* c.h2Clients
  readers,     \* the dials that hold carrierMu for reading
  life,        \* life[k]: "free", "probe", "pooled", "out" or "closed"
  active,      \* activeStreams
  idle,        \* the age of idleSince, or Zero
  pc, on,      \* a dial: where it is, and the carrier it picked
  adder,       \* adder[a]: the carrier AddCarrier is probing, or a label
  signal,      \* scaleUpH2Ch holds a token
  cool,        \* the age of lastScaleUpH2
  stopped,     \* the autoscaler's context is cancelled
  closer       \* progress of Client.Close

dials == <<pc, on>>
scaler == <<adder, signal, cool, stopped>>
vars == <<closed, pool, readers, life, active, idle, dials, scaler, closer>>

Init ==
  /\ closed = FALSE /\ pool = BaseList /\ readers = {}
  /\ life = [k \in Carriers |-> IF k \in BaseCarriers THEN "pooled"
                                                         ELSE "free"]
  /\ active = [k \in Carriers |-> 0] /\ idle = [k \in Carriers |-> Zero]
  /\ pc = [d \in Dials |-> "idle"] /\ on = [d \in Dials |-> None]
  /\ adder = [a \in Adders |-> "idle"]
  /\ signal = FALSE /\ cool = Cooldown /\ stopped = FALSE /\ closer = "no"

Goto(d, label) == pc' = [pc EXCEPT ![d] = label]
Pooled == Range(pool)

-----------------------------------------------------------------------------
(* DialContext and the streams it opens *)

DialContext(d) ==
  /\ pc[d] = "idle" /\ ~closed
  /\ Goto(d, "pick")
  /\ UNCHANGED <<closed, pool, readers, life, active, idle, on, scaler, closer>>

\* Close has emptied the pool since the dial looked at c.closed.
PickNone(d) ==
  /\ pc[d] = "pick" /\ pool = <<>>
  /\ Goto(d, "idle")
  /\ UNCHANGED <<closed, pool, readers, life, active, idle, on, scaler, closer>>

\* pickBestH2Client, under the read lock: the scan starts anywhere and finds a
\* carrier with the fewest streams...
PickScan(d, k) ==
  /\ pc[d] = "pick" /\ k \in Pooled /\ adder[Scaler] # "sweep"
  /\ \A j \in Pooled : active[k] <= active[j]
  /\ readers' = readers \cup {d}
  /\ on' = [on EXCEPT ![d] = k]
  /\ Goto(d, "picked")
  /\ UNCHANGED <<closed, pool, life, active, idle, scaler, closer>>

\* ...which is counted before the lock is released and the autoscaler told.
PickAdd(d) ==
  /\ pc[d] = "picked"
  /\ active' = [active EXCEPT ![on[d]] = @ + 1]
  /\ readers' = readers \ {d}
  /\ signal' = (signal \/ (~stopped /\ Len(pool) < MaxCarriers))
  /\ Goto(d, "dial")
  /\ UNCHANGED <<closed, pool, life, idle, on, adder, cool, stopped, closer>>

\* dialH2TCP registers the stream with its carrier unless that was closed...
DialSucceeds(d) ==
  /\ pc[d] = "dial" /\ life[on[d]] # "closed"
  /\ Goto(d, "open")
  /\ UNCHANGED <<closed, pool, readers, life, active, idle, on, scaler, closer>>

Release(d) ==
  /\ active' = [active EXCEPT ![on[d]] = @ - 1]
  /\ on' = [on EXCEPT ![d] = None]
  /\ Goto(d, "idle")

\* ...or fails, after a second attempt or because its context ended, and the
\* caller gives the reservation back.
DialFails(d) ==
  /\ pc[d] = "dial"
  /\ Release(d)
  /\ UNCHANGED <<closed, pool, readers, life, idle, scaler, closer>>

\* Variant: the swap does not tell the first caller from the second.
StreamClosesTwice(d) ==
  /\ pc[d] \in {"open", "closing"}
  /\ active' = [active EXCEPT ![on[d]] = @ - 1]
  /\ Goto(d, IF pc[d] = "open" THEN "closing" ELSE "idle")
  /\ on' = IF pc[d] = "open" THEN on ELSE [on EXCEPT ![d] = None]
  /\ UNCHANGED <<closed, pool, readers, life, idle, scaler, closer>>

\* rawH2Conn.Close: the first caller, the user or the carrier's close, wins
\* the swap and takes the stream off its carrier...
StreamCloses(d) ==
  /\ pc[d] = "open"
  /\ Goto(d, "closing")
  /\ UNCHANGED <<closed, pool, readers, life, active, idle, on, scaler, closer>>

\* ...then off the count.
StreamLeaves(d) ==
  /\ pc[d] = "closing"
  /\ Release(d)
  /\ UNCHANGED <<closed, pool, readers, life, idle, scaler, closer>>

-----------------------------------------------------------------------------
(* AddCarrier and RemoveIdleCarrier *)

Unused(k) == life[k] \in {"free", "closed"} /\ \A d \in Dials : on[d] # k

\* The first half of AddCarrier: the client is open and has room; `now`, which
\* becomes idleSince, is read before the probe.
AddProbes(a, k) ==
  /\ adder[a] = "idle" /\ ~closed /\ Len(pool) < MaxCarriers
  /\ Unused(k)
  /\ adder' = [adder EXCEPT ![a] = k]
  /\ life' = [life EXCEPT ![k] = "probe"]
  /\ idle' = [idle EXCEPT ![k] = 0]
  /\ UNCHANGED <<closed, pool, readers, active, dials, stopped, closer>>

Booked(a) == IF a = Scaler THEN "book" ELSE "idle"

\* Variant: Close may have drained the pool since it was last looked at.
RegisterUnchecked(a) ==
  /\ adder[a] \in Carriers /\ readers = {}
  /\ Len(pool) < MaxCarriers /\ (a = Scaler => ~stopped)
  /\ pool' = Append(pool, adder[a])
  /\ life' = [life EXCEPT ![adder[a]] = "pooled"]
  /\ adder' = [adder EXCEPT ![a] = Booked(a)]
  /\ UNCHANGED <<closed, readers, active, idle, dials, signal, cool, stopped,
                 closer>>

\* The second half, under c.mu and carrierMu.
AddRegisters(a) ==
  /\ adder[a] \in Carriers /\ readers = {}
  /\ ~closed /\ Len(pool) < MaxCarriers /\ (a = Scaler => ~stopped)
  /\ pool' = Append(pool, adder[a])
  /\ life' = [life EXCEPT ![adder[a]] = "pooled"]
  /\ adder' = [adder EXCEPT ![a] = Booked(a)]
  /\ UNCHANGED <<closed, readers, active, idle, dials, signal, cool, stopped,
                 closer>>

\* The probe failed or its context ended, or what was checked before the probe
\* no longer holds: the new carrier is closed.
AddGivesUp(a) ==
  /\ adder[a] \in Carriers
  /\ life' = [life EXCEPT ![adder[a]] = "closed"]
  /\ adder' = [adder EXCEPT ![a] = "idle"]
  /\ UNCHANGED <<closed, pool, readers, active, idle, dials, signal, cool,
                 stopped, closer>>

Expired(k, age) == active[k] = 0 /\ age[k] >= MinIdle

\* idleSince as the sweep leaves it: set for an idle carrier it did not know,
\* cleared for one with streams; the sweep ends at the first one to evict.
Seen(k) == IF active[k] > 0 THEN Zero ELSE IF idle[k] = Zero THEN 0 ELSE idle[k]
Candidates == {i \in Base + 1 .. Len(pool) : Expired(pool[i], idle)}
Swept == {pool[i] : i \in {j \in Base + 1 .. Len(pool) :
                             \A m \in Candidates : j <= m}}

Sweep ==
  idle' = [k \in Carriers |-> IF k \in Swept THEN Seen(k) ELSE idle[k]]

\* append(h2Clients[:i], h2Clients[i+1:]...)
Without(s, i) == SubSeq(s, 1, i - 1) \o SubSeq(s, i + 1, Len(s))

EvictFirst(indices) ==
  IF indices = {}
  THEN UNCHANGED <<pool, life>>
  ELSE LET i == CHOOSE i \in indices : \A m \in indices : i <= m
       IN pool' = Without(pool, i) /\ life' = [life EXCEPT ![pool[i]] = "out"]

\* Variant: the reservations under the read lock are not waited for.
RemoveUnlocked == Sweep /\ EvictFirst(Candidates)

\* Variant: idleSince is cleared, and not set again.
RemoveForgets ==
  /\ readers = {} /\ EvictFirst(Candidates)
  /\ idle' = [k \in Carriers |-> IF k \in Swept /\ active[k] > 0
                                 THEN Zero ELSE idle[k]]

\* RemoveIdleCarrier under carrierMu, up to evicted.close().
RemoveIdleCarrier == readers = {} /\ Sweep /\ EvictFirst(Candidates)

\* h2TransportClient.close, of an evicted or drained carrier: its streams are
\* closed and no other can be registered.
CarrierCloses(k) ==
  /\ life[k] = "out"
  /\ life' = [life EXCEPT ![k] = "closed"]
  /\ pc' = [d \in Dials |-> IF on[d] = k /\ pc[d] = "open" THEN "closing"
                                                           ELSE pc[d]]
  /\ UNCHANGED <<closed, pool, readers, active, idle, on, scaler, closer>>

-----------------------------------------------------------------------------
(* The autoscaler's runLoop *)

Total == FoldFunctionOnSet(+, 0, active, Pooled)

\* The criteria of tryScaleUp over Stats.
ShouldScale ==
  \/ \A k \in Pooled : active[k] >= Threshold
  \/ Total >= Threshold * Len(pool)
  \/ (\E k \in Pooled : active[k] >= Peak) /\ Total > Len(pool)

tryScaleUp(k) ==
  /\ adder[Scaler] = "idle" /\ signal
  /\ cool >= Cooldown /\ pool # <<>> /\ ShouldScale
  /\ signal' = FALSE
  /\ AddProbes(Scaler, k)
  /\ UNCHANGED cool

ScaleUpDeclines ==
  /\ adder[Scaler] = "idle" /\ signal
  /\ \/ cool < Cooldown \/ pool = <<>> \/ Len(pool) >= MaxCarriers
     \/ ~ShouldScale
  /\ signal' = FALSE
  /\ UNCHANGED <<closed, pool, readers, life, active, idle, dials, adder, cool,
                 stopped, closer>>

\* AddCarrier returned: lastScaleUpH2 = time.Now()
ScaledUp ==
  /\ adder[Scaler] = "book"
  /\ adder' = [adder EXCEPT ![Scaler] = "idle"]
  /\ cool' = 0
  /\ UNCHANGED <<closed, pool, readers, life, active, idle, dials, signal,
                 stopped, closer>>

\* The ticker: RemoveIdleCarrier finds the client open and asks for the lock...
tryScaleDown ==
  /\ adder[Scaler] = "idle" /\ ~closed
  /\ adder' = [adder EXCEPT ![Scaler] = "sweep"]
  /\ UNCHANGED <<closed, pool, readers, life, active, idle, dials, signal, cool,
                 stopped, closer>>

\* ...and gets it.
ScaledDown ==
  /\ adder[Scaler] = "sweep"
  /\ RemoveIdleCarrier
  /\ adder' = [adder EXCEPT ![Scaler] = "idle"]
  /\ UNCHANGED <<closed, readers, active, dials, signal, cool, stopped, closer>>

LoopExits ==
  /\ adder[Scaler] = "idle" /\ stopped
  /\ adder' = [adder EXCEPT ![Scaler] = "exit"]
  /\ UNCHANGED <<closed, pool, readers, life, active, idle, dials, signal, cool,
                 stopped, closer>>

\* Another caller of AddCarrier.
AddCarrier(a, k) == AddProbes(a, k) /\ UNCHANGED <<signal, cool>>

Older(age, limit) == IF age = Zero \/ age = limit THEN age ELSE age + 1

Tick ==
  /\ idle' = [k \in Carriers |-> Older(idle[k], MinIdle)]
  /\ cool' = Older(cool, Cooldown)
  /\ <<idle', cool'>> # <<idle, cool>>
  /\ UNCHANGED <<closed, pool, readers, life, active, dials, adder, signal,
                 stopped, closer>>

-----------------------------------------------------------------------------
(* Client.Close *)

Close ==
  /\ closer = "no"
  /\ closed' = TRUE /\ closer' = "scaler"
  /\ UNCHANGED <<pool, readers, life, active, idle, dials, scaler>>

\* Variant: the loop is joined but not cancelled.
CloseOnlyJoins ==
  /\ closer = "scaler"
  /\ closer' = "join"
  /\ UNCHANGED <<closed, pool, readers, life, active, idle, dials, scaler>>

\* autoscaler.Close cancels the loop...
CloseStops ==
  /\ closer = "scaler"
  /\ stopped' = TRUE /\ closer' = "join"
  /\ UNCHANGED <<closed, pool, readers, life, active, idle, dials, adder, signal,
                 cool>>

\* ...and joins it; then the pool is taken under carrierMu...
CloseDrains ==
  /\ closer = "join" /\ adder[Scaler] = "exit" /\ readers = {}
  /\ pool' = <<>>
  /\ life' = [k \in Carriers |-> IF k \in Pooled THEN "out" ELSE life[k]]
  /\ closer' = "close"
  /\ UNCHANGED <<closed, readers, active, idle, dials, scaler>>

\* ...and its carriers are closed (CarrierCloses) before Close returns.
CloseReturned ==
  /\ closer = "close" /\ \A k \in Carriers : life[k] # "out"
  /\ closer' = "done"
  /\ UNCHANGED <<closed, pool, readers, life, active, idle, dials, scaler>>

-----------------------------------------------------------------------------
DialStep(d) ==
  \/ PickNone(d) \/ (\E k \in Carriers : PickScan(d, k)) \/ PickAdd(d)
  \/ DialSucceeds(d) \/ DialFails(d) \/ StreamLeaves(d)

AddEnds(a) == AddRegisters(a) \/ AddGivesUp(a)
CloserStep == CloseStops \/ CloseDrains \/ CloseReturned

Next ==
  \/ \E d \in Dials : DialContext(d) \/ DialStep(d) \/ StreamCloses(d)
  \/ \E a \in Callers, k \in Carriers : AddCarrier(a, k)
  \/ \E a \in Adders : AddEnds(a)
  \/ \E k \in Carriers : CarrierCloses(k) \/ tryScaleUp(k)
  \/ ScaleUpDeclines \/ ScaledUp \/ tryScaleDown \/ ScaledDown \/ LoopExits
  \/ Tick \/ Close \/ CloserStep

Spec == Init /\ [][Next]_vars

\* Goroutines run, time passes, the ticker fires, and a dial and a probe end
\* (each has a context with a deadline).  A stream may stay open for ever.
\* The loop's select takes every case that is ready again and again.
Fairness ==
  /\ \A d \in Dials : WF_vars(DialStep(d))
  /\ \A a \in Adders : WF_vars(AddEnds(a))
  /\ \A k \in Carriers : WF_vars(CarrierCloses(k))
  /\ WF_vars(ScaledUp \/ ScaledDown) /\ WF_vars(Tick) /\ WF_vars(CloserStep)
  /\ SF_vars(tryScaleDown) /\ SF_vars(LoopExits)

FairSpec == Spec /\ Fairness

-----------------------------------------------------------------------------
(* Properties *)

Holding == {"dial", "open", "closing"}

\* The state is well formed; the pool holds each carrier once and never more
\* than maxCarriers, though AddCarrier looks at its size before the probe.
TypeOK ==
  /\ closed \in BOOLEAN /\ stopped \in BOOLEAN /\ signal \in BOOLEAN
  /\ pool \in Seq(Carriers) /\ Len(pool) <= MaxCarriers
  /\ Cardinality(Pooled) = Len(pool)
  /\ readers \subseteq Dials
  /\ life \in [Carriers -> {"free", "probe", "pooled", "out", "closed"}]
  /\ active \in [Carriers -> Nat] /\ idle \in [Carriers -> Zero .. MinIdle]
  /\ pc \in [Dials -> {"idle", "pick", "picked"} \cup Holding]
  /\ on \in [Dials -> Carriers \cup {None}]
  /\ adder \in [Adders -> Carriers \cup {"idle", "book", "sweep", "exit"}]
  /\ cool \in 0..Cooldown
  /\ closer \in {"no", "scaler", "join", "close", "done"}

\* activeStreams counts the streams a carrier has, reserved, open or closing:
\* a dial that fails, a user's Close and the carrier's own close each release a
\* reservation once between them ("must not decrement the counter a second
\* time").
ReservationsExact ==
  \A k \in Carriers :
    active[k] = Cardinality({d \in Dials : on[d] = k /\ pc[d] \in Holding})

\* The autoscaler takes away neither a stream nor the base: a carrier that a
\* dial has picked, or has a stream on, stays in the pool until Close drains
\* it, and so do the carriers New created, in their places (RemoveIdleCarrier
\* counts on the base being the first ones).
NoStreamEvicted ==
  closer \in {"no", "scaler", "join"} =>
    /\ \A d \in Dials : on[d] # None => on[d] \in Pooled
    /\ Base <= Len(pool) /\ SubSeq(pool, 1, Base) = BaseList

\* Nothing outlives Close: when it has returned the pool is empty and stays
\* so, every carrier is closed or about to be by the call that probes it, and
\* no stream is open.
NothingAfterClose ==
  closer = "done" =>
    /\ pool = <<>>
    /\ \A k \in Carriers :
         \/ life[k] \in {"free", "closed"}
         \/ life[k] = "probe" /\ \E a \in Callers : adder[a] = k
    /\ \A d \in Dials : pc[d] # "open"

\* An idle dynamic carrier is eventually removed: as long as the client is
\* open, no carrier beyond the base stays in the pool without streams for ever.
IdleReclaimed ==
  \A k \in Carriers \ BaseCarriers :
    []<>(closed \/ k \notin Pooled \/ active[k] > 0)

\* Close returns, whatever dials, streams and probes there are.
CloseReturns == []<>(closer \in {"no", "done"})
=============================================================================
