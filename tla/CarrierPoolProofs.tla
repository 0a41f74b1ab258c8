------------------------- MODULE CarrierPoolProofs -------------------------
(***************************************************************************)
(* TLAPS proofs about CarrierPool for any carriers, any finite set of      *)
(* dials and of base carriers, any callers of AddCarrier and any limits.   *)
(***************************************************************************)
EXTENDS CarrierPool, FiniteSetTheorems, TLAPS

\* The prover of a leaf that names no other.
USE Zenon

\* The dials that have a reservation on a carrier.
Streams(k) == {d \in Dials : on[d] = k /\ pc[d] \in Holding}

Labels == {"idle", "book", "sweep", "exit"}

\* TypeOK without what it says of the size of the pool.
Types ==
  /\ closed \in BOOLEAN /\ stopped \in BOOLEAN /\ signal \in BOOLEAN
  /\ pool \in Seq(Carriers)
  /\ readers \subseteq Dials
  /\ life \in [Carriers -> {"free", "probe", "pooled", "out", "closed"}]
  /\ active \in [Carriers -> Nat] /\ idle \in [Carriers -> Zero .. MinIdle]
  /\ pc \in [Dials -> {"idle", "pick", "picked"} \cup Holding]
  /\ on \in [Dials -> Carriers \cup {None}]
  /\ adder \in [Adders -> Carriers \cup Labels]
  /\ cool \in 0..Cooldown
  /\ closer \in {"no", "scaler", "join", "close", "done"}

\* A pooled carrier is in the pool, at one place; the base comes first until
\* Close drains the pool.
PoolInv ==
  /\ Len(pool) <= MaxCarriers
  /\ \A i \in 1..Len(pool) : life[pool[i]] = "pooled"
  /\ \A i, j \in 1..Len(pool) : pool[i] = pool[j] => i = j
  /\ \A k \in Carriers :
       life[k] = "pooled" => \E i \in 1..Len(pool) : pool[i] = k
  /\ closer \in {"no", "scaler", "join"} =>
       Base <= Len(pool) /\ \A i \in 1..Base : pool[i] = BaseList[i]

\* A carrier that is probed belongs to the one call that probes it.
ProbeInv ==
  /\ \A a \in Adders : adder[a] \in Carriers => life[adder[a]] = "probe"
  /\ \A a, b \in Adders :
       adder[a] \in Carriers /\ adder[a] = adder[b] => a = b
  /\ \A k \in Carriers :
       life[k] = "probe" => \E a \in Adders : adder[a] = k

\* How far Close has come.
CloseInv ==
  /\ closed <=> closer # "no"
  /\ closer \in {"close", "done"} => adder[Scaler] = "exit" /\ pool = <<>>
  /\ closer = "done" => \A k \in Carriers : life[k] # "out"

\* A dial that holds the read lock, or has a reservation, has a carrier; the
\* carrier is pooled while the lock is held and until Close drains the pool,
\* is not closed while the stream is open, and is never probed again before.
StreamInv ==
  /\ readers = {d \in Dials : pc[d] = "picked"}
  /\ \A d \in Dials : on[d] # None <=> pc[d] \in {"picked"} \cup Holding
  /\ \A d \in Dials : on[d] # None =>
       life[on[d]] \in {"pooled", "out", "closed"}
  /\ \A d \in Dials : pc[d] = "picked" => life[on[d]] = "pooled"
  /\ \A d \in Dials : pc[d] = "open" => life[on[d]] \in {"pooled", "out"}
  /\ closer \in {"no", "scaler", "join"} =>
       \A d \in Dials : on[d] # None => life[on[d]] = "pooled"

CountInv == \A k \in Carriers : active[k] = Cardinality(Streams(k))

IInv == Types /\ PoolInv /\ ProbeInv /\ CloseInv /\ StreamInv /\ CountInv

-----------------------------------------------------------------------------
(* The pool as a sequence *)

\* BaseList is a list of the carriers New creates, each of them once.
LEMMA BaseListed ==
  /\ BaseList \in Seq(BaseCarriers) /\ Base = Len(BaseList)
  /\ \A i, j \in 1..Base : BaseList[i] = BaseList[j] => i = j
  /\ \A k \in BaseCarriers : \E i \in 1..Base : BaseList[i] = k
<1> DEFINE n == Cardinality(BaseCarriers)
<1>1. n \in Nat /\ ExistsBijection(1..n, BaseCarriers)
  BY PoolAssumption, FS_CardinalityType
<1>2. PICK g : g \in Bijection(1..n, BaseCarriers)
  BY <1>1 DEF ExistsBijection
<1>3. g \in [1..n -> BaseCarriers] /\ IsInjective(g)
  BY <1>2 DEF Bijection, Injection, IsInjective
<1>4. BaseList \in [1..n -> BaseCarriers] /\ IsInjective(BaseList)
  BY <1>3 DEF BaseList
<1>5. BaseList \in Injection(1..n, BaseCarriers)
  BY <1>4 DEF Injection, IsInjective
<1>6. Cardinality(1..n) = n
  BY SMT, <1>1, FS_Interval
<1>7. BaseList \in Surjection(1..n, BaseCarriers)
  BY <1>5, <1>6, FS_Injection, PoolAssumption
<1>8. BaseList \in Seq(BaseCarriers) /\ Len(BaseList) = n
  BY SMT, <1>1, <1>4
<1> QED
  BY <1>4, <1>7, <1>8 DEF Base, Surjection, IsInjective

\* What RemoveIdleCarrier's append(h2Clients[:i], h2Clients[i+1:]...) leaves.
LEMMA WithoutKeeps ==
  ASSUME NEW S, NEW s \in Seq(S), NEW i \in 1..Len(s)
  PROVE  /\ Without(s, i) \in Seq(S) /\ Len(Without(s, i)) = Len(s) - 1
         /\ \A j \in 1 .. i - 1 : Without(s, i)[j] = s[j]
         /\ \A j \in i .. Len(s) - 1 : Without(s, i)[j] = s[j + 1]
<1> DEFINE a == SubSeq(s, 1, i - 1)
           b == SubSeq(s, i + 1, Len(s))
<1>1. /\ a \in Seq(S) /\ Len(a) = i - 1
      /\ \A j \in 1 .. i - 1 : a[j] = s[j]
  BY SMT
<1>2. /\ b \in Seq(S) /\ Len(b) = Len(s) - i
      /\ \A j \in 1 .. Len(s) - i : b[j] = s[i + j]
  BY SMT
<1> HIDE DEF a, b
<1>3. a \o b \in Seq(S) /\ Len(a \o b) = Len(s) - 1
  <2>1. a \in Seq(S) /\ b \in Seq(S)
    BY <1>1, <1>2
  <2>2. a \o b \in Seq(S) /\ Len(a \o b) = Len(a) + Len(b)
    BY SMT, <2>1
  <2> QED
    BY SMT, <1>1, <1>2, <2>2
<1>4. ASSUME NEW j \in 1 .. Len(a)
      PROVE  (a \o b)[j] = a[j]
  BY SMT, <1>1, <1>2
<1>5. ASSUME NEW j \in Len(a) + 1 .. Len(a) + Len(b)
      PROVE  (a \o b)[j] = b[j - Len(a)]
  BY SMT, <1>1, <1>2
<1>6. Without(s, i) = a \o b
  BY DEF Without, a, b
<1>8. ASSUME NEW j \in 1 .. i - 1
      PROVE  Without(s, i)[j] = s[j]
  BY <1>1, <1>4, <1>6
<1>9. ASSUME NEW j \in i .. Len(s) - 1
      PROVE  Without(s, i)[j] = s[j + 1]
  <2>1. j \in Len(a) + 1 .. Len(a) + Len(b)
    BY SMT, <1>1, <1>2
  <2>2. (a \o b)[j] = b[j - Len(a)]
    BY <1>5, <2>1
  <2>3. j - Len(a) \in 1 .. Len(s) - i /\ i + (j - Len(a)) = j + 1
    BY SMT, <1>1
  <2>4. b[j - Len(a)] = s[j + 1]
    BY <1>2, <2>3
  <2> QED
    BY <1>6, <2>2, <2>4
<1> QED
  BY <1>3, <1>6, <1>8, <1>9

\* The carriers of the pool, by their places.
LEMMA PooledPlaces ==
  ASSUME Types
  PROVE  \A k : k \in Pooled <=> \E i \in 1..Len(pool) : pool[i] = k
<1>1. DOMAIN pool = 1..Len(pool)
  BY SMT DEF Types
<1> QED
  BY <1>1 DEF Pooled, Range
-----------------------------------------------------------------------------
(* Initially *)

\* A carrier is neither None nor one of the labels of an adder.
LEMMA CarriersDistinct ==
  None \notin Carriers /\ \A l \in Labels : l \notin Carriers
BY PoolAssumption DEF Labels

\* New leaves the pool as the invariant says.
LEMMA Initially ==
  ASSUME Init
  PROVE  IInv
<1> USE PoolAssumption, CarriersDistinct
<1>1. Base \in Nat /\ Base <= MaxCarriers /\ BaseList \in Seq(Carriers)
  BY SMT, BaseListed
<1>2. Types
  <2>1. /\ MinIdle \in Nat /\ Cooldown \in Nat
        /\ Zero \in Zero .. MinIdle /\ MinIdle \in 0..MinIdle
        /\ Cooldown \in 0..Cooldown
    BY SMT DEF Zero
  <2>2. /\ life \in [Carriers -> {"free", "probe", "pooled", "out", "closed"}]
        /\ active \in [Carriers -> Nat]
        /\ idle \in [Carriers -> Zero .. MinIdle]
        /\ cool \in 0..Cooldown
    BY <2>1 DEF Init
  <2> QED
    BY <1>1, <2>2 DEF Init, Types, Holding, Labels
<1>3. \A i \in 1..Base : BaseList[i] \in BaseCarriers
  BY SMT, BaseListed
<1>4. PoolInv
  BY SMT, <1>1, <1>3, BaseListed DEF Init, PoolInv
<1>5. ProbeInv /\ CloseInv /\ StreamInv
  BY DEF Init, ProbeInv, CloseInv, StreamInv, Holding, Labels, Adders
<1>6. CountInv
  <2>1. \A k \in Carriers : Streams(k) = {}
    BY DEF Init, Streams
  <2> QED
    BY <2>1, FS_EmptySet DEF Init, CountInv
<1> QED
  BY <1>2, <1>4, <1>5, <1>6 DEF IInv

-----------------------------------------------------------------------------
(* The steps *)

\* A dial with a reservation is counted on its carrier.
LEMMA Reserved ==
  ASSUME IInv, NEW d \in Dials, pc[d] \in {"picked"} \cup Holding
  PROVE  on[d] \in Carriers /\ (pc[d] \in Holding => active[on[d]] > 0)
<1>1. on[d] \in Carriers
  BY ZenonT(60) DEF IInv, Types, StreamInv
<1>2. CASE pc[d] \in Holding
  <2>1. d \in Streams(on[d]) /\ Streams(on[d]) \in SUBSET Dials
    BY <1>2 DEF Streams
  <2>2. IsFiniteSet(Streams(on[d]))
    BY <2>1, FS_Subset, PoolAssumption
  <2>3. Cardinality(Streams(on[d])) # 0
    BY <2>1, <2>2, FS_EmptySet
  <2> QED
    BY SMT, <1>1, <2>3 DEF IInv, CountInv, Types
<1> QED
  BY <1>1, <1>2

\* The scan of a set of places ends at the first of them.
LEMMA LeastPlace ==
  ASSUME NEW T \in SUBSET Nat, T # {}
  PROVE  \E i \in T : \A m \in T : i <= m
<1>1. PICK i \in T : \A m \in T : <<m, i>> \notin OpToRel(<, Nat)
  BY NatLessThanWellFounded, WFMin
<1>2. \A m, n \in Nat : m < n => <<m, n>> \in OpToRel(<, Nat)
  BY DEF OpToRel
<1>3. \A m \in T : ~(m < i)
  BY <1>1, <1>2
<1> QED
  BY SMT, <1>3

\* A sweep that evicts takes one carrier out, from a place beyond the base;
\* nobody has a stream on it.
LEMMA Evicts ==
  ASSUME Types, ScaledDown, Candidates # {}
  PROVE  \E i \in Base + 1 .. Len(pool) :
           /\ active[pool[i]] = 0
           /\ pool' = Without(pool, i)
           /\ life' = [life EXCEPT ![pool[i]] = "out"]
<1> DEFINE least(i) == i \in Candidates /\ \A m \in Candidates : i <= m
<1>1. Candidates \in SUBSET Nat /\ Candidates \subseteq Base + 1 .. Len(pool)
  <2>1. Base \in Nat /\ Len(pool) \in Nat
    BY SMT, PoolAssumption DEF Types
  <2>2. \A i \in Candidates : i \in Base + 1 .. Len(pool)
    BY DEF Candidates
  <2> QED
    BY SMT, <2>1, <2>2
<1>2. \E i : least(i)
  BY <1>1, LeastPlace
<1>3. PICK i : least(i) /\ i = CHOOSE j \in Candidates :
                                 \A m \in Candidates : j <= m
  BY <1>2
<1>4. pool' = Without(pool, i) /\ life' = [life EXCEPT ![pool[i]] = "out"]
  BY <1>3 DEF ScaledDown, RemoveIdleCarrier, EvictFirst
<1> QED
  BY <1>1, <1>3, <1>4 DEF Candidates, Expired

\* What the second half of pickBestH2Client changes, but for the signal.
LEMMA PickAddEffect ==
  ASSUME NEW d \in Dials, PickAdd(d)
  PROVE  /\ pc[d] = "picked" /\ pc' = [pc EXCEPT ![d] = "dial"]
         /\ active' = [active EXCEPT ![on[d]] = active[on[d]] + 1]
         /\ signal' \in BOOLEAN /\ readers' = readers \ {d}
         /\ UNCHANGED <<closed, pool, life, idle, on, adder, cool, stopped,
                        closer>>
BY DEF PickAdd, Goto

\* Every step keeps the types.
LEMMA TypesStep ==
  ASSUME IInv, Next
  PROVE  Types'
<1> USE PoolAssumption, CarriersDistinct
    DEF IInv, Types, Holding, Labels, Zero, Adders, dials, scaler
<1>1. ASSUME NEW d \in Dials, DialContext(d)
      PROVE  Types'
  BY <1>1 DEF DialContext, Goto
<1>2. ASSUME NEW d \in Dials, PickNone(d)
      PROVE  Types'
  BY <1>2 DEF PickNone, Goto
<1>3. ASSUME NEW d \in Dials, PickAdd(d)
      PROVE  Types'
  <2>1. on[d] \in Carriers /\ (pc[d] \in Holding => active[on[d]] > 0)
    BY <1>3, Reserved DEF PickAdd, Holding
  <2>2. /\ active' = [active EXCEPT ![on[d]] = active[on[d]] + 1]
        /\ pc' = [pc EXCEPT ![d] = "dial"]
    BY <1>3, PickAddEffect
  <2>3. active' \in [Carriers -> Nat]
    BY SMT, <2>1, <2>2
  <2>4. pc' \in [Dials -> {"idle", "pick", "picked"} \cup Holding]
    BY <2>1, <2>2
  <2>5. readers' \in SUBSET Dials
    BY <1>3, PickAddEffect
  <2> QED
    BY <1>3, PickAddEffect, <2>3, <2>4, <2>5
<1>4. ASSUME NEW d \in Dials, DialSucceeds(d)
      PROVE  Types'
  BY <1>4 DEF DialSucceeds, Goto
<1>5. ASSUME NEW d \in Dials, DialFails(d)
      PROVE  Types'
  <2>1. on[d] \in Carriers /\ (pc[d] \in Holding => active[on[d]] > 0)
    BY <1>5, Reserved DEF DialFails, Holding
  <2> QED
    BY SMTT(60), <1>5, <2>1 DEF DialFails, Release, Goto
<1>6. ASSUME NEW d \in Dials, StreamLeaves(d)
      PROVE  Types'
  <2>1. on[d] \in Carriers /\ (pc[d] \in Holding => active[on[d]] > 0)
    BY <1>6, Reserved DEF StreamLeaves, Holding
  <2> QED
    BY SMTT(60), <1>6, <2>1 DEF StreamLeaves, Release, Goto
<1>7. ASSUME NEW d \in Dials, StreamCloses(d)
      PROVE  Types'
  BY <1>7 DEF StreamCloses, Goto
<1>8. ASSUME NEW d \in Dials, NEW k \in Carriers, PickScan(d, k)
      PROVE  Types'
  BY <1>8 DEF PickScan, Goto
<1>9. ASSUME NEW a \in Callers, NEW k \in Carriers, AddCarrier(a, k)
      PROVE  Types'
  BY SMT, <1>9 DEF AddCarrier, AddProbes, Unused
<1>10. ASSUME NEW a \in Adders, AddRegisters(a)
      PROVE  Types'
  BY SMT, <1>10 DEF AddRegisters, Booked
<1>11. ASSUME NEW a \in Adders, AddGivesUp(a)
      PROVE  Types'
  BY <1>11 DEF AddGivesUp
<1>12. ASSUME NEW k \in Carriers, CarrierCloses(k)
      PROVE  Types'
  BY <1>12 DEF CarrierCloses
<1>13. ASSUME NEW k \in Carriers, tryScaleUp(k)
      PROVE  Types'
  <2>1. AddProbes(Scaler, k) /\ signal' = FALSE /\ cool' = cool
    BY <1>13 DEF tryScaleUp
  <2>2. Scaler \in Adders /\ signal' \in BOOLEAN
    BY <2>1
  <2>3. adder' \in [Adders -> Carriers \cup Labels]
    BY <2>1, <2>2 DEF AddProbes
  <2>4. /\ life' \in [Carriers -> {"free", "probe", "pooled", "out", "closed"}]
        /\ idle' \in [Carriers -> Zero .. MinIdle]
    BY SMT, <2>1 DEF AddProbes
  <2> QED
    BY <2>1, <2>2, <2>3, <2>4 DEF AddProbes
<1>14. ASSUME ScaleUpDeclines
      PROVE  Types'
  BY <1>14 DEF ScaleUpDeclines
<1>15. ASSUME ScaledUp
      PROVE  Types'
  BY SMT, <1>15 DEF ScaledUp
<1>16. ASSUME tryScaleDown
      PROVE  Types'
  BY <1>16 DEF tryScaleDown
<1>17. ASSUME ScaledDown
      PROVE  Types'
  <2>1. idle' \in [Carriers -> Zero .. MinIdle]
    BY SMT, <1>17 DEF ScaledDown, RemoveIdleCarrier, Sweep, Seen, Zero
  <2>2. CASE Candidates = {}
    BY <1>17, <2>1, <2>2 DEF ScaledDown, RemoveIdleCarrier, EvictFirst
  <2>3. CASE Candidates # {}
    <3>1. PICK i \in 1..Len(pool) :
            /\ pool' = Without(pool, i)
            /\ life' = [life EXCEPT ![pool[i]] = "out"]
      BY SMTT(60), <1>17, <2>3, Evicts
    <3> QED
      BY <1>17, <2>1, <3>1, WithoutKeeps DEF ScaledDown
  <2> QED
    BY <2>2, <2>3
<1>18. ASSUME LoopExits
      PROVE  Types'
  BY <1>18 DEF LoopExits
<1>19. ASSUME Tick
      PROVE  Types'
  BY SMTT(60), <1>19 DEF Tick, Older
<1>20. ASSUME Close
      PROVE  Types'
  BY <1>20 DEF Close
<1>21. ASSUME CloseStops
      PROVE  Types'
  BY <1>21 DEF CloseStops
<1>22. ASSUME CloseDrains
      PROVE  Types'
  BY SMT, <1>22 DEF CloseDrains
<1>23. ASSUME CloseReturned
      PROVE  Types'
  BY <1>23 DEF CloseReturned
<1> QED
  BY <1>1, <1>2, <1>3, <1>4, <1>5, <1>6, <1>7, <1>8, <1>9, <1>10, <1>11, <1>12,
     <1>13, <1>14, <1>15, <1>16, <1>17, <1>18, <1>19, <1>20, <1>21, <1>22,
     <1>23
  DEF Next, DialStep, AddEnds, CloserStep

-----------------------------------------------------------------------------
(* The pool and the probes *)

\* A place of the pool holds a pooled carrier.
LEMMA Places ==
  ASSUME IInv
  PROVE  \A i \in 1..Len(pool) :
           pool[i] \in Carriers /\ life[pool[i]] = "pooled"
<1>1. pool \in Seq(Carriers)
  BY DEF IInv, Types
<1> QED
  BY SMT, <1>1 DEF IInv, PoolInv

\* So a carrier is in the pool exactly when it is pooled.
LEMMA PooledLife ==
  ASSUME IInv
  PROVE  \A k \in Carriers : k \in Pooled <=> life[k] = "pooled"
<1>1. \A k : k \in Pooled <=> \E i \in 1..Len(pool) : pool[i] = k
  BY PooledPlaces DEF IInv
<1>2. \A k \in Carriers :
        life[k] = "pooled" <=> \E i \in 1..Len(pool) : pool[i] = k
  BY DEF IInv, PoolInv
<1> QED
  BY <1>1, <1>2

DialMove(d) ==
  \/ DialContext(d) \/ PickNone(d) \/ (\E k \in Carriers : PickScan(d, k))
  \/ PickAdd(d) \/ DialSucceeds(d) \/ DialFails(d) \/ StreamLeaves(d)
  \/ StreamCloses(d)
LoopMove == ScaleUpDeclines \/ ScaledUp \/ tryScaleDown \/ LoopExits \/ Tick
CloseMove == Close \/ CloseStops \/ CloseReturned

\* A dial touches neither the pool nor a carrier's life...
LEMMA DialFrame ==
  ASSUME NEW d \in Dials, DialMove(d)
  PROVE  UNCHANGED <<closed, pool, life, adder, stopped, closer>>
BY DEF DialMove, DialContext, PickNone, PickScan, PickAdd, DialSucceeds,
       DialFails, StreamLeaves, StreamCloses, scaler

\* ...and outside AddCarrier and RemoveIdleCarrier neither does the loop.
LEMMA LoopFrame ==
  ASSUME LoopMove
  PROVE  /\ UNCHANGED <<closed, pool, readers, life, active, pc, on, stopped,
                        closer>>
         /\ \/ adder' = adder
            \/ /\ adder[Scaler] \in {"idle", "book"}
               /\ \E l \in Labels : adder' = [adder EXCEPT ![Scaler] = l]
BY DEF LoopMove, ScaleUpDeclines, ScaledUp, tryScaleDown, LoopExits, Tick,
       dials, Labels

\* Both callers of AddCarrier take the same first step.
LEMMA ProbeSteps ==
  ASSUME Next
  PROVE  \/ \E d \in Dials : DialMove(d)
         \/ \E a \in Adders, k \in Carriers : AddProbes(a, k)
         \/ \E a \in Adders : AddRegisters(a) \/ AddGivesUp(a)
         \/ \E k \in Carriers : CarrierCloses(k)
         \/ LoopMove \/ ScaledDown \/ CloseMove \/ CloseDrains
<1>1. Scaler \in Adders /\ Callers \subseteq Adders
  BY DEF Adders
<1> QED
  BY <1>1 DEF Next, DialMove, DialStep, AddEnds, CloserStep, LoopMove,
              CloseMove, AddCarrier, tryScaleUp

\* A carrier enters the pool when its probe is registered and leaves it when a
\* sweep evicts it from a place beyond the base, or with all others.
LEMMA PoolStep ==
  ASSUME IInv, Next, Types'
  PROVE  PoolInv'
<1>a. PoolInv
  BY DEF IInv
<1>b. /\ pool \in Seq(Carriers) /\ pool' \in Seq(Carriers) /\ Base \in Nat
      /\ Len(pool) \in Nat /\ MaxCarriers \in Nat /\ DOMAIN life = Carriers
      /\ \A i \in 1..Len(pool) : pool[i] \in Carriers
  BY SMT, PoolAssumption DEF IInv, Types
<1>1. ASSUME NEW d \in Dials, DialMove(d)
      PROVE  PoolInv'
  BY ONLY Zenon, <1>1, DialFrame, <1>a DEF PoolInv
<1>2. ASSUME NEW a \in Adders, NEW k \in Carriers, AddProbes(a, k)
      PROVE  PoolInv'
  <2>1. /\ pool' = pool /\ closer' = closer /\ life[k] # "pooled"
        /\ life' = [life EXCEPT ![k] = "probe"]
    BY <1>2 DEF AddProbes, Unused
  <2> QED
    BY ONLY Zenon, <1>a, <1>b, <2>1 DEF PoolInv
<1>3. ASSUME NEW a \in Adders, AddRegisters(a)
      PROVE  PoolInv'
  <2>1. /\ pool' = Append(pool, adder[a]) /\ Len(pool) < MaxCarriers
        /\ life' = [life EXCEPT ![adder[a]] = "pooled"]
        /\ adder[a] \in Carriers /\ life[adder[a]] = "probe"
        /\ closer' = closer
    BY <1>3 DEF AddRegisters, IInv, ProbeInv
  <2>2. /\ Len(pool') = Len(pool) + 1 /\ pool'[Len(pool) + 1] = adder[a]
        /\ \A i \in 1..Len(pool) : pool'[i] = pool[i]
    BY ONLY SMT, <1>b, <2>1
  <2>3. \A i \in 1..Len(pool) : pool[i] # adder[a]
    BY ONLY Zenon, <1>a, <2>1 DEF PoolInv
  <2>4. \A i \in 1..Len(pool') : i \in 1..Len(pool) \/ i = Len(pool) + 1
    BY ONLY SMT, <1>b, <2>2
  <2>5. \A i \in 1..Len(pool') : life'[pool'[i]] = "pooled"
    BY ONLY ZenonT(60), <1>a, <1>b, <2>1, <2>2, <2>3, <2>4 DEF PoolInv
  <2>6. \A i, j \in 1..Len(pool') : pool'[i] = pool'[j] => i = j
    BY ONLY ZenonT(60), <1>a, <2>2, <2>3, <2>4 DEF PoolInv
  <2>7. ASSUME NEW k \in Carriers, life'[k] = "pooled"
        PROVE  \E i \in 1..Len(pool') : pool'[i] = k
    <3>1. CASE k = adder[a]
      BY ONLY SMT, <1>b, <2>2, <3>1
    <3>2. CASE k # adder[a]
      <4>1. PICK i \in 1..Len(pool) : pool[i] = k
        BY ONLY Zenon, <1>a, <1>b, <2>1, <2>7, <3>2 DEF PoolInv
      <4> QED
        BY ONLY SMT, <1>b, <2>2, <4>1
    <3> QED
      BY <3>1, <3>2
  <2>8. /\ Len(pool') <= MaxCarriers
        /\ closer' \in {"no", "scaler", "join"} =>
             Base <= Len(pool') /\ \A i \in 1..Base : pool'[i] = BaseList[i]
    BY ONLY SMT, <1>a, <1>b, <2>1, <2>2 DEF PoolInv
  <2> QED
    BY ONLY Zenon, <2>5, <2>6, <2>7, <2>8 DEF PoolInv
<1>4. ASSUME NEW a \in Adders, AddGivesUp(a)
      PROVE  PoolInv'
  <2>1. /\ pool' = pool /\ closer' = closer /\ life[adder[a]] # "pooled"
        /\ life' = [life EXCEPT ![adder[a]] = "closed"]
    BY <1>4 DEF AddGivesUp, IInv, ProbeInv
  <2> QED
    BY ONLY Zenon, <1>a, <1>b, <2>1 DEF PoolInv
<1>5. ASSUME NEW k \in Carriers, CarrierCloses(k)
      PROVE  PoolInv'
  <2>1. /\ pool' = pool /\ closer' = closer /\ life[k] # "pooled"
        /\ life' = [life EXCEPT ![k] = "closed"]
    BY <1>5 DEF CarrierCloses
  <2> QED
    BY ONLY Zenon, <1>a, <1>b, <2>1 DEF PoolInv
<1>6. ASSUME LoopMove
      PROVE  PoolInv'
  BY ONLY ZenonT(60), <1>6, LoopFrame, <1>a DEF PoolInv
<1>7. ASSUME ScaledDown
      PROVE  PoolInv'
  <2>1. CASE Candidates = {}
    <3>1. UNCHANGED <<pool, life, closer>>
      BY <1>7, <2>1 DEF ScaledDown, RemoveIdleCarrier, EvictFirst
    <3> QED
      BY ONLY Zenon, <1>a, <3>1 DEF PoolInv
  <2>2. CASE Candidates # {}
    <3>1. PICK i \in Base + 1 .. Len(pool) :
            /\ pool' = Without(pool, i)
            /\ life' = [life EXCEPT ![pool[i]] = "out"]
      BY <1>7, <2>2, Evicts DEF IInv
    <3>2. i \in 1..Len(pool) /\ closer' = closer
      BY SMT, <1>7, <1>b DEF ScaledDown
    <3>3. /\ Len(pool') = Len(pool) - 1
          /\ \A j \in 1 .. i - 1 : pool'[j] = pool[j]
          /\ \A j \in i .. Len(pool) - 1 : pool'[j] = pool[j + 1]
      BY ONLY Zenon, <1>b, <3>1, <3>2, WithoutKeeps
    <3>4. ASSUME NEW j \in 1..Len(pool')
          PROVE  \E m \in 1..Len(pool) \ {i} :
                   pool'[j] = pool[m] /\ m = IF j < i THEN j ELSE j + 1
      <4>1. CASE j < i
        <5>1. j \in 1 .. i - 1 /\ j \in 1..Len(pool) \ {i}
          BY ONLY SMT, <1>b, <3>2, <3>3, <4>1, j \in 1..Len(pool')
        <5>2. pool'[j] = pool[j] /\ j = IF j < i THEN j ELSE j + 1
          BY ONLY Zenon, <3>3, <4>1, <5>1
        <5> QED
          BY ONLY Zenon, <5>1, <5>2
      <4>2. CASE j >= i
        BY ONLY SMT, <1>b, <3>2, <3>3, <4>2, j \in 1..Len(pool')
      <4> QED
        BY ONLY SMT, <1>b, <3>2, <3>3, <4>1, <4>2, j \in 1..Len(pool')
    <3>5. ASSUME NEW m \in 1..Len(pool) \ {i}
          PROVE  \E j \in 1..Len(pool') : pool'[j] = pool[m]
      <4>1. CASE m < i
        BY ONLY SMT, <1>b, <3>2, <3>3, <4>1, m \in 1..Len(pool)
      <4>2. CASE m > i
        <5>1. m - 1 \in i .. Len(pool) - 1 /\ (m - 1) + 1 = m
          BY ONLY SMT, <1>b, <3>2, <4>2, m \in 1..Len(pool)
        <5>2. pool'[m - 1] = pool[m] /\ m - 1 \in 1..Len(pool')
          BY ONLY SMT, <1>b, <3>2, <3>3, <5>1
        <5> QED
          BY ONLY Zenon, <5>2
      <4> QED
        BY ONLY SMT, <1>b, <3>2, <4>1, <4>2, m \in 1..Len(pool) \ {i}
    <3>6. ASSUME NEW j \in 1..Len(pool')
          PROVE  life'[pool'[j]] = "pooled"
      <4>1. PICK m \in 1..Len(pool) \ {i} : pool'[j] = pool[m]
        BY <3>4
      <4> QED
        BY ONLY SMT, <1>a, <1>b, <3>1, <3>2, <4>1 DEF PoolInv
    <3>7. ASSUME NEW j \in 1..Len(pool'), NEW l \in 1..Len(pool'),
                 pool'[j] = pool'[l]
          PROVE  j = l
      <4>1. PICK m \in 1..Len(pool) \ {i} :
              pool'[j] = pool[m] /\ m = IF j < i THEN j ELSE j + 1
        BY <3>4
      <4>2. PICK n \in 1..Len(pool) \ {i} :
              pool'[l] = pool[n] /\ n = IF l < i THEN l ELSE l + 1
        BY <3>4
      <4>3. m = n
        BY ONLY ZenonT(60), <1>a, <3>7, <4>1, <4>2 DEF PoolInv
      <4>4. j \in Int /\ l \in Int /\ i \in Int
        BY SMT, <1>b, <3>2, <3>3
      <4> QED
        BY ONLY SMT, <4>1, <4>2, <4>3, <4>4
    <3>8. ASSUME NEW k \in Carriers, life'[k] = "pooled"
          PROVE  \E j \in 1..Len(pool') : pool'[j] = k
      <4>1. PICK m \in 1..Len(pool) : pool[m] = k /\ m # i
        BY ONLY Zenon, <1>a, <1>b, <3>1, <3>2, <3>8 DEF PoolInv
      <4> QED
        BY <3>5, <4>1
    <3>9. /\ Len(pool') <= MaxCarriers
          /\ closer \in {"no", "scaler", "join"} =>
               Base <= Len(pool') /\ \A j \in 1..Base : pool'[j] = BaseList[j]
      BY ONLY SMT, <1>a, <1>b, <3>1, <3>2, <3>3 DEF PoolInv
    <3> QED
      BY ONLY Zenon, <3>2, <3>6, <3>7, <3>8, <3>9 DEF PoolInv
  <2> QED
    BY <2>1, <2>2
<1>8. ASSUME CloseMove
      PROVE  PoolInv'
  <2>1. /\ UNCHANGED <<pool, life>>
        /\ closer' \in {"no", "scaler", "join"} =>
             closer \in {"no", "scaler", "join"}
    BY <1>8 DEF CloseMove, Close, CloseStops, CloseReturned
  <2> QED
    BY ONLY Zenon, <1>a, <2>1 DEF PoolInv
<1>9. ASSUME CloseDrains
      PROVE  PoolInv'
  <2>1. \A k \in Carriers : life'[k] # "pooled"
    BY <1>9, <1>a, PooledPlaces DEF CloseDrains, IInv, PoolInv
  <2>2. Len(pool') = 0 /\ closer' = "close"
    BY <1>9 DEF CloseDrains
  <2> QED
    BY ONLY SMTT(60), <1>b, <2>1, <2>2 DEF PoolInv
<1> QED
  BY ProbeSteps, <1>1, <1>2, <1>3, <1>4, <1>5, <1>6, <1>7, <1>8, <1>9

\* A probe belongs to one call of AddCarrier from its first half to its second.
LEMMA ProbeStep ==
  ASSUME IInv, Next, Types'
  PROVE  ProbeInv'
<1> USE CarriersDistinct
    DEF IInv, Types, ProbeInv, Labels
<1>1. ASSUME NEW d \in Dials, DialMove(d)
      PROVE  ProbeInv'
  BY SMTT(60), <1>1, DialFrame
<1>2. ASSUME NEW a \in Adders, NEW k \in Carriers, AddProbes(a, k)
      PROVE  ProbeInv'
  BY SMTT(60), <1>2 DEF AddProbes, Unused
<1>3. ASSUME NEW a \in Adders, AddRegisters(a)
      PROVE  ProbeInv'
  <2>1. Booked(a) \in Labels
    BY DEF Booked
  <2> QED
    BY SMTT(60), <1>3, <2>1 DEF AddRegisters
<1>4. ASSUME NEW a \in Adders, AddGivesUp(a)
      PROVE  ProbeInv'
  BY SMTT(60), <1>4 DEF AddGivesUp
<1>5. ASSUME NEW k \in Carriers, CarrierCloses(k)
      PROVE  ProbeInv'
  BY SMTT(60), <1>5 DEF CarrierCloses, scaler
<1>6. ASSUME LoopMove
      PROVE  ProbeInv'
  <2>1. Scaler \in Adders
    BY DEF Adders
  <2>2. life' = life
    BY <1>6, LoopFrame
  <2>3. CASE adder' = adder
    BY <2>2, <2>3
  <2>4. CASE /\ adder[Scaler] \in {"idle", "book"}
             /\ \E l \in Labels : adder' = [adder EXCEPT ![Scaler] = l]
    BY SMTT(60), <2>1, <2>2, <2>4
  <2> QED
    BY <1>6, <2>3, <2>4, LoopFrame
<1>7. ASSUME ScaledDown
      PROVE  ProbeInv'
  <2>1. adder[Scaler] = "sweep" /\ adder' = [adder EXCEPT ![Scaler] = "idle"]
    BY <1>7 DEF ScaledDown
  <2>2. Scaler \in Adders
    BY DEF Adders
  <2>3. \A k \in Carriers : life'[k] = "probe" <=> life[k] = "probe"
    <3>1. CASE Candidates = {}
      BY <1>7, <3>1 DEF ScaledDown, RemoveIdleCarrier, EvictFirst
    <3>2. CASE Candidates # {}
      <4>1. PICK i \in Base + 1 .. Len(pool) :
              life' = [life EXCEPT ![pool[i]] = "out"]
        BY <1>7, <3>2, Evicts
      <4>2. i \in 1..Len(pool)
        BY SMTT(60), PoolAssumption
      <4>3. pool[i] \in Carriers /\ life[pool[i]] = "pooled"
        BY <4>2, Places
      <4>4. DOMAIN life = Carriers
        OBVIOUS
      <4> QED
        BY ONLY Zenon, <4>1, <4>3, <4>4
    <3> QED
      BY <3>1, <3>2
  <2> QED
    BY SMTT(60), <2>1, <2>2, <2>3
<1>8. ASSUME CloseMove
      PROVE  ProbeInv'
  BY SMT, <1>8 DEF CloseMove, Close, CloseStops, CloseReturned, scaler
<1>9. ASSUME CloseDrains
      PROVE  ProbeInv'
  <2>1. \A k \in Carriers : k \in Pooled <=> life[k] = "pooled"
    BY PooledLife
  <2>2. \A k \in Carriers : life'[k] = "probe" <=> life[k] = "probe"
    BY <1>9, <2>1 DEF CloseDrains
  <2> QED
    BY SMT, <1>9, <2>2 DEF CloseDrains, scaler
<1> QED
  BY ProbeSteps, <1>1, <1>2, <1>3, <1>4, <1>5, <1>6, <1>7, <1>8, <1>9

\* Once Close has drained the pool nothing enters it: the loop has ended, and
\* AddCarrier finds the client closed.
LEMMA CloseStep ==
  ASSUME IInv, Next, Types'
  PROVE  CloseInv'
<1> USE CarriersDistinct DEF IInv, Types, CloseInv, Labels
<1>1. ASSUME NEW d \in Dials, DialMove(d)
      PROVE  CloseInv'
  BY <1>1, DialFrame
<1>2. ASSUME NEW a \in Adders, NEW k \in Carriers, AddProbes(a, k)
      PROVE  CloseInv'
  BY <1>2 DEF AddProbes, Unused
<1>3. ASSUME NEW a \in Adders, AddRegisters(a)
      PROVE  CloseInv'
  BY <1>3 DEF AddRegisters
<1>4. ASSUME NEW a \in Adders, AddGivesUp(a)
      PROVE  CloseInv'
  BY SMTT(60), <1>4 DEF AddGivesUp
<1>5. ASSUME NEW k \in Carriers, CarrierCloses(k)
      PROVE  CloseInv'
  BY <1>5 DEF CarrierCloses, scaler
<1>6. ASSUME LoopMove
      PROVE  CloseInv'
  BY <1>6, LoopFrame
<1>7. ASSUME ScaledDown
      PROVE  CloseInv'
  BY <1>7 DEF ScaledDown
<1>8. ASSUME CloseMove
      PROVE  CloseInv'
  BY <1>8 DEF CloseMove, Close, CloseStops, CloseReturned, scaler
<1>9. ASSUME CloseDrains
      PROVE  CloseInv'
  BY <1>9 DEF CloseDrains, scaler
<1> QED
  BY ProbeSteps, <1>1, <1>2, <1>3, <1>4, <1>5, <1>6, <1>7, <1>8, <1>9

-----------------------------------------------------------------------------
(* The streams *)

\* The carrier a sweep evicts has been picked by nobody: the count says there
\* is no stream, the lock that there is no reader.
LEMMA NobodyOn ==
  ASSUME IInv, readers = {}, NEW k \in Carriers, active[k] = 0
  PROVE  \A d \in Dials : on[d] # k
<1>1. Streams(k) \in SUBSET Dials
  BY DEF Streams
<1>2. IsFiniteSet(Streams(k)) /\ Cardinality(Streams(k)) = 0
  BY <1>1, FS_Subset, PoolAssumption DEF IInv, CountInv
<1>3. Streams(k) = {}
  BY <1>2, FS_EmptySet
<1>4. \A d \in Dials : pc[d] # "picked"
  BY DEF IInv, StreamInv
<1> QED
  BY <1>3, <1>4, CarriersDistinct DEF Streams, IInv, StreamInv

\* The lives a step may change under the dials, who stay where they are.
LEMMA DialsKept ==
  ASSUME IInv, UNCHANGED <<readers, pc, on>>,
         \A d \in Dials : on[d] # None => life'[on[d]] = life[on[d]],
         closer' \in {"no", "scaler", "join"} =>
           closer \in {"no", "scaler", "join"}
  PROVE  StreamInv'
BY DEF IInv, StreamInv, Holding

\* A dial's own steps.
LEMMA DialStreams ==
  ASSUME IInv, NEW d \in Dials, DialMove(d)
  PROVE  StreamInv'
<1> USE CarriersDistinct DEF IInv, Types, StreamInv, Holding
<1>1. CASE DialContext(d)
  BY ZenonT(60), <1>1 DEF DialContext, Goto
<1>2. CASE PickNone(d)
  BY ZenonT(60), <1>2 DEF PickNone, Goto
<1>3. ASSUME NEW k \in Carriers, PickScan(d, k)
      PROVE  StreamInv'
  <2>1. life[k] = "pooled"
    BY <1>3, PooledLife DEF PickScan
  <2> QED
    BY SMTT(60), <1>3, <2>1 DEF PickScan, Goto
<1>4. CASE PickAdd(d)
  <2>1. /\ pc[d] = "picked" /\ pc' = [pc EXCEPT ![d] = "dial"]
        /\ readers' = readers \ {d} /\ UNCHANGED <<on, life, closer>>
    BY <1>4, PickAddEffect
  <2> QED
    BY ZenonT(60), <2>1
<1>5. CASE DialSucceeds(d)
  BY ZenonT(60), <1>5 DEF DialSucceeds, Goto
<1>6. CASE DialFails(d)
  BY ZenonT(60), <1>6 DEF DialFails, Release, Goto
<1>7. CASE StreamLeaves(d)
  BY ZenonT(60), <1>7 DEF StreamLeaves, Release, Goto
<1>8. CASE StreamCloses(d)
  BY ZenonT(60), <1>8 DEF StreamCloses, Goto
<1> QED
  BY <1>1, <1>2, <1>3, <1>4, <1>5, <1>6, <1>7, <1>8 DEF DialMove

\* No step takes a carrier away from under a dial before Close.
LEMMA StreamStep ==
  ASSUME IInv, Next, Types'
  PROVE  StreamInv'
<1>1. ASSUME NEW d \in Dials, DialMove(d)
      PROVE  StreamInv'
  BY <1>1, DialStreams
<1>2. ASSUME NEW a \in Adders, NEW k \in Carriers, AddProbes(a, k)
      PROVE  StreamInv'
  <2>1. life' = [life EXCEPT ![k] = "probe"] /\ \A d \in Dials : on[d] # k
    BY <1>2 DEF AddProbes, Unused
  <2>2. UNCHANGED <<readers, pc, on, closer>>
    BY <1>2 DEF AddProbes, dials
  <2> QED
    BY <2>1, <2>2, DialsKept DEF IInv, Types
<1>3. ASSUME NEW a \in Adders, AddRegisters(a)
      PROVE  StreamInv'
  <2>1. /\ life' = [life EXCEPT ![adder[a]] = "pooled"]
        /\ life[adder[a]] = "probe"
    BY <1>3 DEF AddRegisters, IInv, ProbeInv
  <2>2. UNCHANGED <<readers, pc, on, closer>>
    BY <1>3 DEF AddRegisters, dials
  <2>3. \A d \in Dials : on[d] # None => on[d] # adder[a]
    BY <2>1 DEF IInv, StreamInv
  <2> QED
    BY <2>1, <2>2, <2>3, DialsKept DEF IInv, Types
<1>4. ASSUME NEW a \in Adders, AddGivesUp(a)
      PROVE  StreamInv'
  <2>1. /\ life' = [life EXCEPT ![adder[a]] = "closed"]
        /\ life[adder[a]] = "probe"
    BY <1>4 DEF AddGivesUp, IInv, ProbeInv
  <2>2. UNCHANGED <<readers, pc, on, closer>>
    BY <1>4 DEF AddGivesUp, dials
  <2>3. \A d \in Dials : on[d] # None => on[d] # adder[a]
    BY <2>1 DEF IInv, StreamInv
  <2> QED
    BY <2>1, <2>2, <2>3, DialsKept DEF IInv, Types
<1>5. ASSUME NEW k \in Carriers, CarrierCloses(k)
      PROVE  StreamInv'
  BY SMT,
     <1>5, CarriersDistinct DEF CarrierCloses, IInv, Types, StreamInv, Holding
<1>6. ASSUME LoopMove
      PROVE  StreamInv'
  <2>1. UNCHANGED <<readers, pc, on, life, closer>>
    BY <1>6, LoopFrame
  <2> QED
    BY <2>1, DialsKept
<1>7. ASSUME ScaledDown
      PROVE  StreamInv'
  <2>1. UNCHANGED <<readers, pc, on, closer>> /\ readers = {}
    BY <1>7 DEF ScaledDown, RemoveIdleCarrier, dials
  <2>2. CASE Candidates = {}
    <3>1. life' = life
      BY <1>7, <2>2 DEF ScaledDown, RemoveIdleCarrier, EvictFirst
    <3> QED
      BY <2>1, <3>1, DialsKept
  <2>3. CASE Candidates # {}
    <3>1. PICK i \in Base + 1 .. Len(pool) :
            active[pool[i]] = 0 /\ life' = [life EXCEPT ![pool[i]] = "out"]
      BY <1>7, <2>3, Evicts DEF IInv
    <3>2. i \in 1..Len(pool)
      BY SMT, PoolAssumption DEF IInv, Types
    <3>3. \A d \in Dials : on[d] # pool[i]
      BY <2>1, <3>1, <3>2, Places, NobodyOn
    <3> QED
      BY <2>1, <3>1, <3>3, DialsKept DEF IInv, Types
  <2> QED
    BY <2>2, <2>3
<1>8. ASSUME CloseMove
      PROVE  StreamInv'
  <2>1. /\ UNCHANGED <<readers, pc, on, life>>
        /\ closer' \in {"no", "scaler", "join"} =>
             closer \in {"no", "scaler", "join"}
    BY <1>8 DEF CloseMove, Close, CloseStops, CloseReturned, dials
  <2> QED
    BY <2>1, DialsKept
<1>9. ASSUME CloseDrains
      PROVE  StreamInv'
  <2>1. /\ readers = {} /\ closer' = "close" /\ UNCHANGED <<readers, pc, on>>
        /\ life' = [k \in Carriers |-> IF k \in Pooled THEN "out" ELSE life[k]]
    BY <1>9 DEF CloseDrains, dials
  <2>2. \A k \in Carriers : life'[k] \in {life[k], "out"}
                            /\ (life'[k] # life[k] => life[k] = "pooled")
    BY <2>1, PooledLife
  <2> QED
    BY SMT, <2>1, <2>2, CarriersDistinct DEF IInv, Types, StreamInv, Holding
<1> QED
  BY ProbeSteps, <1>1, <1>2, <1>3, <1>4, <1>5, <1>6, <1>7, <1>8, <1>9

-----------------------------------------------------------------------------
(* The counts *)

\* The count follows the set of streams when a dial enters or leaves it.
LEMMA Recount ==
  ASSUME IInv, NEW d \in Dials, NEW k \in Carriers,
         \A j \in Carriers \ {k} :
           active'[j] = active[j] /\ Streams(j)' = Streams(j),
         \/ /\ active'[k] = active[k] /\ Streams(k)' = Streams(k)
         \/ /\ d \notin Streams(k) /\ Streams(k)' = Streams(k) \cup {d}
            /\ active'[k] = active[k] + 1
         \/ /\ d \in Streams(k) /\ Streams(k)' = Streams(k) \ {d}
            /\ active'[k] = active[k] - 1
  PROVE  CountInv'
<1>1. Streams(k) \in SUBSET Dials
  BY DEF Streams
<1>2. IsFiniteSet(Streams(k))
  BY <1>1, FS_Subset, PoolAssumption
<1>3. active'[k] = Cardinality(Streams(k)')
  <2>1. active[k] = Cardinality(Streams(k))
    BY DEF IInv, CountInv
  <2>2. d \notin Streams(k) =>
          Cardinality(Streams(k) \cup {d}) = Cardinality(Streams(k)) + 1
    BY <1>2, FS_AddElement
  <2>3. d \in Streams(k) =>
          Cardinality(Streams(k) \ {d}) = Cardinality(Streams(k)) - 1
    BY <1>2, FS_RemoveElement
  <2> QED
    BY <2>1, <2>2, <2>3
<1>4. \A j \in Carriers \ {k} : active'[j] = Cardinality(Streams(j)')
  BY DEF IInv, CountInv
<1> QED
  BY <1>3, <1>4 DEF CountInv

\* A step that neither counts nor starts or ends a stream.
LEMMA Uncounted ==
  ASSUME IInv, active' = active, \A k \in Carriers : Streams(k)' = Streams(k)
  PROVE  CountInv'
BY DEF IInv, CountInv

\* A dial's own steps.
LEMMA DialCounts ==
  ASSUME IInv, NEW d \in Dials, DialMove(d)
  PROVE  CountInv'
<1>a. pc \in [Dials -> {"idle", "pick", "picked"} \cup Holding]
      /\ on \in [Dials -> Carriers \cup {None}]
      /\ active \in [Carriers -> Nat]
  BY DEF IInv, Types
<1>1. CASE DialContext(d)
  BY <1>1, <1>a, Uncounted DEF DialContext, Goto, Streams, Holding
<1>2. CASE PickNone(d)
  BY <1>2, <1>a, Uncounted DEF PickNone, Goto, Streams, Holding
<1>3. ASSUME NEW k \in Carriers, PickScan(d, k)
      PROVE  CountInv'
  BY <1>3, <1>a, Uncounted DEF PickScan, Goto, Streams, Holding
<1>4. CASE PickAdd(d)
  <2>1. on[d] \in Carriers
    BY <1>4, Reserved, PickAddEffect
  <2>2. /\ active' = [active EXCEPT ![on[d]] = active[on[d]] + 1]
        /\ pc' = [pc EXCEPT ![d] = "dial"] /\ on' = on /\ pc[d] = "picked"
    BY <1>4, PickAddEffect
  <2>3. d \notin Streams(on[d]) /\ Streams(on[d])' = Streams(on[d]) \cup {d}
    BY <1>a, <2>1, <2>2 DEF Streams, Holding
  <2>4. \A j \in Carriers \ {on[d]} : Streams(j)' = Streams(j)
    BY <1>a, <2>1, <2>2 DEF Streams, Holding
  <2> QED
    BY <1>a, <2>1, <2>2, <2>3, <2>4, Recount
<1>5. CASE DialSucceeds(d)
  BY <1>5, <1>a, Uncounted DEF DialSucceeds, Goto, Streams, Holding
<1>6. CASE DialFails(d) \/ StreamLeaves(d)
  <2>1. pc[d] \in Holding /\ Release(d)
    BY <1>6 DEF DialFails, StreamLeaves, Holding
  <2>2. on[d] \in Carriers
    BY <2>1, Reserved
  <2>3. /\ active' = [active EXCEPT ![on[d]] = active[on[d]] - 1]
        /\ pc' = [pc EXCEPT ![d] = "idle"] /\ on' = [on EXCEPT ![d] = None]
    BY <2>1 DEF Release, Goto
  <2>4. d \in Streams(on[d])
    BY <2>1 DEF Streams
  <2>5. \A j \in Carriers : Streams(j)' = Streams(j) \ {d}
    BY <1>a, <2>3 DEF Streams, Holding
  <2>6. \A j \in Carriers \ {on[d]} : Streams(j) \ {d} = Streams(j)
    BY DEF Streams
  <2> QED
    BY <1>a, <2>2, <2>3, <2>4, <2>5, <2>6, Recount
<1>7. CASE StreamCloses(d)
  BY <1>7, <1>a, Uncounted DEF StreamCloses, Goto, Streams, Holding
<1> QED
  BY <1>1, <1>2, <1>3, <1>4, <1>5, <1>6, <1>7 DEF DialMove

\* Every step keeps the counts.
LEMMA CountStep ==
  ASSUME IInv, Next, Types'
  PROVE  CountInv'
<1>1. ASSUME NEW d \in Dials, DialMove(d)
      PROVE  CountInv'
  BY <1>1, DialCounts
<1>2. ASSUME NEW a \in Adders, NEW k \in Carriers, AddProbes(a, k)
      PROVE  CountInv'
  BY <1>2, Uncounted DEF AddProbes, dials, Streams
<1>3. ASSUME NEW a \in Adders, AddRegisters(a)
      PROVE  CountInv'
  BY <1>3, Uncounted DEF AddRegisters, dials, Streams
<1>4. ASSUME NEW a \in Adders, AddGivesUp(a)
      PROVE  CountInv'
  BY <1>4, Uncounted DEF AddGivesUp, dials, Streams
<1>5. ASSUME NEW k \in Carriers, CarrierCloses(k)
      PROVE  CountInv'
  BY ZenonT(60), <1>5, Uncounted
  DEF CarrierCloses, Streams, Holding, IInv, Types
<1>6. ASSUME LoopMove
      PROVE  CountInv'
  BY <1>6, LoopFrame, Uncounted DEF Streams
<1>7. ASSUME ScaledDown
      PROVE  CountInv'
  BY <1>7, Uncounted DEF ScaledDown, dials, Streams
<1>8. ASSUME CloseMove
      PROVE  CountInv'
  BY <1>8, Uncounted DEF CloseMove, Close, CloseStops, CloseReturned, dials,
     Streams
<1>9. ASSUME CloseDrains
      PROVE  CountInv'
  BY <1>9, Uncounted DEF CloseDrains, dials, Streams
<1> QED
  BY ProbeSteps, <1>1, <1>2, <1>3, <1>4, <1>5, <1>6, <1>7, <1>8, <1>9

-----------------------------------------------------------------------------
(* The theorems *)

\* The invariant is inductive.
THEOREM PoolInvariant == Spec => []IInv
<1>1. Init => IInv
  BY Initially
<1>2. IInv /\ [Next]_vars => IInv'
  <2> SUFFICES ASSUME IInv, [Next]_vars
               PROVE  IInv'
    OBVIOUS
  <2>1. CASE Next
    <3>1. Types'
      BY <2>1, TypesStep
    <3> QED
      BY <2>1, <3>1, PoolStep, ProbeStep, CloseStep, StreamStep, CountStep
      DEF IInv
  <2>2. CASE UNCHANGED vars
    <3>1. UNCHANGED <<closed, pool, readers, life, active, idle, pc, on, adder,
                      signal, cool, stopped, closer>>
      BY <2>2 DEF vars, dials, scaler
    <3>2. Types'
      BY <3>1 DEF IInv, Types
    <3>3. PoolInv'
      BY <3>1 DEF IInv, PoolInv
    <3>4. ProbeInv' /\ CloseInv'
      BY <3>1 DEF IInv, ProbeInv, CloseInv
    <3>5. StreamInv' /\ CountInv'
      BY <3>1 DEF IInv, StreamInv, CountInv, Streams
    <3> QED
      BY <3>2, <3>3, <3>4, <3>5 DEF IInv
  <2> QED
    BY <2>1, <2>2
<1> QED
  BY <1>1, <1>2, PTL DEF Spec

\* TypeOK holds: in particular AddCarrier, which looks at the size of the pool
\* before its probe, never takes it past maxCarriers, and no carrier is pooled
\* twice.
THEOREM TypesCorrect == Spec => []TypeOK
<1>1. IInv => TypeOK
  <2> SUFFICES ASSUME IInv
               PROVE  TypeOK
    OBVIOUS
  <2>1. /\ pool \in Seq(Carriers) /\ Len(pool) \in Nat
        /\ DOMAIN pool = 1..Len(pool)
    BY SMT DEF IInv, Types
  <2>2. pool \in Bijection(1..Len(pool), Pooled)
    <3>1. pool \in [1..Len(pool) -> Pooled]
      BY SMTT(60), <2>1 DEF Pooled, Range
    <3>2. pool \in Injection(1..Len(pool), Pooled)
      BY <2>1, <3>1 DEF IInv, PoolInv, Injection, IsInjective
    <3>3. pool \in Surjection(1..Len(pool), Pooled)
      BY <2>1, <3>1 DEF Pooled, Range, Surjection
    <3> QED
      BY <3>2, <3>3 DEF Bijection
  <2>3. /\ IsFiniteSet(1..Len(pool))
        /\ Cardinality(1..Len(pool)) = Len(pool)
    BY SMTT(60), <2>1, FS_Interval
  <2>4. Cardinality(Pooled) = Len(pool)
    BY <2>2, <2>3, FS_Bijection DEF ExistsBijection
  <2> QED
    BY <2>4 DEF IInv, Types, PoolInv, TypeOK, Labels
<1> QED
  BY <1>1, PoolInvariant, PTL

\* activeStreams is exact on every carrier: reservations, failed dials, closes
\* by the user and by the carrier balance in every interleaving.
THEOREM Reservations == Spec => []ReservationsExact
<1>1. IInv => ReservationsExact
  BY DEF IInv, CountInv, ReservationsExact, Streams
<1> QED
  BY <1>1, PoolInvariant, PTL

\* Until Close drains the pool the carrier of a dial or of a stream stays in
\* it, and so does the base, in its places.
THEOREM StreamsKept == Spec => []NoStreamEvicted
<1>1. IInv => NoStreamEvicted
  <2> SUFFICES ASSUME IInv, closer \in {"no", "scaler", "join"}
               PROVE  /\ \A d \in Dials : on[d] # None => on[d] \in Pooled
                      /\ Base <= Len(pool)
                      /\ SubSeq(pool, 1, Base) = BaseList
    BY DEF NoStreamEvicted
  <2>1. \A d \in Dials : on[d] # None => on[d] \in Pooled
    BY PooledLife DEF IInv, Types, StreamInv
  <2>2. /\ BaseList \in Seq(Carriers) /\ Base = Len(BaseList) /\ Base \in Nat
    BY SMTT(60), BaseListed, PoolAssumption
  <2>3. /\ pool \in Seq(Carriers) /\ Base <= Len(pool)
        /\ \A i \in 1..Base : pool[i] = BaseList[i]
    BY DEF IInv, Types, PoolInv
  <2>4. /\ SubSeq(pool, 1, Base) \in Seq(Carriers)
        /\ Len(SubSeq(pool, 1, Base)) = Base
        /\ \A i \in 1..Base : SubSeq(pool, 1, Base)[i] = BaseList[i]
    BY SMTT(60), <2>2, <2>3
  <2>5. SubSeq(pool, 1, Base) = BaseList
    BY SMT, <2>2, <2>4
  <2> QED
    BY <2>1, <2>3, <2>5
<1> QED
  BY <1>1, PoolInvariant, PTL

\* When Close has returned the pool is empty, each carrier is closed or in the
\* hands of a call of AddCarrier that will close it, and no stream is open.
THEOREM ClosedForGood == Spec => []NothingAfterClose
<1>1. IInv => NothingAfterClose
  <2> SUFFICES ASSUME IInv, closer = "done"
               PROVE  /\ pool = <<>>
                      /\ \A k \in Carriers :
                           \/ life[k] \in {"free", "closed"}
                           \/ /\ life[k] = "probe"
                              /\ \E a \in Callers : adder[a] = k
                      /\ \A d \in Dials : pc[d] # "open"
    BY DEF NothingAfterClose
  <2>1. /\ pool = <<>> /\ adder[Scaler] = "exit"
        /\ \A k \in Carriers : life[k] # "out"
    BY DEF IInv, CloseInv
  <2>2. \A k \in Carriers : life[k] # "pooled"
    BY SMTT(60), <2>1 DEF IInv, PoolInv
  <2>3. \A k \in Carriers : life[k] = "probe" =>
          \E a \in Callers : adder[a] = k
    BY <2>1, CarriersDistinct DEF IInv, ProbeInv, Adders, Labels
  <2>4. \A d \in Dials : pc[d] # "open"
    <3> SUFFICES ASSUME NEW d \in Dials, pc[d] = "open"
                 PROVE  FALSE
      OBVIOUS
    <3>1. on[d] \in Carriers /\ life[on[d]] \in {"pooled", "out"}
      BY ZenonT(60) DEF IInv, StreamInv, Types, Holding
    <3> QED
      BY <2>1, <2>2, <3>1
  <2> QED
    BY <2>1, <2>2, <2>3, <2>4 DEF IInv, Types
<1> QED
  BY <1>1, PoolInvariant, PTL
=============================================================================
