----------------------------- MODULE RelayProofs -----------------------------
(***************************************************************************)
(* TLAPS proofs about the UDP relays' parts: SequenceWindows, for every    *)
(* size of the windows, every skew and every range of numbers and times;   *)
(* and H3Relay, for any number of forwarders, addresses and targets and    *)
(* any limits: the budget is exact, a cached target is live, and Close     *)
(* leaves nothing behind.                                                  *)
(***************************************************************************)
EXTENDS SequenceWindows, H3Relay, FiniteSetTheorems, SequenceTheorems, TLAPS

\* The prover of a leaf that names no other.
USE Zenon

-----------------------------------------------------------------------------
(* Replay windows *)

\* Numbers less than Size apart have different slots.
LEMMA ModDistinct ==
  ASSUME NEW a \in Nat, NEW b \in Nat, a < b, b - a < Size
  PROVE  a % Size # b % Size
<1> DEFINE p == a \div Size
           q == b \div Size
<1>1. /\ p \in Int /\ q \in Int
      /\ a % Size \in 0..(Size - 1) /\ b % Size \in 0..(Size - 1)
      /\ a = Size * p + (a % Size) /\ b = Size * q + (b % Size)
  BY SMT, SizeAssumption
<1>2. SUFFICES ASSUME a % Size = b % Size
              PROVE  FALSE
  OBVIOUS
<1> HIDE DEF p, q
<1>3. Size * q - Size * p = b - a
  BY SMT, <1>1, <1>2, SizeAssumption
<1>4. CASE q <= p
  <2>1. Size * q <= Size * p
    BY SMT, <1>1, <1>4, SizeAssumption
  <2> QED BY SMT, <1>1, <1>3, <2>1, SizeAssumption
<1>5. CASE q >= p + 1
  <2>1. Size * q >= Size * (p + 1)
    BY SMT, <1>1, <1>5, SizeAssumption
  <2>2. Size * (p + 1) = Size * p + Size
    BY SMT, <1>1, SizeAssumption
  <2> QED BY SMT, <1>1, <1>3, <2>1, <2>2, SizeAssumption
<1> QED BY SMT, <1>1, <1>4, <1>5

\* Two numbers of one slot that are less than Size apart are the same.
LEMMA SameSlot ==
  ASSUME NEW a \in Nat, NEW b \in Nat, a - b < Size, b - a < Size
  PROVE  a = b <=> a % Size = b % Size
<1>1. CASE a < b
  BY <1>1, ModDistinct
<1>2. CASE b < a
  BY <1>2, ModDistinct
<1>3. CASE a = b
  BY <1>3
<1> QED BY SMT, <1>1, <1>2, <1>3

-----------------------------------------------------------------------------
(* frame.ReplayWindow *)

\* WindowExact over all numbers, and a fresh window has no bit set.
Exact(w, S) ==
  /\ w.initialized <=> S # {}
  /\ ~w.initialized => w.bits = {}
  /\ \A q \in S : q <= w.highest
  /\ \A q \in Nat : q <= w.highest /\ w.highest - q < Size =>
       (q \in S <=> q % Size \in w.bits)

\* A slot is one of the window's.
LEMMA SlotRange == \A q \in Nat : q % Size \in 0..(Size - 1)
  BY SMT, SizeAssumption

\* What an advance keeps: the bits of the numbers that stay in the window, and
\* none of the numbers it passes.
LEMMA KeptExact ==
  ASSUME NEW w \in Windows, NEW S \in SUBSET Nat, Exact(w, S),
         w.initialized, NEW seq \in Nat, seq > w.highest,
         NEW q \in Nat, q < seq, seq - q < Size
  PROVE  q \in S <=> q % Size \in Kept(w, seq)
<1> DEFINE h == w.highest
<1>1. h \in Nat
  BY DEF Windows
<1>2. CASE seq - h >= Size
  <2>1. q > h
    BY SMT, <1>1, <1>2, SizeAssumption
  <2>2. q \notin S
    BY SMT, <1>1, <2>1 DEF Exact
  <2>3. Kept(w, seq) = {}
    BY <1>2 DEF Kept
  <2> QED BY <2>2, <2>3
<1>3. CASE ~(seq - h >= Size)
  <2>1. Kept(w, seq) = w.bits \ Slots(h + 1, (seq - h) - 1)
    BY <1>3 DEF Kept
  <2>2. CASE q > h
    <3>1. q \in (h + 1)..((h + 1) + ((seq - h) - 1) - 1)
      BY SMT, <1>1, <2>2
    <3>2. q % Size \in Slots(h + 1, (seq - h) - 1)
      BY <3>1 DEF Slots
    <3>3. q \notin S
      BY SMT, <1>1, <2>2 DEF Exact
    <3> QED BY <2>1, <3>2, <3>3
  <2>3. CASE q <= h
    <3>1. q % Size \notin Slots(h + 1, (seq - h) - 1)
      <4>1. SUFFICES ASSUME NEW r \in (h + 1)..((h + 1) + ((seq - h) - 1) - 1)
                     PROVE  q % Size # r % Size
        BY DEF Slots
      <4>2. r \in Nat /\ q < r /\ r - q < Size
        BY SMT, <1>1, <2>3, <4>1, SizeAssumption
      <4> QED BY <4>2, ModDistinct
    <3>2. h - q < Size
      BY SMT, <1>1, SizeAssumption
    <3>3. q \in S <=> q % Size \in w.bits
      BY <2>3, <3>2 DEF Exact
    <3> QED BY <2>1, <3>1, <3>3
  <2> QED BY SMT, <1>1, <2>2, <2>3
<1> QED BY <1>2, <1>3

\* One Accept keeps a window exact.
LEMMA AcceptExact ==
  ASSUME NEW w \in Windows, NEW S \in SUBSET Nat, Exact(w, S),
         NEW seq \in Nat
  PROVE  /\ Accept(w, seq) \in Windows
         /\ Exact(Accept(w, seq),
                  IF Accepts(w, seq) THEN S \cup {seq} ELSE S)
<1> USE SizeAssumption
<1>1. seq % Size \in 0..(Size - 1)
  BY SlotRange
<1>2. CASE ~w.initialized
  <2>1. Accept(w, seq) = Marked(seq, {}) /\ Accepts(w, seq) /\ S = {}
    BY <1>2 DEF Accept, Accepts, Newer, Exact
  <2>2. Marked(seq, {}) \in Windows
    BY <1>1 DEF Marked, Windows
  <2>3. ASSUME NEW q \in Nat, q <= seq, seq - q < Size
        PROVE  q = seq <=> q % Size = seq % Size
    <3>1. q - seq < Size
      BY SMT, <2>3
    <3> QED BY <2>3, <3>1, SameSlot
  <2> QED BY SMT, <2>1, <2>2, <2>3 DEF Exact, Marked
<1>3. CASE w.initialized /\ seq > w.highest
  <2>1. Accept(w, seq) = Marked(seq, Kept(w, seq)) /\ Accepts(w, seq)
    BY <1>3 DEF Accept, Accepts, Newer
  <2>2. Kept(w, seq) \subseteq w.bits
    BY DEF Kept
  <2>3. Marked(seq, Kept(w, seq)) \in Windows
    BY <1>1, <2>2 DEF Marked, Windows
  <2>4. \A q \in S : q <= seq
    BY SMT, <1>3 DEF Exact, Windows
  <2>5. ASSUME NEW q \in Nat, q <= seq, seq - q < Size
        PROVE  q \in S \cup {seq}
                 <=> q % Size \in Kept(w, seq) \cup {seq % Size}
    <3>1. CASE q = seq
      BY <3>1
    <3>2. CASE q < seq
      <4>1. q % Size # seq % Size
        BY <2>5, <3>2, ModDistinct
      <4>2. q \in S <=> q % Size \in Kept(w, seq)
        BY <1>3, <2>5, <3>2, KeptExact
      <4> QED BY <3>2, <4>1, <4>2
    <3> QED BY SMT, <2>5, <3>1, <3>2
  <2> QED BY SMT, <2>1, <2>3, <2>4, <2>5 DEF Exact, Marked
<1>4. CASE w.initialized /\ ~(seq > w.highest) /\ InWindow(w, seq)
  <2> DEFINE v == [w EXCEPT !.bits = @ \cup {seq % Size}]
  <2>1. Accept(w, seq) = v /\ Accepts(w, seq)
    BY <1>4 DEF Accept, Accepts
  <2>2. v \in Windows /\ v.highest = w.highest /\ v.initialized
        /\ v.bits = w.bits \cup {seq % Size}
    BY <1>1, <1>4 DEF Windows
  <2>3. w.highest \in Nat /\ seq <= w.highest /\ w.highest - seq < Size
    BY SMT, <1>4 DEF Windows, InWindow
  <2>4. ASSUME NEW q \in Nat, q <= w.highest, w.highest - q < Size
        PROVE  q \in S \cup {seq} <=> q % Size \in w.bits \cup {seq % Size}
    <3>1. q \in S <=> q % Size \in w.bits
      BY <2>4 DEF Exact
    <3>2. q = seq <=> q % Size = seq % Size
      <4>1. q - seq < Size /\ seq - q < Size
        BY SMT, <2>3, <2>4
      <4> QED BY <4>1, SameSlot
    <3> QED BY <3>1, <3>2
  <2>5. \A q \in S \cup {seq} : q <= w.highest
    BY <2>3 DEF Exact
  <2> HIDE DEF v
  <2> QED BY <2>1, <2>2, <2>4, <2>5 DEF Exact
<1>5. CASE w.initialized /\ ~(seq > w.highest) /\ ~InWindow(w, seq)
  BY <1>5 DEF Accept, Accepts, Newer
<1> QED BY <1>2, <1>3, <1>4, <1>5
-----------------------------------------------------------------------------
(* plainudp.ResponseReplayWindow *)

\* w remembers the accepted responses g at time c: each one is retired, in the
\* ring's set or below its timestamp's floor; what is in the ring, the set or
\* a floor was accepted; and no timestamp that is still valid is retired.
Remembers(w, g, c) ==
  /\ w \in Responses /\ Len(w.ring) <= RingSize
  /\ \A i \in 1..Len(w.ring) : w.ring[i] \in g
  /\ w.seen \subseteq g
  /\ \A t \in DOMAIN w.floors :
       \E x \in g : x.timestamp = t /\ x.sequence = w.floors[t]
  /\ w.hasRetired => w.retiredThrough + 2 * Skew + 1 = w.maxTimestamp
  /\ \A x \in g : x.timestamp <= w.maxTimestamp
  /\ \A x \in g : Retired(w, x.timestamp) \/ Known(w, x)
  /\ w.maxTimestamp <= c + Skew

\* Floors of a set of timestamps are floors.
LEMMA FloorsType ==
  ASSUME NEW D \in SUBSET Times, NEW f \in [D -> 0..MaxResp]
  PROVE  f \in UNION {[E -> 0..MaxResp] : E \in SUBSET Times}
  OBVIOUS

\* The timestamps that have a floor, and the floors.
LEMMA FloorsShape ==
  ASSUME NEW w \in Responses
  PROVE  /\ DOMAIN w.floors \subseteq Times
         /\ w.floors \in [DOMAIN w.floors -> 0..MaxResp]
<1>1. PICK D \in SUBSET Times : w.floors \in [D -> 0..MaxResp]
  BY DEF Responses
<1> QED BY <1>1

\* Moving on with the clock retires timestamps and nothing else.
LEMMA AdvanceKeeps ==
  ASSUME NEW g \in SUBSET Identities, NEW c \in Nat, NEW w,
         Remembers(w, g, c), NEW ts \in Times, ts <= c + Skew
  PROVE  /\ Remembers(Advance(w, ts), g, c)
         /\ ts <= Advance(w, ts).maxTimestamp
<1> USE WindowsAssumption
<1>1. w \in Responses /\ Times \subseteq Nat /\ w.maxTimestamp \in Nat
  BY SMT DEF Remembers, Responses, Times
<1>2. CASE ts <= w.maxTimestamp
  BY <1>2 DEF Advance
<1>3. CASE ~(ts <= w.maxTimestamp) /\ ts <= 2 * Skew
  <2> DEFINE v == [w EXCEPT !.maxTimestamp = ts]
  <2>1. Advance(w, ts) = v
    BY <1>3 DEF Advance
  <2>2. /\ v \in Responses /\ v.maxTimestamp = ts /\ v.ring = w.ring
        /\ v.seen = w.seen /\ v.floors = w.floors
        /\ v.hasRetired = w.hasRetired
        /\ v.retiredThrough = w.retiredThrough
    BY <1>1 DEF Responses
  <2>3. ~w.hasRetired
    BY SMT, <1>1, <1>3 DEF Remembers, Responses
  <2>4. \A x \in g : x.timestamp <= ts
    <3>1. \A x \in g : x.timestamp <= w.maxTimestamp
      BY DEF Remembers
    <3>2. \A x \in g : x.timestamp \in Nat
      BY <1>1 DEF Identities
    <3> QED
      BY SMT, <1>1, <1>3, <3>1, <3>2
  <2> HIDE DEF v
  <2>5. \A x \in g : Retired(v, x.timestamp) \/ Known(v, x)
    BY <2>2 DEF Remembers, Retired, Known
  <2> QED BY SMT, <1>1, <2>1, <2>2, <2>3, <2>4, <2>5 DEF Remembers
<1>4. CASE ~(ts <= w.maxTimestamp) /\ ~(ts <= 2 * Skew)
  <2> DEFINE R == ts - 2 * Skew - 1
             K == {t \in DOMAIN w.floors : t > R}
             F == [t \in K |-> w.floors[t]]
             v == [w EXCEPT !.maxTimestamp = ts, !.hasRetired = TRUE,
                            !.retiredThrough = R, !.floors = F]
  <2>1. Advance(w, ts) = v
    BY <1>4 DEF Advance
  <2>2. R \in Nat
    BY SMT, <1>1, <1>4
  <2>3. F \in UNION {[E -> 0..MaxResp] : E \in SUBSET Times}
    <3>1. /\ DOMAIN w.floors \subseteq Times
          /\ w.floors \in [DOMAIN w.floors -> 0..MaxResp]
      BY <1>1, FloorsShape
    <3>2. K \in SUBSET Times
      BY <3>1
    <3>3. F \in [K -> 0..MaxResp]
      BY <3>1
    <3> QED BY <3>2, <3>3, FloorsType
  <2> HIDE DEF R, F
  <2>4. /\ v \in Responses /\ v.maxTimestamp = ts /\ v.ring = w.ring
        /\ v.seen = w.seen /\ v.floors = F
        /\ v.hasRetired = TRUE /\ v.retiredThrough = R
    BY <1>1, <2>2, <2>3 DEF Responses
  <2> HIDE DEF v
  <2>5. DOMAIN F = K /\ \A t \in K : F[t] = w.floors[t]
    BY DEF F
  <2>6. ASSUME NEW x \in g
        PROVE  x.timestamp <= ts
    <3>1. x.timestamp \in Nat /\ ts \in Nat
      BY <1>1 DEF Identities
    <3>2. x.timestamp <= w.maxTimestamp
      BY DEF Remembers
    <3> QED BY SMT, <1>1, <1>4, <3>1, <3>2
  <2>7. w.hasRetired => w.retiredThrough < R
    BY SMT, <1>1, <1>4 DEF Remembers, Responses, R
  <2>8. ASSUME NEW x \in g
        PROVE  Retired(v, x.timestamp) \/ Known(v, x)
    <3>1. x.timestamp \in Nat
      BY <1>1 DEF Identities
    <3>2. CASE Retired(w, x.timestamp)
      BY SMTT(60), <1>1, <2>2, <2>4, <2>7, <3>1, <3>2 DEF Retired, Responses
    <3>3. CASE x \in w.seen
      BY <2>4, <3>3 DEF Known
    <3>4. CASE /\ x.timestamp \in DOMAIN w.floors
               /\ x.sequence <= w.floors[x.timestamp]
      <4>1. CASE x.timestamp > R
        BY <2>4, <2>5, <3>4, <4>1 DEF Known
      <4>2. CASE x.timestamp <= R
        BY <2>4, <4>2 DEF Retired
      <4> QED BY SMT, <2>2, <3>1, <4>1, <4>2
    <3> QED BY <3>2, <3>3, <3>4 DEF Remembers, Known
  <2>9. v.retiredThrough + 2 * Skew + 1 = v.maxTimestamp
    BY SMT, <1>1, <2>4 DEF R
  <2> QED BY SMT, <1>1, <2>1, <2>4, <2>5, <2>6, <2>8, <2>9 DEF Remembers
<1> QED BY <1>2, <1>3, <1>4

\* Remembering a response keeps the older ones, or raises the floor over them.
LEMMA RememberKeeps ==
  ASSUME NEW g \in SUBSET Identities, NEW c \in Nat, NEW w,
         Remembers(w, g, c), NEW id \in Identities,
         id.timestamp <= w.maxTimestamp
  PROVE  Remembers(Remember(w, id), g \cup {id}, c)
<1> USE WindowsAssumption
<1> DEFINE G == g \cup {id}
<1>1. w \in Responses
  BY DEF Remembers
<1>2. CASE Len(w.ring) < RingSize
  <2> DEFINE v == [w EXCEPT !.ring = Append(@, id), !.seen = @ \cup {id}]
  <2>1. Remember(w, id) = v
    BY <1>2 DEF Remember
  <2>2. w.ring \in Seq(Identities) /\ w.seen \subseteq Identities
    BY <1>1 DEF Responses
  <2>3. Append(w.ring, id) \in Seq(Identities)
        /\ Len(Append(w.ring, id)) = Len(w.ring) + 1
        /\ Append(w.ring, id)[Len(w.ring) + 1] = id
        /\ \A i \in 1..Len(w.ring) : Append(w.ring, id)[i] = w.ring[i]
    BY SMT, <2>2
  <2>4. /\ v \in Responses /\ v.maxTimestamp = w.maxTimestamp
        /\ v.ring = Append(w.ring, id)
        /\ v.seen = w.seen \cup {id} /\ v.floors = w.floors
        /\ v.hasRetired = w.hasRetired
        /\ v.retiredThrough = w.retiredThrough
    BY <1>1, <2>2, <2>3 DEF Responses
  <2> HIDE DEF v
  <2>5. Len(v.ring) <= RingSize /\ \A i \in 1..Len(v.ring) : v.ring[i] \in G
    BY SMT, <1>2, <2>2, <2>3, <2>4 DEF Remembers
  <2>6. \A x \in G : Retired(v, x.timestamp) \/ Known(v, x)
    BY <2>4 DEF Remembers, Retired, Known
  <2>7. \A t \in DOMAIN v.floors :
          \E x \in G : x.timestamp = t /\ x.sequence = v.floors[t]
    BY ZenonT(60), <2>4 DEF Remembers
  <2> QED BY <2>1, <2>4, <2>5, <2>6, <2>7 DEF Remembers
<1>3. CASE ~(Len(w.ring) < RingSize)
  <2> DEFINE n == w.next + 1
             old == w.ring[n]
             F == IF Retired(w, old.timestamp) THEN w.floors
                  ELSE Raised(w.floors, old.timestamp, old.sequence)
             v == [w EXCEPT !.seen = (@ \ {old}) \cup {id}, !.floors = F,
                            !.ring[n] = id, !.next = (@ + 1) % RingSize]
  <2>1. Remember(w, id) = v
    BY <1>3 DEF Remember
  <2>2. /\ w.ring \in Seq(Identities) /\ w.seen \subseteq Identities
        /\ Len(w.ring) = RingSize /\ n \in 1..Len(w.ring)
        /\ w.next \in 0..(RingSize - 1)
    BY SMT, <1>1, <1>3 DEF Responses, Remembers
  <2>3. old \in g /\ old \in Identities
    BY <2>2 DEF Remembers
  <2>4. old.timestamp \in Times /\ old.sequence \in 0..MaxResp
    BY <2>3 DEF Identities
  <2>5. (w.next + 1) % RingSize \in 0..(RingSize - 1)
    BY SMT, <2>2
  <2>6. [w.ring EXCEPT ![n] = id] \in Seq(Identities)
        /\ Len([w.ring EXCEPT ![n] = id]) = RingSize
        /\ \A i \in 1..RingSize : [w.ring EXCEPT ![n] = id][i] \in G
    BY SMT, <2>2 DEF Remembers
  <2>7. DOMAIN w.floors \subseteq Times
        /\ w.floors \in [DOMAIN w.floors -> 0..MaxResp]
    BY <1>1, FloorsShape
  <2> HIDE DEF n, old
  <2>8. /\ F \in UNION {[E -> 0..MaxResp] : E \in SUBSET Times}
        /\ DOMAIN w.floors \subseteq DOMAIN F
        /\ \A t \in DOMAIN w.floors : w.floors[t] <= F[t]
        /\ \A t \in DOMAIN F : \/ t \in DOMAIN w.floors /\ F[t] = w.floors[t]
                               \/ t = old.timestamp /\ F[t] = old.sequence
        /\ \/ Retired(w, old.timestamp)
           \/ old.timestamp \in DOMAIN F /\ old.sequence <= F[old.timestamp]
    <3>1. CASE Retired(w, old.timestamp)
      BY SMT, <2>7, <3>1, FloorsType
    <3>2. CASE ~Retired(w, old.timestamp)
      <4> DEFINE D == DOMAIN w.floors \cup {old.timestamp}
      <4>1. F = [t \in D |->
                  IF t # old.timestamp THEN w.floors[t]
                  ELSE IF old.timestamp \in DOMAIN w.floors
                          /\ w.floors[old.timestamp] > old.sequence
                       THEN w.floors[old.timestamp] ELSE old.sequence]
        BY <3>2 DEF Raised
      <4>2. D \in SUBSET Times /\ F \in [D -> 0..MaxResp]
        BY SMTT(60), <2>4, <2>7, <4>1
      <4>3. F \in UNION {[E -> 0..MaxResp] : E \in SUBSET Times}
        BY <4>2, FloorsType
      <4> HIDE DEF F
      <4>4. \A t \in DOMAIN w.floors : w.floors[t] <= F[t]
        BY SMT, <2>4, <2>7, <4>1
      <4>5. \A t \in D : \/ t \in DOMAIN w.floors /\ F[t] = w.floors[t]
                         \/ t = old.timestamp /\ F[t] = old.sequence
        BY <4>1
      <4>6. old.sequence <= F[old.timestamp]
        BY SMT, <2>4, <2>7, <4>1
      <4> QED BY <4>2, <4>3, <4>4, <4>5, <4>6
    <3> QED BY <3>1, <3>2
  <2> HIDE DEF F
  <2>9. /\ v \in Responses /\ v.maxTimestamp = w.maxTimestamp
        /\ v.ring = [w.ring EXCEPT ![n] = id]
        /\ v.seen = (w.seen \ {old}) \cup {id} /\ v.floors = F
        /\ v.hasRetired = w.hasRetired
        /\ v.retiredThrough = w.retiredThrough
    BY <1>1, <2>2, <2>5, <2>6, <2>8 DEF Responses
  <2> HIDE DEF v
  <2>10. Len(v.ring) <= RingSize /\ \A i \in 1..Len(v.ring) : v.ring[i] \in G
    BY SMT, <2>6, <2>9
  <2>11. \A t \in DOMAIN v.floors :
           \E x \in G : x.timestamp = t /\ x.sequence = v.floors[t]
    BY SMTT(60), <2>3, <2>8, <2>9 DEF Remembers
  <2>12. ASSUME NEW x \in G
         PROVE  Retired(v, x.timestamp) \/ Known(v, x)
    <3>1. x.sequence \in Nat
      BY SMT DEF Identities
    <3>2. CASE x = id
      BY <2>9, <3>2 DEF Known
    <3>3. CASE x = old
      BY <2>8, <2>9, <3>3 DEF Known, Retired
    <3>4. CASE x \in g /\ x # old
      <4>1. CASE Retired(w, x.timestamp) \/ x \in w.seen
        BY <2>9, <3>4, <4>1 DEF Known, Retired
      <4>2. CASE /\ x.timestamp \in DOMAIN w.floors
                 /\ x.sequence <= w.floors[x.timestamp]
        <5>1. /\ x.timestamp \in DOMAIN F
              /\ w.floors[x.timestamp] <= F[x.timestamp]
          BY <2>8, <4>2
        <5>2. w.floors[x.timestamp] \in Nat /\ F[x.timestamp] \in Nat
          BY SMT, <2>4, <2>7, <2>8, <4>2, <5>1
        <5>3. x.sequence <= F[x.timestamp]
          BY SMT, <3>1, <4>2, <5>1, <5>2
        <5> QED BY <2>9, <5>1, <5>3 DEF Known
      <4> QED BY <3>4, <4>1, <4>2 DEF Remembers, Known
    <3> QED BY <3>2, <3>3, <3>4
  <2>13. \A x \in G : x.timestamp <= v.maxTimestamp
    BY <2>9 DEF Remembers
  <2> QED BY <2>1, <2>9, <2>10, <2>11, <2>12, <2>13 DEF Remembers
<1> QED BY <1>2, <1>3
-----------------------------------------------------------------------------
(* The specification *)

\* The inductive invariant: each window is exact about its history.
WindowsInv ==
  /\ window \in Windows /\ seen \subseteq Seqs /\ Exact(window, seen)
  /\ clock \in 0..MaxClock /\ given \subseteq Identities
  /\ Remembers(resp, given, clock)

\* An empty window is exact.
LEMMA WindowsStart == WindowsInit => WindowsInv
<1> SUFFICES ASSUME WindowsInit PROVE WindowsInv
  OBVIOUS
<1> USE WindowsAssumption, SizeAssumption
<1>1. NewWindow \in Windows /\ Exact(NewWindow, {})
  BY DEF NewWindow, Windows, Exact
<1> DEFINE none == [t \in {} |-> 0]
<1>2. none \in [{} -> 0..MaxResp]
  OBVIOUS
<1>3. none \in UNION {[E -> 0..MaxResp] : E \in SUBSET Times}
  BY <1>2, FloorsType
<1>4. DOMAIN none = {}
  OBVIOUS
<1> HIDE DEF none
<1>5. NewResponses =
        [seen |-> {}, ring |-> <<>>, next |-> 0, floors |-> none,
         maxTimestamp |-> 0, retiredThrough |-> 0, hasRetired |-> FALSE]
  BY DEF NewResponses, none
<1>6. 0 \in Times
  BY SMT DEF Times
<1>7. NewResponses \in Responses
  BY SMT, <1>3, <1>5, <1>6 DEF Responses
<1>8. Remembers(NewResponses, {}, 0)
  BY SMT, <1>4, <1>5, <1>7 DEF Remembers
<1> QED BY SMT, <1>1, <1>8 DEF WindowsInit, WindowsInv

\* Every step keeps the windows exact.
LEMMA WindowsStep == WindowsInv /\ [WindowsNext]_windowsVars => WindowsInv'
<1> SUFFICES ASSUME WindowsInv, [WindowsNext]_windowsVars PROVE WindowsInv'
  OBVIOUS
<1> USE WindowsAssumption
<1>1. ASSUME NEW seq \in Seqs, Offer(seq)
      PROVE  WindowsInv'
  <2>1. seq \in Nat /\ seen \in SUBSET Nat
    BY SMT DEF Seqs, WindowsInv
  <2>2. /\ Accept(window, seq) \in Windows
        /\ Exact(Accept(window, seq),
                 IF Accepts(window, seq) THEN seen \cup {seq} ELSE seen)
    BY <2>1, AcceptExact DEF WindowsInv
  <2> QED BY <1>1, <2>2 DEF Offer, WindowsInv
<1>2. ASSUME NEW id \in Identities, Respond(id)
      PROVE  WindowsInv'
  <2> DEFINE w == Advance(resp, id.timestamp)
  <2>1. /\ clock \in Nat /\ id.timestamp \in Times
        /\ given \in SUBSET Identities /\ Remembers(resp, given, clock)
    BY SMT DEF WindowsInv, Identities
  <2>2. id.timestamp <= clock + Skew
    BY SMT, <1>2, <2>1 DEF Respond, Times
  <2>3. Remembers(w, given, clock) /\ id.timestamp <= w.maxTimestamp
    BY <2>1, <2>2, AdvanceKeeps
  <2>4. Remembers(Remember(w, id), given \cup {id}, clock)
    BY <2>1, <2>3, RememberKeeps
  <2>5. Remembers(resp', given', clock)
    BY <1>2, <2>1, <2>3, <2>4 DEF Respond
  <2>6. given' \subseteq Identities
    BY <1>2, <2>1 DEF Respond
  <2> QED BY <1>2, <2>5, <2>6 DEF Respond, WindowsInv
<1>3. ASSUME Tick
      PROVE  WindowsInv'
  <2>1. clock' \in 0..MaxClock /\ clock' = clock + 1
    BY SMT, <1>3 DEF Tick, WindowsInv
  <2>2. Remembers(resp, given, clock')
    BY SMTT(60), <2>1 DEF Remembers, WindowsInv, Responses, Times
  <2> QED BY <1>3, <2>1, <2>2 DEF Tick, WindowsInv
<1>4. CASE UNCHANGED windowsVars
  BY <1>4 DEF windowsVars, WindowsInv
<1> QED BY <1>1, <1>2, <1>3, <1>4 DEF WindowsNext

\* Both windows stay exact about what they accepted, whatever numbers,
\* timestamps and repetitions arrive (ReplayWindow.Accept,
\* ResponseReplayWindow.Accept).
THEOREM WindowsCorrect == WindowsSpec => []WindowsInv
  BY WindowsStart, WindowsStep, PTL DEF WindowsSpec

\* The bit array holds exactly the accepted numbers of the window, for every
\* size of the window (ReplayWindow.Accept, mark and clearSlots).
THEOREM FrameExact == WindowsSpec => []WindowExact
<1>1. WindowsInv => WindowExact
  BY SMT DEF WindowsInv, WindowExact, Exact, Seqs
<1> QED BY <1>1, WindowsCorrect, PTL

\* A number that was accepted is never accepted again (ReplayWindow.Accept).
THEOREM FrameOnce ==
  WindowsSpec => [](\A q \in seen : ~Accepts(window, q))
<1>1. WindowsInv => \A q \in seen : ~Accepts(window, q)
  <2> SUFFICES ASSUME WindowsInv, NEW q \in seen
               PROVE  ~Accepts(window, q)
    OBVIOUS
  <2>1. /\ q \in Nat /\ window \in Windows /\ Exact(window, seen)
        /\ window.highest \in Nat
    BY SMT DEF WindowsInv, Seqs, Windows
  <2>2. window.initialized /\ q <= window.highest
    BY <2>1 DEF Exact
  <2>3. CASE window.highest - q < Size
    BY SMT, <2>1, <2>2, <2>3 DEF Exact, Accepts, Newer, InWindow
  <2>4. CASE ~(window.highest - q < Size)
    BY SMT, <2>1, <2>2, <2>4 DEF Accepts, Newer, InWindow
  <2> QED BY <2>3, <2>4
<1> QED BY <1>1, WindowsCorrect, PTL

\* A response that was accepted stays refused when the ring has forgotten it
\* and its timestamp is retired (ResponseReplayWindow.Accept).
THEOREM ResponsesOnce == WindowsSpec => []ResponseOnce
<1>1. WindowsInv => ResponseOnce
  <2> SUFFICES ASSUME WindowsInv, NEW id \in given
               PROVE  \/ Refused(resp, id)
                      \/ Known(Advance(resp, id.timestamp), id)
    BY DEF ResponseOnce
  <2>1. Advance(resp, id.timestamp) = resp
    BY DEF WindowsInv, Remembers, Advance
  <2> QED BY <2>1 DEF WindowsInv, Remembers, Refused
<1> QED BY <1>1, WindowsCorrect, PTL

\* A response that is new for its timestamp, and whose timestamp is valid, is
\* accepted, for every skew and size of the ring (ResponseReplayWindow.Accept).
THEOREM FreshAccepted == WindowsSpec => []FreshResponseAccepted
<1>1. WindowsInv => FreshResponseAccepted
  <2> SUFFICES ASSUME WindowsInv, NEW id \in Identities, id.sequence > 0,
                      clock - id.timestamp <= Skew,
                      id.timestamp - clock <= Skew,
                      \A g \in given : g.timestamp = id.timestamp
                                         => g.sequence < id.sequence
               PROVE  /\ ~Refused(resp, id)
                      /\ ~Known(Advance(resp, id.timestamp), id)
    BY DEF FreshResponseAccepted
  <2> USE WindowsAssumption
  <2> DEFINE w == Advance(resp, id.timestamp)
  <2>1. /\ clock \in Nat /\ id.timestamp \in Times /\ id.timestamp \in Nat
        /\ id.sequence \in Nat
        /\ given \in SUBSET Identities /\ Remembers(resp, given, clock)
    BY SMT DEF WindowsInv, Identities, Times
  <2>2. ~Retired(resp, id.timestamp)
    <3>1. /\ resp.maxTimestamp <= clock + Skew
          /\ resp.hasRetired =>
               resp.retiredThrough + 2 * Skew + 1 = resp.maxTimestamp
      BY <2>1 DEF Remembers
    <3>2. resp.maxTimestamp \in Nat /\ resp.retiredThrough \in Nat
      BY SMT, <2>1 DEF Remembers, Responses, Times
    <3>3. Skew \in Nat
      OBVIOUS
    <3>4. resp.hasRetired => resp.retiredThrough < id.timestamp
      BY ONLY SMT, <2>1, <3>1, <3>2, <3>3, clock - id.timestamp <= Skew
    <3>5. resp.hasRetired => ~(id.timestamp <= resp.retiredThrough)
      BY ONLY SMT, <2>1, <3>2, <3>4
    <3> QED BY <3>5 DEF Retired
  <2>3. Remembers(w, given, clock)
    BY SMT, <2>1, AdvanceKeeps
  <2>4. id \notin w.seen
    BY SMT, <2>1, <2>3 DEF Remembers
  <2>5. id.timestamp \in DOMAIN w.floors =>
          w.floors[id.timestamp] < id.sequence
    BY <2>3 DEF Remembers
  <2>6. id.timestamp \in DOMAIN w.floors => w.floors[id.timestamp] \in Nat
    BY SMT, <2>3, FloorsShape DEF Remembers
  <2> QED BY SMT, <2>1, <2>2, <2>4, <2>5, <2>6 DEF Refused, Known
<1> QED BY <1>1, WindowsCorrect, PTL


-----------------------------------------------------------------------------
(* The HTTP/3 relay *)

\* The types of what the proofs use.
RelayTypes ==
  /\ closed \in BOOLEAN
  /\ table \in [Addresses -> Targets \cup {None}]
  /\ opening \in [Addresses -> Forwarders \cup {None}]
  /\ others \in Nat
  /\ open \subseteq Targets /\ sweep \subseteq Targets
  /\ reader \in [Targets -> {"off", "run", "remove", "close"}]
  /\ pc \in [Forwarders -> Labels]
  /\ address \in [Forwarders -> Addresses \cup {None}]
  /\ found \in [Forwarders -> Targets \cup {None}]
  /\ current \in [Forwarders -> Targets \cup {None}]

\* What the labels say of a forwarder's own variables.
Placed ==
  \A f \in Forwarders :
    /\ pc[f] \notin {"idle", "remove", "close"} => address[f] \in Addresses
    /\ found[f] # None => address[f] \in Addresses
    /\ pc[f] \in {"begin", "dial", "wait"} => found[f] = None
    /\ pc[f] \in {"remove", "close"} => current[f] # None

\* At the start every forwarder is idle.
LEMMA TypesInit == Init => RelayTypes /\ Placed
<1> SUFFICES ASSUME Init PROVE RelayTypes /\ Placed
  OBVIOUS
<1>1. RelayTypes
  BY DEF Init, RelayTypes, Labels
<1>2. Placed
  BY DEF Init, Placed
<1> QED BY <1>1, <1>2

\* No step leaves a variable's type or a label without what belongs to it.
LEMMA TypesStep ==
  ASSUME RelayTypes, Placed, [Next]_vars
  PROVE  RelayTypes' /\ Placed'
<1> USE RelayAssumption DEF state, budget, objects, batch, callers, closing
<1> USE DEF Labels
<1>1. ASSUME NEW f \in Forwarders, BeginRefused(f)
      PROVE  RelayTypes' /\ Placed'
  BY <1>1 DEF BeginRefused, LookupFails, Goto, RelayTypes, Placed
<1>2. ASSUME NEW f \in Forwarders, BeginJoins(f)
      PROVE  RelayTypes' /\ Placed'
  BY <1>2 DEF BeginJoins, Goto, RelayTypes, Placed
<1>3. ASSUME NEW f \in Forwarders, BeginCreates(f)
      PROVE  RelayTypes' /\ Placed'
  BY <1>3 DEF BeginCreates, Goto, RelayTypes, Placed
<1>4. ASSUME NEW f \in Forwarders, DialFails(f)
      PROVE  RelayTypes' /\ Placed'
  BY <1>4 DEF DialFails, Goto, RelayTypes, Placed
<1>5. ASSUME NEW f \in Forwarders, NEW t \in Targets, Dialled(f, t)
      PROVE  RelayTypes' /\ Placed'
  BY <1>5 DEF Dialled, Goto, Unreferenced, RelayTypes, Placed
<1>6. ASSUME NEW f \in Forwarders, FinishInstalls(f)
      PROVE  RelayTypes' /\ Placed'
  BY <1>6 DEF FinishInstalls, Install, Publish, RelayTypes, Placed
<1>7. ASSUME NEW f \in Forwarders, FinishRejects(f)
      PROVE  RelayTypes' /\ Placed'
  BY <1>7 DEF FinishRejects, Publish, RelayTypes, Placed
<1>8. ASSUME NEW f \in Forwarders, FinishMade(f)
      PROVE  RelayTypes' /\ Placed'
  BY <1>8 DEF FinishMade, Goto, RelayTypes, Placed
<1>9. ASSUME NEW f \in Forwarders, FinishAborts(f)
      PROVE  RelayTypes' /\ Placed'
  BY <1>9 DEF FinishAborts, CloseTarget, LookupFails, Goto, RelayTypes, Placed
<1>10. ASSUME NEW f \in Forwarders, WaitFails(f)
      PROVE  RelayTypes' /\ Placed'
  BY <1>10 DEF WaitFails, LookupFails, Goto, RelayTypes, Placed
<1>11. ASSUME NEW f \in Forwarders, WaitSucceeds(f)
      PROVE  RelayTypes' /\ Placed'
  BY <1>11 DEF WaitSucceeds, Goto, RelayTypes, Placed
<1>12. ASSUME NEW f \in Forwarders, NEW a \in Addresses, Lookup(f, a)
      PROVE  RelayTypes' /\ Placed'
  BY SMT, <1>12 DEF Lookup, LookupFails, Goto, RelayTypes, Placed
<1>13. ASSUME NEW f \in Forwarders, Settle(f)
      PROVE  RelayTypes' /\ Placed'
  BY <1>13 DEF Settle, Goto, RelayTypes, Placed
<1>14. ASSUME NEW f \in Forwarders, InvalidPacket(f)
      PROVE  RelayTypes' /\ Placed'
  BY <1>14 DEF InvalidPacket, RelayTypes, Placed
<1>15. ASSUME NEW f \in Forwarders, FlushFails(f)
      PROVE  RelayTypes' /\ Placed'
  BY <1>15 DEF FlushFails, Goto, RelayTypes, Placed
<1>16. ASSUME NEW f \in Forwarders, FlushRemoves(f)
      PROVE  RelayTypes' /\ Placed'
  BY <1>16 DEF FlushRemoves, Evict, Goto, RelayTypes, Placed
<1>17. ASSUME NEW f \in Forwarders, FlushCloses(f)
      PROVE  RelayTypes' /\ Placed'
  BY <1>17 DEF FlushCloses, CloseTarget, Goto, RelayTypes, Placed
<1>18. ASSUME NEW f \in Forwarders, BatchEnds(f)
      PROVE  RelayTypes' /\ Placed'
  BY <1>18 DEF BatchEnds, RelayTypes, Placed
<1>19. ASSUME NEW t \in Targets, ReadFails(t)
      PROVE  RelayTypes' /\ Placed'
  BY <1>19 DEF ReadFails, RelayTypes, Placed
<1>20. ASSUME NEW t \in Targets, ReadRemoves(t)
      PROVE  RelayTypes' /\ Placed'
  BY <1>20 DEF ReadRemoves, Evict, RelayTypes, Placed
<1>21. ASSUME NEW t \in Targets, ReadCloses(t)
      PROVE  RelayTypes' /\ Placed'
  BY <1>21 DEF ReadCloses, CloseTarget, RelayTypes, Placed
<1>22. CASE Cancel
  BY <1>22 DEF Cancel, RelayTypes, Placed
<1>23. CASE Close
  BY <1>23 DEF Close, RelayTypes, Placed
<1>24. CASE CloseLocks
  <2>1. sweep' \subseteq Targets
    BY ZenonT(60), <1>24 DEF CloseLocks, RelayTypes, Cached
  <2> QED BY <1>24, <2>1 DEF CloseLocks, RelayTypes, Placed
<1>25. CASE CloseJoins
  BY <1>25 DEF CloseJoins, RelayTypes, Placed
<1>26. ASSUME NEW t \in Targets, CloseSweeps(t)
      PROVE  RelayTypes' /\ Placed'
  BY <1>26 DEF CloseSweeps, CloseTarget, RelayTypes, Placed
<1>27. CASE OtherReserves
  BY SMT, <1>27 DEF OtherReserves, RelayTypes, Placed
<1>28. CASE OtherReleases
  BY SMT, <1>28 DEF OtherReleases, RelayTypes, Placed
<1>29. CASE UNCHANGED vars
  BY <1>29 DEF vars, RelayTypes, Placed
<1> QED
  BY ZenonT(60),
     <1>1, <1>2, <1>3, <1>4, <1>5, <1>6, <1>7, <1>8, <1>9, <1>10, <1>11, <1>12,
     <1>13, <1>14, <1>15, <1>16, <1>17, <1>18, <1>19, <1>20, <1>21, <1>22,
     <1>23, <1>24, <1>25, <1>26, <1>27, <1>28, <1>29
     DEF Next, LookupStep, ForwardStep, ReaderStep, CloserStep
-----------------------------------------------------------------------------
(* Who refers to a target *)

\* A target dialled and not yet published, or refused, is its opener's alone.
Owns(f) == pc[f] \in {"finish", "abort"} /\ found[f] # None

Private(t, f) ==
  /\ t \in open /\ reader[t] = "off" /\ t \notin sweep
  /\ \A a \in Addresses : table[a] # t
  /\ \A g \in Forwarders : current[g] # t /\ (g # f => found[g] # t)

OwnInv == \A f \in Forwarders : Owns(f) => Private(found[f], f)

\* What is in the table is open and has a reader; what is about to be closed is
\* not in it.
CacheInv ==
  /\ \A a \in Addresses : table[a] # None =>
       table[a] \in open /\ reader[table[a]] \in {"run", "remove"}
  /\ closed => \A a \in Addresses : table[a] = None
  /\ closer \in {"sweep", "done"} => closed
  /\ \A f \in Forwarders : pc[f] = "close" =>
       \A a \in Addresses : table[a] # current[f]

\* At the start nobody has a target.
LEMMA OwnInit == Init => OwnInv /\ CacheInv
  BY DEF Init, OwnInv, Owns, CacheInv

\* Nobody comes by a target that is not in the table or its own.
LEMMA OwnStep ==
  ASSUME RelayTypes, Placed, CacheInv, OwnInv, [Next]_vars
  PROVE  OwnInv'
<1> USE RelayAssumption DEF state, budget, objects, batch, callers, closing
<1>1. ASSUME NEW f \in Forwarders, BeginRefused(f)
      PROVE  OwnInv'
  BY ZenonT(60), <1>1
     DEF BeginRefused, LookupFails, Goto, OwnInv, Owns, Private, RelayTypes,
     Placed, CacheInv
<1>2. ASSUME NEW f \in Forwarders, BeginJoins(f)
      PROVE  OwnInv'
  BY ZenonT(60), <1>2
     DEF BeginJoins, Goto, OwnInv, Owns, Private, RelayTypes, Placed, CacheInv
<1>3. ASSUME NEW f \in Forwarders, BeginCreates(f)
      PROVE  OwnInv'
  BY ZenonT(60), <1>3
     DEF BeginCreates, Goto, OwnInv, Owns, Private, RelayTypes, Placed,
     CacheInv
<1>4. ASSUME NEW f \in Forwarders, DialFails(f)
      PROVE  OwnInv'
  BY ZenonT(60), <1>4
     DEF DialFails, Goto, OwnInv, Owns, Private, RelayTypes, Placed, CacheInv
<1>5. ASSUME NEW f \in Forwarders, NEW t \in Targets, Dialled(f, t)
      PROVE  OwnInv'
  BY ZenonT(60), <1>5
     DEF Dialled, Goto, Unreferenced, OwnInv, Owns, Private, RelayTypes,
     Placed, CacheInv
<1>6. ASSUME NEW f \in Forwarders, FinishInstalls(f)
      PROVE  OwnInv'
  BY ZenonT(60), <1>6
     DEF FinishInstalls, Install, Publish, OwnInv, Owns, Private, RelayTypes,
     Placed, CacheInv
<1>7. ASSUME NEW f \in Forwarders, FinishRejects(f)
      PROVE  OwnInv'
  BY ZenonT(60), <1>7
     DEF FinishRejects, Publish, OwnInv, Owns, Private, RelayTypes, Placed,
     CacheInv
<1>8. ASSUME NEW f \in Forwarders, FinishMade(f)
      PROVE  OwnInv'
  BY ZenonT(60), <1>8
     DEF FinishMade, Goto, OwnInv, Owns, Private, RelayTypes, Placed, CacheInv
<1>9. ASSUME NEW f \in Forwarders, FinishAborts(f)
      PROVE  OwnInv'
  BY ZenonT(60), <1>9
     DEF FinishAborts, CloseTarget, LookupFails, Goto, OwnInv, Owns, Private,
     RelayTypes, Placed, CacheInv
<1>10. ASSUME NEW f \in Forwarders, WaitFails(f)
      PROVE  OwnInv'
  BY ZenonT(60), <1>10
     DEF WaitFails, LookupFails, Goto, OwnInv, Owns, Private, RelayTypes,
     Placed, CacheInv
<1>11. ASSUME NEW f \in Forwarders, WaitSucceeds(f)
      PROVE  OwnInv'
  BY ZenonT(60), <1>11
     DEF WaitSucceeds, Goto, OwnInv, Owns, Private, RelayTypes, Placed,
     CacheInv
<1>12. ASSUME NEW f \in Forwarders, NEW a \in Addresses, Lookup(f, a)
      PROVE  OwnInv'
  BY SMT, <1>12
     DEF Lookup, LookupFails, Goto, OwnInv, Owns, Private, RelayTypes, Placed,
     CacheInv
<1>13. ASSUME NEW f \in Forwarders, Settle(f)
      PROVE  OwnInv'
  BY ZenonT(60), <1>13
     DEF Settle, Goto, OwnInv, Owns, Private, RelayTypes, Placed, CacheInv
<1>14. ASSUME NEW f \in Forwarders, InvalidPacket(f)
      PROVE  OwnInv'
  BY ZenonT(60), <1>14
     DEF InvalidPacket, OwnInv, Owns, Private, RelayTypes, Placed, CacheInv
<1>15. ASSUME NEW f \in Forwarders, FlushFails(f)
      PROVE  OwnInv'
  BY ZenonT(60), <1>15
     DEF FlushFails, Goto, OwnInv, Owns, Private, RelayTypes, Placed, CacheInv
<1>16. ASSUME NEW f \in Forwarders, FlushRemoves(f)
      PROVE  OwnInv'
  BY ZenonT(60), <1>16
     DEF FlushRemoves, Evict, Goto, OwnInv, Owns, Private, RelayTypes, Placed,
     CacheInv
<1>17. ASSUME NEW f \in Forwarders, FlushCloses(f)
      PROVE  OwnInv'
  BY SMT, <1>17
     DEF FlushCloses, CloseTarget, Goto, OwnInv, Owns, Private, RelayTypes,
     Placed, CacheInv
<1>18. ASSUME NEW f \in Forwarders, BatchEnds(f)
      PROVE  OwnInv'
  BY ZenonT(60),
     <1>18 DEF BatchEnds, OwnInv, Owns, Private, RelayTypes, Placed, CacheInv
<1>19. ASSUME NEW t \in Targets, ReadFails(t)
      PROVE  OwnInv'
  BY <1>19 DEF ReadFails, OwnInv, Owns, Private, RelayTypes, Placed, CacheInv
<1>20. ASSUME NEW t \in Targets, ReadRemoves(t)
      PROVE  OwnInv'
  BY <1>20
     DEF ReadRemoves, Evict, OwnInv, Owns, Private, RelayTypes, Placed,
     CacheInv
<1>21. ASSUME NEW t \in Targets, ReadCloses(t)
      PROVE  OwnInv'
  BY <1>21
     DEF ReadCloses, CloseTarget, OwnInv, Owns, Private, RelayTypes, Placed,
     CacheInv
<1>22. CASE Cancel
  BY <1>22 DEF Cancel, OwnInv, Owns, Private, RelayTypes, Placed, CacheInv
<1>23. CASE Close
  BY <1>23 DEF Close, OwnInv, Owns, Private, RelayTypes, Placed, CacheInv
<1>24. CASE CloseLocks
  <2>1. \A u \in sweep' : \E a \in Addresses : u = table[a]
    BY <1>24 DEF CloseLocks, Cached
  <2>2. UNCHANGED <<open, reader, pc, found, current>>
    BY <1>24 DEF CloseLocks
  <2>3. \A a \in Addresses : table'[a] = None
    BY <1>24 DEF CloseLocks
  <2> QED BY ZenonT(60), <2>1, <2>2, <2>3 DEF OwnInv, Owns, Private, RelayTypes
<1>25. CASE CloseJoins
  BY <1>25 DEF CloseJoins, OwnInv, Owns, Private, RelayTypes, Placed, CacheInv
<1>26. ASSUME NEW t \in Targets, CloseSweeps(t)
      PROVE  OwnInv'
  BY SMT, <1>26
     DEF CloseSweeps, CloseTarget, OwnInv, Owns, Private, RelayTypes, Placed,
     CacheInv
<1>27. CASE OtherReserves
  BY <1>27
     DEF OtherReserves, OwnInv, Owns, Private, RelayTypes, Placed, CacheInv
<1>28. CASE OtherReleases
  BY <1>28
     DEF OtherReleases, OwnInv, Owns, Private, RelayTypes, Placed, CacheInv
<1>29. CASE UNCHANGED vars
  BY <1>29 DEF vars, OwnInv, Owns, Private, RelayTypes, Placed, CacheInv
<1> QED
  BY <1>1, <1>2, <1>3, <1>4, <1>5, <1>6, <1>7, <1>8, <1>9, <1>10, <1>11, <1>12,
     <1>13, <1>14, <1>15, <1>16, <1>17, <1>18, <1>19, <1>20, <1>21, <1>22,
     <1>23, <1>24, <1>25, <1>26, <1>27, <1>28, <1>29
     DEF Next, LookupStep, ForwardStep, ReaderStep, CloserStep

\* Nobody closes a target that is in the table.
LEMMA CacheStep ==
  ASSUME RelayTypes, Placed, CacheInv, OwnInv, [Next]_vars
  PROVE  CacheInv'
<1> USE RelayAssumption DEF state, budget, objects, batch, callers, closing
<1>1. ASSUME NEW f \in Forwarders, BeginRefused(f)
      PROVE  CacheInv'
  BY <1>1
     DEF BeginRefused, LookupFails, Goto, CacheInv, OwnInv, Owns, Private,
     RelayTypes, Placed
<1>2. ASSUME NEW f \in Forwarders, BeginJoins(f)
      PROVE  CacheInv'
  BY <1>2
     DEF BeginJoins, Goto, CacheInv, OwnInv, Owns, Private, RelayTypes, Placed
<1>3. ASSUME NEW f \in Forwarders, BeginCreates(f)
      PROVE  CacheInv'
  BY <1>3
     DEF BeginCreates, Goto, CacheInv, OwnInv, Owns, Private, RelayTypes,
     Placed
<1>4. ASSUME NEW f \in Forwarders, DialFails(f)
      PROVE  CacheInv'
  BY <1>4
     DEF DialFails, Goto, CacheInv, OwnInv, Owns, Private, RelayTypes, Placed
<1>5. ASSUME NEW f \in Forwarders, NEW t \in Targets, Dialled(f, t)
      PROVE  CacheInv'
  BY ZenonT(60), <1>5
     DEF Dialled, Goto, Unreferenced, CacheInv, OwnInv, Owns, Private,
     RelayTypes, Placed
<1>6. ASSUME NEW f \in Forwarders, FinishInstalls(f)
      PROVE  CacheInv'
  BY ZenonT(60), <1>6
     DEF FinishInstalls, Install, Publish, CacheInv, OwnInv, Owns, Private,
     RelayTypes, Placed
<1>7. ASSUME NEW f \in Forwarders, FinishRejects(f)
      PROVE  CacheInv'
  BY <1>7
     DEF FinishRejects, Publish, CacheInv, OwnInv, Owns, Private, RelayTypes,
     Placed
<1>8. ASSUME NEW f \in Forwarders, FinishMade(f)
      PROVE  CacheInv'
  BY <1>8
     DEF FinishMade, Goto, CacheInv, OwnInv, Owns, Private, RelayTypes, Placed
<1>9. ASSUME NEW f \in Forwarders, FinishAborts(f)
      PROVE  CacheInv'
  BY <1>9
     DEF FinishAborts, CloseTarget, LookupFails, Goto, CacheInv, OwnInv, Owns,
     Private, RelayTypes, Placed
<1>10. ASSUME NEW f \in Forwarders, WaitFails(f)
      PROVE  CacheInv'
  BY <1>10
     DEF WaitFails, LookupFails, Goto, CacheInv, OwnInv, Owns, Private,
     RelayTypes, Placed
<1>11. ASSUME NEW f \in Forwarders, WaitSucceeds(f)
      PROVE  CacheInv'
  BY <1>11
     DEF WaitSucceeds, Goto, CacheInv, OwnInv, Owns, Private, RelayTypes,
     Placed
<1>12. ASSUME NEW f \in Forwarders, NEW a \in Addresses, Lookup(f, a)
      PROVE  CacheInv'
  BY SMT, <1>12
     DEF Lookup, LookupFails, Goto, CacheInv, OwnInv, Owns, Private,
     RelayTypes, Placed
<1>13. ASSUME NEW f \in Forwarders, Settle(f)
      PROVE  CacheInv'
  BY <1>13
     DEF Settle, Goto, CacheInv, OwnInv, Owns, Private, RelayTypes, Placed
<1>14. ASSUME NEW f \in Forwarders, InvalidPacket(f)
      PROVE  CacheInv'
  BY ZenonT(60), <1>14
     DEF InvalidPacket, CacheInv, OwnInv, Owns, Private, RelayTypes, Placed
<1>15. ASSUME NEW f \in Forwarders, FlushFails(f)
      PROVE  CacheInv'
  BY <1>15
     DEF FlushFails, Goto, CacheInv, OwnInv, Owns, Private, RelayTypes, Placed
<1>16. ASSUME NEW f \in Forwarders, FlushRemoves(f)
      PROVE  CacheInv'
  BY <1>16
     DEF FlushRemoves, Evict, Goto, CacheInv, OwnInv, Owns, Private,
     RelayTypes, Placed
<1>17. ASSUME NEW f \in Forwarders, FlushCloses(f)
      PROVE  CacheInv'
  BY <1>17
     DEF FlushCloses, CloseTarget, Goto, CacheInv, OwnInv, Owns, Private,
     RelayTypes, Placed
<1>18. ASSUME NEW f \in Forwarders, BatchEnds(f)
      PROVE  CacheInv'
  BY <1>18 DEF BatchEnds, CacheInv, OwnInv, Owns, Private, RelayTypes, Placed
<1>19. ASSUME NEW t \in Targets, ReadFails(t)
      PROVE  CacheInv'
  BY <1>19 DEF ReadFails, CacheInv, OwnInv, Owns, Private, RelayTypes, Placed
<1>20. ASSUME NEW t \in Targets, ReadRemoves(t)
      PROVE  CacheInv'
  BY <1>20
     DEF ReadRemoves, Evict, CacheInv, OwnInv, Owns, Private, RelayTypes,
     Placed
<1>21. ASSUME NEW t \in Targets, ReadCloses(t)
      PROVE  CacheInv'
  BY <1>21
     DEF ReadCloses, CloseTarget, CacheInv, OwnInv, Owns, Private, RelayTypes,
     Placed
<1>22. CASE Cancel
  BY <1>22 DEF Cancel, CacheInv, OwnInv, Owns, Private, RelayTypes, Placed
<1>23. CASE Close
  BY <1>23 DEF Close, CacheInv, OwnInv, Owns, Private, RelayTypes, Placed
<1>24. CASE CloseLocks
  BY <1>24 DEF CloseLocks, CacheInv, OwnInv, Owns, Private, RelayTypes, Placed
<1>25. CASE CloseJoins
  BY <1>25 DEF CloseJoins, CacheInv, OwnInv, Owns, Private, RelayTypes, Placed
<1>26. ASSUME NEW t \in Targets, CloseSweeps(t)
      PROVE  CacheInv'
  BY <1>26
     DEF CloseSweeps, CloseTarget, CacheInv, OwnInv, Owns, Private, RelayTypes,
     Placed
<1>27. CASE OtherReserves
  BY <1>27
     DEF OtherReserves, CacheInv, OwnInv, Owns, Private, RelayTypes, Placed
<1>28. CASE OtherReleases
  BY <1>28
     DEF OtherReleases, CacheInv, OwnInv, Owns, Private, RelayTypes, Placed
<1>29. CASE UNCHANGED vars
  BY <1>29 DEF vars, CacheInv, OwnInv, Owns, Private, RelayTypes, Placed
<1> QED
  BY <1>1, <1>2, <1>3, <1>4, <1>5, <1>6, <1>7, <1>8, <1>9, <1>10, <1>11, <1>12,
     <1>13, <1>14, <1>15, <1>16, <1>17, <1>18, <1>19, <1>20, <1>21, <1>22,
     <1>23, <1>24, <1>25, <1>26, <1>27, <1>28, <1>29
     DEF Next, LookupStep, ForwardStep, ReaderStep, CloserStep
-----------------------------------------------------------------------------
(* The budget *)

\* The forwarder's reservation has no target yet, or never got one.
Reserved(f) ==
  pc[f] = "dial" \/ (pc[f] \in {"finish", "abort"} /\ found[f] = None)

Leases ==
  /\ leased = open /\ IsFiniteSet(leased)
  /\ unused \subseteq Forwarders /\ IsFiniteSet(unused)
  /\ \A f \in Forwarders : f \in unused <=> Reserved(f)

BudgetInv ==
  /\ Leases
  /\ used = others + Cardinality(leased) + Cardinality(unused)

\* At the start nothing is reserved.
LEMMA BudgetInit == Init => BudgetInv
<1> SUFFICES ASSUME Init PROVE BudgetInv
  OBVIOUS
<1>1. Leases
  BY FS_EmptySet DEF Init, Leases, Reserved
<1> QED BY SMT, <1>1, FS_EmptySet DEF Init, BudgetInv

\* Whoever closes a target, and however often: the budget gets back exactly the
\* leases that are gone.
LEMMA CloseExact ==
  ASSUME RelayTypes, BudgetInv, NEW t, CloseTarget(t), others' = others,
         NEW U, IsFiniteSet(U), U = unused
  PROVE  /\ leased' = open' /\ IsFiniteSet(leased')
         /\ used' = others + Cardinality(leased') + Cardinality(U)
<1>1. /\ others \in Nat /\ Cardinality(leased) \in Nat /\ Cardinality(U) \in Nat
      /\ IsFiniteSet(leased)
      /\ used = others + Cardinality(leased) + Cardinality(U)
  BY FS_CardinalityType DEF RelayTypes, BudgetInv, Leases
<1>2. /\ leased' = leased \ {t} /\ leased' = open'
      /\ used' = IF t \in leased THEN used - 1 ELSE used
  BY DEF CloseTarget, BudgetInv, Leases
<1>3. /\ IsFiniteSet(leased \ {t})
      /\ Cardinality(leased \ {t}) =
           IF t \in leased THEN Cardinality(leased) - 1 ELSE Cardinality(leased)
  BY <1>1, FS_RemoveElement
<1> QED BY SMT, <1>1, <1>2, <1>3

\* Every reservation is returned once, by whoever holds it.
LEMMA BudgetStep ==
  ASSUME RelayTypes, Placed, BudgetInv, [Next]_vars
  PROVE  BudgetInv'
<1> USE RelayAssumption DEF state, budget, objects, batch, callers, closing
<1>1. ASSUME NEW f \in Forwarders, BeginRefused(f)
      PROVE  BudgetInv'
  BY <1>1
     DEF BeginRefused, LookupFails, Goto, BudgetInv, Leases, Reserved,
     RelayTypes, Placed
<1>2. ASSUME NEW f \in Forwarders, BeginJoins(f)
      PROVE  BudgetInv'
  BY <1>2 DEF BeginJoins, Goto, BudgetInv, Leases, Reserved, RelayTypes, Placed
<1>3. ASSUME NEW f \in Forwarders, BeginCreates(f)
      PROVE  BudgetInv'
  <2>1. f \notin unused /\ unused' = unused \cup {f} /\ used' = used + 1
    BY <1>3 DEF BeginCreates, BudgetInv, Leases, Reserved
  <2>2. Leases'
    BY SMT, <1>3, <2>1, FS_AddElement
       DEF BeginCreates, Goto, BudgetInv, Leases, Reserved, RelayTypes
  <2>3. UNCHANGED <<others, leased>>
    BY <1>3 DEF BeginCreates
  <2>4. /\ others \in Nat /\ Cardinality(leased) \in Nat
        /\ Cardinality(unused) \in Nat
        /\ Cardinality(unused') = Cardinality(unused) + 1
    BY <2>1, FS_CardinalityType, FS_AddElement
       DEF RelayTypes, BudgetInv, Leases
  <2> QED BY SMT, <2>1, <2>2, <2>3, <2>4 DEF BudgetInv
<1>4. ASSUME NEW f \in Forwarders, DialFails(f)
      PROVE  BudgetInv'
  BY <1>4 DEF DialFails, Goto, BudgetInv, Leases, Reserved, RelayTypes, Placed
<1>5. ASSUME NEW f \in Forwarders, NEW t \in Targets, Dialled(f, t)
      PROVE  BudgetInv'
  <2>1. /\ f \in unused /\ unused' = unused \ {f} /\ t \notin leased
        /\ leased' = leased \cup {t} /\ UNCHANGED <<used, others>>
    BY <1>5 DEF Dialled, Unreferenced, BudgetInv, Leases, Reserved
  <2>2. IsFiniteSet(leased') /\ IsFiniteSet(unused')
    BY <2>1, FS_AddElement, FS_RemoveElement DEF BudgetInv, Leases
  <2>3. Leases'
    BY <1>5, <2>1, <2>2
       DEF Dialled, Goto, BudgetInv, Leases, Reserved, RelayTypes
  <2>4. /\ others \in Nat /\ Cardinality(leased) \in Nat
        /\ Cardinality(unused) \in Nat
        /\ Cardinality(leased') = Cardinality(leased) + 1
        /\ Cardinality(unused') = Cardinality(unused) - 1
    BY <2>1, FS_CardinalityType, FS_AddElement, FS_RemoveElement
       DEF RelayTypes, BudgetInv, Leases
  <2> QED BY SMT, <2>1, <2>3, <2>4 DEF BudgetInv
<1>6. ASSUME NEW f \in Forwarders, FinishInstalls(f)
      PROVE  BudgetInv'
  BY <1>6
     DEF FinishInstalls, Install, Publish, BudgetInv, Leases, Reserved,
     RelayTypes, Placed
<1>7. ASSUME NEW f \in Forwarders, FinishRejects(f)
      PROVE  BudgetInv'
  BY <1>7
     DEF FinishRejects, Publish, BudgetInv, Leases, Reserved, RelayTypes,
     Placed
<1>8. ASSUME NEW f \in Forwarders, FinishMade(f)
      PROVE  BudgetInv'
  BY <1>8 DEF FinishMade, Goto, BudgetInv, Leases, Reserved, RelayTypes, Placed
<1>9. ASSUME NEW f \in Forwarders, FinishAborts(f)
      PROVE  BudgetInv'
  <2>1. /\ unused' = unused \ {f} /\ others' = others
        /\ \A g \in Forwarders : g \in unused' <=> Reserved(g)'
    BY <1>9 DEF FinishAborts, LookupFails, Goto, BudgetInv, Leases, Reserved,
             RelayTypes
  <2>2. IsFiniteSet(unused) /\ IsFiniteSet(unused')
    BY <2>1, FS_RemoveElement DEF BudgetInv, Leases
  <2>3. CASE found[f] # None
    <3>1. f \notin unused
      BY <1>9, <2>3 DEF FinishAborts, BudgetInv, Leases, Reserved
    <3>2. unused' = unused
      BY <2>1, <3>1
    <3>3. CloseTarget(found[f])
      BY <1>9, <2>3 DEF FinishAborts
    <3>4. /\ leased' = open' /\ IsFiniteSet(leased')
          /\ used' = others + Cardinality(leased') + Cardinality(unused)
      BY <2>1, <2>2, <3>3, CloseExact
    <3> QED BY <2>1, <2>2, <3>2, <3>4 DEF BudgetInv, Leases
  <2>4. CASE found[f] = None
    <3>1. /\ f \in unused /\ used' = used - 1
          /\ UNCHANGED <<open, leased>>
      BY <1>9, <2>4 DEF FinishAborts, BudgetInv, Leases, Reserved
    <3>2. /\ others \in Nat /\ Cardinality(leased) \in Nat
          /\ Cardinality(unused) \in Nat
          /\ Cardinality(unused') = Cardinality(unused) - 1
      BY <2>1, <3>1, FS_CardinalityType, FS_RemoveElement
         DEF RelayTypes, BudgetInv, Leases
    <3>3. Leases'
      BY <2>1, <2>2, <3>1 DEF BudgetInv, Leases
    <3> QED BY SMT, <2>1, <3>1, <3>2, <3>3 DEF BudgetInv
  <2> QED BY <2>3, <2>4
<1>10. ASSUME NEW f \in Forwarders, WaitFails(f)
      PROVE  BudgetInv'
  BY <1>10
     DEF WaitFails, LookupFails, Goto, BudgetInv, Leases, Reserved, RelayTypes,
     Placed
<1>11. ASSUME NEW f \in Forwarders, WaitSucceeds(f)
      PROVE  BudgetInv'
  BY <1>11
     DEF WaitSucceeds, Goto, BudgetInv, Leases, Reserved, RelayTypes, Placed
<1>12. ASSUME NEW f \in Forwarders, NEW a \in Addresses, Lookup(f, a)
      PROVE  BudgetInv'
  BY SMT, <1>12
     DEF Lookup, LookupFails, Goto, BudgetInv, Leases, Reserved, RelayTypes,
     Placed
<1>13. ASSUME NEW f \in Forwarders, Settle(f)
      PROVE  BudgetInv'
  BY <1>13 DEF Settle, Goto, BudgetInv, Leases, Reserved, RelayTypes, Placed
<1>14. ASSUME NEW f \in Forwarders, InvalidPacket(f)
      PROVE  BudgetInv'
  BY <1>14 DEF InvalidPacket, BudgetInv, Leases, Reserved, RelayTypes, Placed
<1>15. ASSUME NEW f \in Forwarders, FlushFails(f)
      PROVE  BudgetInv'
  BY <1>15
     DEF FlushFails, Goto, BudgetInv, Leases, Reserved, RelayTypes, Placed
<1>16. ASSUME NEW f \in Forwarders, FlushRemoves(f)
      PROVE  BudgetInv'
  BY <1>16
     DEF FlushRemoves, Evict, Goto, BudgetInv, Leases, Reserved, RelayTypes,
     Placed
<1>17. ASSUME NEW f \in Forwarders, FlushCloses(f)
      PROVE  BudgetInv'
  <2>1. CloseTarget(current[f]) /\ UNCHANGED <<others, unused>>
    BY <1>17 DEF FlushCloses
  <2>2. \A g \in Forwarders : Reserved(g)' <=> Reserved(g)
    BY <1>17 DEF FlushCloses, Goto, Reserved, RelayTypes
  <2>3. /\ leased' = open' /\ IsFiniteSet(leased')
        /\ used' = others + Cardinality(leased') + Cardinality(unused)
    BY <2>1, CloseExact DEF BudgetInv, Leases
  <2> QED BY <2>1, <2>2, <2>3 DEF BudgetInv, Leases
<1>18. ASSUME NEW f \in Forwarders, BatchEnds(f)
      PROVE  BudgetInv'
  BY <1>18 DEF BatchEnds, BudgetInv, Leases, Reserved, RelayTypes, Placed
<1>19. ASSUME NEW t \in Targets, ReadFails(t)
      PROVE  BudgetInv'
  BY <1>19 DEF ReadFails, BudgetInv, Leases, Reserved, RelayTypes, Placed
<1>20. ASSUME NEW t \in Targets, ReadRemoves(t)
      PROVE  BudgetInv'
  BY <1>20
     DEF ReadRemoves, Evict, BudgetInv, Leases, Reserved, RelayTypes, Placed
<1>21. ASSUME NEW t \in Targets, ReadCloses(t)
      PROVE  BudgetInv'
  <2>1. CloseTarget(t) /\ UNCHANGED <<others, unused>>
    BY <1>21 DEF ReadCloses
  <2>2. \A g \in Forwarders : Reserved(g)' <=> Reserved(g)
    BY <1>21 DEF ReadCloses, Reserved, RelayTypes
  <2>3. /\ leased' = open' /\ IsFiniteSet(leased')
        /\ used' = others + Cardinality(leased') + Cardinality(unused)
    BY <2>1, CloseExact DEF BudgetInv, Leases
  <2> QED BY <2>1, <2>2, <2>3 DEF BudgetInv, Leases
<1>22. CASE Cancel
  BY <1>22 DEF Cancel, BudgetInv, Leases, Reserved, RelayTypes, Placed
<1>23. CASE Close
  BY <1>23 DEF Close, BudgetInv, Leases, Reserved, RelayTypes, Placed
<1>24. CASE CloseLocks
  BY <1>24 DEF CloseLocks, BudgetInv, Leases, Reserved, RelayTypes, Placed
<1>25. CASE CloseJoins
  BY <1>25 DEF CloseJoins, BudgetInv, Leases, Reserved, RelayTypes, Placed
<1>26. ASSUME NEW t \in Targets, CloseSweeps(t)
      PROVE  BudgetInv'
  <2>1. CloseTarget(t) /\ UNCHANGED <<others, unused>>
    BY <1>26 DEF CloseSweeps
  <2>2. \A g \in Forwarders : Reserved(g)' <=> Reserved(g)
    BY <1>26 DEF CloseSweeps, Reserved, RelayTypes
  <2>3. /\ leased' = open' /\ IsFiniteSet(leased')
        /\ used' = others + Cardinality(leased') + Cardinality(unused)
    BY <2>1, CloseExact DEF BudgetInv, Leases
  <2> QED BY <2>1, <2>2, <2>3 DEF BudgetInv, Leases
<1>27. CASE OtherReserves
  <2>1. /\ others \in Nat /\ Cardinality(leased) \in Nat
        /\ Cardinality(unused) \in Nat
    BY FS_CardinalityType DEF RelayTypes, BudgetInv, Leases
  <2>2. Leases' /\ UNCHANGED <<leased, unused>>
    BY <1>27 DEF OtherReserves, BudgetInv, Leases, Reserved
  <2> QED BY SMT, <1>27, <2>1, <2>2 DEF OtherReserves, BudgetInv
<1>28. CASE OtherReleases
  <2>1. /\ others \in Nat /\ Cardinality(leased) \in Nat
        /\ Cardinality(unused) \in Nat
    BY FS_CardinalityType DEF RelayTypes, BudgetInv, Leases
  <2>2. Leases' /\ UNCHANGED <<leased, unused>>
    BY <1>28 DEF OtherReleases, BudgetInv, Leases, Reserved
  <2> QED BY SMT, <1>28, <2>1, <2>2 DEF OtherReleases, BudgetInv
<1>29. CASE UNCHANGED vars
  BY <1>29 DEF vars, BudgetInv, Leases, Reserved, RelayTypes, Placed
<1> QED
  BY <1>1, <1>2, <1>3, <1>4, <1>5, <1>6, <1>7, <1>8, <1>9, <1>10, <1>11, <1>12,
     <1>13, <1>14, <1>15, <1>16, <1>17, <1>18, <1>19, <1>20, <1>21, <1>22,
     <1>23, <1>24, <1>25, <1>26, <1>27, <1>28, <1>29
     DEF Next, LookupStep, ForwardStep, ReaderStep, CloserStep
-----------------------------------------------------------------------------
(* The wait group *)

\* What waitGroup.Add counted: openings and readers.
Busy == {f \in Forwarders : pc[f] \in {"dial", "finish", "made", "abort"}}
Running == {t \in Targets : reader[t] # "off"}

CountInv ==
  /\ IsFiniteSet(Busy) /\ IsFiniteSet(Running)
  /\ waitGroup = Cardinality(Busy) + Cardinality(Running)

\* Everything the relay owns is in the hands of one of them, and once Close has
\* returned there is none.
ReachInv ==
  /\ \A t \in open : \/ reader[t] # "off"
                     \/ \E f \in Forwarders : Owns(f) /\ found[f] = t
  /\ \A a \in Addresses : opening[a] # None =>
       pc[opening[a]] \in {"dial", "finish"} /\ address[opening[a]] = a
  /\ closer = "done" =>
       /\ closed
       /\ \A f \in Forwarders : f \notin Busy
       /\ \A t \in Targets : reader[t] = "off"

\* At the start nothing is counted.
LEMMA JoinInit == Init => CountInv /\ ReachInv
<1> SUFFICES ASSUME Init PROVE CountInv /\ ReachInv
  OBVIOUS
<1>1. Busy = {} /\ Running = {}
  BY DEF Init, Busy, Running
<1>2. CountInv
  BY SMT, <1>1, FS_EmptySet DEF Init, CountInv
<1>3. ReachInv
  BY DEF Init, ReachInv
<1> QED BY <1>2, <1>3

\* Done is called once for every Add.
LEMMA CountStep ==
  ASSUME RelayTypes, OwnInv, CountInv, [Next]_vars
  PROVE  CountInv'
<1> USE RelayAssumption DEF state, budget, objects, batch, callers, closing
<1>1. ASSUME NEW f \in Forwarders, BeginRefused(f)
      PROVE  CountInv'
  <2>1. Busy' = Busy /\ Running' = Running /\ waitGroup' = waitGroup
    BY <1>1 DEF BeginRefused, LookupFails, Goto, Busy, Running, RelayTypes
  <2> QED BY <2>1 DEF CountInv
<1>2. ASSUME NEW f \in Forwarders, BeginJoins(f)
      PROVE  CountInv'
  <2>1. Busy' = Busy /\ Running' = Running /\ waitGroup' = waitGroup
    BY <1>2 DEF BeginJoins, Goto, Busy, Running, RelayTypes
  <2> QED BY <2>1 DEF CountInv
<1>3. ASSUME NEW f \in Forwarders, BeginCreates(f)
      PROVE  CountInv'
  <2>1. /\ Busy' = Busy \cup {f} /\ Running' = Running
        /\ waitGroup' = waitGroup + 1 /\ f \notin Busy
    BY SMT, <1>3 DEF BeginCreates, Goto, Busy, Running, RelayTypes
  <2>2. Cardinality(Busy) \in Nat /\ Cardinality(Running) \in Nat
    BY FS_CardinalityType DEF CountInv
  <2>3. /\ IsFiniteSet(Busy \cup {f})
        /\ Cardinality(Busy \cup {f}) = Cardinality(Busy) + 1
    BY <2>1, FS_AddElement DEF CountInv
  <2> QED BY SMT, <2>1, <2>2, <2>3 DEF CountInv
<1>4. ASSUME NEW f \in Forwarders, DialFails(f)
      PROVE  CountInv'
  <2>1. Busy' = Busy /\ Running' = Running /\ waitGroup' = waitGroup
    BY <1>4 DEF DialFails, Goto, Busy, Running, RelayTypes
  <2> QED BY <2>1 DEF CountInv
<1>5. ASSUME NEW f \in Forwarders, NEW t \in Targets, Dialled(f, t)
      PROVE  CountInv'
  <2>1. Busy' = Busy /\ Running' = Running /\ waitGroup' = waitGroup
    BY <1>5 DEF Dialled, Goto, Unreferenced, Busy, Running, RelayTypes
  <2> QED BY <2>1 DEF CountInv
<1>6. ASSUME NEW f \in Forwarders, FinishInstalls(f)
      PROVE  CountInv'
  <2>1. /\ Busy' = Busy /\ Running' = Running \cup {found[f]}
        /\ waitGroup' = waitGroup + 1 /\ found[f] \notin Running
    BY ZenonT(60), <1>6
       DEF FinishInstalls, Install, Publish, Busy, Running, RelayTypes, OwnInv,
     Owns, Private
  <2>2. Cardinality(Busy) \in Nat /\ Cardinality(Running) \in Nat
    BY FS_CardinalityType DEF CountInv
  <2>3. /\ IsFiniteSet(Running \cup {found[f]})
        /\ Cardinality(Running \cup {found[f]}) = Cardinality(Running) + 1
    BY <2>1, FS_AddElement DEF CountInv
  <2> QED BY SMT, <2>1, <2>2, <2>3 DEF CountInv
<1>7. ASSUME NEW f \in Forwarders, FinishRejects(f)
      PROVE  CountInv'
  <2>1. Busy' = Busy /\ Running' = Running /\ waitGroup' = waitGroup
    BY <1>7 DEF FinishRejects, Publish, Busy, Running, RelayTypes
  <2> QED BY <2>1 DEF CountInv
<1>8. ASSUME NEW f \in Forwarders, FinishMade(f)
      PROVE  CountInv'
  <2>1. /\ Busy' = Busy \ {f} /\ Running' = Running
        /\ waitGroup' = waitGroup - 1 /\ f \in Busy
    BY <1>8 DEF FinishMade, Goto, Busy, Running, RelayTypes
  <2>2. Cardinality(Busy) \in Nat /\ Cardinality(Running) \in Nat
    BY FS_CardinalityType DEF CountInv
  <2>3. /\ IsFiniteSet(Busy \ {f})
        /\ Cardinality(Busy \ {f}) = Cardinality(Busy) - 1
    BY <2>1, FS_RemoveElement DEF CountInv
  <2> QED BY SMT, <2>1, <2>2, <2>3 DEF CountInv
<1>9. ASSUME NEW f \in Forwarders, FinishAborts(f)
      PROVE  CountInv'
  <2>1. /\ Busy' = Busy \ {f} /\ Running' = Running
        /\ waitGroup' = waitGroup - 1 /\ f \in Busy
    BY <1>9 DEF FinishAborts, LookupFails, Goto, Busy, Running, RelayTypes
  <2>2. Cardinality(Busy) \in Nat /\ Cardinality(Running) \in Nat
    BY FS_CardinalityType DEF CountInv
  <2>3. /\ IsFiniteSet(Busy \ {f})
        /\ Cardinality(Busy \ {f}) = Cardinality(Busy) - 1
    BY <2>1, FS_RemoveElement DEF CountInv
  <2> QED BY SMT, <2>1, <2>2, <2>3 DEF CountInv
<1>10. ASSUME NEW f \in Forwarders, WaitFails(f)
      PROVE  CountInv'
  <2>1. Busy' = Busy /\ Running' = Running /\ waitGroup' = waitGroup
    BY <1>10 DEF WaitFails, LookupFails, Goto, Busy, Running, RelayTypes
  <2> QED BY <2>1 DEF CountInv
<1>11. ASSUME NEW f \in Forwarders, WaitSucceeds(f)
      PROVE  CountInv'
  <2>1. Busy' = Busy /\ Running' = Running /\ waitGroup' = waitGroup
    BY <1>11 DEF WaitSucceeds, Goto, Busy, Running, RelayTypes
  <2> QED BY <2>1 DEF CountInv
<1>12. ASSUME NEW f \in Forwarders, NEW a \in Addresses, Lookup(f, a)
      PROVE  CountInv'
  <2>1. Busy' = Busy /\ Running' = Running /\ waitGroup' = waitGroup
    BY <1>12 DEF Lookup, LookupFails, Goto, Busy, Running, RelayTypes
  <2> QED BY <2>1 DEF CountInv
<1>13. ASSUME NEW f \in Forwarders, Settle(f)
      PROVE  CountInv'
  <2>1. Busy' = Busy /\ Running' = Running /\ waitGroup' = waitGroup
    BY <1>13 DEF Settle, Goto, Busy, Running, RelayTypes
  <2> QED BY <2>1 DEF CountInv
<1>14. ASSUME NEW f \in Forwarders, InvalidPacket(f)
      PROVE  CountInv'
  <2>1. Busy' = Busy /\ Running' = Running /\ waitGroup' = waitGroup
    BY <1>14 DEF InvalidPacket, Busy, Running, RelayTypes
  <2> QED BY <2>1 DEF CountInv
<1>15. ASSUME NEW f \in Forwarders, FlushFails(f)
      PROVE  CountInv'
  <2>1. Busy' = Busy /\ Running' = Running /\ waitGroup' = waitGroup
    BY <1>15 DEF FlushFails, Goto, Busy, Running, RelayTypes
  <2> QED BY <2>1 DEF CountInv
<1>16. ASSUME NEW f \in Forwarders, FlushRemoves(f)
      PROVE  CountInv'
  <2>1. Busy' = Busy /\ Running' = Running /\ waitGroup' = waitGroup
    BY <1>16 DEF FlushRemoves, Evict, Goto, Busy, Running, RelayTypes
  <2> QED BY <2>1 DEF CountInv
<1>17. ASSUME NEW f \in Forwarders, FlushCloses(f)
      PROVE  CountInv'
  <2>1. Busy' = Busy /\ Running' = Running /\ waitGroup' = waitGroup
    BY <1>17 DEF FlushCloses, CloseTarget, Goto, Busy, Running, RelayTypes
  <2> QED BY <2>1 DEF CountInv
<1>18. ASSUME NEW f \in Forwarders, BatchEnds(f)
      PROVE  CountInv'
  <2>1. Busy' = Busy /\ Running' = Running /\ waitGroup' = waitGroup
    BY <1>18 DEF BatchEnds, Busy, Running, RelayTypes
  <2> QED BY <2>1 DEF CountInv
<1>19. ASSUME NEW t \in Targets, ReadFails(t)
      PROVE  CountInv'
  <2>1. Busy' = Busy /\ Running' = Running /\ waitGroup' = waitGroup
    BY <1>19 DEF ReadFails, Busy, Running, RelayTypes
  <2> QED BY <2>1 DEF CountInv
<1>20. ASSUME NEW t \in Targets, ReadRemoves(t)
      PROVE  CountInv'
  <2>1. Busy' = Busy /\ Running' = Running /\ waitGroup' = waitGroup
    BY <1>20 DEF ReadRemoves, Evict, Busy, Running, RelayTypes
  <2> QED BY <2>1 DEF CountInv
<1>21. ASSUME NEW t \in Targets, ReadCloses(t)
      PROVE  CountInv'
  <2>1. /\ Busy' = Busy /\ Running' = Running \ {t}
        /\ waitGroup' = waitGroup - 1 /\ t \in Running
    BY <1>21 DEF ReadCloses, Busy, Running, RelayTypes
  <2>2. Cardinality(Busy) \in Nat /\ Cardinality(Running) \in Nat
    BY FS_CardinalityType DEF CountInv
  <2>3. /\ IsFiniteSet(Running \ {t})
        /\ Cardinality(Running \ {t}) = Cardinality(Running) - 1
    BY <2>1, FS_RemoveElement DEF CountInv
  <2> QED BY SMT, <2>1, <2>2, <2>3 DEF CountInv
<1>22. CASE Cancel
  <2>1. Busy' = Busy /\ Running' = Running /\ waitGroup' = waitGroup
    BY <1>22 DEF Cancel, Busy, Running, RelayTypes
  <2> QED BY <2>1 DEF CountInv
<1>23. CASE Close
  <2>1. Busy' = Busy /\ Running' = Running /\ waitGroup' = waitGroup
    BY <1>23 DEF Close, Busy, Running, RelayTypes
  <2> QED BY <2>1 DEF CountInv
<1>24. CASE CloseLocks
  <2>1. Busy' = Busy /\ Running' = Running /\ waitGroup' = waitGroup
    BY <1>24 DEF CloseLocks, Busy, Running, RelayTypes
  <2> QED BY <2>1 DEF CountInv
<1>25. CASE CloseJoins
  <2>1. Busy' = Busy /\ Running' = Running /\ waitGroup' = waitGroup
    BY <1>25 DEF CloseJoins, Busy, Running, RelayTypes
  <2> QED BY <2>1 DEF CountInv
<1>26. ASSUME NEW t \in Targets, CloseSweeps(t)
      PROVE  CountInv'
  <2>1. Busy' = Busy /\ Running' = Running /\ waitGroup' = waitGroup
    BY <1>26 DEF CloseSweeps, CloseTarget, Busy, Running, RelayTypes
  <2> QED BY <2>1 DEF CountInv
<1>27. CASE OtherReserves
  <2>1. Busy' = Busy /\ Running' = Running /\ waitGroup' = waitGroup
    BY <1>27 DEF OtherReserves, Busy, Running, RelayTypes
  <2> QED BY <2>1 DEF CountInv
<1>28. CASE OtherReleases
  <2>1. Busy' = Busy /\ Running' = Running /\ waitGroup' = waitGroup
    BY <1>28 DEF OtherReleases, Busy, Running, RelayTypes
  <2> QED BY <2>1 DEF CountInv
<1>29. CASE UNCHANGED vars
  BY <1>29 DEF vars, CountInv, Busy, Running
<1> QED
  BY <1>1, <1>2, <1>3, <1>4, <1>5, <1>6, <1>7, <1>8, <1>9, <1>10, <1>11, <1>12,
     <1>13, <1>14, <1>15, <1>16, <1>17, <1>18, <1>19, <1>20, <1>21, <1>22,
     <1>23, <1>24, <1>25, <1>26, <1>27, <1>28, <1>29
     DEF Next, LookupStep, ForwardStep, ReaderStep, CloserStep

\* What is open has somebody who will close it.
LEMMA ReachStep ==
  ASSUME RelayTypes, Placed, OwnInv, CacheInv, CountInv, ReachInv, [Next]_vars
  PROVE  ReachInv'
<1> USE RelayAssumption DEF state, budget, objects, batch, callers, closing
<1>1. ASSUME NEW f \in Forwarders, BeginRefused(f)
      PROVE  ReachInv'
  BY <1>1, SMTT(40)
     DEF BeginRefused, LookupFails, Goto, ReachInv, Owns, Busy, RelayTypes,
     Placed
<1>2. ASSUME NEW f \in Forwarders, BeginJoins(f)
      PROVE  ReachInv'
  BY <1>2, SMTT(40)
     DEF BeginJoins, Goto, ReachInv, Owns, Busy, RelayTypes, Placed
<1>3. ASSUME NEW f \in Forwarders, BeginCreates(f)
      PROVE  ReachInv'
  BY <1>3, SMTT(40)
     DEF BeginCreates, Goto, ReachInv, Owns, Busy, RelayTypes, Placed
<1>4. ASSUME NEW f \in Forwarders, DialFails(f)
      PROVE  ReachInv'
  BY <1>4, SMTT(40)
     DEF DialFails, Goto, ReachInv, Owns, Busy, RelayTypes, Placed
<1>5. ASSUME NEW f \in Forwarders, NEW t \in Targets, Dialled(f, t)
      PROVE  ReachInv'
  BY <1>5, SMTT(40)
     DEF Dialled, Goto, Unreferenced, ReachInv, Owns, Busy, RelayTypes, Placed
<1>6. ASSUME NEW f \in Forwarders, FinishInstalls(f)
      PROVE  ReachInv'
  BY <1>6, SMTT(40)
     DEF FinishInstalls, Install, Publish, ReachInv, Owns, Busy, RelayTypes,
     Placed
<1>7. ASSUME NEW f \in Forwarders, FinishRejects(f)
      PROVE  ReachInv'
  BY <1>7, SMTT(40)
     DEF FinishRejects, Publish, ReachInv, Owns, Busy, RelayTypes, Placed
<1>8. ASSUME NEW f \in Forwarders, FinishMade(f)
      PROVE  ReachInv'
  BY <1>8, SMTT(40)
     DEF FinishMade, Goto, ReachInv, Owns, Busy, RelayTypes, Placed
<1>9. ASSUME NEW f \in Forwarders, FinishAborts(f)
      PROVE  ReachInv'
  BY <1>9, SMTT(40)
     DEF FinishAborts, CloseTarget, LookupFails, Goto, ReachInv, Owns, Busy,
     RelayTypes, Placed
<1>10. ASSUME NEW f \in Forwarders, WaitFails(f)
      PROVE  ReachInv'
  BY <1>10, SMTT(40)
     DEF WaitFails, LookupFails, Goto, ReachInv, Owns, Busy, RelayTypes, Placed
<1>11. ASSUME NEW f \in Forwarders, WaitSucceeds(f)
      PROVE  ReachInv'
  BY <1>11, SMTT(40)
     DEF WaitSucceeds, Goto, ReachInv, Owns, Busy, RelayTypes, Placed
<1>12. ASSUME NEW f \in Forwarders, NEW a \in Addresses, Lookup(f, a)
      PROVE  ReachInv'
  BY <1>12, SMTT(40)
     DEF Lookup, LookupFails, Goto, ReachInv, Owns, Busy, RelayTypes, Placed
<1>13. ASSUME NEW f \in Forwarders, Settle(f)
      PROVE  ReachInv'
  BY <1>13, SMTT(40) DEF Settle, Goto, ReachInv, Owns, Busy, RelayTypes, Placed
<1>14. ASSUME NEW f \in Forwarders, InvalidPacket(f)
      PROVE  ReachInv'
  BY <1>14, SMTT(40)
     DEF InvalidPacket, ReachInv, Owns, Busy, RelayTypes, Placed
<1>15. ASSUME NEW f \in Forwarders, FlushFails(f)
      PROVE  ReachInv'
  BY <1>15, SMTT(40)
     DEF FlushFails, Goto, ReachInv, Owns, Busy, RelayTypes, Placed
<1>16. ASSUME NEW f \in Forwarders, FlushRemoves(f)
      PROVE  ReachInv'
  BY <1>16, SMTT(40)
     DEF FlushRemoves, Evict, Goto, ReachInv, Owns, Busy, RelayTypes, Placed
<1>17. ASSUME NEW f \in Forwarders, FlushCloses(f)
      PROVE  ReachInv'
  BY <1>17, SMTT(40)
     DEF FlushCloses, CloseTarget, Goto, ReachInv, Owns, Busy, RelayTypes,
     Placed
<1>18. ASSUME NEW f \in Forwarders, BatchEnds(f)
      PROVE  ReachInv'
  BY <1>18, SMTT(40) DEF BatchEnds, ReachInv, Owns, Busy, RelayTypes, Placed
<1>19. ASSUME NEW t \in Targets, ReadFails(t)
      PROVE  ReachInv'
  BY <1>19, SMTT(40) DEF ReadFails, ReachInv, Owns, Busy, RelayTypes, Placed
<1>20. ASSUME NEW t \in Targets, ReadRemoves(t)
      PROVE  ReachInv'
  BY <1>20, SMTT(40)
     DEF ReadRemoves, Evict, ReachInv, Owns, Busy, RelayTypes, Placed
<1>21. ASSUME NEW t \in Targets, ReadCloses(t)
      PROVE  ReachInv'
  BY <1>21, SMTT(40)
     DEF ReadCloses, CloseTarget, ReachInv, Owns, Busy, RelayTypes, Placed
<1>22. CASE Cancel
  BY <1>22, SMTT(40) DEF Cancel, ReachInv, Owns, Busy, RelayTypes, Placed
<1>23. CASE Close
  BY <1>23, SMTT(40) DEF Close, ReachInv, Owns, Busy, RelayTypes, Placed
<1>24. CASE CloseLocks
  BY <1>24, SMTT(40) DEF CloseLocks, ReachInv, Owns, Busy, RelayTypes, Placed
<1>25. CASE CloseJoins
  <2>1. Cardinality(Busy) \in Nat /\ Cardinality(Running) \in Nat
    BY FS_CardinalityType DEF CountInv
  <2>2. Cardinality(Busy) = 0 /\ Cardinality(Running) = 0
    BY SMT, <1>25, <2>1 DEF CloseJoins, CountInv
  <2>3. Busy = {} /\ Running = {}
    BY <2>2, FS_EmptySet DEF CountInv
  <2>4. /\ \A f \in Forwarders : f \notin Busy
        /\ \A t \in Targets : reader[t] = "off"
    BY <2>3 DEF Running
  <2>5. /\ closed
        /\ UNCHANGED <<closed, open, reader, opening, pc, address, found>>
    BY <1>25 DEF CloseJoins, CacheInv
  <2> QED BY ZenonT(60), <2>4, <2>5 DEF ReachInv, Owns, Busy
<1>26. ASSUME NEW t \in Targets, CloseSweeps(t)
      PROVE  ReachInv'
  BY SMT, <1>26
     DEF CloseSweeps, CloseTarget, ReachInv, Owns, Busy, RelayTypes, Placed
<1>27. CASE OtherReserves
  BY SMT, <1>27 DEF OtherReserves, ReachInv, Owns, Busy, RelayTypes, Placed
<1>28. CASE OtherReleases
  BY SMT, <1>28 DEF OtherReleases, ReachInv, Owns, Busy, RelayTypes, Placed
<1>29. CASE UNCHANGED vars
  BY SMT, <1>29 DEF vars, ReachInv, Owns, Busy, RelayTypes, Placed
<1> QED
  BY ZenonT(60),
     <1>1, <1>2, <1>3, <1>4, <1>5, <1>6, <1>7, <1>8, <1>9, <1>10, <1>11, <1>12,
     <1>13, <1>14, <1>15, <1>16, <1>17, <1>18, <1>19, <1>20, <1>21, <1>22,
     <1>23, <1>24, <1>25, <1>26, <1>27, <1>28, <1>29
     DEF Next, LookupStep, ForwardStep, ReaderStep, CloserStep
-----------------------------------------------------------------------------
RelayInv ==
  /\ RelayTypes /\ Placed /\ OwnInv /\ CacheInv
  /\ BudgetInv /\ CountInv /\ ReachInv

\* The inductive invariant: who holds each target, each lease and each count.
THEOREM RelayCorrect == Spec => []RelayInv
<1>1. Init => RelayInv
  BY TypesInit, OwnInit, BudgetInit, JoinInit DEF RelayInv
<1>2. RelayInv /\ [Next]_vars => RelayInv'
  BY TypesStep, OwnStep, CacheStep, BudgetStep, CountStep, ReachStep
     DEF RelayInv
<1> QED BY <1>1, <1>2, PTL DEF Spec

\* The process-wide budget counts exactly the openings and the open targets,
\* for any limits and any number of callers (ReserveUDPTarget, target.close,
\* finishTarget, removeTarget and udpRelay.Close).
THEOREM BudgetAlwaysExact == Spec => []BudgetExact
<1>1. RelayInv => BudgetExact
  BY DEF RelayInv, BudgetInv, Leases, BudgetExact
<1> QED BY <1>1, RelayCorrect, PTL

\* A target that is found in the table is open and has its reader, whatever
\* batches, readers and Close do to it at the same time (removeTarget before
\* target.close, in ForwardBatch, receive and receiveICMP).
THEOREM CachedAlwaysLive == Spec => []CachedLive
<1>1. RelayInv => CachedLive
  BY DEF RelayInv, CacheInv, CachedLive, Cached
<1> QED BY <1>1, RelayCorrect, PTL

\* When udpRelay.Close has returned no connection, lease, opening or goroutine
\* of the relay is left, and none comes back.
THEOREM CloseLeavesNothing == Spec => []NothingAfterClose
<1>1. ASSUME RelayInv, closer = "done"
      PROVE  /\ open = {} /\ unused = {} /\ Cached = {} /\ Opening = {}
             /\ \A t \in Targets : reader[t] = "off"
             /\ used = others
  <2>1. /\ closed /\ \A f \in Forwarders : f \notin Busy
        /\ \A t \in Targets : reader[t] = "off"
    BY <1>1 DEF RelayInv, ReachInv
  <2>2. open = {}
    BY SMT, <1>1, <2>1 DEF RelayInv, ReachInv, RelayTypes, Owns, Busy
  <2>3. Cached = {}
    BY <1>1, <2>1 DEF RelayInv, CacheInv, Cached
  <2>4. Opening = {}
    BY SMT, <1>1, <2>1 DEF RelayInv, ReachInv, RelayTypes, Opening, Busy
  <2>5. unused = {}
    BY <1>1, <2>1 DEF RelayInv, BudgetInv, Leases, Reserved, Busy
  <2>6. used = others
    <3>1. /\ leased = {}
          /\ used = others + Cardinality(leased) + Cardinality(unused)
      BY <1>1, <2>2 DEF RelayInv, BudgetInv, Leases
    <3>2. others \in Nat
      BY <1>1 DEF RelayInv, RelayTypes
    <3> QED BY SMT, <2>5, <3>1, <3>2, FS_EmptySet
  <2> QED BY <2>1, <2>2, <2>3, <2>4, <2>5, <2>6
<1>2. RelayInv => NothingAfterClose
  BY <1>1 DEF NothingAfterClose
<1> QED BY <1>2, RelayCorrect, PTL
=============================================================================
