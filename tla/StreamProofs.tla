---------------------------- MODULE StreamProofs ----------------------------
(***************************************************************************)
(* TLAPS proofs about two parts that a proxied stream passes: the ring     *)
(* buffer of a client's HTTP/2 stream, which implements BytePipe for every *)
(* capacity, first size and sequence of reads and writes (BufferedPipe);   *)
(* and the raw-stream server, for any finite set of connections, any       *)
(* nonces and any limits (StreamServer).                                   *)
(***************************************************************************)
EXTENDS BufferedPipe, StreamServer, FiniteSetTheorems, SequenceTheorems, TLAPS

\* The prover of a leaf that names no other.
USE Zenon

-----------------------------------------------------------------------------
(* Places in a ring of B bytes *)

\* Quotient and remainder.
LEMMA DivMod ==
  ASSUME NEW B \in Nat \ {0}, NEW x \in Int
  PROVE  /\ x \div B \in Int /\ x % B \in 0..(B - 1)
         /\ x = B * (x \div B) + (x % B)
  BY SMT

\* A remainder is the only number of its range that fits.
LEMMA Remainder ==
  ASSUME NEW B \in Nat \ {0}, NEW x \in Int, NEW k \in Int,
         NEW r \in 0..(B - 1), x = B * k + r
  PROVE  x % B = r
<1> DEFINE p == x \div B
           q == x % B
<1>1. p \in Int /\ q \in 0..(B - 1) /\ x = B * p + q
  BY DivMod
<1> HIDE DEF p, q
<1>2. B * p - B * k = r - q
  BY SMT, <1>1
<1>3. CASE p >= k + 1
  <2>1. B * p >= B * (k + 1)
    BY SMT, <1>1, <1>3
  <2>2. B * (k + 1) = B * k + B
    BY SMT, <1>1
  <2> QED BY SMT, <1>1, <1>2, <2>1, <2>2
<1>4. CASE k >= p + 1
  <2>1. B * k >= B * (p + 1)
    BY SMT, <1>1, <1>4
  <2>2. B * (p + 1) = B * p + B
    BY SMT, <1>1
  <2> QED BY SMT, <1>1, <1>2, <2>1, <2>2
<1>5. CASE p = k
  BY SMT, <1>1, <1>5 DEF q
<1> QED BY SMT, <1>1, <1>3, <1>4, <1>5

\* Going on from a place that has wrapped.
LEMMA ModAdd ==
  ASSUME NEW B \in Nat \ {0}, NEW x \in Nat, NEW y \in Nat
  PROVE  ((x % B) + y) % B = (x + y) % B
<1> DEFINE p == x \div B
           s == x % B
           q == (s + y) \div B
           r == (s + y) % B
<1>1. p \in Int /\ s \in 0..(B - 1) /\ x = B * p + s
  BY SMT, DivMod
<1>2. s + y \in Int
  BY SMT, <1>1
<1>3. q \in Int /\ r \in 0..(B - 1) /\ s + y = B * q + r
  BY <1>2, DivMod
<1> HIDE DEF p, q, r, s
<1>4. x + y = B * (p + q) + r
  <2>1. B * (p + q) = B * p + B * q
    BY SMT, <1>1, <1>3
  <2> QED BY SMT, <1>1, <1>3, <2>1
<1>5. (x + y) % B = r
  <2>1. x + y \in Int /\ p + q \in Int
    BY SMT, <1>1, <1>3
  <2> QED BY <1>3, <1>4, <2>1, Remainder
<1> QED BY <1>5 DEF r, s

\* The distance, forwards, from the place of y to the place of x.
LEMMA Distance ==
  ASSUME NEW B \in Nat \ {0}, NEW x \in Nat, NEW y \in Nat,
         NEW d \in 0..(B - 1), x = y + d \/ x + B = y + d
  PROVE  ((x % B) + (B - (y % B))) % B = d
<1> DEFINE p == x \div B
           s == x % B
           q == y \div B
           r == y % B
<1>1. p \in Int /\ s \in 0..(B - 1) /\ x = B * p + s
  BY SMT, DivMod
<1>2. q \in Int /\ r \in 0..(B - 1) /\ y = B * q + r
  BY SMT, DivMod
<1> HIDE DEF p, q, r, s
<1>3. PICK k \in Int : s + (B - r) = B * k + d
  <2>1. CASE x = y + d
    <3>1. B * ((q - p) + 1) = (B * q - B * p) + B
      BY SMT, <1>1, <1>2
    <3>2. s + (B - r) = B * ((q - p) + 1) + d
      BY SMT, <1>1, <1>2, <2>1, <3>1
    <3>3. (q - p) + 1 \in Int
      BY SMT, <1>1, <1>2
    <3> QED BY <3>2, <3>3
  <2>2. CASE x + B = y + d
    <3>1. B * (q - p) = B * q - B * p
      BY SMT, <1>1, <1>2
    <3>2. s + (B - r) = B * (q - p) + d
      BY SMT, <1>1, <1>2, <2>2, <3>1
    <3>3. q - p \in Int
      BY SMT, <1>1, <1>2
    <3> QED BY <3>2, <3>3
  <2> QED BY <2>1, <2>2
<1>4. s + (B - r) \in Int
  BY SMT, <1>1, <1>2
<1>5. (s + (B - r)) % B = d
  BY <1>3, <1>4, Remainder
<1> QED BY <1>5 DEF r, s
-----------------------------------------------------------------------------
(* The invariant *)

\* Buffer b of B bytes, from head on, holds the rcount bytes of the stream that
\* come after the ones read.
Holds(b, B, head) ==
  /\ b \in [1..B -> Nat] /\ rcount <= B
  /\ \A i \in 1..rcount : b[((head + i - 1) % B) + 1] = Len(rgot) + i

RingTypes ==
  /\ ring \in Seq(Nat) /\ Len(ring) <= RingCapacity
  /\ rhead \in Nat /\ rtail \in Nat /\ rcount \in Nat
  /\ ringClosed \in BOOLEAN /\ ringErr \in {"none", "eof", "error"}
  /\ pending \in Nat /\ rwrote \in Nat
  /\ rgot \in Seq(Nat) /\ rend \in {"none", "eof", "error"}

RingInv ==
  /\ RingTypes
  /\ Holds(ring, Len(ring), rhead)
  /\ Len(ring) > 0 => rtail = (rhead + rcount) % Len(ring)
  /\ rwrote = Len(rgot) + rcount
  /\ ringErr # "none" => ringClosed

\* A buffer of n bytes is a sequence.
LEMMA FunctionSeq ==
  ASSUME NEW n \in Nat, NEW f \in [1..n -> Nat]
  PROVE  f \in Seq(Nat) /\ Len(f) = n
  BY SMT

\* The empty ring holds what it should: nothing.
LEMMA RingStart == RingInit => RingInv
<1> SUFFICES ASSUME RingInit PROVE RingInv
  OBVIOUS
<1>1. Len(<<>>) = 0 /\ <<>> \in Seq(Nat) /\ <<>> \in [1..0 -> Nat]
  BY SMT
<1>2. RingTypes
  <2>1. Len(ring) <= RingCapacity
    BY SMT, <1>1, RingAssumption DEF RingInit
  <2> QED BY <1>1, <2>1 DEF RingInit, RingTypes
<1>3. Holds(ring, Len(ring), rhead)
  BY SMT, <1>1 DEF RingInit, Holds
<1> QED BY SMT, <1>1, <1>2, <1>3 DEF RingInit, RingInv

\* Fill keeps what buffer b holds and adds the next n bytes after it.
LEMMA FillHolds ==
  ASSUME RingInv, NEW b \in Seq(Nat), Len(b) \in 1..RingCapacity,
         NEW head \in Nat, Holds(b, Len(b), head),
         NEW tail \in Nat, tail = (head + rcount) % Len(b),
         Fill(b, head, tail), rgot' = rgot
  PROVE  /\ ring' \in Seq(Nat) /\ Len(ring') = Len(b)
         /\ Holds(ring, Len(ring), rhead)'
         /\ rtail' = (head + rcount') % Len(b) /\ rtail' \in Nat
         /\ rcount' \in Nat /\ rhead' = head /\ pending' \in Nat
         /\ rwrote' = Len(rgot) + rcount' /\ rwrote' \in Nat
         /\ rwrote' >= rwrote
<1> DEFINE B == Len(b)
           n == Smaller(pending, B - rcount)
           K(i) == ((i - 1) + (B - tail)) % B
<1> USE RingAssumption
<1>0. B \in Nat \ {0} /\ rcount <= B
  BY SMT DEF Holds
<1>1. /\ rcount \in Nat /\ rwrote \in Nat /\ pending \in Nat
      /\ Len(rgot) \in Nat /\ rwrote = Len(rgot) + rcount /\ B \in Nat \ {0}
      /\ rcount <= B
  BY SMT, <1>0 DEF RingInv, RingTypes
<1>2. n \in Nat /\ n <= B - rcount /\ n <= pending
  BY SMT, <1>1 DEF Smaller
<1>3. ring' = [i \in 1..B |-> IF K(i) < n THEN (rwrote + K(i)) + 1 ELSE b[i]]
  BY DEF Fill
<1>a. /\ rhead' = head /\ rtail' = (tail + n) % B /\ rcount' = rcount + n
      /\ rwrote' = rwrote + n /\ pending' = pending - n
  BY DEF Fill
<1> HIDE DEF n, B
<1>4. ASSUME NEW i \in 1..B
      PROVE  K(i) \in Nat
  <2>1. (i - 1) + (B - tail) \in Int
    BY SMT, <1>1
  <2>2. K(i) \in 0..(B - 1)
    BY <1>1, <2>1, DivMod
  <2> QED BY SMT, <1>1, <2>2
<1>5. ring' \in [1..B -> Nat]
  <2> HIDE DEF K
  <2>1. b \in [1..B -> Nat]
    BY DEF Holds, B
  <2>2. ASSUME NEW i \in 1..B
        PROVE  (IF K(i) < n THEN (rwrote + K(i)) + 1 ELSE b[i]) \in Nat
    <3>1. b[i] \in Nat
      BY <2>1
    <3>2. K(i) \in Nat
      BY <1>4
    <3> QED BY SMTT(60), <1>1, <3>1, <3>2
  <2> QED BY <1>3, <2>2
<1>6. ring' \in Seq(Nat) /\ Len(ring') = B
  BY <1>1, <1>5, FunctionSeq
<1>7. ASSUME NEW j \in 1..(rcount + n)
      PROVE  ring'[((head + j - 1) % B) + 1] = Len(rgot) + j
  <2> DEFINE x == head + (j - 1)
             y == head + rcount
             i == (x % B) + 1
  <2>0. x \in Nat /\ y \in Nat
    BY SMT, <1>1, <1>2
  <2>1. x \in Nat /\ y \in Nat /\ x % B \in 0..(B - 1)
    <3>1. x \in Int
      BY SMT, <2>0
    <3> QED BY <1>1, <2>0, <3>1, DivMod
  <2>2. i \in 1..B /\ i - 1 = x % B
    BY SMT, <1>1, <2>1
  <2>3. K(i) = ((x % B) + (B - (y % B))) % B
    BY <2>2 DEF B
  <2> HIDE DEF K
  <2>4. CASE j <= rcount
    <3> DEFINE d == ((j - 1) - rcount) + B
    <3>1. d \in 0..(B - 1) /\ x + B = y + d /\ ~(d < n)
      BY SMT, <1>1, <1>2, <2>4
    <3> HIDE DEF d, x, y, i
    <3>2. K(i) = d
      BY <1>1, <2>1, <2>3, <3>1, Distance
    <3>3. ring'[i] = b[i]
      BY <1>3, <2>2, <3>1, <3>2
    <3>4. b[i] = Len(rgot) + j
      <4>1. j \in 1..rcount
        BY SMT, <1>1, <1>2, <2>4
      <4> QED BY <4>1 DEF Holds, B, i, x
    <3> QED BY <3>3, <3>4 DEF i, x
  <2>5. CASE j > rcount
    <3> DEFINE d == (j - 1) - rcount
    <3>1. d \in 0..(B - 1) /\ x = y + d /\ d < n
      BY SMT, <1>1, <1>2, <2>5
    <3> HIDE DEF d, x, y, i
    <3>2. K(i) = d
      BY <1>1, <2>1, <2>3, <3>1, Distance
    <3>3. ring'[i] = (rwrote + d) + 1
      BY <1>3, <2>2, <3>1, <3>2
    <3>4. (rwrote + d) + 1 = Len(rgot) + j
      BY SMT, <1>1, <1>2, <2>5 DEF d
    <3> QED BY <3>3, <3>4 DEF i, x
  <2> QED BY SMT, <1>1, <1>2, <2>4, <2>5
<1>8. Holds(ring, Len(ring), rhead)'
  <2>1. rcount' <= Len(ring')
    BY SMT, <1>1, <1>2, <1>a, <1>6
  <2>2. ring' \in [1..Len(ring') -> Nat]
    BY <1>5, <1>6
  <2>3. \A j \in 1..rcount' :
          ring'[((rhead' + j - 1) % Len(ring')) + 1] = Len(rgot') + j
    BY <1>a, <1>6, <1>7
  <2> QED BY <2>1, <2>2, <2>3 DEF Holds
<1>9. rtail' = (head + rcount') % B /\ rtail' \in Nat
  <2>0. head + rcount \in Nat /\ tail = (head + rcount) % B
    BY SMT, <1>1 DEF B
  <2>1. rtail' = ((head + rcount) + n) % B
    <3> DEFINE z == head + rcount
    <3>1. rtail' = ((z % B) + n) % B
      BY <1>a, <2>0
    <3>2. z \in Nat
      BY <2>0
    <3> HIDE DEF z
    <3>3. ((z % B) + n) % B = (z + n) % B
      BY <1>1, <1>2, <3>2, ModAdd
    <3> QED BY <3>1, <3>3 DEF z
  <2>2. (head + rcount) + n = head + rcount'
    BY SMT, <1>1, <1>2, <1>a
  <2>3. rtail' \in 0..(B - 1)
    <3>1. (head + rcount) + n \in Int
      BY SMT, <1>1, <1>2
    <3> QED BY <1>1, <2>1, <3>1, DivMod
  <2>4. rtail' \in Nat
    BY SMT, <1>1, <2>3
  <2> QED BY <2>1, <2>2, <2>4
<1>10. rcount' \in Nat /\ pending' \in Nat /\ rwrote' \in Nat
       /\ rwrote' = Len(rgot) + rcount' /\ rwrote' >= rwrote
  BY <1>1, <1>2, <1>a, SMTT(40)
<1> QED BY <1>a, <1>6, <1>8, <1>9, <1>10 DEF B

\* The buffer that grows holds what the old one held.
LEMMA GrownHolds ==
  ASSUME RingInv, NEW size \in Nat \ {0}, rcount <= size
  PROVE  /\ Grown(size) \in Seq(Nat) /\ Len(Grown(size)) = size
         /\ Holds(Grown(size), size, 0)
<1> DEFINE V(i) == IF i <= rcount THEN Content(rcount)[i] ELSE 0
<1>1. rcount \in Nat /\ Len(rgot) \in Nat
  BY SMT DEF RingInv, RingTypes
<1>2. ASSUME NEW i \in 1..rcount
      PROVE  Content(rcount)[i] = Len(rgot) + i
  BY DEF RingInv, Holds, Content
<1>3. ASSUME NEW i \in 1..size
      PROVE  V(i) \in Nat
  <2>1. CASE i <= rcount
    <3>1. i \in 1..rcount
      BY SMT, <1>1, <2>1
    <3> QED BY SMT, <1>1, <1>2, <2>1, <3>1
  <2>2. CASE ~(i <= rcount)
    BY <2>2
  <2> QED BY <2>1, <2>2
<1>4. Grown(size) = [i \in 1..size |-> V(i)]
  BY DEF Grown
<1> HIDE DEF V
<1>5. Grown(size) \in [1..size -> Nat]
  BY <1>3, <1>4
<1>6. ASSUME NEW i \in 1..rcount
      PROVE  Grown(size)[((0 + i - 1) % size) + 1] = Len(rgot) + i
  <2>1. i \in 1..size /\ 0 + (i - 1) \in 0..(size - 1)
    BY SMT, <1>1
  <2>2. (0 + (i - 1)) % size = i - 1
    BY SMT, <2>1
  <2>3. ((0 + (i - 1)) % size) + 1 = i
    BY SMT, <2>1, <2>2
  <2>4. V(i) = Len(rgot) + i
    BY SMT, <1>1, <1>2 DEF V
  <2> QED BY <1>4, <2>1, <2>3, <2>4
<1>7. Grown(size) \in Seq(Nat) /\ Len(Grown(size)) = size
  BY <1>5, FunctionSeq
<1> QED BY <1>5, <1>6, <1>7 DEF Holds

\* A step of Write that puts bytes in the buffer.
LEMMA WriteKeeps ==
  ASSUME RingInv, RingWrite, ~ringClosed
  PROVE  RingInv' /\ rwrote' \in Nat /\ rwrote' >= rwrote
<1> DEFINE need == rcount + pending
           double == Larger(2 * Len(ring), need)
           size == Smaller(RingCapacity, Larger(RingFirst, double))
           grows == Len(ring) < RingCapacity /\ need > Len(ring)
<1> USE RingAssumption
<1>1. /\ rcount \in Nat /\ pending \in Nat /\ Len(ring) \in Nat
      /\ Len(rgot) \in Nat /\ rhead \in Nat /\ rtail \in Nat
      /\ ring \in Seq(Nat) /\ Len(ring) <= RingCapacity
  BY SMT DEF RingInv, RingTypes
<1>2. pending > 0 /\ ringErr = "none"
  BY DEF RingWrite, RingInv
<1>3. /\ grows => Fill(Grown(size), 0, rcount % size)
      /\ ~grows => Fill(ring, rhead, rtail)
  BY <1>2 DEF RingWrite
<1>4. UNCHANGED <<ringClosed, ringErr, rgot, rend>>
  BY DEF RingWrite
<1>5. rcount <= Len(ring)
  BY DEF RingInv, Holds
<1>6. ASSUME NEW b \in Seq(Nat), Len(b) \in 1..RingCapacity,
             NEW head \in Nat, Holds(b, Len(b), head), NEW tail \in Nat,
             tail = (head + rcount) % Len(b), Fill(b, head, tail)
      PROVE  RingInv' /\ rwrote' \in Nat /\ rwrote' >= rwrote
  <2>1. /\ ring' \in Seq(Nat) /\ Len(ring') = Len(b)
        /\ Holds(ring, Len(ring), rhead)'
        /\ rtail' = (head + rcount') % Len(b) /\ rtail' \in Nat
        /\ rcount' \in Nat /\ rhead' = head /\ pending' \in Nat
        /\ rwrote' = Len(rgot) + rcount' /\ rwrote' \in Nat
        /\ rwrote' >= rwrote
    BY <1>4, <1>6, FillHolds
  <2>2. RingTypes'
    BY SMT, <1>4, <1>6, <2>1 DEF RingInv, RingTypes
  <2> QED BY <1>4, <2>1, <2>2 DEF RingInv
<1>7. CASE grows
  <2>1. size \in 1..RingCapacity /\ rcount <= size
    BY SMT, <1>1, <1>2, <1>5, <1>7 DEF Larger, Smaller
  <2> HIDE DEF size, grows
  <2>2. size \in Nat \ {0}
    BY SMT, <2>1
  <2>3. /\ Grown(size) \in Seq(Nat) /\ Len(Grown(size)) = size
        /\ Holds(Grown(size), size, 0)
    BY <2>1, <2>2, GrownHolds
  <2>4. rcount % size \in Nat /\ rcount % size = (0 + rcount) % size
    <3>0. rcount \in Int
      BY SMT, <1>1
    <3>1. rcount % size \in 0..(size - 1)
      BY <2>2, <3>0, DivMod
    <3>2. 0 + rcount = rcount
      BY SMT, <1>1
    <3> QED BY SMT, <2>2, <3>1, <3>2
  <2>5. Fill(Grown(size), 0, rcount % size)
    BY <1>3, <1>7
  <2> QED BY <1>6, <2>1, <2>3, <2>4, <2>5
<1>8. CASE ~grows
  <2>1. Len(ring) \in 1..RingCapacity
    BY SMT, <1>1, <1>2, <1>5, <1>8
  <2> HIDE DEF grows
  <2>2. Holds(ring, Len(ring), rhead) /\ rtail = (rhead + rcount) % Len(ring)
    BY SMT, <2>1 DEF RingInv
  <2> QED BY <1>1, <1>3, <1>6, <1>8, <2>1, <2>2
<1> QED BY <1>7, <1>8

\* A Read that finds bytes returns the next ones of the stream.
LEMMA ReadKeeps ==
  ASSUME RingInv, NEW size \in Nat, RingRead(size), rcount > 0
  PROVE  /\ RingInv'
         /\ \E m \in 0..rcount :
              rgot' = rgot \o [i \in 1..m |-> Len(rgot) + i]
<1> DEFINE n == Smaller(size, rcount)
           L == Len(ring)
           more == [i \in 1..n |-> Len(rgot) + i]
<1>1. /\ rcount \in Nat /\ rhead \in Nat /\ L \in Nat \ {0} /\ rcount <= L
      /\ Len(rgot) \in Nat /\ rgot \in Seq(Nat) /\ rwrote = Len(rgot) + rcount
  <2>1. /\ rcount \in Nat /\ rhead \in Nat /\ L \in Nat /\ rcount <= L
        /\ Len(rgot) \in Nat /\ rgot \in Seq(Nat)
        /\ rwrote = Len(rgot) + rcount
    BY SMT DEF RingInv, RingTypes, Holds
  <2> QED BY SMT, <2>1
<1>2. n \in 0..rcount
  BY SMT, <1>1 DEF Smaller
<1>3. /\ rgot' = rgot \o Content(n) /\ rhead' = (rhead + n) % L
      /\ rcount' = rcount - n
      /\ UNCHANGED <<ring, rtail, ringClosed, ringErr, pending, rwrote, rend>>
  BY DEF RingRead
<1>4. \A i \in 1..rcount : ring[((rhead + (i - 1)) % L) + 1] = Len(rgot) + i
  BY DEF RingInv, Holds
<1> HIDE DEF n, L
<1>5. Content(n) = more
  <2>1. ASSUME NEW i \in 1..n
        PROVE  ring[((rhead + (i - 1)) % L) + 1] = Len(rgot) + i
    <3>1. i \in 1..rcount
      BY SMT, <1>1, <1>2
    <3> QED BY <1>4, <3>1
  <2>2. Content(n) = [i \in 1..n |-> ring[((rhead + (i - 1)) % L) + 1]]
    BY DEF Content, L
  <2> QED BY <2>1, <2>2
<1>6. more \in Seq(Nat) /\ Len(more) = n
  <2>1. n \in Nat /\ more \in [1..n -> Nat]
    BY SMT, <1>1, <1>2
  <2> HIDE DEF more
  <2> QED BY <2>1, FunctionSeq
<1>7. rgot' = rgot \o more
  BY <1>3, <1>5
<1>8. rgot' \in Seq(Nat) /\ Len(rgot') = Len(rgot) + n
  <2> HIDE DEF more
  <2>1. /\ rgot \o more \in Seq(Nat)
        /\ Len(rgot \o more) = Len(rgot) + Len(more)
    BY <1>1, <1>6, ConcatProperties
  <2> QED BY <1>6, <1>7, <2>1
<1>9. rhead' \in Nat
  <2>1. rhead + n \in Int
    BY SMT, <1>1, <1>2
  <2>2. (rhead + n) % L \in 0..(L - 1)
    BY <1>1, <2>1, DivMod
  <2> QED BY SMT, <1>1, <1>3, <2>2
<1>10. RingTypes'
  <2>1. rcount' \in Nat
    BY SMT, <1>1, <1>2, <1>3
  <2> QED BY <1>3, <1>8, <1>9, <2>1 DEF RingInv, RingTypes
<1>11. ASSUME NEW k \in Nat
       PROVE  (rhead' + k) % L = ((rhead + n) + k) % L
  <2> DEFINE z == rhead + n
  <2>1. z \in Nat
    BY SMT, <1>1, <1>2
  <2>2. rhead' = z % L
    BY <1>3
  <2> HIDE DEF z
  <2>3. ((z % L) + k) % L = (z + k) % L
    BY <1>1, <2>1, ModAdd
  <2> QED BY <2>2, <2>3 DEF z
<1>12. ASSUME NEW j \in 1..rcount'
       PROVE  ring[((rhead' + (j - 1)) % L) + 1] = Len(rgot') + j
  <2>1. n + j \in 1..rcount /\ j - 1 \in Nat
    BY SMT, <1>1, <1>2, <1>3
  <2>2. (rhead + n) + (j - 1) = rhead + ((n + j) - 1)
    BY SMT, <1>1, <1>2, <2>1
  <2>3. (rhead' + (j - 1)) % L = (rhead + ((n + j) - 1)) % L
    BY <1>11, <2>1, <2>2
  <2>4. ring[((rhead + ((n + j) - 1)) % L) + 1] = Len(rgot) + (n + j)
    BY <1>4, <2>1
  <2>5. Len(rgot) + (n + j) = Len(rgot') + j
    BY SMT, <1>1, <1>2, <1>8
  <2> QED BY <2>3, <2>4, <2>5
<1>13. Holds(ring, Len(ring), rhead)'
  <2>1. rcount' <= L
    BY SMT, <1>1, <1>2, <1>3
  <2>2. ring' \in [1..L -> Nat]
    BY <1>3 DEF RingInv, Holds, L
  <2> QED BY <1>3, <1>12, <2>1, <2>2 DEF Holds, L
<1>14. rtail' = (rhead' + rcount') % Len(ring')
  <2>1. rtail = (rhead + rcount) % L
    BY SMT, <1>1 DEF RingInv, L
  <2>2. rcount' \in Nat /\ (rhead + n) + rcount' = rhead + rcount
    BY SMT, <1>1, <1>2, <1>3
  <2>3. (rhead' + rcount') % L = (rhead + rcount) % L
    BY <1>11, <2>2
  <2> QED BY <1>3, <2>1, <2>3 DEF L
<1>15. rwrote' = Len(rgot') + rcount'
  BY SMT, <1>1, <1>2, <1>3, <1>8
<1>16. RingInv'
  BY <1>3, <1>10, <1>13, <1>14, <1>15 DEF RingInv
<1> QED BY <1>2, <1>7, <1>16
-----------------------------------------------------------------------------
(* The refinement *)

\* Every step keeps the invariant and is a step of the byte pipe, or none.
LEMMA RingStep ==
  ASSUME RingInv, [RingNext]_ringVars
  PROVE  /\ RingInv'
         /\ [RingPipe!Next]_<<rwrote, ~ringClosed, rgot, rend>>
<1> DEFINE pipe == <<rwrote, ~ringClosed, rgot, rend>>
<1>1. ASSUME NEW n \in RingSizes, WriteCall(n)
      PROVE  RingInv' /\ UNCHANGED pipe
  <2>1. pending' \in Nat
    BY <1>1, RingAssumption DEF WriteCall
  <2>2. UNCHANGED <<ring, rhead, rtail, rcount, ringClosed, ringErr, rwrote,
                    rgot, rend>>
    BY <1>1 DEF WriteCall, storeVars
  <2> QED BY <2>1, <2>2 DEF RingInv, RingTypes, Holds
<1>2. CASE RingWrite /\ (ringClosed \/ ringErr # "none")
  <2>1. /\ pending' = 0
        /\ UNCHANGED <<ring, rhead, rtail, rcount, ringClosed, ringErr, rwrote,
                       rgot, rend>>
    BY <1>2 DEF RingWrite, storeVars
  <2>2. RingInv' /\ UNCHANGED pipe
    BY <2>1 DEF RingInv, RingTypes, Holds
  <2> QED BY <2>2
<1>3. CASE RingWrite /\ ~(ringClosed \/ ringErr # "none")
  <2>1. RingInv' /\ rwrote' \in Nat /\ rwrote' >= rwrote
    BY <1>3, WriteKeeps
  <2>2. UNCHANGED <<ringClosed, rgot, rend>> /\ ~ringClosed
    BY <1>3 DEF RingWrite
  <2>3. rwrote \in Nat
    BY DEF RingInv, RingTypes
  <2>4. RingPipe!Put \/ UNCHANGED pipe
    BY SMTT(30), <2>1, <2>2, <2>3 DEF RingPipe!Put
  <2> QED BY <2>1, <2>4 DEF RingPipe!Next
<1>4. ASSUME NEW n \in RingSizes, RingRead(n), rcount > 0
      PROVE  RingInv' /\ (RingPipe!Get \/ UNCHANGED pipe)
  <2>1. n \in Nat
    BY RingAssumption
  <2>2. /\ RingInv'
        /\ \E m \in 0..rcount :
             rgot' = rgot \o [i \in 1..m |-> Len(rgot) + i]
    BY <1>4, <2>1, ReadKeeps
  <2>3. PICK m \in 0..rcount : rgot' = rgot \o [i \in 1..m |-> Len(rgot) + i]
    BY <2>2
  <2>4. rend = "none" /\ UNCHANGED <<rwrote, ringClosed, rend>>
    BY <1>4 DEF RingRead
  <2>5. /\ rcount \in Nat /\ Len(rgot) \in Nat /\ rgot \in Seq(Nat)
        /\ rwrote = Len(rgot) + rcount
    BY SMT DEF RingInv, RingTypes
  <2>6. CASE m = 0
    <3>1. [i \in 1..m |-> Len(rgot) + i] = <<>>
      BY SMT, <2>6
    <3>2. rgot' = rgot
      BY <2>3, <2>5, <3>1, ConcatEmptySeq
    <3> QED BY <2>2, <2>4, <3>2
  <2>7. CASE m # 0
    <3>1. m \in 1..(rwrote - Len(rgot))
      BY SMT, <2>5, <2>7
    <3> QED BY <2>2, <2>3, <2>4, <3>1 DEF RingPipe!Get
  <2> QED BY <2>6, <2>7
<1>5. ASSUME NEW n \in RingSizes, RingRead(n), ~(rcount > 0)
      PROVE  /\ RingInv'
             /\ RingPipe!End \/ RingPipe!Fail \/ UNCHANGED pipe
  <2>1. /\ rend = "none"
        /\ rend' = IF ringErr # "none" THEN ringErr
                   ELSE IF ringClosed THEN "eof" ELSE "none"
        /\ UNCHANGED <<ring, rhead, rtail, rcount, ringClosed, ringErr, pending,
                       rwrote, rgot>>
    BY <1>5 DEF RingRead
  <2>2. ringErr \in {"none", "eof", "error"} /\ (ringErr # "none" => ringClosed)
    BY DEF RingInv, RingTypes
  <2>3. RingInv'
    BY <2>1, <2>2 DEF RingInv, RingTypes, Holds
  <2>4. Len(rgot) = rwrote
    <3>1. /\ rcount \in Nat /\ Len(rgot) \in Nat
          /\ rwrote = Len(rgot) + rcount
      BY SMT DEF RingInv, RingTypes
    <3> QED BY SMT, <1>5, <3>1
  <2>5. CASE rend' = "eof"
    <3>1. ringClosed
      BY <2>1, <2>2, <2>5
    <3> QED BY <2>1, <2>3, <2>4, <2>5, <3>1 DEF RingPipe!End
  <2>6. CASE rend' = "error"
    BY <2>1, <2>3, <2>6 DEF RingPipe!Fail
  <2>7. CASE rend' = "none"
    BY <2>1, <2>3, <2>7
  <2> QED BY <2>1, <2>2, <2>5, <2>6, <2>7
<1>6. ASSUME NEW err \in {"none", "eof", "error"}, RingClose(err)
      PROVE  RingInv' /\ (RingPipe!CloseWrite \/ UNCHANGED pipe)
  <2>1. /\ ringClosed' = TRUE /\ ringErr' \in {"none", "eof", "error"}
        /\ UNCHANGED <<ring, rhead, rtail, rcount, pending, rwrote, rgot, rend>>
    BY <1>6 DEF RingClose, storeVars, RingInv, RingTypes
  <2>2. RingInv'
    BY <2>1 DEF RingInv, RingTypes, Holds
  <2>3. CASE ringClosed
    <3>1. ringClosed' = ringClosed
      BY <2>1, <2>3 DEF RingInv, RingTypes
    <3> QED BY SMT, <2>1, <2>2, <3>1
  <2>4. CASE ~ringClosed
    BY <2>1, <2>2, <2>4 DEF RingPipe!CloseWrite
  <2> QED BY <2>3, <2>4
<1>7. CASE UNCHANGED ringVars
  BY <1>7 DEF ringVars, storeVars, RingInv, RingTypes, Holds
<1> QED
  BY <1>1, <1>2, <1>3, <1>4, <1>5, <1>6, <1>7
     DEF RingNext, RingReading, RingPipe!Next

(* At all times the ring holds, from its head on, the bytes of the stream  *)
(* that come after the ones read, whatever the sizes of the reads and      *)
(* writes and however often it wrapped and grew (bufpipe.go, growLocked,   *)
(* Write, Read).                                                           *)
THEOREM RingCorrect == RingInit /\ [][RingNext]_ringVars => []RingInv
<1>1. RingInit => RingInv
  BY RingStart
<1>2. RingInv /\ [RingNext]_ringVars => RingInv'
  BY RingStep
<1> QED BY <1>1, <1>2, PTL

(* For every capacity, first size and choice of read and write sizes the   *)
(* buffered pipe implements the byte pipe: Read returns what Write         *)
(* accepted, in order, each byte once, and the end after all of it         *)
(* (bufpipe.go, Read, Write, Close, CloseWithError).                       *)
THEOREM RingImplements == RingInit /\ [][RingNext]_ringVars => RingSpec
<1>1. RingInit => RingPipe!Init
  BY DEF RingInit, RingPipe!Init
<1>2. RingInv /\ [RingNext]_ringVars
        => [RingPipe!Next]_<<rwrote, ~ringClosed, rgot, rend>>
  BY RingStep
<1> QED BY <1>1, <1>2, RingCorrect, PTL DEF RingSpec, RingPipe!Spec

-----------------------------------------------------------------------------
(* The raw-stream server *)

Shaking == {"hello", "check", "frame", "accept", "reply"}
Early == {"hello", "check", "frame", "accept", "reply", "dial", "payload"}
Over == {"leave", "done"}
Owners == {"reply", "dial"}
Running == {c \in Conns : handler[c] # "none"}
Counted == {c \in Conns : handler[c] \notin {"none", "done"}}

\* ServerTypeOK without the limits and what follows.
Types ==
  /\ closed \in BOOLEAN /\ cancelled \in BOOLEAN
  /\ listener \in {"new", "open", "shut"}
  /\ udp \in {"none", "attached", "serving", "stopped"} /\ udpClosed \in BOOLEAN
  /\ activeConns \in Int /\ handshakeSem \in Int /\ wg \in Int
  /\ handler \in [Conns -> Labels]
  /\ slot \subseteq Conns /\ ended \subseteq Conns /\ shut \subseteq Conns
  /\ copy \in [Conns -> [Directions ->
                 {"off", "copy", "clean", "failed", "joined"}]]
  /\ cacheClosed \in BOOLEAN /\ excuse \subseteq Conns
  /\ closer \in {"no", "cancel", "listeners", "udp", "udpwait", "wait", "done"}

\* The hellos and the grants; a connection in progress has a hello.
TalkTypes ==
  /\ hello \in [Conns -> Hellos \cup {None}] /\ begun \in [Conns -> Nat]
  /\ grant \in [Conns -> Replays!Grants \cup {None}]
  /\ spent \subseteq Replays!Grants /\ IsFiniteSet(spent)
  /\ wall \in Nat /\ stamp \in [Hellos -> Nat]
  /\ \A c \in Conns : handler[c] # "none" => hello[c] \in Hellos

\* Every counter is the size of a set of connections.
CountInv ==
  /\ handshakeSem = Cardinality(slot) /\ handshakeSem <= MaxHandshakes
  /\ activeConns = Cardinality(Counted) /\ activeConns <= MaxConns
  /\ wg = Cardinality(Running)
  /\ \A c \in Conns : c \in slot <=> handler[c] \in Shaking

\* The grants of a hello are numbered and far apart; between the commit and the
\* dial one connection owns its grant.
Of(h) == {g \in spent : g.n = h}

GrantInv ==
  /\ dialled \subseteq spent
  /\ \A g, h \in spent : g.n = h.n /\ g # h => Replays!FarApart(g, h)
  /\ \A g \in spent : g.nth < Cardinality(Of(g.n))

OwnerInv ==
  /\ \A c \in Conns : handler[c] \in Owners =>
       grant[c] \in spent /\ grant[c] \notin dialled /\ grant[c].n = hello[c]
  /\ \A b, c \in Conns :
       handler[b] \in Owners /\ handler[c] \in Owners /\ grant[b] = grant[c]
         => b = c

\* How far Close has come.
CloseInv ==
  /\ closed <=> closer # "no"
  /\ cacheClosed <=> closer = "done"
  /\ closer \in {"udp", "udpwait", "wait", "done"} => listener # "open"
  /\ closer = "udpwait" => udpClosed
  /\ closer \in {"wait", "done"} =>
       udp # "serving" /\ (udp # "none" => udpClosed)
  /\ closer = "done" => \A c \in Conns : handler[c] = "none"

\* Copies run during the relay only, and what closes a socket has an excuse.
RelayInv ==
  /\ \A c \in Conns, d \in Directions :
       /\ handler[c] \in Early \cup {"none"} => copy[c][d] = "off"
       /\ handler[c] \in Over => copy[c][d] \in {"off", "joined"}
       /\ copy[c][d] = "failed" => c \in excuse
  /\ \A c \in Conns :
       /\ handler[c] = "none" => c \notin shut
       /\ c \in shut => handler[c] \in Over \/ c \in excuse

IInv ==
  /\ Types /\ TalkTypes /\ CountInv /\ GrantInv /\ OwnerInv /\ CloseInv
  /\ RelayInv

-----------------------------------------------------------------------------
(* Which part of the state a step leaves alone *)

ServerStep ==
  ClockTicks \/ Serve \/ AttachUDP \/ ServeUDP \/ Close \/ CloserStep

\* The server's own steps do not touch the connections.
LEMMA ServerSteps ==
  ASSUME ServerStep
  PROVE  UNCHANGED <<shared, conns, spent, dialled, stamp>>
BY DEF ServerStep, ClockTicks, Serve, AttachUDP, ServeUDP, Close, CloserStep,
       CloseCancels, CloseListeners, CloseUDP, CloseUDPDone, CloseReplays,
       cache, clocks

RelayStep(c) ==
  \/ CallerEnds(c) \/ AfterFunc(c)
  \/ \E d \in Directions : Join(c, d) \/ CopyEnds(c, d) \/ CopyFails(c, d)

\* What happens beside the handler moves no connection.
LEMMA RelaySteps ==
  ASSUME NEW c \in Conns, RelayStep(c)
  PROVE  UNCHANGED <<server, shared, handler, talk, slot, cache, clocks>>
BY DEF RelayStep, CallerEnds, AfterFunc, Join, CopyEnds, CopyFails

\* Every step of the specification is one of these.
LEMMA NextCases ==
  ASSUME ServerNext
  PROVE  \/ ServerStep
         \/ \E c \in Conns :
              \/ \E h \in Hellos : admitConnection(c, h)
              \/ ReadHello(c) \/ CheckNonce(c) \/ ReadFrame(c)
              \/ \E now \in begun[c]..wall : Accept(c, now)
              \/ Reply(c) \/ Dial(c) \/ WritePayload(c) \/ HandleFails(c)
              \/ RelayReturns(c) \/ Leave(c) \/ Done(c) \/ Abort(c)
              \/ RelayStep(c) \/ \E d \in Directions : Result(c, d)
BY DEF ServerNext, HandlerStep, ServerStep, RelayStep

-----------------------------------------------------------------------------
(* Types *)

LEMMA TypesInit == ServerInit => Types
<1> SUFFICES ASSUME ServerInit
             PROVE  Types
  OBVIOUS
<1>1. handler \in [Conns -> Labels]
  BY DEF ServerInit, Labels
<1>2. copy \in [Conns -> [Directions ->
                  {"off", "copy", "clean", "failed", "joined"}]]
  BY DEF ServerInit
<1>3. /\ closed \in BOOLEAN /\ cancelled \in BOOLEAN
      /\ udpClosed \in BOOLEAN /\ cacheClosed \in BOOLEAN
  BY DEF ServerInit
<1> QED
  BY SMT, <1>1, <1>2, <1>3 DEF ServerInit, Types

LEMMA TypesStep ==
  ASSUME Types, ServerNext
  PROVE  Types'
<1> USE DEF Types
<1>1. ASSUME ServerStep
      PROVE  Types'
  <2> UNCHANGED <<shared, handler, slot, relay>>
    BY <1>1, ServerSteps DEF conns
  <2>1. CASE ClockTicks \/ Serve \/ AttachUDP \/ ServeUDP
    BY <2>1, ZenonT(60) DEF ClockTicks, Serve, AttachUDP, ServeUDP, server,
       shared, relay, cache
  <2>2. CASE Close \/ CloseCancels \/ CloseListeners
    BY <2>2, ZenonT(60) DEF Close, CloseCancels, CloseListeners, shared, relay,
       cache
  <2>3. CASE CloseUDP \/ CloseUDPDone
    BY <2>3 DEF CloseUDP, CloseUDPDone, shared, relay, cache
  <2>4. CASE CloseReplays
    BY <2>4 DEF CloseReplays, shared, relay
  <2> QED
    BY <1>1, <2>1, <2>2, <2>3, <2>4 DEF ServerStep, CloserStep
<1>2. ASSUME NEW c \in Conns, NEW h \in Hellos, admitConnection(c, h)
      PROVE  Types'
  BY SMT, <1>2 DEF admitConnection, Goto, Labels, server, relay, cache
<1>3. ASSUME NEW c \in Conns, ReadHello(c) \/ CheckNonce(c) \/ ReadFrame(c)
      PROVE  Types'
  BY SMT, <1>3 DEF ReadHello, CheckNonce, ReadFrame, Advance, Goto, Labels,
     server, shared, relay, cache
<1>4. ASSUME NEW c \in Conns, NEW now, Accept(c, now)
      PROVE  Types'
  BY <1>4 DEF Accept, Goto, Labels, server, shared, relay
<1>5. ASSUME NEW c \in Conns, Reply(c)
      PROVE  Types'
  BY SMT, <1>5 DEF Reply, ReleaseHandshake, Goto, Labels, server, relay, cache
<1>6. ASSUME NEW c \in Conns, Dial(c) \/ WritePayload(c)
      PROVE  Types'
  <2>1. UNCHANGED <<server, shared, slot, ended, shut, excuse, cacheClosed>>
    BY <1>6 DEF Dial, WritePayload, cache
  <2>2. /\ handler' \in [Conns -> Labels]
        /\ copy' \in [Conns -> [Directions ->
                        {"off", "copy", "clean", "failed", "joined"}]]
    BY SMT, <1>6 DEF Dial, WritePayload, StartRelay, Goto, Labels, Directions
  <2> QED
    BY <2>1, <2>2 DEF server, shared
<1>7. ASSUME NEW c \in Conns, HandleFails(c)
      PROVE  Types'
  BY SMT, <1>7 DEF HandleFails, ReleaseHandshake, Goto, Labels, server, cache
<1>8. ASSUME NEW c \in Conns, NEW d \in Directions, Result(c, d)
      PROVE  Types'
  BY ZenonT(60),
     <1>8 DEF Result, Goto, Labels, Directions, server, shared, cache
<1>9. ASSUME NEW c \in Conns, RelayReturns(c) \/ Abort(c)
      PROVE  Types'
  BY SMT, <1>9 DEF RelayReturns, Abort, Goto, Labels, server, shared, cache
<1>10. ASSUME NEW c \in Conns, Leave(c) \/ Done(c)
       PROVE  Types'
  <2>1. CASE Leave(c)
    BY SMT, <2>1 DEF Leave, Goto, Labels, server, relay, cache
  <2>2. CASE Done(c)
    BY SMT, <2>2 DEF Done, Goto, Labels, Directions, server, cache
  <2> QED
    BY <1>10, <2>1, <2>2
<1>11. ASSUME NEW c \in Conns, RelayStep(c)
       PROVE  Types'
  <2>1. /\ ended' \subseteq Conns /\ shut' \subseteq Conns
        /\ excuse' \subseteq Conns
    BY <1>11 DEF RelayStep, CallerEnds, AfterFunc, Join, CopyEnds, CopyFails
  <2>2. copy' \in [Conns -> [Directions ->
                     {"off", "copy", "clean", "failed", "joined"}]]
    BY SMT,
       <1>11 DEF RelayStep, CallerEnds, AfterFunc, Join, CopyEnds, CopyFails,
       Directions
  <2> QED
    BY ZenonT(60), <1>11, <2>1, <2>2, RelaySteps DEF server, shared, cache
<1> QED
  BY <1>1, <1>2, <1>3, <1>4, <1>5, <1>6, <1>7, <1>8, <1>9, <1>10, <1>11,
     NextCases

-----------------------------------------------------------------------------
(* Hellos and grants *)

\* What replays.Accept grants.
Granting(c, g) ==
  /\ g.n = hello[c] /\ g.nth = Cardinality(Of(hello[c]))
  /\ \A h \in spent : h.n = hello[c] => Replays!FarApart(g, h)
  /\ spent' = spent \cup {g} /\ grant' = [grant EXCEPT ![c] = g]
  /\ UNCHANGED <<hello, begun, dialled, wall, stamp>>

LEMMA Granted ==
  ASSUME Types, TalkTypes, NEW c \in Conns, NEW now \in begun[c]..wall,
         Accept(c, now)
  PROVE  \E g \in Replays!Grants : Granting(c, g)
<1> DEFINE g == Replays!NewGrant(hello[c], now, wall)
<1>1. \A S : Replays!Cardinality(S) = Cardinality(S)
  BY DEF Replays!Cardinality, Cardinality
<1>2. hello[c] \in Hellos
  BY DEF Accept, TalkTypes
<1>3. now \in Nat /\ wall \in Nat
  BY SMT DEF TalkTypes
<1>4. Cardinality(Of(hello[c])) \in Nat
  BY FS_Subset, FS_CardinalityType DEF Of, TalkTypes
<1>5. g = [n |-> hello[c], now |-> now, at |-> wall,
           nth |-> Cardinality(Of(hello[c]))]
  BY <1>1 DEF Replays!NewGrant, Of
<1>6. /\ g \in Replays!Grants
      /\ g.n = hello[c] /\ g.nth = Cardinality(Of(hello[c]))
  BY SMTT(30), <1>2, <1>3, <1>4, <1>5 DEF Replays!Grants
<1>7. /\ \A h \in spent : h.n = hello[c] => Replays!FarApart(g, h)
      /\ spent' = spent \cup {g} /\ wall' = wall
  BY DEF Accept, Replays!Grant
<1>8. /\ grant' = [grant EXCEPT ![c] = g]
      /\ UNCHANGED <<hello, begun, dialled, stamp>>
  BY DEF Accept
<1> HIDE DEF g
<1> QED
  BY <1>6, <1>7, <1>8 DEF Granting

LEMMA TalkInit == ServerInit => TalkTypes
<1> SUFFICES ASSUME ServerInit
             PROVE  TalkTypes
  OBVIOUS
<1>1. begun \in [Conns -> Nat] /\ wall \in Nat
  BY SMT DEF ServerInit
<1>2. stamp \in [Hellos -> Nat]
  <2>1. stamp \in [Hellos -> Stamps] /\ Stamps \subseteq Nat
    BY ServerAssumption DEF ServerInit
  <2> QED
    BY <2>1
<1>3. /\ hello \in [Conns -> Hellos \cup {None}]
      /\ grant \in [Conns -> Replays!Grants \cup {None}]
      /\ \A c \in Conns : handler[c] = "none"
  BY DEF ServerInit
<1>4. spent \subseteq Replays!Grants /\ IsFiniteSet(spent)
  BY FS_EmptySet DEF ServerInit
<1> QED
  BY <1>1, <1>2, <1>3, <1>4 DEF TalkTypes

LEMMA TalkStep ==
  ASSUME Types, TalkTypes, ServerNext
  PROVE  TalkTypes'
<1> USE DEF TalkTypes
<1>1. CASE ServerStep
  <2>1. UNCHANGED <<handler, talk, spent, dialled, stamp>>
    BY <1>1, ServerSteps DEF conns
  <2>2. wall' \in Nat
    <3>1. CASE ClockTicks
      BY SMT, <3>1 DEF ClockTicks
    <3>2. CASE ~ClockTicks
      BY <1>1, <3>2 DEF ServerStep, Serve, AttachUDP, ServeUDP, Close,
         CloserStep, CloseCancels, CloseListeners, CloseUDP, CloseUDPDone,
         CloseReplays, clocks
    <3> QED
      BY <3>1, <3>2
  <2> QED
    BY <2>1, <2>2 DEF talk
<1>2. ASSUME NEW c \in Conns, NEW h \in Hellos, admitConnection(c, h)
      PROVE  TalkTypes'
  <2>1. /\ hello' = [hello EXCEPT ![c] = h]
        /\ begun' = [begun EXCEPT ![c] = wall]
        /\ UNCHANGED <<grant, spent, dialled, wall, stamp>>
        /\ \A b \in Conns : b # c => handler'[b] = handler[b]
    BY <1>2 DEF admitConnection, cache, clocks, Goto, Types
  <2> QED
    BY <2>1
<1>3. ASSUME NEW c \in Conns, RelayStep(c)
      PROVE  TalkTypes'
  BY <1>3, RelaySteps DEF talk, cache, clocks
<1>4. ASSUME NEW c \in Conns,
             \/ ReadHello(c) \/ CheckNonce(c) \/ ReadFrame(c) \/ Reply(c)
             \/ Dial(c) \/ WritePayload(c) \/ HandleFails(c) \/ RelayReturns(c)
             \/ Leave(c) \/ Abort(c) \/ \E d \in Directions : Result(c, d)
      PROVE  TalkTypes'
  <2>1. /\ hello' = hello /\ spent' = spent /\ wall' = wall /\ stamp' = stamp
        /\ begun' = begun \/ begun' = [begun EXCEPT ![c] = 0]
        /\ grant' = grant \/ grant' = [grant EXCEPT ![c] = None]
    BY <1>4 DEF ReadHello, CheckNonce, ReadFrame, Reply, Dial, WritePayload,
       HandleFails, RelayReturns, Leave, Abort, Result, Advance, talk, cache,
       clocks
  <2>2. /\ handler[c] # "none"
        /\ \A b \in Conns : b # c => handler'[b] = handler[b]
    BY <1>4 DEF ReadHello, CheckNonce, ReadFrame, Reply, Dial, WritePayload,
       HandleFails, RelayReturns, Leave, Abort, Result, Advance, StartRelay,
       Goto, Types
  <2>3. begun' \in [Conns -> Nat]
    BY SMT, <2>1
  <2>4. grant' \in [Conns -> Replays!Grants \cup {None}]
    BY <2>1
  <2> QED
    BY <2>1, <2>2, <2>3, <2>4
<1>5. ASSUME NEW c \in Conns, NEW now \in begun[c]..wall, Accept(c, now)
      PROVE  TalkTypes'
  <2>1. PICK g \in Replays!Grants : Granting(c, g)
    BY <1>5, Granted
  <2>2. IsFiniteSet(spent')
    BY <2>1, FS_AddElement DEF Granting
  <2>3. /\ handler[c] # "none"
        /\ \A b \in Conns : b # c => handler'[b] = handler[b]
    BY <1>5 DEF Accept, Goto, Types
  <2> QED
    BY <2>1, <2>2, <2>3 DEF Granting
<1>6. ASSUME NEW c \in Conns, Done(c)
      PROVE  TalkTypes'
  <2>1. /\ hello' = [hello EXCEPT ![c] = None]
        /\ handler' = [handler EXCEPT ![c] = "none"]
        /\ UNCHANGED <<begun, grant, spent, dialled, wall, stamp>>
    BY <1>6 DEF Done, Goto, cache, clocks
  <2> QED
    BY <2>1 DEF Types
<1> QED
  BY <1>1, <1>2, <1>3, <1>4, <1>5, <1>6, NextCases

-----------------------------------------------------------------------------
(* Counters *)

LEMMA Grow ==
  ASSUME NEW S, NEW x, IsFiniteSet(S), x \notin S
  PROVE  /\ Cardinality(S) \in Nat
         /\ Cardinality(S \cup {x}) = Cardinality(S) + 1
BY FS_AddElement, FS_CardinalityType

LEMMA Shrink ==
  ASSUME NEW S, NEW x, IsFiniteSet(S), x \in S
  PROVE  /\ Cardinality(S) \in Nat /\ Cardinality(S) > 0
         /\ Cardinality(S \ {x}) = Cardinality(S) - 1
<1>1. Cardinality(S) \in Nat
  BY FS_CardinalityType
<1>2. Cardinality(S \ {x}) = Cardinality(S) - 1
  BY FS_RemoveElement
<1>3. Cardinality(S \ {x}) \in Nat
  BY FS_RemoveElement, FS_CardinalityType
<1> QED
  BY SMT, <1>1, <1>2, <1>3

\* A set of connections is finite.
LEMMA FiniteConns ==
  ASSUME NEW S \in SUBSET Conns
  PROVE  IsFiniteSet(S)
BY ServerAssumption, FS_Subset

LEMMA CountInit == ServerInit => CountInv
<1> SUFFICES ASSUME ServerInit
             PROVE  CountInv
  OBVIOUS
<1>1. Running = {} /\ Counted = {} /\ slot = {}
  BY DEF ServerInit, Running, Counted
<1>2. Cardinality({}) = 0
  BY FS_EmptySet
<1> QED
  BY SMT, <1>1, <1>2, ServerAssumption DEF ServerInit, CountInv, Shaking

\* A connection gives its slot up if it has one.
LEMMA SlotReleased ==
  ASSUME Types, CountInv, NEW c \in Conns, ReleaseHandshake(c)
  PROVE  /\ handshakeSem' = Cardinality(slot') /\ handshakeSem' <= handshakeSem
         /\ slot' = slot \ {c}
<1>1. IsFiniteSet(slot)
  BY FiniteConns DEF Types
<1>2. CASE c \in slot
  BY SMTT(30), <1>1, <1>2, Shrink DEF ReleaseHandshake, CountInv, Types
<1>3. CASE c \notin slot
  <2>1. slot \ {c} = slot
    BY <1>3
  <2>2. handshakeSem' = handshakeSem /\ slot' = slot \ {c}
    BY <1>3 DEF ReleaseHandshake
  <2>3. handshakeSem' = Cardinality(slot')
    BY <2>1, <2>2 DEF CountInv
  <2>4. handshakeSem' <= handshakeSem
    BY SMT, <2>2 DEF Types
  <2> QED
    BY <2>3, <2>4, <2>2
<1> QED
  BY <1>2, <1>3

\* The sets of connections after c moved to another label.
LEMMA Moved ==
  ASSUME Types, NEW c \in Conns, NEW label, Goto(c, label)
  PROVE  /\ label # "none" /\ handler[c] # "none" => Running' = Running
         /\ label # "none" /\ handler[c] = "none" =>
              c \notin Running /\ Running' = Running \cup {c}
         /\ label = "none" /\ handler[c] # "none" =>
              c \in Running /\ Running' = Running \ {c}
         /\ {label, handler[c]} \cap {"none", "done"} = {} =>
              Counted' = Counted
         /\ label \notin {"none", "done"} /\ handler[c] = "none" =>
              c \notin Counted /\ Counted' = Counted \cup {c}
         /\ label = "done" /\ handler[c] \notin {"none", "done"} =>
              c \in Counted /\ Counted' = Counted \ {c}
         /\ label = "none" /\ handler[c] = "done" => Counted' = Counted
         /\ handler'[c] = label
         /\ \A b \in Conns : b # c => handler'[b] = handler[b]
<1>1. handler'[c] = label /\ \A b \in Conns : b # c => handler'[b] = handler[b]
  BY DEF Goto, Types
<1> QED
  BY <1>1 DEF Running, Counted

LEMMA CountStep ==
  ASSUME Types, CountInv, ServerNext
  PROVE  CountInv'
<1>1. CASE ServerStep
  BY <1>1, ServerSteps DEF CountInv, Running, Counted, shared, conns
<1>2. ASSUME NEW c \in Conns, RelayStep(c)
      PROVE  CountInv'
  BY <1>2, RelaySteps DEF CountInv, Running, Counted, shared
<1>3. ASSUME NEW c \in Conns, NEW h \in Hellos, admitConnection(c, h)
      PROVE  CountInv'
  <2>1. Goto(c, "hello") /\ handler[c] = "none"
    BY <1>3 DEF admitConnection
  <2>2. c \notin Running /\ Running' = Running \cup {c}
    BY SMTT(30), <2>1, Moved
  <2>3. c \notin Counted /\ Counted' = Counted \cup {c}
    BY SMTT(30), <2>1, Moved
  <2>4. c \notin slot /\ slot' = slot \cup {c}
    BY <1>3, <2>1 DEF admitConnection, CountInv, Shaking
  <2>5. IsFiniteSet(Running) /\ IsFiniteSet(Counted) /\ IsFiniteSet(slot)
    BY FiniteConns DEF Running, Counted, Types
  <2>6. Cardinality(Running') = Cardinality(Running) + 1
    BY <2>2, <2>5, Grow
  <2>7. Cardinality(Counted') = Cardinality(Counted) + 1
    BY <2>3, <2>5, Grow
  <2>8. Cardinality(slot') = Cardinality(slot) + 1
    BY <2>4, <2>5, Grow
  <2>9. /\ activeConns' = activeConns + 1 /\ activeConns < MaxConns
        /\ handshakeSem' = handshakeSem + 1 /\ handshakeSem < MaxHandshakes
        /\ wg' = wg + 1
    BY <1>3 DEF admitConnection, Admits
  <2>10. \A b \in Conns : b \in slot' <=> handler'[b] \in Shaking
    BY <2>1, <2>4, Moved DEF CountInv, Shaking
  <2> QED
    BY SMTT(30), <2>6, <2>7, <2>8, <2>9, <2>10, ServerAssumption
       DEF CountInv, Types
<1>4. ASSUME NEW c \in Conns, NEW label \in Labels, Goto(c, label),
             handler[c] \in Shaking <=> label \in Shaking,
             handler[c] \notin {"none", "done"}, label \notin {"none", "done"},
             UNCHANGED <<shared, slot>>
      PROVE  CountInv'
  <2>1. Running' = Running /\ Counted' = Counted
    BY <1>4, Moved
  <2>2. \A b \in Conns : b \in slot' <=> handler'[b] \in Shaking
    BY <1>4, Moved DEF CountInv
  <2> QED
    BY <1>4, <2>1, <2>2 DEF CountInv, shared
<1>5. ASSUME NEW c \in Conns, ReadHello(c) \/ CheckNonce(c) \/ ReadFrame(c)
      PROVE  CountInv'
  BY <1>4, <1>5 DEF ReadHello, CheckNonce, ReadFrame, Advance, Shaking, Labels
<1>6. ASSUME NEW c \in Conns,
             (\E now \in begun[c]..wall : Accept(c, now)) \/ Dial(c)
             \/ WritePayload(c)
      PROVE  CountInv'
  BY <1>4, <1>6 DEF Accept, Dial, WritePayload, StartRelay, Shaking, Labels
<1>7. ASSUME NEW c \in Conns, RelayReturns(c) \/ Abort(c)
      PROVE  CountInv'
  BY <1>4, <1>7 DEF RelayReturns, Abort, Shaking, Labels
<1>8. ASSUME NEW c \in Conns, NEW d \in Directions, Result(c, d)
      PROVE  CountInv'
  <2>1. CASE copy[c][d] = "failed"
    BY <1>4, <1>8, <2>1 DEF Result, Shaking, Labels
  <2>2. CASE copy[c][d] # "failed"
    BY <1>8, <2>2 DEF Result, CountInv, Running, Counted, shared
  <2> QED
    BY <2>1, <2>2
<1>9. ASSUME NEW c \in Conns, NEW label, Goto(c, label), ReleaseHandshake(c),
             label \in {"dial", "leave"}, handler[c] \in Early,
             UNCHANGED <<activeConns, wg>>
      PROVE  CountInv'
  <2>1. Running' = Running /\ Counted' = Counted
    BY <1>9, Moved DEF Early
  <2>2. \A b \in Conns : b \in slot' <=> handler'[b] \in Shaking
    BY ZenonT(60), <1>9, Moved, SlotReleased DEF CountInv, Shaking
  <2>3. handshakeSem' = Cardinality(slot') /\ handshakeSem' <= MaxHandshakes
    <3>1. handshakeSem' = Cardinality(slot') /\ handshakeSem' <= handshakeSem
      BY <1>9, SlotReleased
    <3>2. handshakeSem' \in Int /\ handshakeSem \in Int
      BY SMT, <1>9 DEF ReleaseHandshake, Types
    <3> QED
      BY SMT, <3>1, <3>2, ServerAssumption DEF CountInv
  <2> QED
    BY <1>9, <2>1, <2>2, <2>3 DEF CountInv
<1>10. ASSUME NEW c \in Conns, Reply(c) \/ HandleFails(c)
       PROVE  CountInv'
  BY <1>9, <1>10 DEF Reply, HandleFails, Early
<1>11. ASSUME NEW c \in Conns, Leave(c)
       PROVE  CountInv'
  <2>1. Goto(c, "done") /\ handler[c] = "leave"
    BY <1>11 DEF Leave
  <2>2. Running' = Running /\ c \in Counted /\ Counted' = Counted \ {c}
    BY <2>1, Moved
  <2>3. IsFiniteSet(Counted)
    BY FiniteConns DEF Counted
  <2>4. Cardinality(Counted') = Cardinality(Counted) - 1
    BY <2>2, <2>3, Shrink
  <2>5. \A b \in Conns : b \in slot' <=> handler'[b] \in Shaking
    BY <1>11, <2>1, Moved DEF CountInv, Shaking, Leave
  <2> QED
    BY SMTT(30), <1>11, <2>2, <2>4, <2>5, ServerAssumption
       DEF Leave, CountInv, Types
<1>12. ASSUME NEW c \in Conns, Done(c)
       PROVE  CountInv'
  <2>1. Goto(c, "none") /\ handler[c] = "done"
    BY <1>12 DEF Done
  <2>2. Counted' = Counted /\ c \in Running /\ Running' = Running \ {c}
    BY <2>1, Moved
  <2>3. IsFiniteSet(Running)
    BY FiniteConns DEF Running
  <2>4. Cardinality(Running') = Cardinality(Running) - 1
    BY <2>2, <2>3, Shrink
  <2>5. \A b \in Conns : b \in slot' <=> handler'[b] \in Shaking
    BY <1>12, <2>1, Moved DEF CountInv, Shaking, Done
  <2> QED
    BY <1>12, <2>2, <2>4, <2>5 DEF Done, CountInv, Types
<1> QED
  BY <1>1, <1>2, <1>3, <1>5, <1>6, <1>7, <1>8, <1>10, <1>11, <1>12, NextCases

-----------------------------------------------------------------------------
(* Ownership *)

LEMMA OwnerInit == ServerInit => GrantInv /\ OwnerInv
BY DEF ServerInit, GrantInv, OwnerInv, Owners

\* A new grant is none of the earlier ones.
LEMMA NewNumber ==
  ASSUME TalkTypes, GrantInv, NEW c \in Conns, NEW g, Granting(c, g)
  PROVE  g \notin spent
<1> SUFFICES ASSUME g \in spent
             PROVE  FALSE
  OBVIOUS
<1>1. g.nth < Cardinality(Of(hello[c])) /\ g.nth = Cardinality(Of(hello[c]))
  BY DEF GrantInv, Granting
<1>2. Cardinality(Of(hello[c])) \in Nat
  BY FS_Subset, FS_CardinalityType DEF Of, TalkTypes
<1> QED
  BY SMT, <1>1, <1>2

LEMMA FarBoth ==
  ASSUME NEW g, NEW h, Replays!FarApart(g, h)
  PROVE  Replays!FarApart(h, g)
BY DEF Replays!FarApart

\* The numbering of the grants goes on with a new one.
LEMMA Numbered ==
  ASSUME TalkTypes, GrantInv, NEW c \in Conns, NEW g, Granting(c, g)
  PROVE  \A h \in spent' : h.nth < Cardinality(Of(h.n)')
<1> SUFFICES ASSUME NEW h \in spent'
             PROVE  h.nth < Cardinality(Of(h.n)')
  OBVIOUS
<1>1. g \notin Of(g.n) /\ g.n = hello[c]
  BY NewNumber DEF Of, Granting
<1>2. IsFiniteSet(Of(g.n)) /\ Cardinality(Of(g.n)) \in Nat
  BY FS_Subset, FS_CardinalityType DEF Of, TalkTypes
<1>3. CASE h.n = g.n
  <2>1. Of(h.n)' = Of(g.n) \cup {g}
    BY <1>3 DEF Of, Granting
  <2>2. Cardinality(Of(h.n)') = Cardinality(Of(g.n)) + 1
    BY ZenonT(60), <1>1, <1>2, <2>1, FS_AddElement
  <2>3. CASE h = g
    BY SMTT(30), <1>1, <1>2, <2>2, <2>3 DEF Granting
  <2>4. CASE h # g
    <3>1. h \in spent /\ h.nth < Cardinality(Of(g.n)) /\ h.nth \in Nat
      BY SMT, <1>3, <2>4 DEF Granting, GrantInv, TalkTypes, Replays!Grants
    <3> QED
      BY SMTT(30), <1>2, <2>2, <3>1
  <2> QED
    BY <2>3, <2>4
<1>4. CASE h.n # g.n
  <2>1. Of(h.n)' = Of(h.n) /\ h \in spent
    BY <1>4 DEF Of, Granting
  <2> QED
    BY <2>1 DEF GrantInv
<1> QED
  BY <1>3, <1>4

LEMMA OwnerStep ==
  ASSUME Types, TalkTypes, GrantInv, OwnerInv, ServerNext
  PROVE  GrantInv' /\ OwnerInv'
<1> DEFINE Owner(c) == handler[c] \in Owners
<1>1. ASSUME UNCHANGED <<spent, dialled>>,
             \A b \in Conns : Owner(b)' =>
               Owner(b) /\ grant'[b] = grant[b] /\ hello'[b] = hello[b]
      PROVE  GrantInv' /\ OwnerInv'
  <2>1. GrantInv'
    BY <1>1 DEF GrantInv, Of
  <2>2. OwnerInv'
    BY <1>1 DEF OwnerInv
  <2> QED
    BY <2>1, <2>2
<1>2. CASE ServerStep
  BY <1>1, <1>2, ServerSteps DEF conns, talk
<1>3. ASSUME NEW c \in Conns, RelayStep(c)
      PROVE  GrantInv' /\ OwnerInv'
  BY <1>1, <1>3, RelaySteps DEF talk, cache
<1>4. ASSUME NEW c \in Conns, UNCHANGED <<spent, dialled>>,
             \A b \in Conns \ {c} : /\ handler'[b] = handler[b]
                                    /\ hello'[b] = hello[b]
                                    /\ grant'[b] = grant[b],
             handler'[c] \notin Owners
      PROVE  GrantInv' /\ OwnerInv'
  BY <1>1, <1>4
<1>5. ASSUME NEW c \in Conns, NEW h \in Hellos, admitConnection(c, h)
      PROVE  GrantInv' /\ OwnerInv'
  BY <1>4, <1>5 DEF admitConnection, Goto, cache, Types, TalkTypes, Owners
<1>6. ASSUME NEW c \in Conns,
             ReadHello(c) \/ CheckNonce(c) \/ ReadFrame(c) \/ WritePayload(c)
      PROVE  GrantInv' /\ OwnerInv'
  BY <1>4, <1>6 DEF ReadHello, CheckNonce, ReadFrame, WritePayload, StartRelay,
     Advance, Goto, talk, cache, Types, Owners
<1>7. ASSUME NEW c \in Conns, RelayReturns(c) \/ Leave(c) \/ Abort(c)
      PROVE  GrantInv' /\ OwnerInv'
  BY <1>4, <1>7 DEF RelayReturns, Leave, Abort, Goto, talk, cache, Types, Owners
<1>8. ASSUME NEW c \in Conns, HandleFails(c) \/ Done(c)
      PROVE  GrantInv' /\ OwnerInv'
  BY ZenonT(60), <1>4, <1>8 DEF HandleFails, Done, Goto, cache, Types,
     TalkTypes, Owners
<1>9. ASSUME NEW c \in Conns, NEW d \in Directions, Result(c, d)
      PROVE  GrantInv' /\ OwnerInv'
  BY <1>4, <1>9 DEF Result, Goto, talk, cache, Types, Owners
<1>10. ASSUME NEW c \in Conns, Reply(c)
       PROVE  GrantInv' /\ OwnerInv'
  BY <1>1, <1>10 DEF Reply, Goto, cache, Types, Owners
<1>11. ASSUME NEW c \in Conns, NEW now \in begun[c]..wall, Accept(c, now)
       PROVE  GrantInv' /\ OwnerInv'
  <2>1. PICK g \in Replays!Grants : Granting(c, g)
    BY <1>11, Granted
  <2>2. g \notin spent
    BY <2>1, NewNumber
  <2>3. GrantInv'
    <3>1. \A h \in spent : h.n = g.n =>
            Replays!FarApart(g, h) /\ Replays!FarApart(h, g)
      BY <2>1, FarBoth DEF Granting
    <3>2. \A e, h \in spent' : e.n = h.n /\ e # h => Replays!FarApart(e, h)
      BY ZenonT(60), <2>1, <3>1 DEF Granting, GrantInv
    <3> QED
      BY <2>1, <3>2, Numbered DEF Granting, GrantInv
  <2>4. /\ handler' = [handler EXCEPT ![c] = "reply"]
        /\ grant' = [grant EXCEPT ![c] = g] /\ spent' = spent \cup {g}
        /\ UNCHANGED <<hello, dialled>> /\ g.n = hello[c]
    BY <1>11, <2>1 DEF Accept, Goto, Granting
  <2>5. \A b \in Conns \ {c} : Owner(b)' =>
          /\ Owner(b) /\ grant'[b] = grant[b] /\ grant[b] # g
    BY <2>2, <2>4 DEF Types, TalkTypes, OwnerInv
  <2>6. grant'[c] = g /\ g \notin dialled
    BY <2>2, <2>4 DEF TalkTypes, GrantInv
  <2>7. \A b \in Conns : Owner(b)' =>
          /\ grant'[b] \in spent' /\ grant'[b] \notin dialled'
          /\ grant'[b].n = hello'[b]
    <3> /\ spent' = spent \cup {g} /\ hello' = hello /\ dialled' = dialled
        /\ g.n = hello[c]
      BY <2>4
    <3>1. /\ grant'[c] \in spent' /\ grant'[c] \notin dialled'
          /\ grant'[c].n = hello'[c]
      BY <2>6
    <3>2. \A b \in Conns \ {c} : Owner(b)' =>
            /\ grant'[b] \in spent' /\ grant'[b] \notin dialled'
            /\ grant'[b].n = hello'[b]
      BY <2>5 DEF OwnerInv
    <3> QED
      BY <3>1, <3>2
  <2>8. \A a, b \in Conns :
          Owner(a)' /\ Owner(b)' /\ grant'[a] = grant'[b] => a = b
    BY <2>5, <2>6 DEF OwnerInv
  <2>9. OwnerInv'
    BY <2>7, <2>8 DEF OwnerInv
  <2> QED
    BY <2>3, <2>9
<1>12. ASSUME NEW c \in Conns, Dial(c)
       PROVE  GrantInv' /\ OwnerInv'
  <2>1. /\ Owner(c) /\ handler'[c] \notin Owners /\ grant[c] \in spent
        /\ UNCHANGED <<hello, spent>> /\ dialled' = dialled \cup {grant[c]}
        /\ \A b \in Conns \ {c} : /\ handler'[b] = handler[b]
                                  /\ grant'[b] = grant[b]
    BY <1>12 DEF Dial, StartRelay, Goto, Owners, OwnerInv, Types, TalkTypes
  <2>2. GrantInv'
    BY <2>1 DEF GrantInv, Of
  <2>3. \A b \in Conns : Owner(b)' =>
          b # c /\ Owner(b) /\ grant[b] # grant[c] /\ grant'[b] = grant[b]
    BY <2>1 DEF OwnerInv
  <2>4. OwnerInv'
    BY <2>1, <2>3 DEF OwnerInv
  <2> QED
    BY <2>2, <2>4
<1> QED
  BY <1>2, <1>3, <1>5, <1>6, <1>7, <1>8, <1>9, <1>10, <1>11, <1>12, NextCases

-----------------------------------------------------------------------------
(* Close *)

LEMMA CloseInit == ServerInit => CloseInv
BY DEF ServerInit, CloseInv

LEMMA CloseStep ==
  ASSUME Types, CountInv, CloseInv, ServerNext
  PROVE  CloseInv'
<1>0. CASE ClockTicks
  BY <1>0 DEF ClockTicks, server, conns, cache, CloseInv
<1>1. CASE Serve
  BY <1>1 DEF Serve, conns, cache, CloseInv
<1>2. CASE AttachUDP \/ ServeUDP
  BY SMTT(30), <1>2 DEF AttachUDP, ServeUDP, conns, cache, CloseInv,
     Types
<1>3. CASE Close \/ CloseCancels \/ CloseListeners
  BY SMTT(30), <1>3 DEF Close, CloseCancels, CloseListeners, conns, cache,
     CloseInv, Types
<1>4. CASE CloseUDP \/ CloseUDPDone
  BY SMTT(30), <1>4 DEF CloseUDP, CloseUDPDone, conns, cache, CloseInv,
     Types
<1>5. CASE CloseReplays
  <2>1. IsFiniteSet(Running) /\ Cardinality(Running) = 0
    BY <1>5, FiniteConns DEF CloseReplays, CountInv, Running
  <2>2. Running = {}
    BY <2>1, FS_EmptySet
  <2>3. \A c \in Conns : handler[c] = "none"
    BY <2>2 DEF Running
  <2> QED
    BY <1>5, <2>3 DEF CloseReplays, conns, CloseInv, Types
<1>6. ASSUME NEW c \in Conns, RelayStep(c)
      PROVE  CloseInv'
  BY SMTT(30), <1>6, RelaySteps DEF server, cache, CloseInv
<1>7. ASSUME NEW c \in Conns, NEW h \in Hellos, admitConnection(c, h)
      PROVE  CloseInv'
  BY <1>7 DEF admitConnection, Admits, server, cache, CloseInv
<1>8. ASSUME NEW c \in Conns, handler[c] # "none",
             UNCHANGED <<server, cacheClosed>>
      PROVE  CloseInv'
  BY <1>8 DEF server, CloseInv
<1>9. ASSUME NEW c \in Conns,
             \/ ReadHello(c) \/ CheckNonce(c) \/ ReadFrame(c)
             \/ \E now \in begun[c]..wall : Accept(c, now)
             \/ Reply(c) \/ Dial(c) \/ WritePayload(c) \/ HandleFails(c)
             \/ RelayReturns(c) \/ Leave(c) \/ Done(c) \/ Abort(c)
             \/ \E d \in Directions : Result(c, d)
      PROVE  CloseInv'
  <2>1. handler[c] # "none" /\ UNCHANGED <<server, cacheClosed>>
    BY <1>9 DEF ReadHello, CheckNonce, ReadFrame, Accept, Reply, Dial,
       WritePayload, HandleFails, RelayReturns, Leave, Done, Abort, Result,
       Advance, cache
  <2> QED
    BY <1>8, <2>1
<1> QED
  BY <1>0, <1>1, <1>2, <1>3, <1>4, <1>5, <1>6, <1>7, <1>9, NextCases
     DEF ServerStep, CloserStep

-----------------------------------------------------------------------------
(* The relay *)

\* RelayInv of one connection.
Fits(c) ==
  /\ \A d \in Directions :
       /\ handler[c] \in Early \cup {"none"} => copy[c][d] = "off"
       /\ handler[c] \in Over => copy[c][d] \in {"off", "joined"}
       /\ copy[c][d] = "failed" => c \in excuse
  /\ handler[c] = "none" => c \notin shut
  /\ c \in shut => handler[c] \in Over \/ c \in excuse

LEMMA RelayFits == RelayInv <=> \A c \in Conns : Fits(c)
BY DEF RelayInv, Fits

LEMMA RelayInit == ServerInit => RelayInv
BY ZenonT(120) DEF ServerInit, RelayInv, Over, Early

\* A step of one connection only needs that connection's part.
LEMMA Others ==
  ASSUME RelayInv, NEW c \in Conns, Fits(c)',
         \A b \in Conns \ {c} :
           /\ handler'[b] = handler[b] /\ copy'[b] = copy[b]
           /\ b \in shut' <=> b \in shut
           /\ b \in excuse' <=> b \in excuse
  PROVE  RelayInv'
<1>1. \A b \in Conns \ {c} : Fits(b)'
  BY SMT DEF RelayInv, Fits
<1> QED
  BY ZenonT(60), <1>1 DEF RelayInv, Fits

LEMMA RelayInvStep ==
  ASSUME Types, RelayInv, ServerNext
  PROVE  RelayInv'
<1>1. CASE ServerStep
  BY <1>1, ServerSteps DEF RelayInv, relay, conns
<1>2. ASSUME NEW c \in Conns, NEW h \in Hellos, admitConnection(c, h)
      PROVE  RelayInv'
  <2>1. Fits(c)'
    BY <1>2 DEF admitConnection, Goto, relay, Types, RelayInv, Fits, Early, Over
  <2> QED
    BY <1>2, <2>1, Others DEF admitConnection, Goto, relay, Types
<1>3. ASSUME NEW c \in Conns, NEW label \in Early, Goto(c, label),
             handler[c] \in Early, UNCHANGED relay
      PROVE  RelayInv'
  <2>1. Fits(c)'
    BY <1>3 DEF Goto, relay, Types, RelayInv, Fits, Early, Over
  <2> QED
    BY <1>3, <2>1, Others DEF Goto, relay, Types
<1>4. ASSUME NEW c \in Conns,
             \/ ReadHello(c) \/ CheckNonce(c) \/ ReadFrame(c)
             \/ (\E now \in begun[c]..wall : Accept(c, now)) \/ Reply(c)
      PROVE  RelayInv'
  BY <1>3, <1>4 DEF ReadHello, CheckNonce, ReadFrame, Accept, Reply, Advance,
     Early
<1>5. ASSUME NEW c \in Conns, Dial(c) \/ WritePayload(c)
      PROVE  RelayInv'
  <2>1. CASE StartRelay(c)
    <3>1. handler[c] \in Early /\ UNCHANGED <<shut, excuse>>
      BY <1>5 DEF Dial, WritePayload, Early
    <3>2. Fits(c)'
      BY <2>1, <3>1 DEF StartRelay, Goto, Types, RelayInv, Fits, Early, Over
    <3> QED
      BY <2>1, <3>1, <3>2, Others DEF StartRelay, Goto, Types
  <2>2. CASE ~StartRelay(c)
    <3>1. Goto(c, "payload") /\ handler[c] \in Early /\ UNCHANGED relay
      BY <1>5, <2>2 DEF Dial, WritePayload, Early, relay
    <3> QED
      BY <1>3, <3>1 DEF Early
  <2> QED
    BY <2>1, <2>2
<1>6. ASSUME NEW c \in Conns, HandleFails(c)
      PROVE  RelayInv'
  <2>1. Fits(c)'
    BY <1>6 DEF HandleFails, Goto, Types, RelayInv, Fits, Early, Over
  <2> QED
    BY <1>6, <2>1, Others DEF HandleFails, Goto, Types
<1>7. ASSUME NEW c \in Conns, RelayReturns(c)
      PROVE  RelayInv'
  <2>1. Fits(c)'
    BY <1>7 DEF RelayReturns, Goto, Types, RelayInv, Fits, Early, Over
  <2> QED
    BY <1>7, <2>1, Others DEF RelayReturns, Goto, Types
<1>8. ASSUME NEW c \in Conns, Abort(c)
      PROVE  RelayInv'
  <2>1. Fits(c)'
    BY <1>8 DEF Abort, Goto, Types, RelayInv, Fits, Early, Over
  <2> QED
    BY <1>8, <2>1, Others DEF Abort, Goto, Types
<1>9. ASSUME NEW c \in Conns, NEW d \in Directions, Result(c, d)
      PROVE  RelayInv'
  <2>1. /\ copy' = [copy EXCEPT ![c][d] = "joined"] /\ excuse' = excuse
        /\ handler[c] = "relay" /\ handler'[c] \in {"relay", "join"}
        /\ shut' = shut \/ (shut' = shut \cup {c} /\ copy[c][d] = "failed")
        /\ \A b \in Conns : b # c => handler'[b] = handler[b]
    BY <1>9 DEF Result, Goto, Types
  <2>2. \A e \in Directions : copy'[c][e] = "failed" => c \in excuse
    BY <2>1 DEF RelayInv, Types
  <2>3. c \in shut' => c \in excuse
    BY <2>1 DEF RelayInv, Over
  <2>4. Fits(c)'
    BY <2>1, <2>2, <2>3 DEF Fits, Early, Over
  <2> QED
    BY <2>1, <2>4, Others DEF Types
<1>10. ASSUME NEW c \in Conns, Leave(c)
       PROVE  RelayInv'
  <2>1. Fits(c)'
    BY <1>10 DEF Leave, Goto, relay, Types, RelayInv, Fits, Early, Over
  <2> QED
    BY <1>10, <2>1, Others DEF Leave, Goto, relay, Types
<1>11. ASSUME NEW c \in Conns, Done(c)
       PROVE  RelayInv'
  <2>1. Fits(c)'
    BY <1>11 DEF Done, Goto, Types, Fits, Early, Over
  <2> QED
    BY <1>11, <2>1, Others DEF Done, Goto, Types
<1>12. ASSUME NEW c \in Conns, CallerEnds(c) \/ AfterFunc(c)
       PROVE  RelayInv'
  <2>1. Fits(c)'
    BY <1>12 DEF CallerEnds, AfterFunc, Types, RelayInv, Fits
  <2> QED
    BY <1>12, <2>1, Others DEF CallerEnds, AfterFunc
<1>13. ASSUME NEW c \in Conns, NEW d \in Directions,
              Join(c, d) \/ CopyEnds(c, d) \/ CopyFails(c, d)
       PROVE  RelayInv'
  <2>1. /\ handler' = handler /\ shut' = shut
        /\ c \in excuse => c \in excuse'
        /\ copy[c][d] \in {"copy", "clean", "failed"}
        /\ copy'[c][d] \in {"clean", "failed", "joined"}
        /\ copy'[c][d] = "failed" => c \in excuse'
        /\ \A e \in Directions : e # d => copy'[c][e] = copy[c][e]
    BY ZenonT(60), <1>13 DEF Join, CopyEnds, CopyFails, Types
  <2>2. handler[c] \notin Early \cup Over \cup {"none"}
    BY <2>1 DEF RelayInv
  <2>3. Fits(c)'
    BY <2>1, <2>2 DEF RelayInv, Fits
  <2>4. \A b \in Conns \ {c} :
          copy'[b] = copy[b] /\ (b \in excuse' <=> b \in excuse)
    BY <1>13 DEF Join, CopyEnds, CopyFails, Types
  <2> QED
    BY <2>1, <2>3, <2>4, Others
<1> QED
  BY <1>1, <1>2, <1>4, <1>5, <1>6, <1>7, <1>8, <1>9, <1>10, <1>11, <1>12,
     <1>13, NextCases DEF RelayStep

-----------------------------------------------------------------------------
(* Theorems *)

LEMMA ServerStutters == IInv /\ UNCHANGED serverVars => IInv'
<1> SUFFICES ASSUME IInv, UNCHANGED serverVars
             PROVE  IInv'
  OBVIOUS
<1> USE DEF IInv, serverVars, server, shared, conns, talk, relay, cache, clocks
<1>1. Types'
  BY SMT DEF Types
<1>2. TalkTypes'
  BY SMT DEF TalkTypes
<1>3. CountInv'
  BY DEF CountInv, Running, Counted
<1>4. GrantInv' /\ OwnerInv'
  BY DEF GrantInv, Of, OwnerInv
<1>5. CloseInv' /\ RelayInv'
  BY SMT DEF CloseInv, RelayInv
<1> QED
  BY <1>1, <1>2, <1>3, <1>4, <1>5

\* The inductive invariant of the server: its counters count connections, one
\* connection owns a grant, Close has got as far as its progress says, and
\* sockets are closed for a reason.
THEOREM ServerInvariant == ServerSpec => []IInv
<1>1. ServerInit => IInv
  BY TypesInit, TalkInit, CountInit, OwnerInit, CloseInit, RelayInit DEF IInv
<1>2. IInv /\ [ServerNext]_serverVars => IInv'
  <2>1. IInv /\ ServerNext => IInv'
    BY TypesStep, TalkStep, CountStep, OwnerStep, CloseStep, RelayInvStep
       DEF IInv
  <2> QED
    BY <2>1, ServerStutters
<1> QED
  BY <1>1, <1>2, PTL DEF ServerSpec

\* The limits on connections and handshakes are kept and the WaitGroup never
\* goes below zero, for any limits.
THEOREM ServerTypes == ServerSpec => []ServerTypeOK
<1>1. IInv => ServerTypeOK
  <2> SUFFICES ASSUME IInv
               PROVE  ServerTypeOK
    OBVIOUS
  <2>1. IsFiniteSet(slot) /\ IsFiniteSet(Counted) /\ IsFiniteSet(Running)
    BY FiniteConns DEF IInv, Types, Counted, Running
  <2>2. /\ Cardinality(slot) \in Nat /\ Cardinality(Counted) \in Nat
        /\ Cardinality(Running) \in Nat
    BY <2>1, FS_CardinalityType
  <2>3. activeConns \in Nat /\ handshakeSem \in Nat /\ wg \in Nat
    BY <2>2 DEF IInv, CountInv
  <2>4. activeConns \in 0..MaxConns /\ handshakeSem \in 0..MaxHandshakes
    BY SMTT(30), <2>3, ServerAssumption DEF IInv, CountInv
  <2> QED
    BY <2>3, <2>4 DEF IInv, Types, TalkTypes, GrantInv, ServerTypeOK
<1> QED
  BY <1>1, ServerInvariant, PTL

\* Every way out of handleConn gives back the connection's token of the
\* handshake semaphore, and none gives back another's.
THEOREM ServerSlots == ServerSpec => []SlotsExact
<1>1. IInv => SlotsExact
  BY DEF IInv, CountInv, SlotsExact, Shaking
<1> QED
  BY <1>1, ServerInvariant, PTL

\* However the connections that present a hello overlap, and however late one
\* comes, each that dials has a grant of its own, and two reach a target only if
\* one was accepted when the record of the other had run out, for any life of a
\* record and any clock.
THEOREM ServerOnce == ServerSpec => []OncePerRecord
<1>1. IInv => OncePerRecord
  <2> SUFFICES ASSUME IInv
               PROVE  OncePerRecord
    OBVIOUS
  <2>1. \A g, h \in dialled : g.n = h.n /\ g # h => Replays!FarApart(g, h)
    BY DEF IInv, GrantInv
  <2>2. \A c \in Conns : handler[c] \in {"reply", "dial"} =>
          /\ grant[c].n = hello[c] /\ grant[c] \notin dialled
          /\ \A b \in Conns \ {c} :
               handler[b] \in {"reply", "dial"} => grant[b] # grant[c]
    BY DEF IInv, OwnerInv, Owners
  <2> QED
    BY <2>1, <2>2 DEF OncePerRecord
<1> QED
  BY <1>1, ServerInvariant, PTL

\* When Close gives up the replay cache nothing that uses it is left, however
\* many connections raced with it.
THEOREM ServerSealed == ServerSpec => []SealedClose
<1>1. IInv => SealedClose
  <2> SUFFICES ASSUME IInv, cacheClosed
               PROVE  SealedClose
    BY DEF SealedClose
  <2>1. /\ \A c \in Conns : handler[c] = "none"
        /\ listener # "open" /\ udp # "serving"
    BY DEF IInv, CloseInv
  <2>2. Running = {} /\ Counted = {}
    BY <2>1 DEF Running, Counted
  <2>3. wg = 0 /\ activeConns = 0
    BY <2>2, FS_EmptySet DEF IInv, CountInv
  <2> QED
    BY <2>1, <2>3 DEF SealedClose
<1> QED
  BY <1>1, ServerInvariant, PTL

\* Only a failure, the end of a context or idleness closes the sockets of a
\* relay, and no relay returns before both copies have been joined.
THEOREM ServerHalfClose == ServerSpec => []HalfClosePreserved
<1>1. IInv => HalfClosePreserved
  BY DEF IInv, RelayInv, HalfClosePreserved, Over
<1> QED
  BY <1>1, ServerInvariant, PTL
=============================================================================
