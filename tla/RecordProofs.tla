---------------------------- MODULE RecordProofs ----------------------------
(***************************************************************************)
(* TLAPS proofs about RecordStream: whichever of the three record layers   *)
(* it is, with every chunk and batch size, every sequence of writes,       *)
(* timeouts and deliveries and every fault of the transport, it implements *)
(* BytePipe, a returned Write has left nothing behind, and a reader fails  *)
(* only on a fault.                                                        *)
(***************************************************************************)
EXTENDS RecordStream, SequenceTheorems, TLAPS

\* The prover of a leaf that names no other.
USE Zenon

-----------------------------------------------------------------------------
(* Record layers *)

UnitSet == {"record", "size", "crlf"} \X Nat \X Nat
Records == [type : {"data", "end", "reset"}, from : Nat, len : Nat]

\* The bytes, and the units of the transport, that come before record k.
Bytes(k) == IF k <= Len(sealed) THEN sealed[k].from - 1 ELSE taken
Begin(k) == Bytes(k) + IF layer = "frame" THEN 2 * (k - 1)
                       ELSE IF layer = "raw" THEN 3 * (k - 1) ELSE 7 * (k - 1)

\* The units of record k on the transport, and the j-th of them.
BlockLen(k) == Length(sealed[k]) + IF layer = "h1" THEN 4 ELSE 0
Unit(k, j) ==
  LET n == Length(sealed[k])
  IN  IF layer # "h1" THEN <<"record", k, j>>
      ELSE IF j <= 2 THEN <<"size", n, j>>
      ELSE IF j <= n + 2 THEN <<"record", k, j - 2>>
      ELSE <<"crlf", 0, j - (n + 2)>>

\* The units read so far.
Base ==
  Begin(opened + 1) + IF layer = "h1"
                      THEN (IF skip = "line" THEN part
                            ELSE IF skip = "crlf" THEN part - 2
                            ELSE 2 + Len(got))
                      ELSE Len(got) - remaining

\* Nothing has gone wrong that a reader may notice.
Clean ==
  ~cut /\ ~failed /\ (layer = "raw" => Len(sealed) < MaxSequence)

RecordTypes ==
  /\ layer \in {"raw", "h1", "frame"}
  /\ wpc \in {"idle", "seal", "flush", "end", "fin"}
  /\ supplied \in Nat /\ todo \in Nat /\ taken \in Nat /\ flushed \in Nat
  /\ sealed \in Seq(Records) /\ buf \in Seq(UnitSet) /\ wire \in Seq(UnitSet)
  /\ closed \in BOOLEAN /\ failed \in BOOLEAN
  /\ fin \in BOOLEAN /\ cut \in BOOLEAN
  /\ skip \in {"line", "crlf", "trailer", "none"} /\ part \in {0, 1}
  /\ got \in Seq(UnitSet) /\ opened \in Nat /\ remaining \in Nat
  /\ dec \in Seq(Nat) /\ delivered \in Seq(Nat)
  /\ term \in {"none", "eof", "error"}

\* The records follow each other; only the last may be empty, and ends.
SealedInv ==
  /\ Bytes(1) = 0
  /\ \A k \in 1..Len(sealed) :
       /\ sealed[k].from >= 1
       /\ Bytes(k + 1) = Bytes(k) + sealed[k].len
       /\ sealed[k].len = 0 <=> sealed[k].type # "data"
       /\ sealed[k].type # "data" => k = Len(sealed) /\ closed
       /\ sealed[k].type = "reset" => layer = "frame"
  /\ \A k, l \in 1..(Len(sealed) + 1) : k <= l => Bytes(k) <= Bytes(l)
  /\ layer = "raw" => Len(sealed) <= MaxSequence

\* Where a call of the writer is, and what it has flushed.  No record follows
\* the end.
WriterInv ==
  /\ wpc = "seal" => todo > 0
  /\ wpc \in {"seal", "flush"} => ~closed
  /\ wpc \in {"end", "fin"} => closed
  /\ wpc \in {"idle", "fin"} \/ (wpc = "seal" /\ layer # "raw") => buf = <<>>
  /\ wpc \in {"flush", "end"} => buf # <<>>
  /\ failed => closed /\ wpc = "idle"
  /\ fin => closed /\ wpc = "idle"
  /\ closed /\ Clean =>
       sealed # <<>> /\ sealed[Len(sealed)].type # "data"
  /\ ~failed /\ Len(sealed) < MaxSequence =>
       /\ supplied = taken + todo
       /\ wpc \in {"idle", "fin", "end"} => todo = 0
       /\ wpc \in {"idle", "fin"} => flushed = taken

\* What waits is the units that come last before the next record.
BufInv ==
  /\ layer = "h1" /\ buf # <<>> =>
       sealed # <<>> /\ buf = Units(Len(sealed), sealed[Len(sealed)])
  /\ layer # "h1" =>
       \A i \in 1..Len(buf), k \in 1..Len(sealed) :
         \A j \in 1..BlockLen(k) :
           Begin(k) + j = Begin(Len(sealed) + 1) - Len(buf) + i =>
             buf[i] = <<"record", k, j>>

\* The units the next write to the transport will add to it.
Pending == Len(buf) + IF layer = "h1" /\ buf # <<>> THEN 4 ELSE 0

\* What is under way is what the reader is to read next.
OnWire ==
  \A i \in 1..Len(wire), k \in 1..Len(sealed) : \A j \in 1..BlockLen(k) :
    Begin(k) + j = Base + i => wire[i] = Unit(k, j)

\* The units written so far, without and with the last chunk.
Sent == Begin(Len(sealed) + 1) - Pending
LastLen == IF layer = "h1" /\ fin THEN 4 ELSE 0

\* A write that went wrong may leave a hole behind what is under way, which an
\* AEAD layer may try to read past; a frame layer's reader never gets there.
WireInv ==
  term = "none" =>
    /\ Clean \/ layer = "frame" => OnWire
    /\ layer = "frame" => Base + Len(wire) <= Begin(Len(sealed) + 1)
    /\ Clean => Base + Len(wire) = Sent + LastLen

\* What has been delivered, is decrypted, or is left of a frame, is all there is
\* before the next record.
ReaderInv ==
  /\ layer # "frame" => remaining = 0
  /\ layer = "frame" => dec = <<>>
  /\ layer # "h1" => skip = "none"
  /\ dec # <<>> => term = "none"
  /\ \A i \in 1..Len(dec) : dec[i] = Len(delivered) + i
  /\ term = "none" =>
       /\ opened <= Len(sealed)
       /\ \A k \in 1..opened : sealed[k].type = "data"
       /\ Bytes(opened + 1) = Len(delivered) + Len(dec) + remaining
       /\ layer = "frame" => Len(got) <= 1
       /\ remaining > 0 =>
            got = <<>> /\ opened > 0 /\ remaining <= sealed[opened].len

\* A record, chunk or line read in part is the next one, unless something went
\* wrong.
PlaceInv ==
  Clean /\ term = "none" =>
    /\ \A i \in 1..Len(got) : got[i] = <<"record", opened + 1, i>>
    /\ got # <<>> =>
         opened < Len(sealed) /\ Len(got) < Length(sealed[opened + 1])
    /\ layer = "h1" =>
         /\ skip # "trailer" /\ (skip # "none" => got = <<>>)
         /\ skip = "crlf" => opened > 0
         /\ skip = "none" =>
              /\ opened < Len(sealed) /\ part = 0
              /\ left = Length(sealed[opened + 1]) - Len(got)

\* What FailsOnlyOnFault says, by layer.
ErrorInv ==
  term = "error" => ~Clean \/ Sealed("reset")

RInv ==
  /\ RecordTypes /\ SealedInv /\ WriterInv /\ BufInv /\ WireInv /\ ReaderInv
  /\ PlaceInv /\ ErrorInv

\* The two parts of a sequence put together from them.
LEMMA ConcatParts ==
  ASSUME NEW s \in Seq(UnitSet), NEW t \in Seq(UnitSet)
  PROVE  /\ s \o t \in Seq(UnitSet) /\ Len(s) \in Nat /\ Len(t) \in Nat
         /\ Len(s \o t) = Len(s) + Len(t)
         /\ \A i \in 1..Len(s) : (s \o t)[i] = s[i]
         /\ \A i \in 1..Len(t) : (s \o t)[Len(s) + i] = t[i]
         /\ \A i \in 1..(Len(s) + Len(t)) :
              i \in 1..Len(s) \/ \E j \in 1..Len(t) : i = Len(s) + j
<1>1. /\ s \o t \in Seq(UnitSet) /\ Len(s \o t) = Len(s) + Len(t)
      /\ \A i \in 1..(Len(s) + Len(t)) :
           (s \o t)[i] = IF i <= Len(s) THEN s[i] ELSE t[i - Len(s)]
  BY ConcatProperties
<1>2. Len(s) \in Nat /\ Len(t) \in Nat
  BY LenProperties
<1>3. /\ \A i \in 1..Len(s) : i \in 1..(Len(s) + Len(t)) /\ i <= Len(s)
      /\ \A i \in 1..Len(t) :
           /\ Len(s) + i \in 1..(Len(s) + Len(t)) /\ ~(Len(s) + i <= Len(s))
           /\ (Len(s) + i) - Len(s) = i
  BY SMT, <1>2
<1>4. ASSUME NEW i \in 1..(Len(s) + Len(t)), i \notin 1..Len(s)
      PROVE  \E j \in 1..Len(t) : i = Len(s) + j
  <2>1. i - Len(s) \in 1..Len(t) /\ i = Len(s) + (i - Len(s))
    BY SMT, <1>2, <1>4
  <2> QED
    BY <2>1
<1> QED
  BY <1>1, <1>2, <1>3, <1>4

\* The records are records, and their fields have their types.
LEMMA RecordFields ==
  ASSUME RecordTypes, NEW k \in 1..Len(sealed)
  PROVE  /\ sealed[k].type \in {"data", "end", "reset"}
         /\ sealed[k].from \in Nat /\ sealed[k].len \in Nat
         /\ k \in Nat /\ k >= 1 /\ k <= Len(sealed) /\ Len(sealed) \in Nat
<1>1. sealed \in Seq(Records)
  BY DEF RecordTypes
<1>2. Len(sealed) \in Nat
  BY <1>1, LenProperties
<1>3. sealed[k] \in Records
  BY SMT, <1>1
<1>4. k \in Nat /\ k >= 1 /\ k <= Len(sealed)
  BY SMT, <1>2
<1> QED
  BY <1>2, <1>3, <1>4 DEF Records

\* The blocks of the records follow each other on the transport.
LEMMA BlockFacts ==
  ASSUME RecordTypes, SealedInv
  PROVE  /\ Len(sealed) \in Nat
         /\ \A k \in 1..(Len(sealed) + 1) :
              /\ Begin(k) \in Nat /\ Bytes(k) \in Nat /\ Bytes(k) <= taken
              /\ Begin(k) <= Begin(Len(sealed) + 1)
         /\ \A k \in 1..Len(sealed) :
              /\ BlockLen(k) \in Nat /\ BlockLen(k) >= 2
              /\ Length(sealed[k]) \in Nat /\ Length(sealed[k]) >= 2
              /\ Begin(k + 1) = Begin(k) + BlockLen(k)
         /\ \A k, l \in 1..(Len(sealed) + 1) :
              k < l => Begin(k) + BlockLen(k) <= Begin(l)
<1>1. Len(sealed) \in Nat /\ taken \in Nat /\ layer \in {"raw", "h1", "frame"}
  BY LenProperties DEF RecordTypes
<1>2. \A k \in 1..Len(sealed) :
        /\ sealed[k].from \in Nat /\ sealed[k].from >= 1
        /\ sealed[k].len \in Nat /\ Bytes(k + 1) = Bytes(k) + sealed[k].len
  BY RecordFields DEF SealedInv
<1>3. \A k \in 1..(Len(sealed) + 1) : Bytes(k) \in Nat
  BY SMT, <1>1, <1>2 DEF Bytes
<1>4. Bytes(Len(sealed) + 1) = taken
  BY SMT, <1>1 DEF Bytes
<1>5. \A k, l \in 1..(Len(sealed) + 1) : k <= l => Bytes(k) <= Bytes(l)
  BY DEF SealedInv
<1>6. Len(sealed) + 1 \in 1..(Len(sealed) + 1)
      /\ \A k \in 1..(Len(sealed) + 1) :
           k <= Len(sealed) + 1 /\ k >= 1 /\ k \in Nat
  BY SMT, <1>1
<1>7. \A k \in 1..Len(sealed) :
        k \in 1..(Len(sealed) + 1) /\ k + 1 \in 1..(Len(sealed) + 1)
  BY SMT, <1>1
<1>8. \A k \in 1..(Len(sealed) + 1) : Bytes(k) <= taken
  BY <1>4, <1>5, <1>6
<1>9. \A k \in 1..Len(sealed) :
        /\ BlockLen(k) \in Nat /\ BlockLen(k) >= 2
        /\ Length(sealed[k]) \in Nat /\ Length(sealed[k]) >= 2
        /\ BlockLen(k) = sealed[k].len + IF layer = "frame" THEN 2
                            ELSE IF layer = "raw" THEN 3 ELSE 7
  <2>1. CASE layer = "frame"
    BY SMT, <1>2, <2>1 DEF BlockLen, Length
  <2>2. CASE layer = "raw"
    BY SMT, <1>2, <2>2 DEF BlockLen, Length
  <2>3. CASE layer = "h1"
    BY SMT, <1>2, <2>3 DEF BlockLen, Length
  <2> QED
    BY <1>1, <2>1, <2>2, <2>3
<1>10. \A k, l \in 1..(Len(sealed) + 1) : k <= l =>
         Begin(k) \in Nat /\ Begin(k) <= Begin(l)
  <2> SUFFICES ASSUME NEW k \in 1..(Len(sealed) + 1),
                      NEW l \in 1..(Len(sealed) + 1), k <= l
               PROVE  Begin(k) \in Nat /\ Begin(k) <= Begin(l)
    OBVIOUS
  <2>1. /\ Bytes(k) \in Nat /\ Bytes(l) \in Nat /\ Bytes(k) <= Bytes(l)
        /\ k \in Nat /\ k >= 1 /\ l \in Nat
    BY <1>3, <1>5, <1>6
  <2>2. CASE layer = "frame"
    BY SMT, <2>1, <2>2 DEF Begin
  <2>3. CASE layer = "raw"
    BY SMT, <2>1, <2>3 DEF Begin
  <2>4. CASE layer = "h1"
    BY SMT, <2>1, <2>4 DEF Begin
  <2> QED
    BY <1>1, <2>2, <2>3, <2>4
<1>11. \A k \in 1..Len(sealed) : Begin(k + 1) = Begin(k) + BlockLen(k)
  <2> SUFFICES ASSUME NEW k \in 1..Len(sealed)
               PROVE  Begin(k + 1) = Begin(k) + BlockLen(k)
    OBVIOUS
  <2>1. /\ Bytes(k) \in Nat /\ sealed[k].len \in Nat
        /\ Bytes(k + 1) = Bytes(k) + sealed[k].len /\ k \in Nat
        /\ BlockLen(k) = sealed[k].len + IF layer = "frame" THEN 2
                            ELSE IF layer = "raw" THEN 3 ELSE 7
    BY <1>2, <1>3, <1>6, <1>7, <1>9
  <2> QED
    BY SMT, <1>1, <2>1 DEF Begin
<1>12. ASSUME NEW k \in 1..(Len(sealed) + 1), NEW l \in 1..(Len(sealed) + 1),
              k < l
       PROVE  Begin(k) + BlockLen(k) <= Begin(l)
  <2>1. k \in 1..Len(sealed) /\ k + 1 \in 1..(Len(sealed) + 1) /\ k + 1 <= l
    BY SMT, <1>1, <1>12
  <2> QED
    BY <1>10, <1>11, <2>1
<1> QED
  BY <1>1, <1>3, <1>6, <1>8, <1>9, <1>10, <1>11, <1>12

\* A record that is sealed goes behind the others and moves none of them.
LEMMA EncryptFacts ==
  ASSUME RecordTypes, SealedInv, ~closed,
         NEW type \in {"data", "end", "reset"}, NEW len \in Nat,
         len = 0 <=> type # "data", type # "data" => closed',
         type = "reset" => layer = "frame",
         layer = "raw" => Len(sealed) < MaxSequence,
         Encrypt(type, len), layer' = layer
  PROVE  /\ sealed' \in Seq(Records) /\ Len(sealed') = Len(sealed) + 1
         /\ taken' \in Nat /\ taken' = taken + len
         /\ \A k \in 1..Len(sealed) :
              /\ sealed'[k] = sealed[k] /\ BlockLen(k)' = BlockLen(k)
              /\ \A j \in Nat : Unit(k, j)' = Unit(k, j)
         /\ \A k \in 1..(Len(sealed) + 1) :
              Bytes(k)' = Bytes(k) /\ Begin(k)' = Begin(k)
         /\ sealed'[Len(sealed) + 1].type = type
         /\ sealed'[Len(sealed) + 1].len = len
         /\ buf' = buf \o Units(Len(sealed) + 1, sealed'[Len(sealed) + 1])
         /\ \A k \in {Len(sealed) + 1} :
              Begin(k + 1)' = Begin(k) + BlockLen(k)'
         /\ SealedInv'
<1>1. Len(sealed) \in Nat
  BY LenProperties DEF RecordTypes
<1>2. PICK n \in Nat : n = Len(sealed)
  BY <1>1
<1> DEFINE r == [type |-> type, from |-> taken + 1, len |-> len]
<1>3. /\ n \in Nat /\ taken \in Nat /\ layer \in {"raw", "h1", "frame"}
      /\ sealed \in Seq(Records)
  BY DEF RecordTypes
<1>4. /\ sealed' = Append(sealed, r) /\ taken' = taken + len
      /\ buf' = buf \o Units(n + 1, r)
  BY <1>2 DEF Encrypt
<1>5. taken' \in Nat /\ taken + 1 \in Nat
  BY SMT, <1>3, <1>4
<1>6. r \in Records
  BY <1>5 DEF Records
<1>7. r.type = type /\ r.from = taken + 1 /\ r.len = len
  BY SMT
<1> HIDE DEF r
<1>8. /\ sealed' \in Seq(Records) /\ Len(sealed') = n + 1
      /\ sealed'[n + 1] = r
      /\ \A k \in 1..n : sealed'[k] = sealed[k]
  BY SMT, <1>2, <1>3, <1>4, <1>6
<1>9. /\ \A k \in 1..n : k <= n /\ k <= n + 1 /\ k \in 1..(n + 1)
                         /\ k + 1 \in 1..(n + 1) /\ k \in Nat
      /\ \A k \in 1..(n + 1) : k \in 1..n \/ k = n + 1
      /\ ~(n + 1 <= n) /\ n + 1 <= n + 1 /\ n + 1 \in 1..(n + 1)
      /\ (n + 1) - 1 = n
  BY SMT, <1>3
<1>10. \A k \in 1..(n + 1) : Bytes(k)' = Bytes(k)
  <2>1. \A k \in 1..n : Bytes(k)' = Bytes(k)
    BY <1>2, <1>8, <1>9 DEF Bytes
  <2>2. Bytes(n + 1)' = (taken + 1) - 1 /\ Bytes(n + 1) = taken
    BY <1>2, <1>7, <1>8, <1>9 DEF Bytes
  <2>3. (taken + 1) - 1 = taken
    BY SMT, <1>3
  <2> QED
    BY <1>9, <2>1, <2>2, <2>3
<1>11. \A k \in 1..(n + 1) : Begin(k)' = Begin(k)
  BY <1>10 DEF Begin
<1>12. \A k \in 1..n :
         /\ BlockLen(k)' = BlockLen(k)
         /\ \A j \in Nat : Unit(k, j)' = Unit(k, j)
  BY <1>8 DEF BlockLen, Length, Unit
<1>13. Bytes((n + 1) + 1)' = taken'
  <2>1. ~((n + 1) + 1 <= n + 1)
    BY SMT, <1>3
  <2> QED
    BY <1>8, <2>1 DEF Bytes
<1>14. SealedInv'
  <2>1. \A k \in 1..n : sealed[k].type = "data"
    BY <1>2 DEF SealedInv
  <2>2. Bytes(1)' = 0
    <3>1. 1 \in 1..(n + 1)
      BY SMT, <1>3
    <3> QED
      BY <1>10, <3>1 DEF SealedInv
  <2>3. ASSUME NEW k \in 1..n
        PROVE  /\ sealed'[k].from >= 1 /\ sealed'[k].type = "data"
               /\ Bytes(k + 1)' = Bytes(k)' + sealed'[k].len
               /\ sealed'[k].len # 0
    <3>1. /\ sealed[k].from >= 1 /\ sealed[k].len # 0
          /\ Bytes(k + 1) = Bytes(k) + sealed[k].len
      BY <1>2, <2>1 DEF SealedInv
    <3> QED
      BY <1>8, <1>9, <1>10, <2>1, <3>1
  <2>4. /\ r.from >= 1
        /\ Bytes((n + 1) + 1)' = Bytes(n + 1)' + r.len
    <3>1. Bytes(n + 1)' = taken
      BY <1>2, <1>9, <1>10 DEF Bytes
    <3> QED
      BY SMT, <1>3, <1>4, <1>7, <1>13, <3>1
  <2>5. \A k \in 1..(n + 1) :
          /\ sealed'[k].from >= 1
          /\ Bytes(k + 1)' = Bytes(k)' + sealed'[k].len
          /\ sealed'[k].len = 0 <=> sealed'[k].type # "data"
          /\ sealed'[k].type # "data" => k = n + 1 /\ closed'
          /\ sealed'[k].type = "reset" => layer = "frame"
    BY <1>7, <1>8, <1>9, <2>3, <2>4
  <2>6. ASSUME NEW k \in 1..((n + 1) + 1), NEW l \in 1..((n + 1) + 1), k <= l
        PROVE  Bytes(k)' <= Bytes(l)'
    <3>1. CASE l \in 1..(n + 1)
      <4>1. k \in 1..(n + 1)
        BY SMT, <1>3, <2>6, <3>1
      <4> QED
        BY <1>2, <1>10, <2>6, <3>1, <4>1 DEF SealedInv
    <3>2. CASE l \notin 1..(n + 1)
      <4>1. l = (n + 1) + 1
        BY SMT, <1>3, <2>6, <3>2
      <4>2. Bytes(l)' = taken'
        BY <1>13, <4>1
      <4>3. CASE k = l
        BY SMT, <1>5, <4>2, <4>3
      <4>4. CASE k # l
        <5>1. k \in 1..(n + 1)
          BY SMT, <1>3, <2>6, <4>1, <4>4
        <5>2. Bytes(k)' \in Nat /\ Bytes(k)' <= taken
          BY <1>2, <1>10, <5>1, BlockFacts
        <5> QED
          BY SMT, <1>3, <1>4, <4>2, <5>2
      <4> QED
        BY <4>3, <4>4
    <3> QED
      BY <3>1, <3>2
  <2>7. layer' = "raw" => Len(sealed') <= MaxSequence
    BY SMT, <1>2, <1>3, <1>8, RecordAssumption
  <2> QED
    BY <1>8, <2>2, <2>5, <2>6, <2>7 DEF SealedInv
<1>15. Begin((n + 1) + 1)' = Begin(n + 1) + BlockLen(n + 1)'
  <2>1. Begin(n + 1) = taken + IF layer = "frame" THEN 2 * n
                               ELSE IF layer = "raw" THEN 3 * n ELSE 7 * n
    BY <1>2, <1>9 DEF Begin, Bytes
  <2>2. Begin((n + 1) + 1)'
          = (taken + len) + IF layer = "frame" THEN 2 * (((n + 1) + 1) - 1)
                            ELSE IF layer = "raw" THEN 3 * (((n + 1) + 1) - 1)
                            ELSE 7 * (((n + 1) + 1) - 1)
    BY <1>4, <1>13 DEF Begin
  <2>3. BlockLen(n + 1)'
          = (2 + len + (IF layer = "frame" THEN 0 ELSE 1))
             + IF layer = "h1" THEN 4 ELSE 0
    BY <1>7, <1>8 DEF BlockLen, Length
  <2>4. CASE layer = "frame"
    BY SMT, <1>3, <2>1, <2>2, <2>3, <2>4
  <2>5. CASE layer = "raw"
    BY SMT, <1>3, <2>1, <2>2, <2>3, <2>5
  <2>6. CASE layer = "h1"
    BY SMT, <1>3, <2>1, <2>2, <2>3, <2>6
  <2> QED
    BY <1>3, <2>4, <2>5, <2>6
<1> QED
  BY <1>2, <1>4, <1>5, <1>7, <1>8, <1>10, <1>11, <1>12, <1>14, <1>15

\* The reader's place on the transport is a number.
LEMMA BaseType ==
  ASSUME RecordTypes, SealedInv, ReaderInv, term = "none"
  PROVE  /\ Base \in Int /\ Len(got) \in Nat /\ Len(wire) \in Nat
         /\ opened \in Nat /\ opened <= Len(sealed)
         /\ opened + 1 \in 1..(Len(sealed) + 1)
         /\ Len(buf) \in Nat /\ Pending \in Nat
<1>1. /\ Len(got) \in Nat /\ remaining \in Nat /\ part \in Nat
      /\ opened \in Nat /\ Len(wire) \in Nat /\ Len(buf) \in Nat
      /\ Len(sealed) \in Nat
  <2>1. part \in Nat
    BY SMT DEF RecordTypes
  <2> QED
    BY <2>1, LenProperties DEF RecordTypes
<1>2. opened <= Len(sealed)
  BY DEF ReaderInv
<1>3. opened + 1 \in 1..(Len(sealed) + 1)
  BY SMT, <1>1, <1>2
<1>4. Begin(opened + 1) \in Nat
  BY <1>3, BlockFacts
<1>5. Base \in Int
  BY SMT, <1>1, <1>4 DEF Base
<1>6. Pending \in Nat
  BY SMT, <1>1 DEF Pending
<1> QED
  BY <1>1, <1>2, <1>3, <1>5, <1>6

\* A record that is sealed waits behind all that was sealed before, and no
\* reader sees a difference.
LEMMA EncryptKeeps ==
  ASSUME RInv, ~closed,
         NEW type \in {"data", "end", "reset"}, NEW len \in Nat,
         len = 0 <=> type # "data", type # "data" => closed',
         type = "reset" => layer = "frame",
         layer = "raw" => Len(sealed) < MaxSequence,
         layer # "raw" => buf = <<>>,
         Encrypt(type, len),
         UNCHANGED <<layer, failed, wire, fin, cut, reader>>
  PROVE  /\ sealed' \in Seq(Records) /\ taken' \in Nat
         /\ buf' \in Seq(UnitSet) /\ buf' # <<>>
         /\ Len(sealed') = Len(sealed) + 1 /\ taken' = taken + len
         /\ sealed' # <<>> /\ sealed'[Len(sealed')].type = type
         /\ SealedInv' /\ BufInv' /\ WireInv' /\ ReaderInv' /\ PlaceInv'
         /\ ErrorInv'
<1>1. /\ RecordTypes /\ SealedInv /\ WriterInv /\ BufInv /\ WireInv
      /\ ReaderInv /\ PlaceInv /\ ErrorInv
  BY DEF RInv
<1>2. Len(sealed) \in Nat /\ Len(buf) \in Nat
  BY <1>1, LenProperties DEF RecordTypes
<1>3. PICK n \in Nat : n = Len(sealed)
  BY <1>2
<1>4. PICK b \in Nat : b = Len(buf)
  BY <1>2
<1>5. UNCHANGED <<layer, failed, wire, fin, cut, skip, part, left, got, opened,
                  remaining, dec, delivered, term>>
  BY DEF reader, chunks, record
<1>6. /\ sealed' \in Seq(Records) /\ Len(sealed') = n + 1
      /\ taken' \in Nat /\ taken' = taken + len
      /\ \A k \in 1..n :
           /\ sealed'[k] = sealed[k] /\ BlockLen(k)' = BlockLen(k)
           /\ \A j \in Nat : Unit(k, j)' = Unit(k, j)
      /\ \A k \in 1..(n + 1) : Bytes(k)' = Bytes(k) /\ Begin(k)' = Begin(k)
      /\ sealed'[n + 1].type = type /\ sealed'[n + 1].len = len
      /\ buf' = buf \o Units(n + 1, sealed'[n + 1])
      /\ SealedInv' /\ Begin((n + 1) + 1)' = Begin(n + 1) + BlockLen(n + 1)'
  BY <1>1, <1>3, <1>5, EncryptFacts
<1>7. /\ \A k \in 1..n : k \in 1..(n + 1) /\ k + 1 \in 1..(n + 1)
      /\ \A k \in 1..(n + 1) : k \in 1..n \/ k = n + 1
      /\ n + 1 \in 1..(n + 1)
  BY SMT
<1>8. PICK r : r = sealed'[n + 1]
  OBVIOUS
<1>9. PICK c \in Nat : c = Length(r)
  <2>1. Length(r) \in Nat
    BY SMT, <1>6, <1>8 DEF Length
  <2> QED
    BY <2>1
<1>10. /\ Units(n + 1, r) \in Seq(UnitSet) /\ Len(Units(n + 1, r)) = c
       /\ \A j \in 1..c : Units(n + 1, r)[j] = <<"record", n + 1, j>>
  <2> DEFINE u == [j \in 1..c |-> <<"record", n + 1, j>>]
  <2>1. Units(n + 1, r) = u
    BY <1>9 DEF Units
  <2>2. n + 1 \in Nat /\ \A j \in 1..c : j \in Nat
    BY SMT
  <2>3. \A j \in 1..c : <<"record", n + 1, j>> \in UnitSet
    BY <2>2 DEF UnitSet
  <2>4. u \in [1..c -> UnitSet]
    BY <2>3
  <2>5. u \in Seq(UnitSet) /\ Len(u) = c
    BY SMT, <2>4
  <2> QED
    BY <2>1, <2>5
<1>11. buf \in Seq(UnitSet)
  BY <1>1 DEF RecordTypes
<1>12. PICK u \in Seq(UnitSet) : u = Units(n + 1, r)
  BY <1>10
<1>13. /\ buf' \in Seq(UnitSet) /\ Len(buf') = b + c
       /\ \A i \in 1..b : buf'[i] = buf[i]
       /\ \A i \in 1..c : buf'[b + i] = u[i]
  <2>1. buf' = buf \o u
    BY <1>6, <1>8, <1>12
  <2> QED
    <3>1. /\ buf \o u \in Seq(UnitSet) /\ Len(buf \o u) = Len(buf) + Len(u)
          /\ \A i \in 1..Len(buf) : (buf \o u)[i] = buf[i]
          /\ \A i \in 1..Len(u) : (buf \o u)[Len(buf) + i] = u[i]
      BY <1>11, ConcatParts
    <3>2. Len(buf) = b /\ Len(u) = c
      BY <1>4, <1>10, <1>12
    <3> QED
      BY <2>1, <3>1, <3>2
<1>14. /\ \A k \in 1..(n + 1) : Begin(k) \in Nat /\ Begin(k) <= Begin(n + 1)
       /\ \A k \in 1..n :
            BlockLen(k) \in Nat /\ Begin(k) + BlockLen(k) <= Begin(n + 1)
  BY <1>1, <1>3, <1>7, BlockFacts
<1>15. BlockLen(n + 1)' = c + IF layer = "h1" THEN 4 ELSE 0
  BY <1>5, <1>8, <1>9 DEF BlockLen, Length
<1>16. BufInv'
  <2>1. CASE layer = "h1"
    <3>1. buf' = Units(n + 1, sealed'[n + 1])
      BY <1>6, <1>8, <1>12, <2>1, ConcatEmptySeq
    <3>2. sealed' # <<>> /\ Len(sealed') = n + 1
      BY SMT, <1>6
    <3>3. buf' = Units(Len(sealed), sealed[Len(sealed)])'
      BY <1>5, <3>1, <3>2 DEF Units, Length
    <3> QED
      BY <1>5, <2>1, <3>2, <3>3 DEF BufInv
  <2>2. CASE layer # "h1"
    <3> SUFFICES ASSUME NEW i \in 1..Len(buf'), NEW k \in 1..(n + 1),
                        NEW j \in 1..BlockLen(k)',
                        Begin(k)' + j = Begin((n + 1) + 1)' - Len(buf') + i
                 PROVE  buf'[i] = <<"record", k, j>>
      <4>1. Len(sealed') = n + 1 /\ layer' # "h1"
        BY <1>5, <1>6, <2>2
      <4> QED
        BY <4>1 DEF BufInv
    <3>1. BlockLen(n + 1)' = c
      BY SMT, <1>15, <2>2
    <3>2. i \in Nat /\ i >= 1 /\ i <= b + c /\ j \in Nat /\ j >= 1
      BY SMT, <1>13
    <3>3. /\ Begin(k) + j = Begin(n + 1) - b + i /\ Begin(k) \in Nat
          /\ Begin(n + 1) \in Nat
      <4>1. Begin(k) \in Nat /\ Begin(n + 1) \in Nat
        BY <1>7, <1>14
      <4>2. Begin(k) + j = (Begin(n + 1) + c) - (b + c) + i
        BY <1>6, <1>13, <3>1
      <4> QED
        BY SMT, <4>1, <4>2, <1>13
    <3>4. CASE k \in 1..n
      <4>1. j \in 1..BlockLen(k)
        BY <1>6, <3>4
      <4>2. i \in 1..b
        <5>1. Begin(k) + BlockLen(k) <= Begin(n + 1) /\ BlockLen(k) \in Nat
          BY <1>14, <3>4
        <5> QED
          BY SMT, <3>3, <3>2, <4>1, <5>1
      <4>3. buf[i] = <<"record", k, j>>
        BY <1>1, <1>3, <1>4, <2>2, <3>3, <3>4, <4>1, <4>2 DEF BufInv
      <4> QED
        BY <1>13, <4>2, <4>3
    <3>5. CASE k = n + 1
      <4>1. i = b + j /\ j \in 1..c
        BY SMT, <3>1, <3>3, <3>5, <3>2
      <4> QED
        BY <1>10, <1>12, <1>13, <3>5, <4>1
    <3> QED
      BY <1>7, <3>4, <3>5
  <2> QED
    BY <2>1, <2>2
<1>17. Clean' => Clean
  BY SMT, <1>3, <1>5, <1>6, RecordAssumption DEF Clean
<1>18. WireInv'
  <2> SUFFICES ASSUME term = "none"
               PROVE  WireInv'
    BY <1>5 DEF WireInv
  <2>1. PICK o \in Nat : o = opened /\ o + 1 \in 1..(n + 1)
    BY <1>1, <1>3, BaseType
  <2>2. Base' = Base
    <3>1. Begin(o + 1)' = Begin(o + 1)
      BY <1>6, <2>1
    <3> QED
      BY <1>5, <2>1, <3>1 DEF Base
  <2>3. /\ Base \in Int /\ Len(wire) \in Nat /\ Pending \in Nat
        /\ Begin(n + 1) \in Nat
    BY <1>1, <1>7, <1>14, BaseType
  <2>4. LastLen = 0 /\ LastLen' = 0
    <3>1. fin = FALSE
      BY <1>1 DEF WriterInv, RecordTypes
    <3>2. fin' = fin
      BY <1>5
    <3> QED
      BY <3>1, <3>2 DEF LastLen
  <2>5. Clean \/ layer = "frame" => Base + Len(wire) <= Begin(n + 1)
    <3>1. Clean => Base + Len(wire) = Begin(n + 1) - Pending + 0
      BY <1>1, <1>3, <2>4 DEF WireInv, Sent
    <3>2. Clean => Base + Len(wire) <= Begin(n + 1)
      BY SMT, <2>3, <3>1
    <3> QED
      BY <1>1, <1>3, <3>2 DEF WireInv
  <2>6. ASSUME Clean' \/ layer = "frame"
        PROVE  OnWire'
    <3>1. (Clean \/ layer = "frame") /\ OnWire
      BY <1>1, <1>17, <2>6 DEF WireInv
    <3> SUFFICES ASSUME NEW i \in 1..Len(wire'), NEW k \in 1..Len(sealed'),
                        NEW j \in 1..BlockLen(k)', Begin(k)' + j = Base' + i
                 PROVE  wire'[i] = Unit(k, j)'
      BY DEF OnWire
    <3>2. wire' = wire /\ i \in 1..Len(wire) /\ k \in 1..(n + 1)
      BY <1>5, <1>6
    <3>3. CASE k \in 1..n
      <4>1. /\ j \in 1..BlockLen(k) /\ Begin(k) + j = Base + i
        BY <1>6, <1>7, <2>2, <3>3
      <4>2. j \in Nat
        BY SMT
      <4>3. wire[i] = Unit(k, j)
        BY <1>3, <3>1, <3>3, <3>2, <4>1 DEF OnWire
      <4> QED
        BY <1>6, <3>3, <3>2, <4>2, <4>3
    <3>4. CASE k = n + 1
      <4>1. Begin(n + 1) + j = Base + i /\ Base + Len(wire) <= Begin(n + 1)
        BY <1>6, <1>7, <2>2, <2>5, <3>1, <3>4
      <4> QED
        BY SMT, <2>3, <3>2, <4>1
    <3> QED
      BY <1>7, <3>3, <3>4, <3>2
  <2>7. PICK d \in Nat : d = BlockLen(n + 1)'
    <3>1. BlockLen(n + 1)' \in Nat
      BY SMT, <1>15
    <3> QED
      BY <3>1
  <2>8. Begin(Len(sealed) + 1)' = Begin(n + 1) + d
    BY <1>6, <2>7
  <2>9. layer = "frame" => Base + Len(wire) <= Begin(n + 1) + d
    BY SMT, <2>3, <2>5
  <2>10. Pending' = Pending + d
    <3>1. CASE layer = "h1"
      <4>1. Pending = 0 /\ b = 0
        BY SMT, <1>4, <3>1 DEF Pending
      <4>2. c >= 2
        BY SMT, <1>6, <1>8, <1>9, <3>1 DEF Length
      <4>3. buf' # <<>>
        BY SMT, <1>13, <4>2
      <4>4. Pending' = (b + c) + 4
        BY <1>5, <1>13, <3>1, <4>3 DEF Pending
      <4> QED
        BY SMT, <1>15, <2>7, <3>1, <4>1, <4>4
    <3>2. CASE layer # "h1"
      <4>1. Pending = b + 0 /\ Pending' = (b + c) + 0
        BY <1>4, <1>5, <1>13, <3>2 DEF Pending
      <4> QED
        BY SMT, <1>15, <2>7, <3>2, <4>1
    <3> QED
      BY <3>1, <3>2
  <2>11. ASSUME Clean'
         PROVE  Base + Len(wire) = Sent' + LastLen'
    <3>1. Base + Len(wire) = Begin(n + 1) - Pending + 0
      BY <1>1, <1>3, <1>17, <2>4, <2>11 DEF WireInv, Sent
    <3>2. Base + Len(wire) = (Begin(n + 1) + d) - (Pending + d) + 0
      BY SMT, <2>3, <3>1
    <3> QED
      BY <2>4, <2>8, <2>10, <3>2 DEF Sent
  <2> QED
    BY <1>5, <2>2, <2>6, <2>8, <2>9, <2>11 DEF WireInv
<1>19. ReaderInv'
  <2> SUFFICES ASSUME term = "none"
               PROVE  /\ opened <= n + 1
                      /\ \A k \in 1..opened : sealed'[k].type = "data"
                      /\ Bytes(opened + 1)'
                           = Len(delivered) + Len(dec) + remaining
                      /\ remaining > 0 => remaining <= sealed'[opened].len
    BY <1>1, <1>5, <1>6 DEF ReaderInv
  <2>1. PICK o \in Nat : o = opened
    BY <1>1 DEF RecordTypes
  <2>2. o <= n
    BY <1>1, <1>3, <2>1 DEF ReaderInv
  <2>3. /\ o <= n + 1 /\ o + 1 \in 1..(n + 1)
        /\ \A k \in 1..o : k \in 1..n
        /\ o > 0 => o \in 1..n
    BY SMT, <2>2
  <2>4. Bytes(o + 1)' = Bytes(o + 1)
    BY <1>6, <2>3
  <2>5. /\ \A k \in 1..o : sealed[k].type = "data"
        /\ Bytes(o + 1) = Len(delivered) + Len(dec) + remaining
        /\ remaining > 0 => o > 0 /\ remaining <= sealed[o].len
    BY <1>1, <2>1 DEF ReaderInv
  <2>6. Bytes(opened + 1)' = Bytes(o + 1)'
    BY <1>5, <2>1
  <2> QED
    BY <1>6, <2>1, <2>3, <2>4, <2>5, <2>6
<1>20. PlaceInv'
  <2> SUFFICES ASSUME Clean, term = "none"
               PROVE  PlaceInv'
    BY <1>5, <1>17 DEF PlaceInv
  <2>1. PICK o \in Nat : o = opened
    BY <1>1 DEF RecordTypes
  <2>2. o < n => o + 1 \in 1..n /\ o < n + 1
    BY SMT
  <2>3. o < n => Length(sealed[o + 1])' = Length(sealed[o + 1])
    BY <1>5, <1>6, <2>2 DEF Length
  <2>4. PlaceInv
    BY <1>1
  <2> QED
    BY <1>3, <1>5, <1>6, <2>1, <2>2, <2>3, <2>4 DEF PlaceInv
<1>21. ErrorInv'
  <2>1. Sealed("reset") => Sealed("reset")'
    BY <1>3, <1>6, <1>7 DEF Sealed
  <2> QED
    BY <1>1, <1>5, <1>17, <2>1 DEF ErrorInv
<1>22. buf' # <<>> /\ sealed' # <<>>
  <2>1. c >= 2
    BY SMT, <1>6, <1>8, <1>9 DEF Length
  <2> QED
    BY SMT, <1>6, <1>13, <2>1
<1> QED
  BY <1>3, <1>6, <1>13, <1>16, <1>18, <1>19, <1>20, <1>21, <1>22

\* What a record is and where it lies depends on the records only.
LEMMA SameRecords ==
  ASSUME UNCHANGED <<layer, sealed, taken>>, closed => closed'
  PROVE  /\ \A k : Bytes(k)' = Bytes(k) /\ Begin(k)' = Begin(k)
                   /\ BlockLen(k)' = BlockLen(k)
         /\ \A k, j : Unit(k, j)' = Unit(k, j)
         /\ \A k : Length(sealed[k])' = Length(sealed[k])
         /\ SealedInv => SealedInv'
<1>1. \A k : Bytes(k)' = Bytes(k)
  BY DEF Bytes
<1>2. \A k : Begin(k)' = Begin(k)
  BY <1>1 DEF Begin
<1>3. \A k : Length(sealed[k])' = Length(sealed[k])
  BY DEF Length
<1>4. \A k : BlockLen(k)' = BlockLen(k)
  BY <1>3 DEF BlockLen
<1>5. \A k, j : Unit(k, j)' = Unit(k, j)
  BY <1>3 DEF Unit
<1>6. SealedInv => SealedInv'
  BY <1>1 DEF SealedInv
<1> QED
  BY <1>1, <1>2, <1>3, <1>4, <1>5, <1>6

\* A step that leaves the records, the transport and the reader alone.
LEMMA SameWire ==
  ASSUME RInv, closed => closed',
         UNCHANGED <<layer, sealed, taken, failed, buf, wire, fin, cut, chunks,
                     record, dec, delivered, term>>
  PROVE  /\ SealedInv' /\ BufInv' /\ WireInv' /\ ReaderInv' /\ PlaceInv'
         /\ ErrorInv'
<1>1. UNCHANGED <<layer, sealed, taken, failed, wire, fin, cut, skip, part,
                  left, got, opened, remaining, dec, delivered, term, buf>>
  BY DEF chunks, record
<1>2. /\ SealedInv /\ BufInv /\ WireInv /\ ReaderInv /\ PlaceInv /\ ErrorInv
  BY DEF RInv
<1>3. /\ \A k : Bytes(k)' = Bytes(k) /\ Begin(k)' = Begin(k)
                /\ BlockLen(k)' = BlockLen(k)
      /\ \A k, j : Unit(k, j)' = Unit(k, j)
      /\ \A k : Length(sealed[k])' = Length(sealed[k])
      /\ SealedInv'
  BY <1>2, SameRecords
<1>4. Clean' <=> Clean
  <2>1. cut' = cut /\ failed' = failed /\ sealed' = sealed /\ layer' = layer
    BY <1>1
  <2>2. cut \in BOOLEAN /\ failed \in BOOLEAN
    BY DEF RInv, RecordTypes
  <2> QED
    BY SMT, <2>1, <2>2 DEF Clean
<1>5. BufInv'
  <2>1. Units(Len(sealed), sealed[Len(sealed)])'
          = Units(Len(sealed), sealed[Len(sealed)])
    BY <1>1 DEF Units, Length
  <2> QED
    BY <1>1, <1>2, <1>3, <2>1 DEF BufInv
<1>6. WireInv'
  <2>1. Base' = Base
    BY <1>1, <1>3 DEF Base
  <2>2. ASSUME OnWire
        PROVE  OnWire'
    <3> SUFFICES ASSUME NEW i \in 1..Len(wire'), NEW k \in 1..Len(sealed'),
                        NEW j \in 1..BlockLen(k)', Begin(k)' + j = Base' + i
                 PROVE  wire'[i] = Unit(k, j)'
      BY DEF OnWire
    <3>1. /\ wire' = wire /\ i \in 1..Len(wire) /\ k \in 1..Len(sealed)
          /\ j \in 1..BlockLen(k) /\ Begin(k) + j = Base + i
      BY <1>1, <1>3, <2>1
    <3>2. wire[i] = Unit(k, j)
      BY <2>2, <3>1 DEF OnWire
    <3> QED
      BY <1>3, <3>1, <3>2
  <2>3. Sent' = Sent
    BY <1>1, <1>3 DEF Sent, Pending
  <2>4. LastLen' = LastLen
    <3>1. fin' = fin /\ fin \in BOOLEAN /\ layer' = layer
      BY <1>1 DEF RInv, RecordTypes
    <3> QED
      BY SMT, <3>1 DEF LastLen
  <2> QED
    BY <1>1, <1>2, <1>3, <1>4, <2>1, <2>2, <2>3, <2>4 DEF WireInv
<1>7. ReaderInv'
  BY <1>1, <1>2, <1>3 DEF ReaderInv
<1>8. PlaceInv'
  BY <1>1, <1>2, <1>3, <1>4 DEF PlaceInv
<1>9. ErrorInv'
  BY <1>1, <1>2, <1>4 DEF ErrorInv, Sealed
<1> QED
  BY <1>3, <1>5, <1>6, <1>7, <1>8, <1>9

\* What Read and Write show of the record layer.
shown == <<taken, ~closed, delivered, term>>

\* The types after a step of the writer.
LEMMA WriterTypes ==
  ASSUME RecordTypes, UNCHANGED <<layer, reader>>,
         wpc' \in {"idle", "seal", "flush", "end", "fin"},
         supplied' \in Nat, todo' \in Nat, taken' \in Nat, flushed' \in Nat,
         sealed' \in Seq(Records), buf' \in Seq(UnitSet),
         wire' \in Seq(UnitSet), closed' \in BOOLEAN, failed' \in BOOLEAN,
         fin' \in BOOLEAN, cut' \in BOOLEAN
  PROVE  RecordTypes'
BY DEF RecordTypes, reader, chunks, record

\* The types after a step of the reader.
LEMMA ReaderTypes ==
  ASSUME RecordTypes, UNCHANGED <<layer, writer, fin, cut>>,
         wire' \in Seq(UnitSet),
         skip' \in {"line", "crlf", "trailer", "none"}, part' \in {0, 1},
         got' \in Seq(UnitSet), opened' \in Nat, remaining' \in Nat,
         dec' \in Seq(Nat), delivered' \in Seq(Nat),
         term' \in {"none", "eof", "error"}
  PROVE  RecordTypes'
BY DEF RecordTypes, writer

\* Write starts a call.
LEMMA CallKeeps ==
  ASSUME RInv, NEW n \in WriteSizes, NEW idle \in BOOLEAN, Write(n, idle)
  PROVE  RInv' /\ UNCHANGED shown
<1>1. /\ wpc = "idle" /\ ~closed /\ supplied' = supplied + n /\ todo' = n
      /\ wpc' = "seal"
      /\ UNCHANGED <<layer, taken, sealed, buf, flushed, closed, failed, wire,
                     fin, cut, reader>>
  BY DEF Write
<1>2. RecordTypes /\ WriterInv
  BY DEF RInv
<1>3. supplied \in Nat /\ taken \in Nat /\ todo \in Nat
  BY <1>2 DEF RecordTypes
<1>4. n \in Nat /\ n > 0 /\ supplied + n \in Nat
  BY SMT, <1>3, RecordAssumption
<1>5. RecordTypes'
  BY <1>1, <1>2, <1>4, WriterTypes DEF RecordTypes
<1>6. /\ SealedInv' /\ BufInv' /\ WireInv' /\ ReaderInv' /\ PlaceInv'
      /\ ErrorInv'
  BY <1>1, SameWire DEF reader
<1>7. ~failed /\ Len(sealed) < MaxSequence => supplied' = taken' + todo'
  <2>1. ~failed /\ Len(sealed) < MaxSequence => supplied = taken + 0
    BY <1>1, <1>2 DEF WriterInv
  <2> QED
    BY SMT, <1>1, <1>3, <1>4, <2>1
<1>8. buf = <<>> /\ ~failed /\ ~fin
  BY <1>1, <1>2 DEF WriterInv
<1>9. ~closed' /\ ~failed' /\ ~fin'
  BY SMT, <1>1, <1>2, <1>8 DEF RecordTypes
<1>10. WriterInv'
  BY <1>1, <1>4, <1>7, <1>8, <1>9 DEF WriterInv
<1> QED
  BY <1>1, <1>5, <1>6, <1>10 DEF RInv, shown, reader

\* One record is sealed; it waits for the next write to the transport.
LEMMA SealKeeps ==
  ASSUME RInv, NEW chunk \in Nat, chunk > 0, NEW flush \in Nat,
         Seal(chunk, flush), layer = "raw" => Len(sealed) < MaxSequence,
         layer # "raw" => flush = 0
  PROVE  RInv' /\ Pipe!Put
<1> DEFINE c == Least(todo, chunk)
<1>1. /\ wpc = "seal" /\ Encrypt("data", c) /\ todo' = todo - c
      /\ wpc' = IF flush = 0 \/ Len(buf') >= flush \/ todo' = 0
                THEN "flush" ELSE "seal"
      /\ UNCHANGED <<layer, supplied, flushed, closed, failed, wire, fin, cut,
                     reader>>
  BY DEF Seal
<1>2. RecordTypes /\ WriterInv /\ SealedInv
  BY DEF RInv
<1>3. supplied \in Nat /\ taken \in Nat /\ todo \in Nat /\ todo > 0 /\ ~closed
      /\ Len(sealed) \in Nat
  BY <1>1, <1>2, LenProperties DEF RecordTypes, WriterInv
<1>4. c \in Nat /\ c > 0 /\ c # 0 /\ c <= todo
  BY SMT, <1>3 DEF Least
<1>5. layer # "raw" => buf = <<>>
  BY <1>1, <1>2 DEF WriterInv
<1> HIDE DEF c
<1>6. /\ sealed' \in Seq(Records) /\ taken' \in Nat /\ buf' \in Seq(UnitSet)
      /\ SealedInv' /\ BufInv' /\ WireInv' /\ ReaderInv' /\ PlaceInv'
      /\ ErrorInv' /\ Len(sealed') = Len(sealed) + 1 /\ taken' = taken + c
      /\ buf' # <<>>
  <2>1. UNCHANGED <<layer, failed, wire, fin, cut, reader>>
    BY <1>1
  <2>2. /\ "data" \in {"data", "end", "reset"}
        /\ c = 0 <=> "data" # "data"
        /\ ("data" # "data") => closed'
        /\ ("data" = "reset") => layer = "frame"
    BY <1>4
  <2> QED
    BY <1>1, <1>3, <1>4, <1>5, <2>1, <2>2, EncryptKeeps
<1>7. todo' \in Nat /\ (supplied = taken + todo => supplied = taken' + todo')
  BY SMT, <1>1, <1>3, <1>4, <1>6
<1>8. RecordTypes'
  BY <1>1, <1>2, <1>6, <1>7, WriterTypes DEF RecordTypes
<1>9. Len(sealed') < MaxSequence => Len(sealed) < MaxSequence
  BY SMT, <1>3, <1>6, RecordAssumption
<1>10. ~failed /\ ~fin
  BY <1>1, <1>2 DEF WriterInv
<1>11. ~closed' /\ ~failed' /\ ~fin'
  BY SMT, <1>1, <1>2, <1>3, <1>10 DEF RecordTypes
<1>12. wpc' = "seal" => todo' > 0 /\ layer' = "raw"
  <2>1. wpc' = "seal" => flush # 0 /\ todo' # 0
    BY <1>1
  <2>2. todo' # 0 => todo' > 0
    BY SMT, <1>7
  <2> QED
    BY <1>1, <2>1, <2>2
<1>13. wpc' \in {"seal", "flush"}
  BY <1>1
<1>14. /\ supplied' = supplied
       /\ Len(sealed') < MaxSequence => supplied = taken + todo
  BY <1>1, <1>2, <1>9, <1>10 DEF WriterInv
<1>15. WriterInv'
  BY <1>6, <1>7, <1>11, <1>12, <1>13, <1>14 DEF WriterInv
<1>16. Pipe!Put
  <2>1. taken' > taken
    BY SMT, <1>3, <1>4, <1>6
  <2>2. UNCHANGED <<~closed, delivered, term>>
    BY <1>3, <1>1, <1>11 DEF reader
  <2> QED
    BY <1>3, <1>6, <2>1, <2>2 DEF Pipe!Put
<1> QED
  BY <1>6, <1>8, <1>15, <1>16 DEF RInv

\* The record that ends the stream, or tells of a reset.
LEMMA EndKeeps ==
  ASSUME RInv, NEW type \in {"end", "reset"}, EndRecord(type),
         type = "reset" => layer = "frame",
         layer = "raw" => Len(sealed) < MaxSequence
  PROVE  RInv' /\ Pipe!CloseWrite
<1>1. /\ wpc = "idle" /\ ~closed /\ Encrypt(type, 0) /\ closed' = TRUE
      /\ wpc' = "end"
      /\ UNCHANGED <<layer, supplied, todo, flushed, failed, wire, fin, cut,
                     reader>>
  BY DEF EndRecord
<1>2. RecordTypes /\ WriterInv /\ SealedInv
  BY DEF RInv
<1>3. supplied \in Nat /\ taken \in Nat /\ todo \in Nat /\ Len(sealed) \in Nat
  BY <1>2, LenProperties DEF RecordTypes
<1>4. buf = <<>> /\ ~failed /\ ~fin
  BY <1>1, <1>2 DEF WriterInv
<1>5. /\ sealed' \in Seq(Records) /\ taken' \in Nat /\ buf' \in Seq(UnitSet)
      /\ SealedInv' /\ BufInv' /\ WireInv' /\ ReaderInv' /\ PlaceInv'
      /\ ErrorInv' /\ Len(sealed') = Len(sealed) + 1 /\ taken' = taken + 0
      /\ buf' # <<>> /\ sealed' # <<>> /\ sealed'[Len(sealed')].type = type
  <2>1. UNCHANGED <<layer, failed, wire, fin, cut, reader>>
    BY <1>1
  <2>2. /\ type \in {"data", "end", "reset"} /\ 0 \in Nat
        /\ 0 = 0 <=> type # "data"
    BY SMT
  <2> QED
    BY <1>1, <1>4, <2>1, <2>2, EncryptKeeps
<1>6. taken' = taken
  BY SMT, <1>3, <1>5
<1>7. RecordTypes'
  BY <1>1, <1>2, <1>5, WriterTypes DEF RecordTypes
<1>8. Len(sealed') < MaxSequence => Len(sealed) < MaxSequence
  BY SMT, <1>3, <1>5, RecordAssumption
<1>9. ~failed' /\ ~fin'
  BY SMT, <1>1, <1>2, <1>4 DEF RecordTypes
<1>10. Len(sealed') < MaxSequence => supplied = taken + todo /\ todo = 0
  BY <1>1, <1>2, <1>4, <1>8 DEF WriterInv
<1>11. WriterInv'
  BY <1>1, <1>5, <1>6, <1>9, <1>10 DEF WriterInv
<1>12. Pipe!CloseWrite
  BY <1>1, <1>6 DEF Pipe!CloseWrite, reader
<1> QED
  BY <1>5, <1>7, <1>11, <1>12 DEF RInv

\* A step that leaves the records and the reader alone moves nothing.
LEMMA SameReader ==
  ASSUME RInv, UNCHANGED <<layer, sealed, taken, reader>>, closed => closed'
  PROVE  /\ \A k : Begin(k)' = Begin(k) /\ BlockLen(k)' = BlockLen(k)
         /\ \A k, j : Unit(k, j)' = Unit(k, j)
         /\ SealedInv' /\ ReaderInv' /\ Base' = Base /\ term' = term
         /\ (Clean' => Clean) => PlaceInv' /\ ErrorInv'
<1>1. UNCHANGED <<layer, sealed, taken, skip, part, left, got, opened,
                  remaining, dec, delivered, term>>
  BY DEF reader, chunks, record
<1>2. /\ SealedInv /\ ReaderInv /\ PlaceInv /\ ErrorInv
  BY DEF RInv
<1>3. /\ \A k : Bytes(k)' = Bytes(k) /\ Begin(k)' = Begin(k)
                /\ BlockLen(k)' = BlockLen(k)
      /\ \A k, j : Unit(k, j)' = Unit(k, j)
      /\ \A k : Length(sealed[k])' = Length(sealed[k])
      /\ SealedInv'
  BY <1>2, SameRecords
<1>4. Base' = Base
  BY <1>1, <1>3 DEF Base
<1>5. ReaderInv'
  BY <1>1, <1>2, <1>3 DEF ReaderInv
<1>6. (Clean' => Clean) => PlaceInv'
  BY <1>1, <1>2, <1>3 DEF PlaceInv
<1>7. (Clean' => Clean) => ErrorInv'
  BY <1>1, <1>2 DEF ErrorInv, Sealed
<1> QED
  BY <1>1, <1>3, <1>4, <1>5, <1>6, <1>7

\* EncryptChunk has no nonce left.
LEMMA ExhaustedKeeps ==
  ASSUME RInv, RawExhausted
  PROVE  RInv' /\ UNCHANGED shown
<1>1. /\ layer = "raw" /\ wpc = "seal" /\ Len(sealed) = MaxSequence
      /\ wpc' = "idle" /\ buf' = <<>> /\ todo' = 0
      /\ UNCHANGED <<layer, supplied, taken, sealed, flushed, closed, failed,
                     wire, fin, cut, reader>>
  BY DEF RawExhausted
<1>2. RecordTypes /\ WriterInv
  BY DEF RInv
<1>3. ~(Len(sealed') < MaxSequence)
  BY SMT, <1>1, RecordAssumption
<1>4. <<>> \in Seq(UnitSet) /\ 0 \in Nat
  BY SMT
<1>5. RecordTypes'
  BY <1>1, <1>2, <1>4, WriterTypes DEF RecordTypes
<1>6. ~closed /\ ~failed /\ ~fin
  BY <1>1, <1>2 DEF WriterInv
<1>7. ~closed' /\ ~failed' /\ ~fin'
  BY SMT, <1>1, <1>2, <1>6 DEF RecordTypes
<1>8. ~Clean'
  BY <1>1, <1>3 DEF Clean
<1>9. WriterInv'
  BY <1>1, <1>2, <1>3, <1>7 DEF WriterInv
<1>10. SealedInv' /\ ReaderInv' /\ PlaceInv' /\ ErrorInv'
  BY <1>1, <1>6, <1>8, SameReader
<1>11. BufInv'
  <2>1. \A x \in 1..Len(buf') : FALSE
    BY SMT, <1>1
  <2> QED
    BY <1>1, <2>1 DEF BufInv
<1>12. WireInv'
  BY <1>1, <1>8 DEF WireInv
<1> QED
  BY <1>1, <1>5, <1>9, <1>10, <1>11, <1>12 DEF RInv, shown, reader

\* CloseWrite has no nonce left.
LEMMA EOFExhaustedKeeps ==
  ASSUME RInv, RawEOFExhausted
  PROVE  RInv' /\ Pipe!CloseWrite
<1>1. /\ layer = "raw" /\ wpc = "idle" /\ ~closed
      /\ Len(sealed) = MaxSequence /\ closed' = TRUE
      /\ UNCHANGED <<layer, wpc, supplied, todo, taken, sealed, buf, flushed,
                     failed, wire, fin, cut, reader>>
  BY DEF RawEOFExhausted
<1>2. RecordTypes /\ WriterInv
  BY DEF RInv
<1>3. ~(Len(sealed') < MaxSequence)
  BY SMT, <1>1, RecordAssumption
<1>4. RecordTypes'
  BY <1>1, <1>2, WriterTypes DEF RecordTypes
<1>5. ~failed /\ ~fin
  BY <1>1, <1>2 DEF WriterInv
<1>6. ~failed' /\ ~fin'
  BY SMT, <1>1, <1>2, <1>5 DEF RecordTypes
<1>7. WriterInv'
  BY <1>1, <1>2, <1>3, <1>6 DEF WriterInv, Clean
<1>8. /\ SealedInv' /\ BufInv' /\ WireInv' /\ ReaderInv' /\ PlaceInv'
      /\ ErrorInv'
  BY <1>1, SameWire DEF reader
<1>9. Pipe!CloseWrite
  BY <1>1 DEF Pipe!CloseWrite, reader
<1> QED
  BY <1>4, <1>7, <1>8, <1>9 DEF RInv

\* What the writer puts behind the units under way is what the reader finds
\* there.
LEMMA WireGrows ==
  ASSUME RInv, UNCHANGED <<layer, sealed, taken, reader>>, closed => closed',
         term = "none", OnWire, NEW t \in Seq(UnitSet), wire' = wire \o t,
         \A q \in 1..Len(t), k \in 1..Len(sealed) : \A j \in 1..BlockLen(k) :
           Begin(k) + j = Base + Len(wire) + q => t[q] = Unit(k, j)
  PROVE  OnWire'
<1>1. /\ \A k : Begin(k)' = Begin(k) /\ BlockLen(k)' = BlockLen(k)
      /\ \A k, j : Unit(k, j)' = Unit(k, j)
      /\ Base' = Base
  BY SameReader
<1>2. /\ Base \in Int /\ Len(wire) \in Nat /\ wire \in Seq(UnitSet)
  BY BaseType DEF RInv, RecordTypes
<1>3. /\ Len(wire') = Len(wire) + Len(t) /\ Len(t) \in Nat
      /\ \A i \in 1..Len(wire) : wire'[i] = wire[i]
      /\ \A i \in 1..Len(t) : wire'[Len(wire) + i] = t[i]
      /\ \A i \in 1..(Len(wire) + Len(t)) :
           i \in 1..Len(wire) \/ \E q \in 1..Len(t) : i = Len(wire) + q
  BY <1>2, ConcatParts
<1> SUFFICES ASSUME NEW i \in 1..Len(wire'), NEW k \in 1..Len(sealed'),
                    NEW j \in 1..BlockLen(k)', Begin(k)' + j = Base' + i
             PROVE  wire'[i] = Unit(k, j)'
  BY DEF OnWire
<1>4. /\ k \in 1..Len(sealed) /\ j \in 1..BlockLen(k) /\ Begin(k) + j = Base + i
      /\ Unit(k, j)' = Unit(k, j)
  BY <1>1
<1>5. CASE i \in 1..Len(wire)
  BY <1>3, <1>4, <1>5 DEF OnWire
<1>6. ASSUME NEW q \in 1..Len(t), i = Len(wire) + q
      PROVE  wire'[i] = Unit(k, j)'
  <2>1. Base + i = Base + Len(wire) + q
    BY SMT, <1>2, <1>3, <1>6
  <2>2. t[q] = Unit(k, j)
    BY <1>4, <2>1
  <2> QED
    BY <1>3, <1>4, <1>6, <2>2
<1> QED
  BY <1>3, <1>5, <1>6

\* What goes to the transport in one write: the units of the records that wait,
\* in h1session's case inside a chunk.
LEMMA ChunkedFacts ==
  ASSUME RecordTypes, SealedInv, BufInv, buf # <<>>
  PROVE  /\ Chunked(buf) \in Seq(UnitSet) /\ Len(Chunked(buf)) = Pending
         /\ Pending \in Nat /\ Len(buf) \in Nat
         /\ Begin(Len(sealed) + 1) \in Nat
         /\ \A q \in 1..Pending, k \in 1..Len(sealed) :
              \A j \in 1..BlockLen(k) :
                Begin(k) + j = Sent + q => Chunked(buf)[q] = Unit(k, j)
<1>1. /\ layer \in {"raw", "h1", "frame"} /\ sealed \in Seq(Records)
      /\ buf \in Seq(UnitSet) /\ Len(buf) \in Nat /\ Len(sealed) \in Nat
  BY LenProperties DEF RecordTypes
<1>2. Begin(Len(sealed) + 1) \in Nat
  <2>1. Len(sealed) + 1 \in 1..(Len(sealed) + 1)
    BY SMT, <1>1
  <2> QED
    BY <2>1, BlockFacts
<1>3. CASE layer # "h1"
  <2>1. Chunked(buf) = buf /\ Pending = Len(buf) + 0
    BY <1>3 DEF Chunked, Pending
  <2>2. Pending = Len(buf) /\ Pending \in Nat
    BY SMT, <1>1, <2>1
  <2>3. ASSUME NEW q \in 1..Pending, NEW k \in 1..Len(sealed),
               NEW j \in 1..BlockLen(k), Begin(k) + j = Sent + q
        PROVE  buf[q] = Unit(k, j)
    <3>1. buf[q] = <<"record", k, j>>
      BY <1>3, <2>2, <2>3 DEF BufInv, Sent
    <3> QED
      BY <1>3, <3>1 DEF Unit
  <2> QED
    BY <1>1, <1>2, <2>1, <2>2, <2>3
<1>4. CASE layer = "h1"
  <2>1. sealed # <<>> /\ buf = Units(Len(sealed), sealed[Len(sealed)])
    BY <1>4 DEF BufInv
  <2>2. PICK n \in 1..Len(sealed) : n = Len(sealed)
    <3>1. Len(sealed) \in 1..Len(sealed)
      BY SMT, <1>1, <2>1
    <3> QED
      BY <3>1
  <2>3. PICK c \in Nat : c = Length(sealed[n])
    BY <2>2, BlockFacts
  <2>4. buf = [i \in 1..c |-> <<"record", n, i>>]
    BY <2>1, <2>2, <2>3 DEF Units
  <2>5. Len(buf) = c
    BY SMT, <2>4
  <2>6. Pending = c + 4 /\ BlockLen(n) = c + 4
    BY <1>4, <2>3, <2>5 DEF Pending, BlockLen
  <2>7. Sent = Begin(n)
    <3>1. Begin(n + 1) = Begin(n) + BlockLen(n) /\ Begin(n) \in Nat
      <4>1. n \in 1..(Len(sealed) + 1)
        BY SMT, <1>1
      <4> QED
        BY <4>1, BlockFacts
    <3>2. Sent = Begin(n + 1) - Pending
      BY <2>2 DEF Sent
    <3> QED
      BY SMT, <2>6, <3>1, <3>2
  <2> DEFINE t == Line(c) \o buf \o CRLF
  <2>8. Chunked(buf) = t
    BY <1>4, <2>5 DEF Chunked
  <2>9. n \in Nat
    BY SMT, <1>1
  <2>10. Line(c) \in Seq(UnitSet) /\ CRLF \in Seq(UnitSet)
    <3>1. /\ <<"size", c, 1>> \in UnitSet /\ <<"size", c, 2>> \in UnitSet
          /\ <<"crlf", 0, 1>> \in UnitSet /\ <<"crlf", 0, 2>> \in UnitSet
      BY SMT DEF UnitSet
    <3> QED
      BY SMT, <3>1 DEF Line, CRLF
  <2>11. t \in Seq(UnitSet) /\ Len(t) = c + 4
    BY SMT, <1>1, <2>5, <2>10 DEF Line, CRLF
  <2>12. ASSUME NEW q \in 1..(c + 4)
         PROVE  t[q] = Unit(n, q)
    <3> DEFINE u == IF q <= 2 THEN <<"size", c, q>>
                    ELSE IF q <= c + 2 THEN <<"record", n, q - 2>>
                    ELSE <<"crlf", 0, q - (c + 2)>>
    <3>1. Unit(n, q) = u
      BY <1>4, <2>3 DEF Unit
    <3>2. CASE q <= 2
      <4>1. q = 1 \/ q = 2
        BY SMT, <3>2
      <4>2. t[1] = <<"size", c, 1>> /\ t[2] = <<"size", c, 2>>
        BY SMT, <1>1, <2>5 DEF Line, CRLF
      <4> QED
        BY <3>1, <3>2, <4>1, <4>2
    <3>3. CASE ~(q <= 2) /\ q <= c + 2
      <4>1. q - 2 \in 1..c
        BY SMT, <3>3
      <4>2. t[q] = buf[q - 2]
        BY SMT, <1>1, <2>5, <3>3 DEF Line, CRLF
      <4>3. buf[q - 2] = <<"record", n, q - 2>>
        BY <2>4, <4>1
      <4> QED
        BY <3>1, <3>3, <4>2, <4>3
    <3>4. CASE ~(q <= 2) /\ ~(q <= c + 2)
      <4>1. q - (c + 2) \in {1, 2}
        BY SMT, <3>4
      <4>2. t[q] = CRLF[q - (c + 2)]
        BY SMT, <1>1, <2>5, <3>4 DEF Line, CRLF
      <4>3. CRLF[1] = <<"crlf", 0, 1>> /\ CRLF[2] = <<"crlf", 0, 2>>
        BY SMT DEF CRLF
      <4> QED
        BY <3>1, <3>4, <4>1, <4>2, <4>3
    <3> QED
      BY <3>2, <3>3, <3>4
  <2> HIDE DEF t
  <2>13. ASSUME NEW q \in 1..Pending, NEW k \in 1..Len(sealed),
                NEW j \in 1..BlockLen(k), Begin(k) + j = Sent + q
         PROVE  t[q] = Unit(k, j)
    <3>1. /\ k \in 1..(Len(sealed) + 1) /\ n \in 1..(Len(sealed) + 1)
          /\ k = n \/ k < n
      BY SMT, <1>1, <2>2
    <3>2. /\ BlockLen(k) \in Nat /\ Begin(k) \in Nat /\ Begin(n) \in Nat
          /\ k < n => Begin(k) + BlockLen(k) <= Begin(n)
      BY <3>1, BlockFacts
    <3>3. q \in Nat /\ q >= 1 /\ j \in Nat /\ j <= BlockLen(k)
      BY SMT, <2>6, <3>2
    <3>4. k = n
      BY SMT, <2>7, <2>13, <3>1, <3>2, <3>3
    <3>5. j = q
      BY SMT, <2>7, <2>13, <3>2, <3>3, <3>4
    <3> QED
      BY <2>6, <2>12, <3>4, <3>5
  <2>14. Pending \in Nat
    BY SMT, <2>6
  <2> QED
    BY <1>1, <1>2, <2>6, <2>8, <2>11, <2>13, <2>14
<1> QED
  BY <1>3, <1>4

\* The writer writes t, a part of what waits, to the transport.
LEMMA FlushWire ==
  ASSUME RInv, UNCHANGED <<layer, sealed, taken, fin, cut, reader>>,
         closed => closed', wpc \in {"flush", "end"}, term = "none",
         NEW m \in Nat, m <= Len(Chunked(buf)), cut => m = 0,
         wire' = wire \o SubSeq(Chunked(buf), 1, m),
         Clean \/ layer = "frame"
  PROVE  /\ OnWire' /\ Base' = Base
         /\ layer = "frame" => Base' + Len(wire') <= Begin(Len(sealed) + 1)'
         /\ Clean => Base' + Len(wire') = Sent + m
<1>1. RecordTypes /\ SealedInv /\ WriterInv /\ BufInv /\ WireInv
  BY DEF RInv
<1>2. buf # <<>> /\ ~fin /\ ~failed
  BY <1>1 DEF WriterInv
<1>3. PICK t \in Seq(UnitSet) : t = Chunked(buf)
  BY <1>1, <1>2, ChunkedFacts
<1>4. /\ Len(t) = Pending /\ Pending \in Nat /\ Begin(Len(sealed) + 1) \in Nat
      /\ \A q \in 1..Pending, k \in 1..Len(sealed) : \A j \in 1..BlockLen(k) :
           Begin(k) + j = Sent + q => t[q] = Unit(k, j)
  BY <1>1, <1>2, <1>3, ChunkedFacts
<1>5. PICK u \in Seq(UnitSet) : u = SubSeq(t, 1, m)
  <2>1. SubSeq(t, 1, m) \in Seq(UnitSet)
    BY SMT, <1>3, <1>4
  <2> QED
    BY <2>1
<1>6. Len(u) = m /\ \A q \in 1..m : u[q] = t[q] /\ q \in 1..Pending
  BY SMT, <1>3, <1>4, <1>5
<1>7. Base \in Int /\ Len(wire) \in Nat /\ wire \in Seq(UnitSet)
  BY <1>1, BaseType DEF RInv, RecordTypes
<1>8. Sent = Begin(Len(sealed) + 1) - Pending
  BY DEF Sent
<1>9. Clean => Base + Len(wire) = Sent + 0
  BY <1>1, <1>2 DEF WireInv, LastLen
<1>10. layer = "frame" /\ ~Clean => m = 0
  BY <1>2 DEF Clean
<1>11. ASSUME NEW q \in 1..Len(u), NEW k \in 1..Len(sealed),
              NEW j \in 1..BlockLen(k), Begin(k) + j = Base + Len(wire) + q
       PROVE  u[q] = Unit(k, j)
  <2>1. m # 0
    BY SMT, <1>6
  <2>2. Sent + 0 = Sent
    BY SMT, <1>4, <1>8
  <2>3. Base + Len(wire) = Sent
    BY <1>9, <1>10, <2>1, <2>2
  <2> QED
    BY <1>4, <1>6, <1>11, <2>3
<1>12. wire' = wire \o u
  BY <1>3, <1>5
<1>13. OnWire
  BY <1>1 DEF WireInv
<1>14. OnWire'
  BY <1>11, <1>12, <1>13, WireGrows
<1>15. Base' = Base /\ Begin(Len(sealed) + 1)' = Begin(Len(sealed) + 1)
  BY SameReader
<1>16. Len(wire') = Len(wire) + m
  <2>1. Len(wire \o u) = Len(wire) + Len(u)
    BY <1>5, <1>7, ConcatParts
  <2> QED
    BY <1>6, <1>12, <2>1
<1>17. Clean => Base' + Len(wire') = Sent + m
  BY SMT, <1>4, <1>7, <1>8, <1>9, <1>15, <1>16
<1>18. layer = "frame" => Base + Len(wire) <= Begin(Len(sealed) + 1)
  BY <1>1 DEF WireInv
<1>19. layer = "frame" => Base' + Len(wire') <= Begin(Len(sealed) + 1)'
  <2>1. m <= Pending
    BY <1>3, <1>4
  <2>2. CASE Clean
    BY SMT, <1>4, <1>7, <1>8, <1>15, <1>17, <2>1, <2>2
  <2>3. CASE ~Clean
    BY SMT, <1>4, <1>7, <1>10, <1>15, <1>16, <1>18, <2>3
  <2> QED
    BY <2>2, <2>3
<1> QED
  BY <1>14, <1>15, <1>17, <1>19

\* The whole buffer is written.
LEMMA FlushKeeps ==
  ASSUME RInv, Flush
  PROVE  RInv' /\ UNCHANGED shown
<1>1. /\ wpc \in {"flush", "end"} /\ ~cut
      /\ wire' = wire \o Chunked(buf) /\ buf' = <<>> /\ flushed' = taken
      /\ wpc' = IF wpc = "end" THEN (IF layer = "frame" THEN "idle" ELSE "fin")
                ELSE IF todo > 0 THEN "seal" ELSE "idle"
      /\ UNCHANGED <<layer, supplied, todo, taken, sealed, closed, failed, fin,
                     cut, reader>>
  BY DEF Flush
<1>2. RecordTypes /\ SealedInv /\ WriterInv /\ BufInv /\ WireInv
  BY DEF RInv
<1>3. buf # <<>> /\ ~fin /\ ~failed
  BY <1>1, <1>2 DEF WriterInv
<1>4. PICK t \in Seq(UnitSet) : t = Chunked(buf)
  BY <1>2, <1>3, ChunkedFacts
<1>5. /\ Len(t) = Pending /\ Pending \in Nat /\ Begin(Len(sealed) + 1) \in Nat
  BY <1>2, <1>3, <1>4, ChunkedFacts
<1>6. SubSeq(t, 1, Pending) = t
  BY SMT, <1>4, <1>5
<1>7. wire' \in Seq(UnitSet)
  BY <1>1, <1>2, <1>4, ConcatParts DEF RecordTypes
<1>8. <<>> \in Seq(UnitSet)
  BY SMT
<1>9. RecordTypes'
  BY <1>1, <1>2, <1>7, <1>8, WriterTypes DEF RecordTypes
<1>10. ~failed' /\ ~fin' /\ ~cut'
  BY SMT, <1>1, <1>2, <1>3 DEF RecordTypes
<1>11. closed' = closed /\ closed \in BOOLEAN /\ (Clean' <=> Clean)
  BY <1>1, <1>2, <1>3, <1>10 DEF RecordTypes, Clean
<1>12. WriterInv'
  <2>1. todo \in Nat
    BY <1>2 DEF RecordTypes
  <2>2. ~(todo > 0) => todo = 0
    BY SMT, <2>1
  <2>3. /\ wpc' = "seal" => wpc = "flush" /\ todo > 0
        /\ wpc' = "fin" => wpc = "end"
        /\ wpc' = "idle" => (wpc = "flush" /\ todo = 0) \/ wpc = "end"
        /\ wpc' \in {"idle", "seal", "fin"}
    BY <1>1, <2>2
  <2>4. /\ wpc \in {"seal", "flush"} => ~closed
        /\ wpc \in {"end", "fin"} => closed
        /\ closed /\ Clean =>
             sealed # <<>> /\ sealed[Len(sealed)].type # "data"
        /\ Len(sealed) < MaxSequence =>
             supplied = taken + todo /\ (wpc = "end" => todo = 0)
    BY <1>2, <1>3 DEF WriterInv
  <2>5. /\ wpc' \in {"seal", "flush"} => closed' = FALSE
        /\ wpc' \in {"end", "fin"} => closed' = TRUE
    BY <1>1, <1>11, <2>3, <2>4
  <2>6. closed' /\ Clean' => closed /\ Clean
    BY SMT, <1>11
  <2> QED
    BY <1>1, <1>10, <2>2, <2>3, <2>4, <2>5, <2>6 DEF WriterInv
<1>13. closed => closed'
  BY SMT, <1>11
<1>14. SealedInv' /\ ReaderInv' /\ PlaceInv' /\ ErrorInv' /\ term' = term
       /\ Begin(Len(sealed) + 1)' = Begin(Len(sealed) + 1)
  BY <1>1, <1>11, <1>13, SameReader
<1>15. BufInv'
  <2>1. \A x \in 1..Len(buf') : FALSE
    BY SMT, <1>1
  <2> QED
    BY <1>1, <2>1 DEF BufInv
<1>16. ASSUME term = "none", Clean \/ layer = "frame"
       PROVE  /\ OnWire'
              /\ layer = "frame" =>
                   Base' + Len(wire') <= Begin(Len(sealed) + 1)'
              /\ Clean => Base' + Len(wire') = Sent + Pending
  <2>1. PICK m \in Nat : m = Pending
    BY <1>5
  <2>2. /\ UNCHANGED <<layer, sealed, taken, fin, cut, reader>>
        /\ m <= Len(Chunked(buf)) /\ ~cut
        /\ wire' = wire \o SubSeq(Chunked(buf), 1, m)
    <3>1. Pending <= Len(t)
      BY SMT, <1>5
    <3> QED
      BY <1>1, <1>4, <1>6, <2>1, <3>1
  <2>3. /\ OnWire'
        /\ layer = "frame" => Base' + Len(wire') <= Begin(Len(sealed) + 1)'
        /\ Clean => Base' + Len(wire') = Sent + m
    BY <1>1, <1>13, <1>16, <2>1, <2>2, FlushWire
  <2> QED
    BY <2>1, <2>3
<1>17. Sent + Pending = Sent' + LastLen'
  <2>1. Len(buf') = 0
    BY SMT, <1>1
  <2>2. Pending' = 0 + 0 /\ LastLen' = 0
    BY <1>1, <1>10, <2>1 DEF Pending, LastLen
  <2>3. /\ Sent = Begin(Len(sealed) + 1) - Pending
        /\ Sent' = Begin(Len(sealed) + 1) - Pending'
    BY <1>14 DEF Sent
  <2> QED
    BY SMT, <1>5, <2>2, <2>3
<1>18. WireInv'
  BY <1>1, <1>11, <1>14, <1>16, <1>17 DEF WireInv
<1>19. UNCHANGED shown
  BY <1>1 DEF shown, reader
<1> QED
  BY <1>9, <1>12, <1>14, <1>15, <1>18, <1>19 DEF RInv

\* A write goes wrong after m units.
LEMMA FlushFailsKeeps ==
  ASSUME RInv, NEW m \in Nat, FlushFails(m)
  PROVE  RInv' /\ (Pipe!CloseWrite \/ UNCHANGED shown)
<1>1. /\ wpc \in {"flush", "end"} /\ m < Len(Chunked(buf)) /\ (cut => m = 0)
      /\ wire' = wire \o SubSeq(Chunked(buf), 1, m) /\ buf' = <<>>
      /\ failed' = TRUE /\ closed' = TRUE /\ wpc' = "idle" /\ todo' = 0
      /\ UNCHANGED <<layer, supplied, taken, sealed, flushed, fin, cut, reader>>
  BY DEF FlushFails
<1>2. RecordTypes /\ SealedInv /\ WriterInv /\ BufInv /\ WireInv
  BY DEF RInv
<1>3. buf # <<>>
  BY <1>1, <1>2 DEF WriterInv
<1>4. PICK t \in Seq(UnitSet) : t = Chunked(buf) /\ Len(t) \in Nat
  BY <1>2, <1>3, ChunkedFacts
<1>5. SubSeq(t, 1, m) \in Seq(UnitSet) /\ m <= Len(t)
  BY SMT, <1>1, <1>4
<1>6. wire' \in Seq(UnitSet) /\ <<>> \in Seq(UnitSet) /\ 0 \in Nat
  <2>1. <<>> \in Seq(UnitSet) /\ 0 \in Nat
    BY SMT
  <2> QED
    BY <1>1, <1>2, <1>4, <1>5, <2>1, ConcatParts DEF RecordTypes
<1>7. RecordTypes'
  BY <1>1, <1>2, <1>6, WriterTypes DEF RecordTypes
<1>8. ~Clean'
  BY <1>1 DEF Clean
<1>9. WriterInv'
  BY <1>1, <1>8 DEF WriterInv
<1>10. SealedInv' /\ ReaderInv' /\ PlaceInv' /\ ErrorInv' /\ term' = term
  BY <1>1, <1>8, SameReader
<1>11. BufInv'
  <2>1. \A x \in 1..Len(buf') : FALSE
    BY SMT, <1>1
  <2> QED
    BY <1>1, <2>1 DEF BufInv
<1>12. ASSUME term = "none", layer = "frame"
       PROVE  OnWire' /\ Base' + Len(wire') <= Begin(Len(sealed) + 1)'
  <2>1. UNCHANGED <<layer, sealed, taken, fin, cut, reader>>
        /\ m <= Len(Chunked(buf))
    BY <1>1, <1>4, <1>5
  <2> QED
    BY <1>1, <1>12, <2>1, FlushWire
<1>13. WireInv'
  BY <1>1, <1>8, <1>10, <1>12 DEF WireInv
<1>14. Pipe!CloseWrite \/ UNCHANGED shown
  <2>1. CASE closed
    <3>1. ~closed' <=> ~closed
      BY <1>1, <2>1
    <3> QED
      BY <1>1, <3>1 DEF shown, reader
  <2>2. CASE ~closed
    BY <1>1, <2>2 DEF Pipe!CloseWrite, reader
  <2> QED
    BY <2>1, <2>2
<1> QED
  BY <1>7, <1>9, <1>10, <1>11, <1>13, <1>14 DEF RInv

\* CloseWrite goes on to the transport.
LEMMA CloseKeeps ==
  ASSUME RInv, CloseTransport
  PROVE  RInv' /\ UNCHANGED shown
<1>1. /\ layer # "frame" /\ ~fin
      /\ wpc = "fin" \/ (wpc = "idle" /\ closed)
      /\ wpc' = "idle" /\ fin' = TRUE
      /\ wire' = IF layer = "h1" /\ ~cut THEN wire \o LastChunk ELSE wire
      /\ UNCHANGED <<layer, supplied, todo, taken, sealed, buf, flushed, closed,
                     failed, cut, reader>>
  BY DEF CloseTransport
<1>2. RecordTypes /\ SealedInv /\ WriterInv /\ BufInv /\ WireInv /\ ReaderInv
  BY DEF RInv
<1>3. /\ closed' = closed /\ failed' = failed /\ cut' = cut
      /\ closed \in BOOLEAN /\ failed \in BOOLEAN /\ cut \in BOOLEAN
  BY <1>1, <1>2 DEF RecordTypes
<1>4. closed /\ buf = <<>>
  BY <1>1, <1>2 DEF WriterInv
<1>5. closed' /\ (failed' <=> failed) /\ (cut' <=> cut)
  BY SMT, <1>3, <1>4
<1>6. Clean' <=> Clean
  BY <1>1, <1>5 DEF Clean
<1>7. LastChunk \in Seq(UnitSet) /\ Len(LastChunk) = 4
  <2>1. /\ <<"size", 0, 1>> \in UnitSet /\ <<"size", 0, 2>> \in UnitSet
        /\ <<"crlf", 0, 1>> \in UnitSet /\ <<"crlf", 0, 2>> \in UnitSet
    BY SMT DEF UnitSet
  <2> QED
    BY SMT, <2>1 DEF LastChunk, Line, CRLF
<1>8. wire' \in Seq(UnitSet)
  BY <1>1, <1>2, <1>7, ConcatParts DEF RecordTypes
<1>9. fin' \in BOOLEAN
  BY <1>1
<1>10. RecordTypes'
  BY <1>1, <1>2, <1>3, <1>8, <1>9, WriterTypes DEF RecordTypes
<1>11. WriterInv'
  <2>1. /\ closed /\ Clean => sealed # <<>> /\ sealed[Len(sealed)].type # "data"
        /\ ~failed /\ Len(sealed) < MaxSequence =>
             supplied = taken + todo /\ todo = 0 /\ flushed = taken
    BY <1>1, <1>2 DEF WriterInv
  <2> QED
    BY <1>1, <1>4, <1>5, <1>6, <2>1 DEF WriterInv
<1>12. /\ SealedInv' /\ ReaderInv' /\ PlaceInv' /\ ErrorInv' /\ term' = term
       /\ \A k : Begin(k)' = Begin(k) /\ BlockLen(k)' = BlockLen(k)
       /\ Base' = Base
  BY <1>1, <1>5, <1>6, SameReader
<1>13. BufInv'
  <2>1. \A x \in 1..Len(buf') : FALSE
    BY SMT, <1>1, <1>4
  <2> QED
    BY <1>1, <1>4, <2>1 DEF BufInv
<1>14. ASSUME term = "none", Clean
       PROVE  OnWire' /\ Base' + Len(wire') = Sent' + LastLen'
  <2>1. /\ Base \in Int /\ Len(wire) \in Nat /\ Len(sealed) \in Nat
        /\ Len(sealed) + 1 \in 1..(Len(sealed) + 1)
        /\ wire \in Seq(UnitSet)
    <3>1. Len(sealed) \in Nat
      BY <1>2, BlockFacts
    <3>2. Len(sealed) + 1 \in 1..(Len(sealed) + 1)
      BY SMT, <3>1
    <3> QED
      BY <1>2, <1>14, <3>1, <3>2, BaseType DEF RecordTypes
  <2>2. PICK z \in Nat : z = Begin(Len(sealed) + 1)
    BY <1>2, <2>1, BlockFacts
  <2>3. Len(buf) = 0
    BY SMT, <1>4
  <2>4. Pending = 0 + 0 /\ LastLen = 0
    BY <1>1, <1>4, <2>3 DEF Pending, LastLen
  <2>5. Sent = z - 0
    <3>1. 0 + 0 = 0
      BY SMT
    <3> QED
      BY <2>2, <2>4, <3>1 DEF Sent
  <2>6. Base + Len(wire) = z
    <3>1. Base + Len(wire) = (z - 0) + 0
      BY <1>2, <1>14, <2>4, <2>5 DEF WireInv
    <3> QED
      BY SMT, <3>1
  <2>7. Sent' = z - 0
    <3>1. Pending' = Pending /\ Begin(Len(sealed) + 1)' = Begin(Len(sealed) + 1)
      BY <1>1, <1>12 DEF Pending
    <3> QED
      BY <2>5, <3>1 DEF Sent
  <2>8. OnWire
    BY <1>2, <1>14 DEF WireInv
  <2>9. CASE layer = "h1"
    <3>1. wire' = wire \o LastChunk
      BY <1>1, <1>14, <2>9 DEF Clean
    <3>2. ASSUME NEW q \in 1..Len(LastChunk), NEW k \in 1..Len(sealed),
                 NEW j \in 1..BlockLen(k), Begin(k) + j = Base + Len(wire) + q
          PROVE  LastChunk[q] = Unit(k, j)
      <4>1. k \in 1..(Len(sealed) + 1) /\ k < Len(sealed) + 1
        BY SMT, <2>1
      <4>2. /\ Begin(k) \in Nat /\ BlockLen(k) \in Nat
            /\ Begin(k) + BlockLen(k) <= z
        BY <1>2, <2>1, <2>2, <4>1, BlockFacts
      <4> QED
        BY SMT, <1>7, <2>6, <3>2, <4>2
    <3>3. OnWire'
      BY <1>1, <1>5, <1>7, <1>14, <2>8, <3>1, <3>2, WireGrows
    <3>4. Len(wire') = Len(wire) + 4
      <4>1. Len(wire \o LastChunk) = Len(wire) + Len(LastChunk)
        BY <1>7, <2>1, ConcatParts
      <4> QED
        BY <1>7, <3>1, <4>1
    <3>5. LastLen' = 4
      BY <1>1, <2>9 DEF LastLen
    <3> QED
      BY SMT, <1>12, <2>1, <2>6, <2>7, <3>3, <3>4, <3>5
  <2>10. CASE layer # "h1"
    <3>1. wire' = wire /\ LastLen' = 0
      BY <1>1, <2>10 DEF LastLen
    <3>2. OnWire'
      <4>1. \A k, j : Unit(k, j)' = Unit(k, j)
        BY <1>1, <1>5, SameReader
      <4> SUFFICES ASSUME NEW i \in 1..Len(wire'), NEW k \in 1..Len(sealed'),
                          NEW j \in 1..BlockLen(k)', Begin(k)' + j = Base' + i
                   PROVE  wire'[i] = Unit(k, j)'
        BY DEF OnWire
      <4>2. /\ i \in 1..Len(wire) /\ k \in 1..Len(sealed)
            /\ j \in 1..BlockLen(k) /\ Begin(k) + j = Base + i
        BY <1>1, <1>12, <3>1
      <4> QED
        BY <2>8, <3>1, <4>1, <4>2 DEF OnWire
    <3> QED
      BY SMT, <1>12, <2>1, <2>6, <2>7, <3>1, <3>2
  <2> QED
    BY <2>9, <2>10
<1>15. WireInv'
  BY <1>1, <1>6, <1>12, <1>14 DEF WireInv
<1>16. UNCHANGED shown
  BY <1>1 DEF shown, reader
<1> QED
  BY <1>10, <1>11, <1>12, <1>13, <1>15, <1>16 DEF RInv

\* The connection breaks.
LEMMA CutKeeps ==
  ASSUME RInv, NEW m \in Nat, Cut(m)
  PROVE  RInv' /\ UNCHANGED shown
<1>1. /\ m <= Len(wire) /\ cut' = TRUE /\ wire' = SubSeq(wire, 1, m)
      /\ UNCHANGED <<layer, writer, fin, reader>>
  BY DEF Cut
<1>2. UNCHANGED <<wpc, supplied, todo, taken, sealed, buf, flushed, closed,
                  failed>>
  BY <1>1 DEF writer
<1>3. RecordTypes /\ SealedInv /\ WriterInv /\ BufInv /\ WireInv /\ ReaderInv
  BY DEF RInv
<1>4. wire \in Seq(UnitSet) /\ Len(wire) \in Nat
  BY <1>3, LenProperties DEF RecordTypes
<1>5. /\ wire' \in Seq(UnitSet) /\ Len(wire') = m
      /\ \A i \in 1..m : i \in 1..Len(wire) /\ wire'[i] = wire[i]
  BY SMT, <1>1, <1>4
<1>6. cut' \in BOOLEAN
  BY <1>1
<1>7. RecordTypes'
  BY <1>1, <1>2, <1>3, <1>5, <1>6, WriterTypes DEF RecordTypes
<1>8. ~Clean'
  BY <1>1 DEF Clean
<1>9. /\ closed' = closed /\ failed' = failed /\ fin' = fin
      /\ closed \in BOOLEAN /\ failed \in BOOLEAN /\ fin \in BOOLEAN
  BY <1>1, <1>2, <1>3 DEF RecordTypes
<1>10. (closed' <=> closed) /\ (failed' <=> failed) /\ (fin' <=> fin)
  BY SMT, <1>9
<1>11. WriterInv'
  BY <1>2, <1>1, <1>3, <1>8, <1>10 DEF WriterInv
<1>12. /\ SealedInv' /\ ReaderInv' /\ PlaceInv' /\ ErrorInv' /\ term' = term
       /\ \A k : Begin(k)' = Begin(k) /\ BlockLen(k)' = BlockLen(k)
       /\ \A k, j : Unit(k, j)' = Unit(k, j)
       /\ Base' = Base
  BY <1>1, <1>2, <1>8, <1>10, SameReader
<1>13. BufInv'
  <2>1. Units(Len(sealed), sealed[Len(sealed)])'
          = Units(Len(sealed), sealed[Len(sealed)])
    BY <1>1, <1>2 DEF Units, Length
  <2> QED
    BY <1>1, <1>2, <1>3, <1>12, <2>1 DEF BufInv
<1>14. ASSUME term = "none", layer = "frame"
       PROVE  OnWire' /\ Base' + Len(wire') <= Begin(Len(sealed) + 1)'
  <2>1. OnWire /\ Base + Len(wire) <= Begin(Len(sealed) + 1)
    BY <1>3, <1>14 DEF WireInv
  <2>2. /\ Begin(Len(sealed) + 1)' = Begin(Len(sealed) + 1)
    BY <1>2, <1>12
  <2>3. Base \in Int
    BY <1>3, <1>14, BaseType
  <2>4. Begin(Len(sealed) + 1) \in Nat
    <3>1. Len(sealed) \in Nat
      BY <1>3, BlockFacts
    <3>2. Len(sealed) + 1 \in 1..(Len(sealed) + 1)
      BY SMT, <3>1
    <3> QED
      BY <1>3, <3>2, BlockFacts
  <2>5. Base' + Len(wire') <= Begin(Len(sealed) + 1)'
    BY SMT, <1>1, <1>4, <1>5, <1>12, <2>1, <2>2, <2>3, <2>4
  <2>6. OnWire'
    <3> SUFFICES ASSUME NEW i \in 1..Len(wire'), NEW k \in 1..Len(sealed'),
                        NEW j \in 1..BlockLen(k)', Begin(k)' + j = Base' + i
                 PROVE  wire'[i] = Unit(k, j)'
      BY DEF OnWire
    <3>1. /\ i \in 1..Len(wire) /\ wire'[i] = wire[i] /\ k \in 1..Len(sealed)
          /\ j \in 1..BlockLen(k) /\ Begin(k) + j = Base + i
      BY <1>2, <1>5, <1>12
    <3>2. wire[i] = Unit(k, j)
      BY <2>1, <3>1 DEF OnWire
    <3> QED
      BY <1>12, <3>1, <3>2
  <2> QED
    BY <2>5, <2>6
<1>15. WireInv'
  BY <1>1, <1>8, <1>12, <1>14 DEF WireInv
<1>16. UNCHANGED shown
  BY <1>1, <1>2 DEF shown, reader
<1> QED
  BY <1>7, <1>11, <1>12, <1>13, <1>15, <1>16 DEF RInv

\* A step of the reader leaves the records and what waits for them alone.
LEMMA SameWriter ==
  ASSUME RInv, UNCHANGED <<layer, writer, fin, cut>>
  PROVE  /\ SealedInv' /\ WriterInv' /\ BufInv' /\ (Clean' <=> Clean)
         /\ Sent' = Sent /\ LastLen' = LastLen
         /\ \A k : Bytes(k)' = Bytes(k) /\ Begin(k)' = Begin(k)
                   /\ BlockLen(k)' = BlockLen(k)
         /\ \A k, j : Unit(k, j)' = Unit(k, j)
         /\ \A k : Length(sealed[k])' = Length(sealed[k])
         /\ sealed' = sealed /\ taken' = taken /\ layer' = layer
         /\ (closed' <=> closed) /\ (Sealed("reset")' <=> Sealed("reset"))
<1>1. UNCHANGED <<wpc, supplied, todo, taken, sealed, buf, flushed, closed,
                  failed, layer, fin, cut>>
  BY DEF writer
<1>2. RecordTypes /\ SealedInv /\ WriterInv /\ BufInv
  BY DEF RInv
<1>3. /\ closed' = closed /\ failed' = failed /\ fin' = fin /\ cut' = cut
      /\ closed \in BOOLEAN /\ failed \in BOOLEAN /\ fin \in BOOLEAN
      /\ cut \in BOOLEAN
  BY <1>1, <1>2 DEF RecordTypes
<1>4. /\ (closed' <=> closed) /\ (failed' <=> failed) /\ (fin' <=> fin)
      /\ (cut' <=> cut)
  BY SMT, <1>3
<1>5. /\ \A k : Bytes(k)' = Bytes(k) /\ Begin(k)' = Begin(k)
                /\ BlockLen(k)' = BlockLen(k)
      /\ \A k, j : Unit(k, j)' = Unit(k, j)
      /\ \A k : Length(sealed[k])' = Length(sealed[k])
      /\ SealedInv'
  BY <1>1, <1>2, <1>4, SameRecords
<1>6. Clean' <=> Clean
  BY <1>1, <1>4 DEF Clean
<1>7. Sent' = Sent
  BY <1>1, <1>5 DEF Sent, Pending
<1>8. LastLen' = LastLen
  BY <1>1, <1>4 DEF LastLen
<1>9. BufInv'
  <2>1. Units(Len(sealed), sealed[Len(sealed)])'
          = Units(Len(sealed), sealed[Len(sealed)])
    BY <1>1 DEF Units, Length
  <2> QED
    BY <1>1, <1>2, <1>5, <2>1 DEF BufInv
<1>10. WriterInv'
  BY <1>1, <1>2, <1>4, <1>6 DEF WriterInv
<1> QED
  BY <1>1, <1>4, <1>5, <1>6, <1>7, <1>8, <1>9, <1>10 DEF Sealed

\* The reader takes m units and moves on by as many.
LEMMA WireShrinks ==
  ASSUME RInv, UNCHANGED <<layer, writer, fin, cut>>, term = "none",
         NEW m \in Nat, Len(wire') \in Nat, Len(wire) = m + Len(wire'),
         \A i \in 1..Len(wire') : wire'[i] = wire[m + i],
         Clean \/ layer = "frame" => Base' = Base + m
  PROVE  WireInv'
<1>1. /\ \A k : Begin(k)' = Begin(k) /\ BlockLen(k)' = BlockLen(k)
      /\ \A k, j : Unit(k, j)' = Unit(k, j)
      /\ sealed' = sealed /\ layer' = layer /\ Sent' = Sent
      /\ LastLen' = LastLen /\ (Clean' <=> Clean)
  BY SameWriter
<1>2. RecordTypes /\ SealedInv /\ ReaderInv /\ WireInv
  BY DEF RInv
<1>3. Base \in Int /\ Len(wire) \in Nat
  BY <1>2, BaseType
<1>4. Clean \/ layer = "frame" => Base' + Len(wire') = Base + Len(wire)
  BY SMT, <1>3
<1>5. ASSUME Clean \/ layer = "frame"
      PROVE  OnWire'
  <2>1. OnWire
    BY <1>2, <1>5 DEF WireInv
  <2> SUFFICES ASSUME NEW i \in 1..Len(wire'), NEW k \in 1..Len(sealed'),
                      NEW j \in 1..BlockLen(k)', Begin(k)' + j = Base' + i
               PROVE  wire'[i] = Unit(k, j)'
    BY DEF OnWire
  <2>2. /\ k \in 1..Len(sealed) /\ j \in 1..BlockLen(k)
        /\ Begin(k) + j = (Base + m) + i /\ Unit(k, j)' = Unit(k, j)
    BY <1>1, <1>5
  <2>3. m + i \in 1..Len(wire) /\ (Base + m) + i = Base + (m + i)
    BY SMT, <1>3
  <2>4. wire[m + i] = Unit(k, j)
    BY <2>1, <2>2, <2>3 DEF OnWire
  <2> QED
    BY <2>2, <2>4
<1> QED
  BY <1>1, <1>2, <1>4, <1>5 DEF WireInv

\* The unit read next, when nothing has gone wrong: the next one of record k.
LEMMA NextUnit ==
  ASSUME RInv, term = "none", Clean \/ layer = "frame", wire # <<>>,
         NEW k \in 1..Len(sealed), NEW j \in 1..BlockLen(k),
         Begin(k) + j = Base + 1
  PROVE  Head(wire) = Unit(k, j)
<1>1. OnWire
  BY DEF RInv, WireInv
<1>2. wire \in Seq(UnitSet)
  BY DEF RInv, RecordTypes
<1>3. 1 \in 1..Len(wire) /\ Head(wire) = wire[1]
  BY SMT, <1>2
<1> QED
  BY <1>1, <1>3 DEF OnWire

\* A read that times out changes nothing the next one depends on.
LEMMA TimeoutKeeps ==
  ASSUME RInv, Timeout
  PROVE  RInv' /\ UNCHANGED shown
<1>1. UNCHANGED <<layer, writer, wire, fin, cut, chunks, record, dec, delivered,
                  term>>
  BY DEF Timeout
<1>2. /\ SealedInv' /\ WriterInv' /\ BufInv' /\ sealed' = sealed
      /\ taken' = taken /\ (closed' <=> closed)
  BY <1>1, SameWriter
<1>3. failed' = failed /\ buf' = buf
  BY <1>1 DEF writer
<1>4. WireInv' /\ ReaderInv' /\ PlaceInv' /\ ErrorInv'
  BY <1>1, <1>2, <1>3, SameWire
<1>5. RecordTypes'
  BY <1>1, ReaderTypes DEF RInv, RecordTypes, chunks, record
<1>6. ~closed' <=> ~closed
  BY <1>2
<1> QED
  BY <1>1, <1>2, <1>4, <1>5, <1>6 DEF RInv, shown

\* A Read copies decrypted bytes.
LEMMA DeliverKeeps ==
  ASSUME RInv, NEW m \in Nat, m > 0, Deliver(m)
  PROVE  RInv' /\ Pipe!Get
<1>1. /\ m <= Len(dec) /\ delivered' = delivered \o SubSeq(dec, 1, m)
      /\ dec' = SubSeq(dec, m + 1, Len(dec))
      /\ UNCHANGED <<layer, writer, wire, fin, cut, skip, part, left, got,
                     opened, remaining, term>>
  BY DEF Deliver, chunks, record
<1>2. /\ RecordTypes /\ SealedInv /\ ReaderInv /\ WireInv /\ PlaceInv
      /\ ErrorInv
  BY DEF RInv
<1>3. /\ dec \in Seq(Nat) /\ delivered \in Seq(Nat) /\ Len(dec) \in Nat
      /\ Len(delivered) \in Nat /\ remaining \in Nat /\ taken \in Nat
  BY <1>2, LenProperties DEF RecordTypes
<1>4. PICK d \in Nat : d = Len(delivered)
  BY <1>3
<1>5. dec # <<>>
  BY SMT, <1>1, <1>3
<1>6. /\ term = "none" /\ \A i \in 1..Len(dec) : dec[i] = d + i
      /\ Bytes(opened + 1) = d + Len(dec) + remaining
  BY <1>2, <1>4, <1>5 DEF ReaderInv
<1>7. /\ dec' \in Seq(Nat) /\ Len(dec') = Len(dec) - m
      /\ \A i \in 1..Len(dec') : i \in Nat /\ m + i \in 1..Len(dec)
                                 /\ dec'[i] = dec[m + i]
  <2>1. dec' \in Seq(Nat) /\ Len(dec') = Len(dec) - m
    BY SMT, <1>1, <1>3
  <2>2. ASSUME NEW i \in 1..Len(dec')
        PROVE  i \in Nat /\ m + i \in 1..Len(dec) /\ dec'[i] = dec[m + i]
    <3>1. i \in Nat /\ m + i \in 1..Len(dec) /\ m + i = (m + 1) + i - 1
      BY SMT, <1>1, <1>3, <2>1, <2>2
    <3>2. SubSeq(dec, m + 1, Len(dec))
            = [j \in 1..(Len(dec) - m) |-> dec[(m + 1) + j - 1]]
      BY SMT, <1>1, <1>3
    <3>3. i \in 1..(Len(dec) - m)
      BY <2>1, <2>2
    <3> QED
      BY <1>1, <3>1, <3>2, <3>3
  <2> QED
    BY <2>1, <2>2
<1>8. SubSeq(dec, 1, m) = [i \in 1..m |-> d + i]
  <2>1. \A i \in 1..m : i \in 1..Len(dec)
    BY SMT, <1>1, <1>3
  <2>2. SubSeq(dec, 1, m) = [i \in 1..m |-> dec[i]]
    BY SMT, <1>1, <1>3
  <2> QED
    BY <1>6, <2>1, <2>2
<1>9. delivered' \in Seq(Nat) /\ Len(delivered') = d + m
  <2>1. [i \in 1..m |-> d + i] \in Seq(Nat)
    BY SMT
  <2>2. Len([i \in 1..m |-> d + i]) = m
    BY SMT
  <2> QED
    BY SMT, <1>1, <1>3, <1>4, <1>8, <2>1, <2>2
<1>10. \A i \in 1..Len(dec') : dec'[i] = Len(delivered') + i
  <2>1. \A i \in 1..Len(dec') : d + (m + i) = (d + m) + i
    BY SMT, <1>7
  <2> QED
    BY <1>6, <1>7, <1>9, <2>1
<1>11. Len(delivered') + Len(dec') + remaining = d + Len(dec) + remaining
  BY SMT, <1>3, <1>7, <1>9
<1>12. /\ SealedInv' /\ WriterInv' /\ BufInv' /\ (Clean' <=> Clean)
       /\ \A k : Bytes(k)' = Bytes(k) /\ Begin(k)' = Begin(k)
       /\ \A k : Length(sealed[k])' = Length(sealed[k])
       /\ sealed' = sealed /\ taken' = taken /\ (closed' <=> closed)
       /\ (Sealed("reset")' <=> Sealed("reset"))
  BY <1>1, SameWriter
<1>13. layer # "frame"
  BY <1>2, <1>5 DEF ReaderInv
<1>14. ReaderInv'
  <2>1. /\ opened <= Len(sealed) /\ \A k \in 1..opened : sealed[k].type = "data"
        /\ layer # "frame" => remaining = 0
        /\ layer # "h1" => skip = "none"
        /\ remaining > 0 =>
             got = <<>> /\ opened > 0 /\ remaining <= sealed[opened].len
    BY <1>2, <1>6 DEF ReaderInv
  <2> QED
    BY <1>1, <1>6, <1>10, <1>11, <1>12, <1>13, <2>1 DEF ReaderInv
<1>15. PlaceInv'
  BY <1>1, <1>2, <1>12 DEF PlaceInv
<1>16. ErrorInv'
  BY <1>1, <1>6 DEF ErrorInv
<1>17. WireInv'
  <2>1. Base' = Base
    BY <1>1, <1>12 DEF Base
  <2>2. /\ Base \in Int /\ Len(wire) \in Nat
    BY <1>2, <1>6, BaseType
  <2>3. /\ Base' = Base + 0 /\ Len(wire) = 0 + Len(wire') /\ Len(wire') \in Nat
        /\ \A i \in 1..Len(wire') : 0 + i = i
    BY SMT, <1>1, <2>1, <2>2
  <2>4. \A i \in 1..Len(wire') : wire'[i] = wire[0 + i]
    BY <1>1, <2>3
  <2>5. 0 \in Nat
    BY SMT
  <2> QED
    BY <1>1, <1>6, <2>3, <2>4, <2>5, WireShrinks
<1>18. RecordTypes'
  BY <1>1, <1>2, <1>7, <1>9, ReaderTypes DEF RecordTypes
<1>19. Pipe!Get
  <2>1. Bytes(opened + 1) \in Nat /\ Bytes(opened + 1) <= taken
    BY <1>2, <1>6, BaseType, BlockFacts
  <2>2. m \in 1..(taken - Len(delivered))
    BY SMT, <1>1, <1>3, <1>4, <1>6, <2>1
  <2>3. delivered' = delivered \o [i \in 1..m |-> Len(delivered) + i]
    BY <1>1, <1>4, <1>8
  <2>4. ~closed' <=> ~closed
    BY <1>12
  <2> QED
    BY <1>1, <1>6, <1>12, <2>2, <2>3, <2>4 DEF Pipe!Get
<1> QED
  BY <1>12, <1>14, <1>15, <1>16, <1>17, <1>18, <1>19 DEF RInv

\* The transport is at its end.
LEMMA TransportEndKeeps ==
  ASSUME RInv, TransportEnd
  PROVE  RInv' /\ Pipe!Fail
<1>1. /\ dec = <<>> /\ term = "none" /\ wire = <<>>
      /\ (cut \/ (fin /\ layer = "raw")) /\ term' = "error"
      /\ UNCHANGED <<layer, writer, wire, fin, cut, skip, part, left, got,
                     opened, remaining, dec, delivered>>
  BY DEF TransportEnd, Reading, chunks, record
<1>2. /\ RecordTypes /\ SealedInv /\ WriterInv /\ ReaderInv /\ WireInv
      /\ PlaceInv
  BY DEF RInv
<1>3. /\ SealedInv' /\ WriterInv' /\ BufInv' /\ (Clean' <=> Clean)
      /\ taken' = taken /\ (closed' <=> closed)
  BY <1>1, SameWriter
<1>4. ~Clean
  <2> SUFFICES ASSUME Clean
               PROVE  FALSE
    OBVIOUS
  <2>1. fin /\ layer = "raw"
    BY <1>1 DEF Clean
  <2>2. closed /\ buf = <<>>
    BY <1>2, <2>1 DEF WriterInv
  <2>3. sealed # <<>> /\ sealed[Len(sealed)].type # "data"
    BY <1>2, <2>2 DEF WriterInv
  <2>4. /\ \A k \in 1..opened : sealed[k].type = "data"
        /\ remaining = 0 /\ opened <= Len(sealed)
    BY <1>1, <1>2, <2>1 DEF ReaderInv
  <2>5. /\ Base \in Int /\ Len(got) \in Nat /\ opened \in Nat
        /\ Len(sealed) \in Nat
    BY <1>1, <1>2, BaseType, BlockFacts
  <2>6. opened < Len(sealed)
    <3>1. CASE opened = Len(sealed)
      <4>1. Len(sealed) \in 1..opened
        BY SMT, <1>2, <2>3, <2>5, <3>1 DEF RecordTypes
      <4> QED
        BY <2>3, <2>4, <4>1
    <3> QED
      BY SMT, <2>4, <2>5, <3>1
  <2>7. PICK k \in 1..Len(sealed) : k = opened + 1
    <3>1. opened + 1 \in 1..Len(sealed)
      BY SMT, <2>5, <2>6
    <3> QED
      BY <3>1
  <2>8. /\ k \in 1..(Len(sealed) + 1)
        /\ Len(sealed) + 1 \in 1..(Len(sealed) + 1) /\ k < Len(sealed) + 1
    BY SMT, <2>5
  <2>9. /\ Begin(k) \in Nat /\ BlockLen(k) \in Nat
        /\ Begin(Len(sealed) + 1) \in Nat /\ BlockLen(k) >= 2
        /\ Begin(k) + BlockLen(k) <= Begin(Len(sealed) + 1)
    BY <1>2, <2>8, BlockFacts
  <2>10. Len(got) < BlockLen(k)
    <3>1. BlockLen(k) = Length(sealed[k]) + 0
      BY <2>1 DEF BlockLen
    <3>2. Length(sealed[k]) \in Nat
      BY <1>2, BlockFacts
    <3>3. CASE got = <<>>
      BY SMT, <2>9, <3>3
    <3>4. CASE got # <<>>
      <4>1. Len(got) < Length(sealed[k])
        BY <1>1, <1>2, <2>7, <3>4 DEF PlaceInv
      <4> QED
        BY SMT, <3>1, <3>2, <4>1
    <3> QED
      BY <3>3, <3>4
  <2>11. Base = Begin(k) + (Len(got) - 0)
    BY <2>1, <2>4, <2>7 DEF Base
  <2>12. Len(wire) = 0 /\ Len(buf) = 0
    BY SMT, <1>1, <2>2
  <2>13. Pending = 0 + 0 /\ LastLen = 0
    BY <2>1, <2>12 DEF Pending, LastLen
  <2>14. Base + 0 = (Begin(Len(sealed) + 1) - (0 + 0)) + 0
    BY <1>1, <1>2, <2>12, <2>13 DEF WireInv, Sent
  <2> QED
    BY SMT, <2>5, <2>9, <2>10, <2>11, <2>14
<1>5. WireInv' /\ PlaceInv' /\ ErrorInv'
  BY <1>1, <1>3, <1>4 DEF WireInv, PlaceInv, ErrorInv
<1>6. ReaderInv'
  BY <1>1, <1>2 DEF ReaderInv
<1>7. RecordTypes'
  <2>1. term' \in {"none", "eof", "error"}
    BY <1>1
  <2> QED
    BY <1>1, <1>2, <2>1, ReaderTypes DEF RecordTypes
<1>8. Pipe!Fail
  <2>1. ~closed' <=> ~closed
    BY <1>3
  <2> QED
    BY <1>1, <1>3, <2>1 DEF Pipe!Fail
<1> QED
  BY <1>3, <1>5, <1>6, <1>7, <1>8 DEF RInv

\* A sequence without its first member.
LEMMA TailParts ==
  ASSUME NEW s \in Seq(UnitSet), s # <<>>
  PROVE  /\ Tail(s) \in Seq(UnitSet) /\ Len(Tail(s)) \in Nat
         /\ Len(s) = 1 + Len(Tail(s)) /\ Head(s) \in UnitSet
         /\ \A i \in 1..Len(Tail(s)) : Tail(s)[i] = s[1 + i]
<1>1. /\ Head(s) \in UnitSet /\ Tail(s) \in Seq(UnitSet)
      /\ Len(Tail(s)) = Len(s) - 1
      /\ \A i \in 1..Len(Tail(s)) : Tail(s)[i] = s[i + 1]
  BY HeadTailProperties
<1>2. Len(s) \in Nat /\ Len(Tail(s)) \in Nat
  BY <1>1, LenProperties
<1>3. /\ Len(s) = 1 + Len(Tail(s))
      /\ \A i \in 1..Len(Tail(s)) : i + 1 = 1 + i
  BY SMT, <1>1, <1>2
<1> QED
  BY <1>1, <1>2, <1>3

\* A line of the chunked body: a size, the end of a chunk, or the trailer.
LEMMA ChunkLineKeeps ==
  ASSUME RInv, ReadChunkLine
  PROVE  RInv' /\ (Pipe!Fail \/ UNCHANGED shown)
<1> DEFINE u == Head(wire)
           token == IF skip = "line" THEN "size" ELSE "crlf"
<1>1. /\ dec = <<>> /\ term = "none" /\ skip # "none" /\ wire # <<>>
      /\ term' = IF u[1] # token \/ (skip = "trailer" /\ part = 1)
                 THEN "error" ELSE term
      /\ left' = IF skip = "line" THEN u[2] ELSE left
      /\ part' = 1 - part
      /\ skip' = CASE part = 0 -> skip
                   [] part = 1 /\ skip = "crlf" -> "line"
                   [] part = 1 /\ skip = "line" ->
                        IF u[2] = 0 THEN "trailer" ELSE "none"
                   [] OTHER -> skip
      /\ wire' = Tail(wire)
      /\ UNCHANGED <<layer, writer, fin, cut, got, opened, remaining, dec,
                     delivered>>
  BY DEF ReadChunkLine, Reading, record
<1>2. /\ RecordTypes /\ SealedInv /\ WriterInv /\ ReaderInv /\ WireInv
      /\ PlaceInv
  BY DEF RInv
<1>3. layer = "h1" /\ part \in {0, 1}
  BY <1>1, <1>2 DEF ReaderInv, RecordTypes
<1>4. /\ SealedInv' /\ WriterInv' /\ BufInv' /\ (Clean' <=> Clean)
      /\ sealed' = sealed /\ taken' = taken /\ (closed' <=> closed)
      /\ layer' = layer
      /\ \A k : Begin(k)' = Begin(k) /\ Bytes(k)' = Bytes(k)
      /\ \A k : Length(sealed[k])' = Length(sealed[k])
  BY <1>1, SameWriter
<1>5. /\ skip \in {"line", "crlf", "trailer"}
      /\ skip' \in {"line", "crlf", "trailer", "none"}
  <2>1. skip \in {"line", "crlf", "trailer"}
    BY <1>1, <1>2 DEF RecordTypes
  <2> QED
    BY <1>1, <1>3, <2>1
<1>6. /\ part' \in {0, 1} /\ (part = 0 => part' = 1) /\ (part = 1 => part' = 0)
      /\ (part = 1 => part # 0)
  BY SMT, <1>1, <1>3
<1>7. /\ wire' \in Seq(UnitSet) /\ Len(wire') \in Nat
      /\ Len(wire) = 1 + Len(wire')
      /\ \A i \in 1..Len(wire') : wire'[i] = wire[1 + i]
  BY <1>1, <1>2, TailParts DEF RecordTypes
<1>8. term' \in {"none", "error"}
  BY <1>1
<1>9. RecordTypes'
  BY <1>1, <1>2, <1>5, <1>6, <1>7, <1>8, ReaderTypes DEF RecordTypes
<1>10. ReaderInv'
  BY <1>1, <1>2, <1>3, <1>4, <1>8 DEF ReaderInv
<1>11. Pipe!Fail \/ UNCHANGED shown
  <2>1. ~closed' <=> ~closed
    BY <1>4
  <2> QED
    BY <1>1, <1>4, <1>8, <2>1 DEF Pipe!Fail, shown
<1>12. ASSUME ~Clean
       PROVE  WireInv' /\ PlaceInv' /\ ErrorInv'
  BY <1>3, <1>4, <1>12 DEF WireInv, PlaceInv, ErrorInv
<1>13. ASSUME Clean
       PROVE  term' = "none" /\ Base' = Base + 1 /\ PlaceInv'
  <2>1. /\ got = <<>> /\ skip # "trailer" /\ (skip = "crlf" => opened > 0)
    BY <1>1, <1>2, <1>3, <1>13 DEF PlaceInv
  <2>2. /\ Base \in Int /\ opened \in Nat /\ opened <= Len(sealed)
        /\ opened + 1 \in 1..(Len(sealed) + 1)
        /\ Len(sealed) + 1 \in 1..(Len(sealed) + 1) /\ Len(sealed) \in Nat
    <3>1. Len(sealed) \in Nat
      BY <1>2, BlockFacts
    <3>2. Len(sealed) + 1 \in 1..(Len(sealed) + 1)
      BY SMT, <3>1
    <3> QED
      BY <1>1, <1>2, <3>1, <3>2, BaseType
  <2>3. PICK g \in Nat : g = Begin(opened + 1)
    BY <1>2, <2>2, BlockFacts
  <2>4. Begin(opened + 1)' = g
    <3>1. PICK k : k = opened + 1
      OBVIOUS
    <3>2. k = opened' + 1 /\ Begin(k)' = Begin(k)
      BY <1>1, <1>4, <3>1
    <3> QED
      BY <2>3, <3>1, <3>2
  <2>5. Base' = g + (IF skip' = "line" THEN part'
                     ELSE IF skip' = "crlf" THEN part' - 2 ELSE 2 + 0)
    <3>1. Len(got') = 0
      BY SMT, <1>1, <2>1
    <3> QED
      <4>1. layer' = "h1"
        BY <1>3, <1>4
      <4>2. Base' = Begin(opened + 1)'
                    + (IF skip' = "line" THEN part'
                       ELSE IF skip' = "crlf" THEN part' - 2 ELSE 2 + Len(got'))
        BY <4>1 DEF Base
      <4> QED
        BY SMT, <2>4, <3>1, <4>2
  <2>6. CASE skip = "line"
    <3>1. Base = g + part
      BY <1>3, <2>3, <2>6 DEF Base
    <3>2. opened < Len(sealed)
      <4> SUFFICES ASSUME opened = Len(sealed)
                   PROVE  FALSE
        BY SMT, <2>2
      <4>1. ~fin
        <5> SUFFICES ASSUME fin
                     PROVE  FALSE
          OBVIOUS
        <5>1. sealed # <<>> /\ sealed[Len(sealed)].type # "data"
          BY <1>2, <1>13 DEF WriterInv
        <5>2. Len(sealed) \in 1..opened
          BY SMT, <1>2, <2>2, <5>1 DEF RecordTypes
        <5> QED
          BY <1>1, <1>2, <5>1, <5>2 DEF ReaderInv
      <4>2. LastLen = 0
        BY <4>1 DEF LastLen
      <4>3. Base + Len(wire) = (g - Pending) + 0
        BY <1>1, <1>2, <1>13, <2>3, <4>2 DEF WireInv, Sent
      <4>4. Pending \in Nat
        BY <1>1, <1>2, BaseType
      <4> QED
        BY SMT, <1>3, <1>7, <3>1, <4>3, <4>4
    <3>3. PICK k \in 1..Len(sealed) : k = opened + 1
      <4>1. opened + 1 \in 1..Len(sealed)
        BY SMT, <2>2, <3>2
      <4> QED
        BY <4>1
    <3>4. PICK c \in Nat : c = Length(sealed[k]) /\ c >= 2
      BY <1>2, BlockFacts
    <3>5. BlockLen(k) = c + 4
      BY <1>3, <3>4 DEF BlockLen
    <3>6. /\ part + 1 \in 1..BlockLen(k) /\ part + 1 <= 2
          /\ Begin(k) + (part + 1) = Base + 1
      BY SMT, <1>3, <2>3, <3>1, <3>3, <3>5
    <3>7. u = Unit(k, part + 1)
      BY <1>1, <1>13, <3>6, NextUnit
    <3>8. u = <<"size", c, part + 1>>
      BY <1>3, <3>4, <3>6, <3>7 DEF Unit
    <3>9. u[1] = "size" /\ u[2] = c /\ c # 0
      BY SMT, <3>4, <3>8
    <3> HIDE DEF u
    <3>10. /\ term' = "none" /\ left' = c
           /\ (part = 0 => skip' = "line") /\ (part = 1 => skip' = "none")
      <4>1. ~(u[1] # token \/ (skip = "trailer" /\ part = 1))
        BY <2>6, <3>9
      <4>2. term' = "none" /\ left' = c
        BY <1>1, <2>6, <3>9, <4>1
      <4>3. (part = 0 => skip' = "line") /\ (part = 1 => skip' = "none")
        BY <1>1, <1>6, <2>6, <3>9
      <4> QED
        BY <4>2, <4>3
    <3>11. Base' = Base + 1
      <4>1. CASE part = 0
        BY SMT, <1>6, <2>5, <3>1, <3>10, <4>1
      <4>2. CASE part = 1
        BY SMT, <1>6, <2>5, <3>1, <3>10, <4>2
      <4> QED
        BY <1>3, <4>1, <4>2
    <3>12. Length(sealed[opened + 1])' = c /\ c = c - Len(got')
      <4>1. Length(sealed[opened + 1])' = c
        BY <1>1, <1>4, <3>3, <3>4
      <4>2. c = c - Len(got')
        BY SMT, <1>1, <2>1
      <4> QED
        BY <4>1, <4>2
    <3>13. PlaceInv'
      <4>1. got' = <<>> /\ \A x \in 1..Len(got') : FALSE
        BY SMT, <1>1, <2>1
      <4> QED
        BY <1>1, <1>3, <1>4, <1>6, <3>2, <3>10, <3>12, <4>1 DEF PlaceInv
    <3> QED
      BY <3>10, <3>11, <3>13
  <2>7. CASE skip = "crlf"
    <3>1. Base = g + (part - 2)
      BY <1>3, <2>3, <2>7 DEF Base
    <3>2. PICK k \in 1..Len(sealed) : k = opened
      <4>1. opened \in 1..Len(sealed)
        BY SMT, <2>1, <2>2, <2>7
      <4> QED
        BY <4>1
    <3>3. PICK c \in Nat : c = Length(sealed[k]) /\ c >= 2
      BY <1>2, BlockFacts
    <3>4. BlockLen(k) = c + 4
      BY <1>3, <3>3 DEF BlockLen
    <3>5. g = Begin(k) + (c + 4) /\ Begin(k) \in Nat
      <4>1. k \in 1..(Len(sealed) + 1)
        BY SMT, <2>2
      <4> QED
        BY <1>2, <2>3, <3>2, <3>4, <4>1, BlockFacts
    <3>6. /\ (c + 3) + part \in 1..BlockLen(k)
          /\ ~((c + 3) + part <= 2) /\ ~((c + 3) + part <= c + 2)
          /\ Begin(k) + ((c + 3) + part) = Base + 1
      BY SMT, <1>3, <3>1, <3>4, <3>5
    <3>7. u = Unit(k, (c + 3) + part)
      BY <1>1, <1>13, <3>6, NextUnit
    <3>8. u = <<"crlf", 0, ((c + 3) + part) - (c + 2)>>
      BY <1>3, <3>3, <3>6, <3>7 DEF Unit
    <3>9. u[1] = "crlf"
      BY SMT, <3>8
    <3> HIDE DEF u
    <3>10. /\ term' = "none"
           /\ (part = 0 => skip' = "crlf") /\ (part = 1 => skip' = "line")
      <4>1. ~(u[1] # token \/ (skip = "trailer" /\ part = 1))
        BY <2>7, <3>9
      <4>2. term' = "none"
        BY <1>1, <4>1
      <4>3. (part = 0 => skip' = "crlf") /\ (part = 1 => skip' = "line")
        BY <1>1, <1>6, <2>7
      <4> QED
        BY <4>2, <4>3
    <3>11. Base' = Base + 1
      <4>1. CASE part = 0
        BY SMT, <1>6, <2>5, <3>1, <3>10, <4>1
      <4>2. CASE part = 1
        BY SMT, <1>6, <2>5, <3>1, <3>10, <4>2
      <4> QED
        BY <1>3, <4>1, <4>2
    <3>12. PlaceInv'
      <4>1. got' = <<>> /\ \A x \in 1..Len(got') : FALSE
        BY SMT, <1>1, <2>1
      <4>2. opened' > 0 /\ skip' \in {"line", "crlf"}
        BY <1>1, <1>3, <2>1, <2>7, <3>10
      <4> QED
        BY <4>1, <4>2 DEF PlaceInv
    <3> QED
      BY <3>10, <3>11, <3>12
  <2> QED
    BY <1>5, <2>1, <2>6, <2>7
<1>14. ASSUME Clean
       PROVE  WireInv' /\ PlaceInv' /\ ErrorInv'
  <2>1. 1 \in Nat
    BY SMT
  <2>2. WireInv'
    BY <1>1, <1>7, <1>13, <1>14, <2>1, WireShrinks
  <2>3. ErrorInv'
    BY <1>13, <1>14 DEF ErrorInv
  <2> QED
    BY <1>13, <1>14, <2>2, <2>3
<1> QED
  BY <1>4, <1>9, <1>10, <1>11, <1>12, <1>14 DEF RInv

\* Inside a record the unit read next is the next one of it.
LEMMA NextOfRecord ==
  ASSUME RInv, term = "none", wire # <<>>, skip = "none", remaining = 0,
         Clean \/ layer = "frame"
  PROVE  /\ opened < Len(sealed) /\ opened + 1 \in 1..Len(sealed)
         /\ Len(got) \in Nat /\ Len(got) < Length(sealed[opened + 1])
         /\ Length(sealed[opened + 1]) \in Nat
         /\ Head(wire) = <<"record", opened + 1, Len(got) + 1>>
<1>1. RecordTypes /\ SealedInv /\ WireInv /\ ReaderInv /\ PlaceInv
  BY DEF RInv
<1>2. /\ Base \in Int /\ Len(got) \in Nat /\ Len(wire) \in Nat
      /\ opened \in Nat /\ opened <= Len(sealed) /\ Pending \in Nat
      /\ opened + 1 \in 1..(Len(sealed) + 1) /\ Len(sealed) \in Nat
  BY <1>1, BaseType, BlockFacts
<1>3. layer \in {"raw", "h1", "frame"} /\ Len(wire) > 0
  BY SMT, <1>1, <1>2 DEF RecordTypes
<1>4. layer # "h1" => Base = Begin(opened + 1) + (Len(got) - 0)
  BY DEF Base
<1>5. Begin(opened + 1) \in Nat
  BY <1>1, <1>2, BlockFacts
<1>6. opened < Len(sealed)
  <2>1. CASE layer = "h1"
    BY <1>1, <2>1 DEF PlaceInv
  <2>2. CASE layer # "h1"
    <3>1. Begin(Len(sealed) + 1) \in Nat
      <4>1. Len(sealed) + 1 \in 1..(Len(sealed) + 1)
        BY SMT, <1>2
      <4> QED
        BY <1>1, <4>1, BlockFacts
    <3>2. Base + Len(wire) <= Begin(Len(sealed) + 1)
      <4>1. CASE layer = "frame"
        BY <1>1, <4>1 DEF WireInv
      <4>2. CASE Clean
        <5>1. Base + Len(wire) = (Begin(Len(sealed) + 1) - Pending) + 0
          BY <1>1, <2>2, <4>2 DEF WireInv, Sent, LastLen
        <5> QED
          BY SMT, <1>2, <3>1, <5>1
      <4> QED
        BY <4>1, <4>2
    <3>3. CASE opened = Len(sealed)
      <4>1. Base = Begin(Len(sealed) + 1) + (Len(got) - 0)
        BY <1>4, <2>2, <3>3
      <4> QED
        BY SMT, <1>2, <1>3, <3>1, <3>2, <4>1
    <3> QED
      BY SMT, <1>2, <3>3
  <2> QED
    BY <2>1, <2>2
<1>7. PICK k \in 1..Len(sealed) : k = opened + 1
  <2>1. opened + 1 \in 1..Len(sealed)
    BY SMT, <1>2, <1>6
  <2> QED
    BY <2>1
<1>8. PICK c \in Nat : c = Length(sealed[k]) /\ c >= 2
  BY <1>1, BlockFacts
<1>9. Len(got) < c
  <2>1. CASE got = <<>>
    BY SMT, <1>8, <2>1
  <2>2. CASE got # <<>> /\ layer = "frame"
    <3>1. Len(got) <= 1
      BY <1>1, <2>2 DEF ReaderInv
    <3> QED
      BY SMT, <1>2, <1>8, <3>1
  <2>3. CASE got # <<>> /\ layer # "frame"
    BY <1>1, <1>7, <1>8, <2>3 DEF PlaceInv
  <2> QED
    BY <2>1, <2>2, <2>3
<1>10. Head(wire) = <<"record", k, Len(got) + 1>>
  <2>1. CASE layer # "h1"
    <3>1. BlockLen(k) = c + 0
      BY <1>8, <2>1 DEF BlockLen
    <3>2. Base = Begin(k) + (Len(got) - 0) /\ Begin(k) \in Nat
      BY <1>4, <1>5, <1>7, <2>1
    <3>3. /\ Len(got) + 1 \in 1..BlockLen(k)
          /\ Begin(k) + (Len(got) + 1) = Base + 1
      BY SMT, <1>2, <1>8, <1>9, <3>1, <3>2
    <3>4. Head(wire) = Unit(k, Len(got) + 1)
      BY <3>3, NextUnit
    <3> QED
      BY <2>1, <3>4 DEF Unit
  <2>2. CASE layer = "h1"
    <3>1. BlockLen(k) = c + 4
      BY <1>8, <2>2 DEF BlockLen
    <3>2. Base = Begin(k) + (2 + Len(got)) /\ Begin(k) \in Nat
      BY <1>5, <1>7, <2>2 DEF Base
    <3>3. /\ Len(got) + 3 \in 1..BlockLen(k)
          /\ Begin(k) + (Len(got) + 3) = Base + 1
          /\ ~(Len(got) + 3 <= 2) /\ Len(got) + 3 <= c + 2
          /\ (Len(got) + 3) - 2 = Len(got) + 1
      <4>1. /\ Len(got) + 3 \in 1..(c + 4)
            /\ ~(Len(got) + 3 <= 2) /\ Len(got) + 3 <= c + 2
            /\ (Len(got) + 3) - 2 = Len(got) + 1
        BY SMT, <1>2, <1>9
      <4>2. Begin(k) + (Len(got) + 3) = Base + 1
        BY SMT, <1>2, <3>2
      <4> QED
        BY <3>1, <4>1, <4>2
    <3>4. Head(wire) = Unit(k, Len(got) + 3)
      BY <3>3, NextUnit
    <3>5. Unit(k, Len(got) + 3) = <<"record", k, (Len(got) + 3) - 2>>
      BY <1>8, <2>2, <3>3 DEF Unit
    <3> QED
      BY <3>3, <3>4, <3>5
  <2> QED
    BY <2>1, <2>2
<1> QED
  BY <1>2, <1>6, <1>7, <1>8, <1>9, <1>10

\* One more unit of a record, when nothing has gone wrong: what has been read
\* is the beginning of the next record, and opens once it is all of it.
LEMMA UnitsSound ==
  ASSUME RInv, term = "none", wire # <<>>, skip = "none", remaining = 0, Clean
  PROVE  LET units == Append(got, Head(wire))
         IN  /\ units \in Seq(UnitSet) /\ Len(units) = Len(got) + 1
             /\ \A i \in 1..Len(units) : units[i] = <<"record", opened + 1, i>>
             /\ Sound(units)
             /\ Opens(units) <=> Len(units) = Length(sealed[opened + 1])
<1> DEFINE units == Append(got, Head(wire))
<1>1. /\ opened < Len(sealed) /\ opened + 1 \in 1..Len(sealed)
      /\ Head(wire) = <<"record", opened + 1, Len(got) + 1>>
  BY NextOfRecord
<1>2. PICK c \in Nat : c = Length(sealed[opened + 1])
  BY NextOfRecord
<1>3. PICK g \in Nat : g = Len(got)
  BY NextOfRecord
<1>4. g < c
  BY <1>2, <1>3, NextOfRecord
<1>5. wire \in Seq(UnitSet) /\ got \in Seq(UnitSet)
  BY DEF RInv, RecordTypes
<1>6. Head(wire) \in UnitSet
  BY <1>5, TailParts
<1>7. units \in Seq(UnitSet) /\ Len(units) = g + 1 /\ units[g + 1] = Head(wire)
      /\ \A i \in 1..g : units[i] = got[i]
  BY SMT, <1>3, <1>5, <1>6
<1>8. \A i \in 1..g : got[i] = <<"record", opened + 1, i>>
  BY <1>3 DEF RInv, PlaceInv
<1>9. \A i \in 1..(g + 1) : i \in 1..g \/ i = g + 1
  BY SMT
<1>10. \A i \in 1..(g + 1) : units[i] = <<"record", opened + 1, i>>
  BY <1>1, <1>3, <1>7, <1>8, <1>9
<1> HIDE DEF units
<1>11. PICK f : f = Units(opened + 1, sealed[opened + 1])
  OBVIOUS
<1>12. f = [i \in 1..c |-> <<"record", opened + 1, i>>]
  BY <1>2, <1>11 DEF Units
<1>13. f \in Seq(UnitSet) /\ Len(f) = c
  <2>1. opened + 1 \in Nat /\ \A i \in 1..c : i \in Nat
    <3>1. opened \in Nat
      BY DEF RInv, RecordTypes
    <3> QED
      BY SMT, <3>1
  <2>2. \A i \in 1..c : <<"record", opened + 1, i>> \in UnitSet
    BY <2>1 DEF UnitSet
  <2>3. f \in [1..c -> UnitSet]
    BY <1>12, <2>2
  <2> QED
    BY SMT, <2>3
<1>14. \A i \in 1..c : f[i] = <<"record", opened + 1, i>>
  BY <1>12
<1>15. \A i \in 1..(g + 1) : i \in 1..c
  BY SMT, <1>4
<1>16. units = SubSeq(f, 1, Len(units))
  <2>1. \A i \in 1..(g + 1) : units[i] = f[i]
    BY <1>10, <1>14, <1>15
  <2>2. PICK h \in Seq(UnitSet) : h = SubSeq(f, 1, g + 1)
    <3>1. SubSeq(f, 1, g + 1) \in Seq(UnitSet)
      BY SMT, <1>4, <1>13
    <3> QED
      BY <3>1
  <2>3. Len(h) = g + 1 /\ \A i \in 1..(g + 1) : h[i] = f[i]
    BY SMT, <1>4, <1>13, <2>2
  <2>4. units = h
    <3>1. \A i \in 1..Len(units) : units[i] = h[i]
      BY <1>7, <2>1, <2>3
    <3> QED
      BY <1>7, <2>2, <2>3, <3>1, SeqEqual
  <2> QED
    BY <1>7, <2>2, <2>4
<1>17. Sound(units)
  BY <1>1, <1>11, <1>16 DEF Sound
<1>18. Opens(units) <=> g + 1 = c
  <2>1. ASSUME g + 1 = c
        PROVE  units = f
    <3>1. \A i \in 1..Len(units) : units[i] = f[i]
      BY <1>7, <1>10, <1>14, <1>15
    <3> QED
      BY <1>7, <1>13, <2>1, <3>1, SeqEqual
  <2>2. units = f => g + 1 = c
    BY <1>7, <1>13
  <2>3. Opens(units) <=> units = f
    BY <1>1, <1>11 DEF Opens
  <2> QED
    BY <2>1, <2>2, <2>3
<1> QED
  BY <1>2, <1>3, <1>7, <1>10, <1>17, <1>18 DEF units

\* A record opens: its bytes are the next ones, or it ends the stream.
LEMMA OpenFacts ==
  ASSUME RInv, dec = <<>>, term = "none", opened < Len(sealed), remaining = 0
  PROVE  LET r == sealed[opened + 1]
         IN  /\ r.len \in Nat /\ r.from \in Nat /\ opened + 1 \in 1..Len(sealed)
             /\ opened + 1 \in Nat /\ opened + 1 <= Len(sealed)
             /\ (r.len # 0 <=> r.type = "data")
             /\ r.from - 1 = Len(delivered) /\ Len(delivered) \in Nat
             /\ Bytes((opened + 1) + 1) = Len(delivered) + r.len
             /\ Begin((opened + 1) + 1)
                  = Begin(opened + 1) + BlockLen(opened + 1)
             /\ \A k \in 1..opened : sealed[k].type = "data"
             /\ r.type = "data" =>
                  \A k \in 1..(opened + 1) : sealed[k].type = "data"
             /\ r.type # "data" => closed /\ Len(delivered) = taken
             /\ r.type = "reset" => layer = "frame" /\ Sealed("reset")
<1>1. RecordTypes /\ SealedInv /\ ReaderInv
  BY DEF RInv
<1>2. opened \in Nat /\ Len(sealed) \in Nat /\ Len(delivered) \in Nat
  BY <1>1, LenProperties DEF RecordTypes
<1>3. PICK k \in 1..Len(sealed) : k = opened + 1
  <2>1. opened + 1 \in 1..Len(sealed)
    BY SMT, <1>2
  <2> QED
    BY <2>1
<1>4. /\ sealed[k].type \in {"data", "end", "reset"}
      /\ sealed[k].from \in Nat /\ sealed[k].len \in Nat
      /\ k \in Nat /\ k <= Len(sealed)
  BY <1>1, RecordFields
<1>5. /\ sealed[k].from >= 1 /\ Bytes(k + 1) = Bytes(k) + sealed[k].len
      /\ (sealed[k].len # 0 <=> sealed[k].type = "data")
      /\ sealed[k].type # "data" => k = Len(sealed) /\ closed
      /\ sealed[k].type = "reset" => layer = "frame"
  BY <1>1 DEF SealedInv
<1>6. Bytes(k) = Len(delivered) + 0 + 0
  <2>1. Len(dec) = 0
    BY SMT
  <2> QED
    BY <1>1, <1>3, <2>1 DEF ReaderInv
<1>7. Bytes(k) = sealed[k].from - 1
  BY <1>4 DEF Bytes
<1>8. /\ sealed[k].from - 1 = Len(delivered)
      /\ Bytes(k + 1) = Len(delivered) + sealed[k].len
  BY SMT, <1>2, <1>4, <1>5, <1>6, <1>7
<1>9. Begin(k + 1) = Begin(k) + BlockLen(k)
  BY <1>1, BlockFacts
<1>10. \A l \in 1..opened : sealed[l].type = "data"
  BY <1>1 DEF ReaderInv
<1>11. \A l \in 1..k : l \in 1..opened \/ l = k
  BY SMT, <1>2, <1>3
<1>12. sealed[k].type # "data" => closed /\ Len(delivered) = taken
  <2>1. sealed[k].type # "data" => Bytes(k + 1) = taken
    <3>1. ~(Len(sealed) + 1 <= Len(sealed))
      BY SMT, <1>2
    <3> QED
      BY <1>5, <3>1 DEF Bytes
  <2>2. sealed[k].type # "data" => sealed[k].len = 0
    BY <1>5
  <2>3. taken \in Nat
    BY <1>1 DEF RecordTypes
  <2>4. sealed[k].type # "data" => Len(delivered) = taken
    BY SMT, <1>2, <1>8, <2>1, <2>2, <2>3
  <2> QED
    BY <1>5, <2>4
<1>13. sealed[k].type = "reset" => Sealed("reset")
  BY DEF Sealed
<1> QED
  BY <1>2, <1>3, <1>4, <1>5, <1>8, <1>9, <1>10, <1>11, <1>12, <1>13

\* One unit of a record, and with its last one the record opens.
LEMMA ReadUnitKeeps ==
  ASSUME RInv, ReadUnit, layer # "frame"
  PROVE  RInv' /\ (Pipe!End \/ Pipe!Fail \/ UNCHANGED shown)
<1> DEFINE units == Append(got, Head(wire))
<1>1. /\ dec = <<>> /\ term = "none" /\ wire # <<>> /\ skip = "none"
      /\ wire' = Tail(wire)
      /\ layer = "h1" => /\ left' = left - 1 /\ part' = part
                         /\ skip' = IF left = 1 THEN "crlf" ELSE "none"
      /\ layer # "h1" => UNCHANGED <<skip, part, left>>
      /\ UNCHANGED <<layer, writer, fin, cut, remaining, delivered>>
  BY DEF ReadUnit, Reading, InChunk, chunks
<1>2. RecordTypes /\ SealedInv /\ WireInv /\ ReaderInv /\ PlaceInv
  BY DEF RInv
<1>3. /\ layer \in {"raw", "h1"} /\ remaining = 0 /\ opened \in Nat
      /\ wire \in Seq(UnitSet) /\ got \in Seq(UnitSet) /\ part \in {0, 1}
      /\ remaining' = 0
  BY <1>1, <1>2 DEF RecordTypes, ReaderInv
<1>4. /\ wire' \in Seq(UnitSet) /\ Len(wire') \in Nat /\ Head(wire) \in UnitSet
      /\ Len(wire) = 1 + Len(wire')
      /\ \A i \in 1..Len(wire') : wire'[i] = wire[1 + i]
  BY <1>1, <1>3, TailParts
<1>5. units \in Seq(UnitSet) /\ 1 \in Nat
  BY SMT, <1>3, <1>4
<1>6. /\ SealedInv' /\ WriterInv' /\ BufInv' /\ (Clean' <=> Clean)
      /\ sealed' = sealed /\ taken' = taken /\ (closed' <=> closed)
      /\ layer' = layer
      /\ \A k : Begin(k)' = Begin(k) /\ Bytes(k)' = Bytes(k)
      /\ \A k : Length(sealed[k])' = Length(sealed[k])
  BY <1>1, SameWriter
<1>7. /\ skip' \in {"line", "crlf", "trailer", "none"} /\ part' = part
      /\ layer # "h1" => skip' = "none"
  BY <1>1, <1>3
<1>8. ~closed' <=> ~closed
  BY <1>6
<1>9. PICK o \in Nat : o = opened
  BY <1>3
<1>10. Clean => /\ o < Len(sealed) /\ Len(units) = Len(got) + 1 /\ Sound(units)
                /\ \A i \in 1..Len(units) : units[i] = <<"record", o + 1, i>>
                /\ Opens(units) <=> Len(units) = Length(sealed[o + 1])
                /\ Len(got) \in Nat /\ Len(got) < Length(sealed[o + 1])
                /\ Length(sealed[o + 1]) \in Nat
  BY <1>1, <1>3, <1>9, UnitsSound, NextOfRecord
<1>11. layer = "h1" /\ Clean =>
         part = 0 /\ left = Length(sealed[o + 1]) - Len(got)
  BY <1>1, <1>2, <1>9 DEF PlaceInv
<1>12. /\ layer = "raw" => Base = Begin(o + 1) + (Len(got) - 0)
       /\ layer = "h1" => Base = Begin(o + 1) + (2 + Len(got))
  BY <1>1, <1>3, <1>9 DEF Base
<1>13. Begin(o + 1) \in Nat
  <2>1. o + 1 \in 1..(Len(sealed) + 1)
    BY <1>1, <1>2, <1>9, BaseType
  <2> QED
    BY <1>2, <2>1, BlockFacts
<1> HIDE DEF units
<1>14. CASE Opens(units)
  <2> DEFINE r == sealed[o + 1]
  <2>1. /\ got' = <<>> /\ opened' = o + 1
        /\ dec' = [i \in 1..r.len |-> r.from + i - 1]
        /\ term' = IF r.len = 0 THEN "eof" ELSE "none"
        /\ o < Len(sealed)
    BY <1>9, <1>14 DEF ReadUnit, Opens, units
  <2>2. PICK d \in Nat : d = Len(delivered)
    BY <1>1, <1>3, <1>9, <2>1, OpenFacts
  <2>3. PICK n \in Nat : n = r.len
    BY <1>1, <1>3, <1>9, <2>1, OpenFacts
  <2>4. /\ o + 1 \in 1..Len(sealed) /\ o + 1 \in Nat /\ o + 1 <= Len(sealed)
        /\ (n # 0 <=> r.type = "data")
        /\ r.from \in Nat /\ r.from - 1 = d
        /\ Bytes((o + 1) + 1) = d + n
        /\ Begin((o + 1) + 1) = Begin(o + 1) + BlockLen(o + 1)
        /\ r.type = "data" => \A k \in 1..(o + 1) : sealed[k].type = "data"
        /\ r.type # "data" => closed /\ d = taken
    BY <1>1, <1>3, <1>9, <2>1, <2>2, <2>3, OpenFacts
  <2> HIDE DEF r
  <2>5. dec' \in Seq(Nat) /\ Len(dec') = n /\ \A i \in 1..n : dec'[i] = d + i
    <3>1. dec' = [i \in 1..n |-> r.from + i - 1]
      BY <2>1, <2>3
    <3>2. \A i \in 1..n : r.from + i - 1 = d + i /\ d + i \in Nat
      BY SMT, <2>4
    <3>3. dec' = [i \in 1..n |-> d + i] /\ dec' \in [1..n -> Nat]
      BY <3>1, <3>2
    <3>4. dec' \in Seq(Nat) /\ Len(dec') = n
      BY SMT, <3>3
    <3> QED
      BY <3>3, <3>4
  <2>6. term' \in {"none", "eof"} /\ (term' = "eof" <=> n = 0)
    BY <2>1, <2>3
  <2>7. RecordTypes'
    <3>1. <<>> \in Seq(UnitSet) /\ 0 \in Nat
      BY SMT
    <3> QED
      BY <1>1, <1>2, <1>3, <1>4, <1>7, <2>1, <2>4, <2>5, <2>6, <3>1, ReaderTypes
         DEF RecordTypes
  <2>8. ReaderInv'
    <3>1. dec' # <<>> => n # 0
      BY SMT, <2>5
    <3>2. Bytes(opened + 1)' = d + n
      <4>1. PICK k : k = (o + 1) + 1
        OBVIOUS
      <4>2. Bytes(k)' = Bytes(k) /\ k = opened' + 1
        BY <1>6, <2>1, <4>1
      <4> QED
        BY <2>4, <4>1, <4>2
    <3>3. d + n = Len(delivered') + Len(dec') + remaining'
      <4>1. Len(delivered') = d
        BY <1>1, <2>2
      <4> QED
        BY SMT, <1>3, <2>5, <4>1
    <3>4. ~(remaining' > 0)
      BY SMT, <1>3
    <3>5. \A i \in 1..Len(dec') : dec'[i] = Len(delivered') + i
      BY <1>1, <2>2, <2>5
    <3>6. term' = "none" => \A k \in 1..opened' : sealed'[k].type = "data"
      BY <1>6, <2>1, <2>4, <2>6
    <3> QED
      BY <1>1, <1>3, <1>6, <1>7, <2>1, <2>4, <2>6, <3>1, <3>2, <3>3, <3>4, <3>5,
         <3>6 DEF ReaderInv
  <2>9. ErrorInv'
    BY <2>6 DEF ErrorInv
  <2>10. ASSUME Clean
         PROVE  /\ layer = "h1" => skip' = "crlf" /\ part' = 0
                /\ Base' = Base + 1
    <3>1. PICK c \in Nat : c = Length(sealed[o + 1])
      BY <1>10, <2>10
    <3>2. Len(got) \in Nat /\ Len(got) + 1 = c
      BY <1>10, <1>14, <2>10, <3>1
    <3>3. Begin(opened + 1)' = Begin(o + 1) + BlockLen(o + 1)
      <4>1. PICK k : k = (o + 1) + 1
        OBVIOUS
      <4>2. Begin(k)' = Begin(k) /\ k = opened' + 1
        BY <1>6, <2>1, <4>1
      <4> QED
        BY <2>4, <4>1, <4>2
    <3>4. Len(got') = 0
      BY SMT, <2>1
    <3>5. CASE layer = "raw"
      <4>1. BlockLen(o + 1) = c + 0
        BY <3>1, <3>5 DEF BlockLen
      <4>2. Base' = Begin(opened + 1)' + (Len(got') - remaining')
        BY <1>6, <3>5 DEF Base
      <4>3. Base' = (Begin(o + 1) + (c + 0)) + (0 - 0)
        BY SMT, <1>3, <3>3, <3>4, <4>1, <4>2
      <4>4. Base = Begin(o + 1) + (Len(got) - 0)
        BY <1>12, <3>5
      <4> QED
        BY SMT, <1>13, <3>2, <3>5, <4>3, <4>4
    <3>6. CASE layer = "h1"
      <4>1. BlockLen(o + 1) = c + 4
        BY <3>1, <3>6 DEF BlockLen
      <4>2. left = c - Len(got) /\ part = 0
        BY <1>11, <2>10, <3>1, <3>6
      <4>3. left = 1
        BY SMT, <3>2, <4>2
      <4>4. skip' = "crlf" /\ part' = 0
        BY <1>1, <3>6, <4>2, <4>3
      <4>5. Base' = Begin(opened + 1)' + (part' - 2)
        BY <1>6, <3>6, <4>4 DEF Base
      <4>6. Base' = (Begin(o + 1) + (c + 4)) + (0 - 2)
        BY SMT, <3>3, <4>1, <4>4, <4>5
      <4>7. Base = Begin(o + 1) + (2 + Len(got))
        BY <1>12, <3>6
      <4>8. Base' = Base + 1
        BY SMT, <1>13, <3>2, <4>6, <4>7
      <4> QED
        BY <3>6, <4>4, <4>8
    <3> QED
      BY <1>3, <3>5, <3>6
  <2>11. WireInv'
    <3>1. CASE ~Clean
      BY <1>6, <3>1 DEF WireInv
    <3>2. CASE Clean
      BY <1>1, <1>4, <1>5, <2>10, <3>2, WireShrinks
    <3> QED
      BY <3>1, <3>2
  <2>12. PlaceInv'
    <3>1. got' = <<>> /\ \A x \in 1..Len(got') : FALSE
      BY SMT, <2>1
    <3>2. opened' > 0
      BY SMT, <2>1
    <3> QED
      BY <1>3, <1>6, <2>10, <3>1, <3>2 DEF PlaceInv
  <2>13. Pipe!End \/ UNCHANGED shown
    <3>1. CASE n = 0
      <4>1. closed /\ d = taken /\ term' = "eof"
        BY <2>4, <2>6, <3>1
      <4> QED
        BY <1>1, <1>6, <1>8, <2>2, <4>1 DEF Pipe!End
    <3>2. CASE n # 0
      <4>1. term' = term
        BY <1>1, <2>6, <3>2
      <4> QED
        BY <1>1, <1>6, <1>8, <4>1 DEF shown
    <3> QED
      BY <3>1, <3>2
  <2> QED
    BY <1>6, <2>7, <2>8, <2>9, <2>11, <2>12, <2>13 DEF RInv
<1>15. CASE ~Opens(units)
  <2>1. /\ got' = units /\ opened' = o /\ dec' = <<>>
        /\ term' \in {"none", "error"} /\ (Sound(units) => term' = "none")
    BY <1>1, <1>9, <1>15 DEF ReadUnit, units
  <2>2. RecordTypes'
    <3>1. <<>> \in Seq(Nat) /\ 0 \in Nat
      BY SMT
    <3> QED
      BY <1>1, <1>2, <1>3, <1>4, <1>5, <1>7, <2>1, <3>1, ReaderTypes
         DEF RecordTypes
  <2>3. ReaderInv'
    <3>1. Bytes(opened + 1)' = Bytes(o + 1)
      <4>1. PICK k : k = o + 1
        OBVIOUS
      <4>2. Bytes(k)' = Bytes(k) /\ k = opened' + 1
        BY <1>6, <2>1, <4>1
      <4> QED
        BY <4>1, <4>2
    <3>2. ~(remaining' > 0)
      BY SMT, <1>3
    <3>3. /\ o <= Len(sealed) /\ \A k \in 1..o : sealed[k].type = "data"
          /\ Bytes(o + 1) = Len(delivered) + Len(dec) + remaining
          /\ \A i \in 1..Len(dec) : dec[i] = Len(delivered) + i
      BY <1>1, <1>2, <1>9 DEF ReaderInv
    <3> QED
      BY <1>1, <1>3, <1>6, <1>7, <2>1, <3>1, <3>2, <3>3 DEF ReaderInv
  <2>4. ErrorInv'
    BY <1>6, <1>10, <2>1 DEF ErrorInv
  <2>5. ASSUME Clean
        PROVE  PlaceInv' /\ Base' = Base + 1
    <3>1. PICK c \in Nat : c = Length(sealed[o + 1])
      BY <1>10, <2>5
    <3>2. /\ Len(got) \in Nat /\ Len(got) < c /\ Len(units) = Len(got) + 1
          /\ Len(units) # c /\ o < Len(sealed)
          /\ \A i \in 1..Len(units) : units[i] = <<"record", o + 1, i>>
      BY <1>10, <1>15, <2>5, <3>1
    <3>3. Len(units) < c
      BY SMT, <3>2
    <3>4. Begin(opened + 1)' = Begin(o + 1) /\ Length(sealed[opened + 1])' = c
      <4>1. PICK k : k = o + 1
        OBVIOUS
      <4>2. /\ Begin(k)' = Begin(k) /\ k = opened' + 1
            /\ Length(sealed[k])' = Length(sealed[k])
        BY <1>6, <2>1, <4>1
      <4> QED
        BY <3>1, <4>1, <4>2
    <3>5. layer = "h1" => /\ skip' = "none" /\ part' = 0
                          /\ left' = c - Len(units)
      <4> SUFFICES ASSUME layer = "h1"
                   PROVE  skip' = "none" /\ part' = 0 /\ left' = c - Len(units)
        OBVIOUS
      <4>1. left = c - Len(got) /\ part = 0
        BY <1>11, <2>5, <3>1
      <4>2. left # 1 /\ left - 1 = c - Len(units)
        BY SMT, <3>2, <4>1
      <4> QED
        BY <1>1, <4>1, <4>2
    <3>6. Base' = Base + 1
      <4>1. CASE layer = "raw"
        <5>1. Base' = Begin(opened + 1)' + (Len(got') - remaining')
          BY <1>6, <4>1 DEF Base
        <5>2. Base' = Begin(o + 1) + (Len(units) - 0)
          BY <1>3, <2>1, <3>4, <5>1
        <5>3. Base = Begin(o + 1) + (Len(got) - 0)
          BY <1>12, <4>1
        <5> QED
          BY SMT, <1>13, <3>2, <5>2, <5>3
      <4>2. CASE layer = "h1"
        <5>1. Base' = Begin(opened + 1)' + (2 + Len(got'))
          BY <1>6, <3>5, <4>2 DEF Base
        <5>2. Base' = Begin(o + 1) + (2 + Len(units))
          BY <2>1, <3>4, <5>1
        <5>3. Base = Begin(o + 1) + (2 + Len(got))
          BY <1>12, <4>2
        <5> QED
          BY SMT, <1>13, <3>2, <5>2, <5>3
      <4> QED
        BY <1>3, <4>1, <4>2
    <3>7. PlaceInv'
      BY <1>6, <2>1, <3>2, <3>3, <3>4, <3>5 DEF PlaceInv
    <3> QED
      BY <3>6, <3>7
  <2>6. WireInv' /\ PlaceInv'
    <3>1. CASE ~Clean
      BY <1>6, <3>1 DEF WireInv, PlaceInv
    <3>2. CASE Clean
      BY <1>1, <1>4, <1>5, <2>5, <3>2, WireShrinks
    <3> QED
      BY <3>1, <3>2
  <2>7. Pipe!Fail \/ UNCHANGED shown
    BY <1>1, <1>6, <1>8, <2>1 DEF Pipe!Fail, shown
  <2> QED
    BY <1>6, <2>2, <2>3, <2>4, <2>6, <2>7 DEF RInv
<1> QED
  BY <1>14, <1>15

\* A unit of a frame's header, and with the second one its type counts.
LEMMA FrameHeaderKeeps ==
  ASSUME RInv, ReadFrameHeader
  PROVE  RInv' /\ (Pipe!End \/ Pipe!Fail \/ UNCHANGED shown)
<1> DEFINE units == Append(got, Head(wire))
           whole == Len(units) = 2
<1>1. /\ layer = "frame" /\ dec = <<>> /\ term = "none" /\ remaining = 0
      /\ wire # <<>> /\ wire' = Tail(wire)
      /\ UNCHANGED <<layer, writer, fin, cut, skip, part, left, dec, delivered>>
  BY DEF ReadFrameHeader, Reading, chunks
<1>2. RecordTypes /\ SealedInv /\ WireInv /\ ReaderInv /\ PlaceInv
  BY DEF RInv
<1>3. /\ opened \in Nat /\ wire \in Seq(UnitSet) /\ got \in Seq(UnitSet)
      /\ skip = "none" /\ Len(got) <= 1
  BY <1>1, <1>2 DEF RecordTypes, ReaderInv
<1>4. /\ wire' \in Seq(UnitSet) /\ Len(wire') \in Nat /\ Head(wire) \in UnitSet
      /\ Len(wire) = 1 + Len(wire')
      /\ \A i \in 1..Len(wire') : wire'[i] = wire[1 + i]
  BY <1>1, <1>3, TailParts
<1>5. units \in Seq(UnitSet) /\ Len(units) = Len(got) + 1 /\ 1 \in Nat
  BY SMT, <1>3, <1>4
<1>6. /\ SealedInv' /\ WriterInv' /\ BufInv' /\ (Clean' <=> Clean)
      /\ sealed' = sealed /\ taken' = taken /\ (closed' <=> closed)
      /\ layer' = layer /\ (Sealed("reset")' <=> Sealed("reset"))
      /\ \A k : Begin(k)' = Begin(k) /\ Bytes(k)' = Bytes(k)
      /\ \A k : Length(sealed[k])' = Length(sealed[k])
  BY <1>1, SameWriter
<1>7. ~closed' <=> ~closed
  BY <1>6
<1>8. PICK o \in Nat : o = opened
  BY <1>3
<1> DEFINE r == sealed[o + 1]
<1>9. /\ got' = IF whole THEN <<>> ELSE units
      /\ opened' = IF whole THEN o + 1 ELSE o
      /\ remaining' = IF whole /\ Sound(units) THEN r.len ELSE 0
      /\ term' = CASE ~whole -> "none"
                   [] whole /\ Sound(units) /\ r.type = "data" -> "none"
                   [] whole /\ Sound(units) /\ r.type = "end" -> "eof"
                   [] OTHER -> "error"
  BY <1>8 DEF ReadFrameHeader
<1>10. /\ o < Len(sealed) /\ Len(got) \in Nat
       /\ Len(got) < Length(sealed[o + 1]) /\ Length(sealed[o + 1]) \in Nat
  BY <1>1, <1>3, <1>8, NextOfRecord
<1>11. Clean => Sound(units)
                /\ \A i \in 1..Len(units) : units[i] = <<"record", o + 1, i>>
  BY <1>1, <1>3, <1>8, UnitsSound
<1> HIDE DEF units
<1>12. Base = Begin(o + 1) + (Len(got) - 0)
  BY <1>1, <1>8 DEF Base
<1>13. Begin(o + 1) \in Nat
  <2>1. o + 1 \in 1..(Len(sealed) + 1)
    BY <1>1, <1>2, <1>8, BaseType
  <2> QED
    BY <1>2, <2>1, BlockFacts
<1>14. Base' = Begin(opened + 1)' + (Len(got') - remaining')
  BY <1>1, <1>6 DEF Base
<1>15. PICK n \in Nat : n = r.len
  BY <1>1, <1>8, <1>10, OpenFacts
<1>16. PICK d \in Nat : d = Len(delivered)
  BY <1>1, <1>8, <1>10, OpenFacts
<1>17. /\ o + 1 \in 1..Len(sealed) /\ o + 1 \in Nat /\ o + 1 <= Len(sealed)
       /\ (n # 0 <=> r.type = "data")
       /\ Bytes((o + 1) + 1) = d + n
       /\ Begin((o + 1) + 1) = Begin(o + 1) + BlockLen(o + 1)
       /\ \A k \in 1..o : sealed[k].type = "data"
       /\ r.type = "data" => \A k \in 1..(o + 1) : sealed[k].type = "data"
       /\ r.type # "data" => closed /\ d = taken
       /\ r.type = "reset" => Sealed("reset")
  BY <1>1, <1>8, <1>10, <1>15, <1>16, OpenFacts
<1>18. r.type \in {"data", "end", "reset"}
  BY <1>2, <1>17, RecordFields
<1> HIDE DEF r
<1>19. /\ <<>> \in Seq(UnitSet) /\ 0 \in Nat /\ Len(<<>>) = 0
       /\ \A x \in 1..0 : FALSE
  BY SMT
<1>20. CASE ~whole
  <2>1. /\ got' = units /\ opened' = o /\ remaining' = 0 /\ term' = "none"
    BY <1>9, <1>20
  <2>2. Len(got) = 0 /\ Len(units) = 1
    BY SMT, <1>3, <1>5, <1>10, <1>20
  <2>3. RecordTypes'
    BY <1>1, <1>2, <1>3, <1>4, <1>5, <1>8, <1>19, <2>1, ReaderTypes
       DEF RecordTypes
  <2>4. /\ Begin(opened + 1)' = Begin(o + 1)
        /\ Bytes(opened + 1)' = Bytes(o + 1)
        /\ Length(sealed[opened + 1])' = Length(sealed[o + 1])
    <3>1. PICK k : k = o + 1
      OBVIOUS
    <3>2. /\ Begin(k)' = Begin(k) /\ Bytes(k)' = Bytes(k) /\ k = opened' + 1
          /\ Length(sealed[k])' = Length(sealed[k])
      BY <1>6, <2>1, <3>1
    <3> QED
      BY <3>1, <3>2
  <2>5. Base' = Base + 1
    <3>1. Base' = Begin(o + 1) + (1 - 0) /\ Base = Begin(o + 1) + (0 - 0)
      BY <1>12, <1>14, <2>1, <2>2, <2>4
    <3> QED
      BY SMT, <1>13, <3>1
  <2>6. WireInv'
    BY <1>1, <1>4, <1>5, <2>5, WireShrinks
  <2>7. ReaderInv'
    <3>1. /\ o <= Len(sealed) /\ \A k \in 1..o : sealed[k].type = "data"
          /\ Bytes(o + 1) = Len(delivered) + Len(dec) + 0
          /\ \A i \in 1..Len(dec) : dec[i] = Len(delivered) + i
      BY <1>1, <1>2, <1>8 DEF ReaderInv
    <3>2. ~(remaining' > 0) /\ Len(got') <= 1
      BY SMT, <2>1, <2>2
    <3> QED
      BY <1>1, <1>3, <1>6, <2>1, <2>4, <3>1, <3>2 DEF ReaderInv
  <2>8. PlaceInv'
    <3>1. Len(units) < Length(sealed[o + 1])
      <4>1. Length(sealed[o + 1]) >= 2
        BY <1>2, <1>17, BlockFacts
      <4> QED
        BY SMT, <1>10, <2>2, <4>1
    <3> QED
      BY <1>1, <1>6, <1>10, <1>11, <2>1, <2>4, <3>1 DEF PlaceInv
  <2>9. ErrorInv'
    BY <2>1 DEF ErrorInv
  <2>10. UNCHANGED shown
    BY <1>1, <1>6, <1>7, <2>1 DEF shown
  <2> QED
    BY <1>6, <2>3, <2>6, <2>7, <2>8, <2>9, <2>10 DEF RInv
<1>21. CASE whole
  <2>1. got' = <<>> /\ opened' = o + 1 /\ remaining' \in Nat
    BY <1>9, <1>15, <1>19, <1>21
  <2>2. Len(got) = 1
    <3>1. PICK g \in Nat : g = Len(got)
      BY <1>10
    <3>2. g + 1 = 2
      BY <1>5, <1>21, <3>1
    <3>3. g = 1
      BY SMT, <3>2
    <3> QED
      BY <3>1, <3>3
  <2>3. term' \in {"none", "eof", "error"}
    BY <1>9
  <2>4. RecordTypes'
    BY <1>1, <1>2, <1>3, <1>4, <1>17, <1>19, <2>1, <2>3, ReaderTypes
       DEF RecordTypes
  <2>5. PlaceInv'
    <3>1. got' = <<>> /\ \A x \in 1..Len(got') : FALSE
      BY <1>19, <2>1
    <3> QED
      BY <1>1, <1>6, <3>1 DEF PlaceInv
  <2>6. CASE Sound(units) /\ r.type = "data"
    <3>1. term' = "none" /\ remaining' = n
      BY <1>9, <1>15, <1>21, <2>6
    <3>2. /\ Begin(opened + 1)' = Begin((o + 1) + 1)
          /\ Bytes(opened + 1)' = Bytes((o + 1) + 1)
      <4>1. PICK k : k = (o + 1) + 1
        OBVIOUS
      <4>2. Begin(k)' = Begin(k) /\ Bytes(k)' = Bytes(k) /\ k = opened' + 1
        BY <1>6, <2>1, <4>1
      <4> QED
        BY <4>1, <4>2
    <3>3. BlockLen(o + 1) = (2 + n + 0) + 0
      BY <1>1, <1>15 DEF BlockLen, Length, r
    <3>4. Base' = Base + 1
      <4>1. Base' = (Begin(o + 1) + ((2 + n + 0) + 0)) + (0 - n)
        BY <1>14, <1>17, <1>19, <2>1, <3>1, <3>2, <3>3
      <4>2. Base = Begin(o + 1) + (1 - 0)
        BY <1>12, <2>2
      <4> QED
        BY SMT, <1>13, <4>1, <4>2
    <3>5. WireInv'
      BY <1>1, <1>4, <1>5, <3>4, WireShrinks
    <3>6. ReaderInv'
      <4>1. /\ d + n = Len(delivered') + Len(dec') + remaining'
            /\ n <= n /\ opened' > 0 /\ Len(got') <= 1
        <5>1. Len(delivered') = d /\ Len(dec') = 0
          BY <1>1, <1>16, <1>19
        <5> QED
          BY SMT, <1>19, <2>1, <3>1, <5>1
      <4>2. Bytes(opened + 1)' = Len(delivered') + Len(dec') + remaining'
        BY <1>17, <3>2, <4>1
      <4>3. remaining' <= sealed'[opened'].len
        BY <1>6, <1>15, <2>1, <3>1, <4>1 DEF r
      <4>4. \A k \in 1..opened' : sealed'[k].type = "data"
        BY <1>6, <1>17, <2>1, <2>6
      <4>5. \A x \in 1..Len(dec') : FALSE
        BY <1>1, <1>19
      <4> QED
        BY <1>1, <1>3, <1>6, <1>17, <2>1, <3>1, <4>1, <4>2, <4>3, <4>4, <4>5
           DEF ReaderInv
    <3>7. ErrorInv'
      BY <3>1 DEF ErrorInv
    <3>8. UNCHANGED shown
      BY <1>1, <1>6, <1>7, <3>1 DEF shown
    <3> QED
      BY <1>6, <2>4, <2>5, <3>5, <3>6, <3>7, <3>8 DEF RInv
  <2>7. CASE ~(Sound(units) /\ r.type = "data")
    <3>1. /\ term' = "eof" => Sound(units) /\ r.type = "end"
          /\ term' # "none"
          /\ term' = "error" => ~Sound(units) \/ r.type = "reset"
      BY <1>9, <1>18, <1>21, <2>7
    <3>2. WireInv'
      BY <3>1 DEF WireInv
    <3>3. ReaderInv'
      <4>1. \A x \in 1..Len(dec') : FALSE
        BY <1>1, <1>19
      <4> QED
        BY <1>1, <1>3, <1>6, <3>1, <4>1 DEF ReaderInv
    <3>4. ErrorInv'
      BY <1>6, <1>11, <1>17, <3>1 DEF ErrorInv
    <3>5. Pipe!End \/ Pipe!Fail
      <4>1. CASE term' = "eof"
        <5>1. closed /\ d = taken
          BY <1>17, <3>1, <4>1
        <5> QED
          BY <1>1, <1>6, <1>7, <1>16, <4>1, <5>1 DEF Pipe!End
      <4>2. CASE term' = "error"
        BY <1>1, <1>6, <1>7, <4>2 DEF Pipe!Fail
      <4> QED
        BY <2>3, <3>1, <4>1, <4>2
    <3> QED
      BY <1>6, <2>4, <2>5, <3>2, <3>3, <3>4, <3>5 DEF RInv
  <2> QED
    BY <2>6, <2>7
<1> QED
  BY <1>20, <1>21

\* A Read inside a DATA frame.
LEMMA FrameDataKeeps ==
  ASSUME RInv, NEW m \in Nat, m > 0, ReadFrameData(m)
  PROVE  RInv' /\ Pipe!Get
<1>1. /\ layer = "frame" /\ dec = <<>> /\ term = "none"
      /\ m <= Least(remaining, Len(wire))
      /\ delivered' = delivered \o
           [i \in 1..m |-> sealed[wire[i][2]].from + wire[i][3] - 3]
      /\ remaining' = remaining - m
      /\ wire' = SubSeq(wire, m + 1, Len(wire))
      /\ UNCHANGED <<layer, writer, fin, cut, skip, part, left, got, opened,
                     dec, term>>
  BY DEF ReadFrameData, Reading, chunks
<1>2. RecordTypes /\ SealedInv /\ WireInv /\ ReaderInv /\ PlaceInv
  BY DEF RInv
<1>3. /\ wire \in Seq(UnitSet) /\ Len(wire) \in Nat /\ remaining \in Nat
      /\ delivered \in Seq(Nat) /\ Len(delivered) \in Nat /\ taken \in Nat
      /\ Len(sealed) \in Nat /\ opened \in Nat
  BY <1>2, LenProperties DEF RecordTypes
<1>4. m <= remaining /\ m <= Len(wire) /\ remaining > 0
  BY SMT, <1>1, <1>3 DEF Least
<1>5. /\ got = <<>> /\ opened > 0 /\ remaining <= sealed[opened].len
      /\ opened <= Len(sealed) /\ \A k \in 1..opened : sealed[k].type = "data"
      /\ Bytes(opened + 1) = Len(delivered) + Len(dec) + remaining
      /\ skip = "none"
  BY <1>1, <1>2, <1>4 DEF ReaderInv
<1>6. PICK k \in 1..Len(sealed) : k = opened
  <2>1. opened \in 1..Len(sealed)
    BY SMT, <1>3, <1>5
  <2> QED
    BY <2>1
<1>7. PICK n \in Nat : n = sealed[k].len
  BY <1>2, RecordFields
<1>8. PICK d \in Nat : d = Len(delivered)
  BY <1>3
<1>9. Len(dec) = 0 /\ Len(got) = 0
  BY SMT, <1>1, <1>5
<1>10. PICK f \in Nat : f = sealed[k].from
  BY <1>2, RecordFields
<1>11. /\ Bytes(k + 1) = d + 0 + remaining /\ Bytes(k + 1) = (f - 1) + n
  <2>1. k <= Len(sealed)
    BY <1>2, RecordFields
  <2>2. Bytes(k + 1) = Bytes(k) + n /\ Bytes(k) = f - 1
    BY <1>2, <1>7, <1>10, <2>1 DEF SealedInv, Bytes
  <2> QED
    BY <1>5, <1>6, <1>8, <1>9, <2>2
<1>12. f + n = d + remaining + 1 /\ remaining <= n
  <2>1. remaining <= n
    BY <1>5, <1>6, <1>7
  <2>2. d + 0 + remaining = (f - 1) + n
    BY <1>11
  <2> QED
    BY SMT, <1>3, <2>1, <2>2
<1>13. Begin(k + 1) = Begin(k) + (n + 2) /\ Begin(k) \in Nat
  <2>1. BlockLen(k) = (2 + n + 0) + 0
    BY <1>1, <1>7 DEF BlockLen, Length
  <2>2. k \in 1..(Len(sealed) + 1)
    BY SMT, <1>3
  <2>3. Begin(k + 1) = Begin(k) + BlockLen(k) /\ Begin(k) \in Nat
    BY <1>2, <2>2, BlockFacts
  <2> QED
    BY SMT, <2>1, <2>3
<1>14. Base = Begin(k + 1) + (0 - remaining)
  BY <1>1, <1>6, <1>9 DEF Base
<1>15. ASSUME NEW i \in 1..m
       PROVE  wire[i] = <<"record", k, ((n + 2) - remaining) + i>>
  <2>1. BlockLen(k) = (2 + n + 0) + 0
    BY <1>1, <1>7 DEF BlockLen, Length
  <2>2. /\ i \in 1..Len(wire) /\ ((n + 2) - remaining) + i \in 1..BlockLen(k)
        /\ Begin(k) + (((n + 2) - remaining) + i) = Base + i
    <3>1. /\ i \in 1..Len(wire)
          /\ ((n + 2) - remaining) + i \in 1..((2 + n + 0) + 0)
      BY SMT, <1>3, <1>4, <1>12
    <3>2. Begin(k) + (((n + 2) - remaining) + i) = Base + i
      BY SMT, <1>3, <1>13, <1>14
    <3> QED
      BY <2>1, <3>1, <3>2
  <2>3. OnWire
    BY <1>1, <1>2 DEF WireInv
  <2>4. wire[i] = Unit(k, ((n + 2) - remaining) + i)
    BY <2>2, <2>3 DEF OnWire
  <2> QED
    BY <1>1, <2>4 DEF Unit
<1>16. \A i \in 1..m : sealed[wire[i][2]].from + wire[i][3] - 3 = d + i
  <2> SUFFICES ASSUME NEW i \in 1..m
               PROVE  sealed[wire[i][2]].from + wire[i][3] - 3 = d + i
    OBVIOUS
  <2>1. PICK j : j = ((n + 2) - remaining) + i
    OBVIOUS
  <2>2. wire[i] = <<"record", k, j>>
    BY <1>15, <2>1
  <2>3. wire[i][2] = k /\ wire[i][3] = j
    BY SMT, <2>2
  <2>4. f + j - 3 = d + i
    BY SMT, <1>3, <1>12, <2>1
  <2> QED
    BY <1>10, <2>3, <2>4
<1>17. delivered' = delivered \o [i \in 1..m |-> d + i]
  BY <1>1, <1>16
<1>18. delivered' \in Seq(Nat) /\ Len(delivered') = d + m
  <2>1. [i \in 1..m |-> d + i] \in Seq(Nat)
    BY SMT
  <2>2. Len([i \in 1..m |-> d + i]) = m
    BY SMT
  <2> QED
    BY SMT, <1>3, <1>8, <1>17, <2>1, <2>2
<1>19. /\ wire' \in Seq(UnitSet) /\ Len(wire') \in Nat
       /\ Len(wire) = m + Len(wire')
       /\ \A i \in 1..Len(wire') : wire'[i] = wire[m + i]
  <2>1. wire' \in Seq(UnitSet) /\ Len(wire') = Len(wire) - m
    BY SMT, <1>1, <1>3, <1>4
  <2>2. Len(wire') \in Nat /\ Len(wire) = m + Len(wire')
    BY SMT, <1>3, <1>4, <2>1
  <2>3. ASSUME NEW i \in 1..Len(wire')
        PROVE  wire'[i] = wire[m + i]
    BY SMT, <1>1, <1>3, <1>4, <2>1, <2>3
  <2> QED
    BY <2>1, <2>2, <2>3
<1>20. /\ SealedInv' /\ WriterInv' /\ BufInv' /\ (Clean' <=> Clean)
       /\ sealed' = sealed /\ taken' = taken /\ (closed' <=> closed)
       /\ layer' = layer
       /\ \A l : Begin(l)' = Begin(l) /\ Bytes(l)' = Bytes(l)
       /\ \A l : Length(sealed[l])' = Length(sealed[l])
  BY <1>1, SameWriter
<1>21. /\ Begin(opened + 1)' = Begin(k + 1)
       /\ Bytes(opened + 1)' = Bytes(k + 1)
  <2>1. PICK l : l = k + 1
    OBVIOUS
  <2>2. Begin(l)' = Begin(l) /\ Bytes(l)' = Bytes(l) /\ l = opened' + 1
    BY <1>1, <1>6, <1>20, <2>1
  <2> QED
    BY <2>1, <2>2
<1>22. Base' = Base + m
  <2>1. Base' = Begin(opened + 1)' + (Len(got') - remaining')
    BY <1>1, <1>20 DEF Base
  <2>2. Base' = Begin(k + 1) + (0 - (remaining - m))
    BY <1>1, <1>9, <1>21, <2>1
  <2> QED
    BY SMT, <1>3, <1>13, <1>14, <2>2
<1>23. WireInv'
  BY <1>1, <1>19, <1>22, WireShrinks
<1>24. remaining' \in Nat /\ remaining' <= n
       /\ Bytes(k + 1) = Len(delivered') + 0 + remaining'
  <2>1. PICK e \in Nat : e = remaining
    BY <1>3
  <2>2. remaining' = e - m /\ m <= e /\ e <= n
    BY <1>1, <1>4, <1>12, <2>1
  <2>3. e - m \in Nat /\ e - m <= n /\ d + 0 + e = (d + m) + 0 + (e - m)
    BY SMT, <2>2
  <2> QED
    BY <1>11, <1>18, <2>1, <2>2, <2>3
<1>25. RecordTypes'
  BY <1>1, <1>2, <1>18, <1>19, <1>24, ReaderTypes DEF RecordTypes
<1>26. ReaderInv'
  <2>1. /\ \A x \in 1..Len(dec') : FALSE
        /\ Len(got') <= 1 /\ Len(dec') = 0
    BY SMT, <1>1, <1>5
  <2> QED
    BY <1>1, <1>5, <1>6, <1>7, <1>20, <1>21, <1>24, <2>1 DEF ReaderInv
<1>27. PlaceInv'
  <2>1. got' = <<>> /\ \A x \in 1..Len(got') : FALSE
    BY SMT, <1>1, <1>5
  <2> QED
    BY <1>1, <1>20, <2>1 DEF PlaceInv
<1>28. ErrorInv'
  BY <1>1 DEF ErrorInv
<1>29. Pipe!Get
  <2>1. Bytes(k + 1) \in Nat /\ Bytes(k + 1) <= taken
    <3>1. k + 1 \in 1..(Len(sealed) + 1)
      BY SMT, <1>3
    <3> QED
      BY <1>2, <3>1, BlockFacts
  <2>2. m \in 1..(taken - Len(delivered))
    BY SMT, <1>3, <1>4, <1>8, <1>11, <2>1
  <2>3. ~closed' <=> ~closed
    BY <1>20
  <2> QED
    BY <1>1, <1>8, <1>17, <1>20, <2>2, <2>3 DEF Pipe!Get
<1> QED
  BY <1>20, <1>23, <1>25, <1>26, <1>27, <1>28, <1>29 DEF RInv

\* Before the first record.
LEMMA RecordStart ==
  ASSUME RecordInit
  PROVE  RInv /\ Pipe!Init
<1>1. /\ layer \in {"raw", "h1", "frame"} /\ wpc = "idle" /\ supplied = 0
      /\ todo = 0 /\ taken = 0 /\ sealed = <<>> /\ buf = <<>> /\ flushed = 0
      /\ closed = FALSE /\ failed = FALSE /\ wire = <<>> /\ fin = FALSE
      /\ cut = FALSE /\ skip = (IF layer = "h1" THEN "line" ELSE "none")
      /\ part = 0 /\ got = <<>> /\ opened = 0 /\ remaining = 0 /\ dec = <<>>
      /\ delivered = <<>> /\ term = "none"
  BY DEF RecordInit
<1>2. /\ Len(sealed) = 0 /\ Len(buf) = 0 /\ Len(wire) = 0 /\ Len(got) = 0
      /\ Len(dec) = 0 /\ Len(delivered) = 0
  BY SMT, <1>1
<1>3. /\ sealed \in Seq(Records) /\ buf \in Seq(UnitSet)
      /\ wire \in Seq(UnitSet) /\ got \in Seq(UnitSet)
      /\ dec \in Seq(Nat) /\ delivered \in Seq(Nat) /\ 0 \in Nat
  BY SMT, <1>1
<1>4. \A x \in 1..0 : FALSE
  BY SMT
<1>5. RecordTypes
  BY <1>1, <1>3 DEF RecordTypes
<1>6. \A k \in 1..1 : k = 1 /\ ~(k <= 0)
  BY SMT
<1>7. Bytes(1) = 0 /\ 0 + 1 = 1 /\ 0 <= 0 /\ 1 \in 1..1
  <2>1. 0 + 1 = 1 /\ 0 <= 0 /\ ~(1 <= 0) /\ 1 \in 1..1
    BY SMT
  <2> QED
    BY <1>1, <1>2, <2>1 DEF Bytes
<1>8. SealedInv
  <2>1. 0 <= MaxSequence
    BY SMT, RecordAssumption
  <2>2. \A k, l \in 1..(Len(sealed) + 1) : Bytes(k) <= Bytes(l)
    BY <1>2, <1>6, <1>7
  <2> QED
    BY <1>2, <1>4, <1>7, <2>1, <2>2 DEF SealedInv
<1>9. WriterInv
  <2>1. 0 = 0 + 0
    BY SMT
  <2> QED
    BY <1>1, <2>1 DEF WriterInv
<1>10. BufInv
  BY <1>1, <1>2, <1>4 DEF BufInv
<1>11. OnWire
  BY <1>2, <1>4 DEF OnWire
<1>12. Begin(1) = 0
  BY SMT, <1>7 DEF Begin
<1>13. Base = 0
  <2>1. CASE layer = "h1"
    <3>1. Base = 0 + 0
      BY <1>1, <1>7, <1>12, <2>1 DEF Base
    <3> QED
      BY SMT, <3>1
  <2>2. CASE layer # "h1"
    <3>1. Base = 0 + (0 - 0)
      BY <1>1, <1>2, <1>7, <1>12, <2>2 DEF Base
    <3> QED
      BY SMT, <3>1
  <2> QED
    BY <2>1, <2>2
<1>14. Begin(Len(sealed) + 1) = 0 /\ Sent = 0 - (0 + 0) /\ LastLen = 0
  BY <1>1, <1>2, <1>7, <1>12 DEF Sent, Pending, LastLen
<1>15. WireInv
  <2>1. /\ Base + Len(wire) <= Begin(Len(sealed) + 1)
        /\ Base + Len(wire) = Sent + LastLen
    BY SMT, <1>2, <1>13, <1>14
  <2> QED
    BY <1>11, <2>1 DEF WireInv
<1>16. ReaderInv
  <2>1. /\ 0 = 0 + 0 + 0 /\ 0 <= 1 /\ ~(0 > 0)
    BY SMT
  <2> QED
    BY <1>1, <1>2, <1>4, <1>7, <2>1 DEF ReaderInv
<1>17. PlaceInv
  BY <1>1, <1>2, <1>4 DEF PlaceInv
<1>18. ErrorInv
  BY <1>1 DEF ErrorInv
<1>19. Pipe!Init
  BY <1>1 DEF Pipe!Init
<1> QED
  BY <1>5, <1>8, <1>9, <1>10, <1>15, <1>16, <1>17, <1>18, <1>19 DEF RInv

\* Every step keeps the invariant, and is one of the byte pipe or none.
LEMMA RecordStep ==
  ASSUME RInv, [RecordNext]_recordVars
  PROVE  RInv' /\ (Pipe!Next \/ UNCHANGED shown)
<1>1. /\ MinChunk \in Nat /\ MinChunk > 0 /\ MidChunk \in Nat /\ MidChunk > 0
      /\ MaxChunk \in Nat /\ MaxChunk > 0 /\ Batch \in Nat /\ 0 \in Nat
  BY SMT, RecordAssumption
<1>2. ASSUME NEW n \in WriteSizes, NEW idle \in BOOLEAN, Write(n, idle)
      PROVE  RInv' /\ UNCHANGED shown
  BY <1>2, CallKeeps
<1>3. CASE RawSeal
  <2>1. layer = "raw" /\ Len(sealed) < MaxSequence
    BY <1>3 DEF RawSeal
  <2>2. CASE Seal(MinChunk, 0)
    BY <1>1, <2>1, <2>2, SealKeeps DEF Pipe!Next
  <2>3. CASE Seal(MidChunk, MidChunk)
    BY <1>1, <2>1, <2>3, SealKeeps DEF Pipe!Next
  <2>4. CASE Seal(MaxChunk, Batch)
    BY <1>1, <2>1, <2>4, SealKeeps DEF Pipe!Next
  <2> QED
    BY <1>3, <2>2, <2>3, <2>4 DEF RawSeal
<1>4. CASE RawExhausted
  BY <1>4, ExhaustedKeeps
<1>5. CASE H1Seal \/ FrameSeal
  <2>1. layer # "raw" /\ Seal(MaxChunk, 0)
    BY <1>5 DEF H1Seal, FrameSeal
  <2> QED
    BY <1>1, <2>1, SealKeeps DEF Pipe!Next
<1>6. CASE Flush
  BY <1>6, FlushKeeps
<1>7. ASSUME NEW m \in 0..(Len(buf) + 3), FlushFails(m)
      PROVE  RInv' /\ (Pipe!Next \/ UNCHANGED shown)
  <2>1. m \in Nat
    BY SMT, <1>7
  <2> QED
    BY <1>7, <2>1, FlushFailsKeeps DEF Pipe!Next
<1>8. CASE RawWriteEOF
  <2>1. /\ layer = "raw" /\ Len(sealed) < MaxSequence /\ EndRecord("end")
        /\ "end" \in {"end", "reset"}
    BY <1>8 DEF RawWriteEOF
  <2> QED
    BY <2>1, EndKeeps DEF Pipe!Next
<1>9. CASE RawEOFExhausted
  BY <1>9, EOFExhaustedKeeps DEF Pipe!Next
<1>10. CASE H1WriteEOF \/ FrameCloseWrite
  <2>1. layer # "raw" /\ EndRecord("end") /\ "end" \in {"end", "reset"}
    BY <1>10 DEF H1WriteEOF, FrameCloseWrite
  <2> QED
    BY <2>1, EndKeeps DEF Pipe!Next
<1>11. CASE FrameReset
  <2>1. layer = "frame" /\ EndRecord("reset") /\ "reset" \in {"end", "reset"}
    BY <1>11 DEF FrameReset
  <2> QED
    BY <2>1, EndKeeps DEF Pipe!Next
<1>12. CASE CloseTransport
  BY <1>12, CloseKeeps
<1>13. ASSUME NEW m \in 0..Len(wire), Cut(m)
       PROVE  RInv' /\ UNCHANGED shown
  <2>1. m \in Nat
    BY SMT, <1>13
  <2> QED
    BY <1>13, <2>1, CutKeeps
<1>14. CASE Timeout
  BY <1>14, TimeoutKeeps
<1>15. CASE ReadChunkLine
  BY <1>15, ChunkLineKeeps DEF Pipe!Next
<1>16. CASE RawReadRecord \/ H1ReadRecord
  <2>1. ReadUnit /\ layer # "frame"
    BY <1>16 DEF RawReadRecord, H1ReadRecord
  <2> QED
    BY <2>1, ReadUnitKeeps DEF Pipe!Next
<1>17. CASE ReadFrameHeader
  BY <1>17, FrameHeaderKeeps DEF Pipe!Next
<1>18. CASE TransportEnd
  BY <1>18, TransportEndKeeps DEF Pipe!Next
<1>19. ASSUME NEW m \in 1..MaxChunk, Deliver(m) \/ ReadFrameData(m)
       PROVE  RInv' /\ Pipe!Next
  <2>1. m \in Nat /\ m > 0
    BY SMT, <1>1
  <2> QED
    BY <1>19, <2>1, DeliverKeeps, FrameDataKeeps DEF Pipe!Next
<1>20. CASE UNCHANGED recordVars
  <2>1. UNCHANGED <<layer, writer, wire, fin, cut, reader>>
    BY <1>20 DEF recordVars
  <2>2. UNCHANGED <<taken, sealed, failed, buf, closed, chunks, record, dec,
                    delivered, term>>
    BY <2>1 DEF writer, reader
  <2>3. /\ SealedInv' /\ WriterInv' /\ BufInv' /\ (closed' <=> closed)
    BY <2>1, SameWriter
  <2>4. WireInv' /\ ReaderInv' /\ PlaceInv' /\ ErrorInv'
    BY <2>1, <2>2, <2>3, SameWire
  <2>5. RecordTypes'
    BY <2>1, <2>2, ReaderTypes DEF RInv, RecordTypes, chunks, record
  <2>6. ~closed' <=> ~closed
    BY <2>3
  <2> QED
    BY <2>2, <2>3, <2>4, <2>5, <2>6 DEF RInv, shown
<1> QED
  BY <1>2, <1>3, <1>4, <1>5, <1>6, <1>7, <1>8, <1>9, <1>10, <1>11, <1>12,
     <1>13, <1>14, <1>15, <1>16, <1>17, <1>18, <1>19, <1>20
     DEF RecordNext, ReaderStep

(* For every layer, record sizes and batch limit: what is under way is the *)
(* units of the records sealed, each where its place says, from the one    *)
(* the reader is to read next, as long as nothing has gone wrong           *)
(* (rawstream, h1session and frame: the writers and the readers).          *)
THEOREM RecordCorrect == RecordInit /\ [][RecordNext]_recordVars => []RInv
<1>1. RecordInit => RInv
  BY RecordStart
<1>2. RInv /\ [RecordNext]_recordVars => RInv'
  BY RecordStep
<1> QED
  BY <1>1, <1>2, PTL

(* When a Write has returned without an error no byte of it waits in a     *)
(* buffer, whichever phase sized its records (WriteBatch, flush).          *)
THEOREM RecordFlushed ==
  RecordInit /\ [][RecordNext]_recordVars => []NothingHeldBack
<1>1. RInv => NothingHeldBack
  <2> SUFFICES ASSUME RInv, wpc = "idle", ~failed, Len(sealed) < MaxSequence
               PROVE  flushed = supplied
    BY DEF NothingHeldBack
  <2>1. taken \in Nat
    BY DEF RInv, RecordTypes
  <2>2. supplied = taken + todo /\ todo = 0 /\ flushed = taken
    BY DEF RInv, WriterInv
  <2> QED
    BY SMT, <2>1, <2>2
<1> QED
  BY <1>1, RecordCorrect, PTL

(* A Read fails for good only after a real fault, however often it timed   *)
(* out and wherever in a header, a record or a chunk line it did           *)
(* (FramedReader.Read, StreamReader.Read, chunkedReader.Read).             *)
THEOREM RecordFailures ==
  RecordInit /\ [][RecordNext]_recordVars => []FailsOnlyOnFault
<1>1. RInv => FailsOnlyOnFault
  <2> SUFFICES ASSUME RInv, term = "error", ~cut, ~failed, ~Sealed("reset")
               PROVE  Len(sealed) = MaxSequence
    BY DEF FailsOnlyOnFault
  <2>1. ~Clean
    BY DEF RInv, ErrorInv
  <2>2. layer = "raw" /\ ~(Len(sealed) < MaxSequence)
    BY <2>1 DEF Clean
  <2>3. Len(sealed) <= MaxSequence
    BY <2>2 DEF RInv, SealedInv
  <2>4. Len(sealed) \in Nat /\ MaxSequence \in Nat
    BY RecordAssumption, LenProperties DEF RInv, RecordTypes
  <2> QED
    BY SMT, <2>2, <2>3, <2>4
<1> QED
  BY <1>1, RecordCorrect, PTL

(* Every record layer implements the byte pipe for every size and limit:   *)
(* Read returns the bytes written, in order and each once, and the end     *)
(* only after all of them; a transport that breaks or merely ends is an    *)
(* error (rawstream, h1session and frame).                                 *)
THEOREM RecordImplements ==
  RecordInit /\ [][RecordNext]_recordVars => PipeSpec
<1>1. RecordInit => Pipe!Init
  BY RecordStart
<1>2. RInv /\ [RecordNext]_recordVars
        => [Pipe!Next]_<<taken, ~closed, delivered, term>>
  BY RecordStep DEF shown
<1> QED
  BY <1>1, <1>2, RecordCorrect, PTL DEF PipeSpec, Pipe!Spec
=============================================================================
