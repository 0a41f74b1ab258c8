---------------------------- MODULE RecordStream ----------------------------
(***************************************************************************)
(* One direction of a proxied TCP stream over the three record layers of   *)
(* the protocol: rawstream and h1session (length-prefixed AEAD records,    *)
(* ended by an authenticated empty record, h1session's inside HTTP chunks) *)
(* and frame (DATA and HALF_CLOSE frames on an HTTP/2 or HTTP/3 stream).   *)
(*                                                                         *)
(* The transport carries units: two of a record's header, one per byte of  *)
(* plaintext, one of the AEAD tag, two of a chunk's size line and two of   *)
(* its terminator.  It may break anywhere, losing what is under way; a     *)
(* write may get only a part of its bytes out, and a read may time out     *)
(* between any two units and be repeated.  A byte is its place in the      *)
(* stream.  The n-th record sealed has nonce n - 1, and opens only as the  *)
(* n-th record read.  The other end of a chunked body is net/http's.       *)
(***************************************************************************)
EXTENDS Naturals, Sequences

CONSTANTS MinChunk, MidChunk, MaxChunk,  \* Min-, Mid-, MaxRecordPayloadLen
          Phase1, Phase2,  \* Phase1Threshold, Phase2Threshold
          Batch,           \* MaxBatchFlushLen, in units
          MaxSequence,     \* where AEADStream runs out of nonces
          WriteSizes,      \* bound: how many bytes a Write is given
          MaxBytes,        \* bound: bytes written in all
          MaxTimeouts      \* bound: reads that time out

ASSUME RecordAssumption ==
  /\ MinChunk \in Nat \ {0} /\ MidChunk \in Nat \ {0} /\ MaxChunk \in Nat \ {0}
  /\ Phase1 \in Nat /\ Phase2 \in Nat /\ Batch \in Nat
  /\ WriteSizes \subseteq Nat \ {0}
  /\ MaxSequence \in Nat /\ MaxBytes \in Nat /\ MaxTimeouts \in Nat

VARIABLES
  layer,    \* "raw", "h1" or "frame"
  wpc,      \* the writer: "idle", or in a call: "seal", "flush", "end", "fin"
  supplied,    \* bytes passed to Write so far
  todo,     \* bytes of the current Write not yet sealed
  taken,    \* bytes sealed
  burst,    \* burstBytes
  sealed,   \* the records sealed: their type, first byte and length
  buf,      \* units sealed and not yet written
  flushed,  \* bytes in records written completely
  closed,   \* no more is written: ended, or failed
  failed,   \* a write went wrong
  wire, fin, cut,  \* the transport: under way, half-closed, broken
  skip,     \* chunkedReader: what comes before the next byte of a chunk:
            \* "line", "crlf", "trailer", or "none"
  part, left,  \* units read of that line; chunkLeft
  got,      \* units of a record read in part (hdrBuf, rawBuf)
  opened,   \* records opened: the reader's sequence number
  remaining,  \* StreamReader.remaining
  dec,      \* bytes decrypted and not yet supplied to a caller
  delivered,  \* history: the bytes Read returned
  term,     \* "none", or what every further Read returns: "eof", "error"
  timeouts  \* reads that timed out

writer == <<wpc, supplied, todo, taken, burst, sealed, buf, flushed, closed,
            failed>>
chunks == <<skip, part, left>>
record == <<got, opened, remaining>>
reader == <<chunks, record, dec, delivered, term, timeouts>>
recordVars == <<layer, writer, wire, fin, cut, reader>>

RecordInit ==
  /\ layer \in {"raw", "h1", "frame"}
  /\ wpc = "idle" /\ supplied = 0 /\ todo = 0 /\ taken = 0 /\ burst = 0
  /\ sealed = <<>> /\ buf = <<>> /\ flushed = 0
  /\ closed = FALSE /\ failed = FALSE
  /\ wire = <<>> /\ fin = FALSE /\ cut = FALSE
  /\ skip = IF layer = "h1" THEN "line" ELSE "none"
  /\ part = 0 /\ left = 0
  /\ got = <<>> /\ opened = 0 /\ remaining = 0 /\ dec = <<>>
  /\ delivered = <<>> /\ term = "none" /\ timeouts = 0

Least(a, b) == IF a < b THEN a ELSE b

-----------------------------------------------------------------------------
(* What goes over the wire *)

Length(r) == 2 + r.len + IF layer = "frame" THEN 0 ELSE 1
Units(k, r) == [i \in 1..Length(r) |-> <<"record", k, i>>]

Line(n) == << <<"size", n, 1>>, <<"size", n, 2>> >>
CRLF == << <<"crlf", 0, 1>>, <<"crlf", 0, 2>> >>
LastChunk == Line(0) \o CRLF

\* chunkedWriter.Write; the other layers write to the connection itself.
Chunked(units) ==
  IF layer = "h1" THEN Line(Len(units)) \o units \o CRLF ELSE units

\* EncryptChunk, or encodeHeader and the payload.
Encrypt(type, len) ==
  LET r == [type |-> type, from |-> taken + 1, len |-> len]
  IN  /\ sealed' = Append(sealed, r)
      /\ buf' = buf \o Units(Len(sealed) + 1, r)
      /\ taken' = taken + len

-----------------------------------------------------------------------------
(* The writers *)

\* Write and WriteBatch, whose slices are cut as if they were one.  idle: more
\* than a second has passed since the last write.
Write(n, idle) ==
  /\ wpc = "idle" /\ ~closed /\ (idle => layer = "raw")
  /\ supplied + n <= MaxBytes
  /\ supplied' = supplied + n /\ todo' = n
  /\ burst' = IF idle THEN 0 ELSE burst
  /\ wpc' = "seal"
  /\ UNCHANGED <<layer, taken, sealed, buf, flushed, closed, failed, wire, fin,
                 cut, reader>>

\* Variant: the tail of a batch waits for the next write.
SealHoldsTail(chunk, flush) ==
  LET c == Least(todo, chunk)
  IN  /\ wpc = "seal"
      /\ Encrypt("data", c)
      /\ todo' = todo - c /\ burst' = burst + c
      /\ wpc' = IF flush = 0 \/ Len(buf') >= flush THEN "flush"
                ELSE IF todo' = 0 THEN "idle" ELSE "seal"
      /\ UNCHANGED <<layer, supplied, flushed, closed, failed, wire, fin, cut,
                     reader>>

\* One record; it is written when flush says so, and at the end of the call.
Seal(chunk, flush) ==
  LET c == Least(todo, chunk)
  IN  /\ wpc = "seal"
      /\ Encrypt("data", c)
      /\ todo' = todo - c /\ burst' = burst + c
      /\ wpc' = IF flush = 0 \/ Len(buf') >= flush \/ todo' = 0
                THEN "flush" ELSE "seal"
      /\ UNCHANGED <<layer, supplied, flushed, closed, failed, wire, fin, cut,
                     reader>>

RawSeal ==
  /\ layer = "raw" /\ Len(sealed) < MaxSequence
  /\ \/ burst < Phase1 /\ Seal(MinChunk, 0)
     \/ burst \in Phase1..(Phase2 - 1) /\ Seal(MidChunk, MidChunk)
     \/ burst >= Phase1 /\ burst >= Phase2 /\ Seal(MaxChunk, Batch)

\* EncryptChunk fails: what was batched is dropped with it.
RawExhausted ==
  /\ layer = "raw" /\ wpc = "seal" /\ Len(sealed) = MaxSequence
  /\ wpc' = "idle" /\ buf' = <<>> /\ todo' = 0
  /\ UNCHANGED <<layer, supplied, taken, burst, sealed, flushed, closed, failed,
                 wire, fin, cut, reader>>

H1Seal == layer = "h1" /\ Seal(MaxChunk, 0)
FrameSeal == layer = "frame" /\ Seal(MaxChunk, 0)

\* The whole buffer is written.  A Write goes on or returns, a CloseWrite goes
\* on to the transport.
Flush ==
  /\ wpc \in {"flush", "end"} /\ ~cut
  /\ wire' = wire \o Chunked(buf) /\ buf' = <<>>
  /\ flushed' = taken
  /\ wpc' = IF wpc = "end" THEN (IF layer = "frame" THEN "idle" ELSE "fin")
            ELSE IF todo > 0 THEN "seal" ELSE "idle"
  /\ UNCHANGED <<layer, supplied, todo, taken, burst, sealed, closed, failed,
                 fin, cut, reader>>

\* A write error or a short write after m units: the writer is done for.
FlushFails(m) ==
  /\ wpc \in {"flush", "end"} /\ m < Len(Chunked(buf)) /\ (cut => m = 0)
  /\ wire' = wire \o SubSeq(Chunked(buf), 1, m) /\ buf' = <<>>
  /\ failed' = TRUE /\ closed' = TRUE /\ wpc' = "idle" /\ todo' = 0
  /\ UNCHANGED <<layer, supplied, taken, burst, sealed, flushed, fin, cut,
                 reader>>

-----------------------------------------------------------------------------
(* Ending a direction *)

EndRecord(type) ==
  /\ wpc = "idle" /\ ~closed
  /\ Encrypt(type, 0)
  /\ closed' = TRUE /\ wpc' = "end"
  /\ UNCHANGED <<layer, supplied, todo, burst, flushed, failed, wire, fin, cut,
                 reader>>

RawWriteEOF ==
  /\ layer = "raw" /\ Len(sealed) < MaxSequence
  /\ EndRecord("end")

\* No nonce is left for the end either: CloseWrite returns the error.
RawEOFExhausted ==
  /\ layer = "raw" /\ wpc = "idle" /\ ~closed /\ Len(sealed) = MaxSequence
  /\ closed' = TRUE
  /\ UNCHANGED <<layer, wpc, supplied, todo, taken, burst, sealed, buf, flushed,
                 failed, wire, fin, cut, reader>>

H1WriteEOF == layer = "h1" /\ EndRecord("end")
FrameCloseWrite == layer = "frame" /\ EndRecord("end")

\* CopyAsDataFramesAndClose when its source failed.  After a failed write the
\* carrier takes nothing more, so that RESET goes nowhere.
FrameReset == layer = "frame" /\ EndRecord("reset")

\* StreamConn.CloseWrite and Conn.CloseWrite, once WriteEOF returned nil: also
\* when it did because an earlier failure had closed the writer.
CloseTransport ==
  /\ layer # "frame" /\ ~fin
  /\ wpc = "fin" \/ (wpc = "idle" /\ closed)
  /\ wpc' = "idle" /\ fin' = TRUE
  /\ wire' = IF layer = "h1" /\ ~cut THEN wire \o LastChunk ELSE wire
  /\ UNCHANGED <<layer, supplied, todo, taken, burst, sealed, buf, flushed,
                 closed, failed, cut, reader>>

\* The connection breaks; m of the units under way still arrive.
Cut(m) ==
  /\ ~cut /\ m <= Len(wire)
  /\ cut' = TRUE /\ wire' = SubSeq(wire, 1, m)
  /\ UNCHANGED <<layer, writer, fin, reader>>

-----------------------------------------------------------------------------
(* The readers *)

Reading == dec = <<>> /\ term = "none"

\* Variant: the deadline throws away what was read of a record.
TimeoutForgets ==
  /\ Reading /\ timeouts < MaxTimeouts
  /\ timeouts' = timeouts + 1 /\ got' = <<>>
  /\ UNCHANGED <<layer, writer, wire, fin, cut, chunks, opened, remaining, dec,
                 delivered, term>>

\* readError on a timeout: the next Read goes on where this one stopped.
Timeout ==
  /\ Reading /\ timeouts < MaxTimeouts
  /\ timeouts' = timeouts + 1
  /\ UNCHANGED <<layer, writer, wire, fin, cut, chunks, record, dec, delivered,
                 term>>

\* chunkedReader between two bytes of chunks: a size line, the CRLF after a
\* chunk, or the last chunk's trailer, whose end the record reader takes for an
\* unexpected one.
ReadChunkLine ==
  /\ Reading /\ skip # "none" /\ wire # <<>>
  /\ LET u == Head(wire)
         token == IF skip = "line" THEN "size" ELSE "crlf"
     IN  /\ term' = IF u[1] # token \/ (skip = "trailer" /\ part = 1)
                    THEN "error" ELSE term
         /\ left' = IF skip = "line" THEN u[2] ELSE left
         /\ part' = 1 - part
         /\ skip' = CASE part = 0 -> skip
                      [] part = 1 /\ skip = "crlf" -> "line"
                      [] part = 1 /\ skip = "line" ->
                           IF u[2] = 0 THEN "trailer" ELSE "none"
                      [] OTHER -> skip
  /\ wire' = Tail(wire)
  /\ UNCHANGED <<layer, writer, fin, cut, record, dec, delivered, timeouts>>

\* A byte of a chunk is gone from it; the other layers have no chunks.
InChunk ==
  /\ skip = "none"
  /\ IF layer = "h1"
     THEN /\ left' = left - 1 /\ UNCHANGED part
          /\ skip' = IF left = 1 THEN "crlf" ELSE "none"
     ELSE UNCHANGED chunks

\* What opens: the units of the next record, from its header on.
Opens(units) ==
  /\ opened < Len(sealed)
  /\ units = Units(opened + 1, sealed[opened + 1])

Sound(units) ==
  /\ opened < Len(sealed)
  /\ units = SubSeq(Units(opened + 1, sealed[opened + 1]), 1, Len(units))

\* FramedReader.Read of either package: one more unit of the record.
\* Anything but the next record is refused once its length is read.
ReadUnit ==
  LET units == Append(got, Head(wire))
      r == sealed[opened + 1]
  IN  /\ Reading /\ wire # <<>>
      /\ InChunk
      /\ wire' = Tail(wire)
      /\ \/ /\ Opens(units)
            /\ got' = <<>> /\ opened' = opened + 1
            /\ dec' = [i \in 1..r.len |-> r.from + i - 1]
            /\ term' = IF r.len = 0 THEN "eof" ELSE "none"
         \/ /\ ~Opens(units)
            /\ got' = units
            /\ term' \in IF Sound(units) THEN {"none"} ELSE {"none", "error"}
            /\ UNCHANGED <<opened, dec>>
      /\ UNCHANGED <<layer, writer, fin, cut, remaining, delivered, timeouts>>

RawReadRecord == layer = "raw" /\ ReadUnit
H1ReadRecord == layer = "h1" /\ ReadUnit

\* Read copies m of the decrypted bytes.
Deliver(m) ==
  /\ m <= Len(dec)
  /\ delivered' = delivered \o SubSeq(dec, 1, m)
  /\ dec' = SubSeq(dec, m + 1, Len(dec))
  /\ UNCHANGED <<layer, writer, wire, fin, cut, chunks, record, term, timeouts>>

\* StreamReader.Read at a frame's header.
ReadFrameHeader ==
  LET units == Append(got, Head(wire))
      r == sealed[opened + 1]
      whole == Len(units) = 2
  IN  /\ layer = "frame" /\ Reading /\ remaining = 0 /\ wire # <<>>
      /\ wire' = Tail(wire)
      /\ got' = IF whole THEN <<>> ELSE units
      /\ opened' = IF whole THEN opened + 1 ELSE opened
      /\ remaining' = IF whole /\ Sound(units) THEN r.len ELSE 0
      /\ term' = CASE ~whole -> "none"
                   [] whole /\ Sound(units) /\ r.type = "data" -> "none"
                   [] whole /\ Sound(units) /\ r.type = "end" -> "eof"
                   [] OTHER -> "error"
      /\ UNCHANGED <<layer, writer, fin, cut, chunks, dec, delivered, timeouts>>

\* StreamReader.Read inside a DATA frame: it returns m bytes of it.
ReadFrameData(m) ==
  /\ layer = "frame" /\ Reading /\ m <= Least(remaining, Len(wire))
  /\ delivered' = delivered \o
       [i \in 1..m |-> sealed[wire[i][2]].from + wire[i][3] - 3]
  /\ remaining' = remaining - m
  /\ wire' = SubSeq(wire, m + 1, Len(wire))
  /\ UNCHANGED <<layer, writer, fin, cut, chunks, got, opened, dec, term,
                 timeouts>>

\* Variant: the transport's end is taken for the stream's.
TransportEndIsEOF ==
  /\ Reading /\ wire = <<>> /\ (cut \/ (fin /\ layer = "raw"))
  /\ term' = "eof"
  /\ UNCHANGED <<layer, writer, wire, fin, cut, chunks, record, dec, delivered,
                 timeouts>>

\* readError on EOF or a failure of the transport.
TransportEnd ==
  /\ Reading /\ wire = <<>> /\ (cut \/ (fin /\ layer = "raw"))
  /\ term' = "error"
  /\ UNCHANGED <<layer, writer, wire, fin, cut, chunks, record, dec, delivered,
                 timeouts>>

-----------------------------------------------------------------------------
ReaderStep ==
  \/ ReadChunkLine \/ RawReadRecord \/ H1ReadRecord
  \/ ReadFrameHeader \/ TransportEnd
  \/ \E m \in 1..MaxChunk : Deliver(m) \/ ReadFrameData(m)

RecordNext ==
  \/ \E n \in WriteSizes, idle \in BOOLEAN : Write(n, idle)
  \/ RawSeal \/ RawExhausted \/ H1Seal \/ FrameSeal
  \/ Flush \/ \E m \in 0..(Len(buf) + 3) : FlushFails(m)
  \/ RawWriteEOF \/ RawEOFExhausted \/ H1WriteEOF \/ FrameCloseWrite
  \/ FrameReset \/ CloseTransport
  \/ \E m \in 0..Len(wire) : Cut(m)
  \/ Timeout \/ ReaderStep

RecordSpec ==
  RecordInit /\ [][RecordNext]_recordVars /\ WF_recordVars(ReaderStep)

-----------------------------------------------------------------------------
(* Properties *)

Pipe == INSTANCE BytePipe
          WITH sent <- taken, open <- ~closed, got <- delivered, end <- term

\* Whatever the layer, whatever breaks and however often a read is repeated
\* after a timeout, Read returns the bytes written, in order and each once, and
\* an end only after all of them: never for a transport that merely ended.
PipeSpec == Pipe!Spec

\* WriteBatch's comment: "trailing bytes are flushed at the end of the batch to
\* guarantee TTFB".  When a Write has returned without an error no byte it was
\* supplied waits in a buffer, whichever phase sized the records.
NothingHeldBack ==
  wpc = "idle" /\ ~failed /\ Len(sealed) < MaxSequence => flushed = supplied

Sealed(type) == \E k \in 1..Len(sealed) : sealed[k].type = type

\* A Read fails for good only when something went wrong: the transport broke, a
\* write failed, the nonces ran out or the sender reset the stream.  A timeout
\* in the middle of a header, a record or a chunk line is none of these.
FailsOnlyOnFault ==
  term = "error" =>
    cut \/ failed \/ Sealed("reset") \/ Len(sealed) = MaxSequence

\* CloseWrite has returned without an error, so the peer's reads are to reach
\* the end, unless the transport breaks first.
EndDue == closed /\ ~failed /\ wpc = "idle" /\ Sealed("end")
EndSeen == term = "eof" \/ cut
=============================================================================
