---------------------------- MODULE BufferedPipe ----------------------------
(***************************************************************************)
(* bufferedPipe (pkg/client/bufpipe.go): the ring buffer between the       *)
(* writer of an HTTP/2 stream and the transport that reads the request     *)
(* body.  It grows up to its capacity; one mutex and one condition         *)
(* variable serve both sides.  A step is what runs under the mutex between *)
(* taking it and Wait or Unlock, the copies in chunks included.            *)
(*                                                                         *)
(* A byte is its place in the stream; 0 is memory never written.           *)
(***************************************************************************)
EXTENDS Naturals, Sequences

CONSTANTS RingCapacity,  \* capacity
          RingFirst,     \* the least size allocated: 16 KiB in the code
          RingSizes,     \* lengths passed to Write and to Read
          RingBytes      \* bound: bytes passed to Write

ASSUME RingAssumption ==
  /\ RingCapacity \in Nat \ {0} /\ RingFirst \in Nat
  /\ RingSizes \subseteq Nat /\ RingBytes \in Nat

VARIABLES ring, rhead, rtail, rcount,  \* buf, head, tail, count
          ringClosed, ringErr,         \* closed; err: "none", "eof", "error"
          pending, rwrote,             \* left of this Write; bytes accepted
          asleep,                      \* sides in cond.Wait
          rgot, rend                   \* what Read has returned

storeVars == <<ring, rhead, rtail, rcount>>
ringVars == <<storeVars, ringClosed, ringErr, pending, rwrote, asleep, rgot,
              rend>>

RingInit ==
  /\ ring = <<>> /\ rhead = 0 /\ rtail = 0 /\ rcount = 0
  /\ ringClosed = FALSE /\ ringErr = "none"
  /\ pending = 0 /\ rwrote = 0 /\ asleep = {} /\ rgot = <<>> /\ rend = "none"

Smaller(a, b) == IF a <= b THEN a ELSE b
Larger(a, b) == IF a >= b THEN a ELSE b

\* The n bytes from the head, in order.
Content(n) == [i \in 1..n |-> ring[((rhead + i - 1) % Len(ring)) + 1]]
----------------------------------------------------------------------------
\* The larger buffer, with what was buffered moved to its front.
Grown(size) == [i \in 1..size |-> IF i <= rcount THEN Content(rcount)[i] ELSE 0]

\* Write puts what fits after the tail of buffer b.
Fill(b, head, tail) ==
  LET n == Smaller(pending, Len(b) - rcount) IN
  /\ ring' = [i \in 1..Len(b) |->
                LET k == (i - 1 + Len(b) - tail) % Len(b) IN
                IF k < n THEN rwrote + k + 1 ELSE b[i]]
  /\ rhead' = head /\ rtail' = (tail + n) % Len(b) /\ rcount' = rcount + n
  /\ rwrote' = rwrote + n /\ pending' = pending - n
  \* Broadcast after a chunk; then return, or wait for room.
  /\ asleep' = (IF n > 0 THEN {} ELSE asleep)
                 \union (IF n < pending THEN {"writer"} ELSE {})

WriteCall(n) ==
  /\ pending = 0 /\ rwrote + n <= RingBytes
  /\ pending' = n
  /\ UNCHANGED <<storeVars, ringClosed, ringErr, rwrote, asleep, rgot, rend>>

RingWrite ==
  LET need == rcount + pending
      double == Larger(2 * Len(ring), need)
      size == Smaller(RingCapacity, Larger(RingFirst, double))
  IN
  /\ pending > 0 /\ "writer" \notin asleep
  /\ IF ringClosed \/ ringErr # "none"
     THEN pending' = 0 /\ UNCHANGED <<storeVars, rwrote, asleep>>
     ELSE IF Len(ring) < RingCapacity /\ need > Len(ring)
     THEN Fill(Grown(size), 0, rcount % size)
     ELSE Fill(ring, rhead, rtail)
  /\ UNCHANGED <<ringClosed, ringErr, rgot, rend>>
----------------------------------------------------------------------------
RingRead(size) ==
  /\ rend = "none" /\ "reader" \notin asleep
  /\ IF rcount > 0
     THEN LET n == Smaller(size, rcount) IN
          /\ rgot' = rgot \o Content(n)
          /\ rhead' = (rhead + n) % Len(ring) /\ rcount' = rcount - n
          /\ asleep' = {} /\ UNCHANGED rend
     ELSE /\ rend' = IF ringErr # "none" THEN ringErr
                     ELSE IF ringClosed THEN "eof" ELSE "none"
          /\ asleep' = IF rend' = "none" THEN asleep \union {"reader"}
                       ELSE asleep
          /\ UNCHANGED <<rgot, rhead, rcount>>
  /\ UNCHANGED <<ring, rtail, ringClosed, ringErr, pending, rwrote>>

\* Variant: nobody is woken.
RingCloseQuietly(err) ==
  /\ ringClosed' = TRUE
  /\ ringErr' = IF ringErr = "none" THEN err ELSE ringErr
  /\ UNCHANGED <<storeVars, pending, rwrote, asleep, rgot, rend>>

\* The writer's Close ("none") and CloseWithError, and the reader's Close.
RingClose(err) ==
  /\ ringClosed' = TRUE
  /\ ringErr' = IF ringErr = "none" THEN err ELSE ringErr
  /\ asleep' = {}
  /\ UNCHANGED <<storeVars, pending, rwrote, rgot, rend>>

RingReading == \E n \in RingSizes : RingRead(n)

RingNext ==
  \/ \E n \in RingSizes : WriteCall(n)
  \/ RingWrite
  \/ RingReading
  \/ \E err \in {"none", "eof", "error"} : RingClose(err)
----------------------------------------------------------------------------
\* The ring is a byte pipe: what Write accepted is what was handed over.
RingPipe == INSTANCE BytePipe
  WITH sent <- rwrote, open <- ~ringClosed, got <- rgot, end <- rend

(* Read returns the bytes Write accepted, in order and each once, however  *)
(* the buffer wraps and grows, and the end only after all of them          *)
(* (bufpipe.go, Read, Write, Close, CloseWithError).                       *)
RingSpec == RingPipe!Spec

\* A Write is under way or the pipe is closed; and nothing is left to wait for.
RingDue == pending > 0 \/ ringClosed
RingDone == pending = 0 /\ (ringClosed => rend # "none")
=============================================================================
