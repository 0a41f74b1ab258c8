---------------------------- MODULE SenderQueue ----------------------------
(***************************************************************************)
(* chitandaPacketQueue (integration/mihomo_tunnel/                         *)
(* chitanda_sender_queue.go): the packets of one flow wait in a ring that  *)
(* grows and shrinks while its sender is being connected or busy.  Their   *)
(* bytes count against the flow and against all flows.  A one-slot channel *)
(* wakes the sender, which takes a batch or a single packet.               *)
(*                                                                         *)
(* Packets are numbered in the order of their push.                        *)
(***************************************************************************)
EXTENDS Naturals, Sequences

LOCAL INSTANCE SequencesExt

CONSTANTS InitialCapacity, MaxCapacity,  \* chitandaSenderInitialCapacity, ...
          MaxAge,
          FlowBytes, GlobalBytes,        \* the byte limits
          BatchSize,                     \* popBatch(32)
          PacketSizes,                   \* chitandaPacketSize
          MaxPushes, SenderClock         \* bounds: pushes; the clock

VARIABLES items,        \* the ring, as a sequence
          head, length, \* head counts from 0
          bytes, used,  \* q.bytes; budget.used
          otherFlows,   \* the part of used that other flows hold
          qclosed,
          ready,        \* the wake-up channel holds its token
          sender,       \* the process loop
          fate,         \* of each packet pushed
          clock

ringStore == <<items, head, length>>
senderVars == <<ringStore, bytes, used, otherFlows, qclosed, ready, sender,
                fate, clock>>

Empty == [id |-> 0, added |-> 0, size |-> 0]
Ring(n) == [i \in 1..n |-> Empty]

SenderInit ==
  /\ items = Ring(InitialCapacity) /\ head = 0 /\ length = 0
  /\ bytes = 0 /\ used = 0 /\ otherFlows = 0
  /\ qclosed = FALSE /\ ready = FALSE
  /\ sender = [pc |-> "wait", now |-> 0, last |-> 0]
  /\ fate = <<>> /\ clock = 0

\* The queued packets, oldest first.
Queued == [i \in 1..length |-> items[((head + i - 1) % Len(items)) + 1]]
SizeOf(q) == FoldSeq(LAMBDA it, sum : it.size + sum, 0, q)
PacketIds(q) == {q[i].id : i \in DOMAIN q}
TooOld(item, now) == now > item.added + MaxAge

\* The oldest n are taken out, in the ring's own terms.
Taken(n) == [i \in DOMAIN items |->
               IF \E k \in 0..(n - 1) : i = ((head + k) % Len(items)) + 1
               THEN Empty ELSE items[i]]
HeadAfter(n) == (head + n) % Len(items)

\* An emptied ring that had grown is replaced by a small one.
Shrunk(n) == n = length /\ Len(items) > InitialCapacity
TakeOut(n) ==
  /\ items' = IF Shrunk(n) THEN Ring(InitialCapacity) ELSE Taken(n)
  /\ head' = IF Shrunk(n) THEN 0 ELSE HeadAfter(n)
  /\ length' = length - n
  /\ bytes' = bytes - SizeOf(SubSeq(Queued, 1, n))
  /\ used' = used - SizeOf(SubSeq(Queued, 1, n))
----------------------------------------------------------------------------
(* push.  room is the ring after an oldest packet that is too old was      *)
(* thrown out of a full ring.                                              *)
Larger(cap) == IF cap * 2 > MaxCapacity THEN MaxCapacity ELSE cap * 2

Grow(ring, hd, len) ==
  IF len < Len(ring) THEN [ring |-> ring, head |-> hd]
  ELSE [ring |-> [i \in 1..Larger(Len(ring)) |->
                    IF i <= len THEN ring[((hd + i - 1) % Len(ring)) + 1]
                    ELSE Empty],
        head |-> 0]

Push(size) ==
  LET p == Len(fate) + 1
      new == [id |-> p, added |-> clock, size |-> size]
      full == length = MaxCapacity
      out == IF full THEN 1 ELSE 0     \* packets thrown out
      gone == SizeOf(SubSeq(Queued, 1, out))
      fates == IF full THEN [fate EXCEPT ![Queued[1].id] = "dropped"]
               ELSE fate
      len == length - out
      fits == bytes - gone + size <= FlowBytes
              /\ used - gone + size <= GlobalBytes
      grown == Grow(Taken(out), HeadAfter(out), len)
  IN /\ Len(fate) < MaxPushes
     /\ \/ /\ qclosed \/ (full /\ ~TooOld(Queued[1], clock))
           /\ fate' = Append(fate, "dropped")
           /\ UNCHANGED <<ringStore, bytes, used, ready>>
        \/ /\ ~qclosed /\ (full => TooOld(Queued[1], clock)) /\ ~fits
           /\ fate' = Append(fates, "dropped")
           /\ items' = Taken(out) /\ head' = HeadAfter(out) /\ length' = len
           /\ bytes' = bytes - gone /\ used' = used - gone
           /\ UNCHANGED ready
        \/ /\ ~qclosed /\ (full => TooOld(Queued[1], clock)) /\ fits
           /\ fate' = Append(fates, "queued")
           /\ items' = [grown.ring EXCEPT
                ![((grown.head + len) % Len(grown.ring)) + 1] = new]
           /\ head' = grown.head /\ length' = len + 1
           /\ bytes' = bytes - gone + size /\ used' = used - gone + size
           /\ ready' = TRUE
     /\ UNCHANGED <<otherFlows, qclosed, sender, clock>>
----------------------------------------------------------------------------
(* The sender's loop: case <-s.ch.ready, then drainBatch or pop.  popBatch *)
(* reads the time once, pop for each packet.                               *)
Wake ==
  /\ sender.pc = "wait" /\ ready
  /\ ready' = FALSE
  /\ \E pc \in {"batch", "pop"} :
       sender' = [sender EXCEPT !.pc = pc, !.now = clock]
  /\ UNCHANGED <<ringStore, bytes, used, otherFlows, qclosed, fate, clock>>

\* One turn of the loop in popBatch, and the writes of drainBatch.
PopBatch ==
  LET n == IF length > BatchSize THEN BatchSize ELSE length
      taken == SubSeq(Queued, 1, n)
      fresh == SelectSeq(taken, LAMBDA it : ~TooOld(it, sender.now))
  IN /\ sender.pc = "batch" /\ length > 0
     /\ TakeOut(n)
     /\ ready' = (ready \/ length > n)
     /\ fate' = [p \in DOMAIN fate |->
                   IF p \in PacketIds(fresh) THEN "sent"
                   ELSE IF p \in PacketIds(taken) THEN "dropped" ELSE fate[p]]
     /\ sender' = IF fresh = <<>> THEN sender
                  ELSE [sender EXCEPT !.pc = "wait", !.last = Last(fresh).id]
     /\ UNCHANGED <<otherFlows, qclosed, clock>>

\* popBatch and pop return nothing.
PopNothing ==
  /\ sender.pc # "wait" /\ length = 0
  /\ sender' = [sender EXCEPT !.pc = "wait"]
  /\ UNCHANGED <<ringStore, bytes, used, otherFlows, qclosed, ready, fate,
                 clock>>

\* One turn of the loop in pop, and the write of its packet.
Pop ==
  LET first == Queued[1]
      old == TooOld(first, clock)
  IN /\ sender.pc = "pop" /\ length > 0
     /\ TakeOut(1)
     /\ ready' = (ready \/ length > 1)
     /\ fate' = [fate EXCEPT ![first.id] = IF old THEN "dropped" ELSE "sent"]
     /\ sender' = IF old THEN sender
                  ELSE [sender EXCEPT !.pc = "wait", !.last = first.id]
     /\ UNCHANGED <<otherFlows, qclosed, clock>>

\* close drops what is queued.
QueueClose ==
  /\ ~qclosed /\ qclosed' = TRUE
  /\ items' = <<>> /\ length' = 0 /\ head' = HeadAfter(length)
  /\ bytes' = bytes - SizeOf(Queued) /\ used' = used - SizeOf(Queued)
  /\ fate' = [p \in DOMAIN fate |->
                IF p \in PacketIds(Queued) THEN "dropped" ELSE fate[p]]
  /\ UNCHANGED <<otherFlows, ready, sender, clock>>

\* Another flow reserves or releases.
OtherFlow ==
  /\ \E n \in {otherFlows - 1, otherFlows + 1} \cap (0..1) :
       /\ used - otherFlows + n <= GlobalBytes
       /\ otherFlows' = n /\ used' = used - otherFlows + n
  /\ UNCHANGED <<ringStore, bytes, qclosed, ready, sender, fate, clock>>

SenderTick ==
  /\ clock < SenderClock /\ clock' = clock + 1
  /\ UNCHANGED <<ringStore, bytes, used, otherFlows, qclosed, ready, sender,
                 fate>>

SenderNext ==
  \/ \E size \in PacketSizes : Push(size)
  \/ Wake \/ PopBatch \/ PopNothing \/ Pop
  \/ QueueClose \/ OtherFlow \/ SenderTick
----------------------------------------------------------------------------
(* The ring holds the packets that are neither sent nor dropped, each once *)
(* and in the order of their push, later than any packet sent; both byte   *)
(* counters are what the ring holds, within their limits; and a queue that *)
(* holds packets has woken its sender (chitanda_sender_queue.go: push,     *)
(* pop, popBatch, close).                                                  *)
QueueExact ==
  /\ PacketIds(Queued) = {p \in DOMAIN fate : fate[p] = "queued"}
  /\ \A i \in DOMAIN Queued :
       /\ Queued[i].id > sender.last
       /\ i > 1 => Queued[i].id > Queued[i - 1].id
  /\ length <= MaxCapacity
  /\ bytes = SizeOf(Queued) /\ used = bytes + otherFlows
  /\ bytes <= FlowBytes /\ used <= GlobalBytes
  /\ length > 0 => ready \/ sender.pc # "wait"
=============================================================================
