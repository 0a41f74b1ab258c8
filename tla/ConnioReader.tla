---------------------------- MODULE ConnioReader ----------------------------
(***************************************************************************)
(* connio's Reader (pkg/connio/deadline.go): a goroutine fetches chunks    *)
(* from a blocking source ahead of its consumers, who wait for them under  *)
(* a deadline they may move and come back after a timeout.  Each chunk is  *)
(* a buffer lease that free returns.  Close interrupts the source, joins   *)
(* the goroutine and frees what nobody consumed.                           *)
(*                                                                         *)
(* Bytes are named by their place in the stream; an item's data is the     *)
(* bytes from..from+len-1 and what is left of it after partial reads.      *)
(***************************************************************************)
EXTENDS Naturals, Sequences, FiniteSets

CONSTANTS Consumers,    \* goroutines in Read or ReadPacket
          MaxChunks,    \* bound: chunks the source returns
          ChunkSizes,   \* len(data) of a chunk
          BufferSizes,  \* len(p) of a call
          ReadMoves     \* bound: times the deadline passes or is moved

Chunks == 1..(MaxChunks + 1)  \* the last one only by an interrupted source

VARIABLES use,          \* "stream": Read, "packet": ReadPacket
          rdone,        \* done is closed
          fetcher,      \* the goroutine of start
          rqueue, pendingItem,
          rlock,        \* mu
          consumer,     \* where each call is
          leased,       \* what became of each chunk's lease
          overdue,      \* the deadline has passed
          fetched, produced,  \* chunks and bytes the source returned
          consumed,     \* the bytes handed over
          toldEnd,      \* a call returned the source's error
          rclose, rmoves

fetchVars == <<fetcher, rqueue, fetched, produced>>
readVars == <<pendingItem, rlock, consumer, consumed, toldEnd>>
readerVars == <<use, rdone, fetchVars, readVars, leased, overdue, rclose,
                rmoves>>

NoItem == [id |-> 0, from |-> 1, len |-> 0, err |-> FALSE]

ReaderInit ==
  /\ use \in {"stream", "packet"} /\ rdone = FALSE /\ overdue = FALSE
  /\ fetcher = [pc |-> "new", item |-> NoItem]
  /\ rqueue = <<>> /\ pendingItem = NoItem
  /\ rlock = 0 /\ consumer = [c \in Consumers |-> "idle"]
  /\ leased = [i \in Chunks |-> "none"]
  /\ fetched = 0 /\ produced = 0 /\ consumed = <<>> /\ toldEnd = FALSE
  /\ rclose = "idle" /\ rmoves = 0

\* free, on a set of items.  A second release would be a double free.
FreeItems(items) ==
  leased' = [i \in Chunks |->
               IF i \notin {it.id : it \in items} THEN leased[i]
               ELSE IF leased[i] = "held" THEN "freed" ELSE "twice"]

StartFetcher == IF fetcher.pc = "new" THEN [fetcher EXCEPT !.pc = "fetch"]
                ELSE fetcher
----------------------------------------------------------------------------
(* The goroutine of start.                                                 *)
FetchNext ==
  /\ fetcher.pc = "fetch"
  /\ \/ /\ rdone  \* seen at the top of the loop
        /\ fetcher' = [pc |-> "exited", item |-> NoItem]
        /\ UNCHANGED <<fetched, produced, leased>>
     \/ \E n \in ChunkSizes, err \in BOOLEAN :
          /\ fetched < MaxChunks \/ (rdone /\ err)  \* else the source blocks
          /\ fetched' = fetched + 1 /\ produced' = produced + n
          /\ leased' = [leased EXCEPT ![fetched + 1] = "held"]
          /\ fetcher' = [pc |-> "put",
                         item |-> [id |-> fetched + 1, from |-> produced + 1,
                                   len |-> n, err |-> err]]
  /\ UNCHANGED <<use, rdone, rqueue, readVars, overdue, rclose, rmoves>>

FetchPut ==
  /\ fetcher.pc = "put"
  /\ \/ /\ rqueue = <<>> /\ rqueue' = <<fetcher.item>>
        /\ fetcher' = [pc |-> IF fetcher.item.err THEN "exited" ELSE "fetch",
                       item |-> NoItem]
        /\ UNCHANGED leased
     \/ /\ rdone
        /\ FreeItems({fetcher.item})
        /\ fetcher' = [pc |-> "exited", item |-> NoItem]
        /\ UNCHANGED rqueue
  /\ UNCHANGED <<use, rdone, fetched, produced, readVars, overdue, rclose,
                 rmoves>>
----------------------------------------------------------------------------
(* Read and ReadPacket hold mu from their first step to their return.  A   *)
(* call made after Close is like one that had been waiting for mu.         *)
ReadCall(c) ==
  /\ consumer[c] = "idle" /\ ~rdone
  /\ consumer' = [consumer EXCEPT ![c] = "lock"]
  /\ UNCHANGED <<use, rdone, fetchVars, pendingItem, rlock, consumed, toldEnd,
                 leased, overdue, rclose, rmoves>>

Unlock(c) == rlock' = 0 /\ consumer' = [consumer EXCEPT ![c] = "idle"]
Hold(c, pc) == rlock' = c /\ consumer' = [consumer EXCEPT ![c] = pc]

\* Read's loop up to get: a consumed chunk is freed, its error reported.
ReadLoop(c) ==
  \/ /\ pendingItem.len > 0 /\ Hold(c, "copy")
     /\ UNCHANGED <<pendingItem, toldEnd, leased, fetcher>>
  \/ /\ pendingItem.len = 0
     /\ pendingItem' = [pendingItem EXCEPT !.id = 0]
     /\ FreeItems(IF pendingItem.id = 0 THEN {} ELSE {pendingItem})
     /\ \/ /\ pendingItem.err /\ Unlock(c)
           /\ toldEnd' = TRUE /\ UNCHANGED fetcher
        \/ /\ ~pendingItem.err /\ Hold(c, "get")
           /\ fetcher' = StartFetcher /\ UNCHANGED toldEnd

ReadEnters(c) ==
  /\ use = "stream" /\ consumer[c] = "lock" /\ rlock = 0
  /\ \/ /\ rdone /\ Unlock(c)
        /\ UNCHANGED <<pendingItem, toldEnd, leased, fetcher>>
     \/ ~rdone /\ ReadLoop(c)
  /\ UNCHANGED <<use, rdone, rqueue, fetched, produced, consumed, overdue,
                 rclose, rmoves>>

\* ReadPacket keeps only the error of a packet.
ReadPacketEnters(c) ==
  /\ use = "packet" /\ consumer[c] = "lock" /\ rlock = 0
  /\ \/ /\ pendingItem.err /\ Unlock(c)
        /\ toldEnd' = TRUE /\ UNCHANGED fetcher
     \/ /\ ~pendingItem.err /\ Hold(c, "get")
        /\ fetcher' = StartFetcher /\ UNCHANGED toldEnd
  /\ UNCHANGED <<use, rdone, rqueue, fetched, produced, pendingItem, consumed,
                 leased, overdue, rclose, rmoves>>

\* get returns an error and the call with it.
GetFails(c) ==
  /\ consumer[c] = "get" /\ (rdone \/ overdue)
  /\ Unlock(c)
  /\ UNCHANGED <<use, rdone, fetchVars, pendingItem, consumed, toldEnd,
                 leased, overdue, rclose, rmoves>>

Bytes(item, n) == [i \in 1..n |-> item.from + i - 1]

\* The end of Read: the deadline also applies to bytes at hand.
Copy(c) ==
  /\ consumer[c] = "copy"
  /\ \/ overdue /\ UNCHANGED <<pendingItem, consumed, leased>>
     \/ /\ ~overdue
        /\ \E p \in BufferSizes :
             LET n == IF p < pendingItem.len THEN p ELSE pendingItem.len IN
             /\ consumed' = consumed \o Bytes(pendingItem, n)
             /\ pendingItem' = [pendingItem EXCEPT
                  !.from = @ + n, !.len = @ - n,
                  !.id = IF n = pendingItem.len THEN 0 ELSE @]
             /\ FreeItems(IF n = pendingItem.len THEN {pendingItem} ELSE {})
  /\ Unlock(c)
  /\ UNCHANGED <<use, rdone, fetchVars, toldEnd, overdue, rclose, rmoves>>

\* get finds a chunk, for Read.
ReadGets(c) ==
  /\ use = "stream" /\ consumer[c] = "get" /\ rqueue # <<>>
  /\ rqueue' = <<>>
  /\ LET it == Head(rqueue) IN
     \/ /\ it.len > 0 /\ Hold(c, "copy")
        /\ pendingItem' = it /\ UNCHANGED <<toldEnd, leased>>
     \/ /\ it.len = 0 /\ FreeItems({it})
        /\ pendingItem' = [it EXCEPT !.id = 0]
        /\ \/ it.err /\ Unlock(c) /\ toldEnd' = TRUE
           \/ ~it.err /\ UNCHANGED <<consumer, rlock, toldEnd>>
  /\ UNCHANGED <<use, rdone, fetcher, fetched, produced, consumed, overdue,
                 rclose, rmoves>>

\* get finds a packet, for ReadPacket: one too long for p is lost.
PacketGets(c) ==
  /\ use = "packet" /\ consumer[c] = "get" /\ rqueue # <<>>
  /\ rqueue' = <<>>
  /\ LET it == Head(rqueue) IN
     /\ FreeItems({it})
     /\ pendingItem' = [pendingItem EXCEPT !.err = it.err]
     /\ toldEnd' = (toldEnd \/ (it.len = 0 /\ it.err))
     /\ \E p \in BufferSizes :
          consumed' = IF p < it.len THEN consumed
                      ELSE consumed \o Bytes(it, it.len)
  /\ Unlock(c)
  /\ UNCHANGED <<use, rdone, fetcher, fetched, produced, overdue, rclose,
                 rmoves>>
----------------------------------------------------------------------------
\* Variant: Close joins a goroutine that nobody has started.
CloseUnstarted ==
  /\ rclose = "idle" /\ rclose' = "joining" /\ rdone' = TRUE
  /\ UNCHANGED <<use, fetchVars, readVars, leased, overdue, rmoves>>

\* Close: closeOnce, then start and the join, then mu and the drain.
ReaderClose ==
  /\ rclose = "idle" /\ rclose' = "joining" /\ rdone' = TRUE
  /\ fetcher' = StartFetcher
  /\ UNCHANGED <<use, rqueue, fetched, produced, readVars, leased, overdue,
                 rmoves>>

ReaderDrain ==
  /\ rclose = "joining" /\ fetcher.pc = "exited" /\ rlock = 0
  /\ rclose' = "returned"
  /\ FreeItems({it \in {pendingItem} \cup {rqueue[i] : i \in DOMAIN rqueue} :
                  it.id # 0})
  /\ pendingItem' = [pendingItem EXCEPT !.id = 0, !.len = 0]
  /\ rqueue' = <<>>
  /\ UNCHANGED <<use, rdone, fetcher, fetched, produced, rlock, consumer,
                 consumed, toldEnd, overdue, rmoves>>

\* SetDeadline, or the time passing the deadline.
MoveDeadline ==
  /\ rmoves < ReadMoves /\ rmoves' = rmoves + 1 /\ overdue' = ~overdue
  /\ UNCHANGED <<use, rdone, fetchVars, readVars, leased, rclose>>

\* The source is known to return only once it is interrupted.
ReaderProgress ==
  \/ \E c \in Consumers : \/ ReadEnters(c) \/ ReadPacketEnters(c)
                          \/ GetFails(c) \/ Copy(c) \/ ReadGets(c)
                          \/ PacketGets(c)
  \/ FetchPut \/ (rdone /\ FetchNext) \/ ReaderDrain

ReaderNext ==
  \/ ReaderProgress \/ FetchNext \/ ReaderClose \/ MoveDeadline
  \/ \E c \in Consumers : ReadCall(c)
----------------------------------------------------------------------------
(* "Reader owns at most two chunks ... plus the current partial chunk"     *)
(* (deadline.go:70), each in one place, released once and by the time      *)
(* Close returns; a timeout loses nothing, so a stream's bytes come in     *)
(* order and its error after all of them, a packet's bytes never twice     *)
(* (Read, ReadPacket, Close).                                              *)
ReaderExact ==
  LET places == <<fetcher.item, pendingItem>> \o rqueue
      held == {i \in Chunks : leased[i] = "held"}
  IN /\ \A i \in Chunks : leased[i] # "twice"
     /\ Cardinality(held) <= 3
     /\ held = {places[p].id : p \in DOMAIN places} \ {0}
     /\ \A p, o \in DOMAIN places :
          p # o /\ places[p].id = places[o].id => places[p].id = 0
     /\ rclose = "returned" => held = {}
     /\ \A i, j \in DOMAIN consumed : i < j => consumed[i] < consumed[j]
     /\ use = "stream" =>
          /\ \A i \in DOMAIN consumed : consumed[i] = i
          /\ toldEnd /\ ~rdone => Len(consumed) = produced

\* Close is under way; it has returned and so have the consumers.
ReaderDue == rclose = "joining"
ReaderDone ==
  rclose = "returned" /\ \A c \in Consumers : consumer[c] # "get"
=============================================================================
