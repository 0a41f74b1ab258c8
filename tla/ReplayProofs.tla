---------------------------- MODULE ReplayProofs ----------------------------
(***************************************************************************)
(* TLAPS proofs about replay protection: the durable cache of nonces       *)
(* (ReplayCache) for any nonces, callers, window, clock resolution and     *)
(* limits, and the admission of UDP datagrams (UdpReplay) for any          *)
(* sessions, skew, bucket and window sizes, ages of sessions and bounds.   *)
(***************************************************************************)
EXTENDS ReplayCache, UdpReplay, TLAPS

\* The prover of a leaf that names no other.
USE Zenon

(***************************************************************************)
(* ReplayCache.                                                            *)
(***************************************************************************)
Locked == {"compact", "renamed", "append"}   \* inside Accept, with the mutex
Pending == {"wait", "recheck"}               \* after the append

\* The record of an expiry at t, and a record, against the clock.
Past(t) == clock >= Unix(t) * Second
Fresh(r) == r.e * Second > clock

Rec(c) == Record(nonce[c], now[c] + Window)
Files == {disk} \cup prev     \* what a crash may find at c.path

Types ==
  /\ clock \in Nat /\ inst \in {"down", "open", "closing"}
  /\ mu \in Callers \cup {NoOne}
  /\ expires \in [Nonces -> Nat] /\ syncedTx \in Nat /\ currentTx \in Nat
  /\ disk \in Images /\ prev \subseteq Images
  /\ pc \in [Callers -> {"idle", "lock"} \cup Locked \cup Pending]
  /\ nonce \in [Callers -> Nonces \cup {NoOne}]
  /\ now \in [Callers -> Nat] /\ at \in [Callers -> Nat]
  /\ tx \in [Callers -> Nat] /\ named \in [Callers -> BOOLEAN]
  /\ \A g \in grants : g.n \in Nonces /\ g.now \in Nat /\ g.at \in Nat

\* Who has the mutex across steps found the nonce new, and it stays so.
LockInv ==
  /\ \A c \in Callers : pc[c] \in Locked =>
       mu = c /\ inst # "down" /\ expires[nonce[c]] = 0
  /\ \A c \in Callers : pc[c] # "idle" => nonce[c] \in Nonces /\ now[c] <= clock
  /\ \A c \in Callers : pc[c] \in Pending =>
       now[c] <= at[c] /\ at[c] <= clock /\ tx[c] <= currentTx
  /\ syncedTx <= currentTx

\* A file holds at most one record of a nonce that has not expired.
Unique(image) ==
  \A r, s \in Lines(image) : r.n = s.n /\ Fresh(r) /\ Fresh(s) => r.e = s.e

\* While the cache is open the map knows every fresh record of the file, and
\* the nonce of every Accept that waits.
DiskInv ==
  /\ \A image \in Files : Unique(image)
  /\ inst # "down" => \A r \in Lines(disk) : Fresh(r) =>
       expires[r.n] # 0 /\ Unix(expires[r.n]) = r.e
  /\ \A c \in Callers : pc[c] \in Pending =>
       Past(now[c] + Window) \/ expires[nonce[c]] = now[c] + Window

\* The record of an Accept that waits is in the file, synced in every file a
\* crash may find as soon as syncedTx says so.
SyncInv ==
  \A c \in Callers : pc[c] \in Pending /\ named[c] /\ ~persistErr =>
    /\ syncedTx >= tx[c] => \A image \in Files :
         Past(now[c] + Window) \/ Rec(c) \in image.safe
    /\ syncedTx < tx[c] =>
         /\ Past(now[c] + Window) \/ Rec(c) \in Lines(disk)
         /\ prev = {} \/ \E d \in Callers : pc[d] = "renamed"

\* Two Accepts of one nonce, returned or waiting, are a window apart.
PairInv ==
  /\ \A c, d \in Callers :
       c # d /\ pc[c] \in Pending /\ pc[d] \in Pending /\ nonce[c] = nonce[d] =>
         \/ at[c] >= Unix(now[d] + Window) * Second
         \/ at[d] >= Unix(now[c] + Window) * Second
  /\ \A c \in Callers, g \in grants :
       pc[c] \in Pending /\ g.n = nonce[c] =>
         \/ at[c] >= Unix(g.now + Window) * Second
         \/ g.at >= Unix(now[c] + Window) * Second

IInv == Types /\ LockInv /\ DiskInv /\ SyncInv /\ PairInv /\ GrantsDurable
-----------------------------------------------------------------------------
(* Seconds, records and files *)

\* Rounding down to seconds loses time and nothing else: an expiry read back
\* from the file rounds to itself.
LEMMA UnixFacts ==
  /\ \A t \in Nat : Unix(t) \in Nat /\ Unix(t) * Second <= t
  /\ \A e \in Nat : e * Second \in Nat /\ Unix(e * Second) = e
<1>1. Second \in Nat /\ Second > 0
  BY SMT, CacheAssumption
<1>2. ASSUME NEW t \in Nat
      PROVE  Unix(t) \in Nat /\ Unix(t) * Second <= t
  BY SMT, <1>1 DEF Unix
<1>3. ASSUME NEW e \in Nat
      PROVE  e * Second \in Nat /\ Unix(e * Second) = e
  BY SMT, <1>1 DEF Unix
<1> QED
  BY <1>2, <1>3

\* A record is one.
LEMMA RecordType ==
  ASSUME NEW n \in Nonces, NEW t \in Nat
  PROVE  /\ Record(n, t) \in Records
         /\ Record(n, t).n = n /\ Record(n, t).e = Unix(t)
BY UnixFacts DEF Record, Records

\* What a sync makes of a file.
LEMMA SyncedImage ==
  ASSUME NEW i \in Images
  PROVE  /\ Synced(i) \in Images /\ Synced(i).safe = Lines(i)
         /\ Lines(Synced(i)) = Lines(i)
BY DEF Images, Synced, Lines

\* What compact makes of the map.
LEMMA CleanImage ==
  ASSUME NEW R \in SUBSET Records
  PROVE  /\ Clean(R) \in Images /\ Clean(R).safe = R /\ Lines(Clean(R)) = R
BY DEF Images, Clean, Lines, Torn

\* The lines of a file are records.
LEMMA LinesType ==
  ASSUME NEW i \in Images
  PROVE  /\ Lines(i) \subseteq Records /\ i.safe \subseteq Lines(i)
         /\ \A r \in Lines(i) : r.n \in Nonces /\ r.e \in Nat
BY DEF Images, Lines, Records

-----------------------------------------------------------------------------
(* Types *)

Callees == {"idle", "lock"} \cup Locked \cup Pending

\* An empty file, an empty map and no caller.
LEMMA Initially ==
  ASSUME Init
  PROVE  IInv
<1>1. Clean({}) \in Images /\ Lines(Clean({})) = {}
  BY CleanImage
<1>2. Types
  BY <1>1, CacheAssumption DEF Init, Types, Locked, Pending
<1> QED
  BY SMT, <1>1, <1>2 DEF Init, IInv, LockInv, DiskInv, SyncInv, PairInv,
     GrantsDurable, Unique, Files, Locked, Pending

\* Waking the waiters keeps the program counters.
LEMMA WokenType ==
  ASSUME Types
  PROVE  /\ Woken \in [Callers -> Callees]
         /\ \A c \in Callers : /\ Woken[c] \in Pending <=> pc[c] \in Pending
                               /\ Woken[c] \notin Pending => Woken[c] = pc[c]
                               /\ pc[c] \notin Pending => Woken[c] = pc[c]
BY DEF Types, Woken, Callees, Locked, Pending

\* Purging keeps the map's type, and takes out only what is due.
LEMMA PurgeFacts ==
  ASSUME Types, NEW t \in Nat, t <= clock, Purge(t)
  PROVE  /\ expires' \in [Nonces -> Nat]
         /\ \A n \in Nonces : \/ expires'[n] = expires[n]
                              \/ expires'[n] = 0 /\ expires[n] <= clock
<1>1. \A n \in Nonces : <<n, expires[n]>> \in Due(t) => expires[n] <= t
  BY DEF Due
<1>2. expires' = [n \in Nonces |-> IF <<n, expires[n]>> \in Due(t)
                                   THEN 0 ELSE expires[n]]
  BY DEF Purge, Purged
<1>3. expires \in [Nonces -> Nat] /\ clock \in Nat
  BY DEF Types
<1> QED
  BY SMT, <1>1, <1>2, <1>3

\* The caller's locals when Accept returns.
LEMMA ReturnFacts ==
  ASSUME Types, NEW c \in Callers, NEW pcs \in [Callers -> Callees],
         Return(c, pcs)
  PROVE  /\ pc' \in [Callers -> Callees]
         /\ nonce' \in [Callers -> Nonces \cup {NoOne}]
         /\ now' \in [Callers -> Nat] /\ at' \in [Callers -> Nat]
         /\ tx' \in [Callers -> Nat] /\ named' \in [Callers -> BOOLEAN]
         /\ pc'[c] = "idle"
         /\ \A d \in Callers \ {c} :
              /\ pc'[d] = pcs[d] /\ nonce'[d] = nonce[d] /\ now'[d] = now[d]
              /\ at'[d] = at[d] /\ tx'[d] = tx[d] /\ named'[d] = named[d]
BY DEF Types, Return, Callees

\* What a caller's Append writes.
LEMMA AppendImage ==
  ASSUME Types, NEW c \in Callers, AppendEntry(c), nonce[c] \in Nonces
  PROVE  /\ disk' \in Images /\ disk'.safe = disk.safe
         /\ Rec(c) \in Records
         /\ Lines(disk') = Lines(disk) \cup {Rec(c)}
<1>1. Rec(c) \in Records
  BY SMT, RecordType, CacheAssumption DEF Types, Rec
<1>2. disk' = [disk EXCEPT !.tail = @ \cup {Rec(c)},
                           !.torn = IF @ = "cut" THEN "broken" ELSE @]
  BY DEF AppendEntry, Rec
<1> QED
  BY <1>1, <1>2 DEF Types, Images, Lines, Torn

\* Every step keeps the types.
LEMMA TypesStep ==
  ASSUME IInv, Next
  PROVE  Types'
<1>a. Types /\ pc \in [Callers -> Callees]
  BY DEF IInv, Types, Callees
<1>b. \A c \in Callers :
        pc[c] # "idle" => nonce[c] \in Nonces /\ now[c] <= clock
  BY DEF IInv, LockInv
<1>1. CASE OpenReplayCache
  <2> DEFINE live == {r \in Lines(disk) : r.e * Second > clock}
             of(n) == {r \in live : r.n = n}
  <2>1. expires' = [n \in Nonces |->
          IF of(n) = {} THEN 0 ELSE (CHOOSE r \in of(n) : TRUE).e * Second]
    BY <1>1 DEF OpenReplayCache, load
  <2>2. ASSUME NEW n \in Nonces, of(n) # {}
        PROVE  (CHOOSE r \in of(n) : TRUE).e * Second \in Nat
    <3>1. (CHOOSE r \in of(n) : TRUE) \in of(n)
      BY <2>2
    <3> QED
      BY <1>a, <3>1, LinesType, UnixFacts DEF Types
  <2>3. expires' \in [Nonces -> Nat]
    BY <2>1, <2>2
  <2> QED
    BY <1>a, <1>1, <2>3 DEF OpenReplayCache, Types, storage, callers, history
<1>2. CASE OpenShared \/ CloseRef \/ Tick
  BY SMT, <1>a, <1>2 DEF OpenShared, CloseRef, Tick, Types, object, memory,
     journal,
     storage, callers, history
<1>3. CASE Check
  BY SMT, <1>a, <1>3, PurgeFacts DEF Check, Types, object, journal, storage,
     callers,
     history
<1>4. ASSUME NEW c \in Callers, NEW n \in Nonces, Arrive(c, n)
      PROVE  Types'
  BY <1>a, <1>4 DEF Arrive, Types, object, memory, journal, storage, history
<1>5. ASSUME NEW c \in Callers, AcceptRefuses(c) \/ AcceptReturns(c)
      PROVE  Types'
  <2>1. Return(c, pc)
    BY <1>5 DEF AcceptRefuses, AcceptReturns
  <2>2. \A g \in grants' : g.n \in Nonces /\ g.now \in Nat /\ g.at \in Nat
    <3>1. \/ grants' = grants
          \/ grants' = grants \cup {Granted(c)} /\ pc[c] # "idle"
      BY <1>5 DEF AcceptRefuses, AcceptReturns, history
    <3>2. pc[c] # "idle" => /\ Granted(c).n \in Nonces /\ Granted(c).now \in Nat
                            /\ Granted(c).at \in Nat
      BY <1>a, <1>b DEF Granted, Types
    <3> QED
      BY <1>a, <3>1, <3>2 DEF Types
  <2>3. UNCHANGED <<clock, inst, mu, expires, syncedTx, currentTx, disk, prev>>
    BY <1>5 DEF AcceptRefuses, AcceptReturns, object, memory, journal, storage
  <2> QED
    BY <1>a, <2>1, <2>2, <2>3, ReturnFacts DEF Types, Callees
<1>6. ASSUME NEW c \in Callers, AcceptDenies(c)
      PROVE  Types'
  <2>1. Return(c, pc) /\ Purge(now[c]) /\ now[c] \in Nat /\ now[c] <= clock
    BY <1>a, <1>b, <1>6 DEF AcceptDenies, Types
  <2>2. UNCHANGED <<clock, inst, mu, syncedTx, currentTx, disk, prev, grants>>
    BY <1>6 DEF AcceptDenies, object, journal, storage, history
  <2> QED
    BY <1>a, <2>1, <2>2, ReturnFacts, PurgeFacts DEF Types, Callees
<1>7. ASSUME NEW c \in Callers, AcceptProceeds(c)
      PROVE  Types'
  <2>1. Purge(now[c]) /\ now[c] \in Nat /\ now[c] <= clock
    BY <1>a, <1>b, <1>7 DEF AcceptProceeds, Types
  <2> QED
    BY <1>a, <1>7, <2>1, PurgeFacts DEF AcceptProceeds, Types, object, journal,
       storage, history, Locked
<1>8. ASSUME NEW c \in Callers, NEW nil,
             CompactFails(c, nil) \/ RenamedFails(c, nil)
      PROVE  Types'
  <2>1. Return(c, Woken) /\ mu' = NoOne
    BY <1>8 DEF CompactFails, RenamedFails, Fail
  <2>2. UNCHANGED <<clock, inst, expires, syncedTx, currentTx, disk, prev,
                    grants>>
    BY <1>8 DEF CompactFails, RenamedFails, object, memory, storage, history
  <2> QED
    BY <1>a, <2>1, <2>2, WokenType, ReturnFacts DEF Types, Callees
<1>9. ASSUME NEW c \in Callers, CompactRenames(c)
      PROVE  Types'
  <2>1. {Record(n, expires[n]) : n \in Live(expires)} \in SUBSET Records
    BY SMT, <1>a, RecordType DEF Types, Live
  <2> QED
    BY <1>a, <1>9, <2>1, CleanImage DEF CompactRenames, Types, object, memory,
       journal, history, Locked
<1>10. ASSUME NEW c \in Callers, CompactDone(c)
      PROVE  Types'
  BY <1>a, <1>10 DEF CompactDone, Types, object, memory, history, Locked
<1>11. ASSUME NEW c \in Callers, AppendEntry(c)
      PROVE  Types'
  <2>1. nonce[c] \in Nonces /\ now[c] + Window \in Nat /\ currentTx + 1 \in Nat
    BY SMT, <1>a, <1>b, <1>11, CacheAssumption DEF AppendEntry, Types
  <2>2. named' \in [Callers -> BOOLEAN]
    BY <1>a, <1>11 DEF AppendEntry, Types
  <2> QED
    BY <1>a, <1>11, <2>1, <2>2, AppendImage
    DEF AppendEntry, Types, object, history, Pending
<1>12. ASSUME NEW c \in Callers, NEW torn \in Torn, AppendFails(c, torn)
      PROVE  Types'
  <2>1. Return(c, Woken) /\ mu' = NoOne /\ disk' = [disk EXCEPT !.torn = torn]
    BY <1>12 DEF AppendFails, Fail
  <2>2. UNCHANGED <<clock, inst, expires, syncedTx, currentTx, prev, grants>>
    BY <1>12 DEF AppendFails, object, memory, history
  <2>3. disk' \in Images
    BY <1>a, <2>1 DEF Types, Images
  <2> QED
    BY <1>a, <2>1, <2>2, <2>3, WokenType, ReturnFacts DEF Types, Callees
<1>13. ASSUME NEW ok, CommitTick(ok) \/ LoopStops(ok)
      PROVE  Types'
  <2>1. \/ disk' = Synced(disk) /\ syncedTx' = currentTx /\ pc' = Woken
        \/ disk' = disk /\ syncedTx' = syncedTx /\ pc' = Woken
        \/ UNCHANGED <<disk, syncedTx, pc>>
    BY <1>13 DEF CommitTick, LoopStops, Commit
  <2>2. UNCHANGED <<clock, inst, mu, expires, currentTx, prev, nonce, now, at,
                    tx, named, grants>>
    BY <1>13 DEF CommitTick, LoopStops, object, memory, history
  <2> QED
    BY <1>a, <2>1, <2>2, WokenType, SyncedImage DEF Types, Callees
<1>14. ASSUME NEW ok, CloseFinishes(ok)
      PROVE  Types'
  BY <1>a, <1>14, SyncedImage DEF CloseFinishes, Types, memory, callers, history
<1>15. ASSUME NEW image \in Files, NEW kept \in SUBSET image.tail,
              NEW torn \in Torn, Crash(image, kept, torn)
      PROVE  Types'
  <2>1. disk' \in Images
    BY <1>a, <1>15 DEF Crash, Types, Images, Files
  <2> QED
    BY <1>a, <1>15, <2>1 DEF Crash, Types, history
<1> QED
  BY <1>1, <1>2, <1>3, <1>4, <1>5, <1>6, <1>7, <1>8, <1>9, <1>10, <1>11, <1>12,
     <1>13, <1>14, <1>15
  DEF Next, AcceptStep, LoopStep, Files

-----------------------------------------------------------------------------
(* What most steps leave alone *)

\* No Accept starts to wait, and those that go on waiting keep their locals.
PendingKept ==
  \A c \in Callers : pc'[c] \in Pending =>
    /\ pc[c] \in Pending /\ nonce'[c] = nonce[c] /\ now'[c] = now[c]
    /\ at'[c] = at[c] /\ tx'[c] = tx[c] /\ named'[c] = named[c]

\* Only what is due leaves the map.
MapKept ==
  \A n \in Nonces : \/ expires'[n] = expires[n]
                    \/ expires'[n] = 0 /\ expires[n] <= clock

\* Every file a crash may find comes from one it might have found before; no
\* synced record is lost and no record is added.
FilesKept ==
  \A i \in Files' : \E j \in Files :
    j.safe \subseteq i.safe /\ Lines(i) \subseteq Lines(j)

\* An expiry that has passed stays so.
LEMMA PastStays ==
  ASSUME Types, Types', clock' >= clock
  PROVE  /\ \A t \in Nat : Past(t) => Past(t)'
         /\ \A r \in Records : Fresh(r)' => Fresh(r)
<1>1. clock \in Nat /\ clock' \in Nat
  BY DEF Types
<1>2. \A t \in Nat : Unix(t) * Second \in Nat
  BY UnixFacts, CacheAssumption
<1>3. \A r \in Records : r.e * Second \in Nat
  BY UnixFacts DEF Records
<1>4. \A t \in Nat : Past(t) => Past(t)'
  BY SMT, <1>1, <1>2 DEF Past, Unix
<1> QED
  BY SMT, <1>1, <1>3, <1>4 DEF Fresh

\* A file without new records still has one fresh record per nonce.
LEMMA UniqueStep ==
  ASSUME IInv, Types', clock' >= clock, FilesKept
  PROVE  \A image \in Files' : Unique(image)'
<1> SUFFICES ASSUME NEW i \in Files', NEW r \in Lines(i), NEW s \in Lines(i),
                    r.n = s.n, Fresh(r)', Fresh(s)'
             PROVE  r.e = s.e
  BY DEF Unique
<1>1. PICK j \in Files : Lines(i) \subseteq Lines(j)
  BY DEF FilesKept
<1>2. j \in Images /\ Types
  BY DEF Files, IInv, Types
<1>3. r \in Records /\ s \in Records
  BY <1>1, <1>2, LinesType
<1>4. Fresh(r) /\ Fresh(s)
  BY <1>2, <1>3, PastStays
<1>5. Unique(j)
  BY DEF IInv, DiskInv
<1> QED
  BY <1>1, <1>4, <1>5 DEF Unique

\* A grant on every file stays on every file.
LEMMA DurableStep ==
  ASSUME IInv, Types', clock' >= clock, FilesKept, grants' = grants
  PROVE  GrantsDurable'
<1> SUFFICES ASSUME NEW g \in grants, NEW i \in Files'
             PROVE  \/ Past(g.now + Window)'
                    \/ Record(g.n, g.now + Window) \in i.safe
  BY DEF GrantsDurable, Durable, Files, Past, Record, Unix
<1>1. PICK j \in Files : j.safe \subseteq i.safe
  BY DEF FilesKept
<1>2. Types /\ g.now + Window \in Nat
  BY SMT, CacheAssumption DEF IInv, Types
<1>3. Past(g.now + Window) \/ Record(g.n, g.now + Window) \in j.safe
  BY DEF IInv, GrantsDurable, Durable, Files, Past
<1> QED
  BY <1>1, <1>2, <1>3, PastStays

\* The map goes on knowing the fresh records of a file with no new ones.
LEMMA MapStep ==
  ASSUME IInv, Types', clock' >= clock, MapKept, inst # "down",
         Lines(disk') \subseteq Lines(disk)
  PROVE  \A r \in Lines(disk') : Fresh(r)' =>
           expires'[r.n] # 0 /\ Unix(expires'[r.n]) = r.e
<1> SUFFICES ASSUME NEW r \in Lines(disk'), Fresh(r)'
             PROVE  expires'[r.n] # 0 /\ Unix(expires'[r.n]) = r.e
  OBVIOUS
<1>1. Types /\ r \in Lines(disk) /\ r \in Records /\ r.n \in Nonces
  BY LinesType DEF IInv, Types
<1>2. Fresh(r)
  BY <1>1, PastStays
<1>3. expires[r.n] # 0 /\ Unix(expires[r.n]) = r.e
  BY <1>1, <1>2 DEF IInv, DiskInv
<1>4. expires[r.n] \in Nat /\ clock \in Nat /\ r.e * Second \in Nat
  BY <1>1, UnixFacts DEF Types, Records
<1>5. r.e * Second <= expires[r.n]
  BY <1>3, <1>4, UnixFacts
<1>6. expires[r.n] > clock
  BY SMT, <1>2, <1>4, <1>5 DEF Fresh
<1>7. expires'[r.n] = expires[r.n]
  BY SMT, <1>1, <1>4, <1>6 DEF MapKept
<1> QED
  BY <1>3, <1>7

\* So it does the nonces of the waiting Accepts, until their records are past.
LEMMA WaitersStep ==
  ASSUME IInv, Types', clock' >= clock, MapKept, PendingKept
  PROVE  \A c \in Callers : pc'[c] \in Pending =>
           \/ Past(now[c] + Window)'
           \/ expires'[nonce'[c]] = now'[c] + Window
<1> SUFFICES ASSUME NEW c \in Callers, pc'[c] \in Pending
             PROVE  \/ Past(now[c] + Window)'
                    \/ expires'[nonce'[c]] = now'[c] + Window
  OBVIOUS
<1>1. pc[c] \in Pending /\ nonce'[c] = nonce[c] /\ now'[c] = now[c]
  BY DEF PendingKept
<1>2. Types /\ nonce[c] \in Nonces /\ now[c] + Window \in Nat /\ clock \in Nat
  BY SMT, <1>1, CacheAssumption DEF IInv, LockInv, Types, Pending
<1>3. Past(now[c] + Window) \/ expires[nonce[c]] = now[c] + Window
  BY <1>1 DEF IInv, DiskInv
<1>4. now[c] + Window <= clock => Past(now[c] + Window)
  <2>1. Unix(now[c] + Window) * Second <= now[c] + Window
    BY <1>2, UnixFacts
  <2>2. Unix(now[c] + Window) * Second \in Nat
    BY <1>2, UnixFacts
  <2> QED
    BY SMT, <1>2, <2>1, <2>2 DEF Past
<1>5. Past(now[c] + Window) => Past(now[c] + Window)'
  BY <1>1, <1>2, PastStays DEF Past, Unix
<1> QED
  BY <1>1, <1>2, <1>3, <1>4, <1>5 DEF MapKept

\* Accepts that go on waiting stay a window apart.
LEMMA PairStep ==
  ASSUME IInv, PendingKept, grants' = grants
  PROVE  PairInv'
BY ZenonT(60) DEF IInv, PairInv, PendingKept, Unix

\* Records stay where syncedTx says they are.
LEMMA SyncStep ==
  ASSUME IInv, Types', clock' >= clock, PendingKept, FilesKept,
         syncedTx' = syncedTx, ~persistErr' => ~persistErr,
         Lines(disk) \subseteq Lines(disk'),
         \/ persistErr' \/ prev' = {}
         \/ /\ prev' = prev
            /\ \A d \in Callers : pc[d] = "renamed" => pc'[d] = "renamed"
  PROVE  SyncInv'
<1> SUFFICES ASSUME NEW c \in Callers, pc'[c] \in Pending, named'[c],
                    ~persistErr'
             PROVE  /\ syncedTx' >= tx'[c] => \A i \in Files' :
                         Past(now[c] + Window)' \/ Rec(c)' \in i.safe
                    /\ syncedTx' < tx'[c] =>
                         /\ Past(now[c] + Window)' \/ Rec(c)' \in Lines(disk')
                         /\ prev' = {} \/ \E d \in Callers : pc'[d] = "renamed"
  BY DEF SyncInv
<1>1. /\ pc[c] \in Pending /\ named[c] /\ ~persistErr /\ now'[c] = now[c]
      /\ tx'[c] = tx[c] /\ Rec(c)' = Rec(c) /\ syncedTx' = syncedTx
  BY DEF PendingKept, Rec, Record, Unix
<1>2. Types /\ now[c] + Window \in Nat
  BY SMT, CacheAssumption DEF IInv, Types
<1>3. Past(now[c] + Window) => Past(now[c] + Window)'
  BY <1>1, <1>2, PastStays DEF Past, Unix
<1>4. ASSUME syncedTx >= tx[c], NEW i \in Files'
      PROVE  Past(now[c] + Window)' \/ Rec(c)' \in i.safe
  <2>1. PICK j \in Files : j.safe \subseteq i.safe
    BY SMT DEF FilesKept
  <2>2. Past(now[c] + Window) \/ Rec(c) \in j.safe
    BY <1>1, <1>4 DEF IInv, SyncInv
  <2> QED
    BY <1>1, <1>3, <2>1, <2>2
<1>5. ASSUME syncedTx < tx[c]
      PROVE  /\ Past(now[c] + Window)' \/ Rec(c)' \in Lines(disk')
             /\ prev' = {} \/ \E d \in Callers : pc'[d] = "renamed"
  <2>1. /\ Past(now[c] + Window) \/ Rec(c) \in Lines(disk)
        /\ prev = {} \/ \E d \in Callers : pc[d] = "renamed"
    BY <1>1, <1>5 DEF IInv, SyncInv
  <2> QED
    BY <1>1, <1>3, <2>1
<1> QED
  BY <1>1, <1>4, <1>5

-----------------------------------------------------------------------------
(* Steps that add no record *)

\* Who is inside Accept holds what LockInv says.
LockKept ==
  /\ \A c \in Callers : pc'[c] \in Locked =>
       mu' = c /\ inst' # "down" /\ expires'[nonce'[c]] = 0
  /\ \A c \in Callers : pc'[c] # "idle" =>
       nonce'[c] \in Nonces /\ now'[c] <= clock'

Calm ==
  /\ clock' >= clock /\ UNCHANGED <<syncedTx, currentTx>>
  /\ disk.safe \subseteq disk'.safe /\ Lines(disk') = Lines(disk)
  /\ prev' \subseteq prev
  /\ PendingKept /\ MapKept /\ LockKept
  /\ inst' # "down" => inst # "down"
  /\ ~persistErr' =>
       /\ ~persistErr
       /\ \/ prev' = {}
          \/ /\ prev' = prev
             /\ \A d \in Callers : pc[d] = "renamed" => pc'[d] = "renamed"

\* Such a step keeps the invariant, its last two parts if it grants nothing.
LEMMA CalmStep ==
  ASSUME IInv, Types', Calm
  PROVE  /\ LockInv' /\ DiskInv' /\ SyncInv'
         /\ grants' = grants => IInv'
<1>1. FilesKept
  <2>1. Files' \subseteq {disk'} \cup prev
    BY DEF Files, Calm
  <2>2. disk \in Files /\ prev \subseteq Files
    BY DEF Files
  <2>3. disk.safe \subseteq disk'.safe /\ Lines(disk') \subseteq Lines(disk)
    BY DEF Calm
  <2> QED
    BY <2>1, <2>2, <2>3 DEF FilesKept
<1>2. LockInv'
  <2>1. \A c \in Callers : pc'[c] \in Pending =>
          now'[c] <= at'[c] /\ at'[c] <= clock' /\ tx'[c] <= currentTx'
    <3> SUFFICES ASSUME NEW c \in Callers, pc'[c] \in Pending
                 PROVE  /\ now'[c] <= at'[c] /\ at'[c] <= clock'
                        /\ tx'[c] <= currentTx'
      OBVIOUS
    <3>1. /\ pc[c] \in Pending /\ now'[c] = now[c] /\ at'[c] = at[c]
          /\ tx'[c] = tx[c] /\ clock' >= clock /\ currentTx' = currentTx
      BY DEF Calm, PendingKept
    <3>2. now[c] <= at[c] /\ at[c] <= clock /\ tx[c] <= currentTx
      BY <3>1 DEF IInv, LockInv
    <3>3. at[c] \in Nat /\ clock \in Nat /\ clock' \in Nat
      BY DEF IInv, Types
    <3> QED
      BY SMT, <3>1, <3>2, <3>3
  <2>2. syncedTx' <= currentTx'
    BY DEF Calm, IInv, LockInv
  <2> QED
    BY <2>1, <2>2 DEF LockInv, Calm, LockKept
<1>3. DiskInv'
  <2>1. \A image \in Files' : Unique(image)'
    BY <1>1, UniqueStep DEF Calm
  <2>2. inst' # "down" => \A r \in Lines(disk') : Fresh(r)' =>
          expires'[r.n] # 0 /\ Unix(expires'[r.n]) = r.e
    BY MapStep DEF Calm
  <2>3. \A c \in Callers : pc'[c] \in Pending =>
          Past(now[c] + Window)' \/ expires'[nonce'[c]] = now'[c] + Window
    BY WaitersStep DEF Calm
  <2> QED
    BY <2>1, <2>2, <2>3 DEF DiskInv, Unix
<1>4. SyncInv'
  BY <1>1, SyncStep DEF Calm
<1>5. grants' = grants => PairInv' /\ GrantsDurable'
  BY <1>1, PairStep, DurableStep DEF Calm
<1> QED
  BY <1>2, <1>3, <1>4, <1>5 DEF IInv

\* A return leaves the other callers alone.
LEMMA ReturnKeeps ==
  ASSUME IInv, NEW c \in Callers, Return(c, pc) \/ Return(c, Woken)
  PROVE  /\ PendingKept
         /\ \A d \in Callers : /\ pc'[d] \in Locked => pc'[d] = pc[d]
                               /\ pc'[d] # "idle" => /\ d # c /\ pc[d] # "idle"
                                                     /\ nonce'[d] = nonce[d]
                                                     /\ now'[d] = now[d]
         /\ \A d \in Callers \ {c} : pc[d] = "renamed" => pc'[d] = "renamed"
<1>1. Types /\ pc \in [Callers -> Callees] /\ Woken \in [Callers -> Callees]
  BY WokenType DEF IInv, Types, Callees
<1>2. PICK pcs \in {pc, Woken} : Return(c, pcs)
  OBVIOUS
<1>3. \A d \in Callers : /\ pcs[d] \in Pending => pc[d] \in Pending
                         /\ pcs[d] \notin Pending => pcs[d] = pc[d]
                         /\ pc[d] \notin Pending => pcs[d] = pc[d]
  BY <1>1, WokenType
<1>4. /\ pc'[c] = "idle"
      /\ \A d \in Callers \ {c} :
           /\ pc'[d] = pcs[d] /\ nonce'[d] = nonce[d] /\ now'[d] = now[d]
           /\ at'[d] = at[d] /\ tx'[d] = tx[d] /\ named'[d] = named[d]
  BY SMT, <1>1, <1>2, ReturnFacts
<1>5. PendingKept
  BY <1>3, <1>4 DEF PendingKept, Pending
<1> QED
  BY <1>3, <1>4, <1>5 DEF Pending, Locked

\* Opening a shared cache again, dropping a reference, looking, and time.
LEMMA OutsideCalm ==
  ASSUME IInv, Types', OpenShared \/ CloseRef \/ Check \/ Tick
  PROVE  Calm
<1>1. /\ UNCHANGED <<pc, nonce, now, at, tx, named, disk, prev, syncedTx,
                     currentTx, persistErr, grants, mu>>
      /\ clock' >= clock /\ (inst' # "down" <=> inst # "down")
  BY SMT DEF OpenShared, CloseRef, Check, Tick, object, memory, journal,
     storage,
     callers, history, IInv, Types
<1>2. MapKept /\ (expires' = expires \/ Purge(clock))
  BY SMT, PurgeFacts DEF OpenShared, CloseRef, Check, Tick, memory, IInv, Types,
     MapKept
<1>3. \A n \in Nonces : expires[n] = 0 => expires'[n] = 0
  BY <1>2 DEF MapKept
<1>4. LockKept
  <2>1. clock \in Nat /\ clock' \in Nat /\ \A c \in Callers : now[c] \in Nat
    BY DEF IInv, Types
  <2>2. \A c \in Callers : pc[c] # "idle" =>
          nonce[c] \in Nonces /\ now[c] <= clock'
    BY SMT, <1>1, <2>1 DEF IInv, LockInv
  <2> QED
    BY <1>1, <1>3, <2>2 DEF LockKept, IInv, LockInv, Locked
<1> QED
  BY <1>1, <1>2, <1>4 DEF Calm, PendingKept

\* A caller reads the clock and waits for the mutex.
LEMMA ArriveCalm ==
  ASSUME IInv, NEW c \in Callers, NEW n \in Nonces, Arrive(c, n)
  PROVE  Calm
<1>1. UNCHANGED <<clock, inst, mu, expires, disk, prev, syncedTx, currentTx,
                  persistErr, grants, at, tx, named>>
  BY DEF Arrive, object, memory, journal, storage, history
<1>2. /\ pc[c] = "idle" /\ pc'[c] = "lock" /\ nonce'[c] = n /\ now'[c] = clock
      /\ \A d \in Callers \ {c} :
           pc'[d] = pc[d] /\ nonce'[d] = nonce[d] /\ now'[d] = now[d]
  BY DEF Arrive, IInv, Types
<1>3. clock \in Nat
  BY DEF IInv, Types
<1>4. LockKept
  BY SMT, <1>1, <1>2, <1>3 DEF IInv, LockInv, LockKept, Locked
<1>5. PendingKept
  BY <1>1, <1>2 DEF PendingKept, Pending
<1> QED
  BY SMT, <1>1, <1>2, <1>3, <1>4, <1>5 DEF Calm, MapKept

\* Accept refuses, denies, or returns from its wait.
LEMMA ReturnCalm ==
  ASSUME IInv, NEW c \in Callers,
         AcceptRefuses(c) \/ AcceptDenies(c) \/ AcceptReturns(c)
  PROVE  Calm
<1>1. /\ UNCHANGED <<clock, inst, mu, disk, prev, syncedTx, currentTx>>
      /\ Return(c, pc) /\ pc[c] \in {"lock", "recheck"}
  BY DEF AcceptRefuses, AcceptDenies, AcceptReturns, object, memory, journal,
     storage, history
<1>2. ~persistErr' => ~persistErr
  BY DEF AcceptRefuses, AcceptDenies, AcceptReturns, journal
<1>3. now[c] \in Nat /\ now[c] <= clock /\ clock \in Nat /\ Types
  BY <1>1 DEF IInv, LockInv, Types
<1>4. MapKept
  BY <1>3, PurgeFacts DEF AcceptRefuses, AcceptDenies, AcceptReturns, memory,
     MapKept
<1>5. \A n \in Nonces : expires[n] = 0 => expires'[n] = 0
  BY <1>4 DEF MapKept
<1>6. LockKept
  BY SMTT(60), <1>1, <1>5, ReturnKeeps DEF IInv, LockInv, LockKept, Locked
<1>7. \A d \in Callers : pc[d] = "renamed" => pc'[d] = "renamed"
  BY <1>1, ReturnKeeps
<1> QED
  BY SMTT(60), <1>1, <1>2, <1>3, <1>4, <1>6, <1>7, ReturnKeeps DEF Calm

\* Accept finds the nonce new and keeps the mutex.
LEMMA ProceedsCalm ==
  ASSUME IInv, NEW c \in Callers, AcceptProceeds(c)
  PROVE  Calm
<1>1. /\ UNCHANGED <<clock, inst, disk, prev, syncedTx, currentTx, persistErr,
                     grants, nonce, now, at, tx, named>>
      /\ mu = NoOne /\ mu' = c /\ inst = "open" /\ Purge(now[c])
      /\ expires'[nonce[c]] = 0 /\ pc[c] = "lock"
  BY DEF AcceptProceeds, object, journal, storage, history, Unusable, Purge
<1>2. /\ pc'[c] \in {"compact", "append"}
      /\ \A d \in Callers \ {c} : pc'[d] = pc[d]
  BY DEF AcceptProceeds, IInv, Types
<1>3. now[c] \in Nat /\ now[c] <= clock /\ clock \in Nat /\ Types
  BY <1>1 DEF IInv, LockInv, Types
<1>4. MapKept
  BY <1>1, <1>3, PurgeFacts DEF MapKept
<1>5. \A d \in Callers : pc[d] \notin Locked
  BY <1>1, CacheAssumption DEF IInv, LockInv
<1>6. LockKept
  BY <1>1, <1>2, <1>5 DEF IInv, LockInv, LockKept, Locked
<1>7. PendingKept
  BY ZenonT(30), <1>1, <1>2 DEF PendingKept, Pending
<1> QED
  BY SMTT(60), <1>1, <1>2, <1>3, <1>4, <1>5, <1>6, <1>7 DEF Calm, Locked

\* A failure inside Accept: persistErr is set for good.
LEMMA FailsCalm ==
  ASSUME IInv, NEW c \in Callers,
         \/ \E nil \in BOOLEAN : CompactFails(c, nil) \/ RenamedFails(c, nil)
         \/ \E torn \in Torn : AppendFails(c, torn)
  PROVE  Calm
<1>1. /\ UNCHANGED <<clock, inst, expires, prev, syncedTx, currentTx, grants>>
      /\ Return(c, Woken) /\ pc[c] \in Locked /\ persistErr'
  BY DEF CompactFails, RenamedFails, AppendFails, Fail, object, memory, storage,
     history, Locked
<1>2. disk'.safe = disk.safe /\ Lines(disk') = Lines(disk)
  BY DEF CompactFails, RenamedFails, AppendFails, storage, IInv, Types, Images,
     Lines
<1>3. \A d \in Callers : pc[d] \in Locked => d = c
  BY <1>1 DEF IInv, LockInv
<1>4. LockKept
  BY <1>1, <1>3, ReturnKeeps DEF IInv, LockInv, LockKept, Locked
<1>5. clock \in Nat
  BY DEF IInv, Types
<1> QED
  BY SMT, <1>1, <1>2, <1>4, <1>5, ReturnKeeps DEF Calm, MapKept

\* compact ends: the directory is synced, and the mutex kept.
LEMMA DoneCalm ==
  ASSUME IInv, NEW c \in Callers, CompactDone(c)
  PROVE  Calm
<1>1. /\ UNCHANGED <<clock, inst, mu, expires, disk, syncedTx, currentTx,
                     persistErr, nonce, now, at, tx, named>>
      /\ pc[c] = "renamed" /\ prev' = {}
  BY DEF CompactDone, object, memory
<1>2. /\ pc'[c] = "append"
      /\ \A d \in Callers \ {c} : pc'[d] = pc[d]
  BY DEF CompactDone, IInv, Types
<1>3. clock \in Nat
  BY DEF IInv, Types
<1>4. LockKept
  BY <1>1, <1>2 DEF IInv, LockInv, LockKept, Locked
<1>5. PendingKept
  BY ZenonT(30), <1>1, <1>2 DEF PendingKept, Pending
<1> QED
  BY SMT, <1>1, <1>3, <1>4, <1>5 DEF Calm, MapKept

\* Close: nobody is inside Accept, and the last sync only helps.
LEMMA CloseCalm ==
  ASSUME IInv, NEW ok, CloseFinishes(ok)
  PROVE  Calm
<1>1. /\ UNCHANGED <<clock, expires, prev, syncedTx, currentTx, persistErr, pc,
                     nonce, now, at, tx, named>>
      /\ mu = NoOne /\ inst' = "down" /\ disk' \in {disk, Synced(disk)}
  BY DEF CloseFinishes, memory, callers
<1>2. disk.safe \subseteq disk'.safe /\ Lines(disk') = Lines(disk)
  BY <1>1, SyncedImage, LinesType DEF IInv, Types
<1>3. \A d \in Callers : pc[d] \notin Locked
  BY <1>1, CacheAssumption DEF IInv, LockInv
<1>4. LockKept
  BY <1>1, <1>3 DEF IInv, LockInv, LockKept
<1>5. clock \in Nat
  BY DEF IInv, Types
<1> QED
  BY SMT, <1>1, <1>2, <1>4, <1>5 DEF Calm, MapKept, PendingKept

-----------------------------------------------------------------------------
(* Steps that load, write, sync or grant, and the crash *)

\* With no caller in Accept most of the invariant is about the files.
LEMMA IdleStep ==
  ASSUME IInv, Types', FilesKept, grants' = grants, clock' = clock,
         \A c \in Callers : pc'[c] = "idle", syncedTx' = 0, currentTx' = 0,
         inst' # "down" => \A r \in Lines(disk') : Fresh(r) =>
           expires'[r.n] # 0 /\ Unix(expires'[r.n]) = r.e
  PROVE  IInv'
<1>1. clock' >= clock
  BY SMT DEF Types
<1>2. \A c \in Callers : pc'[c] \notin Locked /\ pc'[c] \notin Pending
  BY ZenonT(30) DEF Locked, Pending
<1>3. LockInv'
  BY SMT, <1>2 DEF LockInv
<1>4. DiskInv'
  <2>1. \A image \in Files' : Unique(image)'
    BY <1>1, UniqueStep
  <2> QED
    BY <1>2, <2>1 DEF DiskInv, Unix, Fresh
<1>5. SyncInv' /\ PairInv'
  BY <1>2 DEF SyncInv, PairInv
<1>6. GrantsDurable'
  BY <1>1, DurableStep
<1> QED
  BY ZenonT(30), <1>3, <1>4, <1>5, <1>6 DEF IInv

\* load: the map gets every fresh record of the file.
LEMMA OpenStep ==
  ASSUME IInv, Types', OpenReplayCache
  PROVE  IInv'
<1> DEFINE live == {r \in Lines(disk) : r.e * Second > clock}
           of(n) == {r \in live : r.n = n}
<1>1. expires' = [n \in Nonces |->
        IF of(n) = {} THEN 0 ELSE (CHOOSE r \in of(n) : TRUE).e * Second]
  BY DEF OpenReplayCache, load
<1>2. /\ UNCHANGED <<clock, disk, prev, pc, grants>> /\ syncedTx' = 0
      /\ currentTx' = 0 /\ \A c \in Callers : pc'[c] = "idle"
  BY DEF OpenReplayCache, storage, callers, history
<1>3. ASSUME NEW r \in Lines(disk'), Fresh(r)
      PROVE  expires'[r.n] # 0 /\ Unix(expires'[r.n]) = r.e
  <2>1. Types /\ r \in of(r.n) /\ r.n \in Nonces /\ r.e \in Nat
    BY <1>2, <1>3, LinesType DEF IInv, Types, Fresh
  <2> DEFINE s == CHOOSE x \in of(r.n) : TRUE
  <2>2. s \in of(r.n)
    BY <2>1
  <2>3. Unique(disk)
    BY DEF IInv, DiskInv, Files
  <2>4. s.e = r.e
    BY <1>3, <2>1, <2>2, <2>3 DEF Unique, Fresh
  <2>5. expires'[r.n] = r.e * Second
    BY <1>1, <2>1, <2>4
  <2>6. r.e * Second \in Nat /\ Unix(r.e * Second) = r.e /\ clock \in Nat
    BY <2>1, UnixFacts DEF Types
  <2> QED
    BY SMT, <1>3, <2>5, <2>6 DEF Fresh
<1>4. FilesKept
  BY <1>2 DEF FilesKept, Files
<1> QED
  BY <1>2, <1>3, <1>4, IdleStep

\* A crash leaves one of the files, with at least its synced records.
LEMMA CrashStep ==
  ASSUME IInv, Types', NEW image \in Files, NEW kept \in SUBSET image.tail,
         NEW torn, Crash(image, kept, torn)
  PROVE  IInv'
<1>1. /\ disk' = [safe |-> image.safe \cup kept, tail |-> {}, torn |-> torn]
      /\ prev' = {} /\ UNCHANGED <<clock, grants>> /\ inst' = "down"
      /\ syncedTx' = 0 /\ currentTx' = 0
      /\ \A c \in Callers : pc'[c] = "idle"
  BY DEF Crash, history
<1>2. FilesKept
  <2>1. Files' = {disk'}
    BY <1>1 DEF Files
  <2>2. image.safe \subseteq disk'.safe /\ Lines(disk') \subseteq Lines(image)
    BY <1>1 DEF Lines
  <2> QED
    BY <2>1, <2>2 DEF FilesKept
<1> QED
  BY <1>1, <1>2, IdleStep

\* The group commit: with the mutex free no rename is under way, so a record
\* not yet synced is in the only file there is.
LEMMA CommitStep ==
  ASSUME IInv, Types', NEW ok, CommitTick(ok) \/ LoopStops(ok)
  PROVE  IInv'
<1>1. /\ UNCHANGED <<clock, inst, mu, expires, currentTx, prev, nonce, now, at,
                     tx, named, grants>>
      /\ mu = NoOne
  BY DEF CommitTick, LoopStops, object, memory, history
<1>2. \/ disk' = Synced(disk) /\ syncedTx' = currentTx /\ pc' = Woken
         /\ (~persistErr' => ~persistErr)
      \/ disk' = disk /\ syncedTx' = syncedTx /\ pc' = Woken /\ persistErr'
      \/ UNCHANGED <<disk, syncedTx, pc, persistErr>>
  BY DEF CommitTick, LoopStops, Commit
<1>3. Types /\ clock' >= clock /\ MapKept
  BY SMT, <1>1 DEF IInv, Types, MapKept
<1>4. \A d \in Callers : /\ pc'[d] \in Pending => pc[d] \in Pending
                         /\ pc'[d] \notin Pending => pc'[d] = pc[d]
  BY <1>2, <1>3, WokenType
<1>5. PendingKept
  BY <1>1, <1>4 DEF PendingKept
<1>6. \A d \in Callers : pc[d] \notin Locked
  BY <1>1, CacheAssumption DEF IInv, LockInv
<1>7. \A d \in Callers : /\ pc'[d] \notin Locked
                         /\ pc'[d] # "idle" => pc[d] # "idle"
  BY <1>4, <1>6 DEF Locked, Pending
<1>8. LockKept
  BY <1>1, <1>7 DEF IInv, LockInv, LockKept
<1>9. CASE disk' = disk /\ syncedTx' = syncedTx /\ (~persistErr' => ~persistErr)
  <2>1. Calm
    BY <1>1, <1>3, <1>5, <1>6, <1>8, <1>9 DEF Calm, Locked
  <2> QED
    BY <1>1, <2>1, CalmStep
<1>10. CASE disk' = Synced(disk) /\ syncedTx' = currentTx
            /\ (~persistErr' => ~persistErr)
  <2>1. disk'.safe = Lines(disk) /\ Lines(disk') = Lines(disk)
        /\ disk.safe \subseteq Lines(disk)
    BY <1>3, <1>10, SyncedImage, LinesType DEF Types
  <2>2. FilesKept
    <3>1. Files' = {disk'} \cup prev
      BY <1>1 DEF Files
    <3>2. disk \in Files /\ prev \subseteq Files
      BY DEF Files
    <3> QED
      BY <2>1, <3>1, <3>2 DEF FilesKept
  <2>3. LockInv'
    BY SMT, <1>1, <1>5, <1>8, <1>10 DEF IInv, LockInv, LockKept, PendingKept,
       Types
  <2>4. DiskInv'
    <3>1. \A image \in Files' : Unique(image)'
      BY <1>3, <2>2, UniqueStep
    <3>2. inst' # "down" => \A r \in Lines(disk') : Fresh(r)' =>
            expires'[r.n] # 0 /\ Unix(expires'[r.n]) = r.e
      BY <1>1, <1>3, <2>1, MapStep
    <3>3. \A c \in Callers : pc'[c] \in Pending =>
            Past(now[c] + Window)' \/ expires'[nonce'[c]] = now'[c] + Window
      BY <1>3, <1>5, WaitersStep
    <3> QED
      BY <3>1, <3>2, <3>3 DEF DiskInv, Unix
  <2>5. SyncInv'
    <3> SUFFICES ASSUME NEW c \in Callers, pc'[c] \in Pending, named'[c],
                        ~persistErr'
                 PROVE  /\ syncedTx' >= tx'[c]
                        /\ \A i \in Files' :
                             Past(now[c] + Window)' \/ Rec(c)' \in i.safe
      BY SMT, <1>1, <1>10 DEF SyncInv, Types
    <3>1. pc[c] \in Pending /\ named[c] /\ ~persistErr
      BY <1>1, <1>5, <1>10 DEF PendingKept
    <3>2. syncedTx' >= tx'[c]
      BY <1>1, <1>3, <1>10, <3>1 DEF IInv, LockInv, Types
    <3>3. Rec(c)' = Rec(c) /\ (Past(now[c] + Window)' <=> Past(now[c] + Window))
      BY <1>1 DEF Rec, Past, Record, Unix
    <3>4. CASE syncedTx >= tx[c]
      BY SMTT(60), <2>2, <3>1, <3>2, <3>3, <3>4 DEF IInv, SyncInv, FilesKept
    <3>5. CASE syncedTx < tx[c]
      <4>1. prev = {} /\ (Past(now[c] + Window) \/ Rec(c) \in Lines(disk))
        BY <1>6, <3>1, <3>5 DEF IInv, SyncInv, Locked
      <4>2. Files' = {disk'}
        BY <1>1, <4>1 DEF Files
      <4> QED
        BY <2>1, <3>2, <3>3, <4>1, <4>2
    <3>6. syncedTx \in Nat /\ tx[c] \in Nat
      BY <1>3 DEF Types
    <3> QED
      BY SMT, <3>4, <3>5, <3>6
  <2>6. PairInv' /\ GrantsDurable'
    BY <1>1, <1>3, <1>5, <2>2, PairStep, DurableStep
  <2> QED
    BY <2>3, <2>4, <2>5, <2>6 DEF IInv
<1> QED
  BY SMT, <1>2, <1>9, <1>10

\* compact: the map, written to the new file, has the record of every grant
\* and of every waiting Accept whose window is open.
LEMMA RenameStep ==
  ASSUME IInv, Types', NEW c \in Callers, CompactRenames(c)
  PROVE  IInv'
<1> DEFINE R == {Record(n, expires[n]) : n \in Live(expires)}
<1>1. /\ UNCHANGED <<clock, inst, mu, expires, syncedTx, currentTx, persistErr,
                     nonce, now, at, tx, named, grants>>
      /\ pc[c] = "compact" /\ disk' = Clean(R) /\ prev' = prev \cup {disk}
  BY DEF CompactRenames, object, memory, journal, history
<1>2. /\ pc'[c] = "renamed"
      /\ \A d \in Callers \ {c} : pc'[d] = pc[d]
  BY DEF CompactRenames, IInv, Types
<1>3. Types /\ clock \in Nat /\ inst # "down"
  BY <1>1 DEF IInv, Types, LockInv, Locked
<1>4. R \in SUBSET Records
  BY SMT, <1>3, RecordType DEF Types, Live
<1>5. disk'.safe = R /\ Lines(disk') = R /\ Files' = Files \cup {disk'}
  BY <1>1, <1>4, CleanImage DEF Files
<1>6. \A r \in R : /\ r.n \in Nonces /\ expires[r.n] # 0
                   /\ Unix(expires[r.n]) = r.e
  BY SMT, <1>3, RecordType DEF Types, Live
<1>7. ASSUME NEW n \in Nonces, NEW t \in Nat, expires[n] # 0,
             Unix(expires[n]) = Unix(t)
      PROVE  Record(n, t) \in R
  BY <1>7 DEF Record, Live
<1>8. PendingKept
  BY <1>1, <1>2 DEF PendingKept, Pending
<1>9. LockInv'
  BY <1>1, <1>2 DEF IInv, LockInv, Locked, Pending
<1>10. DiskInv'
  <2>1. \A image \in Files' : Unique(image)'
    <3>1. \A image \in Files : Unique(image)'
      BY <1>1 DEF IInv, DiskInv, Unique, Fresh
    <3>2. \A r, s \in Lines(disk') : r.n = s.n => r.e = s.e
      BY <1>5, <1>6
    <3>3. \A image \in {disk'} : Unique(image)'
      BY <3>2 DEF Unique
    <3> QED
      BY <1>5, <3>1, <3>3
  <2>2. \A r \in Lines(disk') : expires'[r.n] # 0 /\ Unix(expires'[r.n]) = r.e
    BY <1>1, <1>5, <1>6
  <2>3. \A d \in Callers : pc'[d] \in Pending =>
          Past(now[d] + Window)' \/ expires'[nonce'[d]] = now'[d] + Window
    BY <1>1, <1>8 DEF IInv, DiskInv, PendingKept, Past, Unix
  <2> QED
    BY <2>1, <2>2, <2>3 DEF DiskInv, Unix
<1>11. SyncInv'
  <2> SUFFICES ASSUME NEW d \in Callers, pc'[d] \in Pending, named'[d],
                      ~persistErr'
               PROVE  /\ syncedTx' >= tx'[d] => \A i \in Files' :
                           Past(now[d] + Window)' \/ Rec(d)' \in i.safe
                      /\ syncedTx' < tx'[d] =>
                           Past(now[d] + Window)' \/ Rec(d)' \in Lines(disk')
    BY <1>2 DEF SyncInv
  <2>1. pc[d] \in Pending /\ named[d] /\ ~persistErr /\ nonce[d] \in Nonces
    BY <1>1, <1>8 DEF PendingKept, IInv, LockInv, Pending
  <2>2. /\ Rec(d)' = Rec(d) /\ syncedTx' = syncedTx /\ tx'[d] = tx[d]
        /\ Past(now[d] + Window)' <=> Past(now[d] + Window)
    BY <1>1 DEF Rec, Past, Record, Unix
  <2>3. Past(now[d] + Window) \/ Rec(d) \in R
    <3>1. now[d] + Window \in Nat /\ now[d] + Window # 0
      BY SMT, <1>3, CacheAssumption DEF Types
    <3>2. CASE expires[nonce[d]] = now[d] + Window
      BY <1>7, <2>1, <3>1, <3>2 DEF Rec
    <3> QED
      BY <2>1, <3>2 DEF IInv, DiskInv
  <2>4. syncedTx >= tx[d] => \A i \in Files :
          Past(now[d] + Window) \/ Rec(d) \in i.safe
    BY <2>1 DEF IInv, SyncInv
  <2> QED
    BY <1>5, <2>2, <2>3, <2>4
<1>12. PairInv'
  BY <1>1, <1>8, PairStep
<1>13. GrantsDurable'
  <2> SUFFICES ASSUME NEW g \in grants, NEW i \in Files'
               PROVE  \/ Past(g.now + Window)
                      \/ Record(g.n, g.now + Window) \in i.safe
    BY <1>1 DEF GrantsDurable, Durable, Files, Past, Record, Unix
  <2>1. \A j \in Files : \/ Past(g.now + Window)
                         \/ Record(g.n, g.now + Window) \in j.safe
    BY DEF IInv, GrantsDurable, Durable, Files, Past
  <2>2. CASE ~Past(g.now + Window) /\ i = disk'
    <3>1. g.n \in Nonces /\ g.now + Window \in Nat
      BY SMT, <1>3, CacheAssumption DEF Types
    <3> DEFINE r == Record(g.n, g.now + Window)
    <3>2. r \in Lines(disk) /\ r.n = g.n /\ r.e = Unix(g.now + Window)
      BY <2>1, <2>2, <3>1, RecordType DEF Files, Lines
    <3>3. Unix(g.now + Window) * Second \in Nat
      BY <3>1, UnixFacts
    <3>4. Fresh(r)
      BY SMT, <1>3, <2>2, <3>2, <3>3 DEF Fresh, Past
    <3>5. expires[g.n] # 0 /\ Unix(expires[g.n]) = Unix(g.now + Window)
      BY <1>3, <3>2, <3>4 DEF IInv, DiskInv
    <3> QED
      BY <1>5, <1>7, <2>2, <3>1, <3>5
  <2> QED
    BY <1>5, <2>1, <2>2
<1> QED
  BY <1>9, <1>10, <1>11, <1>12, <1>13 DEF IInv

\* What Append changes.
LEMMA AppendFacts ==
  ASSUME IInv, NEW c \in Callers, AppendEntry(c)
  PROVE  /\ UNCHANGED <<clock, inst, prev, syncedTx, persistErr, nonce, now,
                        grants>>
         /\ currentTx' = currentTx + 1
         /\ nonce[c] \in Nonces /\ now[c] + Window \in Nat
         /\ now[c] + Window # 0 /\ inst # "down" /\ expires[nonce[c]] = 0
         /\ expires'[nonce[c]] = now[c] + Window
         /\ \A n \in Nonces \ {nonce[c]} : expires'[n] = expires[n]
         /\ pc'[c] = "wait" /\ at'[c] = clock /\ tx'[c] = currentTx + 1
         /\ named'[c] => prev = {}
         /\ \A d \in Callers \ {c} :
              /\ pc'[d] = pc[d] /\ at'[d] = at[d] /\ tx'[d] = tx[d]
              /\ named'[d] = named[d] /\ pc[d] \notin Locked
         /\ \A d \in Callers : pc[d] # "renamed"
<1>1. Types /\ pc[c] = "append"
  BY DEF IInv, AppendEntry
<1>2. mu = c /\ inst # "down" /\ expires[nonce[c]] = 0 /\ nonce[c] \in Nonces
  BY <1>1 DEF IInv, LockInv, Locked
<1>3. now[c] + Window \in Nat /\ now[c] + Window # 0
  BY SMT, <1>1, CacheAssumption DEF Types
<1>4. \A d \in Callers \ {c} : pc[d] \notin Locked
  BY <1>2 DEF IInv, LockInv
<1>5. /\ UNCHANGED <<clock, inst, prev, syncedTx, persistErr, nonce, now,
                     grants>>
      /\ currentTx' = currentTx + 1
  BY DEF AppendEntry, object, history
<1>6. /\ expires' = [expires EXCEPT ![nonce[c]] = now[c] + Window]
      /\ pc' = [pc EXCEPT ![c] = "wait"] /\ at' = [at EXCEPT ![c] = clock]
      /\ tx' = [tx EXCEPT ![c] = currentTx + 1]
  BY DEF AppendEntry
<1>7. /\ named'[c] => prev = {}
      /\ \A d \in Callers \ {c} : named'[d] = named[d]
  BY <1>1 DEF AppendEntry, Types
<1>8. \A d \in Callers : pc[d] # "renamed"
  BY <1>1, <1>4 DEF Locked
<1> QED
  BY <1>1, <1>2, <1>3, <1>4, <1>5, <1>6, <1>7, <1>8 DEF Types

\* A nonce that the map does not know has no fresh record, no grant and no
\* waiting Accept whose window is open.
LEMMA Unknown ==
  ASSUME IInv, NEW n \in Nonces, inst # "down", expires[n] = 0
  PROVE  /\ \A r \in Lines(disk) : r.n = n => ~Fresh(r)
         /\ \A g \in grants : g.n = n => Past(g.now + Window)
         /\ \A d \in Callers :
              pc[d] \in Pending /\ nonce[d] = n => Past(now[d] + Window)
<1>1. Types /\ clock \in Nat
  BY DEF IInv, Types
<1>2. \A r \in Lines(disk) : r.n = n => ~Fresh(r)
  BY DEF IInv, DiskInv
<1>3. ASSUME NEW g \in grants, g.n = n, ~Past(g.now + Window)
      PROVE  FALSE
  <2>1. g.now + Window \in Nat
    BY SMT, <1>1, CacheAssumption DEF Types
  <2> DEFINE r == Record(g.n, g.now + Window)
  <2>2. r \in Lines(disk)
    BY <1>3 DEF IInv, GrantsDurable, Durable, Past, Lines
  <2>3. r.n = n /\ r.e = Unix(g.now + Window)
    BY <1>3, <2>1, RecordType
  <2>4. Unix(g.now + Window) * Second \in Nat
    BY <2>1, UnixFacts
  <2> QED
    BY SMT, <1>1, <1>2, <1>3, <2>2, <2>3, <2>4 DEF Fresh, Past
<1>4. ASSUME NEW d \in Callers, pc[d] \in Pending, nonce[d] = n
      PROVE  Past(now[d] + Window)
  <2>1. now[d] + Window # 0
    BY SMT, <1>1, CacheAssumption DEF Types
  <2> QED
    BY <1>4, <2>1 DEF IInv, DiskInv
<1> QED
  BY <1>2, <1>3, <1>4

\* Append: the nonce was unknown, so the record written is its only fresh one.
LEMMA AppendStep ==
  ASSUME IInv, Types', NEW c \in Callers, AppendEntry(c)
  PROVE  IInv'
<1> DEFINE n == nonce[c]
<1>1. Types /\ clock \in Nat
  BY DEF IInv, Types
<1>2. /\ UNCHANGED <<clock, inst, prev, syncedTx, persistErr, nonce, now,
                     grants>>
      /\ currentTx' = currentTx + 1
  BY AppendFacts
<1>3. /\ n \in Nonces /\ now[c] + Window \in Nat /\ now[c] + Window # 0
      /\ inst # "down" /\ expires[n] = 0 /\ expires'[n] = now[c] + Window
      /\ \A m \in Nonces \ {n} : expires'[m] = expires[m]
  BY AppendFacts
<1>4. /\ pc'[c] = "wait" /\ at'[c] = clock /\ tx'[c] = currentTx + 1
      /\ named'[c] => prev = {}
      /\ \A d \in Callers \ {c} :
           /\ pc'[d] = pc[d] /\ at'[d] = at[d] /\ tx'[d] = tx[d]
           /\ named'[d] = named[d] /\ pc[d] \notin Locked
      /\ \A d \in Callers : pc[d] # "renamed"
  BY AppendFacts
<1>5. /\ disk'.safe = disk.safe /\ Lines(disk') = Lines(disk) \cup {Rec(c)}
      /\ Rec(c).n = n /\ Rec(c).e = Unix(now[c] + Window)
  BY <1>1, <1>3, AppendImage, RecordType DEF Rec
<1>6. /\ \A r \in Lines(disk) : r.n = n => ~Fresh(r)
      /\ \A g \in grants : g.n = n => Past(g.now + Window)
      /\ \A d \in Callers :
           pc[d] \in Pending /\ nonce[d] = n => Past(now[d] + Window)
  BY <1>3, Unknown
<1>7. LockInv'
  <2>1. /\ currentTx \in Nat /\ syncedTx \in Nat
        /\ \A d \in Callers : tx[d] \in Nat
    BY <1>1 DEF Types
  <2>2. now[c] <= clock
    BY DEF IInv, LockInv, AppendEntry
  <2>3. \A d \in Callers : pc'[d] \notin Locked
    BY <1>4 DEF Locked
  <2>4. \A d \in Callers : pc'[d] # "idle" =>
          nonce'[d] \in Nonces /\ now'[d] <= clock'
    BY <1>2, <1>3, <1>4, <2>2 DEF IInv, LockInv
  <2>5. \A d \in Callers : pc'[d] \in Pending =>
          now'[d] <= at'[d] /\ at'[d] <= clock' /\ tx'[d] <= currentTx'
    BY SMTT(60), <1>1, <1>2, <1>4, <2>1, <2>2 DEF IInv, LockInv
  <2>6. syncedTx' <= currentTx'
    BY SMT, <1>2, <2>1 DEF IInv, LockInv
  <2> QED
    BY <2>3, <2>4, <2>5, <2>6 DEF LockInv
<1>8. DiskInv'
  <2>1. \A image \in Files' : Unique(image)'
    <3>1. \A image \in Files : Unique(image)'
      BY <1>2 DEF IInv, DiskInv, Unique, Fresh
    <3>2. \A image \in {disk'} : Unique(image)'
      <4>1. \A r, s \in Lines(disk) :
              r.n = s.n /\ Fresh(r) /\ Fresh(s) => r.e = s.e
        BY DEF IInv, DiskInv, Unique, Files
      <4>2. \A r, s \in Lines(disk') :
              r.n = s.n /\ Fresh(r) /\ Fresh(s) => r.e = s.e
        BY <1>5, <1>6, <4>1
      <4> QED
        BY <1>2, <4>2 DEF Unique, Fresh
    <3>3. Files' \subseteq Files \cup {disk'}
      BY <1>2 DEF Files
    <3> QED
      BY <3>1, <3>2, <3>3
  <2>2. ASSUME NEW r \in Lines(disk'), Fresh(r)
        PROVE  expires'[r.n] # 0 /\ Unix(expires'[r.n]) = r.e
    <3>1. CASE r = Rec(c)
      BY <1>3, <1>5, <3>1
    <3>2. CASE r \in Lines(disk)
      <4>1. r.n \in Nonces \ {n}
        BY <1>1, <1>6, <2>2, <3>2, LinesType DEF Types
      <4>2. expires[r.n] # 0 /\ Unix(expires[r.n]) = r.e
        BY <1>3, <2>2, <3>2 DEF IInv, DiskInv
      <4> QED
        BY <1>3, <4>1, <4>2
    <3> QED
      BY <1>5, <3>1, <3>2
  <2>3. ASSUME NEW d \in Callers, pc'[d] \in Pending
        PROVE  Past(now[d] + Window) \/ expires'[nonce[d]] = now[d] + Window
    <3>1. CASE d = c
      BY <1>3, <3>1
    <3>2. CASE d # c
      <4>1. pc[d] \in Pending /\ nonce[d] \in Nonces
        BY <1>4, <2>3, <3>2 DEF IInv, LockInv, Pending
      <4> QED
        BY <1>3, <1>6, <4>1 DEF IInv, DiskInv
    <3> QED
      BY <3>1, <3>2
  <2> QED
    BY <1>2, <2>1, <2>2, <2>3 DEF DiskInv, Unix, Fresh, Past
<1>9. SyncInv'
  <2> SUFFICES ASSUME NEW d \in Callers, pc'[d] \in Pending, named'[d],
                      ~persistErr
               PROVE  /\ syncedTx >= tx'[d] => \A i \in Files' :
                           Past(now[d] + Window) \/ Rec(d) \in i.safe
                      /\ syncedTx < tx'[d] =>
                           /\ Past(now[d] + Window) \/ Rec(d) \in Lines(disk')
                           /\ prev = {}
    BY ZenonT(30), <1>2 DEF SyncInv, Past, Rec, Record, Unix
  <2>1. CASE d = c
    <3>1. syncedTx < tx'[c]
      BY SMT, <1>1, <1>4 DEF IInv, LockInv, Types
    <3>2. syncedTx \in Nat /\ tx'[c] \in Nat
      BY <1>1 DEF Types
    <3> QED
      BY SMTT(60), <1>4, <1>5, <2>1, <3>1, <3>2
  <2>2. CASE d # c
    <3>1. pc[d] \in Pending /\ named[d] /\ tx'[d] = tx[d]
      BY <1>4, <2>2
    <3>2. syncedTx >= tx[d] => \A i \in Files :
            Past(now[d] + Window) \/ Rec(d) \in i.safe
      BY <3>1 DEF IInv, SyncInv
    <3>3. syncedTx < tx[d] => /\ Past(now[d] + Window) \/ Rec(d) \in Lines(disk)
                              /\ prev = {}
      BY <1>4, <3>1 DEF IInv, SyncInv
    <3>4. \A i \in Files' : \E j \in Files : i.safe = j.safe
      BY <1>2, <1>5 DEF Files
    <3> QED
      BY <1>5, <3>1, <3>2, <3>3, <3>4
  <2> QED
    BY <2>1, <2>2
<1>10. PairInv'
  <2>1. \A d \in Callers \ {c} : pc'[d] \in Pending /\ nonce[d] = n =>
          at'[c] >= Unix(now[d] + Window) * Second
    BY <1>4, <1>6 DEF Past
  <2>2. \A g \in grants : g.n = n => at'[c] >= Unix(g.now + Window) * Second
    BY <1>4, <1>6 DEF Past
  <2>3. \A d, e \in Callers :
          /\ d # e /\ pc'[d] \in Pending /\ pc'[e] \in Pending
          /\ nonce[d] = nonce[e]
          => \/ at'[d] >= Unix(now[e] + Window) * Second
             \/ at'[e] >= Unix(now[d] + Window) * Second
    BY <1>4, <2>1 DEF IInv, PairInv
  <2>4. \A d \in Callers, g \in grants :
          pc'[d] \in Pending /\ g.n = nonce[d] =>
            \/ at'[d] >= Unix(g.now + Window) * Second
            \/ g.at >= Unix(now[d] + Window) * Second
    BY <1>4, <2>2 DEF IInv, PairInv
  <2> QED
    BY <1>2, <2>3, <2>4 DEF PairInv, Unix
<1>11. GrantsDurable'
  BY <1>2, <1>5 DEF IInv, GrantsDurable, Durable, Record, Unix
<1> QED
  BY <1>7, <1>8, <1>9, <1>10, <1>11 DEF IInv

\* Accept returns true: its record is on every file a crash may find, and it
\* is a window apart from every other grant.
LEMMA GrantStep ==
  ASSUME IInv, Types', NEW c \in Callers, AcceptReturns(c)
  PROVE  /\ IInv'
         /\ grants' # grants =>
              /\ grants' = grants \cup {Granted(c)} /\ clock' = clock
              /\ nonce[c] \in Nonces /\ now[c] <= at[c] /\ at[c] <= clock
              /\ \A g \in grants : g.n = nonce[c] =>
                   \/ at[c] >= Unix(g.now + Window) * Second
                   \/ g.at >= Unix(now[c] + Window) * Second
<1>1. Calm /\ clock' = clock /\ disk' = disk /\ prev' = prev
  BY ReturnCalm DEF AcceptReturns, storage
<1>2. CASE grants' = grants
  BY <1>1, <1>2, CalmStep
<1>3. CASE grants' # grants
  <2> DEFINE g == Granted(c)
  <2>1. /\ grants' = grants \cup {g} /\ pc[c] \in Pending /\ named[c]
        /\ ~persistErr /\ syncedTx >= tx[c] /\ Return(c, pc)
    BY <1>3 DEF AcceptReturns, history, Pending
  <2>2. nonce[c] \in Nonces /\ now[c] <= at[c] /\ at[c] <= clock
    BY <2>1 DEF IInv, LockInv, Pending
  <2>3. g.n = nonce[c] /\ g.now = now[c] /\ g.at = at[c]
    BY DEF Granted
  <2>4. \A h \in grants : h.n = nonce[c] =>
          \/ at[c] >= Unix(h.now + Window) * Second
          \/ h.at >= Unix(now[c] + Window) * Second
    BY <2>1 DEF IInv, PairInv
  <2>5. Durable(g)
    BY <2>1, <2>3 DEF IInv, SyncInv, Durable, Files, Past, Rec
  <2>6. GrantsDurable'
    <3>1. \A h \in grants \cup {g} : Durable(h)
      BY <2>5 DEF IInv, GrantsDurable
    <3> QED
      BY <1>1, <2>1, <3>1 DEF GrantsDurable, Durable, Record, Unix
  <2>7. PairInv'
    <3>1. \A d \in Callers : pc'[d] \in Pending =>
            /\ d # c /\ pc[d] \in Pending /\ nonce'[d] = nonce[d]
            /\ now'[d] = now[d] /\ at'[d] = at[d]
      BY <1>1, <2>1, ReturnKeeps DEF Calm, PendingKept, Pending
    <3>2. \A d, e \in Callers :
            /\ d # e /\ pc'[d] \in Pending /\ pc'[e] \in Pending
            /\ nonce'[d] = nonce'[e]
            => \/ at'[d] >= Unix(now'[e] + Window) * Second
               \/ at'[e] >= Unix(now'[d] + Window) * Second
      BY <3>1 DEF IInv, PairInv
    <3>3. \A d \in Callers, h \in grants :
            pc'[d] \in Pending /\ h.n = nonce'[d] =>
              \/ at'[d] >= Unix(h.now + Window) * Second
              \/ h.at >= Unix(now'[d] + Window) * Second
      BY <3>1 DEF IInv, PairInv
    <3>4. \A d \in Callers :
            pc'[d] \in Pending /\ g.n = nonce'[d] =>
              \/ at'[d] >= Unix(g.now + Window) * Second
              \/ g.at >= Unix(now'[d] + Window) * Second
      BY <2>1, <2>3, <3>1 DEF IInv, PairInv
    <3> QED
      BY <2>1, <3>2, <3>3, <3>4 DEF PairInv, Unix
  <2>8. IInv'
    BY <1>1, <2>6, <2>7, CalmStep DEF IInv
  <2> QED
    BY <1>1, <2>1, <2>2, <2>4, <2>8
<1> QED
  BY <1>2, <1>3

-----------------------------------------------------------------------------
(* The theorems *)

\* Every step keeps the invariant, and is a step of ReplayGuard or leaves its
\* variables alone.
LEMMA NextStep ==
  ASSUME IInv, [Next]_vars
  PROVE  IInv' /\ [Guard!Next]_<<clock, grants>>
<1>1. CASE UNCHANGED vars
  BY ZenonT(60), <1>1
  DEF vars, object, memory, journal, storage, callers, history, IInv,
     Types, LockInv, DiskInv, SyncInv, PairInv, GrantsDurable, Durable, Files,
     Unique, Fresh, Past, Rec, Record, Unix
<1>2. CASE Next
  <2>1. Types'
    BY <1>2, TypesStep
  <2>2. CASE OpenShared \/ CloseRef \/ Check \/ Tick
    <3>1. grants' = grants /\ (clock' = clock \/ Tick)
      BY <2>2 DEF OpenShared, CloseRef, Check, Tick, history
    <3>2. IInv'
      BY <2>1, <2>2, <3>1, OutsideCalm, CalmStep
    <3>3. clock' \in Nat /\ clock' >= clock
      BY SMT, <2>1, <3>1 DEF Tick, IInv, Types
    <3> QED
      BY <3>1, <3>2, <3>3 DEF Guard!Next, Guard!Tick
  <2>3. CASE OpenReplayCache
    BY <2>1, <2>3, OpenStep DEF OpenReplayCache, history
  <2>4. ASSUME NEW c \in Callers, NEW n \in Nonces, Arrive(c, n)
        PROVE  IInv' /\ UNCHANGED <<clock, grants>>
    BY <2>1, <2>4, ArriveCalm, CalmStep DEF Arrive, history
  <2>5. ASSUME NEW c \in Callers, AcceptRefuses(c) \/ AcceptDenies(c)
        PROVE  IInv' /\ UNCHANGED <<clock, grants>>
    BY <2>1, <2>5, ReturnCalm, CalmStep DEF AcceptRefuses, AcceptDenies, history
  <2>6. ASSUME NEW c \in Callers, AcceptProceeds(c)
        PROVE  IInv' /\ UNCHANGED <<clock, grants>>
    BY <2>1, <2>6, ProceedsCalm, CalmStep DEF AcceptProceeds, history
  <2>7. ASSUME NEW c \in Callers,
               \/ \E nil \in BOOLEAN :
                    CompactFails(c, nil) \/ RenamedFails(c, nil)
               \/ \E torn \in Torn : AppendFails(c, torn)
        PROVE  IInv' /\ UNCHANGED <<clock, grants>>
    <3>1. UNCHANGED <<clock, grants>>
      BY <2>7 DEF CompactFails, RenamedFails, AppendFails, history
    <3> QED
      BY <2>1, <2>7, <3>1, FailsCalm, CalmStep
  <2>8. ASSUME NEW c \in Callers, CompactRenames(c)
        PROVE  IInv' /\ UNCHANGED <<clock, grants>>
    BY <2>1, <2>8, RenameStep DEF CompactRenames, history
  <2>9. ASSUME NEW c \in Callers, CompactDone(c)
        PROVE  IInv' /\ UNCHANGED <<clock, grants>>
    BY <2>1, <2>9, DoneCalm, CalmStep DEF CompactDone, history
  <2>10. ASSUME NEW c \in Callers, AppendEntry(c)
        PROVE  IInv' /\ UNCHANGED <<clock, grants>>
    BY <2>1, <2>10, AppendStep DEF AppendEntry, history
  <2>11. ASSUME NEW c \in Callers, AcceptReturns(c)
        PROVE  IInv' /\ [Guard!Next]_<<clock, grants>>
    <3>1. CASE grants' = grants
      BY <2>1, <2>11, <3>1, GrantStep DEF AcceptReturns
    <3>2. CASE grants' # grants
      <4>1. /\ grants' = grants \cup {Granted(c)} /\ clock' = clock
            /\ nonce[c] \in Nonces /\ now[c] <= at[c] /\ at[c] <= clock
            /\ \A g \in grants : g.n = nonce[c] =>
                 \/ at[c] >= Unix(g.now + Window) * Second
                 \/ g.at >= Unix(now[c] + Window) * Second
        BY <2>1, <2>11, <3>2, GrantStep
      <4>2. now[c] \in 0..clock /\ at[c] \in 0..clock
        BY SMT, <4>1 DEF IInv, Types
      <4>3. Guard!Grant(nonce[c], now[c], at[c])
        <5> DEFINE g == Granted(c)
        <5>1. g.n = nonce[c] /\ g.now = now[c] /\ g.at = at[c]
          BY DEF Granted
        <5>2. \A h \in grants : h.n = nonce[c] => Guard!FarApart(g, h)
          BY <4>1, <5>1 DEF Guard!FarApart, Guard!OnDisk, Unix
        <5>3. \A S : Guard!Cardinality(S) = Cardinality(S)
          BY DEF Guard!Cardinality, Cardinality
        <5> QED
          BY <4>1, <5>2, <5>3 DEF Guard!Grant, Guard!NewGrant, Granted
      <4> QED
        BY <2>1, <2>11, <4>1, <4>2, <4>3, GrantStep DEF Guard!Next
    <3> QED
      BY <3>1, <3>2
  <2>12. ASSUME NEW ok \in BOOLEAN, CommitTick(ok) \/ LoopStops(ok)
        PROVE  IInv' /\ UNCHANGED <<clock, grants>>
    BY <2>1, <2>12, CommitStep DEF CommitTick, LoopStops, history
  <2>13. ASSUME NEW ok \in BOOLEAN, CloseFinishes(ok)
        PROVE  IInv' /\ UNCHANGED <<clock, grants>>
    BY <2>1, <2>13, CloseCalm, CalmStep DEF CloseFinishes, history
  <2>14. ASSUME NEW image \in Files, NEW kept \in SUBSET image.tail,
                NEW torn \in Torn, Crash(image, kept, torn)
        PROVE  IInv' /\ UNCHANGED <<clock, grants>>
    BY <2>1, <2>14, CrashStep DEF Crash, history
  <2>15. \/ OpenReplayCache \/ OpenShared \/ CloseRef \/ Check \/ Tick
         \/ \E c \in Callers, n \in Nonces : Arrive(c, n)
         \/ \E c \in Callers :
              \/ AcceptRefuses(c) \/ AcceptDenies(c) \/ AcceptProceeds(c)
              \/ \E nil \in BOOLEAN :
                   CompactFails(c, nil) \/ RenamedFails(c, nil)
              \/ CompactRenames(c) \/ CompactDone(c) \/ AppendEntry(c)
              \/ \E torn \in Torn : AppendFails(c, torn)
              \/ AcceptReturns(c)
         \/ \E ok \in BOOLEAN : CommitTick(ok) \/ LoopStops(ok)
         \/ \E ok \in BOOLEAN : CloseFinishes(ok)
         \/ \E image \in Files : \E kept \in SUBSET image.tail :
              \E torn \in Torn : Crash(image, kept, torn)
    BY <1>2 DEF Next, AcceptStep, LoopStep, Files
  <2>16. OpenReplayCache => UNCHANGED <<clock, grants>>
    BY DEF OpenReplayCache, history
  <2> QED
    BY ONLY Zenon, <2>2, <2>3, <2>4, <2>5, <2>6, <2>7, <2>8, <2>9, <2>10,
       <2>11, <2>12, <2>13, <2>14, <2>15, <2>16
<1>3. UNCHANGED vars => UNCHANGED <<clock, grants>>
  BY DEF vars, history
<1> QED
  BY <1>1, <1>2, <1>3

\* The inductive invariant of Accept, group commit, compaction, Close and crash.
THEOREM CacheInvariant == Spec => []IInv
<1>1. IInv /\ [Next]_vars => IInv'
  BY NextStep
<1> QED
  BY <1>1, Initially, PTL DEF Spec

\* A nonce is on stable storage before Accept returns true: whatever file a
\* crash leaves at c.path holds the record of every grant still in its window.
THEOREM StableBeforeTrue == Spec => []GrantsDurable
<1>1. IInv => GrantsDurable
  BY DEF IInv
<1> QED
  BY <1>1, CacheInvariant, PTL

\* The cache implements ReplayGuard: Accept grants a nonce again only a window
\* later, across group commits, failed syncs, compactions, crashes, restarts.
THEOREM ImplementsGuard == Spec => GuardSpec
<1>1. Init => Guard!Init
  BY SMT DEF Init, Guard!Init
<1>2. IInv /\ [Next]_vars => [Guard!Next]_<<clock, grants>>
  BY NextStep
<1> QED
  BY <1>1, <1>2, CacheInvariant, PTL DEF Spec, GuardSpec, Guard!Spec

(***************************************************************************)
(* UdpReplay.                                                              *)
(***************************************************************************)
BucketOf(p) == p.ts \div Bucket

\* The window refuses the number from now on: too old, or marked.
Spent(w, seq) ==
  /\ w.initialized /\ seq <= w.highest
  /\ w.highest - seq >= Size \/ seq % Size \in w.bits

\* A timestamp that has passed for good.
Stale(p) == time - p.ts > Skew

UdpTypes ==
  /\ time \in Nat /\ host \in {"plain", "xray"} /\ durable \in BOOLEAN
  /\ sent \subseteq Packets
  /\ queue \in [Sessions -> Seq(Packets)]
  /\ \A s \in Sessions : \A i \in 1..Len(queue[s]) : queue[s][i].s = s
  /\ holding \in [Sessions -> {"none", "new", "live", "closed"}]
  /\ table \subseteq Sessions /\ last \in [Sessions -> Nat]
  /\ \A s \in Sessions : last[s] <= time
  /\ window \in [Sessions -> Windows]
  /\ buckets \in [Sessions -> [Buckets -> Nat]]
  /\ admitted \in [Sessions -> [Buckets -> Nat]]
  /\ count \in [Packets -> Nat]

\* The cache keeps a bucket until its last timestamp is stale, and has a record
\* of every bucket that a session admitted.
AdmitInv ==
  \A s \in Sessions, b \in Buckets :
    /\ admitted[s][b] # 0 => admitted[s][b] >= (b + 1) * Bucket + Skew
    /\ buckets[s][b] # 0 => admitted[s][b] # 0

\* What protects a datagram that was forwarded, while its timestamp is valid.
\* With a cache it is the record of its bucket, and the window of the session
\* that has the bucket; without, the window of a session too young to expire.
Protected(p) ==
  \/ Stale(p)
  \/ /\ durable
     /\ admitted[p.s][BucketOf(p)] # 0
     /\ buckets[p.s][BucketOf(p)] # 0 => Spent(window[p.s], p.seq)
  \/ /\ ~durable
     /\ Spent(window[p.s], p.seq)
     /\ p.ts <= last[p.s] + Skew

OnceInv ==
  \A p \in Packets : count[p] # 0 => count[p] = 1 /\ Protected(p)

\* A worker uses the session in the table; the registry has no workers.
HoldInv ==
  \A s \in Sessions :
    /\ holding[s] = "live" => s \in table
    /\ host = "xray" => queue[s] = <<>> /\ holding[s] = "none"

AdmissionInv == UdpTypes /\ HoldInv /\ AdmitInv /\ OnceInv

-----------------------------------------------------------------------------
(* frame.ReplayWindow *)

\* Numbers less than Size apart have different slots.
LEMMA SlotsDiffer ==
  ASSUME NEW a \in Nat, NEW b \in Nat, a < b, b - a < Size
  PROVE  a % Size # b % Size
<1> DEFINE p == a \div Size
           q == b \div Size
<1>1. /\ p \in Int /\ q \in Int
      /\ a % Size \in 0..(Size - 1) /\ b % Size \in 0..(Size - 1)
      /\ a = Size * p + (a % Size) /\ b = Size * q + (b % Size)
  BY SMT, SizeAssumption
<1>2. SUFFICES ASSUME a % Size = b % Size
              PROVE  FALSE
  OBVIOUS
<1> HIDE DEF p, q
<1>3. Size * q - Size * p = b - a
  BY SMT, <1>1, <1>2, SizeAssumption
<1>4. CASE q <= p
  <2>1. Size * q <= Size * p
    BY SMT, <1>1, <1>4, SizeAssumption
  <2> QED BY SMT, <1>1, <1>3, <2>1, SizeAssumption
<1>5. CASE q >= p + 1
  <2>1. Size * q >= Size * (p + 1)
    BY SMT, <1>1, <1>5, SizeAssumption
  <2>2. Size * (p + 1) = Size * p + Size
    BY SMT, <1>1, SizeAssumption
  <2> QED BY SMT, <1>1, <1>3, <2>1, <2>2, SizeAssumption
<1> QED BY SMT, <1>1, <1>4, <1>5

\* An advance clears no slot of a number that stays in the window.
LEMMA KeptSlots ==
  ASSUME NEW w \in Windows, NEW seq \in Nat, NEW q \in Nat,
         q <= w.highest, seq > w.highest, seq - q < Size,
         q % Size \in w.bits
  PROVE  q % Size \in Kept(w, seq)
<1> DEFINE h == w.highest
<1>1. h \in Nat
  BY DEF Windows
<1>2. ~(seq - h >= Size)
  BY SMT, <1>1, SizeAssumption
<1>3. Kept(w, seq) = w.bits \ Slots(h + 1, (seq - h) - 1)
  BY <1>2 DEF Kept
<1>4. SUFFICES ASSUME NEW r \in (h + 1)..((h + 1) + ((seq - h) - 1) - 1)
               PROVE  q % Size # r % Size
  BY <1>3 DEF Slots
<1>5. r \in Nat /\ q < r /\ r - q < Size
  BY SMTT(60), <1>1, <1>4, SizeAssumption
<1> QED
  BY <1>5, SlotsDiffer

\* A window refuses what it accepted, and goes on refusing it.
LEMMA AcceptSpends ==
  ASSUME NEW w \in Windows, NEW seq \in Nat
  PROVE  /\ Accept(w, seq) \in Windows
         /\ Accepts(w, seq) => Spent(Accept(w, seq), seq)
         /\ \A q \in Nat : Spent(w, q) => Spent(Accept(w, seq), q)
         /\ Spent(w, seq) => ~Accepts(w, seq)
<1>1. seq % Size \in 0..(Size - 1)
  BY SMT, SizeAssumption
<1>2. w.highest \in Nat /\ w.initialized \in BOOLEAN
      /\ w.bits \subseteq 0..(Size - 1)
  BY DEF Windows
<1>3. Spent(w, seq) => ~Accepts(w, seq)
  BY SMT, <1>2, SizeAssumption DEF Spent, Accepts, Newer, InWindow
<1>4. CASE ~w.initialized
  <2>1. Accept(w, seq) = Marked(seq, w.bits)
    BY <1>4 DEF Accept
  <2>2. Marked(seq, w.bits) \in Windows /\ Spent(Marked(seq, w.bits), seq)
    BY SMT, <1>1, <1>2 DEF Marked, Windows, Spent
  <2> QED
    BY <1>3, <1>4, <2>1, <2>2 DEF Spent
<1>5. CASE w.initialized /\ seq > w.highest
  <2> DEFINE v == Marked(seq, Kept(w, seq))
  <2>1. Accept(w, seq) = v
    BY <1>5 DEF Accept
  <2>2. Kept(w, seq) \subseteq w.bits
    BY DEF Kept
  <2>3. v \in Windows /\ Spent(v, seq)
    BY SMT, <1>1, <1>2, <2>2 DEF Marked, Windows, Spent
  <2>4. ASSUME NEW q \in Nat, Spent(w, q)
        PROVE  Spent(v, q)
    <3>1. q <= w.highest /\ q <= seq
      BY SMT, <1>2, <1>5, <2>4 DEF Spent
    <3>2. CASE seq - q >= Size
      BY <3>1, <3>2 DEF Spent, Marked
    <3>3. CASE seq - q < Size
      <4>1. ~(w.highest - q >= Size)
        BY SMT, <1>2, <1>5, <3>3, SizeAssumption
      <4>2. q % Size \in w.bits
        BY <2>4, <4>1 DEF Spent
      <4>3. q % Size \in Kept(w, seq)
        BY <1>5, <3>1, <3>3, <4>2, KeptSlots
      <4> QED
        BY <3>1, <4>3 DEF Spent, Marked
    <3> QED
      BY SMT, <3>2, <3>3, SizeAssumption
  <2> QED
    BY <1>3, <2>1, <2>3, <2>4
<1>6. CASE w.initialized /\ ~(seq > w.highest) /\ InWindow(w, seq)
  <2> DEFINE v == [w EXCEPT !.bits = @ \cup {seq % Size}]
  <2>1. Accept(w, seq) = v
    BY <1>6 DEF Accept
  <2>2. v \in Windows /\ v.highest = w.highest /\ v.initialized
        /\ v.bits = w.bits \cup {seq % Size}
    BY <1>1, <1>6 DEF Windows
  <2> HIDE DEF v
  <2>3. seq <= w.highest
    BY SMT, <1>2, <1>6
  <2> QED
    BY <1>3, <2>1, <2>2, <2>3 DEF Spent
<1>7. CASE w.initialized /\ ~(seq > w.highest) /\ ~InWindow(w, seq)
  BY <1>3, <1>7 DEF Accept, Accepts, Newer
<1> QED
  BY <1>4, <1>5, <1>6, <1>7

-----------------------------------------------------------------------------
(* Buckets *)

\* A timestamp is in its bucket.
LEMMA BucketFacts ==
  ASSUME NEW p \in Packets
  PROVE  /\ p.s \in Sessions /\ p.seq \in Nat /\ p.ts \in Nat
         /\ BucketOf(p) \in Buckets
         /\ BucketOf(p) * Bucket <= p.ts
         /\ p.ts < (BucketOf(p) + 1) * Bucket
<1>1. p.s \in Sessions /\ p.seq \in Seqs /\ p.ts \in Times
  BY DEF Packets
<1>2. p.seq \in Nat /\ p.ts \in Nat
  BY SMT, <1>1, UdpReplayAssumption DEF Seqs, Times
<1>3. BucketOf(p) \in Buckets
  BY <1>1 DEF Buckets, BucketOf
<1> DEFINE b == p.ts \div Bucket
           m == p.ts % Bucket
<1>4. /\ b \in Nat /\ m \in 0..(Bucket - 1)
      /\ p.ts = Bucket * b + m
  BY SMT, <1>2, UdpReplayAssumption
<1> HIDE DEF b, m
<1>5. b * Bucket = Bucket * b /\ (b + 1) * Bucket = Bucket * b + Bucket
  BY SMT, <1>4, UdpReplayAssumption
<1>6. b * Bucket <= p.ts /\ p.ts < (b + 1) * Bucket
  BY SMT, <1>2, <1>4, <1>5, UdpReplayAssumption
<1> QED
  BY <1>1, <1>2, <1>3, <1>6 DEF b, BucketOf

\* Buckets are numbered from 0.
LEMMA BucketNat ==
  ASSUME NEW b \in Buckets
  PROVE  /\ b \in Nat /\ b * Bucket \in Nat
         /\ (b + 1) * Bucket = b * Bucket + Bucket
<1>1. PICK t \in Times : b = t \div Bucket
  BY DEF Buckets
<1>2. b \in Nat
  BY SMT, <1>1, UdpReplayAssumption DEF Times
<1> QED
  BY SMT, <1>2, UdpReplayAssumption

\* A datagram is stale when the record of its bucket expires.
LEMMA ExpiredStale ==
  ASSUME UdpTypes, AdmitInv, NEW p \in Packets,
         admitted[p.s][BucketOf(p)] # 0, admitted[p.s][BucketOf(p)] <= time
  PROVE  Stale(p)
<1> DEFINE e == admitted[p.s][BucketOf(p)]
           top == (BucketOf(p) + 1) * Bucket
<1>1. p.s \in Sessions /\ p.ts \in Nat /\ BucketOf(p) \in Buckets
      /\ p.ts < top
  BY BucketFacts
<1>2. e \in Nat /\ time \in Nat
  BY <1>1 DEF UdpTypes
<1>3. e >= top + Skew
  BY <1>1 DEF AdmitInv
<1>4. top \in Nat
  BY SMT, <1>1, BucketNat, UdpReplayAssumption
<1> HIDE DEF e, top
<1>5. time - p.ts > Skew
  BY SMT, <1>1, <1>2, <1>3, <1>4, UdpReplayAssumption DEF e
<1> QED
  BY <1>5 DEF Stale

-----------------------------------------------------------------------------
(* The decision *)

Outcome(s, p, healthy) ==
  AcceptAuthenticated(s, p, buckets[s], window[s], healthy)

\* What AcceptAuthenticated returns.  A datagram is accepted while it is fresh,
\* by a session that has its bucket or obtains it from a cache where the bucket
\* has no record, or an expired one; other buckets are only purged.
Settled(s, p, r) ==
  /\ r.ok \in BOOLEAN /\ r.w \in Windows
  /\ r.known \in [Buckets -> Nat] /\ r.records \in [Buckets -> Nat]
  /\ \A q \in Nat : Spent(window[s], q) => Spent(r.w, q)
  /\ r.ok => /\ InSkew(p.ts, time) /\ Accepts(window[s], p.seq)
             /\ Spent(r.w, p.seq)
  /\ r.ok /\ durable =>
       \/ buckets[s][BucketOf(p)] # 0
       \/ /\ admitted[s][BucketOf(p)] <= time
          /\ r.records[BucketOf(p)] # 0
  /\ \A x \in Buckets : r.records[x] # admitted[s][x] =>
       /\ x = BucketOf(p) /\ InSkew(p.ts, time)
       /\ r.records[x] = time + CacheWindow
  /\ \A x \in Buckets : r.known[x] # 0 /\ buckets[s][x] = 0 =>
       admitted[s][x] <= time /\ r.records[x] # 0

\* AcceptAuthenticated returns such an outcome.
LEMMA OutcomeFacts ==
  ASSUME UdpTypes, NEW s \in Sessions, NEW p \in Packets,
         NEW healthy \in BOOLEAN, NEW r, r = Outcome(s, p, healthy)
  PROVE  Settled(s, p, r)
<1> DEFINE b == BucketOf(p)
           known == buckets[s]
           live == LiveBuckets(known, time)
           new == durable /\ live[b] = 0
           pass == ~new \/ CacheAccepts(s, b, time, healthy)
           e == time + CacheWindow
<1>1. p.seq \in Nat /\ b \in Buckets
  BY BucketFacts
<1>2. /\ window[s] \in Windows /\ known \in [Buckets -> Nat]
      /\ admitted[s] \in [Buckets -> Nat] /\ time \in Nat
      /\ durable \in BOOLEAN
  BY DEF UdpTypes
<1>3. e \in Nat /\ e # 0
  BY SMT, <1>2, UdpReplayAssumption
<1>4. live \in [Buckets -> Nat]
      /\ \A x \in Buckets : live[x] # 0 => known[x] # 0
  BY <1>2 DEF LiveBuckets
<1>5. CASE ~InSkew(p.ts, time)
  <2> DEFINE no == FALSE
  <2>1. r = [ok |-> no, w |-> window[s], known |-> known,
             records |-> admitted[s]]
    BY <1>5 DEF Outcome, AcceptAuthenticated
  <2> HIDE DEF no
  <2>2. /\ r.ok = no /\ r.w = window[s] /\ r.known = known
        /\ r.records = admitted[s]
    BY SMT, <2>1
  <2> QED
    BY <1>2, <1>5, <2>2 DEF no, Settled
<1>6. CASE InSkew(p.ts, time)
  <2> DEFINE ok == pass /\ Accepts(window[s], p.seq)
             w == IF pass THEN Accept(window[s], p.seq) ELSE window[s]
             after == IF ~durable THEN known
                      ELSE IF new /\ pass THEN [live EXCEPT ![b] = e] ELSE live
             records == IF new /\ pass THEN [admitted[s] EXCEPT ![b] = e]
                        ELSE admitted[s]
  <2>1. r = [ok |-> ok, w |-> w, known |-> after, records |-> records]
    BY <1>6 DEF Outcome, AcceptAuthenticated, BucketOf
  <2> HIDE DEF live, e, known, ok, w, after, records
  <2>2. r.ok = ok /\ r.w = w /\ r.known = after /\ r.records = records
    BY SMT, <2>1
  <2>3. /\ r.ok = (pass /\ Accepts(window[s], p.seq))
        /\ r.w = IF pass THEN Accept(window[s], p.seq) ELSE window[s]
        /\ r.known = IF ~durable THEN known
                     ELSE IF new /\ pass THEN [live EXCEPT ![b] = e] ELSE live
        /\ r.records = IF new /\ pass THEN [admitted[s] EXCEPT ![b] = e]
                       ELSE admitted[s]
    BY <2>2 DEF ok, w, after, records
  <2>4. /\ Accept(window[s], p.seq) \in Windows
        /\ Accepts(window[s], p.seq) => Spent(Accept(window[s], p.seq), p.seq)
        /\ \A q \in Nat : Spent(window[s], q)
             => Spent(Accept(window[s], p.seq), q)
    BY <1>1, <1>2, AcceptSpends
  <2>5. /\ r.w \in Windows
        /\ \A q \in Nat : Spent(window[s], q) => Spent(r.w, q)
        /\ r.ok => Accepts(window[s], p.seq) /\ Spent(r.w, p.seq)
    BY <1>2, <2>3, <2>4
  <2>6. r.ok \in BOOLEAN /\ (r.ok => pass)
    BY <2>3
  <2>7. new /\ pass => admitted[s][b] <= time
    BY DEF CacheAccepts
  <2>8. r.known \in [Buckets -> Nat] /\ r.records \in [Buckets -> Nat]
    BY <1>1, <1>2, <1>3, <1>4, <2>3 DEF known
  <2>9. ASSUME NEW x \in Buckets, r.records[x] # admitted[s][x]
        PROVE  x = b /\ r.records[x] = e
    BY <1>1, <1>2, <2>3, <2>9
  <2>10. ASSUME NEW x \in Buckets, r.known[x] # 0, known[x] = 0
        PROVE  admitted[s][x] <= time /\ r.records[x] # 0
    BY <1>1, <1>2, <1>3, <1>4, <2>3, <2>7, <2>10
  <2>11. r.ok /\ durable =>
           known[b] # 0 \/ (admitted[s][b] <= time /\ r.records[b] # 0)
    BY <1>1, <1>2, <1>3, <1>4, <2>3, <2>6, <2>7
  <2> QED
    BY <1>6, <2>5, <2>6, <2>8, <2>9, <2>10, <2>11 DEF known, e, Settled
<1> QED
  BY <1>5, <1>6

\* A datagram that is accepted was not forwarded before.
LEMMA AcceptedFirst ==
  ASSUME AdmissionInv, NEW p \in Packets, NEW healthy \in BOOLEAN,
         Outcome(p.s, p, healthy).ok
  PROVE  count[p] = 0
<1> DEFINE s == p.s
           b == BucketOf(p)
           r == Outcome(s, p, healthy)
<1>1. UdpTypes /\ AdmitInv /\ OnceInv
  BY DEF AdmissionInv
<1>2. s \in Sessions /\ p.seq \in Nat /\ p.ts \in Nat
  BY BucketFacts
<1>3. Settled(s, p, r)
  BY <1>1, <1>2, OutcomeFacts
<1>4. /\ InSkew(p.ts, time) /\ Accepts(window[s], p.seq)
      /\ durable => buckets[s][b] # 0 \/ admitted[s][b] <= time
  BY <1>3 DEF Settled
<1>5. time \in Nat /\ time - p.ts <= Skew
  BY <1>1, <1>4 DEF UdpTypes, InSkew
<1>6. ~Stale(p)
  BY SMT, <1>2, <1>5, UdpReplayAssumption DEF Stale
<1>7. window[s] \in Windows
  BY <1>1, <1>2 DEF UdpTypes
<1>8. ~Spent(window[s], p.seq)
  BY <1>2, <1>4, <1>7, AcceptSpends
<1>9. ~(durable /\ admitted[s][b] # 0 /\
        (buckets[s][b] # 0 => Spent(window[s], p.seq)))
  BY <1>1, <1>4, <1>6, <1>8, ExpiredStale
<1>10. ~Protected(p)
  BY <1>6, <1>8, <1>9 DEF Protected
<1> QED
  BY <1>1, <1>10 DEF OnceInv

\* A record starts with its bucket still to be used up: the skew and the length
\* of a bucket fit into the cache's window.
LEMMA RecordLasts ==
  ASSUME UdpTypes, NEW p \in Packets, InSkew(p.ts, time)
  PROVE  time + CacheWindow >= (BucketOf(p) + 1) * Bucket + Skew
<1> DEFINE low == BucketOf(p) * Bucket
<1>1. p.ts \in Nat /\ low <= p.ts /\ BucketOf(p) \in Buckets
  BY BucketFacts
<1>2. low \in Nat /\ (BucketOf(p) + 1) * Bucket = low + Bucket
  BY <1>1, BucketNat
<1> HIDE DEF low
<1>3. time + CacheWindow >= (low + Bucket) + Skew
  BY SMT, <1>1, <1>2, UdpReplayAssumption DEF InSkew, UdpTypes
<1> QED
  BY <1>2, <1>3

\* The decision about a datagram keeps the invariant.
LEMMA DecideKeeps ==
  ASSUME AdmissionInv, NEW p \in Packets, NEW healthy \in BOOLEAN,
         Decide(p.s, p, Outcome(p.s, p, healthy), last[p.s]),
         UNCHANGED <<time, durable>>
  PROVE  /\ last' \in [Sessions -> Nat]
         /\ \A s \in Sessions : last'[s] <= time'
         /\ window' \in [Sessions -> Windows]
         /\ buckets' \in [Sessions -> [Buckets -> Nat]]
         /\ admitted' \in [Sessions -> [Buckets -> Nat]]
         /\ count' \in [Packets -> Nat]
         /\ AdmitInv' /\ OnceInv'
<1>1. UdpTypes /\ AdmitInv /\ OnceInv
  BY DEF AdmissionInv
<1>2. p.s \in Sessions /\ p.ts \in Nat /\ BucketOf(p) \in Buckets
  BY BucketFacts
<1>3. PICK r : r = Outcome(p.s, p, healthy)
  OBVIOUS
<1>4. /\ window' = [window EXCEPT ![p.s] = r.w]
      /\ buckets' = [buckets EXCEPT ![p.s] = r.known]
      /\ admitted' = [admitted EXCEPT ![p.s] = r.records]
      /\ last' = [last EXCEPT ![p.s] = IF r.ok THEN time ELSE last[p.s]]
      /\ count' = [count EXCEPT ![p] = IF r.ok THEN @ + 1 ELSE @]
  BY <1>3 DEF Decide
<1>5. Settled(p.s, p, r)
  BY <1>1, <1>2, <1>3, OutcomeFacts
<1>6. /\ r.ok \in BOOLEAN /\ r.w \in Windows
      /\ r.known \in [Buckets -> Nat] /\ r.records \in [Buckets -> Nat]
      /\ \A q \in Nat : Spent(window[p.s], q) => Spent(r.w, q)
      /\ r.ok => InSkew(p.ts, time) /\ Spent(r.w, p.seq)
      /\ r.ok /\ durable =>
           buckets[p.s][BucketOf(p)] # 0 \/ r.records[BucketOf(p)] # 0
  BY <1>5 DEF Settled
<1>7. \A x \in Buckets : r.records[x] # admitted[p.s][x] =>
        /\ x = BucketOf(p) /\ InSkew(p.ts, time)
        /\ r.records[x] = time + CacheWindow
  BY <1>5 DEF Settled
<1>8. \A x \in Buckets : r.known[x] # 0 /\ buckets[p.s][x] = 0 =>
        admitted[p.s][x] <= time /\ r.records[x] # 0
  BY <1>5 DEF Settled
<1>9. /\ last' \in [Sessions -> Nat] /\ window' \in [Sessions -> Windows]
      /\ buckets' \in [Sessions -> [Buckets -> Nat]]
      /\ admitted' \in [Sessions -> [Buckets -> Nat]]
  <2>1. /\ last \in [Sessions -> Nat] /\ time \in Nat
        /\ window \in [Sessions -> Windows]
        /\ buckets \in [Sessions -> [Buckets -> Nat]]
        /\ admitted \in [Sessions -> [Buckets -> Nat]]
    BY <1>1 DEF UdpTypes
  <2>2. last' \in [Sessions -> Nat]
    BY <1>2, <1>4, <1>6, <2>1
  <2>3. window' \in [Sessions -> Windows]
    BY <1>2, <1>4, <1>6, <2>1
  <2> QED
    BY <1>2, <1>4, <1>6, <2>1, <2>2, <2>3
<1>10. \A s \in Sessions : last[s] <= last'[s] /\ last'[s] <= time'
  <2>1. /\ last \in [Sessions -> Nat] /\ time \in Nat
        /\ \A s \in Sessions : last[s] <= time
    BY <1>1 DEF UdpTypes
  <2>2. /\ last' = [last EXCEPT ![p.s] = IF r.ok THEN time ELSE last[p.s]]
        /\ time' = time
    BY <1>4
  <2> QED
    BY SMT, <1>2, <2>1, <2>2
<1>11. count[p] \in Nat /\ count[p] + 1 \in Nat
  <2>1. count \in [Packets -> Nat]
    BY <1>1 DEF UdpTypes
  <2> QED
    BY SMT, <2>1
<1>12. count' \in [Packets -> Nat]
  BY <1>1, <1>4, <1>11 DEF UdpTypes
<1>13. /\ window'[p.s] = r.w /\ buckets'[p.s] = r.known
       /\ admitted'[p.s] = r.records
       /\ \A s \in Sessions \ {p.s} :
            /\ window'[s] = window[s] /\ buckets'[s] = buckets[s]
            /\ admitted'[s] = admitted[s] /\ last'[s] = last[s]
  BY ZenonT(30), <1>1, <1>2, <1>4 DEF UdpTypes
<1>14. time + CacheWindow # 0
  BY SMT, <1>1, UdpReplayAssumption DEF UdpTypes
<1>15. \A x \in Buckets : admitted[p.s][x] # 0 => r.records[x] # 0
  BY <1>7, <1>14
<1>16. AdmitInv'
  <2> SUFFICES ASSUME NEW s \in Sessions, NEW b \in Buckets
               PROVE  /\ admitted'[s][b] # 0 =>
                           admitted'[s][b] >= (b + 1) * Bucket + Skew
                      /\ buckets'[s][b] # 0 => admitted'[s][b] # 0
    BY DEF AdmitInv
  <2>1. CASE s # p.s
    BY <1>1, <1>13, <2>1 DEF AdmitInv
  <2>2. CASE s = p.s
    <3>1. r.records[b] # admitted[s][b] =>
            r.records[b] >= (b + 1) * Bucket + Skew
      BY <1>1, <1>7, <2>2, RecordLasts
    <3>2. r.known[b] # 0 => r.records[b] # 0
      BY <1>1, <1>8, <1>15, <2>2 DEF AdmitInv
    <3> QED
      BY <1>1, <1>13, <2>2, <3>1, <3>2 DEF AdmitInv
  <2> QED
    BY <2>1, <2>2
<1>17. OnceInv'
  <2> SUFFICES ASSUME NEW q \in Packets, count'[q] # 0
               PROVE  count'[q] = 1 /\ Protected(q)'
    BY DEF OnceInv
  <2> DEFINE b == BucketOf(q)
  <2>1. q.s \in Sessions /\ q.seq \in Nat /\ q.ts \in Nat /\ b \in Buckets
    BY BucketFacts
  <2>2. CASE q = p /\ r.ok
    <3>1. count'[q] = 1
      <4>1. count[p] = 0
        BY <1>3, <2>2, AcceptedFirst
      <4>2. count'[p] = count[p] + 1
        BY <1>1, <1>4, <2>2 DEF UdpTypes
      <4> QED
        BY SMT, <2>2, <4>1, <4>2
    <3>2. Spent(window'[q.s], q.seq)
      BY <1>6, <1>13, <2>2
    <3>3. durable => admitted'[q.s][b] # 0
      BY ZenonT(30), <1>1, <1>2, <1>6, <1>13, <1>15, <2>2 DEF AdmitInv
    <3>4. q.ts <= last'[q.s] + Skew
      <4>1. last'[q.s] = time
        BY <1>1, <1>2, <1>4, <2>2 DEF UdpTypes
      <4> QED
        BY SMT, <1>1, <1>6, <2>1, <2>2, <4>1, UdpReplayAssumption
        DEF InSkew, UdpTypes
    <3> QED
      BY <3>1, <3>2, <3>3, <3>4 DEF Protected, BucketOf
  <2>3. CASE ~(q = p /\ r.ok)
    <3>1. count'[q] = count[q]
      BY <1>1, <1>4, <2>3 DEF UdpTypes
    <3>2. count[q] = 1 /\ Protected(q)
      BY <1>1, <3>1 DEF OnceInv
    <3>3. CASE q.s # p.s
      BY <1>13, <2>1, <3>1, <3>2, <3>3 DEF Protected, Stale, BucketOf
    <3>4. CASE q.s = p.s
      <4>1. Spent(window[q.s], q.seq) => Spent(window'[q.s], q.seq)
        BY <1>6, <1>13, <2>1, <3>4
      <4>2. CASE Stale(q)
        BY <3>1, <3>2, <4>2 DEF Protected, Stale
      <4>3. CASE durable /\ ~Stale(q)
        <5>1. /\ admitted[q.s][b] # 0
              /\ buckets[q.s][b] # 0 => Spent(window[q.s], q.seq)
          BY <3>2, <4>3 DEF Protected
        <5>2. admitted'[q.s][b] # 0
          BY <1>13, <1>15, <2>1, <3>4, <5>1
        <5>3. ~(admitted[q.s][b] <= time)
          BY <1>1, <4>3, <5>1, ExpiredStale
        <5>4. buckets'[q.s][b] # 0 => buckets[q.s][b] # 0
          BY <1>8, <1>13, <2>1, <3>4, <5>3
        <5> QED
          BY <3>1, <3>2, <4>1, <4>3, <5>1, <5>2, <5>4 DEF Protected, BucketOf
      <4>4. CASE ~durable /\ ~Stale(q)
        <5>1. Spent(window[q.s], q.seq) /\ q.ts <= last[q.s] + Skew
          BY ZenonT(30), <3>2, <4>4 DEF Protected
        <5>2. q.ts <= last'[q.s] + Skew
          <6>1. /\ last[q.s] \in Nat /\ last'[q.s] \in Nat
                /\ last[q.s] <= last'[q.s]
            BY <1>1, <1>9, <1>10, <2>1 DEF UdpTypes
          <6> QED
            BY SMT, <2>1, <5>1, <6>1, UdpReplayAssumption
        <5> QED
          BY <3>1, <3>2, <4>1, <4>4, <5>1, <5>2 DEF Protected
      <4> QED
        BY <4>2, <4>3, <4>4
    <3> QED
      BY <3>3, <3>4
  <2> QED
    BY <2>2, <2>3
<1> QED
  BY <1>9, <1>10, <1>12, <1>16, <1>17

-----------------------------------------------------------------------------
(* The other steps *)

\* Time passes and sessions are used: what protects a datagram stays.
LEMMA FrameKeeps ==
  ASSUME AdmissionInv, UNCHANGED <<durable, window, buckets, admitted, count>>,
         time' \in Nat, time <= time', last' \in [Sessions -> Nat],
         \A s \in Sessions : last[s] <= last'[s]
  PROVE  AdmitInv' /\ OnceInv'
<1>1. UdpTypes /\ AdmitInv /\ OnceInv
  BY DEF AdmissionInv
<1>2. AdmitInv'
  BY <1>1 DEF AdmitInv
<1>3. OnceInv'
  <2> SUFFICES ASSUME NEW p \in Packets, count[p] # 0
               PROVE  count[p] = 1 /\ Protected(p)'
    BY DEF OnceInv
  <2>1. count[p] = 1 /\ Protected(p)
    BY <1>1 DEF OnceInv
  <2>2. /\ p.s \in Sessions /\ p.ts \in Nat /\ time \in Nat
        /\ last[p.s] \in Nat /\ last'[p.s] \in Nat /\ last[p.s] <= last'[p.s]
    BY ZenonT(30), <1>1, BucketFacts DEF UdpTypes
  <2>3. Stale(p) => Stale(p)'
    BY SMT, <2>2, UdpReplayAssumption DEF Stale
  <2>4. p.ts <= last[p.s] + Skew => p.ts <= last'[p.s] + Skew
    BY SMT, <2>2, UdpReplayAssumption
  <2> QED
    BY <2>1, <2>3, <2>4 DEF Protected, BucketOf
<1> QED
  BY <1>2, <1>3

\* A new window is a window.
LEMMA FreshWindow == NewWindow \in Windows
BY SMT DEF NewWindow, Windows

\* A session is forgotten when the timestamps it accepted are stale; with a
\* cache their buckets stay on record.
LEMMA ForgetKeeps ==
  ASSUME AdmissionInv, NEW s \in Sessions, Forget(s), time - last[s] > 2 * Skew,
         UNCHANGED <<time, durable, admitted, count>>
  PROVE  /\ last' \in [Sessions -> Nat]
         /\ \A t \in Sessions : last'[t] <= time'
         /\ window' \in [Sessions -> Windows]
         /\ buckets' \in [Sessions -> [Buckets -> Nat]]
         /\ AdmitInv' /\ OnceInv'
<1>1. UdpTypes /\ AdmitInv /\ OnceInv
  BY DEF AdmissionInv
<1> DEFINE none == [b \in Buckets |-> 0]
<1>2. /\ window' = [window EXCEPT ![s] = NewWindow]
      /\ buckets' = [buckets EXCEPT ![s] = none]
      /\ last' = [last EXCEPT ![s] = 0]
  BY DEF Forget
<1>3. none \in [Buckets -> Nat] /\ \A b \in Buckets : none[b] = 0
  BY SMT
<1> HIDE DEF none
<1>4. 0 \in Nat /\ 0 <= time
  BY SMT, <1>1 DEF UdpTypes
<1>5. /\ last' \in [Sessions -> Nat]
      /\ window' \in [Sessions -> Windows]
      /\ buckets' \in [Sessions -> [Buckets -> Nat]]
  BY <1>1, <1>2, <1>3, <1>4, FreshWindow DEF UdpTypes
<1>6. /\ buckets'[s] = none /\ last'[s] = 0
      /\ \A t \in Sessions \ {s} :
           /\ window'[t] = window[t] /\ buckets'[t] = buckets[t]
           /\ last'[t] = last[t]
  BY <1>1, <1>2 DEF UdpTypes
<1>7. \A t \in Sessions : last'[t] <= time'
  BY <1>1, <1>4, <1>6 DEF UdpTypes
<1>8. AdmitInv'
  <2>1. \A t \in Sessions, b \in Buckets :
          buckets'[t][b] # 0 => buckets[t][b] # 0
    BY <1>3, <1>6
  <2> QED
    BY <1>1, <2>1 DEF AdmitInv
<1>9. OnceInv'
  <2> SUFFICES ASSUME NEW p \in Packets, count[p] # 0
               PROVE  count[p] = 1 /\ Protected(p)'
    BY DEF OnceInv
  <2>1. count[p] = 1 /\ Protected(p)
    BY <1>1 DEF OnceInv
  <2>2. p.s \in Sessions /\ p.ts \in Nat /\ BucketOf(p) \in Buckets
    BY BucketFacts
  <2>3. Stale(p) => Stale(p)'
    BY DEF Stale
  <2>4. CASE p.s # s
    BY <1>6, <2>1, <2>2, <2>3, <2>4 DEF Protected, BucketOf
  <2>5. CASE p.s = s
    <3>1. last[s] \in Nat /\ time \in Nat
      BY <1>1 DEF UdpTypes
    <3>2. p.ts <= last[s] + Skew => Stale(p)
      BY SMT, <2>2, <3>1, UdpReplayAssumption DEF Stale
    <3>3. buckets'[s][BucketOf(p)] = 0
      BY <1>3, <1>6, <2>2
    <3> QED
      BY <2>1, <2>3, <2>5, <3>2, <3>3 DEF Protected, BucketOf
  <2> QED
    BY <2>4, <2>5
<1> QED
  BY <1>5, <1>7, <1>8, <1>9

\* A restart clears the sessions; only a cache's promise outlives it.
LEMMA RestartKeeps ==
  ASSUME AdmissionInv, Restart
  PROVE  AdmissionInv'
<1>1. UdpTypes /\ HoldInv /\ AdmitInv /\ OnceInv
  BY DEF AdmissionInv
<1> DEFINE none == [b \in Buckets |-> 0]
<1>2. /\ queue' = [s \in Sessions |-> <<>>]
      /\ holding' = [s \in Sessions |-> "none"]
      /\ table' = {} /\ last' = [s \in Sessions |-> 0]
      /\ window' = [s \in Sessions |-> NewWindow]
      /\ buckets' = [s \in Sessions |-> none]
      /\ count' = IF durable THEN count ELSE [p \in Packets |-> 0]
      /\ UNCHANGED <<time, host, durable, sent, admitted>>
  BY DEF Restart
<1>3. none \in [Buckets -> Nat] /\ \A b \in Buckets : none[b] = 0
  BY SMT
<1> HIDE DEF none
<1>4. /\ 0 \in Nat /\ 0 <= time /\ <<>> \in Seq(Packets)
      /\ \A i \in 1..Len(<<>>) : FALSE
  BY SMT, <1>1 DEF UdpTypes
<1>5. UdpTypes'
  <2>1. /\ queue' \in [Sessions -> Seq(Packets)]
        /\ \A s \in Sessions : \A i \in 1..Len(queue'[s]) : queue'[s][i].s = s
    BY <1>2, <1>4
  <2>2. /\ holding' \in [Sessions -> {"none", "new", "live", "closed"}]
        /\ table' \subseteq Sessions /\ last' \in [Sessions -> Nat]
        /\ \A s \in Sessions : last'[s] <= time'
        /\ window' \in [Sessions -> Windows]
        /\ buckets' \in [Sessions -> [Buckets -> Nat]]
    BY <1>2, <1>3, <1>4, FreshWindow
  <2>3. count' \in [Packets -> Nat]
    BY <1>1, <1>2, <1>4 DEF UdpTypes
  <2> QED
    BY <1>1, <1>2, <2>1, <2>2, <2>3 DEF UdpTypes
<1>6. HoldInv'
  BY <1>2 DEF HoldInv
<1>7. \A s \in Sessions, b \in Buckets : buckets'[s][b] = 0
  BY <1>2, <1>3
<1>8. AdmitInv'
  BY <1>1, <1>2, <1>7 DEF AdmitInv
<1>9. OnceInv'
  <2> SUFFICES ASSUME NEW p \in Packets, count'[p] # 0
               PROVE  count'[p] = 1 /\ Protected(p)'
    BY DEF OnceInv
  <2>1. durable /\ count' = count
    BY <1>2
  <2>2. count[p] = 1 /\ Protected(p)
    BY <1>1, <2>1 DEF OnceInv
  <2>3. p.s \in Sessions /\ BucketOf(p) \in Buckets
    BY BucketFacts
  <2>4. Stale(p) \/ admitted[p.s][BucketOf(p)] # 0
    BY <2>1, <2>2 DEF Protected
  <2>5. buckets'[p.s][BucketOf(p)] = 0
    BY <1>7, <2>3
  <2> QED
    BY <1>2, <2>1, <2>2, <2>4, <2>5 DEF Protected, Stale, BucketOf
<1> QED
  BY <1>5, <1>6, <1>8, <1>9 DEF AdmissionInv

-----------------------------------------------------------------------------
(* The invariant *)

\* The invariant holds in the beginning.
LEMMA InitIInv == AdmissionInit => AdmissionInv
<1> SUFFICES ASSUME AdmissionInit
             PROVE  AdmissionInv
  OBVIOUS
<1> DEFINE none == [b \in Buckets |-> 0]
<1>1. /\ time = Start
      /\ host \in {"plain", "xray"} /\ durable \in BOOLEAN
      /\ sent = {} /\ queue = [s \in Sessions |-> <<>>]
      /\ holding = [s \in Sessions |-> "none"]
      /\ table = {} /\ last = [s \in Sessions |-> 0]
      /\ window = [s \in Sessions |-> NewWindow]
      /\ buckets = [s \in Sessions |-> none]
      /\ admitted = [s \in Sessions |-> none]
      /\ count = [p \in Packets |-> 0]
  BY DEF AdmissionInit
<1>2. none \in [Buckets -> Nat] /\ \A b \in Buckets : none[b] = 0
  BY SMT
<1> HIDE DEF none
<1>3. /\ 0 \in Nat /\ <<>> \in Seq(Packets)
      /\ \A i \in 1..Len(<<>>) : FALSE
  BY SMT
<1>4. time \in Nat /\ 0 <= time
  BY SMT, <1>1, UdpReplayAssumption DEF Start
<1>5. sent \subseteq Packets
  BY <1>1
<1>6. /\ queue \in [Sessions -> Seq(Packets)]
      /\ \A s \in Sessions : \A i \in 1..Len(queue[s]) : queue[s][i].s = s
  BY <1>1, <1>3
<1>7. /\ holding \in [Sessions -> {"none", "new", "live", "closed"}]
      /\ table \subseteq Sessions /\ last \in [Sessions -> Nat]
      /\ \A s \in Sessions : last[s] <= time
  BY <1>1, <1>3, <1>4
<1>8. /\ window \in [Sessions -> Windows]
      /\ buckets \in [Sessions -> [Buckets -> Nat]]
      /\ admitted \in [Sessions -> [Buckets -> Nat]]
      /\ count \in [Packets -> Nat]
  BY <1>1, <1>2, <1>3, FreshWindow
<1>9. UdpTypes
  BY <1>1, <1>4, <1>5, <1>6, <1>7, <1>8 DEF UdpTypes
<1>10. HoldInv
  BY <1>1 DEF HoldInv
<1>11. AdmitInv
  BY <1>1, <1>2 DEF AdmitInv
<1>12. OnceInv
  BY <1>1 DEF OnceInv
<1> QED
  BY <1>9, <1>10, <1>11, <1>12 DEF AdmissionInv

\* The queue of a session holds its own datagrams when one is appended.
LEMMA QueueAppend ==
  ASSUME NEW s \in Sessions, NEW q \in Seq(Packets),
         \A i \in 1..Len(q) : q[i].s = s,
         NEW p \in Packets, p.s = s
  PROVE  /\ Append(q, p) \in Seq(Packets)
         /\ \A i \in 1..Len(Append(q, p)) : Append(q, p)[i].s = s
<1>1. /\ Append(q, p) \in Seq(Packets) /\ Len(q) \in Nat
      /\ Len(Append(q, p)) = Len(q) + 1
      /\ Append(q, p)[Len(q) + 1] = p
      /\ \A i \in 1..Len(q) : Append(q, p)[i] = q[i]
  BY SMT
<1>2. \A i \in 1..(Len(q) + 1) : i \in 1..Len(q) \/ i = Len(q) + 1
  BY SMT, <1>1
<1> QED
  BY <1>1, <1>2

\* The first datagram of a session's queue is the session's, and so are those
\* that remain when it is taken.
LEMMA QueueTail ==
  ASSUME NEW s \in Sessions, NEW q \in Seq(Packets),
         \A i \in 1..Len(q) : q[i].s = s, q # <<>>
  PROVE  /\ Head(q) \in Packets /\ Head(q).s = s
         /\ Tail(q) \in Seq(Packets)
         /\ \A i \in 1..Len(Tail(q)) : Tail(q)[i].s = s
<1>1. Head(q) = q[1]
  BY SMT
<1>2. /\ Head(q) \in Packets
      /\ Tail(q) \in Seq(Packets) /\ Len(Tail(q)) = Len(q) - 1
      /\ \A i \in 1..Len(Tail(q)) : Tail(q)[i] = q[i + 1]
  BY SMT
<1>3. Len(q) \in Nat /\ Len(q) # 0
  BY SMT
<1>4. 1 \in 1..Len(q)
  BY SMT, <1>3
<1>5. \A i \in 1..(Len(q) - 1) : i + 1 \in 1..Len(q)
  BY SMT, <1>3
<1> QED
  BY <1>1, <1>2, <1>4, <1>5

\* A datagram is sent.
LEMMA EncodeKeeps ==
  ASSUME AdmissionInv, NEW s \in Sessions, NEW ts \in Times, EncodePacket(s, ts)
  PROVE  sent' \subseteq Packets
<1>1. sent \subseteq Packets
  BY DEF AdmissionInv, UdpTypes
<1>2. PICK n \in Seqs : sent' = sent \cup {[s |-> s, seq |-> n, ts |-> ts]}
  BY DEF EncodePacket
<1>3. [s |-> s, seq |-> n, ts |-> ts] \in Packets
  BY DEF Packets
<1> QED
  BY <1>1, <1>2, <1>3

\* Every step keeps the invariant.
LEMMA StepIInv == AdmissionInv /\ [AdmissionNext]_admissionVars => AdmissionInv'
<1> SUFFICES ASSUME AdmissionInv, [AdmissionNext]_admissionVars
             PROVE  AdmissionInv'
  OBVIOUS
<1>1. UdpTypes /\ HoldInv
  BY DEF AdmissionInv
<1>2. /\ time \in Nat /\ time <= time /\ last \in [Sessions -> Nat]
      /\ \A s \in Sessions : last[s] <= last[s]
  BY SMT, <1>1 DEF UdpTypes
<1>3. /\ \A s \in Sessions : queue[s] \in Seq(Packets)
      /\ \A s \in Sessions : \A i \in 1..Len(queue[s]) : queue[s][i].s = s
  BY <1>1 DEF UdpTypes
<1>4. \A p \in sent : p \in Packets /\ p.s \in Sessions
  BY <1>1, BucketFacts DEF UdpTypes
<1>5. CASE UNCHANGED admissionVars
  <2>1. AdmitInv' /\ OnceInv'
    BY <1>2, <1>5, FrameKeeps DEF admissionVars, serving
  <2> QED
    BY <1>1, <1>5, <2>1
    DEF AdmissionInv, UdpTypes, HoldInv, admissionVars, serving
<1>6. CASE TimePasses
  <2>1. time' \in Nat /\ time <= time'
    BY SMT, <1>2, <1>6 DEF TimePasses
  <2>2. \A s \in Sessions : last[s] <= time'
    BY SMT, <1>1, <1>2, <1>6 DEF TimePasses, UdpTypes
  <2>3. AdmitInv' /\ OnceInv'
    BY <1>2, <1>6, <2>1, FrameKeeps DEF TimePasses, serving
  <2> QED
    BY <1>1, <1>6, <2>1, <2>2, <2>3
    DEF AdmissionInv, UdpTypes, HoldInv, TimePasses, serving
<1>7. ASSUME NEW s \in Sessions, NEW ts \in Times, EncodePacket(s, ts)
      PROVE  AdmissionInv'
  <2>1. UNCHANGED <<time, host, durable, serving, admitted, count>>
    BY <1>7 DEF EncodePacket
  <2>2. AdmitInv' /\ OnceInv'
    BY <1>2, <2>1, FrameKeeps DEF serving
  <2>3. sent' \subseteq Packets
    BY <1>7, EncodeKeeps
  <2> QED
    BY <1>1, <2>1, <2>2, <2>3 DEF AdmissionInv, UdpTypes, HoldInv, serving
<1>8. ASSUME NEW p \in sent, Receive(p)
      PROVE  AdmissionInv'
  <2> DEFINE q == Append(queue[p.s], p)
  <2>1. /\ host = "plain" /\ queue' = [queue EXCEPT ![p.s] = q]
        /\ UNCHANGED <<time, host, durable, sent, holding, table, last,
                       window, buckets, admitted, count>>
    BY <1>8 DEF Receive
  <2>2. q \in Seq(Packets) /\ \A i \in 1..Len(q) : q[i].s = p.s
    <3>1. /\ p \in Packets /\ p.s \in Sessions
          /\ queue[p.s] \in Seq(Packets)
          /\ \A i \in 1..Len(queue[p.s]) : queue[p.s][i].s = p.s
      BY <1>3, <1>4
    <3> QED
      BY <3>1, QueueAppend
  <2> HIDE DEF q
  <2>3. AdmitInv' /\ OnceInv'
    BY <1>2, <2>1, FrameKeeps
  <2>4. /\ queue' \in [Sessions -> Seq(Packets)] /\ queue'[p.s] = q
        /\ \A s \in Sessions \ {p.s} : queue'[s] = queue[s]
    BY <1>1, <1>4, <2>1, <2>2 DEF UdpTypes
  <2>5. \A s \in Sessions : \A i \in 1..Len(queue'[s]) : queue'[s][i].s = s
    BY <1>3, <2>2, <2>4
  <2>6. HoldInv'
    BY <1>1, <2>1 DEF HoldInv
  <2> QED
    BY <1>1, <2>1, <2>3, <2>4, <2>5, <2>6 DEF AdmissionInv, UdpTypes
<1>9. ASSUME NEW s \in Sessions, NEW full \in BOOLEAN, FindSession(s, full)
      PROVE  AdmissionInv'
  <2>1. AdmitInv' /\ OnceInv'
    BY <1>2, <1>9, FrameKeeps DEF FindSession
  <2>2. /\ holding' = [holding EXCEPT ![s] = IF s \in table THEN "live"
                                            ELSE "new"]
        /\ queue[s] # <<>>
        /\ UNCHANGED <<time, host, durable, sent, queue, table, last, window,
                       buckets, admitted, count>>
    BY <1>9 DEF FindSession
  <2>3. holding' \in [Sessions -> {"none", "new", "live", "closed"}]
    BY <1>1, <2>2 DEF UdpTypes
  <2>4. /\ holding'[s] = "live" => s \in table
        /\ \A t \in Sessions \ {s} : holding'[t] = holding[t]
    BY <1>1, <2>2 DEF UdpTypes
  <2>5. HoldInv'
    BY <1>1, <2>2, <2>4 DEF HoldInv
  <2> QED
    BY <1>1, <2>1, <2>2, <2>3, <2>5 DEF AdmissionInv, UdpTypes
<1>10. ASSUME NEW s \in Sessions, StoreSession(s)
       PROVE  AdmissionInv'
  <2>1. AdmitInv' /\ OnceInv'
    BY <1>2, <1>10, FrameKeeps DEF StoreSession
  <2>2. /\ holding' = [holding EXCEPT ![s] = "live"] /\ holding[s] = "new"
        /\ table' = table \cup {s}
        /\ UNCHANGED <<time, host, durable, sent, queue, last, window,
                       buckets, admitted, count>>
    BY <1>10 DEF StoreSession
  <2>3. holding' \in [Sessions -> {"none", "new", "live", "closed"}]
    BY <1>1, <2>2 DEF UdpTypes
  <2>4. \A t \in Sessions \ {s} : holding'[t] = holding[t]
    BY <1>1, <2>2 DEF UdpTypes
  <2>5. HoldInv'
    BY <1>1, <2>2, <2>4 DEF HoldInv
  <2> QED
    BY <1>1, <2>1, <2>2, <2>3, <2>5 DEF AdmissionInv, UdpTypes
<1>11. ASSUME NEW s \in Sessions, queue[s] # <<>>,
              queue' = [queue EXCEPT ![s] = Tail(@)],
              holding' = [holding EXCEPT ![s] = "none"],
              UNCHANGED <<host, table>>
       PROVE  /\ queue' \in [Sessions -> Seq(Packets)]
              /\ \A t \in Sessions : \A i \in 1..Len(queue'[t]) :
                   queue'[t][i].s = t
              /\ holding' \in [Sessions -> {"none", "new", "live", "closed"}]
              /\ HoldInv'
  <2> DEFINE q == Tail(queue[s])
  <2>1. q \in Seq(Packets) /\ \A i \in 1..Len(q) : q[i].s = s
    BY <1>3, <1>11, QueueTail
  <2>2. queue' = [queue EXCEPT ![s] = q]
    BY <1>11
  <2> HIDE DEF q
  <2>3. /\ queue' \in [Sessions -> Seq(Packets)] /\ queue'[s] = q
        /\ \A t \in Sessions \ {s} : queue'[t] = queue[t]
    BY <1>1, <2>1, <2>2 DEF UdpTypes
  <2>4. \A t \in Sessions : \A i \in 1..Len(queue'[t]) : queue'[t][i].s = t
    BY <1>3, <2>1, <2>3
  <2>5. holding' \in [Sessions -> {"none", "new", "live", "closed"}]
    BY <1>1, <1>11 DEF UdpTypes
  <2>6. /\ holding'[s] = "none"
        /\ \A t \in Sessions \ {s} : holding'[t] = holding[t]
    BY <1>1, <1>11 DEF UdpTypes
  <2>7. host # "xray"
    BY <1>1, <1>11 DEF HoldInv
  <2>8. HoldInv'
    BY <1>1, <1>11, <2>6, <2>7 DEF HoldInv
  <2> QED
    BY <2>3, <2>4, <2>5, <2>8
<1>12. ASSUME NEW s \in Sessions, NEW full \in BOOLEAN, DropTask(s, full)
       PROVE  AdmissionInv'
  <2>1. AdmitInv' /\ OnceInv'
    BY <1>2, <1>12, FrameKeeps DEF DropTask
  <2>2. /\ queue[s] # <<>> /\ queue' = [queue EXCEPT ![s] = Tail(@)]
        /\ holding' = [holding EXCEPT ![s] = "none"]
        /\ UNCHANGED <<time, host, durable, sent, table, last, window,
                       buckets, admitted, count>>
    BY <1>12 DEF DropTask
  <2> QED
    BY <1>1, <1>11, <2>1, <2>2 DEF AdmissionInv, UdpTypes
<1>13. ASSUME NEW s \in Sessions, NEW healthy \in BOOLEAN,
              processTask(s, healthy)
       PROVE  AdmissionInv'
  <2>1. /\ queue[s] # <<>> /\ queue' = [queue EXCEPT ![s] = Tail(@)]
        /\ holding' = [holding EXCEPT ![s] = "none"]
        /\ UNCHANGED <<time, host, durable, sent, table>>
        /\ Decide(s, Head(queue[s]), Outcome(s, Head(queue[s]), healthy),
                  last[s])
    BY <1>13 DEF processTask, Outcome
  <2>2. PICK p \in Packets : p = Head(queue[s]) /\ p.s = s
    BY <1>3, <2>1, QueueTail
  <2>3. Decide(p.s, p, Outcome(p.s, p, healthy), last[p.s])
    BY <2>1, <2>2
  <2>4. /\ last' \in [Sessions -> Nat]
        /\ \A t \in Sessions : last'[t] <= time'
        /\ window' \in [Sessions -> Windows]
        /\ buckets' \in [Sessions -> [Buckets -> Nat]]
        /\ admitted' \in [Sessions -> [Buckets -> Nat]]
        /\ count' \in [Packets -> Nat]
        /\ AdmitInv' /\ OnceInv'
    BY <2>1, <2>3, DecideKeeps
  <2> QED
    BY <1>1, <1>11, <2>1, <2>4 DEF AdmissionInv, UdpTypes
<1>14. ASSUME NEW s \in Sessions, listenUpstream(s)
       PROVE  AdmissionInv'
  <2>1. /\ last' = [last EXCEPT ![s] = time]
        /\ UNCHANGED <<time, host, durable, sent, queue, holding, table,
                       window, buckets, admitted, count>>
    BY <1>14 DEF listenUpstream
  <2>2. /\ last' \in [Sessions -> Nat]
        /\ \A t \in Sessions : last[t] <= last'[t] /\ last'[t] <= time'
    BY <1>1, <1>2, <2>1 DEF UdpTypes
  <2>3. AdmitInv' /\ OnceInv'
    BY <1>2, <2>1, <2>2, FrameKeeps
  <2> QED
    BY <1>1, <2>1, <2>2, <2>3 DEF AdmissionInv, UdpTypes, HoldInv
<1>15. ASSUME NEW s \in Sessions, cleaner(s)
       PROVE  AdmissionInv'
  <2>1. /\ host = "plain" /\ time - last[s] > Idle /\ Forget(s)
        /\ holding' = [holding EXCEPT ![s] = IF @ = "live" THEN "closed"
                                            ELSE @]
        /\ UNCHANGED <<time, host, durable, sent, queue, admitted, count>>
    BY <1>15 DEF cleaner
  <2>2. last[s] \in Nat
    BY <1>1 DEF UdpTypes
  <2>3. time - last[s] > 2 * Skew
    BY SMT, <1>2, <2>1, <2>2, UdpReplayAssumption
  <2>4. /\ last' \in [Sessions -> Nat]
        /\ \A t \in Sessions : last'[t] <= time'
        /\ window' \in [Sessions -> Windows]
        /\ buckets' \in [Sessions -> [Buckets -> Nat]]
        /\ AdmitInv' /\ OnceInv'
    BY <2>1, <2>3, ForgetKeeps
  <2>5. table' = table \ {s}
    BY <2>1 DEF Forget
  <2>6. /\ holding' \in [Sessions -> {"none", "new", "live", "closed"}]
        /\ holding'[s] # "live"
        /\ \A t \in Sessions \ {s} : holding'[t] = holding[t]
    BY <1>1, <2>1 DEF UdpTypes
  <2>7. HoldInv'
    BY <1>1, <2>1, <2>5, <2>6 DEF HoldInv
  <2> QED
    BY <1>1, <2>1, <2>4, <2>5, <2>6, <2>7 DEF AdmissionInv, UdpTypes
<1>16. ASSUME NEW p \in sent, NEW full \in BOOLEAN, NEW healthy \in BOOLEAN,
              accept(p, full, healthy)
       PROVE  AdmissionInv'
  <2>1. /\ host = "xray" /\ table' = table \cup {p.s}
        /\ UNCHANGED <<time, host, durable, sent, queue, holding>>
        /\ Decide(p.s, p, Outcome(p.s, p, healthy), last[p.s])
    BY <1>16 DEF accept, Outcome
  <2>2. /\ last' \in [Sessions -> Nat]
        /\ \A t \in Sessions : last'[t] <= time'
        /\ window' \in [Sessions -> Windows]
        /\ buckets' \in [Sessions -> [Buckets -> Nat]]
        /\ admitted' \in [Sessions -> [Buckets -> Nat]]
        /\ count' \in [Packets -> Nat]
        /\ AdmitInv' /\ OnceInv'
    BY <1>4, <2>1, DecideKeeps
  <2>3. table' \subseteq Sessions
    BY <1>1, <1>4, <2>1 DEF UdpTypes
  <2>4. HoldInv'
    BY <1>1, <2>1 DEF HoldInv
  <2> QED
    BY <1>1, <2>1, <2>2, <2>3, <2>4 DEF AdmissionInv, UdpTypes
<1>17. ASSUME NEW s \in Sessions, expire(s)
       PROVE  AdmissionInv'
  <2>1. /\ host = "xray" /\ time - last[s] > Retention /\ Forget(s)
        /\ UNCHANGED <<time, host, durable, sent, queue, holding, admitted,
                       count>>
    BY <1>17 DEF expire
  <2>2. last[s] \in Nat
    BY <1>1 DEF UdpTypes
  <2>3. time - last[s] > 2 * Skew
    BY SMT, <1>2, <2>1, <2>2, UdpReplayAssumption
  <2>4. /\ last' \in [Sessions -> Nat]
        /\ \A t \in Sessions : last'[t] <= time'
        /\ window' \in [Sessions -> Windows]
        /\ buckets' \in [Sessions -> [Buckets -> Nat]]
        /\ AdmitInv' /\ OnceInv'
    BY <2>1, <2>3, ForgetKeeps
  <2>5. table' = table \ {s}
    BY <2>1 DEF Forget
  <2>6. HoldInv'
    BY <1>1, <2>1, <2>5 DEF HoldInv
  <2> QED
    BY <1>1, <2>1, <2>4, <2>5, <2>6 DEF AdmissionInv, UdpTypes
<1> QED
  BY <1>5, <1>6, <1>7, <1>8, <1>9, <1>10, <1>12, <1>13, <1>14, <1>15, <1>16,
     <1>17, RestartKeeps DEF AdmissionNext

-----------------------------------------------------------------------------
(* Theorems *)

\* In every reachable state of the two session tables the cache outlasts the
\* timestamps of the buckets it holds, and a forwarded datagram is protected
\* until its timestamp is stale (AcceptAuthenticated, cleaner, expire).
THEOREM ReplayInvariant == AdmissionSpec => []AdmissionInv
<1>1. AdmissionInit => AdmissionInv
  BY InitIInv
<1>2. AdmissionInv /\ [AdmissionNext]_admissionVars => AdmissionInv'
  BY StepIInv
<1> QED
  BY <1>1, <1>2, PTL DEF AdmissionSpec

\* The variables keep their types, and a session that a worker goes on to use
\* is the one in the table (processTask and the cleaner).
THEOREM ReplayTypes == AdmissionSpec => []AdmissionTypes
<1>1. AdmissionInv => AdmissionTypes
  BY DEF AdmissionInv, UdpTypes, HoldInv, AdmissionTypes
<1> QED
  BY <1>1, ReplayInvariant, PTL

\* No datagram is forwarded twice by PlainUDPServer or by the Xray inbound,
\* whatever the network repeats, sessions expire and, with a cache, restarts.
THEOREM ReplaySafety == AdmissionSpec => []NoReplay
<1>1. AdmissionInv => NoReplay
  <2> SUFFICES ASSUME AdmissionInv, NEW p \in Packets
               PROVE  count[p] <= 1
    BY DEF NoReplay
  <2>1. count[p] = 0 \/ count[p] = 1
    BY DEF AdmissionInv, OnceInv
  <2> QED
    BY SMT, <2>1
<1> QED
  BY <1>1, ReplayInvariant, PTL

\* The newest datagram of a session is forwarded when it arrives fresh and its
\* bucket has no record, just after a restart too (AcceptAuthenticated).
THEOREM ReplayResumes == AdmissionSpec => ResumesNextBucket
<1> DEFINE Admits(p) ==
             /\ \/ processTask(p.s, TRUE) /\ p = Head(queue[p.s])
                \/ accept(p, FALSE, TRUE)
             /\ InSkew(p.ts, time)
             /\ admitted[p.s][p.ts \div Bucket] = 0
             /\ Newer(window[p.s], p.seq)
           Step == \A p \in sent : Admits(p) => count'[p] = count[p] + 1
<1>1. AdmissionInv => Step
  <2> SUFFICES ASSUME AdmissionInv, NEW p \in sent, Admits(p)
               PROVE  count'[p] = count[p] + 1
    OBVIOUS
  <2> DEFINE b == p.ts \div Bucket
             live == LiveBuckets(buckets[p.s], time)
             new == durable /\ live[b] = 0
             pass == ~new \/ CacheAccepts(p.s, b, time, TRUE)
             ok == pass /\ Accepts(window[p.s], p.seq)
             r == Outcome(p.s, p, TRUE)
  <2>1. p \in Packets /\ time \in Nat /\ count \in [Packets -> Nat]
    BY DEF AdmissionInv, UdpTypes
  <2>2. Decide(p.s, p, r, last[p.s])
    BY DEF processTask, accept, Outcome
  <2>3. count' = [count EXCEPT ![p] = IF r.ok THEN @ + 1 ELSE @]
    BY <2>2 DEF Decide
  <2>4. 0 <= time
    BY SMT, <2>1
  <2>5. ok
    BY <2>4 DEF CacheAccepts, Accepts
  <2>6. \E w, known, records :
          r = [ok |-> ok, w |-> w, known |-> known, records |-> records]
    BY DEF Outcome, AcceptAuthenticated
  <2> HIDE DEF ok, r
  <2>7. r.ok = ok
    BY SMT, <2>6
  <2> QED
    BY <2>1, <2>3, <2>5, <2>7
<1>2. Step => [Step]_admissionVars
  OBVIOUS
<1> HIDE DEF Step
<1>3. []AdmissionInv => [][Step]_admissionVars
  BY <1>1, <1>2, PTL
<1> QED
  BY <1>3, ReplayInvariant DEF ResumesNextBucket, Step
=============================================================================
