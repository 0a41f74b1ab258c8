---------------------------- MODULE ReplayCache ----------------------------
(***************************************************************************)
(* pkg/auth/auth.go and shared.go: the persistent replay cache.  Accept    *)
(* records a nonce in memory and appends it to a file under one mutex, and *)
(* returns only after the group-commit goroutine has synced the file.  The *)
(* file is compacted by writing the live entries to a temporary file and   *)
(* renaming it.  A crash loses memory and any unsynced part of the file.   *)
(*                                                                         *)
(* The file is a set of records: its order only matters for which of two   *)
(* unexpired records of a nonce is loaded, and there is never more than    *)
(* one.  A line the crash cut short either still parses ("cut", and the    *)
(* next record is glued to it) or does not ("broken").                     *)
(***************************************************************************)
EXTENDS Integers, FiniteSets, TLC

CONSTANTS Nonces, Callers,
          NoOne,         \* the mutex is free
          Window, Second,  \* see ReplayGuard
          CompactAfter,  \* replayCompactAfter
          Capacity,      \* entries that Accept lets the map hold
          MaxRefs,       \* bound: owners of the shared cache
          MaxPending,    \* bound: renames not yet synced
          MaxClock       \* bound: the clock stops here

ASSUME CacheAssumption ==
  /\ Window \in Nat \ {0} /\ Second \in Nat \ {0}
  /\ CompactAfter \in Nat /\ Capacity \in Nat
  /\ MaxRefs \in Nat \ {0} /\ MaxPending \in Nat /\ MaxClock \in Nat
  /\ NoOne \notin Callers

VARIABLES
  clock,
  inst,        \* the cache object: "down", "open" or "closing" (c.closed)
  sharedRefs,
  mu,          \* who holds c.mu across several steps
  expires,     \* c.expires, 0 for an absent nonce
  expiryQueue, \* the heap: pairs <<nonce, expiry>>
  writesSince, persistErr,
  fileNil,     \* c.file = nil
  syncedTx, currentTx,
  loop,        \* the group-commit goroutine runs
  disk,        \* the file at c.path: [safe, tail: sets of records, torn]
  prev,        \* the file a rename not yet synced may still leave there
  pc, nonce, now, at, tx, named,  \* of each caller of Accept
  grants,      \* history: the successful Accepts, and apart from them those
  exposed      \* whose record was written while a rename was unsynced

object == <<inst, sharedRefs, loop>>
memory == <<expires, expiryQueue>>
journal == <<writesSince, persistErr, fileNil, syncedTx, currentTx>>
storage == <<disk, prev>>
callers == <<pc, nonce, now, at, tx, named>>
history == <<grants, exposed>>
vars == <<clock, object, mu, memory, journal, storage, callers, history>>

Unix(t) == t \div Second
Record(n, expiry) == [n |-> n, e |-> Unix(expiry)]
Lines(image) == image.safe \cup image.tail
Synced(image) == [image EXCEPT !.safe = Lines(image), !.tail = {}]
Clean(records) == [safe |-> records, tail |-> {}, torn |-> "no"]

Init ==
  /\ clock = 1
  /\ inst = "down" /\ sharedRefs = 0 /\ loop = FALSE /\ mu = NoOne
  /\ expires = [n \in Nonces |-> 0] /\ expiryQueue = {}
  /\ writesSince = 0 /\ persistErr = FALSE /\ fileNil = TRUE
  /\ syncedTx = 0 /\ currentTx = 0
  /\ disk = Clean({}) /\ prev = {}
  /\ pc = [c \in Callers |-> "idle"]
  /\ nonce = [c \in Callers |-> NoOne]
  /\ now = [c \in Callers |-> 0] /\ at = [c \in Callers |-> 0]
  /\ tx = [c \in Callers |-> 0] /\ named = [c \in Callers |-> FALSE]
  /\ grants = {} /\ exposed = {}

-----------------------------------------------------------------------------
(* Opening.  OpenSharedReplayCache returns the live object or opens one.   *)

\* load: every unexpired record enters the map and the heap; a line that does
\* not parse makes OpenReplayCache fail.
load ==
  LET live == {r \in Lines(disk) : r.e * Second > clock}
      Of(n) == {r \in live : r.n = n}
  IN  /\ disk.torn # "broken"
      /\ expires' = [n \in Nonces |->
           IF Of(n) = {} THEN 0 ELSE (CHOOSE r \in Of(n) : TRUE).e * Second]
      /\ expiryQueue' = {<<r.n, r.e * Second>> : r \in live}

\* The previous object's callers have returned: the servers join their
\* handlers before they close the cache.
OpenReplayCache ==
  /\ inst = "down" /\ \A c \in Callers : pc[c] = "idle"
  /\ load
  /\ inst' = "open" /\ sharedRefs' = 1 /\ loop' = TRUE
  /\ writesSince' = 0 /\ persistErr' = FALSE /\ fileNil' = FALSE
  /\ syncedTx' = 0 /\ currentTx' = 0
  /\ UNCHANGED <<clock, mu, storage, callers, history>>

OpenShared ==
  /\ inst = "open" /\ sharedRefs < MaxRefs
  /\ sharedRefs' = sharedRefs + 1
  /\ UNCHANGED <<clock, inst, loop, mu, memory, journal, storage, callers,
                 history>>

-----------------------------------------------------------------------------
(* Accept *)

\* cond.Broadcast: every waiting Accept looks again.
Woken == [c \in Callers |-> IF pc[c] = "wait" THEN "recheck" ELSE pc[c]]

\* Accept returns; its locals are gone.
Return(c, pcs) ==
  /\ pc' = [pcs EXCEPT ![c] = "idle"]
  /\ nonce' = [nonce EXCEPT ![c] = NoOne]
  /\ now' = [now EXCEPT ![c] = 0] /\ at' = [at EXCEPT ![c] = 0]
  /\ tx' = [tx EXCEPT ![c] = 0] /\ named' = [named EXCEPT ![c] = FALSE]

\* The caller reads the clock, then waits for the mutex.
Arrive(c, n) ==
  /\ pc[c] = "idle" /\ inst # "down"
  /\ pc' = [pc EXCEPT ![c] = "lock"]
  /\ nonce' = [nonce EXCEPT ![c] = n]
  /\ now' = [now EXCEPT ![c] = clock]
  /\ UNCHANGED <<clock, object, mu, memory, journal, storage, at, tx, named,
                 history>>

\* The heap entries that are not After(t) are popped, and their map entries
\* deleted if they still carry that expiry.
Due(t) == {q \in expiryQueue : q[2] <= t}
Purged(t) == [n \in Nonces |-> IF <<n, expires[n]>> \in Due(t)
                               THEN 0 ELSE expires[n]]
Live(map) == {n \in Nonces : map[n] # 0}

Purge(t) ==
  /\ expires' = Purged(t)
  /\ expiryQueue' = expiryQueue \ Due(t)

\* closed, persistErr and a missing file refuse before anything is looked at.
Unusable == inst # "open" \/ persistErr \/ fileNil

AcceptRefuses(c) ==
  /\ pc[c] = "lock" /\ mu = NoOne
  /\ Unusable
  /\ persistErr' = (persistErr \/ (inst = "open" /\ fileNil))
  /\ Return(c, pc)
  /\ UNCHANGED <<clock, object, mu, memory, writesSince, fileNil, syncedTx,
                 currentTx, storage, history>>

\* The nonce is known, or the map is full.
AcceptDenies(c) ==
  /\ pc[c] = "lock" /\ mu = NoOne /\ ~Unusable
  /\ \/ Purged(now[c])[nonce[c]] # 0
     \/ Cardinality(Live(Purged(now[c]))) >= Capacity
  /\ Purge(now[c])
  /\ Return(c, pc)
  /\ UNCHANGED <<clock, object, mu, journal, storage, history>>

\* The nonce is new; the mutex is kept through compaction and append.
AcceptProceeds(c) ==
  /\ pc[c] = "lock" /\ mu = NoOne /\ ~Unusable
  /\ Purged(now[c])[nonce[c]] = 0
  /\ Cardinality(Live(Purged(now[c]))) < Capacity
  /\ Purge(now[c])
  /\ mu' = c
  /\ pc' = [pc EXCEPT ![c] = IF writesSince >= CompactAfter
                             THEN "compact" ELSE "append"]
  /\ UNCHANGED <<clock, object, journal, storage, nonce, now, at, tx, named,
                 history>>

\* markPersistenceFailure in the middle of Accept, which returns the error.
Fail(c, nil) ==
  /\ persistErr' = TRUE /\ fileNil' = nil
  /\ mu' = NoOne
  /\ Return(c, Woken)

\* compact fails before the rename; the file may or may not be reopened.
CompactFails(c, nil) ==
  /\ pc[c] = "compact"
  /\ Fail(c, nil)
  /\ UNCHANGED <<clock, object, memory, writesSince, syncedTx, currentTx,
                 storage, history>>

\* Variant: the temporary file is renamed without having been synced.
CompactUnsynced(c) ==
  /\ pc[c] = "compact" /\ Cardinality(prev) < MaxPending
  /\ disk' = [safe |-> {}, torn |-> "no",
              tail |-> {Record(n, expires[n]) : n \in Live(expires)}]
  /\ prev' = prev \cup {disk}
  /\ pc' = [pc EXCEPT ![c] = "renamed"]
  /\ UNCHANGED <<clock, object, mu, memory, journal, nonce, now, at, tx, named,
                 history>>

\* The live entries, synced in the temporary file, take the place of the file;
\* until the directory is synced a crash may bring the old one back.
CompactRenames(c) ==
  /\ pc[c] = "compact" /\ Cardinality(prev) < MaxPending
  /\ disk' = Clean({Record(n, expires[n]) : n \in Live(expires)})
  /\ prev' = prev \cup {disk}
  /\ pc' = [pc EXCEPT ![c] = "renamed"]
  /\ UNCHANGED <<clock, object, mu, memory, journal, nonce, now, at, tx, named,
                 history>>

\* Reopening (nil) or the directory sync fails.
RenamedFails(c, nil) ==
  /\ pc[c] = "renamed"
  /\ Fail(c, nil)
  /\ UNCHANGED <<clock, object, memory, writesSince, syncedTx, currentTx,
                 storage, history>>

CompactDone(c) ==
  /\ pc[c] = "renamed"
  /\ prev' = {} /\ writesSince' = 0
  /\ pc' = [pc EXCEPT ![c] = "append"]
  /\ UNCHANGED <<clock, object, mu, memory, persistErr, fileNil, syncedTx,
                 currentTx, disk, nonce, now, at, tx, named, history>>

\* Variant: the nonce is kept for MaxClockSkew only.
AppendHalfWindow(c) ==
  LET expiry == now[c] + Window \div 2
  IN  /\ pc[c] = "append"
      /\ disk' = [disk EXCEPT
           !.tail = @ \cup {Record(nonce[c], expiry)},
           !.torn = IF @ = "cut" THEN "broken" ELSE @]
      /\ writesSince' = writesSince + 1
      /\ currentTx' = currentTx + 1
      /\ tx' = [tx EXCEPT ![c] = currentTx + 1]
      /\ expires' = [expires EXCEPT ![nonce[c]] = expiry]
      /\ expiryQueue' = expiryQueue \cup {<<nonce[c], expiry>>}
      /\ at' = [at EXCEPT ![c] = clock]
      /\ named' = [named EXCEPT ![c] = prev = {}]
      /\ mu' = NoOne
      /\ pc' = [pc EXCEPT ![c] = "wait"]
      /\ UNCHANGED <<clock, object, persistErr, fileNil, syncedTx, prev, nonce,
                     now, history>>

\* The record is written, the nonce enters the map, and Accept waits for its
\* transaction to be synced.
AppendEntry(c) ==
  LET expiry == now[c] + Window
  IN  /\ pc[c] = "append"
      /\ disk' = [disk EXCEPT
           !.tail = @ \cup {Record(nonce[c], expiry)},
           !.torn = IF @ = "cut" THEN "broken" ELSE @]
      /\ writesSince' = writesSince + 1
      /\ currentTx' = currentTx + 1
      /\ tx' = [tx EXCEPT ![c] = currentTx + 1]
      /\ expires' = [expires EXCEPT ![nonce[c]] = expiry]
      /\ expiryQueue' = expiryQueue \cup {<<nonce[c], expiry>>}
      /\ at' = [at EXCEPT ![c] = clock]
      /\ named' = [named EXCEPT ![c] = prev = {}]
      /\ mu' = NoOne
      /\ pc' = [pc EXCEPT ![c] = "wait"]
      /\ UNCHANGED <<clock, object, persistErr, fileNil, syncedTx, prev, nonce,
                     now, history>>

\* A failed write may leave part of the line behind.
AppendFails(c, torn) ==
  /\ pc[c] = "append"
  /\ torn \in CASE disk.torn = "no" -> {"no", "cut", "broken"}
                [] disk.torn = "cut" -> {"cut", "broken"}
                [] OTHER -> {"broken"}
  /\ disk' = [disk EXCEPT !.torn = torn]
  /\ Fail(c, fileNil)
  /\ UNCHANGED <<clock, object, memory, writesSince, syncedTx, currentTx, prev,
                 history>>

\* Woken: the transaction is synced or the cache has failed.  The loop round
\* cond.Wait is never taken twice: each Broadcast follows a sync of everything
\* written or a failure (AcceptTerminates would fail if one did not).
Granted(c) == [n |-> nonce[c], now |-> now[c], at |-> at[c],
               nth |-> Cardinality({g \in grants : g.n = nonce[c]})]

AcceptReturns(c) ==
  /\ pc[c] = "recheck" /\ mu = NoOne
  /\ persistErr \/ syncedTx >= tx[c]
  /\ Return(c, pc)
  /\ IF persistErr THEN UNCHANGED history
     ELSE IF named[c] THEN grants' = grants \cup {Granted(c)}
                           /\ exposed' = exposed
     ELSE exposed' = exposed \cup {Granted(c)} /\ grants' = grants
  /\ UNCHANGED <<clock, object, mu, memory, journal, storage>>

\* Check only purges and looks.
Check ==
  /\ inst # "down" /\ mu = NoOne
  /\ Purge(clock)
  /\ UNCHANGED <<clock, object, mu, journal, storage, callers, history>>

-----------------------------------------------------------------------------
(* groupCommitLoop, Close, crash *)

\* c.file.Sync() of all appended records: syncedTx follows on success only.
Commit(ok) ==
  /\ IF ok THEN disk' = Synced(disk) /\ syncedTx' = currentTx
           ELSE disk' = disk /\ syncedTx' = syncedTx
  /\ persistErr' = (persistErr \/ ~ok)
  /\ pc' = Woken

CommitTick(ok) ==
  /\ loop /\ mu = NoOne /\ ~fileNil /\ currentTx > syncedTx
  /\ Commit(ok)
  /\ UNCHANGED <<clock, object, mu, memory, writesSince, fileNil, currentTx,
                 prev, nonce, now, at, tx, named, history>>

\* Variant: stopCh ends the goroutine without a last commit.
LoopJustStops(ok) ==
  /\ loop /\ inst = "closing" /\ mu = NoOne
  /\ loop' = FALSE
  /\ UNCHANGED <<clock, inst, sharedRefs, mu, memory, journal, storage, callers,
                 history>>

\* stopCh is closed: a last commit if one is due, then doneCh is closed.
LoopStops(ok) ==
  /\ loop /\ inst = "closing" /\ mu = NoOne
  /\ loop' = FALSE
  /\ IF ~fileNil /\ currentTx > syncedTx THEN Commit(ok)
     ELSE UNCHANGED <<disk, syncedTx, persistErr, pc>>
  /\ UNCHANGED <<clock, inst, sharedRefs, mu, memory, writesSince, fileNil,
                 currentTx, prev, nonce, now, at, tx, named, history>>

\* Close drops one reference; the last one marks the cache closed.
CloseRef ==
  /\ inst = "open" /\ sharedRefs > 0
  /\ sharedRefs = 1 => mu = NoOne
  /\ sharedRefs' = sharedRefs - 1
  /\ inst' = IF sharedRefs = 1 THEN "closing" ELSE inst
  /\ UNCHANGED <<clock, loop, mu, memory, journal, storage, callers, history>>

\* After doneCh: a last sync whose error is ignored, and the file is closed.
CloseFinishes(ok) ==
  /\ inst = "closing" /\ ~loop /\ mu = NoOne
  /\ inst' = "down" /\ fileNil' = TRUE
  /\ disk' = (IF ok /\ ~fileNil THEN Synced(disk) ELSE disk)
  /\ UNCHANGED <<clock, sharedRefs, loop, mu, memory, writesSince, persistErr,
                 syncedTx, currentTx, prev, callers, history>>

\* Power is lost: of the file the directory names, the synced records and any
\* part of the others survive; a line may be cut.
Crash(image, kept, torn) ==
  /\ image \in {disk} \cup prev
  /\ kept \subseteq image.tail
  /\ torn \in IF image.torn = "no" /\ kept # image.tail
              THEN {"no", "cut", "broken"} ELSE {image.torn}
  /\ disk' = [safe |-> image.safe \cup kept, tail |-> {}, torn |-> torn]
  /\ prev' = {}
  /\ inst' = "down" /\ sharedRefs' = 0 /\ loop' = FALSE /\ mu' = NoOne
  /\ fileNil' = TRUE
  /\ pc' = [c \in Callers |-> "idle"]
  /\ nonce' = [c \in Callers |-> NoOne]
  /\ now' = [c \in Callers |-> 0] /\ at' = [c \in Callers |-> 0]
  /\ tx' = [c \in Callers |-> 0] /\ named' = [c \in Callers |-> FALSE]
  /\ expires' = [n \in Nonces |-> 0] /\ expiryQueue' = {}
  /\ writesSince' = 0 /\ persistErr' = FALSE
  /\ syncedTx' = 0 /\ currentTx' = 0
  /\ UNCHANGED <<clock, history>>

Tick ==
  /\ clock < MaxClock
  /\ clock' = clock + 1
  /\ UNCHANGED <<object, mu, memory, journal, storage, callers, history>>

-----------------------------------------------------------------------------
Torn == {"no", "cut", "broken"}

AcceptStep(c) ==
  \/ AcceptRefuses(c) \/ AcceptDenies(c) \/ AcceptProceeds(c)
  \/ \E nil \in BOOLEAN : CompactFails(c, nil) \/ RenamedFails(c, nil)
  \/ CompactRenames(c) \/ CompactDone(c)
  \/ AppendEntry(c) \/ \E torn \in Torn : AppendFails(c, torn)
  \/ AcceptReturns(c)

LoopStep == \E ok \in BOOLEAN : CommitTick(ok) \/ LoopStops(ok)

Next ==
  \/ OpenReplayCache \/ OpenShared \/ CloseRef \/ Check \/ Tick
  \/ \E c \in Callers, n \in Nonces : Arrive(c, n)
  \/ \E c \in Callers : AcceptStep(c)
  \/ LoopStep
  \/ \E ok \in BOOLEAN : CloseFinishes(ok)
  \/ \E image \in {disk} \cup prev : \E kept \in SUBSET image.tail :
       \E torn \in Torn : Crash(image, kept, torn)

Spec == Init /\ [][Next]_vars

\* Goroutines keep running, the ticker keeps firing and system calls return.
Fairness ==
  /\ \A c \in Callers : WF_vars(AcceptStep(c))
  /\ WF_vars(LoopStep)
  /\ WF_vars(\E ok \in BOOLEAN : CloseFinishes(ok))

FairSpec == Spec /\ Fairness
-----------------------------------------------------------------------------
(* Properties *)

Records == [n : Nonces, e : Nat]
Images == [safe : SUBSET Records, tail : SUBSET Records, torn : Torn]

Grants == [n : Nonces, now : Nat, at : Nat, nth : Nat]

\* The state is well formed; in particular the shared reference count never
\* goes below zero (Close).
TypeOK ==
  /\ clock \in Nat
  /\ inst \in {"down", "open", "closing"} /\ sharedRefs \in Nat
  /\ loop \in BOOLEAN /\ mu \in Callers \cup {NoOne}
  /\ expires \in [Nonces -> Nat] /\ expiryQueue \subseteq Nonces \X Nat
  /\ writesSince \in Nat /\ persistErr \in BOOLEAN /\ fileNil \in BOOLEAN
  /\ syncedTx \in Nat /\ currentTx \in Nat
  /\ disk \in Images /\ prev \subseteq Images
  /\ pc \in [Callers -> {"idle", "lock", "compact", "renamed", "append",
                         "wait", "recheck"}]
  /\ nonce \in [Callers -> Nonces \cup {NoOne}]
  /\ now \in [Callers -> Nat] /\ at \in [Callers -> Nat]
  /\ tx \in [Callers -> Nat] /\ named \in [Callers -> BOOLEAN]
  /\ grants \subseteq Grants /\ exposed \subseteq Grants

\* What the cache promises (ReplayGuard): a successful Accept is only repeated
\* after the window, across group commit, failed syncs, compaction, crashes
\* and restarts.  Grants recorded while a rename was still unsynced, because
\* compact failed after it and the cache was opened again, are not covered.
Guard == INSTANCE ReplayGuard
           WITH Nonces <- Nonces, Window <- Window, Second <- Second,
                clock <- clock, grants <- grants
GuardSpec == Guard!Spec

Durable(g) ==
  \A image \in {disk} \cup prev :
    \/ clock >= Unix(g.now + Window) * Second
    \/ Record(g.n, g.now + Window) \in image.safe

\* A nonce is on stable storage before Accept returns true: whichever file a
\* crash now leaves behind holds the record of every grant still in its
\* window (Accept's wait, compact's sync, rename and directory sync).
GrantsDurable == \A g \in grants : Durable(g)

\* The same without the proviso: compact syncs the directory to make the
\* rename durable, and no grant may rely on a rename that is not.
AllGrantsDurable == \A g \in grants \cup exposed : Durable(g)

\* No Accept waits for ever: its group commit, the last commit of Close, or a
\* failure wakes it.
AcceptTerminates == \A c \in Callers : []<>(pc[c] = "idle")

Symmetry == Permutations(Callers) \cup Permutations(Nonces)
=============================================================================
