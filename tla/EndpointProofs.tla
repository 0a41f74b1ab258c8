--------------------------- MODULE EndpointProofs ---------------------------
(***************************************************************************)
(* TLAPS proofs that callers of the endpoints are told the truth: sessions *)
(* reported as saved survive a crash (SessionCache), blocked packet calls  *)
(* keep to the deadline in force (ClientPacket), and what a pipe write     *)
(* answers is what becomes of its bytes (XrayPipe), for any number of      *)
(* callers, calls and moves of a deadline.                                 *)
(***************************************************************************)
EXTENDS HonestCallers, FiniteSets, FiniteSetTheorems, TLAPS

\* The prover of a leaf that names no other.
USE Zenon

-----------------------------------------------------------------------------
(* The TLS session cache *)

PersistSteps == {"returned", "create", "sync", "rename", "directory"}

\* No file is older than what was reported, none is newer than the map was; the
\* map that is being written is newer than what was reported; the temporary file
\* has it once it is synced.
SessionInv ==
  /\ sessions \in Nat /\ persisted \in Nat /\ changes \in Nat
  /\ persist \in [at : PersistSteps, put : BOOLEAN]
  /\ updated \in BOOLEAN
  /\ onDisk \subseteq Nat /\ onPath \in onDisk
  /\ \A v \in onDisk : v >= persisted /\ v <= changes
  /\ sessions >= persisted /\ sessions <= changes
  /\ persist.at # "returned" => sessions > 0
  /\ persist.at \in {"rename", "directory"} => temporary = sessions
  /\ persist.at = "directory" => onPath = sessions
  /\ updated => persisted > 0

\* The file of the last run, or none.
LEMMA SessionStart == SessionInit => SessionInv
<1> SUFFICES ASSUME SessionInit PROVE SessionInv
  OBVIOUS
<1>1. persist \in [at : PersistSteps, put : BOOLEAN]
      /\ persist.at = "returned"
  BY DEF SessionInit, Returned, PersistSteps
<1>2. /\ sessions = 0 /\ onPath = 0 /\ onDisk = {0} /\ persisted = 0
      /\ changes = 0 /\ updated \in BOOLEAN /\ ~updated
  BY DEF SessionInit
<1> QED
  BY SMT, <1>1, <1>2 DEF SessionInv

\* Put, Clear and Get change the map to a version that no file has.
LEMMA ChangeKeeps == SessionInv /\ (Put \/ Get) => SessionInv'
<1> SUFFICES ASSUME SessionInv, Put \/ Get PROVE SessionInv'
  OBVIOUS
<1>1. /\ sessions' = changes + 1 /\ changes' = changes + 1
      /\ UNCHANGED <<temporary, onPath, onDisk, persisted, updated>>
  BY DEF Put, Get, Change, fileVars
<1>2. /\ persist' \in [at : PersistSteps, put : BOOLEAN]
      /\ persist'.at \in {"returned", "create"}
  <2>1. CASE Put
    <3>1. PICK b \in BOOLEAN : persist' = [at |-> "create", put |-> b]
      BY <2>1 DEF Put
    <3> QED
      BY SMT, <3>1 DEF PersistSteps
  <2>2. CASE Get
    <3>1. persist' = [at |-> "returned", put |-> FALSE]
      BY <2>2 DEF Get, Returned
    <3> QED
      BY SMT, <3>1 DEF PersistSteps
  <2> QED
    BY <2>1, <2>2
<1> QED
  BY SMT, <1>1, <1>2 DEF SessionInv

\* What persistLocked does to the files.
LEMMA PersistKeeps ==
  ASSUME SessionInv,
         PersistFails \/ WriteTemporary \/ SyncTemporary \/ Rename
           \/ SyncDirectory
  PROVE  SessionInv'
<1>1. CASE PersistFails
  <2>1. /\ persist' = [at |-> "returned", put |-> FALSE]
        /\ UNCHANGED <<sessions, temporary, onPath, onDisk, persisted, updated,
                       changes>>
    BY <1>1 DEF PersistFails, Returned, fileVars
  <2> QED
    BY SMT, <2>1 DEF SessionInv, PersistSteps
<1>2. CASE WriteTemporary
  BY SMT, <1>2 DEF WriteTemporary, SessionInv, PersistSteps
<1>3. CASE SyncTemporary
  BY SMT, <1>3 DEF SyncTemporary, SessionInv, PersistSteps
<1>4. CASE Rename
  BY SMT, <1>4 DEF Rename, SessionInv, PersistSteps
<1>5. CASE SyncDirectory
  <2>1. /\ persist' = [at |-> "returned", put |-> FALSE]
        /\ temporary = sessions /\ sessions > 0
        /\ onDisk' = {temporary} /\ persisted' = sessions
        /\ updated' \in BOOLEAN
        /\ UNCHANGED <<sessions, temporary, changes>>
    BY <1>5 DEF SyncDirectory, Returned, SessionInv
  <2>2. onPath' = sessions
    BY <1>5 DEF SyncDirectory, SessionInv
  <2> QED
    BY SMT, <2>1, <2>2 DEF SessionInv, PersistSteps
<1> QED
  BY <1>1, <1>2, <1>3, <1>4, <1>5

\* A crash finds one of the files it may find, and the client starts with it.
LEMMA CrashKeeps ==
  ASSUME SessionInv, WaitForUpdate \/ SessionCrash \/ Reopen
  PROVE  SessionInv'
<1>1. CASE WaitForUpdate
  <2>1. /\ updated' \in BOOLEAN /\ ~updated'
        /\ UNCHANGED <<sessions, persist, temporary, onPath, onDisk, persisted,
                       changes>>
    BY <1>1 DEF WaitForUpdate, fileVars
  <2> QED
    BY SMT, <2>1 DEF SessionInv
<1>2. CASE SessionCrash \/ Reopen
  <2>1. /\ persist' = [at |-> "returned", put |-> FALSE]
        /\ sessions' \in onDisk /\ onPath' = sessions'
        /\ onDisk' \subseteq onDisk /\ onPath' \in onDisk'
        /\ persisted' = persisted /\ changes' = changes
        /\ updated' \in BOOLEAN /\ ~updated'
    BY <1>2 DEF SessionCrash, Reopen, Returned, fileVars, SessionInv
  <2> QED
    BY SMT, <2>1 DEF SessionInv, PersistSteps
<1> QED
  BY <1>1, <1>2

\* Every step of the cache keeps the invariant.
LEMMA SessionStep == SessionInv /\ [SessionNext]_sessionVars => SessionInv'
<1> SUFFICES ASSUME SessionInv, [SessionNext]_sessionVars PROVE SessionInv'
  OBVIOUS
<1>1. CASE UNCHANGED sessionVars
  <2>1. UNCHANGED <<sessions, persist, temporary, onPath, onDisk, persisted,
                    updated, changes>>
    BY <1>1 DEF sessionVars, fileVars
  <2> QED
    BY <2>1 DEF SessionInv
<1> QED
  BY <1>1, ChangeKeeps, PersistKeeps, CrashKeeps DEF SessionNext

(* After a crash at any step of persistLocked the file that is found is    *)
(* whole and no older than the last change reported as saved, for any      *)
(* number of changes (cache.go: persistLocked, Put, Open).                 *)
THEOREM SessionsSurvive ==
  SessionInit /\ [][SessionNext]_sessionVars => []SessionsDurable
<1>1. SessionInv => SessionsDurable
  <2> SUFFICES ASSUME SessionInv PROVE SessionsDurable
    OBVIOUS
  <2>1. Torn \notin onDisk
    BY SessionAssumption DEF SessionInv
  <2> QED
    BY <2>1 DEF SessionInv, SessionsDurable
<1> QED
  BY <1>1, SessionStart, SessionStep, PTL

-----------------------------------------------------------------------------
(* The deadlines of packet connections *)

BlockedCalls == [pc : {"out", "loop", "wait"}, at : Nat, woken : BOOLEAN]

PacketTypes ==
  /\ time \in Nat /\ readDeadline \in Nat /\ writeDeadline \in Nat
  /\ packetOver \in BOOLEAN /\ packetClosed \in BOOLEAN
  /\ writeContext \in 0..(DeadlineMoves + 1)
  /\ contextDeadline \in [Contexts -> Nat]
  /\ preader \in [PacketReaders -> BlockedCalls] /\ psender \in BlockedCalls
  /\ told \in BOOLEAN

\* A waiting read that nobody has woken waits for no later than the deadline.
ReadsInTime ==
  \A r \in PacketReaders :
    preader[r].pc = "wait" /\ readDeadline # 0 =>
      preader[r].woken \/ (preader[r].at # 0 /\ preader[r].at <= readDeadline)

\* The current write context has the deadline in force and is not cancelled; a
\* waiting write has it or an older one.
WritesInTime ==
  /\ contextDeadline[IF writeContext = 0 THEN 1 ELSE writeContext]
       = writeDeadline
  /\ \A g \in dropped : g \in Nat /\ g < writeContext
  /\ psender.pc = "wait" => psender.at \in 1..writeContext

PacketInv == PacketTypes /\ ReadsInTime /\ WritesInTime /\ ~told

\* The fields of a call that changes.
LEMMA CallPlace ==
  ASSUME NEW call \in BlockedCalls, NEW k \in {"out", "loop", "wait"}
  PROVE  /\ [call EXCEPT !.pc = k] \in BlockedCalls
         /\ [call EXCEPT !.pc = k].pc = k
BY DEF BlockedCalls

LEMMA CallWoken ==
  ASSUME NEW call \in BlockedCalls, NEW b \in BOOLEAN
  PROVE  /\ [call EXCEPT !.woken = b] \in BlockedCalls
         /\ [call EXCEPT !.woken = b].woken = b
         /\ [call EXCEPT !.woken = b].pc = call.pc
BY DEF BlockedCalls

\* No deadline is set and nobody waits.
LEMMA PacketStart == PacketInit => PacketInv
<1> SUFFICES ASSUME PacketInit PROVE PacketInv
  OBVIOUS
<1>1. Outside \in BlockedCalls /\ Outside.pc = "out"
  BY SMT DEF Outside, BlockedCalls
<1>2. /\ time = 1 /\ packetOver = FALSE /\ packetClosed = FALSE
      /\ readDeadline = 0 /\ writeDeadline = 0 /\ writeContext = 0
      /\ contextDeadline = [g \in Contexts |-> 0] /\ dropped = {}
      /\ preader = [r \in PacketReaders |-> Outside] /\ psender = Outside
      /\ told = FALSE
  BY DEF PacketInit
<1>3. 1 \in Contexts
  BY SMT, PacketAssumption DEF Contexts
<1>4. PacketTypes
  <2>1. 1 \in Nat /\ 0 \in Nat /\ 0 \in 0..(DeadlineMoves + 1)
    BY SMT, PacketAssumption
  <2> QED
    BY <1>1, <1>2, <2>1 DEF PacketTypes
<1>5. ReadsInTime
  BY SMT, <1>1, <1>2 DEF ReadsInTime
<1>6. WritesInTime
  BY SMT, <1>1, <1>2, <1>3 DEF WritesInTime
<1> QED
  BY <1>2, <1>4, <1>5, <1>6 DEF PacketInv

\* A read that changes: it leaves, comes back, or waits with the deadline it
\* found.
LEMMA ReaderMoves ==
  ASSUME PacketInv, NEW r \in PacketReaders, NEW call \in BlockedCalls,
         call.pc = "wait" => call.at = readDeadline,
         preader' = [preader EXCEPT ![r] = call],
         UNCHANGED <<clockVars, readDeadline, writeVars, psender, told>>
  PROVE  PacketInv'
<1>1. UNCHANGED <<time, packetOver, packetClosed, readDeadline, writeDeadline,
                  writeContext, contextDeadline, dropped, psender, told>>
  BY DEF clockVars, writeVars
<1>2. PacketTypes /\ ReadsInTime /\ WritesInTime /\ ~told
  BY DEF PacketInv
<1>3. preader' \in [PacketReaders -> BlockedCalls]
  BY <1>2 DEF PacketTypes
<1>4. PacketTypes'
  BY <1>1, <1>2, <1>3 DEF PacketTypes
<1>5. ReadsInTime'
  <2> SUFFICES ASSUME NEW q \in PacketReaders, preader'[q].pc = "wait",
                      readDeadline # 0
               PROVE  \/ preader'[q].woken
                      \/ /\ preader'[q].at # 0
                         /\ preader'[q].at <= readDeadline
    BY <1>1 DEF ReadsInTime
  <2>1. CASE q = r
    <3>1. preader'[q] = call
      BY <1>2, <2>1 DEF PacketTypes
    <3> QED
      BY SMT, <1>2, <3>1 DEF PacketTypes
  <2>2. CASE q # r
    <3>1. preader'[q] = preader[q]
      BY <1>2, <2>2 DEF PacketTypes
    <3> QED
      BY <1>2, <3>1 DEF ReadsInTime
  <2> QED
    BY <2>1, <2>2
<1>6. WritesInTime'
  BY <1>1, <1>2 DEF WritesInTime
<1>7. told' = FALSE
  <2>1. told = FALSE
    BY <1>2 DEF PacketTypes
  <2> QED
    BY <1>1, <2>1
<1> QED
  BY <1>2, <1>4, <1>5, <1>6, <1>7 DEF PacketInv

\* ReadFrom up to its wait, and what its wait returns.
LEMMA ReadKeepsDeadline ==
  ASSUME PacketInv, NEW r \in PacketReaders, ReadFrom(r) \/ Received(r)
  PROVE  PacketInv'
<1>1. Outside \in BlockedCalls /\ Outside.pc = "out"
  BY SMT DEF Outside, BlockedCalls
<1>2. readDeadline \in Nat
  BY DEF PacketInv, PacketTypes
<1>3. \A pc \in {"out", "loop"} :
        /\ [Outside EXCEPT !.pc = pc] \in BlockedCalls
        /\ [Outside EXCEPT !.pc = pc].pc # "wait"
  BY <1>1, CallPlace
<1>4. LET w == [pc |-> "wait", at |-> readDeadline, woken |-> FALSE]
      IN  w \in BlockedCalls /\ w.at = readDeadline
  BY SMT, <1>2 DEF BlockedCalls
<1>5. \E call \in BlockedCalls :
        /\ call.pc = "wait" => call.at = readDeadline
        /\ preader' = [preader EXCEPT ![r] = call]
  <2>1. CASE ReadFrom(r)
    <3>1. CASE packetOver \/ packetClosed \/ Passed(readDeadline)
      BY <1>1, <2>1, <3>1 DEF ReadFrom
    <3>2. CASE ~(packetOver \/ packetClosed \/ Passed(readDeadline))
      BY <1>4, <2>1, <3>2 DEF ReadFrom
    <3> QED
      BY <3>1, <3>2
  <2>2. CASE Received(r)
    <3>1. ASSUME NEW pc \in {"out", "loop"},
                 preader' = [preader EXCEPT ![r] =
                               [Outside EXCEPT !.pc = IF packetClosed THEN "out"
                                                      ELSE pc]]
          PROVE  \E k \in {"out", "loop"} :
                   preader' = [preader EXCEPT ![r] = [Outside EXCEPT !.pc = k]]
      BY <3>1
    <3>2. \/ preader' = [preader EXCEPT ![r] = Outside]
          \/ \E k \in {"out", "loop"} :
               preader' = [preader EXCEPT ![r] = [Outside EXCEPT !.pc = k]]
      BY <2>2, <3>1 DEF Received
    <3> QED
      BY <1>1, <1>3, <3>2
  <2> QED
    BY <2>1, <2>2
<1>6. UNCHANGED <<clockVars, readDeadline, writeVars, psender, told>>
  BY DEF ReadFrom, Received
<1> QED
  BY <1>5, <1>6, ReaderMoves

\* All waiting reads are woken.
LEMMA Woken ==
  ASSUME PacketTypes, preader' = WakeReaders
  PROVE  /\ preader' \in [PacketReaders -> BlockedCalls]
         /\ ReadsInTime'
<1>1. ASSUME NEW r \in PacketReaders
      PROVE  /\ preader'[r] \in BlockedCalls
             /\ preader'[r].pc = "wait" => preader'[r].woken
  <2>1. preader[r] \in BlockedCalls
    BY DEF PacketTypes
  <2>2. preader'[r] = [preader[r] EXCEPT !.woken = preader[r].pc = "wait"]
    BY DEF WakeReaders
  <2>3. PICK b \in BOOLEAN : b = (preader[r].pc = "wait")
    OBVIOUS
  <2>4. preader'[r] = [preader[r] EXCEPT !.woken = b]
    BY <2>2, <2>3
  <2>5. /\ preader'[r] \in BlockedCalls /\ preader'[r].woken = b
        /\ preader'[r].pc = preader[r].pc
    BY SMT, <2>1, <2>4, CallWoken
  <2>6. preader[r].pc = "wait" => b = TRUE
    BY <2>3
  <2>7. preader[r].pc = "wait" => preader'[r].woken = TRUE
    BY <2>5, <2>6
  <2> QED
    BY <2>5, <2>7
<1>2. preader' \in [PacketReaders -> BlockedCalls]
  BY <1>1 DEF WakeReaders
<1> QED
  BY <1>1, <1>2 DEF ReadsInTime

\* SetReadDeadline wakes the reads unless theirs is still early enough.
LEMMA SetReadKeeps ==
  ASSUME PacketInv, NEW t \in Times, SetReadDeadline(t)
  PROVE  PacketInv'
<1>1. /\ readDeadline' = t
      /\ UNCHANGED <<time, packetOver, packetClosed, writeDeadline,
                     writeContext, contextDeadline, dropped, psender, told>>
  BY DEF SetReadDeadline, clockVars, writeVars
<1>2. PacketTypes /\ ReadsInTime /\ WritesInTime /\ ~told
  BY DEF PacketInv
<1>3. t \in Nat
  BY SMT, PacketAssumption DEF Times
<1>4. preader' \in [PacketReaders -> BlockedCalls] /\ ReadsInTime'
  <2>1. CASE preader' = WakeReaders
    BY <1>2, <2>1, Woken
  <2>2. CASE /\ t # 0 /\ readDeadline # 0 /\ ~(t < readDeadline)
             /\ preader' = preader
    <3>1. preader' \in [PacketReaders -> BlockedCalls]
      BY <1>2, <2>2 DEF PacketTypes
    <3>2. ASSUME NEW r \in PacketReaders, preader[r].pc = "wait"
          PROVE  preader[r].woken \/ (preader[r].at # 0 /\ preader[r].at <= t)
      <4>1. \/ preader[r].woken
            \/ preader[r].at # 0 /\ preader[r].at <= readDeadline
        BY <1>2, <2>2, <3>2 DEF ReadsInTime
      <4>2. preader[r] \in BlockedCalls
        BY <1>2 DEF PacketTypes
      <4>3. preader[r].at \in Nat /\ readDeadline \in Nat
        BY SMT, <1>2, <4>2 DEF PacketTypes, BlockedCalls
      <4> QED
        BY SMT, <1>3, <2>2, <4>1, <4>3
    <3> QED
      BY <1>1, <2>2, <3>1, <3>2 DEF ReadsInTime
  <2> QED
    BY <2>1, <2>2 DEF SetReadDeadline
<1>5. PacketTypes'
  BY <1>1, <1>2, <1>3, <1>4 DEF PacketTypes
<1>6. WritesInTime'
  BY <1>1, <1>2 DEF WritesInTime
<1> QED
  BY <1>1, <1>2, <1>4, <1>5, <1>6 DEF PacketInv

\* What only a send changes leaves the reads alone.
LEMMA SameReads ==
  ASSUME PacketInv,
         UNCHANGED <<time, packetOver, packetClosed, readDeadline,
                     writeDeadline, contextDeadline, dropped, preader>>,
         writeContext' \in 0..(DeadlineMoves + 1), psender' \in BlockedCalls,
         WritesInTime', told' = FALSE
  PROVE  PacketInv'
<1>1. PacketTypes /\ ReadsInTime
  BY DEF PacketInv
<1>2. PacketTypes'
  BY <1>1 DEF PacketTypes
<1>3. ReadsInTime'
  BY <1>1 DEF ReadsInTime
<1> QED
  BY <1>2, <1>3 DEF PacketInv

\* A send begins under the current context, or makes the first.
LEMMA SendKeeps ==
  ASSUME PacketInv, SendBegin
  PROVE  PacketInv'
<1>1. UNCHANGED <<time, packetOver, packetClosed, readDeadline, writeDeadline,
                  contextDeadline, dropped, preader, told>>
  BY DEF SendBegin, clockVars
<1>2. PacketTypes /\ WritesInTime /\ ~told /\ writeContext \in Nat
  <2>1. PacketTypes /\ WritesInTime /\ ~told
    BY DEF PacketInv
  <2> QED
    BY SMT, <2>1, PacketAssumption DEF PacketTypes
<1>3. told' = FALSE
  BY <1>1, <1>2 DEF PacketTypes
<1>4. Outside \in BlockedCalls /\ Outside.pc = "out"
  BY SMT DEF Outside, BlockedCalls
<1>5. CASE psender' = Outside /\ writeContext' = writeContext
  <2>1. WritesInTime'
    BY <1>1, <1>2, <1>4, <1>5 DEF WritesInTime
  <2> QED
    BY <1>1, <1>2, <1>3, <1>4, <1>5, <2>1, SameReads DEF PacketTypes
<1>6. CASE /\ writeContext' = IF writeContext = 0 THEN 1 ELSE writeContext
           /\ psender' = [pc |-> "wait", at |-> writeContext', woken |-> FALSE]
  <2>1. PICK w \in Nat : w = writeContext'
    BY SMT, <1>2, <1>6
  <2>2. /\ w \in 1..(DeadlineMoves + 1) /\ writeContext <= w
        /\ w = IF writeContext = 0 THEN 1 ELSE writeContext
    BY SMT, <1>2, <1>6, <2>1, PacketAssumption DEF PacketTypes
  <2>3. psender' = [pc |-> "wait", at |-> w, woken |-> FALSE]
    BY <1>6, <2>1
  <2>4. psender' \in BlockedCalls /\ psender'.at = w
    BY SMT, <2>1, <2>3 DEF BlockedCalls
  <2>5. contextDeadline'[IF writeContext' = 0 THEN 1 ELSE writeContext']
          = writeDeadline'
    <3>1. w # 0
      BY SMT, <2>2
    <3> QED
      BY <1>1, <1>2, <2>1, <2>2, <3>1 DEF WritesInTime
  <2>6. \A g \in dropped' : g \in Nat /\ g < writeContext'
    <3>1. \A g \in dropped : g \in Nat /\ g < writeContext
      BY <1>2 DEF WritesInTime
    <3> QED
      BY SMT, <1>1, <1>2, <2>1, <2>2, <3>1
  <2>7. psender'.at \in 1..writeContext'
    BY SMT, <2>1, <2>2, <2>4
  <2>8. WritesInTime'
    BY <2>5, <2>6, <2>7 DEF WritesInTime
  <2>9. writeContext' \in 0..(DeadlineMoves + 1)
    <3>1. w \in 1..(DeadlineMoves + 1)
      BY <2>2
    <3>2. w \in 0..(DeadlineMoves + 1)
      BY SMT, <2>1, <3>1, PacketAssumption
    <3> QED
      BY <2>1, <3>2
  <2> QED
    BY <1>1, <1>3, <2>4, <2>8, <2>9, SameReads
<1> QED
  BY <1>5, <1>6 DEF SendBegin

\* A send that its context ended reports the deadline only when the deadline in
\* force has passed: only an older context can have been cancelled.
LEMMA SentKeeps ==
  ASSUME PacketInv, Sent
  PROVE  PacketInv'
<1>1. /\ psender.pc = "wait"
      /\ UNCHANGED <<time, packetOver, packetClosed, readDeadline,
                     writeDeadline, writeContext, contextDeadline, dropped,
                     preader>>
  BY DEF Sent, clockVars, writeVars
<1>2. PacketTypes /\ WritesInTime /\ ~told
  BY DEF PacketInv
<1>3. /\ Outside \in BlockedCalls /\ Outside.pc # "wait"
      /\ [Outside EXCEPT !.pc = "loop"] \in BlockedCalls
      /\ [Outside EXCEPT !.pc = "loop"].pc # "wait"
  <2>1. Outside \in BlockedCalls /\ Outside.pc = "out"
    BY SMT DEF Outside, BlockedCalls
  <2> QED
    BY <2>1, CallPlace
<1>4. psender' \in {Outside, [Outside EXCEPT !.pc = "loop"]}
  BY DEF Sent, SendAgain
<1>5. told' = FALSE
  <2>1. CASE UNCHANGED told
    BY <1>2, <2>1 DEF PacketTypes
  <2>2. CASE /\ ContextDone(psender.at)
             /\ packetClosed \/ writeContext = psender.at
             /\ told' = (told \/ ~(packetOver \/ packetClosed
                                     \/ Passed(writeDeadline)))
    <3>1. psender.at \in 1..writeContext
      BY <1>1, <1>2 DEF WritesInTime
    <3>2. ASSUME writeContext = psender.at
          PROVE  /\ psender.at \notin dropped
                 /\ contextDeadline[psender.at] = writeDeadline
      <4>1. \A g \in dropped : g \in Nat /\ g < writeContext
        BY <1>2 DEF WritesInTime
      <4>2. psender.at \notin dropped /\ writeContext # 0
        BY SMT, <3>1, <3>2, <4>1, PacketAssumption, <1>2 DEF PacketTypes
      <4> QED
        BY <1>2, <3>2, <4>2 DEF WritesInTime
    <3>3. packetOver \/ packetClosed \/ Passed(writeDeadline)
      BY <2>2, <3>2 DEF ContextDone
    <3> QED
      BY <1>2, <2>2, <3>3 DEF PacketTypes
  <2> QED
    BY <2>1, <2>2 DEF Sent, SendAgain
<1>6. psender' \in BlockedCalls /\ psender'.pc # "wait"
  BY <1>3, <1>4
<1>7. WritesInTime'
  BY <1>1, <1>2, <1>6 DEF WritesInTime
<1> QED
  BY <1>1, <1>2, <1>5, <1>6, <1>7, SameReads DEF PacketTypes

\* SetWriteDeadline makes a new context current and leaves the old one to be
\* cancelled.
LEMMA SetWriteKeeps ==
  ASSUME PacketInv, NEW t \in Times, SetWriteDeadline(t)
  PROVE  PacketInv'
<1>1. UNCHANGED <<time, packetOver, packetClosed, readDeadline, dropped,
                  preader, psender, told>>
  BY DEF SetWriteDeadline, clockVars
<1>2. PacketTypes /\ ReadsInTime /\ WritesInTime /\ ~told
  BY DEF PacketInv
<1>3. t \in Nat
  BY SMT, PacketAssumption DEF Times
<1>4. PICK w \in Contexts :
        /\ w = (IF writeContext = 0 THEN 1 ELSE writeContext) + 1
        /\ writeDeadline' = t /\ writeContext' = w
        /\ contextDeadline' = [contextDeadline EXCEPT ![w] = t]
  BY DEF SetWriteDeadline
<1>5. /\ w \in Nat /\ w # 0 /\ writeContext \in Nat /\ writeContext < w
      /\ w \in 0..(DeadlineMoves + 1)
  BY SMT, <1>2, <1>4, PacketAssumption DEF PacketTypes, Contexts
<1>6. PacketTypes'
  <2>1. contextDeadline' \in [Contexts -> Nat]
    BY <1>2, <1>3, <1>4 DEF PacketTypes
  <2> QED
    BY <1>1, <1>2, <1>3, <1>4, <1>5, <2>1 DEF PacketTypes
<1>7. ReadsInTime'
  BY <1>1, <1>2 DEF ReadsInTime
<1>8. WritesInTime'
  <2>1. contextDeadline'[w] = t
    BY <1>2, <1>4 DEF PacketTypes
  <2>2. \A g \in dropped : g \in Nat /\ g < w
    <3>1. \A g \in dropped : g \in Nat /\ g < writeContext
      BY <1>2 DEF WritesInTime
    <3> QED
      BY SMT, <1>5, <3>1
  <2>3. psender.pc = "wait" => psender.at \in 1..w
    <3>1. psender.pc = "wait" => psender.at \in 1..writeContext
      BY <1>2 DEF WritesInTime
    <3> QED
      BY SMT, <1>5, <3>1
  <2> QED
    BY <1>1, <1>4, <1>5, <2>1, <2>2, <2>3 DEF WritesInTime
<1> QED
  BY <1>1, <1>2, <1>6, <1>7, <1>8 DEF PacketInv

\* The cancel of a context that was replaced.
LEMMA CancelKeeps ==
  ASSUME PacketInv, NEW g \in Contexts, CancelOld(g)
  PROVE  PacketInv'
<1>1. /\ g \in 1..(writeContext - 1) /\ dropped' = dropped \cup {g}
      /\ UNCHANGED <<time, packetOver, packetClosed, readDeadline,
                     writeDeadline, writeContext, contextDeadline, preader,
                     psender, told>>
  BY DEF CancelOld, clockVars
<1>2. PacketTypes /\ ReadsInTime /\ WritesInTime /\ ~told
  BY DEF PacketInv
<1>3. g \in Nat /\ g < writeContext
  BY SMT, <1>1, <1>2, PacketAssumption DEF PacketTypes
<1>4. PacketTypes' /\ ReadsInTime'
  BY <1>1, <1>2 DEF PacketTypes, ReadsInTime
<1>5. WritesInTime'
  BY <1>1, <1>2, <1>3 DEF WritesInTime
<1> QED
  BY <1>1, <1>2, <1>4, <1>5 DEF PacketInv

\* The connection is closed, or ends; time passes.
LEMMA PacketRestKeeps ==
  ASSUME PacketInv, PacketClose \/ PacketEnds \/ PacketTick
  PROVE  PacketInv'
<1>1. UNCHANGED <<readDeadline, writeDeadline, writeContext, contextDeadline,
                  dropped, psender, told>>
  BY DEF PacketClose, PacketEnds, PacketTick, writeVars
<1>2. PacketTypes /\ ReadsInTime /\ WritesInTime /\ ~told
  BY DEF PacketInv
<1>3. time' \in Nat
  BY SMT, <1>2 DEF PacketTypes, PacketClose, PacketEnds, PacketTick
<1>4. packetOver' \in BOOLEAN /\ packetClosed' \in BOOLEAN
  BY <1>2 DEF PacketTypes, PacketClose, PacketEnds, PacketTick
<1>5. preader' \in [PacketReaders -> BlockedCalls] /\ ReadsInTime'
  <2>1. CASE preader' = WakeReaders
    BY <1>2, <2>1, Woken
  <2>2. CASE preader' = preader
    BY <1>1, <1>2, <2>2 DEF PacketTypes, ReadsInTime
  <2> QED
    BY <2>1, <2>2 DEF PacketClose, PacketEnds, PacketTick
<1>6. PacketTypes'
  BY <1>1, <1>2, <1>3, <1>4, <1>5 DEF PacketTypes
<1>7. WritesInTime'
  BY <1>1, <1>2 DEF WritesInTime
<1> QED
  BY <1>1, <1>2, <1>5, <1>6, <1>7 DEF PacketInv

\* Every step keeps the invariant.
LEMMA PacketStep == PacketInv /\ [PacketNext]_packetVars => PacketInv'
<1> SUFFICES ASSUME PacketInv, [PacketNext]_packetVars PROVE PacketInv'
  OBVIOUS
<1>1. CASE UNCHANGED packetVars
  <2>1. UNCHANGED <<time, packetOver, packetClosed, readDeadline,
                    writeDeadline, writeContext, contextDeadline, dropped,
                    preader, psender, told>>
    BY <1>1 DEF packetVars, clockVars, writeVars
  <2> QED
    BY <2>1 DEF PacketInv, PacketTypes, ReadsInTime, WritesInTime
<1> QED
  BY <1>1, ReadKeepsDeadline, SetReadKeeps, SetWriteKeeps, CancelKeeps,
     SendKeeps, SentKeeps, PacketRestKeeps DEF PacketNext

(* A blocked read or write of a packet connection keeps to the deadline    *)
(* now in force, however often it was moved under it, for any number of    *)
(* readers and of moves (conn_udp.go: ReadFrom, SetReadDeadline,           *)
(* sendWithWriteDeadline, SetWriteDeadline).                               *)
THEOREM DeadlinesHold ==
  PacketInit /\ [][PacketNext]_packetVars => []DeadlinesKept
<1>1. PacketInv => DeadlinesKept
  <2> SUFFICES ASSUME PacketInv PROVE DeadlinesKept
    OBVIOUS
  <2>1. ReadsInTime /\ WritesInTime /\ ~told /\ PacketTypes
    BY DEF PacketInv
  <2>2. ASSUME psender.pc = "wait", ~(psender.at < writeContext)
        PROVE  contextDeadline[psender.at] = writeDeadline
    <3>1. psender.at \in 1..writeContext
      BY <2>1, <2>2 DEF WritesInTime
    <3>2. psender.at = writeContext /\ writeContext # 0
      BY SMT, <2>1, <2>2, <3>1, PacketAssumption DEF PacketTypes
    <3> QED
      BY <2>1, <3>2 DEF WritesInTime
  <2> QED
    BY <2>1, <2>2 DEF DeadlinesKept, ReadsInTime
<1> QED
  BY <1>1, PacketStart, PacketStep, PTL

-----------------------------------------------------------------------------
(* The queue of pipe writes *)

PipeNotes ==
  [kind : {"data", "fin"},
   fate : {"none", "queued", "done", "failed", "dropped"},
   answer : {"none", "ok", "kept", "refused"}]
WriterCalls ==
  [pc : {"idle", "acquire", "submit", "await", "tail"}, n : Nat, req : Nat]

PipeTypes ==
  /\ token \in BOOLEAN /\ finished \in BOOLEAN /\ failed \in BOOLEAN
  /\ shut \in BOOLEAN /\ due \in BOOLEAN
  /\ jobs \in Seq(Requests)
  /\ worker \in [pc : {"new", "idle", "busy", "stopping", "exited"}, req : Nat]
  /\ refs \in [Requests -> Nat] /\ serves \in [Requests -> Nat]
  /\ result \in [Requests -> Seq({"ok", "fail", "closed"})]
  /\ wcall \in [Writers -> WriterCalls]
  /\ note \in Seq(PipeNotes) /\ Len(note) <= PipeCalls

\* The request the worker has or will have, or 0.
Job == IF jobs # <<>> THEN jobs[1] ELSE worker.req
Leaving == {"stopping", "exited"}
Leasing(c) == wcall[c].pc \in {"submit", "await"}
HeldBy(r) == \E c \in Writers : Leasing(c) /\ wcall[c].req = r
FinDone == \E m \in DOMAIN note : note[m].kind = "fin" /\ note[m].fate = "done"

\* One writer between acquire and submit, or one job, has the gate's token.
GateInv ==
  /\ jobs = <<>> \/ \E r \in Requests : jobs = <<r>>
  /\ worker.pc \in {"busy", "stopping", "exited"} => jobs = <<>>
  /\ IF worker.pc = "busy" THEN worker.req \in Requests ELSE worker.req = 0
  /\ token => Job = 0
  /\ \A c \in Writers : wcall[c].pc = "submit" => ~token /\ Job = 0
  /\ \A c, d \in Writers :
       wcall[c].pc = "submit" /\ wcall[d].pc = "submit" => c = d

\* A request has a reference of the caller it serves and one of the worker; its
\* result waits for that caller alone.
LeaseInv ==
  /\ \A c \in Writers : Leasing(c) =>
       wcall[c].req \in Requests /\ serves[wcall[c].req] = wcall[c].n
  /\ \A c, d \in Writers :
       Leasing(c) /\ Leasing(d) /\ wcall[c].req = wcall[d].req => c = d
  /\ \A r \in Requests :
       refs[r] = IF HeldBy(r) THEN (IF Job = r THEN 2 ELSE 1)
                 ELSE (IF Job = r THEN 1 ELSE 0)
  /\ \A r \in Requests : result[r] # <<>> =>
       /\ Job # r
       /\ \E c \in Writers : wcall[c].pc = "await" /\ wcall[c].req = r

\* A call has one caller and at most one request.
CallInv ==
  /\ \A c \in Writers : wcall[c].pc # "idle" =>
       wcall[c].n \in DOMAIN note /\ note[wcall[c].n].answer = "none"
  /\ \A c, d \in Writers :
       wcall[c].pc # "idle" /\ wcall[d].pc # "idle" /\ wcall[c].n = wcall[d].n
         => c = d
  /\ \A c \in Writers : wcall[c].pc \in {"acquire", "submit", "tail"} =>
       note[wcall[c].n].fate = "none"
  /\ \A c \in Writers : wcall[c].pc = "tail" =>
       note[wcall[c].n].kind = "fin" /\ finished
  /\ \A r \in Requests : refs[r] # 0 =>
       /\ serves[r] \in DOMAIN note
       /\ \A c \in Writers :
            wcall[c].pc \in {"acquire", "tail"} => wcall[c].n # serves[r]
  /\ \A r, q \in Requests :
       refs[r] # 0 /\ refs[q] # 0 /\ serves[r] = serves[q] => r = q

\* The result that waits for a caller says what became of its bytes.
Waiting(r, n) ==
  \/ result[r] = <<"ok">> /\ note[n].fate = "done"
  \/ result[r] = <<"fail">> /\ note[n].fate = "failed"
  \/ result[r] = <<"closed">> /\ note[n].fate = "dropped"

\* What the caller of n was told is so.
Truth(n) ==
  /\ note[n].answer = "refused" => note[n].fate \in {"none", "failed"}
  /\ note[n].answer = "kept" => note[n].fate # "none"
  /\ note[n].answer = "ok" /\ note[n].kind = "data" => note[n].fate = "done"
  /\ note[n].answer = "ok" /\ note[n].kind = "fin" => shut \/ FinDone

FateInv ==
  /\ Job # 0 => note[serves[Job]].fate = "queued"
  /\ Job # 0 /\ note[serves[Job]].kind = "fin" => finished
  /\ \A n \in DOMAIN note :
       note[n].fate = "queued" => Job # 0 /\ serves[Job] = n
  /\ \A c \in Writers : wcall[c].pc = "await" /\ wcall[c].req # Job =>
       Waiting(wcall[c].req, wcall[c].n)
  /\ \A n \in DOMAIN note : Truth(n)

\* The worker leaves for a reason that keeps every later request out.
LeaveInv ==
  /\ FinDone => finished /\ worker.pc \in Leaving
  /\ failed => worker.pc \in Leaving
  /\ worker.pc \in Leaving => shut \/ failed \/ FinDone

PipeInv ==
  PipeTypes /\ GateInv /\ LeaseInv /\ CallInv /\ FateInv /\ LeaveInv

-----------------------------------------------------------------------------

\* The worker's request is one of the pool's.
LEMMA JobFacts ==
  ASSUME PipeInv
  PROVE  /\ Job \in Requests \cup {0} /\ 0 \notin Requests
         /\ Job # 0 => refs[Job] # 0 /\ ~token /\ serves[Job] \in DOMAIN note
         /\ worker.pc = "busy" => Job = worker.req /\ Job # 0
         /\ jobs # <<>> => Job = Head(jobs) /\ Job # 0
         /\ jobs = <<>> /\ worker.pc # "busy" => Job = 0
<1>1. PipeTypes /\ GateInv /\ LeaseInv /\ CallInv
  BY DEF PipeInv
<1>2. 0 \notin Requests
  BY SMT DEF Requests, Calls
<1>3. jobs # <<>> => \E r \in Requests : jobs = <<r>> /\ Job = r
  <2> SUFFICES ASSUME jobs # <<>>
               PROVE  \E r \in Requests : jobs = <<r>> /\ Job = r
    OBVIOUS
  <2>1. PICK r \in Requests : jobs = <<r>>
    BY <1>1 DEF GateInv
  <2>2. <<r>>[1] = r
    BY SMT
  <2> QED
    BY <2>1, <2>2 DEF Job
<1>4. jobs = <<>> => Job = worker.req
  BY DEF Job
<1>5. Job \in Requests \cup {0}
  BY <1>1, <1>3, <1>4 DEF GateInv
<1>6. ASSUME Job # 0
      PROVE  refs[Job] # 0 /\ ~token /\ serves[Job] \in DOMAIN note
  <2>1. Job \in Requests
    BY <1>5, <1>6
  <2>2. refs[Job] \in {1, 2}
    BY <1>1, <2>1 DEF LeaseInv
  <2>3. refs[Job] # 0
    BY SMT, <2>2
  <2> QED
    BY <1>1, <1>6, <2>1, <2>3 DEF GateInv, CallInv
<1>7. worker.pc = "busy" => Job = worker.req /\ Job # 0
  BY <1>1, <1>2, <1>4 DEF GateInv
<1>8. jobs # <<>> => Job = Head(jobs) /\ Job # 0
  <2>1. \A r : Head(<<r>>) = r
    BY SMT
  <2> QED
    BY <1>2, <1>3, <2>1
<1>9. jobs = <<>> /\ worker.pc # "busy" => Job = 0
  BY <1>1, <1>4 DEF GateInv
<1> QED
  BY <1>2, <1>5, <1>6, <1>7, <1>8, <1>9

\* The first queue is empty.
LEMMA PipeStart == PipeInit => PipeInv
<1> SUFFICES ASSUME PipeInit PROVE PipeInv
  OBVIOUS
<1> DEFINE rest == [pc |-> "idle", n |-> 0, req |-> 0]
<1>1. /\ rest \in WriterCalls /\ rest.pc = "idle" /\ rest.req = 0
      /\ <<>> \in Seq(Requests) /\ <<>> \in Seq(PipeNotes) /\ Len(<<>>) = 0
      /\ <<>> \in Seq({"ok", "fail", "closed"}) /\ DOMAIN <<>> = {}
      /\ 0 <= PipeCalls /\ 0 \in Nat
  BY SMT, PipeAssumption DEF WriterCalls
<1>2. /\ worker \in [pc : {"new", "idle", "busy", "stopping", "exited"},
                     req : Nat]
      /\ worker.pc = "new" /\ worker.req = 0
  BY SMT DEF PipeInit
<1> HIDE DEF rest
<1>3. /\ wcall = [c \in Writers |-> rest] /\ jobs = <<>> /\ note = <<>>
      /\ finished = FALSE /\ failed = FALSE /\ shut = FALSE /\ due = FALSE
      /\ token = TRUE
      /\ refs = [r \in Requests |-> 0] /\ serves = [r \in Requests |-> 0]
      /\ result = [r \in Requests |-> <<>>]
  BY DEF PipeInit, rest
<1>4. PipeTypes
  BY <1>1, <1>2, <1>3 DEF PipeTypes
<1>5. Job = 0
  BY <1>2, <1>3 DEF Job
<1>6. \A c \in Writers : wcall[c] = rest
  BY <1>3
<1>7. GateInv
  BY <1>1, <1>2, <1>3, <1>5, <1>6 DEF GateInv
<1>8. \A c \in Writers : ~Leasing(c)
  BY <1>1, <1>6 DEF Leasing
<1>9. \A r \in Requests : r # 0
  BY SMT DEF Requests, Calls
<1>10. LeaseInv
  BY <1>3, <1>5, <1>8, <1>9 DEF LeaseInv, HeldBy
<1>11. CallInv
  BY <1>1, <1>3, <1>6 DEF CallInv
<1>12. FateInv
  BY <1>1, <1>3, <1>5, <1>6 DEF FateInv
<1>13. LeaveInv
  BY <1>1, <1>2, <1>3 DEF LeaveInv, FinDone, Leaving
<1> QED
  BY <1>4, <1>7, <1>10, <1>11, <1>12, <1>13 DEF PipeInv

\* The types of the elements.
LEMMA ElementTypes ==
  ASSUME PipeTypes
  PROVE  /\ \A c \in Writers : wcall[c] \in WriterCalls
         /\ \A n \in DOMAIN note : note[n] \in PipeNotes /\ n \in Requests
<1>1. \A c \in Writers : wcall[c] \in WriterCalls
  BY DEF PipeTypes
<1>2. note \in Seq(PipeNotes) /\ Len(note) <= PipeCalls
  BY DEF PipeTypes
<1>3. \A n \in DOMAIN note : note[n] \in PipeNotes /\ n \in Requests
  BY SMT, <1>2, PipeAssumption DEF Requests, Calls
<1> QED
  BY <1>1, <1>3

\* A call that goes on.
LEMMA CallGoesOn ==
  ASSUME PipeTypes, NEW c \in Writers, NEW k \in {"await", "tail"}
  PROVE  /\ [wcall[c] EXCEPT !.pc = k] \in WriterCalls
         /\ [wcall[c] EXCEPT !.pc = k].pc = k
         /\ [wcall[c] EXCEPT !.pc = k].n = wcall[c].n
         /\ [wcall[c] EXCEPT !.pc = k].req = wcall[c].req
<1>1. wcall[c] \in WriterCalls
  BY ElementTypes
<1> QED
  BY <1>1 DEF WriterCalls

\* One writer's call changes.
LEMMA CallerMoves ==
  ASSUME PipeTypes, NEW c \in Writers, NEW x \in WriterCalls,
         wcall' = [wcall EXCEPT ![c] = x]
  PROVE  /\ wcall' \in [Writers -> WriterCalls] /\ wcall'[c] = x
         /\ \A d \in Writers : d # c => wcall'[d] = wcall[d]
BY DEF PipeTypes

\* The fields of a note that changes.
LEMMA NoteChanges ==
  ASSUME PipeTypes, NEW n \in DOMAIN note, NEW x \in PipeNotes,
         note' = [note EXCEPT ![n] = x]
  PROVE  /\ note' \in Seq(PipeNotes) /\ Len(note') = Len(note)
         /\ DOMAIN note' = DOMAIN note /\ note'[n] = x
         /\ \A m \in DOMAIN note : note[m] \in PipeNotes
         /\ \A m \in DOMAIN note : m # n => note'[m] = note[m]
BY SMT DEF PipeTypes

\* The calls with a request, the requests and the worker's job are as before.
LEMMA LeaseStays ==
  ASSUME LeaseInv, Job' = Job, UNCHANGED <<refs, serves, result>>,
         \A d \in Writers : Leasing(d)' <=> Leasing(d),
         \A d \in Writers : Leasing(d) => wcall'[d] = wcall[d]
  PROVE  LeaseInv'
<1>1. \A r : HeldBy(r)' <=> HeldBy(r)
  BY DEF HeldBy
<1>2. \A c \in Writers : Leasing(c)' =>
        wcall'[c].req \in Requests /\ serves'[wcall'[c].req] = wcall'[c].n
  BY DEF LeaseInv
<1>3. \A c, d \in Writers :
        Leasing(c)' /\ Leasing(d)' /\ wcall'[c].req = wcall'[d].req => c = d
  BY DEF LeaseInv
<1>4. \A r \in Requests :
        refs'[r] = IF HeldBy(r)' THEN (IF Job' = r THEN 2 ELSE 1)
                   ELSE (IF Job' = r THEN 1 ELSE 0)
  BY <1>1 DEF LeaseInv
<1>5. \A r \in Requests : result'[r] # <<>> =>
        /\ Job' # r
        /\ \E c \in Writers : wcall'[c].pc = "await" /\ wcall'[c].req = r
  BY SMT DEF LeaseInv, Leasing
<1> QED
  BY <1>2, <1>3, <1>4, <1>5 DEF LeaseInv

\* Steps of the worker and of Close that complete no request, and the clock.
LEMMA PipeRestKeeps ==
  ASSUME PipeInv,
         UNCHANGED <<wcall, note, refs, serves, result, token, finished,
                     failed>>,
         Job' = Job, shut' \in BOOLEAN, due' \in BOOLEAN, shut => shut',
         jobs' \in Seq(Requests),
         worker' \in [pc : {"new", "idle", "busy", "stopping", "exited"},
                      req : Nat],
         jobs' = <<>> \/ \E r \in Requests : jobs' = <<r>>,
         worker'.pc \in {"busy", "stopping", "exited"} => jobs' = <<>>,
         IF worker'.pc = "busy" THEN worker'.req \in Requests
         ELSE worker'.req = 0,
         worker.pc \in Leaving => worker'.pc \in Leaving,
         worker'.pc \in Leaving => worker.pc \in Leaving \/ shut'
  PROVE  PipeInv'
<1>1. PipeTypes /\ GateInv /\ LeaseInv /\ CallInv /\ FateInv /\ LeaveInv
  BY DEF PipeInv
<1>2. /\ token' = token /\ token \in BOOLEAN
      /\ finished' = finished /\ finished \in BOOLEAN
      /\ failed' = failed /\ failed \in BOOLEAN
  BY <1>1 DEF PipeTypes
<1>3. PipeTypes'
  BY <1>1, <1>2 DEF PipeTypes
<1>4. GateInv'
  BY SMT, <1>1, <1>2 DEF GateInv
<1>5. LeaseInv'
  BY <1>1, LeaseStays DEF Leasing
<1>6. CallInv'
  BY SMT, <1>1, <1>2 DEF CallInv
<1>7. FinDone' <=> FinDone
  BY DEF FinDone
<1>8. FateInv'
  <2>1. \A n \in DOMAIN note : Truth(n)'
    BY <1>1, <1>7 DEF FateInv, Truth
  <2>2. \A c \in Writers : wcall'[c].pc = "await" /\ wcall'[c].req # Job' =>
          Waiting(wcall[c].req, wcall[c].n)'
    BY <1>1 DEF FateInv, Waiting
  <2> QED
    BY SMT, <1>1, <1>2, <2>1, <2>2 DEF FateInv
<1>9. LeaveInv'
  BY SMT, <1>1, <1>2, <1>7 DEF LeaveInv
<1> QED
  BY <1>3, <1>4, <1>5, <1>6, <1>8, <1>9 DEF PipeInv

\* Write, WriteDatagrams and CloseWrite begin a call of their own.
LEMMA EnterKeeps ==
  ASSUME PipeInv, NEW c \in Writers, NEW kind \in {"data", "fin"},
         Enter(c, kind)
  PROVE  PipeInv'
<1> DEFINE k == Len(note) + 1
           y == [kind |-> kind, fate |-> "none", answer |-> "none"]
           x == [pc |-> IF kind = "fin" /\ finished THEN "tail" ELSE "acquire",
                 n |-> k, req |-> 0]
<1>1. PipeTypes /\ GateInv /\ LeaseInv /\ CallInv /\ FateInv /\ LeaveInv
  BY DEF PipeInv
<1>2. /\ wcall[c].pc = "idle" /\ Len(note) < PipeCalls
      /\ note' = Append(note, y) /\ wcall' = [wcall EXCEPT ![c] = x]
      /\ worker' = worker \/ worker' = Start(worker)
  BY DEF Enter
<1>3. /\ UNCHANGED <<jobs, refs, result, serves>>
      /\ token' = token /\ token \in BOOLEAN
      /\ finished' = finished /\ finished \in BOOLEAN
      /\ failed' = failed /\ failed \in BOOLEAN
      /\ shut' = shut /\ shut \in BOOLEAN /\ due' = due /\ due \in BOOLEAN
  BY <1>1 DEF Enter, queueVars, poolVars, PipeTypes
<1>4. /\ note' \in Seq(PipeNotes) /\ Len(note') <= PipeCalls
      /\ DOMAIN note' = DOMAIN note \cup {k} /\ k \notin DOMAIN note
      /\ note'[k] = y /\ \A m \in DOMAIN note : note'[m] = note[m]
      /\ k \in Nat
  BY SMT, <1>1, <1>2, PipeAssumption DEF PipeTypes, PipeNotes
<1>5. /\ x \in WriterCalls /\ x.pc \in {"acquire", "tail"} /\ x.n = k
      /\ x.pc = "tail" => kind = "fin" /\ finished
  BY SMT, <1>4 DEF WriterCalls
<1>6. y.fate = "none" /\ y.answer = "none" /\ y.kind = kind
  BY SMT
<1>7. /\ worker' \in [pc : {"new", "idle", "busy", "stopping", "exited"},
                      req : Nat]
      /\ worker'.req = worker.req
      /\ worker'.pc = worker.pc \/ (worker.pc = "new" /\ worker'.pc = "idle")
  BY SMT, <1>1, <1>2 DEF PipeTypes, Start
<1> HIDE DEF k, x, y
<1>8. /\ wcall' \in [Writers -> WriterCalls] /\ wcall'[c] = x
      /\ \A d \in Writers : d # c => wcall'[d] = wcall[d]
  BY <1>1, <1>2, <1>5, CallerMoves
<1>9. Job' = Job
  BY <1>3, <1>7 DEF Job
<1>10. PipeTypes'
  BY <1>1, <1>3, <1>4, <1>7, <1>8 DEF PipeTypes
<1>11. \A d \in Writers : wcall'[d].pc = "submit" =>
         d # c /\ wcall'[d] = wcall[d]
  BY <1>5, <1>8
<1>12. GateInv'
  <2>1. \/ jobs' = <<>>
        \/ \E r \in Requests : jobs' = <<r>>
    BY <1>1, <1>3 DEF GateInv
  <2>2. worker'.pc \in {"busy", "stopping", "exited"} => jobs' = <<>>
    BY <1>1, <1>3, <1>7 DEF GateInv
  <2>3. IF worker'.pc = "busy" THEN worker'.req \in Requests
        ELSE worker'.req = 0
    BY <1>1, <1>7 DEF GateInv
  <2> QED
    BY <1>1, <1>3, <1>9, <1>11, <2>1, <2>2, <2>3 DEF GateInv
<1>13. LeaseInv'
  <2>1. \A d \in Writers : Leasing(d)' <=> Leasing(d)
    BY <1>2, <1>5, <1>8 DEF Leasing
  <2>2. \A d \in Writers : Leasing(d) => wcall'[d] = wcall[d]
    BY <1>2, <1>8 DEF Leasing
  <2> QED
    BY <1>1, <1>3, <1>9, <2>1, <2>2, LeaseStays
<1>14. CallInv'
  <2>1. \A d \in Writers : wcall'[d].pc # "idle" =>
          /\ wcall'[d].n \in DOMAIN note'
          /\ note'[wcall'[d].n].answer = "none"
    <3> SUFFICES ASSUME NEW d \in Writers, wcall'[d].pc # "idle"
                 PROVE  /\ wcall'[d].n \in DOMAIN note'
                        /\ note'[wcall'[d].n].answer = "none"
      OBVIOUS
    <3>1. CASE d = c
      BY <1>4, <1>5, <1>6, <1>8, <3>1
    <3>2. CASE d # c
      BY SMT, <1>1, <1>4, <1>8, <3>2 DEF CallInv
    <3> QED
      BY <3>1, <3>2
  <2>2. \A b, d \in Writers :
          /\ wcall'[b].pc # "idle" /\ wcall'[d].pc # "idle"
          /\ wcall'[b].n = wcall'[d].n
          => b = d
    <3>1. \A d \in Writers : d # c /\ wcall'[d].pc # "idle" => wcall'[d].n # k
      BY SMT, <1>1, <1>4, <1>8 DEF CallInv
    <3>2. wcall'[c].n = k
      BY <1>5, <1>8
    <3> QED
      BY SMT, <1>1, <1>8, <3>1, <3>2 DEF CallInv
  <2>3. \A d \in Writers : wcall'[d].pc \in {"acquire", "submit", "tail"} =>
          note'[wcall'[d].n].fate = "none"
    <3> SUFFICES ASSUME NEW d \in Writers,
                        wcall'[d].pc \in {"acquire", "submit", "tail"}
                 PROVE  note'[wcall'[d].n].fate = "none"
      OBVIOUS
    <3>1. CASE d = c
      BY <1>4, <1>5, <1>6, <1>8, <3>1
    <3>2. CASE d # c
      BY SMT, <1>1, <1>4, <1>8, <3>2 DEF CallInv
    <3> QED
      BY <3>1, <3>2
  <2>4. \A d \in Writers : wcall'[d].pc = "tail" =>
          note'[wcall'[d].n].kind = "fin" /\ finished'
    <3> SUFFICES ASSUME NEW d \in Writers, wcall'[d].pc = "tail"
                 PROVE  note'[wcall'[d].n].kind = "fin" /\ finished'
      OBVIOUS
    <3>1. CASE d = c
      BY <1>3, <1>4, <1>5, <1>6, <1>8, <3>1
    <3>2. CASE d # c
      BY SMTT(20), <1>1, <1>3, <1>4, <1>8, <3>2 DEF CallInv
    <3> QED
      BY <3>1, <3>2
  <2>5. \A r \in Requests : refs'[r] # 0 =>
          /\ serves'[r] \in DOMAIN note'
          /\ \A d \in Writers :
               wcall'[d].pc \in {"acquire", "tail"} => wcall'[d].n # serves'[r]
    <3> SUFFICES ASSUME NEW r \in Requests, refs'[r] # 0
                 PROVE  /\ serves'[r] \in DOMAIN note'
                        /\ \A d \in Writers :
                             wcall'[d].pc \in {"acquire", "tail"} =>
                               wcall'[d].n # serves'[r]
      OBVIOUS
    <3>1. serves[r] \in DOMAIN note
      BY <1>1, <1>3 DEF CallInv
    <3>2. wcall'[c].n # serves[r]
      BY <1>4, <1>5, <1>8, <3>1
    <3> QED
      BY SMT, <1>1, <1>3, <1>4, <1>8, <3>1, <3>2 DEF CallInv
  <2>6. \A r, q \in Requests :
          refs'[r] # 0 /\ refs'[q] # 0 /\ serves'[r] = serves'[q] => r = q
    BY <1>1, <1>3 DEF CallInv
  <2> QED
    BY <2>1, <2>2, <2>3, <2>4, <2>5, <2>6 DEF CallInv
<1>15. FinDone' <=> FinDone
  <2>1. y.fate # "done"
    BY <1>6
  <2> QED
    BY <1>4, <2>1 DEF FinDone
<1>16. FateInv'
  <2>1. Job # 0 => serves[Job] \in DOMAIN note
    BY JobFacts
  <2>2. \A n \in DOMAIN note' : Truth(n)'
    <3> SUFFICES ASSUME NEW n \in DOMAIN note' PROVE Truth(n)'
      OBVIOUS
    <3>1. CASE n = k
      BY <1>4, <1>6, <3>1 DEF Truth
    <3>2. CASE n # k
      <4>1. n \in DOMAIN note /\ note'[n] = note[n]
        BY <1>4, <3>2
      <4> QED
        BY <1>1, <1>3, <1>15, <4>1 DEF FateInv, Truth
    <3> QED
      BY <3>1, <3>2
  <2>3. \A d \in Writers : wcall'[d].pc = "await" /\ wcall'[d].req # Job' =>
          Waiting(wcall[d].req, wcall[d].n)'
    <3> SUFFICES ASSUME NEW d \in Writers, wcall'[d].pc = "await",
                        wcall'[d].req # Job'
                 PROVE  Waiting(wcall[d].req, wcall[d].n)'
      OBVIOUS
    <3>1. wcall'[d] = wcall[d]
      BY <1>5, <1>8
    <3>2. wcall[d].n \in DOMAIN note
      BY <1>1, <3>1 DEF CallInv
    <3> QED
      BY <1>1, <1>3, <1>4, <1>9, <3>1, <3>2 DEF FateInv, Waiting
  <2> QED
    BY <1>1, <1>3, <1>4, <1>6, <1>9, <2>1, <2>2, <2>3 DEF FateInv, Waiting
<1>17. LeaveInv'
  <2>1. worker'.pc \in Leaving <=> worker.pc \in Leaving
    BY <1>7 DEF Leaving
  <2> QED
    BY <1>1, <1>3, <1>15, <2>1 DEF LeaveInv
<1> QED
  BY <1>10, <1>12, <1>13, <1>14, <1>16, <1>17 DEF PipeInv

\* A caller returns and is told what became of its call.
LEMMA AnswerKeeps ==
  ASSUME PipeInv, NEW c \in Writers, wcall[c].pc # "idle",
         NEW ans \in {"ok", "kept", "refused"}, Answer(c, ans),
         ans = "refused" => note[wcall[c].n].fate \in {"none", "failed"},
         ans = "kept" => note[wcall[c].n].fate # "none",
         ans = "ok" /\ note[wcall[c].n].kind = "data" =>
           note[wcall[c].n].fate = "done",
         ans = "ok" /\ note[wcall[c].n].kind = "fin" => shut \/ FinDone,
         UNCHANGED <<finished, failed, shut, due, serves, jobs, worker>>,
         token' \in BOOLEAN, refs' \in [Requests -> Nat],
         result' \in [Requests -> Seq({"ok", "fail", "closed"})],
         \A r \in Requests : refs'[r] # 0 => refs[r] # 0,
         \A d \in Writers : d # c /\ Leasing(d) =>
           result'[wcall[d].req] = result[wcall[d].req],
         GateInv', LeaseInv'
  PROVE  PipeInv'
<1> DEFINE n == wcall[c].n
           y == [note[n] EXCEPT !.answer = ans]
           x == [pc |-> "idle", n |-> 0, req |-> 0]
<1>1. PipeTypes /\ GateInv /\ LeaseInv /\ CallInv /\ FateInv /\ LeaveInv
  BY DEF PipeInv
<1>2. n \in DOMAIN note
  BY <1>1 DEF CallInv
<1>3. /\ finished' = finished /\ finished \in BOOLEAN
      /\ failed' = failed /\ failed \in BOOLEAN
      /\ shut' = shut /\ shut \in BOOLEAN /\ due' = due /\ due \in BOOLEAN
  BY <1>1 DEF PipeTypes
<1>4. /\ y \in PipeNotes /\ y.kind = note[n].kind /\ y.fate = note[n].fate
      /\ y.answer = ans
  <2>1. note[n] \in PipeNotes
    BY SMTT(20), <1>1, <1>2 DEF PipeTypes
  <2> QED
    BY SMT, <2>1 DEF PipeNotes
<1>5. x \in WriterCalls /\ x.pc = "idle"
  BY SMT DEF WriterCalls
<1>6. note' = [note EXCEPT ![n] = y] /\ wcall' = [wcall EXCEPT ![c] = x]
  BY DEF Answer
<1> HIDE DEF x, y
<1>7. /\ wcall' \in [Writers -> WriterCalls] /\ wcall'[c] = x
      /\ \A d \in Writers : d # c => wcall'[d] = wcall[d]
  BY <1>1, <1>5, <1>6, CallerMoves
<1>8. /\ note' \in Seq(PipeNotes) /\ Len(note') = Len(note)
      /\ DOMAIN note' = DOMAIN note /\ note'[n] = y
      /\ \A m \in DOMAIN note : m # n => note'[m] = note[m]
  BY <1>1, <1>2, <1>4, <1>6, NoteChanges
<1>9. \A m \in DOMAIN note :
        note'[m].fate = note[m].fate /\ note'[m].kind = note[m].kind
  BY <1>4, <1>8
<1>10. PipeTypes'
  BY <1>1, <1>3, <1>7, <1>8 DEF PipeTypes
<1>11. Job' = Job
  BY DEF Job
<1>12. \A d \in Writers : wcall'[d].pc # "idle" =>
         /\ d # c /\ wcall'[d] = wcall[d] /\ wcall[d].n \in DOMAIN note
         /\ wcall[d].n # n
  BY SMT, <1>1, <1>5, <1>7 DEF CallInv
<1>13. CallInv'
  <2>1. \A d \in Writers : wcall'[d].pc # "idle" =>
          /\ wcall'[d].n \in DOMAIN note'
          /\ note'[wcall'[d].n].answer = "none"
    BY SMTT(20), <1>1, <1>8, <1>12 DEF CallInv
  <2>2. \A b, d \in Writers :
          /\ wcall'[b].pc # "idle" /\ wcall'[d].pc # "idle"
          /\ wcall'[b].n = wcall'[d].n
          => b = d
    BY SMTT(20), <1>1, <1>12 DEF CallInv
  <2>3. \A d \in Writers : wcall'[d].pc \in {"acquire", "submit", "tail"} =>
          note'[wcall'[d].n].fate = "none"
    BY SMTT(20), <1>1, <1>9, <1>12 DEF CallInv
  <2>4. \A d \in Writers : wcall'[d].pc = "tail" =>
          note'[wcall'[d].n].kind = "fin" /\ finished'
    BY SMTT(20), <1>1, <1>3, <1>9, <1>12 DEF CallInv
  <2>5. \A r \in Requests : refs'[r] # 0 =>
          /\ serves'[r] \in DOMAIN note'
          /\ \A d \in Writers :
               wcall'[d].pc \in {"acquire", "tail"} => wcall'[d].n # serves'[r]
    BY SMTT(20), <1>1, <1>8, <1>12 DEF CallInv
  <2>6. \A r, q \in Requests :
          refs'[r] # 0 /\ refs'[q] # 0 /\ serves'[r] = serves'[q] => r = q
    BY <1>1 DEF CallInv
  <2> QED
    BY ZenonT(30), <2>1, <2>2, <2>3, <2>4, <2>5, <2>6 DEF CallInv
<1>14. FinDone' <=> FinDone
  BY ZenonT(30), <1>8, <1>9 DEF FinDone
<1>15. FateInv'
  <2>1. Job # 0 => serves[Job] \in DOMAIN note
    BY JobFacts
  <2>2. \A m \in DOMAIN note' : Truth(m)'
    <3> SUFFICES ASSUME NEW m \in DOMAIN note' PROVE Truth(m)'
      BY ZenonT(30)
    <3>1. CASE m = n
      BY SMTT(20), <1>3, <1>4, <1>8, <1>14, <3>1 DEF Truth
    <3>2. CASE m # n
      <4>1. m \in DOMAIN note /\ note'[m] = note[m]
        BY <1>8, <3>2
      <4> QED
        BY SMTT(20), <1>1, <1>3, <1>14, <4>1 DEF FateInv, Truth
    <3> QED
      BY <3>1, <3>2
  <2>3. \A d \in Writers : wcall'[d].pc = "await" /\ wcall'[d].req # Job' =>
          Waiting(wcall[d].req, wcall[d].n)'
    <3> SUFFICES ASSUME NEW d \in Writers, wcall'[d].pc = "await",
                        wcall'[d].req # Job'
                 PROVE  Waiting(wcall[d].req, wcall[d].n)'
      OBVIOUS
    <3>1. wcall'[d] = wcall[d] /\ d # c /\ wcall[d].n \in DOMAIN note
      BY <1>12
    <3>2. result'[wcall[d].req] = result[wcall[d].req]
      BY <3>1 DEF Leasing
    <3>3. Waiting(wcall[d].req, wcall[d].n)
      BY <1>1, <1>11, <3>1 DEF FateInv
    <3> QED
      BY <1>9, <3>1, <3>2, <3>3 DEF Waiting
  <2> QED
    BY SMTT(20), <1>1, <1>3, <1>8, <1>9, <1>11, <2>1, <2>2, <2>3 DEF FateInv
<1>16. LeaveInv'
  BY SMT, <1>1, <1>3, <1>14 DEF LeaveInv
<1> QED
  BY <1>10, <1>13, <1>15, <1>16 DEF PipeInv

\* A CloseWrite that lost to another one waits for that one.
LEMMA TailKeeps ==
  ASSUME PipeInv, NEW c \in Writers, wcall[c].pc \in {"acquire", "submit"},
         wcall' = [wcall EXCEPT ![c].pc = "tail"],
         note[wcall[c].n].kind = "fin", finished,
         UNCHANGED <<note, finished, failed, shut, due, serves, jobs, worker>>,
         token' \in BOOLEAN, refs' \in [Requests -> Nat],
         result' \in [Requests -> Seq({"ok", "fail", "closed"})],
         \A r \in Requests : refs'[r] # 0 =>
           refs[r] # 0 /\ serves[r] # wcall[c].n,
         \A d \in Writers : d # c /\ Leasing(d) =>
           result'[wcall[d].req] = result[wcall[d].req],
         GateInv', LeaseInv'
  PROVE  PipeInv'
<1> DEFINE x == [wcall[c] EXCEPT !.pc = "tail"]
<1>1. PipeTypes /\ GateInv /\ LeaseInv /\ CallInv /\ FateInv /\ LeaveInv
  BY DEF PipeInv
<1>2. /\ finished' = finished /\ finished \in BOOLEAN
      /\ failed' = failed /\ failed \in BOOLEAN
      /\ shut' = shut /\ shut \in BOOLEAN /\ due' = due /\ due \in BOOLEAN
  BY <1>1 DEF PipeTypes
<1>3. x \in WriterCalls /\ x.pc = "tail" /\ x.n = wcall[c].n
  BY <1>1, CallGoesOn
<1>4. wcall' = [wcall EXCEPT ![c] = x]
  OBVIOUS
<1> HIDE DEF x
<1>5. /\ wcall' \in [Writers -> WriterCalls] /\ wcall'[c] = x
      /\ \A d \in Writers : d # c => wcall'[d] = wcall[d]
  BY <1>1, <1>3, <1>4, CallerMoves
<1>6. PipeTypes'
  BY <1>1, <1>2, <1>5 DEF PipeTypes
<1>7. Job' = Job
  BY DEF Job
<1>8. \A d \in Writers : wcall'[d].n = wcall[d].n
  BY <1>3, <1>5
<1>9. \A d \in Writers : wcall'[d].pc # "idle" => wcall[d].pc # "idle"
  BY <1>5
<1>10. CallInv'
  <2>1. \A d \in Writers : wcall'[d].pc # "idle" =>
          /\ wcall'[d].n \in DOMAIN note'
          /\ note'[wcall'[d].n].answer = "none"
    BY ZenonT(30), <1>1, <1>8, <1>9 DEF CallInv
  <2>2. \A b, d \in Writers :
          /\ wcall'[b].pc # "idle" /\ wcall'[d].pc # "idle"
          /\ wcall'[b].n = wcall'[d].n
          => b = d
    BY SMT, <1>1, <1>8, <1>9 DEF CallInv
  <2>3. \A d \in Writers : wcall'[d].pc \in {"acquire", "submit", "tail"} =>
          wcall[d].pc \in {"acquire", "submit", "tail"}
    BY <1>5
  <2>4. \A d \in Writers : wcall'[d].pc \in {"acquire", "submit", "tail"} =>
          note'[wcall'[d].n].fate = "none"
    BY ZenonT(30), <1>1, <1>8, <2>3 DEF CallInv
  <2>5. \A d \in Writers : wcall'[d].pc = "tail" =>
          note'[wcall'[d].n].kind = "fin" /\ finished'
    BY SMT, <1>1, <1>2, <1>5, <1>8 DEF CallInv
  <2>6. \A r \in Requests : refs'[r] # 0 =>
          /\ serves'[r] \in DOMAIN note'
          /\ \A d \in Writers :
               wcall'[d].pc \in {"acquire", "tail"} => wcall'[d].n # serves'[r]
    BY SMT, <1>1, <1>5, <1>8 DEF CallInv
  <2>7. \A r, q \in Requests :
          refs'[r] # 0 /\ refs'[q] # 0 /\ serves'[r] = serves'[q] => r = q
    BY <1>1 DEF CallInv
  <2> QED
    BY <2>1, <2>2, <2>4, <2>5, <2>6, <2>7 DEF CallInv
<1>11. FinDone' <=> FinDone
  BY DEF FinDone
<1>12. FateInv'
  <2>1. \A m \in DOMAIN note' : Truth(m)'
    BY SMT, <1>1, <1>2, <1>11 DEF FateInv, Truth
  <2>2. \A d \in Writers : wcall'[d].pc = "await" /\ wcall'[d].req # Job' =>
          Waiting(wcall[d].req, wcall[d].n)'
    <3> SUFFICES ASSUME NEW d \in Writers, wcall'[d].pc = "await",
                        wcall'[d].req # Job'
                 PROVE  Waiting(wcall[d].req, wcall[d].n)'
      OBVIOUS
    <3>1. wcall'[d] = wcall[d] /\ d # c
      BY <1>3, <1>5
    <3>2. result'[wcall[d].req] = result[wcall[d].req]
      BY <3>1 DEF Leasing
    <3>3. Waiting(wcall[d].req, wcall[d].n)
      BY <1>1, <1>7, <3>1 DEF FateInv
    <3> QED
      BY <3>1, <3>2, <3>3 DEF Waiting
  <2> QED
    BY SMTT(20), <1>1, <1>2, <1>7, <2>1, <2>2 DEF FateInv
<1>13. LeaveInv'
  BY SMT, <1>1, <1>2, <1>11 DEF LeaveInv
<1> QED
  BY <1>6, <1>10, <1>12, <1>13 DEF PipeInv

\* The gate is unaffected by a caller that returns or waits for the half-close.
LEMMA GateShrinks ==
  ASSUME GateInv, UNCHANGED <<jobs, worker>>,
         \A d \in Writers : wcall'[d].pc = "submit" => wcall[d].pc = "submit",
         \/ token' = token
         \/ Job = 0 /\ \A d \in Writers : wcall'[d].pc # "submit"
  PROVE  GateInv'
<1>1. Job' = Job
  BY DEF Job
<1>2. token' => Job' = 0
  BY <1>1 DEF GateInv
<1>3. \A d \in Writers : wcall'[d].pc = "submit" => ~token' /\ Job' = 0
  BY <1>1 DEF GateInv
<1> QED
  BY <1>2, <1>3 DEF GateInv

\* release by a caller: its reference and what waited for it are gone.
LEMMA ReleaseKeeps ==
  ASSUME PipeInv, NEW c \in Writers, Leasing(c), NEW x \in WriterCalls,
         x.pc \in {"idle", "tail"}, wcall' = [wcall EXCEPT ![c] = x],
         NEW rs, rs = result \/ rs = [result EXCEPT ![wcall[c].req] = <<>>],
         Unref(refs, rs, wcall[c].req), UNCHANGED <<jobs, worker, serves>>
  PROVE  /\ LeaseInv' /\ refs' \in [Requests -> Nat]
         /\ result' \in [Requests -> Seq({"ok", "fail", "closed"})]
         /\ \A r \in Requests : refs'[r] # 0 => refs[r] # 0
         /\ Job = 0 => refs'[wcall[c].req] = 0
         /\ \A d \in Writers : d # c /\ Leasing(d) =>
              result'[wcall[d].req] = result[wcall[d].req]
<1>0. PICK h : h = wcall[c].req
  OBVIOUS
<1>1. PipeTypes /\ GateInv /\ LeaseInv
  BY DEF PipeInv
<1>2. h \in Requests /\ HeldBy(h) /\ h # 0
  <2>1. 0 \notin Requests
    BY JobFacts
  <2> QED
    BY SMT, <1>0, <1>1, <2>1 DEF LeaseInv, HeldBy
<1>3. refs[h] = IF Job = h THEN 2 ELSE 1
  BY <1>1, <1>2 DEF LeaseInv
<1>4. /\ refs' \in [Requests -> Nat] /\ refs'[h] = IF Job = h THEN 1 ELSE 0
      /\ \A r \in Requests : r # h => refs'[r] = refs[r]
  <2>1. refs' = [refs EXCEPT ![h] = refs[h] - 1]
    BY <1>0 DEF Unref
  <2> QED
    BY SMT, <1>1, <1>2, <1>3, <2>1 DEF PipeTypes
<1>5. /\ result' \in [Requests -> Seq({"ok", "fail", "closed"})]
      /\ result'[h] = <<>>
      /\ \A r \in Requests : r # h => result'[r] = result[r]
  <2>1. Job = h => result[h] = <<>>
    BY <1>1, <1>2 DEF LeaseInv
  <2>2. Job # h => refs[h] = 1
    BY <1>3
  <2>3. result' = IF refs[h] = 1 THEN [rs EXCEPT ![h] = <<>>] ELSE rs
    BY <1>0 DEF Unref
  <2>4. <<>> \in Seq({"ok", "fail", "closed"})
    BY SMT
  <2>5. rs = result \/ rs = [result EXCEPT ![h] = <<>>]
    BY <1>0
  <2>6. result \in [Requests -> Seq({"ok", "fail", "closed"})]
    BY <1>1 DEF PipeTypes
  <2>7. /\ rs \in [Requests -> Seq({"ok", "fail", "closed"})]
        /\ rs[h] = result[h] \/ rs[h] = <<>>
        /\ \A r \in Requests : r # h => rs[r] = result[r]
    BY <1>2, <2>4, <2>5, <2>6
  <2> QED
    BY <1>2, <2>1, <2>2, <2>3, <2>4, <2>7
<1>6. /\ wcall'[c] = x /\ ~Leasing(c)'
      /\ \A d \in Writers : d # c => wcall'[d] = wcall[d]
  BY <1>1, CallerMoves DEF Leasing
<1>7. \A d \in Writers : d # c =>
        (Leasing(d)' <=> Leasing(d)) /\ (Leasing(d) => wcall[d].req # h)
  BY <1>0, <1>1, <1>6 DEF Leasing, LeaseInv
<1>8. Job' = Job
  BY DEF Job
<1>9. LeaseInv'
  <2>1. \A d \in Writers : Leasing(d)' =>
          wcall'[d].req \in Requests /\ serves'[wcall'[d].req] = wcall'[d].n
    BY <1>1, <1>6, <1>7 DEF LeaseInv
  <2>2. \A b, d \in Writers :
          Leasing(b)' /\ Leasing(d)' /\ wcall'[b].req = wcall'[d].req => b = d
    BY <1>1, <1>6, <1>7 DEF LeaseInv
  <2>3. ~HeldBy(h)'
    BY <1>6, <1>7 DEF HeldBy
  <2>4. \A r \in Requests : r # h => (HeldBy(r)' <=> HeldBy(r))
    BY <1>0, <1>6, <1>7 DEF HeldBy
  <2>5. \A r \in Requests :
          refs'[r] = IF HeldBy(r)' THEN (IF Job' = r THEN 2 ELSE 1)
                     ELSE (IF Job' = r THEN 1 ELSE 0)
    <3> SUFFICES ASSUME NEW r \in Requests
                 PROVE  refs'[r] = IF HeldBy(r)'
                                   THEN (IF Job' = r THEN 2 ELSE 1)
                                   ELSE (IF Job' = r THEN 1 ELSE 0)
      OBVIOUS
    <3>1. CASE r = h
      BY <1>4, <1>8, <2>3, <3>1
    <3>2. CASE r # h
      BY <1>1, <1>4, <1>8, <2>4, <3>2 DEF LeaseInv
    <3> QED
      BY <3>1, <3>2
  <2>6. \A r \in Requests : result'[r] # <<>> =>
          /\ Job' # r
          /\ \E d \in Writers : wcall'[d].pc = "await" /\ wcall'[d].req = r
    <3> SUFFICES ASSUME NEW r \in Requests, result'[r] # <<>>
                 PROVE  /\ Job' # r
                        /\ \E d \in Writers :
                             wcall'[d].pc = "await" /\ wcall'[d].req = r
      OBVIOUS
    <3>1. r # h /\ result[r] # <<>>
      BY <1>5
    <3>2. PICK d \in Writers : wcall[d].pc = "await" /\ wcall[d].req = r
      BY <1>1, <3>1 DEF LeaseInv
    <3>3. wcall'[d] = wcall[d]
      BY <1>0, <1>6, <3>1, <3>2
    <3> QED
      BY <1>1, <1>8, <3>1, <3>2, <3>3 DEF LeaseInv
  <2> QED
    BY <2>1, <2>2, <2>5, <2>6 DEF LeaseInv
<1>10. \A r \in Requests : refs'[r] # 0 => refs[r] # 0
  <2>1. refs[h] # 0
    BY SMT, <1>3
  <2> QED
    BY <1>4, <2>1
<1>11. \A d \in Writers : d # c /\ Leasing(d) =>
         result'[wcall[d].req] = result[wcall[d].req]
  BY <1>1, <1>5, <1>7 DEF LeaseInv
<1>12. Job = 0 => refs'[wcall[c].req] = 0
  BY <1>0, <1>2, <1>4
<1> QED
  BY <1>4, <1>5, <1>9, <1>10, <1>11, <1>12

\* acquire, and the refusals of a call that has no request yet.
LEMMA AcquireKeeps ==
  ASSUME PipeInv, NEW c \in Writers, Acquire(c)
  PROVE  PipeInv'
<1> DEFINE n == wcall[c].n
<1>1. PipeTypes /\ GateInv /\ LeaseInv /\ CallInv /\ FateInv /\ LeaveInv
  BY DEF PipeInv
<1>2. wcall[c].pc = "acquire" /\ n \in DOMAIN note /\ note[n].fate = "none"
  BY <1>1 DEF Acquire, CallInv
<1>3. /\ UNCHANGED <<jobs, worker>> /\ Job' = Job
      /\ finished' = finished /\ finished \in BOOLEAN
      /\ failed' = failed /\ failed \in BOOLEAN
      /\ shut' = shut /\ shut \in BOOLEAN /\ due' = due /\ due \in BOOLEAN
  BY <1>1 DEF Acquire, Job, PipeTypes
<1>4. CASE TurnedAway(c) /\ UNCHANGED <<token, poolVars>>
  <2>1. /\ token' = token /\ token \in BOOLEAN
        /\ UNCHANGED <<refs, result, serves>>
    BY <1>1, <1>4 DEF poolVars, PipeTypes
  <2>2. /\ refs' \in [Requests -> Nat]
        /\ result' \in [Requests -> Seq({"ok", "fail", "closed"})]
    BY <1>1, <2>1 DEF PipeTypes
  <2>3. ASSUME NEW x \in WriterCalls, x.pc \in {"idle", "tail"},
               wcall' = [wcall EXCEPT ![c] = x]
        PROVE  GateInv' /\ LeaseInv'
    <3>1. wcall'[c] = x /\ \A d \in Writers : d # c => wcall'[d] = wcall[d]
      BY <1>1, <2>3, CallerMoves
    <3>2. \A d \in Writers : Leasing(d)' <=> Leasing(d)
      BY <1>2, <2>3, <3>1 DEF Leasing
    <3>3. \A d \in Writers : Leasing(d) => wcall'[d] = wcall[d]
      BY <1>2, <3>1 DEF Leasing
    <3>4. LeaseInv'
      BY <1>1, <1>3, <2>1, <3>2, <3>3, LeaseStays
    <3>5. GateInv'
      BY <1>1, <1>3, <2>1, <2>3, <3>1, GateShrinks
    <3> QED
      BY <3>4, <3>5
  <2>4. CASE Answer(c, "refused")
    <3> DEFINE x == [pc |-> "idle", n |-> 0, req |-> 0]
    <3>1. x \in WriterCalls /\ x.pc = "idle"
      BY SMT DEF WriterCalls
    <3>2. wcall' = [wcall EXCEPT ![c] = x]
      BY <2>4 DEF Answer
    <3> HIDE DEF x
    <3>3. GateInv' /\ LeaseInv'
      BY <2>3, <3>1, <3>2
    <3> QED
      BY <1>2, <1>3, <2>1, <2>2, <2>4, <3>3, AnswerKeeps
  <2>5. CASE /\ note[n].kind = "fin" /\ finished /\ UNCHANGED note
             /\ wcall' = [wcall EXCEPT ![c].pc = "tail"]
    <3> DEFINE x == [wcall[c] EXCEPT !.pc = "tail"]
    <3>1. x \in WriterCalls /\ x.pc = "tail"
      BY <1>1, CallGoesOn
    <3>2. wcall' = [wcall EXCEPT ![c] = x]
      BY <2>5
    <3> HIDE DEF x
    <3>3. GateInv' /\ LeaseInv'
      BY <2>3, <3>1, <3>2
    <3>4. \A r \in Requests : refs'[r] # 0 => refs[r] # 0 /\ serves[r] # n
      BY <1>1, <1>2, <2>1 DEF CallInv
    <3>5. \A d \in Writers : d # c /\ Leasing(d) =>
            result'[wcall[d].req] = result[wcall[d].req]
      BY <2>1
    <3> QED
      BY <1>2, <1>3, <2>1, <2>2, <2>5, <3>3, <3>4, <3>5, TailKeeps
  <2> QED
    BY <1>4, <2>4, <2>5 DEF TurnedAway, Kind
<1>5. ASSUME NEW r, r = CHOOSE q \in Requests : refs[q] = 0,
             token, token' = FALSE, refs' = [refs EXCEPT ![r] = 1],
             serves' = [serves EXCEPT ![r] = n],
             wcall' = [wcall EXCEPT ![c].pc = "submit", ![c].req = r],
             UNCHANGED <<result, note>>
      PROVE  PipeInv'
  <2>1. \E q \in Requests : refs[q] = 0
    <3> SUFFICES ASSUME \A q \in Requests : refs[q] # 0 PROVE FALSE
      OBVIOUS
    <3> DEFINE T == Requests \ {n}
    <3>1. IsFiniteSet(Requests)
      BY SMT, PipeAssumption, FS_Interval DEF Requests, Calls
    <3>2. n \in Requests
      BY <1>1, <1>2, ElementTypes
    <3>3. IsFiniteSet(T) /\ Cardinality(T) = Cardinality(Requests) - 1
      BY <3>1, <3>2, FS_RemoveElement
    <3>4. Cardinality(Requests) \in Nat
      BY <3>1, FS_CardinalityType
    <3>5. Cardinality(T) < Cardinality(Requests)
      BY SMT, <3>3, <3>4
    <3>6. \A q \in Requests : serves[q] \in T
      <4>1. DOMAIN note \subseteq Requests
        BY <1>1, ElementTypes
      <4> QED
        BY <1>1, <1>2, <4>1 DEF CallInv
    <3>7. serves \in [Requests -> T]
      BY <1>1, <3>6 DEF PipeTypes
    <3> HIDE DEF T
    <3>8. \E p, q \in Requests : p # q /\ serves[p] = serves[q]
      BY <3>1, <3>3, <3>5, <3>7, FS_PigeonHole
    <3> QED
      BY <1>1, <3>8 DEF CallInv
  <2>2. r \in Requests /\ refs[r] = 0
    BY <1>5, <2>1
  <2> DEFINE x == [wcall[c] EXCEPT !.pc = "submit", !.req = r]
  <2>3. x \in WriterCalls /\ x.pc = "submit" /\ x.req = r /\ x.n = n
    <3>1. r \in Nat
      BY SMT, <2>2 DEF Requests, Calls
    <3>2. wcall[c] \in WriterCalls
      BY <1>1, ElementTypes
    <3> QED
      BY <3>1, <3>2 DEF WriterCalls
  <2>4. wcall' = [wcall EXCEPT ![c] = x]
    <3>1. wcall' = [wcall EXCEPT ![c].pc = "submit", ![c].req = r]
      BY <1>5
    <3>2. wcall \in [Writers -> WriterCalls]
      BY <1>1 DEF PipeTypes
    <3> QED
      BY <3>1, <3>2
  <2> HIDE DEF x
  <2>5. /\ wcall' \in [Writers -> WriterCalls] /\ wcall'[c] = x
        /\ \A d \in Writers : d # c => wcall'[d] = wcall[d]
    BY <1>1, <2>3, <2>4, CallerMoves
  <2>6. /\ refs' \in [Requests -> Nat] /\ refs'[r] = 1
        /\ \A q \in Requests : q # r => refs'[q] = refs[q]
    BY SMT, <1>1, <1>5, <2>2 DEF PipeTypes
  <2>7. /\ serves' \in [Requests -> Nat] /\ serves'[r] = n
        /\ \A q \in Requests : q # r => serves'[q] = serves[q]
    BY SMT, <1>1, <1>5, <2>2 DEF PipeTypes, WriterCalls
  <2>8. PipeTypes'
    BY ZenonT(30), <1>1, <1>3, <1>5, <2>5, <2>6, <2>7 DEF PipeTypes
  <2>9. Job = 0 /\ \A d \in Writers : wcall[d].pc # "submit"
    BY <1>1, <1>5 DEF GateInv
  <2>10. GateInv'
    <3>1. \A d \in Writers : wcall'[d].pc = "submit" => d = c
      BY <2>5, <2>9
    <3> QED
      BY <1>1, <1>3, <1>5, <2>9, <3>1 DEF GateInv
  <2>11. \A d \in Writers : d # c =>
           /\ Leasing(d)' <=> Leasing(d)
           /\ Leasing(d) => wcall[d].req \in Requests /\ wcall[d].req # r
    <3>1. \A d \in Writers : Leasing(d) =>
            wcall[d].req \in Requests /\ HeldBy(wcall[d].req)
      BY <1>1 DEF LeaseInv, HeldBy
    <3>2. ~HeldBy(r)
      <4>1. HeldBy(r) => refs[r] \in {1, 2}
        BY <1>1, <2>2 DEF LeaseInv
      <4> QED
        BY SMT, <2>2, <4>1
    <3> QED
      BY <2>5, <3>1, <3>2 DEF Leasing
  <2>12. Leasing(c)' /\ ~Leasing(c) /\ wcall'[c].req = r /\ wcall'[c].n = n
    BY <1>2, <2>3, <2>5 DEF Leasing
  <2>13. LeaseInv'
    <3>1. \A d \in Writers : Leasing(d)' =>
            wcall'[d].req \in Requests /\ serves'[wcall'[d].req] = wcall'[d].n
      <4> SUFFICES ASSUME NEW d \in Writers, Leasing(d)'
                   PROVE  /\ wcall'[d].req \in Requests
                          /\ serves'[wcall'[d].req] = wcall'[d].n
        OBVIOUS
      <4>1. CASE d = c
        BY <2>2, <2>7, <2>12, <4>1
      <4>2. CASE d # c
        BY SMT, <1>1, <2>5, <2>7, <2>11, <4>2 DEF LeaseInv
      <4> QED
        BY <4>1, <4>2
    <3>2. \A b, d \in Writers :
            Leasing(b)' /\ Leasing(d)' /\ wcall'[b].req = wcall'[d].req
              => b = d
      BY <1>1, <2>5, <2>11, <2>12 DEF LeaseInv
    <3>3. HeldBy(r)'
      BY <2>12 DEF HeldBy
    <3>4. \A q \in Requests : q # r => (HeldBy(q)' <=> HeldBy(q))
      BY <2>5, <2>11, <2>12 DEF HeldBy
    <3>5. \A q \in Requests :
            refs'[q] = IF HeldBy(q)' THEN (IF Job' = q THEN 2 ELSE 1)
                       ELSE (IF Job' = q THEN 1 ELSE 0)
      <4> SUFFICES ASSUME NEW q \in Requests
                   PROVE  refs'[q] = IF HeldBy(q)'
                                     THEN (IF Job' = q THEN 2 ELSE 1)
                                     ELSE (IF Job' = q THEN 1 ELSE 0)
        OBVIOUS
      <4>1. Job' # q
        BY <1>3, <2>9, JobFacts
      <4>2. CASE q = r
        BY <2>6, <3>3, <4>1, <4>2
      <4>3. CASE q # r
        BY <1>1, <1>3, <2>6, <3>4, <4>3 DEF LeaseInv
      <4> QED
        BY <4>2, <4>3
    <3>6. \A q \in Requests : result'[q] # <<>> =>
            /\ Job' # q
            /\ \E d \in Writers : wcall'[d].pc = "await" /\ wcall'[d].req = q
      <4> SUFFICES ASSUME NEW q \in Requests, result'[q] # <<>>
                   PROVE  /\ Job' # q
                          /\ \E d \in Writers :
                               wcall'[d].pc = "await" /\ wcall'[d].req = q
        OBVIOUS
      <4>1. result[q] # <<>>
        BY <1>5
      <4>2. PICK d \in Writers : wcall[d].pc = "await" /\ wcall[d].req = q
        BY <1>1, <4>1 DEF LeaseInv
      <4>3. wcall'[d] = wcall[d]
        BY <1>2, <2>5, <4>2
      <4> QED
        BY <1>1, <1>3, <4>1, <4>2, <4>3 DEF LeaseInv
    <3> QED
      BY <3>1, <3>2, <3>5, <3>6 DEF LeaseInv
  <2>14. \A d \in Writers : wcall'[d].n = wcall[d].n
    BY <2>5, <2>12
  <2>15. CallInv'
    <3>1. \A d \in Writers : wcall'[d].pc # "idle" => wcall[d].pc # "idle"
      BY <1>2, <2>5
    <3>2. \A d \in Writers : wcall'[d].pc # "idle" =>
            /\ wcall'[d].n \in DOMAIN note'
            /\ note'[wcall'[d].n].answer = "none"
      BY ZenonT(30), <1>1, <1>5, <2>14, <3>1 DEF CallInv
    <3>3. \A b, d \in Writers :
            /\ wcall'[b].pc # "idle" /\ wcall'[d].pc # "idle"
            /\ wcall'[b].n = wcall'[d].n
            => b = d
      BY ZenonT(30), <1>1, <2>14, <3>1 DEF CallInv
    <3>4. \A d \in Writers : wcall'[d].pc \in {"acquire", "submit", "tail"} =>
            wcall[d].pc \in {"acquire", "submit", "tail"}
      BY <1>2, <2>5
    <3>5. \A d \in Writers : wcall'[d].pc \in {"acquire", "submit", "tail"} =>
            note'[wcall'[d].n].fate = "none"
      BY ZenonT(30), <1>1, <1>5, <2>14, <3>4 DEF CallInv
    <3>6. \A d \in Writers : wcall'[d].pc \in {"acquire", "tail"} =>
            d # c /\ wcall'[d] = wcall[d]
      BY <2>3, <2>5
    <3>7. \A d \in Writers : wcall'[d].pc = "tail" =>
            note'[wcall'[d].n].kind = "fin" /\ finished'
      BY <1>1, <1>3, <1>5, <3>6 DEF CallInv
    <3>8. \A q \in Requests : refs'[q] # 0 =>
            /\ serves'[q] \in DOMAIN note'
            /\ \A d \in Writers : wcall'[d].pc \in {"acquire", "tail"} =>
                 wcall'[d].n # serves'[q]
      <4> SUFFICES ASSUME NEW q \in Requests, refs'[q] # 0
                   PROVE  /\ serves'[q] \in DOMAIN note'
                          /\ \A d \in Writers :
                               wcall'[d].pc \in {"acquire", "tail"} =>
                                 wcall'[d].n # serves'[q]
        OBVIOUS
      <4>1. CASE q = r
        <5>1. \A d \in Writers : wcall'[d].pc \in {"acquire", "tail"} =>
                wcall[d].n # n
          BY <1>1, <1>2, <3>6 DEF CallInv
        <5> QED
          BY <1>2, <1>5, <2>7, <2>14, <4>1, <5>1
      <4>2. CASE q # r
        <5>1. refs[q] # 0 /\ serves'[q] = serves[q]
          BY <2>6, <2>7, <4>2
        <5>2. \A d \in Writers :
                wcall[d].pc \in {"acquire", "tail"} => wcall[d].n # serves[q]
          BY <1>1, <5>1 DEF CallInv
        <5>3. serves[q] \in DOMAIN note
          BY <1>1, <5>1 DEF CallInv
        <5> QED
          BY <1>5, <3>6, <5>1, <5>2, <5>3
      <4> QED
        BY <4>1, <4>2
    <3>9. \A p, q \in Requests :
            refs'[p] # 0 /\ refs'[q] # 0 /\ serves'[p] = serves'[q] => p = q
      <4>1. \A q \in Requests : q # r /\ refs'[q] # 0 => serves'[q] # n
        BY ZenonT(30), <1>1, <1>2, <2>6, <2>7 DEF CallInv
      <4> QED
        BY SMT, <1>1, <2>6, <2>7, <4>1 DEF CallInv
    <3> QED
      BY <3>2, <3>3, <3>5, <3>7, <3>8, <3>9 DEF CallInv
  <2>16. FinDone' <=> FinDone
    BY <1>5 DEF FinDone
  <2>17. FateInv'
    <3>1. \A m \in DOMAIN note' : Truth(m)'
      BY <1>1, <1>3, <1>5, <2>16 DEF FateInv, Truth
    <3>2. \A d \in Writers : wcall'[d].pc = "await" /\ wcall'[d].req # Job' =>
            Waiting(wcall[d].req, wcall[d].n)'
      <4> SUFFICES ASSUME NEW d \in Writers, wcall'[d].pc = "await",
                          wcall'[d].req # Job'
                   PROVE  Waiting(wcall[d].req, wcall[d].n)'
        OBVIOUS
      <4>1. wcall'[d] = wcall[d]
        BY <2>3, <2>5
      <4>2. Waiting(wcall[d].req, wcall[d].n)
        BY <1>1, <1>3, <4>1 DEF FateInv
      <4> QED
        BY <1>5, <4>1, <4>2 DEF Waiting
    <3> QED
      BY <1>1, <1>3, <1>5, <2>9, <3>1, <3>2 DEF FateInv
  <2>18. LeaveInv'
    BY <1>1, <1>3, <2>16 DEF LeaveInv
  <2> QED
    BY <2>8, <2>10, <2>13, <2>15, <2>17, <2>18 DEF PipeInv
<1> QED
  BY <1>4, <1>5 DEF Acquire

\* submit: refused, the request goes back; accepted, the worker has it too.
LEMMA SubmitKeeps ==
  ASSUME PipeInv, NEW c \in Writers, Submit(c)
  PROVE  PipeInv'
<1> DEFINE r == wcall[c].req
           n == wcall[c].n
<1>1. PipeTypes /\ GateInv /\ LeaseInv /\ CallInv /\ FateInv /\ LeaveInv
  BY DEF PipeInv
<1>2. /\ wcall[c].pc = "submit" /\ n \in DOMAIN note /\ note[n].fate = "none"
      /\ note[n].answer = "none" /\ Leasing(c)
  BY <1>1 DEF Submit, CallInv, Leasing
<1>3. /\ ~token /\ Job = 0
      /\ \A d \in Writers : wcall[d].pc = "submit" => d = c
  BY <1>1, <1>2 DEF GateInv
<1>4. /\ UNCHANGED <<worker, serves>> /\ failed' = failed /\ failed \in BOOLEAN
      /\ shut' = shut /\ shut \in BOOLEAN /\ due' = due /\ due \in BOOLEAN
  BY <1>1 DEF Submit, PipeTypes
<1>5. r \in Requests /\ serves[r] = n /\ HeldBy(r) /\ refs[r] = 1
  <2>1. r \in Requests /\ serves[r] = n /\ HeldBy(r)
    BY <1>1, <1>2 DEF LeaseInv, HeldBy
  <2>2. Job # r
    BY <1>3, <2>1, JobFacts
  <2> QED
    BY <1>1, <2>1, <2>2 DEF LeaseInv
<1>6. CASE /\ Unref(refs, result, r) /\ token' = TRUE /\ TurnedAway(c)
           /\ UNCHANGED <<jobs, finished>>
  <2>1. finished' = finished /\ finished \in BOOLEAN /\ token' \in BOOLEAN
    BY <1>1, <1>6 DEF PipeTypes
  <2>2. ASSUME NEW x \in WriterCalls, x.pc \in {"idle", "tail"},
               wcall' = [wcall EXCEPT ![c] = x]
        PROVE  /\ GateInv' /\ LeaseInv' /\ refs' \in [Requests -> Nat]
               /\ result' \in [Requests -> Seq({"ok", "fail", "closed"})]
               /\ \A q \in Requests : refs'[q] # 0 => refs[q] # 0
               /\ refs'[r] = 0
               /\ \A d \in Writers : d # c /\ Leasing(d) =>
                    result'[wcall[d].req] = result[wcall[d].req]
    <3>1. wcall'[c] = x /\ \A d \in Writers : d # c => wcall'[d] = wcall[d]
      BY <1>1, <2>2, CallerMoves
    <3>2. GateInv'
      BY <1>1, <1>3, <1>4, <1>6, <2>2, <3>1, GateShrinks
    <3>3. UNCHANGED <<jobs, worker, serves>>
      BY <1>4, <1>6
    <3>4. /\ LeaseInv' /\ refs' \in [Requests -> Nat]
          /\ result' \in [Requests -> Seq({"ok", "fail", "closed"})]
          /\ \A q \in Requests : refs'[q] # 0 => refs[q] # 0
          /\ Job = 0 => refs'[wcall[c].req] = 0
          /\ \A d \in Writers : d # c /\ Leasing(d) =>
               result'[wcall[d].req] = result[wcall[d].req]
      BY <1>2, <1>6, <2>2, <3>3, ReleaseKeeps
    <3> QED
      BY <1>3, <3>2, <3>4
  <2>3. CASE Answer(c, "refused")
    <3> DEFINE x == [pc |-> "idle", n |-> 0, req |-> 0]
    <3>1. x \in WriterCalls /\ x.pc = "idle"
      BY SMT DEF WriterCalls
    <3>2. wcall' = [wcall EXCEPT ![c] = x]
      BY <2>3 DEF Answer
    <3> HIDE DEF x
    <3>3. /\ GateInv' /\ LeaseInv' /\ refs' \in [Requests -> Nat]
          /\ result' \in [Requests -> Seq({"ok", "fail", "closed"})]
          /\ \A q \in Requests : refs'[q] # 0 => refs[q] # 0
          /\ \A d \in Writers : d # c /\ Leasing(d) =>
               result'[wcall[d].req] = result[wcall[d].req]
      BY <2>2, <3>1, <3>2
    <3>4. UNCHANGED <<finished, failed, shut, due, serves, jobs, worker>>
      BY <1>4, <1>6, <2>1
    <3> QED
      BY <1>2, <2>1, <2>3, <3>3, <3>4, AnswerKeeps
  <2>4. CASE /\ note[n].kind = "fin" /\ finished /\ UNCHANGED note
             /\ wcall' = [wcall EXCEPT ![c].pc = "tail"]
    <3> DEFINE x == [wcall[c] EXCEPT !.pc = "tail"]
    <3>1. x \in WriterCalls /\ x.pc = "tail"
      BY <1>1, CallGoesOn
    <3>2. wcall' = [wcall EXCEPT ![c] = x]
      BY <2>4
    <3> HIDE DEF x
    <3>3. /\ GateInv' /\ LeaseInv' /\ refs' \in [Requests -> Nat]
          /\ result' \in [Requests -> Seq({"ok", "fail", "closed"})]
          /\ \A q \in Requests : refs'[q] # 0 => refs[q] # 0
          /\ refs'[r] = 0
          /\ \A d \in Writers : d # c /\ Leasing(d) =>
               result'[wcall[d].req] = result[wcall[d].req]
      BY <2>2, <3>1, <3>2
    <3>4. \A q \in Requests : refs'[q] # 0 => refs[q] # 0 /\ serves[q] # n
      <4>1. refs[r] # 0
        BY SMT, <1>5
      <4> QED
        BY ZenonT(30), <1>1, <1>5, <3>3, <4>1 DEF CallInv
    <3>5. UNCHANGED <<note, finished, failed, shut, due, serves, jobs, worker>>
      BY <1>4, <1>6, <2>1, <2>4
    <3> QED
      BY <1>2, <2>1, <2>4, <3>3, <3>4, <3>5, TailKeeps
  <2> QED
    BY <1>6, <2>3, <2>4 DEF TurnedAway, Kind
<1>7. CASE /\ ~SubmitRefuses /\ finished' = (Kind(n) = "fin")
           /\ refs' = [refs EXCEPT ![r] = @ + 1] /\ jobs' = Append(jobs, r)
           /\ note' = [note EXCEPT ![n].fate = "queued"]
           /\ wcall' = [wcall EXCEPT ![c].pc = "await"]
           /\ UNCHANGED <<token, result>>
  <2>1. ~shut /\ ~failed /\ ~finished /\ ~FinDone /\ worker.pc \notin Leaving
    BY <1>1, <1>7 DEF SubmitRefuses, LeaveInv
  <2>2. jobs = <<>> /\ worker.pc # "busy"
    BY <1>3, JobFacts
  <2>3. jobs' = <<r>> /\ jobs' \in Seq(Requests) /\ jobs' # <<>> /\ jobs'[1] = r
    <3> HIDE DEF r
    <3> QED
      BY SMT, <1>5, <1>7, <2>2
  <2>4. Job' = r /\ r # 0
    BY <1>5, <2>3, JobFacts DEF Job
  <2> DEFINE x == [wcall[c] EXCEPT !.pc = "await"]
             y == [note[n] EXCEPT !.fate = "queued"]
  <2>5. x \in WriterCalls /\ x.pc = "await" /\ x.req = r /\ x.n = n
    BY <1>1, CallGoesOn
  <2>6. /\ y \in PipeNotes /\ y.kind = note[n].kind /\ y.fate = "queued"
        /\ y.answer = "none"
    <3>1. note[n] \in PipeNotes
      BY SMT, <1>1, <1>2 DEF PipeTypes
    <3> QED
      BY SMTT(20), <1>2, <3>1 DEF PipeNotes
  <2>7. wcall' = [wcall EXCEPT ![c] = x] /\ note' = [note EXCEPT ![n] = y]
    BY <1>7
  <2> HIDE DEF x, y
  <2>8. /\ wcall' \in [Writers -> WriterCalls] /\ wcall'[c] = x
        /\ \A d \in Writers : d # c => wcall'[d] = wcall[d]
    BY <1>1, <2>5, <2>7, CallerMoves
  <2>9. /\ note' \in Seq(PipeNotes) /\ Len(note') = Len(note)
        /\ DOMAIN note' = DOMAIN note /\ note'[n] = y
        /\ \A m \in DOMAIN note : m # n => note'[m] = note[m]
    BY <1>1, <1>2, <2>6, <2>7, NoteChanges
  <2>10. /\ refs' \in [Requests -> Nat] /\ refs'[r] = 2
         /\ \A q \in Requests : q # r => refs'[q] = refs[q]
    <3>1. refs' = [refs EXCEPT ![r] = refs[r] + 1]
      BY <1>7
    <3> HIDE DEF r
    <3> QED
      BY SMT, <1>1, <1>5, <3>1 DEF PipeTypes
  <2>11. \A q \in Requests : refs'[q] # 0 => refs[q] # 0
    <3>1. refs[r] # 0
      BY SMT, <1>5
    <3> QED
      BY <2>10, <3>1
  <2>12. finished' \in BOOLEAN /\ finished' = (note[n].kind = "fin")
    BY <1>7 DEF Kind
  <2>13. /\ token' = token /\ token \in BOOLEAN
    BY <1>1, <1>7 DEF PipeTypes
  <2>14. PipeTypes'
    BY <1>1, <1>4, <1>7, <2>3, <2>8, <2>9, <2>10, <2>12, <2>13 DEF PipeTypes
  <2>15. \A d \in Writers : wcall'[d].pc # "submit"
    BY <1>3, <2>5, <2>8
  <2>16. GateInv'
    <3>1. worker.pc \notin {"busy", "stopping", "exited"}
      BY <2>1, <2>2 DEF Leaving
    <3> QED
      BY <1>1, <1>3, <1>4, <1>5, <2>3, <2>13, <2>15, <3>1 DEF GateInv
  <2>17. \A d \in Writers :
           /\ wcall'[d].n = wcall[d].n /\ wcall'[d].req = wcall[d].req
           /\ Leasing(d)' <=> Leasing(d)
    BY <1>2, <2>5, <2>8 DEF Leasing
  <2> HIDE DEF r, n
  <2>18. LeaseInv'
    <3>1. \A d \in Writers : Leasing(d)' =>
            wcall'[d].req \in Requests /\ serves'[wcall'[d].req] = wcall'[d].n
      BY <1>1, <1>4, <2>17 DEF LeaseInv
    <3>2. \A b, d \in Writers :
            Leasing(b)' /\ Leasing(d)' /\ wcall'[b].req = wcall'[d].req
              => b = d
      BY <1>1, <2>17 DEF LeaseInv
    <3>3. \A q : HeldBy(q)' <=> HeldBy(q)
      BY <2>17 DEF HeldBy
    <3>4. \A q \in Requests :
            refs'[q] = IF HeldBy(q)' THEN (IF Job' = q THEN 2 ELSE 1)
                       ELSE (IF Job' = q THEN 1 ELSE 0)
      <4> SUFFICES ASSUME NEW q \in Requests
                   PROVE  refs'[q] = IF HeldBy(q)'
                                     THEN (IF Job' = q THEN 2 ELSE 1)
                                     ELSE (IF Job' = q THEN 1 ELSE 0)
        OBVIOUS
      <4>1. CASE q = r
        BY <1>5, <2>4, <2>10, <3>3, <4>1
      <4>2. CASE q # r
        <5>1. Job # q
          BY <1>3, JobFacts
        <5> QED
          BY <1>1, <2>4, <2>10, <3>3, <4>2, <5>1 DEF LeaseInv
      <4> QED
        BY <4>1, <4>2
    <3>5. \A q \in Requests : result'[q] # <<>> =>
            /\ Job' # q
            /\ \E d \in Writers : wcall'[d].pc = "await" /\ wcall'[d].req = q
      <4> SUFFICES ASSUME NEW q \in Requests, result'[q] # <<>>
                   PROVE  /\ Job' # q
                          /\ \E d \in Writers :
                               wcall'[d].pc = "await" /\ wcall'[d].req = q
        OBVIOUS
      <4>1. PICK d \in Writers : wcall[d].pc = "await" /\ wcall[d].req = q
        BY <1>1, <1>7 DEF LeaseInv
      <4>2. d # c /\ Leasing(d)
        BY <1>2, <4>1 DEF Leasing
      <4>3. q # r
        BY <1>1, <1>2, <4>1, <4>2 DEF LeaseInv, r
      <4> QED
        BY <2>4, <2>8, <4>1, <4>2, <4>3
    <3> QED
      BY <3>1, <3>2, <3>4, <3>5 DEF LeaseInv
  <2>19. \A m \in DOMAIN note :
           note'[m].kind = note[m].kind /\ note'[m].answer = note[m].answer
    BY <1>2, <2>6, <2>9
  <2>20. \A d \in Writers : d # c /\ wcall[d].pc # "idle" =>
           wcall[d].n \in DOMAIN note /\ wcall[d].n # n
    BY <1>1, <1>2 DEF CallInv, n
  <2>21. CallInv'
    <3>1. \A d \in Writers : wcall'[d].pc # "idle" => wcall[d].pc # "idle"
      BY ZenonT(30), <1>2, <2>8
    <3>2. \A d \in Writers : wcall'[d].pc # "idle" =>
            /\ wcall'[d].n \in DOMAIN note'
            /\ note'[wcall'[d].n].answer = "none"
      BY SMTT(20), <1>1, <2>9, <2>17, <2>19, <3>1 DEF CallInv
    <3>3. \A b, d \in Writers :
            /\ wcall'[b].pc # "idle" /\ wcall'[d].pc # "idle"
            /\ wcall'[b].n = wcall'[d].n
            => b = d
      BY ZenonT(30), <1>1, <2>17, <3>1 DEF CallInv
    <3>4. \A d \in Writers : wcall'[d].pc \in {"acquire", "submit", "tail"} =>
            /\ d # c /\ wcall'[d] = wcall[d]
            /\ wcall[d].n \in DOMAIN note /\ wcall[d].n # n
      BY <2>5, <2>8, <2>20
    <3>5. \A d \in Writers : wcall'[d].pc \in {"acquire", "submit", "tail"} =>
            note'[wcall'[d].n].fate = "none"
      BY SMT, <1>1, <2>9, <3>4 DEF CallInv
    <3>6. \A d \in Writers : wcall'[d].pc # "tail"
      <4>1. \A d \in Writers : wcall[d].pc # "tail"
        BY <1>1, <2>1 DEF CallInv
      <4> QED
        BY <3>4, <4>1
    <3>7. \A q \in Requests : refs'[q] # 0 =>
            /\ serves'[q] \in DOMAIN note'
            /\ \A d \in Writers : wcall'[d].pc \in {"acquire", "tail"} =>
                 wcall'[d].n # serves'[q]
      BY SMT, <1>1, <1>4, <2>9, <2>11, <3>4 DEF CallInv
    <3>8. \A p, q \in Requests :
            refs'[p] # 0 /\ refs'[q] # 0 /\ serves'[p] = serves'[q] => p = q
      BY <1>1, <1>4, <2>11 DEF CallInv
    <3> QED
      BY <3>2, <3>3, <3>5, <3>6, <3>7, <3>8 DEF CallInv
  <2>22. ~FinDone'
    <3>1. y.fate # "done"
      BY <2>6
    <3> QED
      BY <2>1, <2>9, <3>1 DEF FinDone
  <2>23. FateInv'
    <3>1. \A m \in DOMAIN note' : Truth(m)'
      <4> SUFFICES ASSUME NEW m \in DOMAIN note' PROVE Truth(m)'
        OBVIOUS
      <4>1. CASE m = n
        BY <2>6, <2>9, <4>1 DEF Truth
      <4>2. CASE m # n
        <5>1. m \in DOMAIN note /\ note'[m] = note[m]
          BY <2>9, <4>2
        <5> QED
          BY <1>1, <1>4, <2>1, <5>1 DEF FateInv, Truth
      <4> QED
        BY <4>1, <4>2
    <3>2. \A d \in Writers : wcall'[d].pc = "await" /\ wcall'[d].req # Job' =>
            Waiting(wcall[d].req, wcall[d].n)'
      <4> SUFFICES ASSUME NEW d \in Writers, wcall'[d].pc = "await",
                          wcall'[d].req # Job'
                   PROVE  Waiting(wcall[d].req, wcall[d].n)'
        OBVIOUS
      <4>1. d # c /\ wcall'[d] = wcall[d]
        BY <2>4, <2>5, <2>8
      <4>2. wcall[d].req \in Requests
        BY <1>1, <4>1 DEF LeaseInv, Leasing
      <4>3. wcall[d].req # Job
        BY <1>3, <4>2, JobFacts
      <4>4. Waiting(wcall[d].req, wcall[d].n)
        BY <1>1, <4>1, <4>3 DEF FateInv
      <4>5. note'[wcall[d].n] = note[wcall[d].n]
        BY <2>9, <2>20, <4>1
      <4> QED
        BY <1>7, <4>1, <4>4, <4>5 DEF Waiting
    <3>3. \A m \in DOMAIN note' : note'[m].fate = "queued" => m = n
      BY <1>1, <1>3, <2>9 DEF FateInv
    <3>4. serves'[Job'] = n /\ Job' # 0
      BY <1>4, <1>5, <2>4
    <3>5. /\ note'[n].fate = "queued"
          /\ note'[n].kind = "fin" => finished'
      BY <2>6, <2>9, <2>12
    <3> QED
      BY <3>1, <3>2, <3>3, <3>4, <3>5 DEF FateInv
  <2>24. LeaveInv'
    BY <1>4, <2>1, <2>22 DEF LeaveInv
  <2> QED
    BY <2>14, <2>16, <2>18, <2>21, <2>23, <2>24 DEF PipeInv
<1> QED
  BY <1>6, <1>7 DEF Submit

\* await and the end of CloseWrite: the caller is told what its result says.
LEMMA AwaitKeeps ==
  ASSUME PipeInv, NEW c \in Writers, Await(c) \/ AwaitFin(c)
  PROVE  PipeInv'
<1> DEFINE r == wcall[c].req
           n == wcall[c].n
           x == [pc |-> "idle", n |-> 0, req |-> 0]
<1>1. PipeTypes /\ GateInv /\ LeaseInv /\ CallInv /\ FateInv /\ LeaveInv
  BY DEF PipeInv
<1>2. /\ UNCHANGED <<jobs, worker, serves>> /\ token' = token
      /\ token \in BOOLEAN
      /\ UNCHANGED <<finished, failed, shut, due, serves, jobs, worker>>
  BY <1>1 DEF Await, AwaitFin, queueVars, poolVars, PipeTypes
<1>3. x \in WriterCalls /\ x.pc = "idle"
  BY SMT DEF WriterCalls
<1>4. ASSUME wcall' = [wcall EXCEPT ![c] = x]
      PROVE  /\ GateInv' /\ wcall'[c] = x
             /\ \A d \in Writers : d # c => wcall'[d] = wcall[d]
  <2> HIDE DEF x
  <2>1. wcall'[c] = x /\ \A d \in Writers : d # c => wcall'[d] = wcall[d]
    BY <1>1, <1>3, <1>4, CallerMoves
  <2> QED
    BY <1>1, <1>2, <1>3, <2>1, GateShrinks
<1>5. CASE Await(c)
  <2>1. wcall[c].pc = "await" /\ Leasing(c)
    BY <1>5 DEF Await, Leasing
  <2>2. r \in Requests /\ n \in DOMAIN note /\ note[n].kind \in {"data", "fin"}
    <3>1. r \in Requests /\ n \in DOMAIN note
      BY <1>1, <2>1 DEF LeaseInv, CallInv
    <3>2. note[n] \in PipeNotes
      BY <1>1, <3>1, ElementTypes
    <3> QED
      BY SMT, <3>1, <3>2 DEF PipeNotes
  <2>3. Job # r => Waiting(r, n)
    BY <1>1, <2>1 DEF FateInv
  <2>4. note[n].fate # "none"
    <3>1. CASE Job = r
      BY <1>1, <2>1, <2>2, <3>1, JobFacts DEF FateInv, LeaseInv
    <3>2. CASE Job # r
      BY <2>3, <3>2 DEF Waiting
    <3> QED
      BY <3>1, <3>2
  <2>5. ASSUME NEW ans \in {"ok", "kept", "refused"}, Answer(c, ans),
               NEW rs, rs = result \/ rs = [result EXCEPT ![r] = <<>>],
               Unref(refs, rs, r),
               ans = "ok" => note[n].fate = "done",
               ans = "refused" => note[n].fate = "failed"
        PROVE  PipeInv'
    <3>1. wcall' = [wcall EXCEPT ![c] = x]
      BY <2>5 DEF Answer
    <3> HIDE DEF x
    <3>2. GateInv'
      BY <1>4, <3>1
    <3>3. /\ LeaseInv' /\ refs' \in [Requests -> Nat]
          /\ result' \in [Requests -> Seq({"ok", "fail", "closed"})]
          /\ \A q \in Requests : refs'[q] # 0 => refs[q] # 0
          /\ \A d \in Writers : d # c /\ Leasing(d) =>
               result'[wcall[d].req] = result[wcall[d].req]
      BY <1>2, <1>3, <2>1, <2>5, <3>1, ReleaseKeeps
    <3>4. ans = "ok" /\ note[n].kind = "fin" => FinDone
      BY <2>2, <2>5 DEF FinDone
    <3>5. token' \in BOOLEAN /\ wcall[c].pc # "idle"
      BY <1>2, <2>1
    <3> QED
      BY <1>2, <2>4, <2>5, <3>2, <3>3, <3>4, <3>5, AnswerKeeps
  <2>6. ASSUME result[r] # <<>>
        PROVE  \/ Head(result[r]) = "ok" /\ note[n].fate = "done"
               \/ Head(result[r]) = "fail" /\ note[n].fate = "failed"
               \/ Head(result[r]) = "closed"
    <3>1. Job # r
      BY <1>1, <2>2, <2>6 DEF LeaseInv
    <3>2. \A w : Head(<<w>>) = w
      BY SMT
    <3> QED
      BY <2>3, <3>1, <3>2 DEF Waiting
  <2>7. ~(Exited /\ result[r] = <<>>)
    <3> SUFFICES ASSUME Exited, result[r] = <<>> PROVE FALSE
      OBVIOUS
    <3>1. Job = 0
      BY <1>1, JobFacts DEF GateInv, Exited
    <3>2. Job # r
      BY <2>2, <3>1, JobFacts
    <3>3. \A w : <<w>> # <<>>
      BY SMT
    <3> QED
      BY <2>3, <3>2, <3>3 DEF Waiting
  <2> DEFINE Told(res) == CASE res = "ok" -> "ok"
                            [] res = "closed" -> "kept"
                            [] OTHER -> "refused"
  <2>8. Told("ok") = "ok" /\ Told("closed") = "kept" /\ Told("fail") = "refused"
    OBVIOUS
  <2>9. CASE /\ result[r] # <<>> /\ Answer(c, Told(Head(result[r])))
             /\ Unref(refs, [result EXCEPT ![r] = <<>>], r)
    <3> DEFINE ans == Told(Head(result[r]))
    <3>1. /\ ans \in {"ok", "kept", "refused"}
          /\ ans = "ok" => note[n].fate = "done"
          /\ ans = "refused" => note[n].fate = "failed"
      <4> HIDE DEF Told
      <4> QED
        BY <2>6, <2>8, <2>9
    <3>2. Answer(c, ans)
      BY <2>9
    <3> HIDE DEF ans
    <3> QED
      BY <2>5, <2>9, <3>1, <3>2
  <2>10. CASE Answer(c, "kept") /\ Unref(refs, result, r)
    BY <2>5, <2>10
  <2> QED
    BY <1>5, <2>7, <2>9, <2>10 DEF Await
<1>6. CASE AwaitFin(c)
  <2>1. wcall[c].pc = "tail" /\ UNCHANGED <<refs, result, serves>>
    BY <1>6 DEF AwaitFin, poolVars
  <2>2. n \in DOMAIN note /\ note[n].fate = "none" /\ note[n].kind = "fin"
    BY <1>1, <2>1 DEF CallInv
  <2>3. PICK ans \in {"ok", "refused"} :
          Answer(c, ans) /\ (ans = "ok" => Exited /\ ~failed)
    BY <1>6 DEF AwaitFin
  <2>4. wcall' = [wcall EXCEPT ![c] = x]
    BY <2>3 DEF Answer
  <2> HIDE DEF x
  <2>5. /\ GateInv' /\ wcall'[c] = x
        /\ \A d \in Writers : d # c => wcall'[d] = wcall[d]
    BY <1>4, <2>4
  <2>6. Job' = Job
    BY <1>2 DEF Job
  <2>7. LeaseInv'
    <3>1. \A d \in Writers : Leasing(d)' <=> Leasing(d)
      BY <1>3, <2>1, <2>5 DEF Leasing
    <3>2. \A d \in Writers : Leasing(d) => wcall'[d] = wcall[d]
      BY <2>1, <2>5 DEF Leasing
    <3> QED
      BY <1>1, <2>1, <2>6, <3>1, <3>2, LeaseStays
  <2>8. ans = "ok" => shut \/ FinDone
    BY <1>1, <2>3 DEF LeaveInv, Exited, Leaving
  <2>9. /\ refs' \in [Requests -> Nat] /\ token' \in BOOLEAN
        /\ result' \in [Requests -> Seq({"ok", "fail", "closed"})]
        /\ \A q \in Requests : refs'[q] # 0 => refs[q] # 0
        /\ \A d \in Writers : d # c /\ Leasing(d) =>
             result'[wcall[d].req] = result[wcall[d].req]
    BY <1>1, <1>2, <2>1 DEF PipeTypes
  <2>10. /\ wcall[c].pc # "idle" /\ ans \in {"ok", "kept", "refused"}
         /\ ans # "kept" /\ note[wcall[c].n].kind # "data"
         /\ note[wcall[c].n].fate \in {"none", "failed"}
    BY <2>1, <2>2
  <2> QED
    BY <1>2, <2>3, <2>5, <2>7, <2>8, <2>9, <2>10, AnswerKeeps
<1> QED
  BY <1>5, <1>6

\* complete: the result waits for the caller that is still there, the fate of
\* its bytes is settled and the gate has its token again.
LEMMA CompleteKeeps ==
  ASSUME PipeInv, Job # 0, NEW res, NEW outcome,
         \/ res = "ok" /\ outcome = "done"
         \/ res = "fail" /\ outcome = "failed"
         \/ res = "closed" /\ outcome = "dropped",
         Complete(Job, res, outcome), jobs' = <<>>,
         NEW pc \in {"idle", "stopping", "exited"},
         worker' = [pc |-> pc, req |-> 0],
         UNCHANGED <<finished, shut, due, serves, wcall>>,
         failed' \in BOOLEAN, failed' => pc \in Leaving,
         note[serves[Job]].kind = "fin" /\ outcome = "done" => pc \in Leaving,
         pc \in Leaving =>
           \/ shut \/ failed'
           \/ note[serves[Job]].kind = "fin" /\ outcome = "done"
  PROVE  PipeInv'
<1> DEFINE j == Job
           n == serves[j]
           y == [note[n] EXCEPT !.fate = outcome]
<1>1. PipeTypes /\ GateInv /\ LeaseInv /\ CallInv /\ FateInv /\ LeaveInv
  BY DEF PipeInv
<1>2. /\ finished' = finished /\ finished \in BOOLEAN
      /\ shut' = shut /\ shut \in BOOLEAN /\ due' = due /\ due \in BOOLEAN
      /\ token' = TRUE
  BY <1>1 DEF PipeTypes, Complete
<1>3. /\ j \in Requests /\ n \in DOMAIN note /\ refs[j] # 0
      /\ 0 \notin Requests
  BY JobFacts
<1>4. /\ note[n].fate = "queued" /\ (note[n].kind = "fin" => finished)
      /\ \A m \in DOMAIN note : note[m].fate = "queued" => m = n
      /\ \A d \in Writers : wcall[d].pc # "submit"
  BY <1>1 DEF FateInv, GateInv
<1>5. /\ y \in PipeNotes /\ y.kind = note[n].kind /\ y.fate = outcome
      /\ y.answer = note[n].answer
  <2>1. note[n] \in PipeNotes
    BY SMT, <1>1, <1>3 DEF PipeTypes
  <2> QED
    BY SMTT(20), <2>1 DEF PipeNotes
<1>6. note' = [note EXCEPT ![n] = y]
  BY DEF Complete
<1> HIDE DEF y
<1>7. /\ note' \in Seq(PipeNotes) /\ Len(note') = Len(note)
      /\ DOMAIN note' = DOMAIN note /\ note'[n] = y
      /\ \A m \in DOMAIN note : m # n => note'[m] = note[m]
  BY <1>1, <1>3, <1>5, <1>6, NoteChanges
<1>8. refs[j] = IF HeldBy(j) THEN 2 ELSE 1
  BY <1>1, <1>3 DEF LeaseInv
<1>9. /\ refs' \in [Requests -> Nat]
      /\ refs'[j] = IF HeldBy(j) THEN 1 ELSE 0
      /\ \A r \in Requests : r # j => refs'[r] = refs[r]
  <2>1. refs' = [refs EXCEPT ![j] = refs[j] - 1]
    BY DEF Complete, Unref
  <2> HIDE DEF j
  <2> QED
    BY SMTT(20), <1>1, <1>3, <1>8, <2>1 DEF PipeTypes
<1>10. /\ result' \in [Requests -> Seq({"ok", "fail", "closed"})]
       /\ result'[j] = IF HeldBy(j) THEN <<res>> ELSE <<>>
       /\ \A r \in Requests : r # j => result'[r] = result[r]
  <2> DEFINE rs == [result EXCEPT ![j] = <<res>>]
  <2>1. result' = IF refs[j] = 1 THEN [rs EXCEPT ![j] = <<>>] ELSE rs
    BY DEF Complete, Unref
  <2>2. /\ <<>> \in Seq({"ok", "fail", "closed"})
        /\ <<res>> \in Seq({"ok", "fail", "closed"})
    BY SMT
  <2>3. refs[j] = 1 <=> ~HeldBy(j)
    <3> HIDE DEF j
    <3> QED
      BY SMT, <1>8
  <2> HIDE DEF j
  <2>4. /\ rs \in [Requests -> Seq({"ok", "fail", "closed"})]
        /\ rs[j] = <<res>>
        /\ \A r \in Requests : r # j => rs[r] = result[r]
    BY <1>1, <1>3, <2>2 DEF PipeTypes
  <2> HIDE DEF rs
  <2> QED
    BY <1>3, <2>1, <2>2, <2>3, <2>4
<1>11. /\ worker' \in [pc : {"new", "idle", "busy", "stopping", "exited"},
                       req : Nat]
       /\ worker'.pc = pc /\ worker'.req = 0
  BY SMT
<1>12. Job' = 0
  BY <1>11 DEF Job
<1>13. PipeTypes'
  <2>1. jobs' \in Seq(Requests)
    BY SMT
  <2> QED
    BY <1>1, <1>2, <1>7, <1>9, <1>10, <1>11, <2>1 DEF PipeTypes
<1>14. GateInv'
  BY <1>4, <1>11, <1>12 DEF GateInv
<1> HIDE DEF j, n
<1>15. LeaseInv'
  <2>1. \A r : HeldBy(r)' <=> HeldBy(r)
    BY DEF HeldBy, Leasing
  <2>2. \A d \in Writers : Leasing(d)' =>
          wcall'[d].req \in Requests /\ serves'[wcall'[d].req] = wcall'[d].n
    BY <1>1 DEF LeaseInv, Leasing
  <2>3. \A b, d \in Writers :
          Leasing(b)' /\ Leasing(d)' /\ wcall'[b].req = wcall'[d].req => b = d
    BY <1>1 DEF LeaseInv, Leasing
  <2>4. \A r \in Requests :
          refs'[r] = IF HeldBy(r)' THEN (IF Job' = r THEN 2 ELSE 1)
                     ELSE (IF Job' = r THEN 1 ELSE 0)
    <3> SUFFICES ASSUME NEW r \in Requests
                 PROVE  refs'[r] = IF HeldBy(r)'
                                   THEN (IF Job' = r THEN 2 ELSE 1)
                                   ELSE (IF Job' = r THEN 1 ELSE 0)
      OBVIOUS
    <3>1. Job' # r
      BY <1>3, <1>12
    <3>2. CASE r = j
      BY <1>9, <2>1, <3>1, <3>2
    <3>3. CASE r # j
      BY <1>1, <1>9, <2>1, <3>1, <3>3 DEF LeaseInv, j
    <3> QED
      BY <3>2, <3>3
  <2>5. \A r \in Requests : result'[r] # <<>> =>
          /\ Job' # r
          /\ \E d \in Writers : wcall'[d].pc = "await" /\ wcall'[d].req = r
    <3> SUFFICES ASSUME NEW r \in Requests, result'[r] # <<>>
                 PROVE  \E d \in Writers :
                          wcall'[d].pc = "await" /\ wcall'[d].req = r
      BY <1>3, <1>12
    <3>1. CASE r = j
      BY <1>4, <1>10, <3>1 DEF HeldBy, Leasing
    <3>2. CASE r # j
      BY <1>1, <1>10, <3>2 DEF LeaseInv
    <3> QED
      BY <3>1, <3>2
  <2> QED
    BY <2>2, <2>3, <2>4, <2>5 DEF LeaseInv
<1>16. \A r \in Requests : refs'[r] # 0 => refs[r] # 0
  BY <1>3, <1>9
<1>17. \A m \in DOMAIN note :
         note'[m].kind = note[m].kind /\ note'[m].answer = note[m].answer
  BY <1>5, <1>7
<1>18. CallInv'
  <2>1. \A d \in Writers : wcall[d].pc \in {"acquire", "submit", "tail"} =>
          wcall[d].n \in DOMAIN note /\ wcall[d].n # n
    BY <1>1, <1>3, <1>4 DEF CallInv, n
  <2>2. \A d \in Writers : wcall'[d].pc # "idle" =>
          /\ wcall'[d].n \in DOMAIN note'
          /\ note'[wcall'[d].n].answer = "none"
    BY <1>1, <1>7, <1>17 DEF CallInv
  <2>3. \A b, d \in Writers :
          /\ wcall'[b].pc # "idle" /\ wcall'[d].pc # "idle"
          /\ wcall'[b].n = wcall'[d].n
          => b = d
    BY <1>1 DEF CallInv
  <2>4. \A d \in Writers : wcall'[d].pc \in {"acquire", "submit", "tail"} =>
          note'[wcall'[d].n].fate = "none"
    BY ZenonT(30), <1>1, <1>7, <2>1 DEF CallInv
  <2>5. \A d \in Writers : wcall'[d].pc = "tail" =>
          note'[wcall'[d].n].kind = "fin" /\ finished'
    BY SMTT(20), <1>1, <1>2, <1>7, <2>1 DEF CallInv
  <2>6. \A r \in Requests : refs'[r] # 0 =>
          /\ serves'[r] \in DOMAIN note'
          /\ \A d \in Writers :
               wcall'[d].pc \in {"acquire", "tail"} => wcall'[d].n # serves'[r]
    BY <1>1, <1>7, <1>16 DEF CallInv
  <2>7. \A r, q \in Requests :
          refs'[r] # 0 /\ refs'[q] # 0 /\ serves'[r] = serves'[q] => r = q
    BY <1>1, <1>16 DEF CallInv
  <2> QED
    BY <2>2, <2>3, <2>4, <2>5, <2>6, <2>7 DEF CallInv
<1>19. worker.pc \notin Leaving
  <2>1. worker.pc \in Leaving => jobs = <<>> /\ worker.pc # "busy"
    BY <1>1 DEF GateInv, Leaving
  <2> QED
    BY <2>1, JobFacts
<1>20. ~FinDone /\ ~failed
  BY <1>1, <1>19 DEF LeaveInv
<1>21. FinDone' <=> note[n].kind = "fin" /\ outcome = "done"
  BY <1>3, <1>5, <1>7, <1>20 DEF FinDone
<1>22. FateInv'
  <2>1. \A m \in DOMAIN note' : Truth(m)'
    <3> SUFFICES ASSUME NEW m \in DOMAIN note' PROVE Truth(m)'
      OBVIOUS
    <3>1. Truth(m)
      BY <1>1, <1>7 DEF FateInv
    <3>2. CASE m = n
      <4>1. outcome # "none"
        OBVIOUS
      <4> QED
        BY SMTT(20), <1>2, <1>4, <1>5, <1>7, <1>20, <3>1, <3>2, <4>1 DEF Truth
    <3>3. CASE m # n
      BY SMTT(20), <1>2, <1>7, <1>20, <3>1, <3>3 DEF Truth
    <3> QED
      BY <3>2, <3>3
  <2>2. \A d \in Writers : wcall'[d].pc = "await" /\ wcall'[d].req # Job' =>
          Waiting(wcall[d].req, wcall[d].n)'
    <3> SUFFICES ASSUME NEW d \in Writers, wcall[d].pc = "await"
                 PROVE  Waiting(wcall[d].req, wcall[d].n)'
      OBVIOUS
    <3>1. /\ Leasing(d) /\ wcall[d].req \in Requests
          /\ serves[wcall[d].req] = wcall[d].n
      BY <1>1 DEF LeaseInv, Leasing
    <3>2. CASE wcall[d].req = j
      <4>1. HeldBy(j) /\ wcall[d].n = n
        BY <3>1, <3>2 DEF HeldBy, n
      <4>2. result'[j] = <<res>> /\ note'[n].fate = outcome
        BY <1>5, <1>7, <1>10, <4>1
      <4> QED
        BY <3>2, <4>1, <4>2 DEF Waiting
    <3>3. CASE wcall[d].req # j
      <4>1. Waiting(wcall[d].req, wcall[d].n)
        BY <1>1, <3>3 DEF FateInv, j
      <4>2. refs[wcall[d].req] # 0
        <5>1. refs[wcall[d].req] = 1
          BY <1>1, <3>1, <3>3 DEF LeaseInv, HeldBy, j
        <5> QED
          BY SMT, <5>1
      <4>3. wcall[d].n # n /\ wcall[d].n \in DOMAIN note
        BY <1>1, <1>3, <3>1, <3>3, <4>2 DEF CallInv, n
      <4> QED
        BY <1>7, <1>10, <3>1, <3>3, <4>1, <4>3 DEF Waiting
    <3> QED
      BY <3>2, <3>3
  <2>3. \A m \in DOMAIN note' : note'[m].fate # "queued"
    <3>1. outcome # "queued"
      OBVIOUS
    <3> QED
      BY <1>4, <1>5, <1>7, <3>1
  <2> QED
    BY <1>12, <2>1, <2>2, <2>3 DEF FateInv
<1>23. LeaveInv'
  BY SMTT(20), <1>2, <1>4, <1>11, <1>21 DEF LeaveInv, n, j
<1> QED
  BY <1>13, <1>14, <1>15, <1>18, <1>22, <1>23 DEF PipeInv

\* run() takes, works off or drops its job, and leaves.
LEMMA WorkerKeeps ==
  ASSUME PipeInv, Quit \/ Take \/ Work \/ Exit
  PROVE  PipeInv'
<1>1. PipeTypes /\ GateInv
  BY DEF PipeInv
<1>2. /\ shut \in BOOLEAN /\ due \in BOOLEAN /\ failed \in BOOLEAN
      /\ jobs \in Seq(Requests) /\ <<>> \in Seq(Requests)
  BY SMT, <1>1 DEF PipeTypes
<1>3. CASE Quit
  <2> DEFINE w == [pc |-> "exited", req |-> 0]
  <2>1. /\ worker.pc = "idle" /\ shut /\ worker' = w
        /\ UNCHANGED <<finished, shut, due, serves, wcall>>
        /\ failed' = failed
    BY <1>3 DEF Quit
  <2>2. /\ w \in [pc : {"new", "idle", "busy", "stopping", "exited"}, req : Nat]
        /\ w.pc = "exited" /\ w.req = 0
    BY SMT
  <2>3. CASE jobs = <<>> /\ UNCHANGED <<token, jobs, refs, result, note>>
    <3> HIDE DEF w
    <3>1. Job = 0 /\ Job' = 0
      BY <2>1, <2>2, <2>3, JobFacts DEF Job
    <3>2. worker.pc \notin Leaving
      BY <2>1 DEF Leaving
    <3> QED
      BY <1>2, <2>1, <2>2, <2>3, <3>1, <3>2, PipeRestKeeps
  <2>4. CASE /\ jobs # <<>> /\ jobs' = <<>>
             /\ Complete(Head(jobs), "closed", "dropped")
    <3>1. Job # 0 /\ Complete(Job, "closed", "dropped")
      BY <2>4, JobFacts
    <3>2. ~failed
      BY <2>1 DEF PipeInv, LeaveInv, Leaving
    <3>3. failed' \in BOOLEAN /\ ~failed'
      BY <1>2, <2>1, <3>2
    <3>4. worker' = [pc |-> "exited", req |-> 0]
      BY <2>1
    <3>5. "exited" \in Leaving /\ "dropped" # "done"
      BY DEF Leaving
    <3>6. UNCHANGED <<finished, shut, due, serves, wcall>>
      BY <2>1
    <3> HIDE DEF w
    <3> QED
      BY <2>1, <2>4, <3>1, <3>3, <3>4, <3>5, <3>6, CompleteKeeps
  <2> QED
    BY <1>3, <2>3, <2>4 DEF Quit
<1>4. CASE Take
  <2> DEFINE w == [pc |-> "busy", req |-> Head(jobs)]
  <2>1. /\ worker.pc = "idle" /\ jobs # <<>> /\ worker' = w /\ jobs' = <<>>
        /\ UNCHANGED <<wcall, note, refs, serves, result, token, finished,
                       failed>>
        /\ shut' = shut /\ due' = due
    BY <1>4 DEF Take, poolVars
  <2>2. Job = Head(jobs) /\ Head(jobs) \in Requests
    BY <2>1, JobFacts
  <2>3. /\ w \in [pc : {"new", "idle", "busy", "stopping", "exited"}, req : Nat]
        /\ w.pc = "busy" /\ w.req = Head(jobs)
    BY SMT, <2>2 DEF Requests, Calls
  <2> HIDE DEF w
  <2>4. Job' = Job
    BY <2>1, <2>2, <2>3 DEF Job
  <2>5. worker.pc \notin Leaving /\ worker'.pc \notin Leaving
    BY <2>1, <2>3 DEF Leaving
  <2> QED
    BY <1>2, <2>1, <2>2, <2>3, <2>4, <2>5, PipeRestKeeps
<1>5. CASE Work
  <2> DEFINE r == worker.req
             fin == Kind(serves[r]) = "fin"
  <2>1. /\ worker.pc = "busy"
        /\ UNCHANGED <<jobs, finished, shut, due, serves, wcall>>
    BY <1>5 DEF Work
  <2>2. PICK ok \in BOOLEAN :
          /\ failed' = ~ok
          /\ Complete(r, IF ok THEN "ok" ELSE "fail",
                      IF ok THEN "done" ELSE "failed")
          /\ worker' = [pc |-> IF fin \/ ~ok THEN "stopping" ELSE "idle",
                        req |-> 0]
    BY <1>5 DEF Work
  <2>3. Job = r /\ Job # 0 /\ jobs' = <<>>
    BY <1>1, <2>1, JobFacts DEF GateInv
  <2>4. fin <=> note[serves[Job]].kind = "fin"
    BY <2>3 DEF Kind
  <2> DEFINE res == IF ok THEN "ok" ELSE "fail"
             outcome == IF ok THEN "done" ELSE "failed"
             pc == IF fin \/ ~ok THEN "stopping" ELSE "idle"
  <2>5. Complete(Job, res, outcome) /\ worker' = [pc |-> pc, req |-> 0]
    BY <2>2, <2>3
  <2>6. /\ \/ res = "ok" /\ outcome = "done"
           \/ res = "fail" /\ outcome = "failed"
           \/ res = "closed" /\ outcome = "dropped"
        /\ failed' \in BOOLEAN
    BY <2>2
  <2>7. /\ pc \in {"idle", "stopping", "exited"}
        /\ failed' => pc \in Leaving
        /\ note[serves[Job]].kind = "fin" /\ outcome = "done" => pc \in Leaving
    BY <2>2, <2>4 DEF Leaving
  <2>8. pc \in Leaving =>
           \/ shut \/ failed'
           \/ note[serves[Job]].kind = "fin" /\ outcome = "done"
    BY <2>2, <2>4 DEF Leaving
  <2> HIDE DEF res, outcome, pc, fin, r
  <2> QED
    BY ZenonT(30), <2>1, <2>3, <2>5, <2>6, <2>7, <2>8, CompleteKeeps
<1>6. CASE Exit
  <2> DEFINE w == [worker EXCEPT !.pc = "exited"]
  <2>1. /\ worker.pc = "stopping" /\ worker' = w
        /\ UNCHANGED <<wcall, note, refs, serves, result, token, finished,
                       failed, jobs>>
        /\ shut' = shut /\ due' = due
    BY <1>6 DEF Exit, poolVars, queueVars
  <2>2. /\ w \in [pc : {"new", "idle", "busy", "stopping", "exited"}, req : Nat]
        /\ w.pc = "exited" /\ w.req = worker.req
    <3>1. worker \in [pc : {"new", "idle", "busy", "stopping", "exited"},
                      req : Nat]
      BY <1>1 DEF PipeTypes
    <3> QED
      BY SMT, <3>1
  <2> HIDE DEF w
  <2>3. Job' = Job
    BY <2>1, <2>2 DEF Job
  <2>4. jobs = <<>> /\ worker.req = 0
    BY <1>1, <2>1 DEF GateInv
  <2>5. worker.pc \in Leaving /\ worker'.pc \in Leaving
    BY <2>1, <2>2 DEF Leaving
  <2> QED
    BY <1>2, <2>1, <2>2, <2>3, <2>4, <2>5, PipeRestKeeps
<1> QED
  BY <1>3, <1>4, <1>5, <1>6

\* Close and the deadline.
LEMMA CloseKeeps ==
  ASSUME PipeInv, PipeShut \/ PipeJoin \/ SetDeadline
  PROVE  PipeInv'
<1>1. PipeTypes /\ GateInv
  BY DEF PipeInv
<1>2. /\ UNCHANGED <<wcall, note, refs, serves, result, token, finished,
                     failed, jobs>>
      /\ worker' = worker \/ worker' = Start(worker)
      /\ shut' = shut \/ shut' = TRUE
      /\ due' = due \/ due' = ~due
  BY DEF PipeShut, PipeJoin, SetDeadline, poolVars, queueVars
<1>3. shut' \in BOOLEAN /\ due' \in BOOLEAN /\ (shut => shut')
  <2>1. shut \in BOOLEAN /\ due \in BOOLEAN
    BY <1>1 DEF PipeTypes
  <2>2. CASE shut' = shut
    BY <1>2, <2>1, <2>2
  <2>3. CASE shut' = TRUE
    BY <1>2, <2>1, <2>3
  <2> QED
    BY <1>2, <2>2, <2>3
<1>4. /\ worker' \in [pc : {"new", "idle", "busy", "stopping", "exited"},
                      req : Nat]
      /\ worker'.req = worker.req
      /\ worker'.pc = worker.pc \/ (worker.pc = "new" /\ worker'.pc = "idle")
  BY SMT, <1>1, <1>2 DEF PipeTypes, Start
<1>5. Job' = Job
  BY <1>2, <1>4 DEF Job
<1>6. /\ jobs' \in Seq(Requests)
      /\ jobs' = <<>> \/ \E r \in Requests : jobs' = <<r>>
      /\ worker'.pc \in {"busy", "stopping", "exited"} => jobs' = <<>>
      /\ IF worker'.pc = "busy" THEN worker'.req \in Requests
         ELSE worker'.req = 0
  BY <1>1, <1>2, <1>4 DEF PipeTypes, GateInv
<1>7. worker'.pc \in Leaving <=> worker.pc \in Leaving
  BY <1>4 DEF Leaving
<1> QED
  BY <1>2, <1>3, <1>4, <1>5, <1>6, <1>7, PipeRestKeeps

\* Every step of the queue, and every step of others.
LEMMA PipeStep == PipeInv /\ [PipeNext]_pipeVars => PipeInv'
<1> SUFFICES ASSUME PipeInv, [PipeNext]_pipeVars PROVE PipeInv'
  OBVIOUS
<1>1. CASE UNCHANGED pipeVars
  <2>1. UNCHANGED <<token, jobs, finished, failed, shut, due, refs, result,
                    serves, worker, wcall, note>>
    BY <1>1 DEF pipeVars, queueVars, poolVars
  <2>2. PipeTypes /\ GateInv
    BY DEF PipeInv
  <2>3. shut' \in BOOLEAN /\ due' \in BOOLEAN /\ (shut => shut') /\ Job' = Job
    BY <2>1, <2>2 DEF PipeTypes, Job
  <2>4. /\ jobs' \in Seq(Requests)
        /\ worker' \in [pc : {"new", "idle", "busy", "stopping", "exited"},
                        req : Nat]
        /\ jobs' = <<>> \/ \E r \in Requests : jobs' = <<r>>
        /\ worker'.pc \in {"busy", "stopping", "exited"} => jobs' = <<>>
        /\ IF worker'.pc = "busy" THEN worker'.req \in Requests
           ELSE worker'.req = 0
    BY <2>1, <2>2 DEF PipeTypes, GateInv
  <2> QED
    BY <2>1, <2>3, <2>4, PipeRestKeeps
<1>2. CASE \E c \in Writers : Acquire(c) \/ Submit(c) \/ Await(c) \/ AwaitFin(c)
  BY <1>2, AcquireKeeps, SubmitKeeps, AwaitKeeps
<1>3. CASE Quit \/ Take \/ Work \/ Exit
  BY <1>3, WorkerKeeps
<1>4. CASE PipeShut \/ PipeJoin \/ SetDeadline
  BY <1>4, CloseKeeps
<1>5. CASE \E c \in Writers, kind \in {"data", "fin"} : Enter(c, kind)
  BY <1>5, EnterKeeps
<1> QED
  BY <1>1, <1>2, <1>3, <1>4, <1>5 DEF PipeNext, PipeProgress

\* The invariant says all that PipeHonest says.
LEMMA PipeTells == PipeInv => PipeHonest
<1> SUFFICES ASSUME PipeInv PROVE PipeHonest
  OBVIOUS
<1>1. GateInv /\ LeaseInv /\ FateInv /\ LeaveInv
  BY DEF PipeInv
<1>2. FinDone => \A m \in DOMAIN note : note[m].fate # "queued"
  <2> SUFFICES ASSUME FinDone
               PROVE  \A m \in DOMAIN note : note[m].fate # "queued"
    OBVIOUS
  <2>1. jobs = <<>> /\ worker.pc # "busy"
    BY <1>1 DEF LeaveInv, GateInv, Leaving
  <2>2. Job = 0
    BY <2>1, JobFacts
  <2> QED
    BY <1>1, <2>2 DEF FateInv
<1>3. \A n \in DOMAIN note :
        /\ note[n].answer = "refused" => note[n].fate \in {"none", "failed"}
        /\ note[n].answer = "kept" => note[n].fate # "none"
        /\ note[n].answer = "ok" /\ note[n].kind = "data" =>
             note[n].fate = "done"
        /\ note[n].answer = "ok" /\ note[n].kind = "fin" =>
             \/ shut
             \/ /\ \E m \in DOMAIN note :
                     note[m].kind = "fin" /\ note[m].fate = "done"
                /\ \A m \in DOMAIN note : note[m].fate # "queued"
  BY <1>1, <1>2 DEF FateInv, Truth, FinDone
<1>4. ASSUME NEW r \in Requests, refs[r] = 0
      PROVE  /\ result[r] = <<>> /\ worker.req # r
             /\ \A i \in DOMAIN jobs : jobs[i] # r
  <2>1. ~HeldBy(r) /\ Job # r
    <3>1. HeldBy(r) \/ Job = r => refs[r] \in {1, 2}
      BY <1>1 DEF LeaseInv
    <3> QED
      BY SMT, <1>4, <3>1
  <2>2. result[r] = <<>>
    BY <1>1, <2>1 DEF LeaseInv, HeldBy, Leasing
  <2>3. worker.req # r
    BY <1>1, <2>1, JobFacts DEF GateInv
  <2>4. \A i \in DOMAIN jobs : jobs[i] # r
    <3>1. CASE jobs = <<>>
      BY SMT, <3>1
    <3>2. CASE jobs # <<>>
      <4>1. PICK q \in Requests : jobs = <<q>>
        BY <1>1, <3>2 DEF GateInv
      <4>2. q # r
        <5>1. <<q>>[1] = q
          BY SMT
        <5> QED
          BY <2>1, <3>2, <4>1, <5>1 DEF Job
      <4> QED
        BY SMT, <4>1, <4>2
    <3> QED
      BY <3>1, <3>2
  <2> QED
    BY <2>2, <2>3, <2>4
<1>5. token => jobs = <<>> /\ worker.pc # "busy"
  BY <1>1, JobFacts DEF GateInv
<1> QED
  BY <1>3, <1>4, <1>5 DEF PipeHonest

\* What the callers of pipeWriteQueue are told is what becomes of their bytes,
\* and no request in use is in the pool (pipe_writer.go), for any number of
\* writers, calls and moves of the deadline.
THEOREM PipesHonest ==
  PipeInit /\ [][PipeNext]_pipeVars => []PipeHonest
BY PipeStart, PipeStep, PipeTells, PTL

-----------------------------------------------------------------------------
(* The three together *)

\* Callers are told the truth however the steps of the pipe writers, of the
\* packet connections and of the session cache interleave: what a pipe write
\* answers is what becomes of its bytes (pipe_writer.go), blocked packet calls
\* keep to the deadline now in force (conn_udp.go), and sessions reported as
\* saved survive a crash (cache.go).
THEOREM CallersToldTruth ==
  /\ PipeInit /\ [][PipeNext]_pipeVars
  /\ PacketInit /\ [][PacketNext]_packetVars
  /\ SessionInit /\ [][SessionNext]_sessionVars
  => []EndpointsHonest
<1>1. PipeHonest /\ DeadlinesKept /\ SessionsDurable => EndpointsHonest
  BY DEF EndpointsHonest
<1> QED
  BY <1>1, PipesHonest, DeadlinesHold, SessionsSurvive, PTL
=============================================================================
