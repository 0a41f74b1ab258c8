---------------------------- MODULE SessionCache ----------------------------
(***************************************************************************)
(* The TLS session cache (internal/sessioncache/cache.go): a map that is   *)
(* written to a file on each change, by a temporary file that replaces it, *)
(* and read again when the client starts.  A change and its file are one   *)
(* critical section; the process or the machine may stop between any two   *)
(* of its steps, on a system whose directories can be synced.              *)
(*                                                                         *)
(* A version of the map is a number.  What a crash may leave at the path   *)
(* is a set of versions; Torn stands for a file with part of its bytes.    *)
(***************************************************************************)
EXTENDS Naturals

CONSTANTS Torn,         \* a value that is no version
          MaxChanges    \* bound: changes of the map

ASSUME SessionAssumption == Torn \notin Nat /\ MaxChanges \in Nat

VARIABLES sessions,     \* c.entries
          persist,      \* how far persistLocked is, and in a Put or not
          temporary,    \* what a crash leaves of the temporary file
          onPath,       \* what the path names now
          onDisk,       \* what it may name after a crash
          persisted,    \* the last version Err() reported without an error
          updated,      \* the channel holds its token
          changes

fileVars == <<temporary, onPath, onDisk>>
sessionVars == <<sessions, persist, fileVars, persisted, updated, changes>>

Returned == [at |-> "returned", put |-> FALSE]

SessionInit ==  \* no file, or the one of the last run
  /\ sessions = 0 /\ persist = Returned /\ temporary = Torn /\ onPath = 0 /\ onDisk = {0}
  /\ persisted = 0 /\ updated = FALSE /\ changes = 0

Change == changes < MaxChanges /\ changes' = changes + 1
          /\ sessions' = changes + 1

\* Put of a session or of nil, and Clear: the map changes, then persistLocked.
Put ==
  /\ persist = Returned /\ Change
  /\ \E put \in BOOLEAN : persist' = [at |-> "create", put |-> put]
  /\ UNCHANGED <<fileVars, persisted, updated>>

\* Get drops an entry that does not parse, and leaves the file.
Get ==
  /\ persist = Returned /\ Change
  /\ UNCHANGED <<persist, fileVars, persisted, updated>>

\* An error at any step, also in the sync of the directory after the rename.
PersistFails ==
  /\ persist # Returned /\ persist' = Returned
  /\ UNCHANGED <<sessions, fileVars, persisted, updated, changes>>

WriteTemporary ==
  /\ persist.at = "create" /\ persist' = [persist EXCEPT !.at = "sync"]
  /\ temporary' = Torn
  /\ UNCHANGED <<sessions, onPath, onDisk, persisted, updated, changes>>

SyncTemporary ==
  /\ persist.at = "sync" /\ persist' = [persist EXCEPT !.at = "rename"]
  /\ temporary' = sessions
  /\ UNCHANGED <<sessions, onPath, onDisk, persisted, updated, changes>>

\* The temporary file takes the path, for a crash only perhaps.
Rename ==
  /\ persist.at = "rename" /\ persist' = [persist EXCEPT !.at = "directory"]
  /\ onPath' = sessions /\ onDisk' = onDisk \cup {temporary}
  /\ UNCHANGED <<sessions, temporary, persisted, updated, changes>>

\* syncDirectory: only now is the new file the one that is found.
SyncDirectory ==
  /\ persist.at = "directory" /\ persist' = Returned
  /\ onDisk' = {temporary} /\ persisted' = sessions
  /\ updated' = (updated \/ persist.put)
  /\ UNCHANGED <<sessions, temporary, onPath, changes>>

\* WaitForUpdate takes the token.
WaitForUpdate ==
  /\ updated /\ updated' = FALSE
  /\ UNCHANGED <<sessions, persist, fileVars, persisted, changes>>

\* The machine stops, and Open reads what is there.
SessionCrash ==
  /\ onPath' \in onDisk /\ onDisk' = {onPath'} /\ sessions' = onPath'
  /\ persist' = Returned /\ updated' = FALSE
  /\ UNCHANGED <<temporary, persisted, changes>>

\* Only the process stops.
Reopen ==
  /\ sessions' = onPath /\ persist' = Returned /\ updated' = FALSE
  /\ UNCHANGED <<fileVars, persisted, changes>>

SessionNext ==
  \/ Put \/ Get \/ PersistFails \/ WriteTemporary \/ SyncTemporary
  \/ Rename \/ SyncDirectory \/ WaitForUpdate \/ SessionCrash \/ Reopen
----------------------------------------------------------------------------
(* A crash finds a whole file, never older than the last change reported   *)
(* without an error; a waiter is only woken for such a change              *)
(* (cache.go: persistLocked, Put, Open).                                   *)
SessionsDurable ==
  /\ Torn \notin onDisk /\ onPath \in onDisk
  /\ \A v \in onDisk : v >= persisted
  /\ updated => persisted > 0
=============================================================================
