----------------------------- MODULE ClientDial -----------------------------
(***************************************************************************)
(* How the client opens what it dials (pkg/client): the HTTP/3 manager     *)
(* (conn_udp.go, lifecycle_h3_dial.go) shares one QUIC connection per      *)
(* slot, so callers wait for the one that dials; the raw transports        *)
(* (client.go, lifecycle_raw.go) dial a socket per call and register it    *)
(* with the client.  Either way the dial runs under a context that its     *)
(* caller may cancel until hand-off and the owner's shutdown may cancel    *)
(* always, and Close may come at any point.                                *)
(***************************************************************************)
EXTENDS Naturals, FiniteSets

CONSTANTS Dialers,      \* goroutines in DialContext or ListenPacket
          Manager,      \* the goroutine in Close
          SlotsOf,      \* what each asks for: "tcp", "udp" or both
          DialCalls     \* bound: calls they make

Slots == {"tcp", "udp"}     \* currentTCP, currentUDP
Conns == 1..(2 * DialCalls)  \* a call dials at most twice

VARIABLES carrier,      \* "h3" or "raw"
          ended,        \* m.closed or c.closed, and the lifetime context
          current, pending,  \* m.currentTCP, m.currentUDP; m.opening
          registered,   \* c.rawConnections
          sock,         \* the sockets, by the dial that made them
          aborted,      \* the dial's context is cancelled
          hook,         \* its AfterFunc on the caller's context
          verdict,      \* pending.done, pending.err
          dialer,       \* the callers
          holds,        \* sockets each goroutine must close
          manager, dials, starts

ownVars == <<carrier, ended, current, pending, registered, manager>>
connVars == <<sock, aborted, hook, verdict, dials>>
dialVars == <<ownVars, connVars, dialer, holds, starts>>

AtRest == [pc |-> "idle", slot |-> "tcp", id |-> 0,
           try |-> 1, ok |-> FALSE,
           gone |-> FALSE]  \* the call's own context is done

DialInit ==
  /\ carrier \in {"h3", "raw"} /\ ended = FALSE /\ manager = "idle"
  /\ current = [s \in Slots |-> 0] /\ pending = [s \in Slots |-> 0]
  /\ registered = {}
  /\ sock = [n \in Conns |-> "none"] /\ aborted = [n \in Conns |-> FALSE]
  /\ hook = [n \in Conns |-> "none"] /\ verdict = [n \in Conns |-> "none"]
  /\ dialer = [c \in Dialers |-> AtRest]
  /\ holds = [g \in Dialers \cup {Manager} |-> {}]
  /\ dials = 0 /\ starts = 0

Step(c, pc) == dialer' = [dialer EXCEPT ![c].pc = pc]

\* The attempt failed: dialH3TCP and createPacketConn try once more, unless
\* the caller's context ends the pause.
Failed(c) ==
  \/ /\ carrier = "h3" /\ dialer[c].try = 1
     /\ dialer' = [dialer EXCEPT ![c].pc = "ensure", ![c].try = 2,
                                 ![c].id = 0, ![c].ok = FALSE]
  \/ /\ carrier = "raw" \/ dialer[c].try = 2 \/ dialer[c].gone
     /\ dialer' = [dialer EXCEPT ![c] = AtRest]

Ask(c, s) ==
  /\ dialer[c].pc = "idle" /\ holds[c] = {} /\ starts < DialCalls
  /\ starts' = starts + 1
  /\ \/ /\ carrier = "h3" /\ s \in SlotsOf[c]
        /\ dialer' = [dialer EXCEPT ![c] =
             [AtRest EXCEPT !.slot = s, !.pc = "ensure"]]
     \/ /\ carrier = "raw" /\ s = AtRest.slot  \* raw sockets have no slot
        /\ dialer' = [dialer EXCEPT ![c] = [AtRest EXCEPT !.pc = "open"]]
  /\ UNCHANGED <<ownVars, connVars, holds>>

\* newH3DialLifetime and beginRawOpen: a context detached from the caller's.
NewDial(c) ==
  /\ dials' = dials + 1
  /\ hook' = [hook EXCEPT ![dials + 1] = "armed"]
  /\ verdict' = [verdict EXCEPT ![dials + 1] = "open"]
  /\ dialer' = [dialer EXCEPT ![c].pc = "dial", ![c].id = dials + 1]
  /\ UNCHANGED <<sock, aborted>>

\* The dials' contexts end; a hook that is still to run finds nothing to do.
Cancel(ns) ==
  /\ aborted' = [n \in Conns |-> aborted[n] \/ n \in ns]
  /\ hook' = [n \in Conns |-> IF n \in ns THEN "none" ELSE hook[n]]

\* stopCaller cannot stop a hook that the end of the caller's context started.
StopCaller(c, n) ==
  hook' = [hook EXCEPT ![n] = IF dialer[c].gone /\ ~aborted[n]
                              THEN "started" ELSE "none"]
----------------------------------------------------------------------------
(* The HTTP/3 manager.                                                     *)
EnsureConnection(c) ==
  LET s == dialer[c].slot
      n == current[s]
  IN /\ dialer[c].pc = "ensure" /\ holds[c] = {}
     /\ \/ /\ dialer[c].gone \/ ended
           /\ Failed(c)
           /\ UNCHANGED <<ownVars, connVars, holds>>
        \/ /\ ~dialer[c].gone /\ ~ended /\ n # 0 /\ sock[n] = "up"
           /\ dialer' = [dialer EXCEPT ![c].pc = "use", ![c].id = n]
           /\ UNCHANGED <<ownVars, connVars, holds>>
        \/ /\ ~dialer[c].gone /\ ~ended /\ ~(n # 0 /\ sock[n] = "up")
           /\ \/ /\ pending[s] # 0
                 /\ dialer' = [dialer EXCEPT ![c].pc = "wait",
                                             ![c].id = pending[s]]
                 /\ UNCHANGED <<ownVars, connVars, holds>>
              \/ /\ pending[s] = 0
                 /\ NewDial(c)
                 /\ current' = [current EXCEPT ![s] = 0]
                 /\ pending' = [pending EXCEPT ![s] = dials + 1]
                 /\ holds' = [holds EXCEPT ![c] = {n} \ {0}]
                 /\ UNCHANGED <<carrier, ended, registered, manager>>
     /\ UNCHANGED starts

AwaitDial(c) ==
  LET v == verdict[dialer[c].id] IN
  /\ dialer[c].pc = "wait"
  /\ \/ v = "ok" /\ Step(c, "use")
     \/ (v = "err" \/ dialer[c].gone \/ ended) /\ Failed(c)
  /\ UNCHANGED <<ownVars, connVars, holds, starts>>

\* Variant: the caller's own context is not looked at.
EstablishUnchecked(c, dialed) == dialed /\ ~aborted[dialer[c].id]

\* establish, after stopCaller: the caller's context and the dial's decide.
Establish(c, dialed) == dialed /\ ~dialer[c].gone /\ ~aborted[dialer[c].id]

\* dialConnection returns, retainDial, establish.  A dial may succeed after
\* it was cancelled.
H3Dialed(c) ==
  LET n == dialer[c].id IN
  /\ carrier = "h3" /\ dialer[c].pc = "dial" /\ holds[c] = {}
  /\ \E dialed \in BOOLEAN :
       /\ sock' = [sock EXCEPT ![n] = IF dialed THEN "up" ELSE @]
       /\ dialer' = [dialer EXCEPT ![c].pc = "publish",
                                   ![c].ok = Establish(c, dialed)]
  /\ StopCaller(c, n)
  /\ UNCHANGED <<ownVars, aborted, verdict, dials, holds, starts>>

\* The second critical section of ensureConnection, and its error path.
Publish(c) ==
  LET n == dialer[c].id
      s == dialer[c].slot
      ok == dialer[c].ok /\ ~ended /\ ~aborted[n]
  IN /\ dialer[c].pc = "publish"
     /\ pending' = [pending EXCEPT ![s] = 0]
     /\ verdict' = [verdict EXCEPT ![n] = IF ok THEN "ok" ELSE "err"]
     /\ current' = IF ok THEN [current EXCEPT ![s] = n] ELSE current
     /\ holds' = IF ok THEN holds ELSE [holds EXCEPT ![c] = {n}]
     /\ IF ok THEN dialer' = [dialer EXCEPT ![c].pc = "use", ![c].ok = FALSE]
              ELSE Failed(c)
     /\ UNCHANGED <<carrier, ended, registered, manager, sock, aborted, hook,
                    dials, starts>>

\* invalidate: the connection is over and still the slot's.  A caller whose
\* own context ended does not look.
Invalidate(c) ==
  LET n == dialer[c].id
      s == dialer[c].slot
  IN \E look \in {TRUE, ~dialer[c].gone} :
       IF look /\ sock[n] # "up" /\ current[s] = n
       THEN /\ current' = [current EXCEPT ![s] = 0]
            /\ holds' = [holds EXCEPT ![c] = {n}]
       ELSE UNCHANGED <<current, holds>>

\* dialH3TCPOnce: OpenRequestStream, the request and its response.
OpenStream(c) ==
  /\ dialer[c].pc = "use" /\ dialer[c].slot = "tcp"
  /\ \/ /\ sock[dialer[c].id] = "up"
        /\ dialer' = [dialer EXCEPT ![c] = AtRest]
        /\ UNCHANGED <<current, holds>>
     \/ Failed(c) /\ Invalidate(c)
  /\ UNCHANGED <<carrier, ended, pending, registered, manager, connVars,
                 starts>>

\* createPacketConnOnce: the same, and the association's own context, which
\* the end of the connection or of the manager cancels.
OpenPacketConn(c) ==
  /\ dialer[c].pc = "use" /\ dialer[c].slot = "udp"
  /\ \/ /\ sock[dialer[c].id] = "up" /\ ~ended
        /\ dialer' = [dialer EXCEPT ![c] = AtRest]
        /\ UNCHANGED <<current, holds>>
     \/ Failed(c) /\ UNCHANGED <<current, holds>>  \* the context was done
     \/ Failed(c) /\ Invalidate(c)
  /\ UNCHANGED <<carrier, ended, pending, registered, manager, connVars,
                 starts>>

\* The connection ends by itself; retainDial's hook frees its dial context.
QuicDies(n) ==
  /\ carrier = "h3" /\ sock[n] = "up"
  /\ sock' = [sock EXCEPT ![n] = "closed"]
  /\ Cancel({n})
  /\ UNCHANGED <<ownVars, verdict, dials, dialer, holds, starts>>
----------------------------------------------------------------------------
(* The raw transports.                                                     *)
BeginRawOpen(c) ==
  /\ dialer[c].pc = "open"
  /\ \/ (dialer[c].gone \/ ended) /\ Failed(c) /\ UNCHANGED connVars
     \/ ~dialer[c].gone /\ ~ended /\ NewDial(c)
  /\ UNCHANGED <<ownVars, holds, starts>>

\* dialRaw: the socket is registered under the lock Close takes.
DialRaw(c) ==
  LET n == dialer[c].id IN
  /\ carrier = "raw" /\ dialer[c].pc = "dial"
  /\ \/ /\ sock' = [sock EXCEPT ![n] = "up"]
        /\ IF ended
           THEN /\ Failed(c) /\ StopCaller(c, n)
                /\ holds' = [holds EXCEPT ![c] = {n}]
                /\ UNCHANGED registered
           ELSE /\ Step(c, "handshake")
                /\ registered' = registered \cup {n}
                /\ UNCHANGED <<holds, hook>>
     \/ /\ Failed(c) /\ StopCaller(c, n)
        /\ UNCHANGED <<sock, registered, holds>>
  /\ UNCHANGED <<carrier, ended, current, pending, manager, aborted, verdict,
                 dials, starts>>

\* The transport's handshake, establish and the hand-off to the caller.
HandOff(c) ==
  LET n == dialer[c].id IN
  /\ dialer[c].pc = "handshake"
  /\ \E shook \in BOOLEAN :
       LET ok == Establish(c, shook) IN
       /\ verdict' = [verdict EXCEPT ![n] = IF ok THEN "ok" ELSE "err"]
       /\ holds' = IF ok THEN holds ELSE [holds EXCEPT ![c] = {n}]
  /\ StopCaller(c, n)
  /\ dialer' = [dialer EXCEPT ![c] = AtRest]
  /\ UNCHANGED <<ownVars, sock, aborted, dials, starts>>

\* The connection's user closes it.
UserCloses(n) ==
  /\ n \in registered /\ verdict[n] = "ok"
  /\ sock' = [sock EXCEPT ![n] = "closed"]
  /\ Cancel({n})
  /\ registered' = registered \ {n}
  /\ UNCHANGED <<carrier, ended, current, pending, manager, verdict, dials,
                 dialer, holds, starts>>
----------------------------------------------------------------------------
\* h3Connection.close and ownedRawConn.Close, outside the locks.
CloseHeld(g) ==
  \E n \in holds[g] :
    /\ sock' = [sock EXCEPT ![n] = "closed"]
    /\ Cancel({n})
    /\ registered' = registered \ {n}
    /\ holds' = [holds EXCEPT ![g] = @ \ {n}]
    /\ UNCHANGED <<carrier, ended, current, pending, manager, verdict, dials,
                   dialer, starts>>

CallerGone(c) ==
  /\ ~dialer[c].gone /\ dialer[c].pc # "idle"
  /\ dialer' = [dialer EXCEPT ![c].gone = TRUE]
  /\ UNCHANGED <<ownVars, connVars, holds, starts>>

\* A context's AfterFunc runs in its own goroutine, some time later.
HookFires(n) ==
  /\ ~aborted[n] /\ verdict[n] # "none"
  /\ \/ ended \/ hook[n] = "started"
     \/ /\ hook[n] = "armed"
        /\ \E c \in Dialers : /\ dialer[c].id = n /\ dialer[c].gone
                               /\ dialer[c].pc \in {"dial", "handshake"}
  /\ Cancel({n})
  /\ UNCHANGED <<ownVars, sock, verdict, dials, dialer, holds, starts>>

\* h3TransportManager.close, and Client.Close for the raw sockets.
CloseOwner ==
  /\ ~ended /\ ended' = TRUE /\ manager' = "closing"
  /\ holds' = [holds EXCEPT ![Manager] =
                 ({current[s] : s \in Slots} \cup registered) \ {0}]
  /\ Cancel({pending[s] : s \in Slots})
  /\ current' = [s \in Slots |-> 0] /\ registered' = {}
  /\ UNCHANGED <<carrier, pending, sock, verdict, dials, dialer, starts>>

OwnerClosed ==
  /\ manager = "closing" /\ holds[Manager] = {} /\ manager' = "closed"
  /\ UNCHANGED <<carrier, ended, current, pending, registered, connVars,
                 dialer, holds, starts>>

\* A dial is only known to return when its context is cancelled, a stream or
\* a handshake when its connection is over.
DialProgress ==
  \/ \E c \in Dialers :
       \/ EnsureConnection(c) \/ AwaitDial(c) \/ Publish(c) \/ BeginRawOpen(c)
       \/ /\ dialer[c].id # 0 /\ aborted[dialer[c].id]
          /\ H3Dialed(c) \/ DialRaw(c)
       \/ /\ dialer[c].id # 0 /\ sock[dialer[c].id] # "up"
          /\ OpenStream(c) \/ OpenPacketConn(c) \/ HandOff(c)
  \/ \E g \in Dialers \cup {Manager} : CloseHeld(g)
  \/ \E n \in Conns : HookFires(n)
  \/ OwnerClosed

DialNext ==
  \/ DialProgress \/ CloseOwner
  \/ \E c \in Dialers : \/ H3Dialed(c) \/ OpenStream(c) \/ OpenPacketConn(c)
                        \/ DialRaw(c) \/ HandOff(c) \/ CallerGone(c)
                        \/ \E s \in Slots : Ask(c, s)
  \/ \E n \in Conns : QuicDies(n) \/ UserCloses(n)
----------------------------------------------------------------------------
(* Every open socket is the slot's current one, registered, being          *)
(* published or about to be closed by somebody; what was handed over is    *)
(* never cancelled by the caller that dialed it; and "A late dial result   *)
(* cannot escape a closed Client" (lifecycle_raw.go:68): nothing is        *)
(* current or registered after Close (conn_udp.go, ensureConnection).      *)
CarriersOwned ==
  /\ \A n \in Conns :
       /\ sock[n] = "up" =>
            \/ \E s \in Slots : current[s] = n
            \/ n \in registered
            \/ \E g \in DOMAIN holds : n \in holds[g]
            \/ \E c \in Dialers : dialer[c].id = n /\ dialer[c].pc = "publish"
       /\ verdict[n] = "ok" /\ sock[n] = "up" /\ ~ended =>
            ~aborted[n] /\ hook[n] = "none"
  /\ ended => registered = {} /\ \A s \in Slots : current[s] = 0

\* The owner is closed; every caller has returned, no socket is open.
DialsDue == ended
DialsDone ==
  /\ \A c \in Dialers : dialer[c].pc = "idle"
  /\ \A n \in Conns : sock[n] # "up"
=============================================================================
