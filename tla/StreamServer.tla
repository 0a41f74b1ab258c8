---------------------------- MODULE StreamServer ----------------------------
(***************************************************************************)
(* pkg/server/stream_server.go and relay.go: the raw-stream TCP server.    *)
(* A connection is admitted under the lock that seals Close, shakes hands  *)
(* while it holds a slot of the semaphore, commits its nonce to the replay *)
(* cache, dials its target and relays both directions until it ends.       *)
(* Close ends them all, joins them, and only then gives up the cache.      *)
(*                                                                         *)
(* What is read and written is left out but for whether it succeeds.  A    *)
(* hello is a nonce and its timestamp.  The replay cache is ReplayGuard:   *)
(* it forgets a nonce 2 * MaxClockSkew after it was accepted, and only the *)
(* timestamp keeps the hello out after that.  The attached PlainUDPServer  *)
(* is represented by its life cycle.                                       *)
(***************************************************************************)
EXTENDS Integers, FiniteSets

CONSTANTS Conns,          \* connections that can be there at one time
          Hellos, None,   \* hellos that clients made, each with its own nonce
          MaxConns,       \* maxConns
          MaxHandshakes,  \* cap(handshakeSem)
          PerSecond,      \* ticks of the clock in a second
          MaxSkew,        \* MaxTimestampSkew and MaxClockSkew, in seconds
          Patience,       \* the handshake's deadline, in ticks
          Stamps,         \* bound: timestamps of hellos
          MaxWall         \* bound: the clock stops here

ASSUME ServerAssumption ==
  /\ MaxConns \in Nat \ {0} /\ MaxHandshakes \in Nat \ {0}
  /\ None \notin Hellos /\ IsFiniteSet(Conns)
  /\ PerSecond \in Nat \ {0} /\ MaxSkew \in Nat /\ Patience \in Nat
  /\ Stamps \subseteq Nat /\ MaxWall \in Nat

VARIABLES
  closed, cancelled,   \* s.closed, s.ctx
  listener,  \* a listener handed to Serve: "new", "open", "shut"
  udp,       \* the attached server: "none", "attached", "serving", "stopped"
  udpClosed,
  activeConns, wg, handshakeSem,
  handler,   \* handler[c]: where runConnection is
  hello,     \* the ClientHello the connection presents
  begun,     \* when its handshake started
  grant,     \* the grant its Accept obtained
  slot,      \* the connections whose handshake slot is not released
  ended,     \* the connections whose context is done
  shut,      \* the connections whose socket (relayed: target too) is closed
  copy,      \* copy[c][d]: the copying goroutine of direction d
  spent, cacheClosed,  \* the replay cache: ReplayGuard's grants
  dialled,   \* history: the grants whose connection reached the target
  excuse,    \* history: connections with a failure, an end or idleness
  closer,    \* progress of Close
  wall, stamp  \* the clock, and the timestamp of each hello

server == <<closed, cancelled, listener, udp, udpClosed, closer>>
shared == <<activeConns, wg, handshakeSem>>
talk == <<hello, begun, grant>>
relay == <<ended, shut, copy, excuse>>
conns == <<handler, talk, slot, relay>>
cache == <<spent, cacheClosed, dialled>>
clocks == <<wall, stamp>>
serverVars == <<server, shared, conns, cache, clocks>>

NonceLife == 2 * MaxSkew * PerSecond

Replays == INSTANCE ReplayGuard WITH
  Nonces <- Hellos, Window <- NonceLife, Second <- PerSecond,
  clock <- wall, grants <- spent

Directions == {"up", "down"}

ServerInit ==
  /\ closed = FALSE /\ cancelled = FALSE /\ listener = "new"
  /\ udp = "none" /\ udpClosed = FALSE
  /\ activeConns = 0 /\ wg = 0 /\ handshakeSem = 0
  /\ handler = [c \in Conns |-> "none"]
  /\ hello = [c \in Conns |-> None] /\ begun = [c \in Conns |-> 0]
  /\ grant = [c \in Conns |-> None]
  /\ slot = {} /\ ended = {} /\ shut = {} /\ excuse = {}
  /\ copy = [c \in Conns |-> [d \in Directions |-> "off"]]
  /\ spent = {} /\ cacheClosed = FALSE /\ dialled = {}
  /\ closer = "no"
  /\ wall = 0 /\ stamp \in [Hellos -> Stamps]

Goto(c, label) == handler' = [handler EXCEPT ![c] = label]

\* Variant: the server's context is not linked to the caller's.
EndedAlone(c) == c \in ended

\* The context of a connection: its own, or the server's.
Ended(c) == c \in ended \/ cancelled

\* The clock is not running backwards; the bound is the model's.
ClockTicks ==
  /\ wall < MaxWall
  /\ wall' = wall + 1
  /\ UNCHANGED <<server, shared, conns, cache, stamp>>

-----------------------------------------------------------------------------
(* Serve, AttachUDP, admission *)

Serve ==
  /\ listener = "new"
  /\ listener' = IF closed THEN "shut" ELSE "open"
  /\ UNCHANGED <<closed, cancelled, udp, udpClosed, closer, shared, conns,
                 cache, clocks>>

AttachUDP ==
  /\ ~closed /\ udp = "none"
  /\ udp' = "attached"
  /\ UNCHANGED <<closed, cancelled, listener, udpClosed, closer, shared, conns,
                 cache, clocks>>

\* The goroutine AttachUDP started gets to run: PlainUDPServer.Serve refuses
\* if Close came first, and ends when it is closed or cancelled.
ServeUDP ==
  /\ \/ udp = "attached" /\ udp' = IF udpClosed THEN "stopped" ELSE "serving"
     \/ udp = "serving" /\ (udpClosed \/ cancelled) /\ udp' = "stopped"
  /\ UNCHANGED <<closed, cancelled, listener, udpClosed, closer, shared, conns,
                 cache, clocks>>

\* Variant: closed is not looked at.
AdmitsClosed == activeConns < MaxConns /\ handshakeSem < MaxHandshakes

\* reserveConnection and the semaphore.  The lock makes it one step: a
\* concurrent activeConns.Add(-1) only makes the compare-and-swap try again.
Admits == ~closed /\ activeConns < MaxConns /\ handshakeSem < MaxHandshakes

\* Accept of the listener, or a caller of HandleConnContext; a connection that
\* is not admitted is closed and forgotten.  The handler reads the clock before
\* it reads the hello.
admitConnection(c, h) ==
  /\ handler[c] = "none" /\ Admits
  /\ activeConns' = activeConns + 1
  /\ handshakeSem' = handshakeSem + 1
  /\ wg' = wg + 1
  /\ Goto(c, "hello")
  /\ hello' = [hello EXCEPT ![c] = h] /\ begun' = [begun EXCEPT ![c] = wall]
  /\ slot' = slot \cup {c}
  /\ UNCHANGED <<server, grant, relay, cache, clocks>>

-----------------------------------------------------------------------------
(* handleConn *)

Advance(c, from, to) ==
  /\ handler[c] = from
  /\ Goto(c, to)
  /\ UNCHANGED <<server, shared, talk, slot, relay, cache, clocks>>

\* SetDeadline: I/O of the handshake fails from then on.
InTime(c) == wall <= begun[c] + Patience

\* VerifyPolymorphicClientHello compares whole seconds, both bounds included,
\* with the clock as it was when the handler started.
Fresh(c) ==
  begun[c] \div PerSecond - stamp[hello[c]] \in -MaxSkew..MaxSkew

\* The polymorphic ClientHello is read and verified...
ReadHello(c) == Advance(c, "hello", "check") /\ InTime(c) /\ Fresh(c)

\* ...its nonce looked up among those not yet expired,
CheckNonce(c) ==
  /\ \A g \in spent :
       g.n = hello[c] => wall >= Replays!OnDisk(g.now + NonceLife)
  /\ Advance(c, "check", "frame")

\* and the 0-RTT frame read, decrypted and decoded.
ReadFrame(c) == Advance(c, "frame", "accept") /\ InTime(c)

\* Variant: a nonce that was new when it was looked up is not refused.
AcceptUnchecked(c, now) ==
  /\ handler[c] = "accept" /\ ~cacheClosed
  /\ grant' = [grant EXCEPT ![c] =
                  Replays!NewGrant(hello[c], now, wall)]
  /\ spent' = spent \cup {grant'[c]}
  /\ Goto(c, "reply")
  /\ UNCHANGED <<server, shared, hello, begun, slot, relay, cacheClosed,
                 dialled, clocks>>

\* replays.Accept: now is the clock as the call read it.
Accept(c, now) ==
  /\ handler[c] = "accept" /\ ~cacheClosed
  /\ Replays!Grant(hello[c], now, wall)
  /\ grant' = [grant EXCEPT ![c] =
                  Replays!NewGrant(hello[c], now, wall)]
  /\ Goto(c, "reply")
  /\ UNCHANGED <<server, shared, hello, begun, slot, relay, cacheClosed,
                 dialled, stamp>>

\* Variant: a second call takes a token of another connection.
ReleaseTwice(c) ==
  /\ handshakeSem' = IF handshakeSem > 0 THEN handshakeSem - 1 ELSE 0
  /\ slot' = slot \ {c}

\* releaseHandshake takes a token from the semaphore, once.
ReleaseHandshake(c) ==
  /\ handshakeSem' = IF c \in slot /\ handshakeSem > 0
                     THEN handshakeSem - 1 ELSE handshakeSem
  /\ slot' = slot \ {c}

\* The ServerHello is written and the slot released.
Reply(c) ==
  /\ handler[c] = "reply" /\ InTime(c)
  /\ ReleaseHandshake(c)
  /\ begun' = [begun EXCEPT ![c] = 0]
  /\ Goto(c, "dial")
  /\ UNCHANGED <<server, activeConns, wg, hello, grant, relay, cache, clocks>>

StartRelay(c) ==
  /\ copy' = [copy EXCEPT ![c] = [d \in Directions |-> "copy"]]
  /\ Goto(c, "relay")

\* dialTarget succeeds; the frame may have brought a payload to write first.
Dial(c) ==
  /\ handler[c] = "dial"
  /\ dialled' = dialled \cup {grant[c]}
  /\ grant' = [grant EXCEPT ![c] = None]
  /\ \/ Goto(c, "payload") /\ UNCHANGED copy
     \/ StartRelay(c)
  /\ UNCHANGED <<server, shared, hello, begun, slot, ended, shut, excuse, spent,
                 cacheClosed, clocks>>

\* upstream.Write(initialPayload): nothing but the target ends it.
WritePayload(c) ==
  /\ handler[c] = "payload"
  /\ StartRelay(c)
  /\ UNCHANGED <<server, shared, talk, slot, ended, shut, excuse, cache,
                 clocks>>

\* Any step up to the relay can fail: a deadline, a socket error, a replay, a
\* cache that is closed or broken, a dial that fails or is cancelled, a target
\* that refuses the payload.  What the handler still holds is given up in the
\* deferred calls.
HandleFails(c) ==
  /\ handler[c] \in {"hello", "check", "frame", "accept", "reply", "dial",
                     "payload"}
  /\ ReleaseHandshake(c)
  /\ begun' = [begun EXCEPT ![c] = 0] /\ grant' = [grant EXCEPT ![c] = None]
  /\ shut' = shut \cup {c}
  /\ Goto(c, "leave")
  /\ UNCHANGED <<server, activeConns, wg, hello, ended, copy, excuse, cache,
                 clocks>>

-----------------------------------------------------------------------------
(* relayBidirectional *)

\* A direction ends with the end of its input, which it passes on with
\* CloseWrite...
CopyEnds(c, d) ==
  /\ copy[c][d] = "copy" /\ c \notin shut
  /\ copy' = [copy EXCEPT ![c][d] = "clean"]
  /\ UNCHANGED <<server, shared, handler, talk, slot, ended, shut, excuse,
                 cache, clocks>>

\* ...or fails, which cancels the relay's context.
CopyFails(c, d) ==
  /\ copy[c][d] = "copy"
  /\ copy' = [copy EXCEPT ![c][d] = "failed"]
  /\ ended' = ended \cup {c} /\ excuse' = excuse \cup {c}
  /\ UNCHANGED <<server, shared, handler, talk, slot, shut, cache, clocks>>

\* The context a caller gave to HandleConnContext ends.
CallerEnds(c) ==
  /\ handler[c] \notin {"none", "leave", "done"} /\ c \notin ended
  /\ ended' = ended \cup {c} /\ excuse' = excuse \cup {c}
  /\ UNCHANGED <<server, shared, handler, talk, slot, shut, copy, cache,
                 clocks>>

\* context.AfterFunc closes the socket of an ended connection; in the relay a
\* goroutine closes both ends.
AfterFunc(c) ==
  /\ handler[c] \notin {"none", "leave", "done"} /\ Ended(c) /\ c \notin shut
  /\ shut' = shut \cup {c} /\ excuse' = excuse \cup {c}
  /\ UNCHANGED <<server, shared, handler, talk, slot, ended, copy, cache,
                 clocks>>

\* Variant: the end of one direction ends the relay.
ResultAborts(c, d) ==
  /\ handler[c] = "relay" /\ copy[c][d] \in {"clean", "failed"}
  /\ copy' = [copy EXCEPT ![c][d] = "joined"]
  /\ shut' = shut \cup {c} /\ Goto(c, "join")
  /\ UNCHANGED <<server, shared, talk, slot, ended, excuse, cache, clocks>>

\* waitRelay: a direction's result arrives; a failure aborts the other one.
Result(c, d) ==
  /\ handler[c] = "relay" /\ copy[c][d] \in {"clean", "failed"}
  /\ copy' = [copy EXCEPT ![c][d] = "joined"]
  /\ IF copy[c][d] = "failed"
     THEN shut' = shut \cup {c} /\ Goto(c, "join")
     ELSE UNCHANGED <<shut, handler>>
  /\ UNCHANGED <<server, shared, talk, slot, ended, excuse, cache, clocks>>

\* waitRelay: the context is done, or five minutes passed without a byte.
Abort(c) ==
  /\ handler[c] = "relay"
  /\ shut' = shut \cup {c} /\ excuse' = excuse \cup {c}
  /\ Goto(c, "join")
  /\ UNCHANGED <<server, shared, talk, slot, ended, copy, cache, clocks>>

\* join, after an abort, receives whatever the directions still send.
Join(c, d) ==
  /\ handler[c] = "join" /\ copy[c][d] \in {"clean", "failed"}
  /\ copy' = [copy EXCEPT ![c][d] = "joined"]
  /\ UNCHANGED <<server, shared, handler, talk, slot, ended, shut, excuse,
                 cache, clocks>>

\* Both directions have been joined: the deferred calls close both ends.
RelayReturns(c) ==
  /\ handler[c] \in {"relay", "join"}
  /\ \A d \in Directions : copy[c][d] = "joined"
  /\ shut' = shut \cup {c}
  /\ Goto(c, "leave")
  /\ UNCHANGED <<server, shared, talk, slot, ended, copy, excuse, cache,
                 clocks>>

\* The deferred calls of runConnection: activeConns, then wg.
Leave(c) ==
  /\ handler[c] = "leave"
  /\ activeConns' = activeConns - 1
  /\ Goto(c, "done")
  /\ UNCHANGED <<server, wg, handshakeSem, talk, slot, relay, cache, clocks>>

Done(c) ==
  /\ handler[c] = "done"
  /\ wg' = wg - 1
  /\ Goto(c, "none")
  /\ hello' = [hello EXCEPT ![c] = None]
  /\ copy' = [copy EXCEPT ![c] = [d \in Directions |-> "off"]]
  /\ ended' = ended \ {c} /\ shut' = shut \ {c} /\ excuse' = excuse \ {c}
  /\ UNCHANGED <<server, activeConns, handshakeSem, begun, grant, slot, cache,
                 clocks>>

-----------------------------------------------------------------------------
(* Close *)

\* The lock that admission takes seals it.
Close ==
  /\ closer = "no"
  /\ closed' = TRUE /\ closer' = "cancel"
  /\ UNCHANGED <<cancelled, listener, udp, udpClosed, shared, conns, cache,
                 clocks>>

CloseCancels ==
  /\ closer = "cancel"
  /\ cancelled' = TRUE /\ closer' = "listeners"
  /\ UNCHANGED <<closed, listener, udp, udpClosed, shared, conns, cache,
                 clocks>>

CloseListeners ==
  /\ closer = "listeners"
  /\ listener' = IF listener = "open" THEN "shut" ELSE listener
  /\ closer' = "udp"
  /\ UNCHANGED <<closed, cancelled, udp, udpClosed, shared, conns, cache,
                 clocks>>

\* PlainUDPServer.Close waits for a Serve that has started.
CloseUDP ==
  /\ closer = "udp"
  /\ udpClosed' = (udp # "none")
  /\ closer' = IF udp = "serving" THEN "udpwait" ELSE "wait"
  /\ UNCHANGED <<closed, cancelled, listener, udp, shared, conns, cache,
                 clocks>>

CloseUDPDone ==
  /\ closer = "udpwait" /\ udp = "stopped"
  /\ closer' = "wait"
  /\ UNCHANGED <<closed, cancelled, listener, udp, udpClosed, shared, conns,
                 cache, clocks>>

\* wg.Wait, then the server's reference to the cache is closed.
CloseReplays ==
  /\ closer = "wait" /\ wg = 0
  /\ cacheClosed' = TRUE /\ closer' = "done"
  /\ UNCHANGED <<closed, cancelled, listener, udp, udpClosed, shared, conns,
                 spent, dialled, clocks>>

-----------------------------------------------------------------------------
HandlerStep(c) ==
  \/ ReadHello(c) \/ CheckNonce(c) \/ ReadFrame(c)
  \/ \E now \in begun[c]..wall : Accept(c, now)
  \/ Reply(c) \/ Dial(c) \/ WritePayload(c) \/ HandleFails(c)
  \/ RelayReturns(c) \/ Leave(c) \/ Done(c)
  \/ \E d \in Directions : Result(c, d) \/ Join(c, d)

CloserStep ==
  \/ CloseCancels \/ CloseListeners \/ CloseUDP \/ CloseUDPDone \/ CloseReplays

ServerNext ==
  \/ ClockTicks \/ Serve \/ AttachUDP \/ ServeUDP \/ Close \/ CloserStep
  \/ \E c \in Conns : \/ \E h \in Hellos : admitConnection(c, h)
                      \/ HandlerStep(c)
                      \/ CallerEnds(c) \/ AfterFunc(c) \/ Abort(c)
                      \/ \E d \in Directions : CopyEnds(c, d) \/ CopyFails(c, d)

ServerSpec == ServerInit /\ [][ServerNext]_serverVars

\* A handler that goes on by itself.  A dial that nobody cancels may take for
\* ever, and so may the write of the initial payload, cancelled or not: it has
\* no deadline, and the end of the context closes the client's socket only.
GoesOn(c) ==
  /\ handler[c] \notin {"none", "payload"}
  /\ handler[c] = "dial" => Ended(c)

\* Goroutines run and AfterFuncs are called; the handshake has a deadline, and
\* a dial ends once its context is done; I/O on a closed socket fails.  A copy
\* between open sockets may go on for ever.
ServerFairness ==
  /\ WF_serverVars(ServeUDP) /\ WF_serverVars(CloserStep)
  /\ \A c \in Conns :
       /\ WF_serverVars(GoesOn(c) /\ HandlerStep(c))
       /\ WF_serverVars(AfterFunc(c) \/ (Ended(c) /\ Abort(c)))
       /\ WF_serverVars(c \in shut /\ \E d \in Directions : CopyFails(c, d))

ServerFairSpec == ServerSpec /\ ServerFairness

-----------------------------------------------------------------------------
(* Properties *)

Labels == {"none", "hello", "check", "frame", "accept", "reply", "dial",
           "payload", "relay", "join", "leave", "done"}

\* The state is well formed; activeConns and the handshakes stay within their
\* limits, and the WaitGroup never goes below zero.
ServerTypeOK ==
  /\ closed \in BOOLEAN /\ cancelled \in BOOLEAN
  /\ listener \in {"new", "open", "shut"}
  /\ udp \in {"none", "attached", "serving", "stopped"} /\ udpClosed \in BOOLEAN
  /\ activeConns \in 0..MaxConns /\ handshakeSem \in 0..MaxHandshakes
  /\ wg \in Nat
  /\ handler \in [Conns -> Labels]
  /\ hello \in [Conns -> Hellos \cup {None}] /\ begun \in [Conns -> Nat]
  /\ grant \in [Conns -> Replays!Grants \cup {None}]
  /\ slot \subseteq Conns /\ ended \subseteq Conns /\ shut \subseteq Conns
  /\ copy \in [Conns -> [Directions ->
                 {"off", "copy", "clean", "failed", "joined"}]]
  /\ spent \subseteq Replays!Grants /\ cacheClosed \in BOOLEAN
  /\ dialled \subseteq Replays!Grants /\ excuse \subseteq Conns
  /\ closer \in {"no", "cancel", "listeners", "udp", "udpwait", "wait", "done"}
  /\ wall \in Nat /\ stamp \in [Hellos -> Nat]

\* The semaphore holds one token for every connection that has not finished its
\* handshake, and no other: every way out of handleConn returns it, none twice,
\* so that the limit neither shrinks nor is exceeded (releaseHandshake).
SlotsExact ==
  /\ handshakeSem = Cardinality(slot)
  /\ \A c \in Conns :
       c \in slot <=>
         handler[c] \in {"hello", "check", "frame", "accept", "reply"}

\* Of the connections that present one hello, however they overlap between the
\* early Check and the committing Accept, each that goes on to dial has a grant
\* of its own, and two reach a target only if one was accepted when the record
\* of the other, kept for 2 * MaxClockSkew, had run out.
OncePerRecord ==
  /\ \A g, h \in dialled : g.n = h.n /\ g # h => Replays!FarApart(g, h)
  /\ \A c \in Conns : handler[c] \in {"reply", "dial"} =>
       /\ grant[c].n = hello[c] /\ grant[c] \notin dialled
       /\ \A b \in Conns \ {c} :
            handler[b] \in {"reply", "dial"} => grant[b] # grant[c]

\* No hello opens two connections, however late it comes again: when its nonce
\* is forgotten, its timestamp is out of the window ("any repeated nonce").
OncePerNonce == \A g, h \in dialled : g.n = h.n => g = h

\* Close returns with nothing left running: no connection, no listener, no UDP
\* loop; and the replay cache outlives everything that uses it.  Admission,
\* Serve and AttachUDP may race with it ("A positive WaitGroup.Add must not
\* race a Wait starting at zero").
SealedClose ==
  cacheClosed => /\ activeConns = 0 /\ wg = 0
                 /\ \A c \in Conns : handler[c] = "none"
                 /\ listener # "open" /\ udp # "serving"

\* A clean half-close leaves the other direction alone: the connections are
\* shut during the relay only after a failure, an end of the context or
\* idleness, and both copies have been joined when it returns.
HalfClosePreserved ==
  \A c \in Conns :
    /\ handler[c] \in {"relay", "join"} /\ c \in shut => c \in excuse
    /\ handler[c] \in {"leave", "done"} =>
         \A d \in Directions : copy[c][d] \in {"off", "joined"}

\* Close returns, whatever handshakes, dials and relays are under way, unless a
\* target neither takes nor refuses an initial payload for ever.
CloseReturns ==
  (\A c \in Conns : []<>(handler[c] # "payload"))
    => []<>(closer \in {"no", "done"})
=============================================================================
