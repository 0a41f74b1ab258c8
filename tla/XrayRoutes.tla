----------------------------- MODULE XrayRoutes -----------------------------
(***************************************************************************)
(* The route table of one Plain-UDP association of the Xray inbound        *)
(* (integration/xray/udp_routes.go).  A caller of Write or WriteICMP finds *)
(* the route of its key, waits for the caller already opening it, or opens *)
(* it: evict the oldest route, lease a slot of the process-wide budget,    *)
(* dispatch, install.  A receiver per route, the expiry ticker, a failing  *)
(* Write and Close take routes out of the table and close them outside the *)
(* lock.                                                                   *)
(*                                                                         *)
(* A route and the opening that makes it share one identifier.  hands[a]   *)
(* are the routes actor a has taken and must close; a route's receiver is  *)
(* the actor named by its identifier.  The table is written for concurrent *)
(* callers; handleUDP, its only user, is the case of one.                  *)
(***************************************************************************)
EXTENDS Integers, FiniteSets

CONSTANTS Callers,      \* goroutines in Write or WriteICMP
          Ticker,       \* the expiry goroutine
          Closer,       \* the goroutine in Close
          UdpKeys, IcmpKeys,
          None,         \* no route under this key
          MaxRoutes,    \* maxUDPRoutes
          RouteLimit,   \* server.MaxUDPTargets
          RouteIdle,    \* udpRouteIdle
          RouteCalls,   \* bound: calls of Write and WriteICMP
          RouteClock    \* bound: clock ticks

Keys == UdpKeys \cup IcmpKeys
Ids == Keys \X (1..RouteCalls)  \* the n-th route of a key
Actors == Callers \cup {Ticker, Closer} \cup Ids

VARIABLES cancelled, tableClosed,  \* r.ctx is done; r.closed
          entries,    \* r.entries and r.icmpEntries: the key's route, or None
          opening,    \* r.opening: the key's opening, or None
          route,      \* what became of each route
          stamp,      \* entry.last
          lease,      \* pending.release and entry.release
          budget,     \* udpTargetsBudget.used, this association's share
          wg,         \* r.wg
          caller,     \* where each caller is
          receiver,   \* where each route's receive goroutine is
          hands, ticker, closer,
          calls, now

tableVars == <<entries, opening, wg>>
lifeVars == <<route, lease, budget>>
actorVars == <<caller, receiver, ticker, closer, calls>>
routeVars == <<cancelled, tableClosed, tableVars, lifeVars, stamp, actorVars,
               hands, now>>

Resting == [pc |-> "idle", key |-> CHOOSE k \in Keys : TRUE, id |-> None]

RoutesInit ==
  /\ cancelled = FALSE /\ tableClosed = FALSE
  /\ entries = [k \in Keys |-> None] /\ opening = [k \in Keys |-> None]
  /\ route = [r \in Ids |-> "unused"] /\ stamp = [r \in Ids |-> 0]
  /\ lease = [r \in Ids |-> "none"] /\ budget = 0
  /\ wg = 1
  /\ caller = [c \in Callers |-> Resting]
  /\ receiver = [r \in Ids |-> "none"]
  /\ hands = [a \in Actors |-> {}]
  /\ ticker = "running" /\ closer = "idle"
  /\ calls = 0 /\ now = 0

Held(table) == {k \in Keys : table[k] # None}
Down == cancelled \/ tableClosed
At(c, pc) == caller[c].pc = pc
Goto(c, pc) == caller' = [caller EXCEPT ![c].pc = pc]
Return(c) == caller' = [caller EXCEPT ![c] = Resting]
\* The release function of a lease: a sync.Once around the decrement.
Release(r) ==
  /\ lease' = [lease EXCEPT ![r] = IF @ = "held" THEN "freed" ELSE @]
  /\ budget' = IF lease[r] = "held" THEN budget - 1 ELSE budget
----------------------------------------------------------------------------
(* close() of a route: whoever comes first runs cancel, conn.Close and     *)
(* release within once.Do; the others find it done.                        *)
CloseRoute(a) ==
  \E r \in hands[a] :
    /\ route' = [route EXCEPT ![r] = "closed"]
    /\ Release(r)
    /\ hands' = [hands EXCEPT ![a] = @ \ {r}]
    /\ UNCHANGED <<cancelled, tableClosed, tableVars, stamp, actorVars, now>>

\* remove and removeICMP: the key may already belong to a newer route.
Remove(a, r) ==
  /\ entries' = [entries EXCEPT ![r[1]] = IF @ = r THEN None ELSE @]
  /\ hands' = [hands EXCEPT ![a] = {r}]
----------------------------------------------------------------------------
(* Write and WriteICMP.                                                    *)
Call(c, k) ==
  /\ At(c, "idle") /\ hands[c] = {} /\ calls < RouteCalls
  /\ calls' = calls + 1
  /\ caller' = [caller EXCEPT ![c] = [pc |-> "begin", key |-> k, id |-> None]]
  /\ UNCHANGED <<cancelled, tableClosed, tableVars, lifeVars, stamp, receiver,
                 ticker, closer, hands, now>>

Oldest == {k \in Held(entries) :
             \A j \in Held(entries) : stamp[entries[k]] <= stamp[entries[j]]}

\* The routes evictOldestLocked may take: none below the limit; at the limit
\* the oldest, a UDP route before an ICMP route of the same age.
EvictOldest ==
  IF Cardinality(Held(entries)) + Cardinality(Held(opening)) < MaxRoutes
  THEN {}
  ELSE IF Oldest \cap UdpKeys # {} THEN Oldest \cap UdpKeys ELSE Oldest

\* beginRoute up to the unlock: refuse, find, wait, or open.
Begin(c) ==
  LET k == caller[c].key IN
  /\ At(c, "begin")
  /\ \/ /\ \/ Down
           \/ /\ entries[k] = None /\ opening[k] = None
              /\ Cardinality(Held(opening)) >= MaxRoutes
        /\ Return(c)
        /\ UNCHANGED <<tableVars, route, hands>>
     \/ /\ ~Down /\ entries[k] # None
        /\ caller' = [caller EXCEPT ![c].pc = "found", ![c].id = entries[k]]
        /\ UNCHANGED <<tableVars, route, hands>>
     \/ /\ ~Down /\ entries[k] = None /\ opening[k] # None
        /\ caller' = [caller EXCEPT ![c].pc = "wait", ![c].id = opening[k]]
        /\ UNCHANGED <<tableVars, route, hands>>
     \/ /\ ~Down /\ entries[k] = None /\ opening[k] = None
        /\ Cardinality(Held(opening)) < MaxRoutes
        /\ LET used == {n \in 1..RouteCalls : route[<<k, n>>] # "unused"}
               r == <<k, Cardinality(used) + 1>>
           IN /\ opening' = [opening EXCEPT ![k] = r]
              /\ route' = [route EXCEPT ![r] = "opening"]
              /\ caller' = [caller EXCEPT ![c].pc = "reserve", ![c].id = r]
        /\ \/ EvictOldest = {} /\ UNCHANGED <<entries, hands>>
           \/ \E v \in EvictOldest :
                /\ entries' = [entries EXCEPT ![v] = None]
                /\ hands' = [hands EXCEPT ![c] = {entries[v]}]
        /\ wg' = wg + 1
  /\ UNCHANGED <<cancelled, tableClosed, lease, budget, stamp, receiver,
                 ticker, closer, calls, now>>

\* pending.done, the caller's context, or the table's.
Wait(c) ==
  LET r == caller[c].id IN
  /\ At(c, "wait")
  /\ \/ route[r] \notin {"opening", "failed"} /\ Goto(c, "begin")
     \/ (route[r] = "failed" \/ cancelled) /\ Return(c)
  /\ UNCHANGED <<cancelled, tableClosed, tableVars, lifeVars, stamp, receiver,
                 ticker, closer, calls, hands, now>>

\* finishRoute.  A closed table turns success into net.ErrClosed.  On
\* success the opening's wg.Done follows the receiver's wg.Add.
FinishRoute(c, dialed) ==
  LET k == caller[c].key
      r == caller[c].id
      ok == dialed /\ ~Down
  IN /\ opening' = [opening EXCEPT ![k] = None]
     /\ entries' = IF ok THEN [entries EXCEPT ![k] = r] ELSE entries
     /\ receiver' = IF ok THEN [receiver EXCEPT ![r] = "reading"]
                    ELSE receiver
     /\ route' = [route EXCEPT ![r] = IF dialed THEN "open" ELSE "failed"]
     /\ hands' = IF dialed /\ ~ok THEN [hands EXCEPT ![c] = {r}] ELSE hands
     /\ Goto(c, IF ok THEN "found" ELSE "abort")
     /\ UNCHANGED wg

\* reserveNativeRoute, once the evicted route is closed.  Other associations
\* draw on the same budget, so it may be exhausted at any time.
Reserve(c) ==
  /\ At(c, "reserve") /\ hands[c] = {}
  /\ \/ /\ budget < RouteLimit
        /\ lease' = [lease EXCEPT ![caller[c].id] = "held"]
        /\ budget' = budget + 1
        /\ Goto(c, "dial")
        /\ UNCHANGED <<tableVars, route, receiver, hands>>
     \/ FinishRoute(c, FALSE) /\ UNCHANGED <<lease, budget>>
  /\ UNCHANGED <<cancelled, tableClosed, stamp, ticker, closer, calls, now>>

\* Dispatch, or ResolveIP and dialICMP, and finishRoute with the result.
Dial(c) ==
  /\ At(c, "dial")
  /\ \E dialed \in BOOLEAN : FinishRoute(c, dialed)
  /\ stamp' = [stamp EXCEPT ![caller[c].id] = now]
  /\ UNCHANGED <<cancelled, tableClosed, lease, budget, ticker, closer, calls,
                 now>>

\* The rest of a failed finishRoute, after the lock and its closes.
Abort(c) ==
  /\ At(c, "abort") /\ hands[c] = {}
  /\ Release(caller[c].id)
  /\ wg' = wg - 1
  /\ Return(c)
  /\ UNCHANGED <<cancelled, tableClosed, entries, opening, route, stamp,
                 receiver, ticker, closer, calls, hands, now>>

\* The new time stamp, then entry.conn.Write or PrepareRequest and
\* pconn.WriteTo.  A failed write removes and closes the route.
Send(c) ==
  LET r == caller[c].id IN
  /\ At(c, "found")
  /\ stamp' = [stamp EXCEPT ![r] = now]
  /\ Return(c)
  /\ \/ /\ \/ route[r] # "closed"
           \/ caller[c].key \in IcmpKeys  \* PrepareRequest refused the packet
        /\ UNCHANGED <<entries, hands>>
     \/ Remove(c, r)
  /\ UNCHANGED <<cancelled, tableClosed, opening, wg, lifeVars, receiver,
                 ticker, closer, calls, now>>
----------------------------------------------------------------------------
(* receive and receiveICMP.                                                *)
\* A packet from the target goes out through r.outer.
Receive(r) ==
  /\ receiver[r] = "reading" /\ route[r] = "open"
  /\ stamp' = [stamp EXCEPT ![r] = now]
  /\ UNCHANGED <<cancelled, tableClosed, tableVars, lifeVars, actorVars,
                 hands, now>>

\* A failed read, a read deadline or a failed write ends the loop; the
\* deferred remove then takes the lock.
ReceiveEnds(r) ==
  /\ receiver[r] = "reading"
  /\ Remove(r, r)
  /\ receiver' = [receiver EXCEPT ![r] = "closing"]
  /\ UNCHANGED <<cancelled, tableClosed, opening, wg, lifeVars, stamp, caller,
                 ticker, closer, calls, now>>

Left(r) ==
  /\ receiver[r] = "closing" /\ hands[r] = {}
  /\ receiver' = [receiver EXCEPT ![r] = "done"]
  /\ wg' = wg - 1
  /\ UNCHANGED <<cancelled, tableClosed, entries, opening, lifeVars, stamp,
                 caller, ticker, closer, calls, hands, now>>
----------------------------------------------------------------------------
(* The ticker's goroutine, and Close.                                      *)
Expire ==
  LET old == {k \in Held(entries) : now - stamp[entries[k]] >= RouteIdle} IN
  /\ ticker = "running" /\ hands[Ticker] = {} /\ old # {}
  /\ entries' = [k \in Keys |-> IF k \in old THEN None ELSE entries[k]]
  /\ hands' = [hands EXCEPT ![Ticker] = {entries[k] : k \in old}]
  /\ UNCHANGED <<cancelled, tableClosed, opening, wg, lifeVars, stamp,
                 actorVars, now>>

TickerExit ==
  /\ ticker = "running" /\ hands[Ticker] = {} /\ cancelled
  /\ ticker' = "done" /\ wg' = wg - 1
  /\ UNCHANGED <<cancelled, tableClosed, entries, opening, lifeVars, stamp,
                 caller, receiver, closer, calls, hands, now>>

\* The association's own context ends before anybody calls Close.
ParentDone ==
  /\ ~cancelled /\ cancelled' = TRUE
  /\ UNCHANGED <<tableClosed, tableVars, lifeVars, stamp, actorVars, hands,
                 now>>

CloseCancel ==
  /\ closer = "idle" /\ closer' = "cancelled" /\ cancelled' = TRUE
  /\ UNCHANGED <<tableClosed, tableVars, lifeVars, stamp, caller, receiver,
                 ticker, calls, hands, now>>

CloseTake ==
  /\ closer = "cancelled" /\ closer' = "closing" /\ tableClosed' = TRUE
  /\ hands' = [hands EXCEPT ![Closer] = {entries[k] : k \in Held(entries)}]
  /\ entries' = [k \in Keys |-> None]
  /\ UNCHANGED <<cancelled, opening, wg, lifeVars, stamp, caller, receiver,
                 ticker, calls, now>>

CloseWait ==
  /\ closer = "closing" /\ hands[Closer] = {} /\ wg = 0
  /\ closer' = "returned"
  /\ UNCHANGED <<cancelled, tableClosed, tableVars, lifeVars, stamp, caller,
                 receiver, ticker, calls, hands, now>>

RouteTick ==
  /\ now < RouteClock /\ now' = now + 1
  /\ UNCHANGED <<cancelled, tableClosed, tableVars, lifeVars, stamp, actorVars,
                 hands>>

\* What the goroutines do once a call is in progress or the context is done.
RouteProgress ==
  \/ \E c \in Callers : \/ Begin(c) \/ Wait(c) \/ Reserve(c) \/ Dial(c)
                        \/ Abort(c) \/ Send(c)
  \/ \E a \in Actors : CloseRoute(a)
  \/ \E r \in Ids : Left(r) \/ (route[r] = "closed" /\ ReceiveEnds(r))
  \/ TickerExit \/ CloseTake \/ CloseWait

RoutesNext ==
  \/ RouteProgress
  \/ \E c \in Callers, k \in Keys : Call(c, k)
  \/ \E r \in Ids : Receive(r) \/ ReceiveEnds(r)
  \/ Expire \/ ParentDone \/ CloseCancel \/ RouteTick
----------------------------------------------------------------------------
(* Every route that has a connection is in the table or in the hands of    *)
(* somebody closing it, every lease belongs to an opening under way or to  *)
(* such a route, the table keeps its limit counting the openings, and      *)
(* nothing is left when Close has returned (udp_routes.go: beginRoute,     *)
(* finishRoute, remove, expire, evictOldestLocked, Close).                 *)
RoutesOwned ==
  /\ Cardinality(Held(entries)) + Cardinality(Held(opening)) <= MaxRoutes
  /\ budget = Cardinality({r \in Ids : lease[r] = "held"})
  /\ \A r \in Ids :
       /\ route[r] = "open" =>
            entries[r[1]] = r \/ \E a \in Actors : r \in hands[a]
       /\ lease[r] = "held" =>
            \/ route[r] = "open"
            \/ \E c \in Callers : caller[c].id = r
                                 /\ caller[c].pc \in {"dial", "abort"}
  /\ closer = "returned" =>
       /\ budget = 0 /\ Held(opening) = {} /\ Held(entries) = {}
       /\ \A r \in Ids : receiver[r] \in {"none", "done"}

\* Somebody waits: Close for r.wg, or a caller for another's opening.
RoutesDue ==
  closer \in {"cancelled", "closing"} \/ \E c \in Callers : At(c, "wait")
RoutesDone ==
  closer \in {"idle", "returned"} /\ \A c \in Callers : ~At(c, "wait")
=============================================================================
