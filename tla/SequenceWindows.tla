--------------------------- MODULE SequenceWindows ---------------------------
(***************************************************************************)
(* The two replay windows over authenticated sequence numbers, driven by   *)
(* any order of numbers: frame.ReplayWindow (a server's view of one        *)
(* client, FrameWindow), and plainudp.ResponseReplayWindow (a client's     *)
(* view of the responses, whose sequence numbers are shared by all of the  *)
(* server's associations).  kind says which one a behaviour is about.      *)
(***************************************************************************)
EXTENDS FrameWindow, Sequences, FiniteSets

CONSTANTS Skew,      \* MaxTimestampSkew in seconds
          RingSize,  \* responseWindowSize
          MaxSeq,    \* bound: sequence numbers of a client
          MaxResp,   \* bound: sequence numbers of responses
          MaxClock   \* bound: the clock stops here

ASSUME WindowsAssumption ==
  /\ Skew \in Nat /\ RingSize \in Nat \ {0}
  /\ MaxSeq \in Nat /\ MaxResp \in Nat /\ MaxClock \in Nat

VARIABLES
  kind,     \* "frame" or "response"
  window, seen,  \* the ReplayWindow; history: the numbers it accepted
  clock,    \* the receiver's clock
  resp,     \* the ResponseReplayWindow
  given     \* history: the responses it accepted

windowsVars == <<kind, window, seen, clock, resp, given>>

Seqs == 0..MaxSeq
Times == 0..(MaxClock + Skew)
Identities == [timestamp : Times, sequence : 0..MaxResp]

NewResponses ==
  [seen |-> {}, ring |-> <<>>, next |-> 0, floors |-> [t \in {} |-> 0],
   maxTimestamp |-> 0, retiredThrough |-> 0, hasRetired |-> FALSE]

WindowsInit ==
  /\ kind \in {"frame", "response"}
  /\ window = NewWindow /\ seen = {}
  /\ clock = 0 /\ resp = NewResponses /\ given = {}

-----------------------------------------------------------------------------
(* frame.ReplayWindow *)

Offer(seq) ==
  /\ kind = "frame"
  /\ window' = Accept(window, seq)
  /\ seen' = IF Accepts(window, seq) THEN seen \cup {seq} ELSE seen
  /\ UNCHANGED <<kind, clock, resp, given>>

-----------------------------------------------------------------------------
(* plainudp.ResponseReplayWindow *)

Retired(w, ts) == w.hasRetired /\ ts <= w.retiredThrough

Raised(floors, ts, seq) ==
  [t \in DOMAIN floors \cup {ts} |->
     IF t # ts THEN floors[t]
     ELSE IF ts \in DOMAIN floors /\ floors[ts] > seq THEN floors[ts] ELSE seq]

\* Variant: timestamps are retired after one skew.
AdvanceOneSkew(w, ts) ==
  IF ts <= w.maxTimestamp THEN w
  ELSE IF ts <= Skew THEN [w EXCEPT !.maxTimestamp = ts]
  ELSE [w EXCEPT
          !.maxTimestamp = ts, !.hasRetired = TRUE,
          !.retiredThrough = ts - Skew - 1,
          !.floors = [t \in {t \in DOMAIN w.floors : t > ts - Skew - 1} |->
                        w.floors[t]]]

\* A newer timestamp retires those more than twice the skew older.
Advance(w, ts) ==
  IF ts <= w.maxTimestamp THEN w
  ELSE IF ts <= 2 * Skew THEN [w EXCEPT !.maxTimestamp = ts]
  ELSE [w EXCEPT
          !.maxTimestamp = ts, !.hasRetired = TRUE,
          !.retiredThrough = ts - 2 * Skew - 1,
          !.floors = [t \in {t \in DOMAIN w.floors : t > ts - 2 * Skew - 1} |->
                        w.floors[t]]]

Known(w, id) ==
  \/ id \in w.seen
  \/ id.timestamp \in DOMAIN w.floors /\ id.sequence <= w.floors[id.timestamp]

\* Variant: the identity pushed out of the ring leaves no floor behind.
RememberNoFloor(w, id) ==
  IF Len(w.ring) < RingSize
  THEN [w EXCEPT !.ring = Append(@, id), !.seen = @ \cup {id}]
  ELSE [w EXCEPT !.seen = (@ \ {w.ring[w.next + 1]}) \cup {id},
                 !.ring[w.next + 1] = id, !.next = (@ + 1) % RingSize]

\* The identity enters the ring; the one it replaces leaves a floor behind for
\* its timestamp.
Remember(w, id) ==
  IF Len(w.ring) < RingSize
  THEN [w EXCEPT !.ring = Append(@, id), !.seen = @ \cup {id}]
  ELSE LET old == w.ring[w.next + 1]
       IN  [w EXCEPT
              !.seen = (@ \ {old}) \cup {id},
              !.floors = IF Retired(w, old.timestamp) THEN @
                         ELSE Raised(@, old.timestamp, old.sequence),
              !.ring[w.next + 1] = id, !.next = (@ + 1) % RingSize]

Refused(w, id) == id.sequence = 0 \/ Retired(w, id.timestamp)

\* Accept, called after the codec has checked the timestamp against the clock.
Respond(id) ==
  LET w == Advance(resp, id.timestamp)
      ok == ~Refused(resp, id) /\ ~Known(w, id)
  IN  /\ kind = "response"
      /\ clock - id.timestamp <= Skew /\ id.timestamp - clock <= Skew
      /\ resp' = IF Refused(resp, id) THEN resp
                 ELSE IF Known(w, id) THEN w ELSE Remember(w, id)
      /\ given' = IF ok THEN given \cup {id} ELSE given
      /\ UNCHANGED <<kind, window, seen, clock>>

Tick ==
  /\ kind = "response" /\ clock < MaxClock
  /\ clock' = clock + 1
  /\ UNCHANGED <<kind, window, seen, resp, given>>

WindowsNext ==
  \/ Tick
  \/ \E seq \in Seqs : Offer(seq)
  \/ \E id \in Identities : Respond(id)

WindowsSpec == WindowsInit /\ [][WindowsNext]_windowsVars
-----------------------------------------------------------------------------
(* Properties *)

Responses ==
  [seen : SUBSET Identities, ring : Seq(Identities), next : 0..(RingSize - 1),
   floors : UNION {[D -> 0..MaxResp] : D \in SUBSET Times},
   maxTimestamp : Times, retiredThrough : Nat, hasRetired : BOOLEAN]

\* The ring never outgrows its capacity, next stays inside it, and the bits
\* stay inside the window.
WindowsTypes ==
  /\ kind \in {"frame", "response"}
  /\ window \in Windows /\ seen \subseteq Seqs
  /\ clock \in 0..MaxClock
  /\ resp \in Responses /\ Len(resp.ring) <= RingSize
  /\ given \subseteq Identities

\* The bit array holds exactly the accepted numbers among the Size highest:
\* an advance that wraps around it neither forgets an accepted number (which
\* could then be accepted again) nor marks one that never came
\* (ReplayWindow.Accept, mark and clearSlots).
WindowExact ==
  /\ window.initialized <=> seen # {}
  /\ \A q \in seen : q <= window.highest
  /\ \A q \in Seqs : q <= window.highest /\ window.highest - q < Size =>
       (q \in seen <=> q % Size \in window.bits)

\* A response that was accepted is refused whenever it comes again, although
\* the ring forgets it and timestamps are retired
\* (ResponseReplayWindow.Accept: seen, floors and retiredThrough together).
ResponseOnce ==
  \A id \in given :
    Refused(resp, id) \/ Known(Advance(resp, id.timestamp), id)

\* No fresh response is lost: one with a valid timestamp and a sequence number
\* above all accepted ones of that timestamp is accepted, whatever other
\* timestamps came before, rolled-back ones included (the comment of
\* ResponseReplayWindow, and "twice skew retains every simultaneously valid
\* timestamp").
FreshResponseAccepted ==
  \A id \in Identities :
    /\ id.sequence > 0
    /\ clock - id.timestamp <= Skew /\ id.timestamp - clock <= Skew
    /\ \A g \in given : g.timestamp = id.timestamp => g.sequence < id.sequence
    => ~Refused(resp, id) /\ ~Known(Advance(resp, id.timestamp), id)
=============================================================================
