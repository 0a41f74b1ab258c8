---------------------------- MODULE ReplayGuard ----------------------------
(***************************************************************************)
(* What pkg/auth's ReplayCache promises the servers: Accept says yes to    *)
(* one nonce at most once per 2 * MaxClockSkew, whatever crashes, restarts *)
(* and compactions happen in between.                                      *)
(*                                                                         *)
(* A grant is a successful Accept: the nonce, the caller's reading of the  *)
(* clock (now), the time the nonce was recorded (at), and how many grants  *)
(* of the nonce came before it.                                            *)
(***************************************************************************)
EXTENDS Naturals, FiniteSets

CONSTANTS Nonces,
          Window,  \* 2 * MaxClockSkew, in ticks of the clock
          Second   \* ticks per second: the resolution of expiries on disk

VARIABLES clock, grants

\* The expiry a record on disk stands for: expiry.Unix() drops the fraction.
OnDisk(expiry) == (expiry \div Second) * Second

FarApart(g, h) ==
  \/ g.at >= OnDisk(h.now + Window)
  \/ h.at >= OnDisk(g.now + Window)

Init == clock \in Nat /\ grants = {}

Tick ==
  /\ clock' \in Nat /\ clock' >= clock
  /\ UNCHANGED grants

Grants == [n : Nonces, now : Nat, at : Nat, nth : Nat]

NewGrant(n, now, at) ==
  [n |-> n, now |-> now, at |-> at,
   nth |-> Cardinality({h \in grants : h.n = n})]

Grant(n, now, at) ==
  LET g == NewGrant(n, now, at)
  IN  /\ now <= at /\ at <= clock
      /\ \A h \in grants : h.n = n => FarApart(g, h)
      /\ grants' = grants \cup {g}
      /\ UNCHANGED clock

Next == Tick \/ \E n \in Nonces, now, at \in 0..clock : Grant(n, now, at)

Spec == Init /\ [][Next]_<<clock, grants>>
=============================================================================
