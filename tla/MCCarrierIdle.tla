---------------------------- MODULE MCCarrierIdle ----------------------------
(***************************************************************************)
(* CarrierPool with a history of when each carrier was last used.          *)
(***************************************************************************)
EXTENDS CarrierPool

VARIABLE busy  \* the age of the carrier's last stream, or of the carrier

Used(k) ==
  \/ active[k] > 0 \/ active'[k] > 0
  \/ life[k] # "probe" /\ life'[k] = "probe"

Aged == [k \in Carriers |-> IF active[k] > 0 THEN 0
                            ELSE Older(busy[k], MinIdle)]

IdleInit == Init /\ busy = [k \in Carriers |-> MinIdle]

\* Time may also pass where only the history sees it.
IdleNext ==
  \/ Tick /\ busy' = Aged
  \/ UNCHANGED vars /\ busy' = Aged
  \/ /\ Next /\ ~Tick
     /\ busy' = [k \in Carriers |-> IF Used(k) THEN 0 ELSE busy[k]]

IdleSpec == IdleInit /\ [][IdleNext]_<<vars, busy>>

\* "evicts one if it has been idle (0 active streams) for >= minIdle"
\* (scaler.go): a carrier that is evicted had no stream for that long.
IdleLongEnough ==
  [][\A k \in Carriers :
       closer = "no" /\ k \in Pooled /\ life'[k] = "out" =>
         busy[k] >= MinIdle]_<<vars, busy>>
=============================================================================
