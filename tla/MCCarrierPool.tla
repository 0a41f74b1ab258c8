--------------------------- MODULE MCCarrierPool ---------------------------
(***************************************************************************)
(* Two tables that outlive the traffic they serve, each checked by itself  *)
(* within one run: the client's pool of HTTP/2 carriers, and the sessions  *)
(* and buckets by which the servers admit datagrams.                       *)
(***************************************************************************)
EXTENDS CarrierPool, UdpReplay

VARIABLE part

partVars == <<part, vars, admissionVars>>

AdmissionIdle == AdmissionInit /\ host = "plain" /\ durable = FALSE

PartInit ==
  /\ Init
  /\ \/ part = "pool" /\ AdmissionIdle
     \/ part = "admission" /\ AdmissionInit

PartNext ==
  \/ part = "pool" /\ Next /\ UNCHANGED <<part, admissionVars>>
  \/ part = "admission" /\ AdmissionNext /\ UNCHANGED <<part, vars>>

\* The fairness is the pool's: what is checked of the admission is safety.
PartSpec == PartInit /\ [][PartNext]_partVars /\ Fairness
=============================================================================
