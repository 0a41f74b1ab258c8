----------------------------- MODULE MCPlainUdp -----------------------------
(* Two sessions, one with a UDP and one with an ICMP target.                *)
EXTENDS PlainUdp

CONSTANTS k1, k2, a1, a2

MCTasks == {[key |-> k1, addr |-> a1], [key |-> k2, addr |-> a2]}
=============================================================================
