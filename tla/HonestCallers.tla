---------------------------- MODULE HonestCallers ----------------------------
(***************************************************************************)
(* The endpoints that tell their callers what will become of a request:    *)
(* the queue of pipe writes, the packet connections with their deadlines,  *)
(* and the file of TLS sessions.                                           *)
(***************************************************************************)
EXTENDS XrayPipe, ClientPacket, SessionCache

(* Callers are told the truth: what a pipe write answers is what becomes   *)
(* of its bytes (pipe_writer.go), blocked packet calls keep to the         *)
(* deadline now in force (conn_udp.go), and sessions reported as saved     *)
(* survive a crash (cache.go).                                             *)
EndpointsHonest == PipeHonest /\ DeadlinesKept /\ SessionsDurable
=============================================================================
