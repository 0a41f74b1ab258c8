----------------------------- MODULE MCEndpoints ----------------------------
(***************************************************************************)
(* The endpoints of the client and of the Xray and Mihomo integrations,    *)
(* each checked by itself within one run: the outbound UDP routes, the     *)
(* queue of pipe writes, the virtual packet socket, the client's dials,    *)
(* the deadlines of its packet connections, the read-ahead Reader, the     *)
(* queue of packets before a sender, and the file of TLS sessions.         *)
(***************************************************************************)
EXTENDS XrayRoutes, XrayVirtual, ClientDial, ConnioReader, SenderQueue,
        HonestCallers

VARIABLE endpoint  \* the part a behaviour is about

MCPeer == <<"p", "p", "q">>
MCSlotsOf == <<{"tcp", "udp"}, {"udp"}>>

upperVars == <<routeVars, pipeVars, virtualVars, dialVars>>
lowerVars == <<packetVars, readerVars, senderVars, sessionVars>>
endpointVars == <<endpoint, upperVars, lowerVars>>

EndpointInit ==
  /\ endpoint \in {"routes", "pipe", "virtual", "dial", "packet", "reader",
                   "sender", "session"}
  /\ RoutesInit /\ PipeInit /\ VirtualInit /\ DialInit /\ PacketInit
  /\ ReaderInit /\ SenderInit /\ SessionInit
  /\ endpoint # "dial" => carrier = "h3"
  /\ endpoint # "reader" => use = "stream"

NotRoutes == <<endpoint, pipeVars, virtualVars, dialVars, lowerVars>>
NotPipe == <<endpoint, routeVars, virtualVars, dialVars, lowerVars>>
NotVirtual == <<endpoint, routeVars, pipeVars, dialVars, lowerVars>>
NotDial == <<endpoint, routeVars, pipeVars, virtualVars, lowerVars>>
NotPacket == <<endpoint, readerVars, senderVars, sessionVars, upperVars>>
NotReader == <<endpoint, packetVars, senderVars, sessionVars, upperVars>>
NotSender == <<endpoint, packetVars, readerVars, sessionVars, upperVars>>
NotSession == <<endpoint, packetVars, readerVars, senderVars, upperVars>>

EndpointNext ==
  \/ endpoint = "routes" /\ RoutesNext /\ UNCHANGED NotRoutes
  \/ endpoint = "pipe" /\ PipeNext /\ UNCHANGED NotPipe
  \/ endpoint = "virtual" /\ VirtualNext /\ UNCHANGED NotVirtual
  \/ endpoint = "dial" /\ DialNext /\ UNCHANGED NotDial
  \/ endpoint = "packet" /\ PacketNext /\ UNCHANGED NotPacket
  \/ endpoint = "reader" /\ ReaderNext /\ UNCHANGED NotReader
  \/ endpoint = "sender" /\ SenderNext /\ UNCHANGED NotSender
  \/ endpoint = "session" /\ SessionNext /\ UNCHANGED NotSession

\* The steps of goroutines that nothing blocks for ever.  A client's dial, a
\* stream, a pipe write and a Reader's source count only once they are
\* cancelled; an opening of a route always does: Dispatch returns at once, a
\* resolution by its timeout.
EndpointSpec ==
  /\ EndpointInit /\ [][EndpointNext]_endpointVars
  /\ WF_routeVars(endpoint = "routes" /\ RouteProgress)
  /\ WF_pipeVars(endpoint = "pipe" /\ PipeProgress)
  /\ WF_virtualVars(endpoint = "virtual" /\ VirtualProgress)
  /\ WF_dialVars(endpoint = "dial" /\ DialProgress)
  /\ WF_readerVars(endpoint = "reader" /\ ReaderProgress)
----------------------------------------------------------------------------
(* Nothing is lost, leaked or counted twice: every outbound route and      *)
(* lease, every virtual association and queued byte, every carrier socket, *)
(* every chunk read ahead and every packet before a sender has exactly one *)
(* owner until it is closed or consumed, whoever opens, replaces, expires, *)
(* evicts or closes it meanwhile (udp_routes.go; the virtualPacketConn of  *)
(* inbound.go; conn_udp.go, lifecycle_raw.go; the Reader of deadline.go;   *)
(* chitanda_sender_queue.go).                                              *)
EndpointsOwned ==
  RoutesOwned /\ VirtualExact /\ CarriersOwned /\ ReaderExact /\ QueueExact

(* Close returns, and with it the callers that were blocked: routes after  *)
(* their receivers and openings, pipe writers, the blocked ReadFrom, the   *)
(* dials, and the consumers of a Reader (Close of udp_routes.go,           *)
(* pipe_writer.go, inbound.go, conn_udp.go, client.go and deadline.go).    *)
EndpointsReturn ==
  (RoutesDue \/ PipeDue \/ VirtualDue \/ DialsDue \/ ReaderDue) ~>
     \/ endpoint = "routes" /\ RoutesDone
     \/ endpoint = "pipe" /\ PipeDone
     \/ endpoint = "virtual" /\ VirtualDone
     \/ endpoint = "dial" /\ DialsDone
     \/ endpoint = "reader" /\ ReaderDone
=============================================================================
