----------------------------- MODULE MCChannels -----------------------------
(***************************************************************************)
(* The parts of one proxied channel, each checked by itself within one     *)
(* run: its handshake, its record layers, its replay windows, and the ring *)
(* buffer of an HTTP/2 stream.                                             *)
(***************************************************************************)
EXTENDS SequenceWindows, RecordStream, Handshake, BufferedPipe

VARIABLE channel  \* the part a behaviour is about

MCKeys == <<"alice", "bob">>

channelVars == <<channel, windowsVars, recordVars, handshakeVars, ringVars>>

WindowsIdle == WindowsInit /\ kind = "frame"
RecordsIdle == RecordInit /\ layer = "raw"
HandshakeIdle ==
  /\ mode = "raw" /\ user = Keys[1] /\ idOK = TRUE /\ skew = 0
  /\ cpad = 0 /\ spad = 0 /\ target = [kind |-> "ip4", len |-> 4]
  /\ HandshakeInit

ChannelInit ==
  \/ channel = "windows"
       /\ WindowsInit /\ RecordsIdle /\ HandshakeIdle /\ RingInit
  \/ channel = "records"
       /\ RecordInit /\ WindowsIdle /\ HandshakeIdle /\ RingInit
  \/ channel = "handshake"
       /\ HandshakeInit /\ WindowsIdle /\ RecordsIdle /\ RingInit
  \/ channel = "ring"
       /\ RingInit /\ WindowsIdle /\ RecordsIdle /\ HandshakeIdle

NotRecords == <<channel, windowsVars, handshakeVars, ringVars>>
NotRing == <<channel, windowsVars, recordVars, handshakeVars>>

ChannelNext ==
  \/ /\ channel = "windows" /\ WindowsNext
     /\ UNCHANGED <<channel, recordVars, handshakeVars, ringVars>>
  \/ channel = "records" /\ RecordNext /\ UNCHANGED NotRecords
  \/ /\ channel = "handshake" /\ HandshakeNext
     /\ UNCHANGED <<channel, windowsVars, recordVars, ringVars>>
  \/ channel = "ring" /\ RingNext /\ UNCHANGED NotRing

ChannelSpec ==
  /\ ChannelInit /\ [][ChannelNext]_channelVars
  /\ WF_channelVars(channel = "records" /\ ReaderStep /\ UNCHANGED NotRecords)
  /\ WF_channelVars(channel = "ring" /\ RingWrite /\ UNCHANGED NotRing)
  /\ WF_channelVars(channel = "ring" /\ RingReading /\ UNCHANGED NotRing)

(* The handshake alone. *)
HandshakeSpec ==
  /\ channel = "handshake"
  /\ HandshakeInit /\ WindowsIdle /\ RecordsIdle /\ RingInit
  /\ [][ChannelNext]_channelVars
----------------------------------------------------------------------------
(* The record layers (rawstream, h1session and frame) and the ring buffer  *)
(* of an HTTP/2 stream (bufpipe.go) all implement the byte pipe: in order, *)
(* each byte once, and an end only after the last byte.                    *)
PipesSpec == PipeSpec /\ RingSpec

(* Once CloseWrite has returned, the end reaches the reader of a record    *)
(* stream unless the transport breaks; and in the ring buffer no side      *)
(* sleeps for ever in cond.Wait: beside a reader that keeps reading every  *)
(* Write returns, and a closed pipe is read to its end (the readers of     *)
(* rawstream, h1session and frame; the Broadcast calls of bufpipe.go).     *)
EndsArrive ==
  (EndDue \/ RingDue) ~> \/ channel = "records" /\ EndSeen
                         \/ channel = "ring" /\ RingDone
=============================================================================
