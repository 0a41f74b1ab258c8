---------------------------- MODULE ClientPacket ----------------------------
(***************************************************************************)
(* quicPacketConn (pkg/client/conn_udp.go): datagram reads and writes over *)
(* one HTTP/3 stream, whose deadlines may move while calls are blocked.    *)
(* A read waits under its own context, a write under the connection's      *)
(* current write context; moving a deadline cancels what would otherwise   *)
(* wake too late, and the woken call looks again.                          *)
(*                                                                         *)
(* A time of 0 is the zero time.Time: no deadline.                         *)
(***************************************************************************)
EXTENDS Naturals, FiniteSets

CONSTANTS PacketReaders,  \* goroutines in ReadFrom
          PacketClock,    \* bound: clock ticks
          DeadlineMoves   \* bound: SetReadDeadline and SetWriteDeadline calls

ASSUME PacketAssumption == PacketClock \in Nat /\ DeadlineMoves \in Nat

Times == 0..(PacketClock + 1)

VARIABLES time, packetOver,  \* c.ctx is done
          packetClosed,      \* c.closed
          readDeadline, writeDeadline,
          writeContext,      \* how many there were; 0 is nil
          contextDeadline,   \* the deadline of each
          dropped,           \* write contexts whose cancel has run
          preader, psender,  \* the blocked calls
          told,              \* a call reported a deadline not in force
          dmoves

clockVars == <<time, packetOver, packetClosed>>
writeVars == <<writeDeadline, writeContext, contextDeadline, dropped>>
packetVars == <<clockVars, readDeadline, writeVars, preader, psender, told,
                dmoves>>

Contexts == 1..(DeadlineMoves + 1)
Outside == [pc |-> "out", at |-> 0, woken |-> FALSE]

PacketInit ==
  /\ time = 1 /\ packetOver = FALSE /\ packetClosed = FALSE
  /\ readDeadline = 0 /\ writeDeadline = 0 /\ writeContext = 0
  /\ contextDeadline = [g \in Contexts |-> 0] /\ dropped = {}
  /\ preader = [r \in PacketReaders |-> Outside] /\ psender = Outside
  /\ told = FALSE /\ dmoves = 0

Passed(t) == t # 0 /\ time >= t
----------------------------------------------------------------------------
(* ReadFrom: the checks and the registered context, then the wait.         *)
ReadFrom(r) ==
  /\ preader[r].pc \in {"out", "loop"}
  /\ preader' = [preader EXCEPT ![r] =
       IF packetOver \/ packetClosed \/ Passed(readDeadline) THEN Outside
       ELSE [pc |-> "wait", at |-> readDeadline, woken |-> FALSE]]
  /\ UNCHANGED <<clockVars, readDeadline, writeVars, psender, told, dmoves>>

\* ReceiveDatagram returns a datagram (which may be a replay), an error of
\* the stream, or the end of its context.
Received(r) ==
  /\ preader[r].pc = "wait"
  /\ \/ \E pc \in {"out", "loop"} :
          preader' = [preader EXCEPT ![r] =
                        [Outside EXCEPT !.pc = IF packetClosed THEN "out"
                                               ELSE pc]]
     \/ /\ preader[r].woken \/ Passed(preader[r].at) \/ packetOver
        /\ preader' = [preader EXCEPT ![r] =
             IF packetClosed \/ packetOver \/ Passed(readDeadline)
             THEN Outside ELSE [Outside EXCEPT !.pc = "loop"]]
  /\ UNCHANGED <<clockVars, readDeadline, writeVars, psender, told, dmoves>>

WakeReaders ==
  [r \in PacketReaders |-> [preader[r] EXCEPT !.woken = preader[r].pc = "wait"]]

SetReadDeadline(t) ==
  /\ dmoves < DeadlineMoves /\ dmoves' = dmoves + 1
  /\ readDeadline' = t
  /\ preader' = IF \/ t = 0 \/ readDeadline = 0
                   \/ t < readDeadline \/ ~(readDeadline > time)
                THEN WakeReaders ELSE preader
  /\ UNCHANGED <<clockVars, writeVars, psender, told>>
----------------------------------------------------------------------------
(* sendWithWriteDeadline.                                                  *)
SendBegin ==
  /\ psender.pc \in {"out", "loop"}
  /\ IF packetOver \/ packetClosed \/ Passed(writeDeadline)
     THEN psender' = Outside /\ UNCHANGED writeContext
     ELSE /\ writeContext' = IF writeContext = 0 THEN 1 ELSE writeContext
          /\ psender' = [pc |-> "wait", at |-> writeContext', woken |-> FALSE]
  /\ UNCHANGED <<clockVars, readDeadline, writeDeadline, contextDeadline,
                 dropped, preader, told, dmoves>>

ContextDone(g) ==
  packetOver \/ packetClosed \/ g \in dropped \/ Passed(contextDeadline[g])

\* The woken send: try again under a new context, or report the error.
SendAgain ==
  IF ~packetClosed /\ writeContext # psender.at
  THEN psender' = [Outside EXCEPT !.pc = "loop"] /\ UNCHANGED told
  ELSE /\ psender' = Outside
       /\ told' = (told \/ ~(packetOver \/ packetClosed
                               \/ Passed(writeDeadline)))

\* The send is done, fails by itself, or its context ends.
Sent ==
  /\ psender.pc = "wait"
  /\ \/ psender' = Outside /\ UNCHANGED told
     \/ ContextDone(psender.at) /\ SendAgain
  /\ UNCHANGED <<clockVars, readDeadline, writeVars, preader, dmoves>>

SetWriteDeadline(t) ==
  LET next == (IF writeContext = 0 THEN 1 ELSE writeContext) + 1 IN
  /\ dmoves < DeadlineMoves /\ dmoves' = dmoves + 1
  /\ next \in Contexts
  /\ writeDeadline' = t /\ writeContext' = next
  /\ contextDeadline' = [contextDeadline EXCEPT ![next] = t]
  /\ UNCHANGED <<clockVars, readDeadline, dropped, preader, psender, told>>

\* oldCancel runs after the unlock.
CancelOld(g) ==
  /\ g \in 1..(writeContext - 1) \ dropped
  /\ dropped' = dropped \union {g}
  /\ UNCHANGED <<clockVars, readDeadline, writeDeadline, writeContext,
                 contextDeadline, preader, psender, told, dmoves>>
----------------------------------------------------------------------------
PacketClose ==
  /\ ~packetClosed /\ packetClosed' = TRUE /\ packetOver' = TRUE
  /\ preader' = WakeReaders
  /\ UNCHANGED <<time, readDeadline, writeVars, psender, told, dmoves>>

\* newH3PacketContext: the connection or the manager ends.
PacketEnds ==
  /\ ~packetOver /\ packetOver' = TRUE
  /\ UNCHANGED <<time, packetClosed, readDeadline, writeVars, preader, psender,
                 told, dmoves>>

PacketTick ==
  /\ time <= PacketClock /\ time' = time + 1
  /\ UNCHANGED <<packetOver, packetClosed, readDeadline, writeVars, preader,
                 psender, told, dmoves>>

PacketNext ==
  \/ \E r \in PacketReaders : ReadFrom(r) \/ Received(r)
  \/ \E t \in Times : SetReadDeadline(t) \/ SetWriteDeadline(t)
  \/ \E g \in Contexts : CancelOld(g)
  \/ SendBegin \/ Sent \/ PacketClose \/ PacketEnds \/ PacketTick
----------------------------------------------------------------------------
(* A blocked read or write wakes no later than the deadline now in force,  *)
(* however the deadline was moved under it, and a write reports an expired *)
(* deadline only when the one in force has passed (conn_udp.go, ReadFrom,  *)
(* SetReadDeadline, sendWithWriteDeadline, SetWriteDeadline).              *)
DeadlinesKept ==
  /\ \A r \in PacketReaders :
       preader[r].pc = "wait" /\ readDeadline # 0 =>
         \/ preader[r].woken
         \/ preader[r].at # 0 /\ preader[r].at <= readDeadline
  /\ psender.pc = "wait" /\ writeDeadline # 0 =>
       \/ psender.at < writeContext  \* replaced: its cancel has run or will
       \/ contextDeadline[psender.at] = writeDeadline
  /\ ~told
=============================================================================
