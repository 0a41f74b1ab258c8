------------------------------ MODULE BytePipe ------------------------------
(***************************************************************************)
(* What one direction of a half-closable connection promises, whichever    *)
(* record layer carries it: the reader gets the writer's bytes in order,   *)
(* each once, and is told of an end only when the writer ended its         *)
(* direction and every byte has been received.  A broken transport is an   *)
(* error, never an end.                                                    *)
(***************************************************************************)
EXTENDS Naturals, Sequences

VARIABLES sent,  \* how many bytes the writer has handed over
          open,  \* the writer may hand over more
          got,   \* the bytes received, each named by its place in the stream
          end    \* what the reader was told: "none", "eof" or "error"

Init == sent = 0 /\ open = TRUE /\ got = <<>> /\ end = "none"

Put ==
  /\ open
  /\ sent' \in Nat /\ sent' > sent
  /\ UNCHANGED <<open, got, end>>

CloseWrite ==
  /\ open /\ open' = FALSE
  /\ UNCHANGED <<sent, got, end>>

Get ==
  /\ end = "none"
  /\ \E m \in 1..(sent - Len(got)) :
       got' = got \o [i \in 1..m |-> Len(got) + i]
  /\ UNCHANGED <<sent, open, end>>

End ==
  /\ end = "none" /\ ~open /\ Len(got) = sent
  /\ end' = "eof"
  /\ UNCHANGED <<sent, open, got>>

Fail ==
  /\ end = "none" /\ end' = "error"
  /\ UNCHANGED <<sent, open, got>>

Next == Put \/ CloseWrite \/ Get \/ End \/ Fail

Spec == Init /\ [][Next]_<<sent, open, got, end>>
=============================================================================
