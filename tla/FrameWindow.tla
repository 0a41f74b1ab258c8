----------------------------- MODULE FrameWindow -----------------------------
(***************************************************************************)
(* internal/frame/frame.go: ReplayWindow, the sliding window over 64-bit   *)
(* sequence numbers.  A window of Size bits is keyed by the number modulo  *)
(* Size; here it is the set of the slots whose bit is set, and the words   *)
(* that hold the bits are left out.                                        *)
(***************************************************************************)
EXTENDS Integers

CONSTANT Size  \* ReplayWindowSize

ASSUME SizeAssumption == Size \in Nat \ {0}

NewWindow == [initialized |-> FALSE, highest |-> 0, bits |-> {}]
Windows == [initialized : BOOLEAN, highest : Nat, bits : SUBSET (0..(Size - 1))]

\* clearSlots: the slots of n numbers from first on.
Slots(first, n) == {q % Size : q \in first..(first + n - 1)}

\* mark: the number's slot is set in what is left of the bits.
Marked(seq, bits) ==
  [initialized |-> TRUE, highest |-> seq, bits |-> bits \cup {seq % Size}]

\* The bits that survive when the highest number advances to seq.
Kept(w, seq) ==
  LET advance == seq - w.highest
  IN  IF advance >= Size THEN {}
      ELSE w.bits \ Slots(w.highest + 1, advance - 1)

Newer(w, seq) == ~w.initialized \/ seq > w.highest
InWindow(w, seq) == w.highest - seq < Size /\ seq % Size \notin w.bits

\* Accept's answer, and the window after it.
Accepts(w, seq) == Newer(w, seq) \/ InWindow(w, seq)

\* Variant: an advance clears no slots.
AcceptStaleSlots(w, seq) ==
  IF ~w.initialized THEN Marked(seq, w.bits)
  ELSE IF seq > w.highest THEN Marked(seq, w.bits)
  ELSE IF InWindow(w, seq) THEN [w EXCEPT !.bits = @ \cup {seq % Size}]
  ELSE w

Accept(w, seq) ==
  IF ~w.initialized THEN Marked(seq, w.bits)
  ELSE IF seq > w.highest THEN Marked(seq, Kept(w, seq))
  ELSE IF InWindow(w, seq) THEN [w EXCEPT !.bits = @ \cup {seq % Size}]
  ELSE w
=============================================================================
