----------------------------- MODULE MCTestBench -----------------------------
(* Values of the constants for model checking TestBench. *)
EXTENDS TestBench

CONSTANTS MaxLength, MaxPair

Words(max) == UNION {[1 .. n -> 0 .. Radix - 1] : n \in 1 .. max}

\* All chunks of up to MaxLength bytes.
AllInputs == Words(MaxLength)

\* Each of them as a piece of its own, and all pairs of short ones.
SomePieces ==
  {<<c>> : c \in Words(MaxLength)} \cup {<<c, d>> : c, d \in Words(MaxPair)}

\* Two buckets, one of which gets two keys out of three.
SkewedHash == [key \in Keys |-> IF key % 3 = 0 THEN 1 ELSE 0]
=============================================================================
