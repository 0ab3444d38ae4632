------------------------------- MODULE MCLZW --------------------------------
(* Values of the constants for model checking LZW. *)
EXTENDS LZW

CONSTANT MaxLength

\* All chunks of up to MaxLength bytes.
AllInputs == UNION {[1 .. n -> 0 .. Radix - 1] : n \in 1 .. MaxLength}
=============================================================================
