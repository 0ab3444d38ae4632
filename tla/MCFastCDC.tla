----------------------------- MODULE MCFastCDC ------------------------------
(* Values of the constants for model checking FastCDC. *)
EXTENDS FastCDC, TLC

\* A byte that cuts at once and one that takes a history to cut.
TwoWords == (0 :> 8) @@ (1 :> 11)

CONSTANT MaxLength

\* All batches of two bytes up to MaxLength long, the empty one included.
AllBuffers == UNION {[1 .. n -> {0, 1}] : n \in 0 .. MaxLength}
=============================================================================
