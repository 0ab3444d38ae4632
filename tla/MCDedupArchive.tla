--------------------------- MODULE MCDedupArchive ---------------------------
(* Values of the constants for model checking DedupArchive. *)
EXTENDS DedupArchive, TLC

CONSTANTS c1, c2, c3

\* Any injection will do.
Fingerprints == (c1 :> "A") @@ (c2 :> "B") @@ (c3 :> "C")

\* One code; eight codes, which fill their bytes and of which one begins at
\* each of the eight places in a byte; one code more.
ChunkCodes ==
     (c1 :> <<8190>>)
  @@ (c2 :> <<97, 8191, 4096, 1, 4095, 2730, 8190, 5460>>)
  @@ (c3 :> <<5461, 2731, 4097, 6826, 1, 8190, 3277, 7281, 4915>>)
=============================================================================
