----------------------------- MODULE MCTransfer -----------------------------
(* Values of the constants for model checking Transfer. *)
EXTENDS Transfer

\* Empty, shorter than a block, and every remainder for up to five blocks.
SizesUpToFiveBlocks == 0 .. (5 * ClientBlock)

\* Files of at least one block, up to three blocks and a piece.
SizesOfWholeBlocks == ClientBlock .. (3 * ClientBlock + 1)
=============================================================================
