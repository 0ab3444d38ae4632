----------------------------- MODULE MCReceiver -----------------------------
(* Values of the constants for model checking Transfer with Receiver. *)
EXTENDS Receiver

\* Empty, shorter than a block, and every remainder for up to five blocks.
SizesUpToFiveBlocks == 0 .. (5 * ClientBlock)
=============================================================================
