------------------------------- MODULE Sha256 -------------------------------
(***************************************************************************)
(* sha256_update and sha256_final (sha256.cpp) as the blocks they give to  *)
(* sha256_transform.  The transform is not modelled: messages are taken to *)
(* have the same fingerprint when their blocks are the same.               *)
(***************************************************************************)
EXTENDS Integers, Sequences

CONSTANTS
  BlockBytes,   \* 64
  LengthBytes   \* bytes of the message's length at the end, 8

ASSUME Sha256Assumption ==
  LengthBytes \in Nat /\ BlockBytes \in Nat /\ LengthBytes < BlockBytes

Zeros(n) == [b \in 1 .. n |-> 0]

\* A number in the last bytes of a block, the highest first.
LengthField(bits) ==
  [b \in 1 .. LengthBytes |-> (bits \div 256 ^ (LengthBytes - b)) % 256]

\* sha256_init
Start == [blocks |-> <<>>, data |-> <<>>, bitlen |-> 0]

\* sha256_transform: the state stands for the blocks it has taken in.
Transform(blocks, data) == Append(blocks, data)

\* sha256_update, a byte at a time: a full block is transformed.
Update(message) ==
  LET ctx[n \in 0 .. Len(message)] ==
        IF n = 0 THEN Start
        ELSE LET data == Append(ctx[n - 1].data, message[n]) IN
             IF Len(data) = BlockBytes
             THEN [blocks |-> Transform(ctx[n - 1].blocks, data), data |-> <<>>,
                   bitlen |-> ctx[n - 1].bitlen + 8 * BlockBytes]
             ELSE [ctx[n - 1] EXCEPT !.data = data]
  IN ctx[Len(message)]

\* datalen < 56: there is room for the mark 0x80 before the length.
Fits(data) == Len(data) < BlockBytes - LengthBytes

\* Mutant of TotalLength: the bytes of the last block are not counted.
TotalLengthOfBlocks(ctx) == LengthField(ctx.bitlen)

\* bitlen at the end
TotalLength(ctx) == LengthField(ctx.bitlen + 8 * Len(ctx.data))

\* sha256_final: the mark, zeros and the length in bits, in one block or two.
Final(ctx) ==
  LET marked == Append(ctx.data, 128)
      room == BlockBytes - LengthBytes
      padded == marked \o Zeros(BlockBytes - Len(marked))
  IN IF Fits(ctx.data)
     THEN Transform(ctx.blocks, marked \o Zeros(room - Len(marked)) \o TotalLength(ctx))
     ELSE Transform(Transform(ctx.blocks, padded), Zeros(room) \o TotalLength(ctx))

\* sha_256 of sha.cpp
Fingerprint(message) == Final(Update(message))

-----------------------------------------------------------------------------
(* The padding that the standard (FIPS 180-4, 5.1.1) asks for: the mark,   *)
(* the fewest zeros that fill the last block, and the length.              *)

StandardPadded(message) ==
  LET zeros == CHOOSE n \in 0 .. BlockBytes - 1 :
                 (Len(message) + 1 + n + LengthBytes) % BlockBytes = 0
  IN message \o <<128>> \o Zeros(zeros) \o LengthField(8 * Len(message))
=============================================================================
