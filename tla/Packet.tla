------------------------------- MODULE Packet -------------------------------
(***************************************************************************)
(* The two-byte packet header the client writes and the hosts decode.  The *)
(* first byte is the low byte of the payload length, the second its high   *)
(* byte, whose top bit is the done bit.  Radix is the number of values of  *)
(* a byte: 256 in the code, smaller in the models so that lengths cross    *)
(* the byte boundary.                                                      *)
(***************************************************************************)
EXTENDS Naturals

CONSTANT Radix

ASSUME RadixAssumption == Radix \in Nat /\ Radix > 2 /\ Radix % 2 = 0

\* DONE_BIT of the client, DONE_BIT_L of the hosts: 1 << 7.
DoneBit == Radix \div 2

\* Lengths whose high byte leaves the done bit clear.
Lengths == 0 .. (Radix * DoneBit - 1)

\* local[0] = low; local[1] = high, or high | DONE_BIT on the last packet.
Header(length, last) ==
  [low |-> length % Radix,
   high |-> (length \div Radix) + (IF last THEN DoneBit ELSE 0)]

\* Mutant of DoneField: the second byte is compared, not masked.
DoneFieldCompared(header) == IF header.high = DoneBit THEN DoneBit ELSE 0

\* done = buffer[1] & DONE_BIT_L: not 1, but the bit where it stands.
DoneField(header) == IF header.high >= DoneBit THEN DoneBit ELSE 0

\* length = buffer[0] | (buffer[1] << 8); length &= ~DONE_BIT_H.
LengthField(header) == header.low + Radix * (header.high % DoneBit)

Headers == [low : 0 .. Radix - 1, high : 0 .. Radix - 1]
=============================================================================
