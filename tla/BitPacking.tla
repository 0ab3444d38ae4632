----------------------------- MODULE BitPacking -----------------------------
(***************************************************************************)
(* Codes as bits in bytes: create_packet, which writes a code by one of    *)
(* eight cases of shifts and masks according to the bits still free in the *)
(* current byte (host.cpp; main.cpp has two cases, for 12-bit codes), and  *)
(* Read_code, which reads a code bit by bit (Decoder.cpp).                 *)
(***************************************************************************)
EXTENDS Integers, Sequences

\* ((v >> shift) & (2^bits - 1)) << up
Part(shift, bits, up) == [shift |-> shift, bits |-> bits, up |-> up]

\* Mutant of PartOf: the lowest bit of a part is masked out.
PartOfMasked(v, part) ==
  ((v \div 2 ^ (part.shift + 1)) % 2 ^ (part.bits - 1)) * 2 ^ (part.up + 1)

PartOf(v, part) ==
  ((v \div 2 ^ part.shift) % 2 ^ part.bits) * 2 ^ part.up

\* Cases[bits_left + 1]: the parts a code is written in, the first of them
\* into the bits that are left, and the bits left behind it.
Cases13 == <<
  [parts |-> <<Part(5, 8, 0), Part(0, 5, 3)>>, left |-> 3],
  [parts |-> <<Part(12, 1, 0), Part(4, 8, 0), Part(0, 4, 4)>>, left |-> 4],
  [parts |-> <<Part(11, 2, 0), Part(3, 8, 0), Part(0, 3, 5)>>, left |-> 5],
  [parts |-> <<Part(10, 3, 0), Part(2, 8, 0), Part(0, 2, 6)>>, left |-> 6],
  [parts |-> <<Part(9, 4, 0), Part(1, 8, 0), Part(0, 1, 7)>>, left |-> 7],
  [parts |-> <<Part(8, 5, 0), Part(0, 8, 0)>>, left |-> 0],
  [parts |-> <<Part(7, 6, 0), Part(0, 7, 1)>>, left |-> 1],
  [parts |-> <<Part(6, 7, 0), Part(0, 6, 2)>>, left |-> 2]>>

\* main.cpp; bits_left is 0 or 4
Cases12 == <<
  [parts |-> <<Part(4, 8, 0), Part(0, 4, 4)>>, left |-> 4], <<>>, <<>>, <<>>,
  [parts |-> <<Part(8, 4, 0), Part(0, 8, 0)>>, left |-> 0]>>

\* One round of create_packet's loop: data and bits_left before and after.
Put(cases, s, v) ==
  LET case == cases[s.left + 1]
      byte(k) == PartOf(v, case.parts[k])
      size == Len(s.data)
      joined == IF s.left = 0 THEN Append(s.data, byte(1))
                ELSE [s.data EXCEPT ![size] = @ + byte(1)]
  IN [data |-> joined \o [k \in 1 .. Len(case.parts) - 1 |-> byte(k + 1)],
      left |-> case.left]

\* create_packet: the loop is left where packet_len bytes are full, and bytes
\* it does not reach stay 0.
CreatePacket(cases, codes, packetLen) ==
  LET packed[k \in 0 .. Len(codes)] ==
        IF k = 0 THEN [data |-> <<>>, left |-> 0]
        ELSE Put(cases, packed[k - 1], codes[k])
      data == packed[Len(codes)].data
  IN [b \in 1 .. packetLen |-> IF b <= Len(data) THEN data[b] ELSE 0]

\* The bit at Input_position; behind the packet there is some other record.
Bit(data, position) ==
  LET byte == position \div 8 + 1 IN
  IF byte <= Len(data) THEN (data[byte] \div 2 ^ (7 - (position % 8))) % 2 ELSE 0

\* Read_code at a position
ReadCode(data, position, width) ==
  LET code[b \in 0 .. width] ==
        IF b = 0 THEN 0 ELSE 2 * code[b - 1] + Bit(data, position + b - 1)
  IN code[width]

\* The first n codes of a packet.
ReadCodes(data, n, width) ==
  [k \in 1 .. n |-> ReadCode(data, (k - 1) * width, width)]
=============================================================================
