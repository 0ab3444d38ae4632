--------------------------- MODULE MCCpuPipeline ----------------------------
(* A small instance of CpuPipeline: bytes are 0, 1 and 2, the buffer holds  *)
(* four blocks of two bytes, and a chunk has two to four bytes.            *)
EXTENDS CpuPipeline

Words(bytes, sizes) == UNION {[1 .. n -> bytes] : n \in sizes}

\* All short files, and longer ones that repeat a word.
SomeFiles ==
  Words(0 .. 2, 0 .. 4) \cup Words(1 .. 2, 5 .. 7) \cup
  {[b \in 1 .. n |-> w[(b % 3) + 1]] : w \in Words(0 .. 2, {3}), n \in 5 .. 17}

\* A hash that favours one bucket, so that the associative memory is filled.
KeysToBuckets == [key \in Keys |-> IF key % 5 = 4 THEN 1 ELSE 0]
=============================================================================
