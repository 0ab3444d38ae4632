-------------------------------- MODULE Cdc ---------------------------------
(***************************************************************************)
(* cdc.cpp, the older chunking that the CPU pipeline uses.  The hash only  *)
(* matters modulo MODULUS, which is CHUNK_SIZE.                            *)
(***************************************************************************)
EXTENDS Integers, Sequences

CONSTANTS
  MinSize,              \* MINSIZE, 1024
  ChunkSize,            \* CHUNK_SIZE and MODULUS, 4096
  WinSize,              \* WIN_SIZE, 12
  Prime,                \* PRIME, 3
  PrimeWinSizePower     \* PRIME_WIN_SIZE_POWER, 3^17

\* TARGET
Target == 0

\* hash_func at the start of the buffer
HashFunc(buff) ==
  LET sum[n \in 0 .. WinSize] ==
        IF n = 0 THEN 0
        ELSE sum[n - 1] + buff[WinSize - n] * Prime ^ n
  IN sum[WinSize] % ChunkSize

IsCut(s) == s.hash = Target \/ s.i - s.prev = ChunkSize

\* Mutant of Cut: prev stays behind.
CutKeepingPrev(s) ==
  IF IsCut(s)
  THEN [s EXCEPT !.cuts = Append(@, s.i), !.i = @ + MinSize]
  ELSE s

\* A boundary, and the least size is skipped.
Cut(s) ==
  IF IsCut(s)
  THEN [s EXCEPT !.cuts = Append(@, s.i), !.prev = s.i, !.i = @ + MinSize]
  ELSE s

\* The hash takes in the byte WIN_SIZE ahead, and i advances.
Roll(s, buff) ==
  [s EXCEPT !.hash = (@ * Prime - buff[s.i] * PrimeWinSizePower
                        + buff[s.i + WinSize] * Prime) % ChunkSize,
            !.i = @ + 1]

\* The boundaries of the first size bytes of a buffer.  The reads go beyond
\* those bytes: buff must have values there too.
Boundaries(buff, size) ==
  LET s[n \in 0 .. size] ==
        IF n = 0 THEN [i |-> MinSize, prev |-> 0, hash |-> HashFunc(buff), cuts |-> <<0>>]
        ELSE IF s[n - 1].i < size THEN Roll(Cut(s[n - 1]), buff)
        ELSE s[n - 1]
  IN Append(s[size].cuts, size)
=============================================================================
