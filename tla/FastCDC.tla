------------------------------ MODULE FastCDC -------------------------------
(***************************************************************************)
(* Content-defined chunking of one batch (fast_cdc.cpp).  The loop scans   *)
(* the buffer with a rolling gear hash and cuts where the masked hash is   *)
(* zero, or where a chunk has reached its maximal size; after a cut it     *)
(* skips the minimal chunk size.  vect, the boundaries found, goes to the  *)
(* kernel in a buffer of MAX_LZW_CHUNKS words behind its own length.       *)
(***************************************************************************)
EXTENDS Naturals, Sequences

CONSTANTS
  MinSize,     \* MINSIZE (1024)
  ChunkSize,   \* chunk_size: CHUNK_SIZE (4096) or -c
  Gear,        \* GEAR, a word for each byte
  Word,        \* number of values of an unsigned int (2^32)
  Buffers,     \* the batches that may come
  MaxSlots     \* MAX_LZW_CHUNKS (20): words of the chunk_indices buffer

BufferBound == MinSize + (MaxSlots - 3) * (MinSize + 1)

\* A chunk may grow beyond the bytes that are skipped, and a batch (16384
\* bytes at most) is small enough for the chunk_indices buffer.
ASSUME FastCDCAssumption ==
  /\ MinSize \in Nat \ {0} /\ ChunkSize \in Nat /\ MinSize < ChunkSize
  /\ Word \in Nat \ {0}
  /\ MaxSlots \in Nat /\ MaxSlots > 2
  /\ \A buff \in Buffers : buff \in Seq(DOMAIN Gear) /\ Len(buff) <= BufferBound
  /\ \A byte \in DOMAIN Gear : Gear[byte] \in Nat

VARIABLES
  buff,   \* the bytes of the batch; buff[i] of the code is buff[i + 1]
  hash, i, prev,
  vect,   \* the boundaries pushed so far
  pc      \* "scan" in the loop, "done" after it

vars == <<buff, hash, i, prev, vect, pc>>

buffSize == Len(buff)

Init ==
  /\ buff \in Buffers
  /\ hash = 0
  /\ i = MinSize
  /\ prev = 0
  /\ vect = <<0>>
  /\ pc = "scan"

\* Mutant of Rolled: a wider hash.
RolledWide == (hash \div 2) + Gear[buff[i + 1]]

\* hash = (hash >> 1) + GEAR[buff[i]], truncated to an unsigned int
Rolled == ((hash \div 2) + Gear[buff[i + 1]]) % Word

\* hash & ((chunk_size * 2) - 1) == TARGET, for a power of two
Masked(h) == h % (ChunkSize * 2) = 0

\* Mutant of IsBoundary: no hard chunk.
IsBoundaryByHash == Masked(Rolled)

IsBoundary == Masked(Rolled) \/ i - prev = ChunkSize

\* Mutants of Cut: the minimal size is not skipped, and the hash goes on.
CutWithoutSkip ==
  /\ pc = "scan" /\ i < buffSize
  /\ IsBoundary
  /\ vect' = Append(vect, i)
  /\ prev' = i
  /\ i' = i + 1
  /\ hash' = 0
  /\ UNCHANGED <<buff, pc>>

CutKeepingHash ==
  /\ pc = "scan" /\ i < buffSize
  /\ IsBoundary
  /\ vect' = Append(vect, i)
  /\ prev' = i
  /\ i' = i + MinSize + 1
  /\ hash' = Rolled
  /\ UNCHANGED <<buff, pc>>

\* A boundary: the next MINSIZE bytes are skipped and the hash starts again.
Cut ==
  /\ pc = "scan" /\ i < buffSize
  /\ IsBoundary
  /\ vect' = Append(vect, i)
  /\ prev' = i
  /\ i' = i + MinSize + 1
  /\ hash' = 0
  /\ UNCHANGED <<buff, pc>>

Scan ==
  /\ pc = "scan" /\ i < buffSize
  /\ ~IsBoundary
  /\ hash' = Rolled
  /\ i' = i + 1
  /\ UNCHANGED <<buff, prev, vect, pc>>

\* Mutant of Finish: the end is pushed in any case, as the older cdc does.
FinishAlways ==
  /\ pc = "scan" /\ i >= buffSize
  /\ vect' = Append(vect, buffSize)
  /\ pc' = "done"
  /\ UNCHANGED <<buff, hash, i, prev>>

\* The end of the buffer is a boundary, unless it is the last one already.
Finish ==
  /\ pc = "scan" /\ i >= buffSize
  /\ vect' = IF vect[Len(vect)] # buffSize THEN Append(vect, buffSize) ELSE vect
  /\ pc' = "done"
  /\ UNCHANGED <<buff, hash, i, prev>>

Done == pc = "done" /\ UNCHANGED vars

Next == Cut \/ Scan \/ Finish \/ Done

Spec == Init /\ [][Next]_vars

-----------------------------------------------------------------------------
(* Properties *)

\* The variables stay in their ranges.
TypeOK ==
  /\ buff \in Buffers
  /\ hash \in 0 .. Word - 1
  /\ i \in Nat /\ prev \in Nat
  /\ vect \in Seq(Nat) /\ vect # <<>>
  /\ pc \in {"scan", "done"}

\* The chunks cut the buffer up: boundaries ascend from 0 without an empty
\* chunk, and in the end they reach the end of the buffer.
ChunksCover ==
  /\ vect[1] = 0
  /\ \A k \in 1 .. Len(vect) - 1 : vect[k] < vect[k + 1]
  /\ pc = "done" => vect[Len(vect)] = buffSize

\* No chunk is larger than the maximal size ("a hard chunk at 4KB"), and none
\* but the last is smaller than the minimal one.
ChunkSizes ==
  \A k \in 1 .. Len(vect) - 1 :
    /\ vect[k + 1] - vect[k] <= ChunkSize
    /\ vect[k + 1] # buffSize => vect[k + 1] - vect[k] >= MinSize

\* vect and its length fit in the chunk_indices buffer.
FitsChunkIndices == Len(vect) + 1 <= MaxSlots

\* What makes deduplication find repeated content: behind any two boundaries
\* but the first, the same bytes are cut at the same place, whatever came
\* before them.  The first chunk starts its scan one byte earlier.
Following(k) == SubSeq(buff, vect[k] + 1, vect[k] + ChunkSize + 1)

SameContentSameCut ==
  pc = "done" =>
    \A j, k \in 2 .. Len(vect) - 1 :
      (/\ vect[j] + ChunkSize < buffSize /\ vect[k] + ChunkSize < buffSize
       /\ Following(j) = Following(k))
        => vect[j + 1] - vect[j] = vect[k + 1] - vect[k]
=============================================================================
