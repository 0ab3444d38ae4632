---------------------------- MODULE CpuPipeline -----------------------------
(***************************************************************************)
(* The pipeline without the kernel (Encoder/main.cpp): main reads a file   *)
(* in blocks of 1024 bytes into a buffer of 16 blocks, and                 *)
(* compression_pipeline chunks what is there (cdc), deduplicates it,       *)
(* codes it (lzw.cpp) and writes records of 12-bit codes.                  *)
(***************************************************************************)
EXTENDS Cdc, Sha256, SoftwareLZW, BitPacking, FiniteSets

CONSTANTS
  Files,       \* the files that may be read
  BlockSize,   \* 1024
  NumPackets   \* NUM_PACKETS, 16

BufferLen == NumPackets * BlockSize

ASSUME CpuPipelineAssumption ==
  /\ Radix \in Nat \ {0} /\ Files \subseteq Seq(0 .. Radix - 1)
  /\ BlockSize \in Nat \ {0} /\ NumPackets \in Nat \ {0, 1}
  /\ MinSize \in Nat \ {0} /\ ChunkSize \in Nat /\ ChunkSize > MinSize + 1
  /\ WinSize \in Nat /\ WinSize < BufferLen
  /\ CodeSpace <= 4096   \* a code has 12 bits

VARIABLES
  pc,         \* "read" and "compress" in the two loops, in the end "closed"
              \* or, after an exit, "failed"
  file,       \* the file read
  offset,     \* bytes of it that have been read
  length,     \* what the last fread returned
  writer, sum,\* the block to be filled, and the bytes filled
  buffer,     \* pipeline_buffer
  cuts,       \* vect
  k,          \* the chunk to be compressed
  shaMap, chunkId,  \* sha_chunk_id_map, chunk_id of dedup
  archive,    \* the records in the file
  log         \* history: the chunks, and whether the coder had a limit exceeded

dedupVars == <<shaMap, chunkId>>
vars == <<pc, file, offset, length, writer, sum, buffer, cuts, k, dedupVars, archive, log>>

\* calloc, and length is -1.
Init ==
  /\ pc = "read"
  /\ file \in Files
  /\ offset = 0 /\ length = -1
  /\ writer = 0 /\ sum = 0
  /\ buffer = [b \in 0 .. BufferLen - 1 |-> 0]
  /\ cuts = <<>> /\ k = 1
  /\ shaMap = <<>> /\ chunkId = 0
  /\ archive = <<>> /\ log = <<>>

-----------------------------------------------------------------------------
(* main *)

\* What fread returns.
Available ==
  IF Len(file) - offset < BlockSize THEN Len(file) - offset ELSE BlockSize

\* Mutant of BufferReady: only a buffer that is full is compressed.
BufferReadyWhenFull(n) == writer = NumPackets - 1

\* The buffer is full, or the block is the file's last, unless that is full.
BufferReady(n) == writer = NumPackets - 1 \/ (n < BlockSize /\ n > 0)

Copied(n) ==
  [b \in DOMAIN buffer |->
     IF b - writer * BlockSize \in 0 .. n - 1
     THEN file[offset + b - writer * BlockSize + 1]
     ELSE buffer[b]]

\* Chunking looks WIN_SIZE bytes ahead: what is behind the buffer may be
\* anything.  What it reads further on it does not use.
Beyond == BufferLen .. BufferLen + WinSize - 2
Heap == BufferLen + WinSize - 1 .. BufferLen + MinSize + WinSize

Extended(junk, n) ==
  [b \in DOMAIN buffer \cup Beyond \cup Heap |->
     IF b \in DOMAIN buffer THEN Copied(n)[b] ELSE IF b \in Beyond THEN junk[b] ELSE 0]

\* A round of the loop that does not call compression_pipeline.
ReadBlock ==
  /\ pc = "read" /\ length # 0 /\ ~BufferReady(Available)
  /\ length' = Available
  /\ offset' = offset + Available
  /\ sum' = sum + Available
  /\ buffer' = Copied(Available)
  /\ writer' = writer + 1
  /\ UNCHANGED <<pc, file, cuts, k, dedupVars, archive, log>>

\* One that does: up to its loop over the chunks.
ReadAndChunk ==
  /\ pc = "read" /\ length # 0 /\ BufferReady(Available)
  /\ length' = Available
  /\ offset' = offset + Available
  /\ sum' = sum + Available
  /\ buffer' = Copied(Available)
  /\ \E junk \in [Beyond -> 0 .. Radix - 1] :
       cuts' = Boundaries(Extended(junk, Available), sum + Available)
  /\ k' = 1
  /\ pc' = "compress"
  /\ UNCHANGED <<file, writer, dedupVars, archive, log>>

\* The files are closed.
Close ==
  /\ pc = "read" /\ length = 0
  /\ pc' = "closed"
  /\ UNCHANGED <<file, offset, length, writer, sum, buffer, cuts, k, dedupVars,
                 archive, log>>

-----------------------------------------------------------------------------
(* compression_pipeline *)

CodeBits == 12

\* packet_len
PacketLength(n) == (n * CodeBits) \div 8 + (IF n % 2 # 0 THEN 1 ELSE 0)

RawRecord(codes) ==
  [header |-> 2 * PacketLength(Len(codes)),
   packet |-> CreatePacket(Cases12, codes, PacketLength(Len(codes)))]

RefRecord(id) == [header |-> 2 * id + 1, packet |-> <<>>]

Chunk == [b \in 1 .. cuts[k + 1] - cuts[k] |-> buffer[cuts[k] + b - 1]]

\* Mutant of NextChunk: the count of the bytes is not set back.
NextChunkKeepingSum ==
  /\ k' = k + 1
  /\ IF k + 1 < Len(cuts) THEN UNCHANGED <<pc, writer, sum>>
     ELSE pc' = "read" /\ writer' = 0 /\ UNCHANGED sum

\* After the last chunk main goes on at the start of the buffer.
NextChunk ==
  /\ k' = k + 1
  /\ IF k + 1 < Len(cuts) THEN UNCHANGED <<pc, writer, sum>>
     ELSE pc' = "read" /\ writer' = 0 /\ sum' = 0

\* A chunk that dedup knows.
CompressKnown ==
  /\ pc = "compress"
  /\ Fingerprint(Chunk) \in DOMAIN shaMap
  /\ archive' = Append(archive, RefRecord(shaMap[Fingerprint(Chunk)]))
  /\ log' = Append(log, [chunk |-> Chunk, exceeded |-> FALSE])
  /\ NextChunk
  /\ UNCHANGED <<file, offset, length, buffer, cuts, dedupVars>>

DedupNew(fingerprint) ==
  /\ fingerprint \notin DOMAIN shaMap
  /\ shaMap' = [f \in DOMAIN shaMap \cup {fingerprint} |->
                  IF f = fingerprint THEN chunkId ELSE shaMap[f]]
  /\ chunkId' = chunkId + 1

\* One that it does not know; "FAILED TO INSERT INTO ASSOC MEM" ends all.
CompressNew ==
  /\ pc = "compress"
  /\ DedupNew(Fingerprint(Chunk))
  /\ \E undefined \in Undefined :
       LET result == Lzw(Chunk, undefined) IN
       IF result.failure
       THEN /\ pc' = "failed"
            /\ UNCHANGED <<writer, sum, k, archive, log>>
       ELSE /\ archive' = Append(archive, RawRecord(result.codes))
            /\ log' = Append(log, [chunk |-> Chunk,
                                   exceeded |-> ~WithinLimits(Chunk, result)])
            /\ NextChunk
  /\ UNCHANGED <<file, offset, length, buffer, cuts>>

Ended == pc \in {"closed", "failed"} /\ UNCHANGED vars

Next ==
  \/ ReadBlock \/ ReadAndChunk \/ Close
  \/ CompressKnown \/ CompressNew
  \/ Ended

Spec == Init /\ [][Next]_vars

-----------------------------------------------------------------------------
(* Properties *)

\* The block being filled is one of the buffer's, what is read of the file is
\* in it or was handed over, and ids are given out in turn.
TypeOK ==
  /\ pc \in {"read", "compress", "closed", "failed"}
  /\ offset \in 0 .. Len(file) /\ length \in -1 .. BlockSize
  /\ writer \in 0 .. NumPackets - 1 /\ sum \in 0 .. BufferLen
  /\ pc = "read" /\ length # 0 => sum = writer * BlockSize
  /\ buffer \in [0 .. BufferLen - 1 -> 0 .. Radix - 1]
  /\ pc = "compress" => k \in 1 .. Len(cuts) - 1
  /\ {shaMap[f] : f \in DOMAIN shaMap} = 0 .. chunkId - 1
  /\ Cardinality(DOMAIN shaMap) = chunkId

\* cdc cuts the bytes it is given into chunks that are not empty and not
\* longer than CHUNK_SIZE, and but for the last not shorter than MINSIZE,
\* whatever it reads behind them.
CutsCover ==
  pc = "compress" =>
    /\ cuts[1] = 0 /\ cuts[Len(cuts)] = sum
    /\ \A c \in 1 .. Len(cuts) - 1 :
         LET size == cuts[c + 1] - cuts[c] IN
         /\ size \in 1 .. ChunkSize
         /\ c < Len(cuts) - 1 => size >= MinSize

\* sha256_final pads as the standard asks.
StandardPadding ==
  \A c \in {log[n].chunk : n \in DOMAIN log} :
    LET joined[n \in 0 .. Len(Fingerprint(c))] ==
          IF n = 0 THEN <<>> ELSE joined[n - 1] \o Fingerprint(c)[n]
    IN joined[Len(Fingerprint(c))] = StandardPadded(c)

\* What is compressed is the file from its start.  It is all of the file if
\* its last block is short; otherwise some full blocks are lost at the end,
\* less than the buffer but one block can hold.
LosesOnlyFullBlocks ==
  pc = "closed" =>
    LET joined[n \in 0 .. Len(log)] ==
          IF n = 0 THEN <<>> ELSE joined[n - 1] \o log[n].chunk
        size == Len(joined[Len(log)])
    IN /\ joined[Len(log)] = SubSeq(file, 1, size)
       /\ Len(file) % BlockSize # 0 => size = Len(file)
       /\ (Len(file) - size) % BlockSize = 0
       /\ Len(file) - size < (NumPackets - 1) * BlockSize

\* How many of the first n records hold a chunk.
Packets(n) == Cardinality({m \in 1 .. n : archive[m].header % 2 = 0})

\* Each record stands for its chunk.  As long as the coder is within its
\* limits a packet has the codes of the reference encoding, 12 bits each; a
\* reference is the number of an earlier packet, of the same content.
ArchiveIsChunks ==
  /\ Len(log) = Len(archive)
  /\ \A n \in DOMAIN archive :
       LET record == archive[n] IN
       IF record.header % 2 = 1
       THEN \E m \in 1 .. n - 1 :
              /\ archive[m].header % 2 = 0 /\ Packets(m - 1) = record.header \div 2
              /\ log[m].chunk = log[n].chunk
       ELSE log[n].exceeded \/
            LET codes == (8 * Len(record.packet)) \div CodeBits IN
            /\ record.header \div 2 = Len(record.packet)
            /\ ReadCodes(record.packet, codes, CodeBits) = Golden(log[n].chunk)

-----------------------------------------------------------------------------
(* What the documentation says and the code does not do *)

\* "Steps 3 and 4 are repeated for all the packets": when the files are closed
\* all of the file has been compressed.
WholeFileCompressed ==
  pc = "closed" =>
    LET joined[n \in 0 .. Len(log)] ==
          IF n = 0 THEN <<>> ELSE joined[n - 1] \o log[n].chunk
    IN joined[Len(log)] = file
=============================================================================
