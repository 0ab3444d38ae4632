---------------------------- MODULE DedupArchive ----------------------------
(***************************************************************************)
(* From chunks to the archive and back: deduplication (dedup.cpp), the     *)
(* kernel's run on the batch (HostQueue), the records compression_pipeline *)
(* writes (host.cpp), and the decoder that reads the archive when the host *)
(* has ended (Decoder.cpp).                                                *)
(*                                                                         *)
(* A chunk is its content.  What its LZW codes are is left to the          *)
(* constants; that they decode to the content is the subject of LZW.       *)
(***************************************************************************)
EXTENDS HostQueue, BitPacking, FiniteSets

CONSTANTS
  Sha,         \* sha_256, a fingerprint for each content
  MaxChunks    \* bound on the chunks of a run

\* Fingerprints do not collide.  A chunk is not empty, so it has a code, of 13
\* bits, and two contents differ in their codes.
ASSUME DedupArchiveAssumption ==
  /\ \A c, d \in Chunks : Sha[c] = Sha[d] => c = d
  /\ \A c \in Chunks : Codes[c] \in Seq(0 .. 8191) \ {<<>>}
  /\ \A c, d \in Chunks : Codes[c] = Codes[d] => c = d
  /\ MaxBatch \in Nat /\ MaxChunks \in Nat
  /\ MayFail \subseteq {TRUE} /\ Nothing \notin Chunks

VARIABLES
  pc,         \* where compression_pipeline is; "closed" or "failed" in the end
  chunks,     \* the batch: the chunks between the boundaries of vect
  shaMap,     \* sha_chunk_id_map
  chunkId,    \* chunk_id of dedup
  dedupOut,   \* dedup_out
  ptr,        \* output_codes_ptr, as an offset
  finalData,  \* final_data
  archive,    \* the records in the file
  pos,        \* how many records the decoder has read
  table,      \* Chunks of the decoder
  output,     \* the chunks the decoder has written
  astray,     \* the decoder's next header is not where the file has one
  input,      \* history: all the chunks of all the batches
  log         \* history: what dedup was asked, the id it would give, its answer

dedupVars == <<shaMap, chunkId, dedupOut, log>>
recordVars == <<ptr, finalData, archive>>
encoderVars == <<pc, chunks, dedupVars, queueVars, recordVars, input>>
decoderVars == <<pos, table, output, astray>>
vars == <<encoderVars, decoderVars>>

New == -1   \* what dedup returns for a chunk it has not met

Init ==
  /\ QueueInit
  /\ pc = "receive"
  /\ chunks = <<>> /\ input = <<>>
  /\ shaMap = <<>> /\ chunkId = 0 /\ dedupOut = <<>> /\ log = <<>>
  /\ ptr = 0 /\ finalData = <<>> /\ archive = <<>>
  /\ pos = 0 /\ table = <<>> /\ output = <<>> /\ astray = FALSE

-----------------------------------------------------------------------------
(* Sizes.  Codes are packed 13 bits each; a record's header gives the bytes. *)

CodeBits == 13

\* packet_len, with its own way of rounding up
PacketLength(n) == (n * CodeBits) \div 8 + (IF n % 8 # 0 THEN 1 ELSE 0)

\* Decompress reads one code and then others until the byte it stands in is
\* the packet's last: the number of codes it reads.
ReadsOn(n, size) == (n * CodeBits) \div 8 < size - 1

CodesRead(size) ==
  CHOOSE n \in 1 .. size + 1 : /\ ~ReadsOn(n, size)
                               /\ \A m \in 1 .. n - 1 : ReadsOn(m, size)

\* Read_code takes a byte from the file when it begins one.
BytesRead(n) == (n * CodeBits + 7) \div 8

RawHeader(n) == 2 * PacketLength(n)
RefHeader(id) == 2 * id + 1

-----------------------------------------------------------------------------
(* The host *)

\* Mutants of StartBatch: output_codes_ptr is not set back, and the map of
\* dedup is not static.
StartBatchKeepingPtr(batch) ==
  /\ pc = "receive"
  /\ Len(input) + Len(batch) <= MaxChunks
  /\ chunks' = batch
  /\ input' = input \o batch
  /\ FillBuffers(batch)
  /\ dedupOut' = <<>>
  /\ finalData' = <<>>
  /\ pc' = "dedup"
  /\ UNCHANGED <<shaMap, chunkId, log, ptr, archive, decoderVars>>

StartBatchForgetting(batch) ==
  /\ pc = "receive"
  /\ Len(input) + Len(batch) <= MaxChunks
  /\ chunks' = batch
  /\ input' = input \o batch
  /\ FillBuffers(batch)
  /\ shaMap' = <<>> /\ chunkId' = 0
  /\ dedupOut' = <<>>
  /\ ptr' = 0 /\ finalData' = <<>>
  /\ pc' = "dedup"
  /\ UNCHANGED <<log, archive, decoderVars>>

\* A batch has been received; it is chunked and copied for the kernel.
StartBatch(batch) ==
  /\ pc = "receive"
  /\ Len(input) + Len(batch) <= MaxChunks
  /\ chunks' = batch
  /\ input' = input \o batch
  /\ FillBuffers(batch)
  /\ dedupOut' = <<>>
  /\ ptr' = 0 /\ finalData' = <<>>
  /\ pc' = "dedup"
  /\ UNCHANGED <<shaMap, chunkId, log, archive, decoderVars>>

\* Mutant of Dedup: an id is used up by every chunk.
DedupCountingAll ==
  LET c == chunks[Len(dedupOut) + 1]
      fingerprint == Sha[c]
      found == fingerprint \in DOMAIN shaMap
      out == IF found THEN shaMap[fingerprint] ELSE New
  IN
  /\ pc = "dedup" /\ Len(dedupOut) < Len(chunks)
  /\ shaMap' = IF found THEN shaMap
               ELSE [f \in DOMAIN shaMap \cup {fingerprint} |->
                       IF f = fingerprint THEN chunkId ELSE shaMap[f]]
  /\ chunkId' = chunkId + 1
  /\ dedupOut' = Append(dedupOut, out)
  /\ log' = Append(log, [chunk |-> c, id |-> chunkId, out |-> out])
  /\ pc' = IF Len(dedupOut) + 1 = Len(chunks) THEN "write" ELSE "dedup"
  /\ UNCHANGED <<chunks, queueVars, recordVars, input, decoderVars>>

\* sha_256 and dedup of the next chunk; after the last the kernel's run.
Dedup ==
  LET c == chunks[Len(dedupOut) + 1]
      fingerprint == Sha[c]
      found == fingerprint \in DOMAIN shaMap
      out == IF found THEN shaMap[fingerprint] ELSE New
  IN
  /\ pc = "dedup" /\ Len(dedupOut) < Len(chunks)
  /\ shaMap' = IF found THEN shaMap
               ELSE [f \in DOMAIN shaMap \cup {fingerprint} |->
                       IF f = fingerprint THEN chunkId ELSE shaMap[f]]
  /\ chunkId' = IF found THEN chunkId ELSE chunkId + 1
  /\ dedupOut' = Append(dedupOut, out)
  /\ log' = Append(log, [chunk |-> c, id |-> chunkId, out |-> out])
  /\ pc' = IF Len(dedupOut) + 1 = Len(chunks) THEN "write" ELSE "dedup"
  /\ UNCHANGED <<chunks, queueVars, recordVars, input, decoderVars>>

\* The command whose turn it is goes to the queue.
EnqueueNext ==
  /\ pc \in {"write", "task", "read"}
  /\ Enqueue(pc)
  /\ pc' = CASE pc = "write" -> "task" [] pc = "task" -> "read" [] pc = "read" -> "wait"
  /\ UNCHANGED <<chunks, dedupVars, recordVars, input, decoderVars>>

DeviceStep ==
  /\ Device
  /\ UNCHANGED <<pc, chunks, dedupVars, recordVars, input, decoderVars>>

\* clWaitForEvents on done_event
Waited == "read" \in complete

\* "FAILED TO INSERT INTO ASSOC MEM": the host exits, the batch unwritten.
EndWait ==
  /\ pc = "wait" /\ Waited
  /\ pc' = IF host.lengths[0] % 2 = 1 THEN "failed" ELSE "records"
  /\ UNCHANGED <<chunks, dedupVars, queueVars, recordVars, input, decoderVars>>

RawRecord(n, codes) ==
  [header |-> RawHeader(n), packet |-> CreatePacket(Cases13, codes, PacketLength(n))]

RefRecord(id) == [header |-> RefHeader(id), packet |-> <<>>]

\* One round of the loop that fills final_data.
MakeRecord ==
  LET k == Len(finalData) + 1
      n == host.lengths[k]
      raw == RawRecord(n, SubSeq(host.codes, ptr + 1, ptr + n))
  IN
  /\ pc = "records" /\ k < host.indices[1]
  /\ finalData' = Append(finalData, IF dedupOut[k] = New THEN raw
                                    ELSE RefRecord(dedupOut[k]))
  /\ ptr' = ptr + n
  /\ pc' = IF k + 1 = host.indices[1] THEN "file" ELSE "records"
  /\ UNCHANGED <<chunks, dedupVars, queueVars, archive, input, decoderVars>>

\* The fwrites of the batch's records.
WriteRecords ==
  /\ pc = "file"
  /\ archive' = archive \o finalData
  /\ pc' = "receive"
  /\ UNCHANGED <<chunks, dedupVars, queueVars, ptr, finalData, input, decoderVars>>

CloseArchive ==
  /\ pc = "receive"
  /\ pc' = "closed"
  /\ UNCHANGED <<chunks, dedupVars, queueVars, recordVars, input, decoderVars>>

Batches == UNION {[1 .. n -> Chunks] : n \in 1 .. MaxBatch}

Encoder ==
  \/ \E batch \in Batches : StartBatch(batch)
  \/ Dedup \/ EnqueueNext \/ DeviceStep \/ EndWait
  \/ MakeRecord \/ WriteRecords \/ CloseArchive

-----------------------------------------------------------------------------
(* The decoder *)

EncoderEnded == pc \in {"closed", "failed"}

Record == archive[pos + 1]

\* An even header: a packet of so many bytes, whose codes are a new chunk.
\* The next header is read where the last code has ended.
DecodeRaw ==
  /\ EncoderEnded /\ pos < Len(archive) /\ ~astray
  /\ Record.header % 2 = 0
  /\ LET n == CodesRead(Record.header \div 2)
         chunk == ReadCodes(Record.packet, n, CodeBits)
     IN
       /\ table' = Append(table, chunk)
       /\ output' = Append(output, chunk)
       /\ astray' = (BytesRead(n) # Len(Record.packet))
  /\ pos' = pos + 1
  /\ UNCHANGED encoderVars

\* An odd header: a chunk met before; a location not in the table is ignored.
DecodeReference ==
  /\ EncoderEnded /\ pos < Len(archive) /\ ~astray
  /\ Record.header % 2 = 1
  /\ LET location == Record.header \div 2 IN
       output' = IF location < Len(table) THEN Append(output, table[location + 1])
                                          ELSE output
  /\ pos' = pos + 1
  /\ UNCHANGED <<encoderVars, table, astray>>

Decoder == DecodeRaw \/ DecodeReference

\* Both programs have ended.
Finished == EncoderEnded /\ (pos = Len(archive) \/ astray) /\ UNCHANGED vars

Next == Encoder \/ Decoder \/ Finished

Spec == Init /\ [][Next]_vars

-----------------------------------------------------------------------------
(* Properties *)

\* The variables stay in their ranges: commands and their events are exclusive,
\* and no sequence outgrows its batch.
TypeOK ==
  /\ pc \in {"receive", "dedup", "write", "task", "read", "wait", "records",
             "file", "closed", "failed"}
  /\ chunks \in Seq(Chunks) /\ input \in Seq(Chunks)
  /\ chunkId \in Nat
  /\ \A f \in DOMAIN shaMap : shaMap[f] \in 0 .. chunkId - 1
  /\ dedupOut \in Seq({New} \cup Nat) /\ Len(dedupOut) <= Len(chunks)
  /\ queue \cup complete \subseteq {"write", "task", "read"}
  /\ queue \cap complete = {}
  /\ kernel.busy => "task" \in queue
  /\ kernel.done <= MaxBatch
  /\ ptr \in 0 .. Len(host.codes)
  /\ Len(finalData) <= Len(chunks)
  /\ pos \in 0 .. Len(archive)

\* When the host makes records its copies hold this batch's results, nothing of
\* an earlier batch's, and the device is at rest: at output_codes_ptr are the
\* codes of the chunk whose turn it is, as many as the kernel has reported.
OwnResults ==
  /\ pc \in {"records", "file"} => queue = {} /\ ~kernel.busy
  /\ pc = "records" =>
       LET k == Len(finalData) + 1
           n == host.lengths[k]
       IN /\ k <= Len(chunks) /\ n = Len(Codes[chunks[k]])
          /\ ptr + n <= Len(host.codes)
          /\ SubSeq(host.codes, ptr + 1, ptr + n) = Codes[chunks[k]]

\* The decoder's n-th chunk is the n-th chunk that went into the pipeline, and
\* no record is ignored or misread, even when the kernel's failure cut the
\* archive short.
DecodesInput ==
  /\ ~astray
  /\ Len(output) = pos
  /\ \A k \in 1 .. Len(output) : output[k] = Codes[input[k]]

\* The ids dedup has given are the positions the decoder finds the chunks at.
SameNumbering ==
  \A c \in Chunks :
    Sha[c] \in DOMAIN shaMap /\ shaMap[Sha[c]] < Len(table)
      => table[shaMap[Sha[c]] + 1] = Codes[c]

\* The archive is at all times a record for each of the first chunks of the
\* input, and has the codes of each content among them once.  That is so after
\* a failure of the kernel, too, where dedup knows chunks that are not in the
\* archive.  A closed archive has a record for every chunk.
StoredOnce ==
  /\ Len(archive) <= Len(input)
  /\ pc = "closed" => Len(archive) = Len(input)
  /\ Cardinality({k \in DOMAIN archive : archive[k].header % 2 = 0})
       = Cardinality({input[k] : k \in DOMAIN archive})
=============================================================================
