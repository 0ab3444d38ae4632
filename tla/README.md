# Verification of the data compression pipeline

This directory holds TLA+ specifications of the deduplicating compression
pipeline in `src/ese532_project-main/project`, the TLC configurations that
check them on small instances, and TLAPS proofs of the properties that hold for
every value of their parameters.

## 1. The system

A client sends a file in UDP packets to a host on an FPGA board. The host
gathers packets in a buffer, cuts the buffer into chunks where its content says
so, hashes every chunk and looks the hash up in a map of the chunks met before,
has the FPGA kernel compress all chunks with LZW, and writes a record for each
chunk: packed LZW codes for a new one, a reference for a known one. A decoder
turns the archive back into the file.

### Inventory

| Component | Source (under `project/`) | State | Operations | Hard behaviour | What makes it correct |
|---|---|---|---|---|---|
| Client | `Client/client.cpp` | file buffer, packet counter | send blocks, then the last block or the remainder with the done bit | files of no block, of whole blocks, with a remainder | the packets' payloads are the file, the last one and no other has the done bit |
| Socket | `Server/server.cpp` | datagrams under way, receive buffers | `get_packet` | loss, repetition, reordering, a failing `recvfrom` | an error does not become data |
| Receive loop | `Encoder/host.cpp` `main` | `input[]`, `writer`, `length_sum`, `pipeline_buffer`, `done` | receive, decode, copy, hand over, reset | slot and length bookkeeping, the end of the stream | the pipeline is given the bytes received, all of them, in order |
| Two-threaded host | `Encoder/thread_host.cpp` | mutex `m`, `cv`, `ready`, `processed`, `done_flag`, `collected_data` | hand over, wait, compress, notify, end | every interleaving of two threads, spurious and lost wakeups | no race, no torn batch, no batch lost or repeated, termination |
| Chunking | `Encoder/fast_cdc.cpp` | rolling hash, position, last boundary | scan, cut, finish | ends, minimum and maximum, wrap-around of the hash | chunks cover the buffer, respect the bounds and depend on content only |
| SHA-256 | `Encoder/sha.cpp`, `Encoder/sha256/` | digest state | update, final | padding | a function of the chunk, injective for practical purposes |
| Deduplication | `Encoder/dedup.cpp` | static map and counter | look up or insert | the map outlives a batch | ids are the decoder's positions |
| LZW kernel | `Encoder/lzw_vitis.cpp` | hash table, associative memory, streams | look up, insert, emit | full buckets, full memory, code width | the table is a dictionary; the codes decode to the chunk |
| Pipeline | `Encoder/host.cpp` `compression_pipeline` | kernel buffers, `final_data`, the file | chunk, deduplicate, run the kernel, make records, write | pointers into the kernel's output, a kernel failure half-way | a record for each chunk that decodes to it |
| Bit packing | `Encoder/host.cpp` `create_packet` | accumulator of bits | eight phases of shifts | rounding of the length | the decoder reads the codes back |
| OpenCL driving | `Encoder/host.cpp`, `thread_host.cpp` | out-of-order command queue, events | migrate, task, read back | order by events only | the host reads the output of this batch |
| Decoder | `Decoder/Decoder.cpp` | chunk list, code table, bit position | raw record, reference | the number of codes is inferred | its output is the input |
| CPU pipeline | `Encoder/main.cpp`, `Encoder/lzw.cpp`, `Encoder/cdc.cpp` | as the host, from a file | read, compress | end of the file, 12-bit codes | as the host |
| Receiver example | `Server/encoder.cpp` | ring of buffers | receive, write | ring and file bounds | writes what it receives |
| Test bench | `Encoder/Testbench.cpp` | pointer into the codes, `fail_stat` | code a piece, compare chunk by chunk | the pointer and the lengths of many pieces | it fails for the kernel's faults only |
| Utilities, timers, prototypes, report copies | `Encoder/Utilities.*`, `Encoder/EventTimer.h`, `Server/stopwatch.h`, `Temp_Files/`, `../latex/Code-Files/` | | | | not part of the data path |

The components are connected in a line: client, socket, receive loop, pipeline,
archive, decoder. The receive loop calls the pipeline with the batch
(`host.cpp`), or hands the batch to a thread through shared memory
(`thread_host.cpp`). The pipeline shares the map of `dedup` over all batches
with the decoder's chunk list, by an order both must keep.

## 2. Modules

| Module | Models | Depends on |
|---|---|---|
| `Packet` | the two-byte header: `Header` is the client's, `DoneField` and `LengthField` the host's | |
| `Transfer` | client, network and receive loop | `Packet` |
| `Receiver` | the example receiver, beside the host on the same datagrams | `Transfer` |
| `MCTransfer`, `MCReceiver` | file sizes | |
| `TransferProofs` | theorems about `Packet`, `Transfer` and `Receiver` | |
| `Handoff` | abstract specification: a lossy register between a producer and a consumer | |
| `ThreadHost` | the two threads of `thread_host.cpp` | refines `Handoff` |
| `ThreadHostProofs` | theorems about `ThreadHost` | |
| `FastCDC` | `fast_cdc` | |
| `MCFastCDC` | gear words and buffers for `FastCDC` | |
| `FastCDCProofs` | theorems about `FastCDC` | |
| `BitPacking` | `create_packet` of both pipelines, `Read_code` | |
| `CodingProofs` | theorems about `BitPacking`, and what the kernel's and the software coder's proofs have in common: `GoldenLZW` beside a coder with keys | |
| `HostQueue` | the OpenCL queue and buffers, and the kernel around `compute_lzw` | |
| `DedupArchive` | `dedup`, the records of `compression_pipeline`, the decoder | `HostQueue`, `BitPacking` |
| `MCDedupArchive` | chunks, fingerprints and codes for `DedupArchive` | |
| `DedupArchiveProofs` | theorems about `HostQueue`, the records of `DedupArchive`, the archive and the decoder | `CodingProofs` |
| `LZWEncoder` | abstract specification: `compute_lzw` with a dictionary in the place of its memories | |
| `LZW` | the coder followed by `Decompress` | `LZWEncoder` |
| `MCLZW` | chunks for `LZW` | |
| `LZWProofs` | theorems about `LZW` | |
| `GoldenLZW` | the test bench's reference encoding | |
| `LZWKernel` | `compute_lzw` with its hash table and associative memory | `GoldenLZW`, refines `LZWEncoder` |
| `TestBench` | the test bench around the kernel | `LZWKernel` |
| `MCTestBench` | pieces and a hash for `TestBench` | |
| `LZWKernelProofs` | theorems about `LZWKernel`, the refinement among them, and `TestBench` | `CodingProofs` |
| `Cdc` | `cdc`, the older chunking | |
| `Sha256` | the blocks and the padding of SHA-256 | |
| `SoftwareLZW` | `lzw` of the CPU pipeline | `GoldenLZW` |
| `CpuPipeline` | `main.cpp`: from a file to an archive | `Cdc`, `Sha256`, `SoftwareLZW`, `BitPacking` |
| `MCCpuPipeline` | files and a hash for `CpuPipeline` | |
| `CpuPipelineProofs` | theorems about `CpuPipeline`, `Cdc`, `Sha256` and `SoftwareLZW` | `CodingProofs` |

### Transfer

A byte is its position in the file; two more values stand for a byte past the
client's buffer (`Junk`) and one `calloc` cleared (`Zero`). `Radix` is the
number of values of a byte in the header, 256 in the code and 4 in the models,
so that a payload of a few bytes needs the header's high byte. The client's
`for` loop and its three endings are four actions. `Receive` is a whole round of
the host's loop: `recvfrom` into `input[writer]`, decoding, the copy to the slot
of the pipeline buffer, the test, and the call of `compression_pipeline`, which
here appends the first `length_sum` bytes of the buffer to the history variable
`written`. `ReceiveError` is the same round when `recvfrom` fails: `get_packet`
prints and returns, and the loop decodes whatever the buffer held. The network
(`Lose`, `Duplicate`, `Reorder`) is external. A datagram that is longer than the
host's buffer is excluded (`ClientBlock` at most `BlockSize`).

`Receiver` is the example the hosts were begun from (`Server/encoder.cpp`): a
ring of eight buffers that is entered at slot 4, and one large file in memory.
`BothReceive` gives the same datagram to the host and to the receiver, so that
`SameBytes` can compare what two programs with different bookkeeping make of one
network. `recvfrom` does not fail here, because the receiver's buffers are
uninitialised.

### ThreadHost

One action for each access to shared state: taking the mutex, `ready`,
`thread_length_sum`, `collected_data`, the wait with its predicate, `processed`,
`done_flag` and the notifications, which both threads send without holding the
mutex. `cv.wait` evaluates its predicate with the mutex held and then either
goes on or gives the mutex up and sleeps, in one step; a sleeper needs to be
notified, or wakes up spuriously, and takes the mutex again. A batch is a
number. `collected` and `lengthOf` are separate, as are the two reads the worker
makes of the buffer (`hostInput` for the kernel's copy, `chunked` for chunking
and hashing), so that a torn batch would show. Either thread of the process may
stop it by `exit` (`aborted`).

`Handoff` says what the threads promise: a register that the producer
overwrites and the consumer compresses any number of times, never going back,
and whose first value is not lost. It is weaker than a queue, because
`processed` and `ready` are never reset.

### FastCDC

One action for each branch of the loop. `Word` is the number of values of an
`unsigned int`, so that the hash wraps around; `Masked` is the test against
`chunk_size * 2 - 1` for a power of two. The constants satisfy `MINSIZE <
chunk_size`: with a smaller `-c` the equality test of the hard cut is never met.
`BufferBound` is the largest batch whose boundaries surely fit the kernel's
buffer of `MAX_LZW_CHUNKS` words: 18449 bytes for the code's values, and a batch
has at most 16384.

### HostQueue, BitPacking and DedupArchive

A chunk is its content; a constant gives the LZW codes of each. The pipeline is
split at its loops and at its calls of OpenCL. `StartBatch` receives and chunks
a batch and fills the mapped buffers (`FillBuffers`); `Dedup` is a round of the
first loop; `EnqueueNext` puts the three commands into the queue; `EndWait` waits
for the last event and looks at the kernel's failure; `MakeRecord` is a round of
the second loop with its pointer into the kernel's output; `WriteRecords` is the
`fwrite`s.

The command queue executes out of order. `HostQueue` has the host's and the
device's copy of every buffer, and a command may run when the events in its wait
list are complete (`WaitList`); nothing else orders the commands. The buffers are
never cleared, so that a command run too early would find an earlier batch. The
kernel reads the whole input buffer into its stream (`LoadData`), codes the
chunks that the indices name and drains the rest (`StoreData`). A chunk is one
cell of the buffer. `ComputeChunk` may fail for want of room, which stays in
`generic_info` and makes the host exit after `dedup` has entered the batch's
chunks in its map.

Records are made of bytes. `BitPacking` has the eight cases of shifts and masks of
`create_packet` as a table (`Cases13`, one line a case; `main.cpp`'s two cases
are `Cases12`), and `Read_code` bit by bit. The packet's length is the code's own
rounding (`PacketLength`); the decoder, which is not told how many codes there
are, reads until it stands in the packet's last byte (`CodesRead`), and takes the
next header from where the last code ended (`astray` if that is not where the next
record begins). `common.h` defines `CODE_LENGTH` as 12; `host.cpp` packs 13 bits
and uses the constant only as a mark for a fresh byte, so the cases are right
nevertheless.

### LZWEncoder and LZW

`LZWEncoder` is what the kernel promises for a chunk. Its dictionary `dict` maps
a key, the code of a word and the next byte, to the code of the longer word; the
kernel packs the key into 21 bits and spreads the entries over hash buckets and
an associative memory (`LZWKernel`). Where those are full the entry is lost and `failure` is
set, which here may happen to any entry (`Miss`); its code is used up either
way. `Hit`, `Miss` and `Flush` are the branches of LOOP3 and what follows it,
`NextChunk` the next call.

`LZW` adds `Decompress`, one action for its start and one for a round of its
loop. Its table is filled one entry behind the coder's dictionary, so a code may
come that the table does not have yet (`Symbols`). `table`, `old`, `symbol` and
`output` keep what the last chunk left until they are cleared, as the static
`Code_table` does. The history variable `starts` records where each word begins;
with it `Word(v)` says what a code stands for, without reference to either
table. Codes have 13 bits in the archive. `TypeOK` bounds them by
`Radix + Len(chunk) - 2`, which is 4350 for the largest chunk of the default size
(4096 bytes, `ChunkSizes`), so 13 bits are enough and 12 would not be.

### LZWKernel and TestBench

`LZWKernel` is `compute_lzw` as it stands. The hash table has `Ways` slots a
bucket, filled in their order, and is searched slot by slot. The associative
memory has three key memories, one for each segment of a key; a word of 64 bits
is the set of its one-bits, a lookup intersects three of them, and `Address` is
the code's chain of six conditional shifts, which finds the lowest bit. Keys and
values are masked to their widths. `my_hash` is any function of the key, so that
everything that may collide does. `value` keeps what an earlier chunk left, the
other memories are cleared.

The refinement to `LZWEncoder` maps the dictionary to all pairs of code and byte
that a lookup finds (`Dict`). `MatchesGolden` compares the codes with the test
bench's `encoding`, whose dictionary is keyed by words.

`TestBench` is `Testbench.cpp` around the kernel: pieces of a file, the lengths
and codes of their chunks, the comparison with its moving pointer, and its exits.

### CpuPipeline

`main.cpp` does everything in software and from a file. `ReadBlock` and
`ReadAndChunk` are the two outcomes of its reading loop, `CompressKnown` and
`CompressNew` a round of its pipeline for a chunk that `dedup` knows or does not.
Nothing is abstracted but the transformation of a block by SHA-256: `Cdc` has the
rolling hash and its reads behind the bytes it chunks (what is behind the buffer
is any value), `Sha256` the blocks and the padding, `SoftwareLZW` the memories.

The models follow the code where it differs from the kernel's way, and the
properties are stated with the limits that follow (`WithinLimits`):

- `lzw.cpp:339` enters a code under the key of a byte and a zero byte before the first
  byte is read. A zero byte behind a word of one byte is then found, with that byte's
  own code, and is lost. The reference codes are only met by chunks without a
  zero byte behind the first.
- `lzw.cpp:176` shifts an `int`: from the 33rd entry of the associative memory
  on the bit is undefined. The model leaves it open (`Undefined`). A lookup that meets
  none of its 32 bits goes on to shift `match` by 32 and more (`lzw.cpp:209`), which is
  undefined as well; `match` is 0 by then, every processor's shift of 0 is 0, and
  the model has a miss. What a compiler might do with the undefined shift instead is
  an assumption of the model.
- `lzw.cpp:125` keeps 12 bits of a code. A chunk of 4096 bytes may need 13.
- a word that finds no place is kept as the prefix, and the pipeline exits.
- the archive has codes of 12 bits; `Decoder.cpp` reads 13, so it is not the
  decoder of this archive. `ArchiveIsChunks` reads the packets with their own width.
- a file whose last block is full is not followed by a short read that would
  hand the buffer over: full blocks at the end are lost (`LosesOnlyFullBlocks`
  says which, and that nothing else is).
- the hash of `cdc.cpp` goes on by a formula that does not remove the byte that leaves
  the window, and the hash is not moved along when `MINSIZE` bytes are skipped. It is
  modelled as it is; `CutsCover` does not depend on it.

## 3. Runs

All runs take seconds, but for `LZW` (a quarter of a minute) and `LZWKernel` (about a
minute).

| Run | Shows |
|---|---|
| `Transfer_faulty` | under loss, repetition and reordering the bookkeeping keeps what arrived, in full batches, and agrees with the example receiver; without faults the pipeline sees the file but for the stranded tail and a short file's block too many; only a loss leaves the host waiting |
| `Transfer_small_blocks` | with a client block smaller than the host's every packet is a batch of its own; lost, repeated and reordered packets and failed receives leave the writer in range, and the host stops unless a packet was lost |
| `ThreadHost` | no race, whole batches, the lossy register, the order at the end, what a hang needs, termination for two batches or more |
| `FastCDC` | all properties of the chunker, over all batches of two byte values up to length 11 |
| `DedupArchive` | the host reads this batch's results; round trip bit for bit, numbering, single storage in what is in the archive, over all runs of up to five chunks in batches of up to three, with and without a failure of the kernel |
| `LZW` | coder and decoder over every two chunks of up to six bytes of two values, with any entries dropped: the chunk comes back, and no two codes in use stand for one word |
| `LZWKernel` | the kernel in its test bench: refinement of `LZWEncoder`, reference codes, capacity, and a bench that finds no fault |
| `CpuPipeline` | chunking, padding, what of a file is lost, and the archive's content, over short files of all shapes and longer ones that repeat |

Bounds. Five blocks exceed two rounds of the pipeline buffer (`NumPackets` is 2) and leave every remainder; files
shorter than a block and the empty file are among them. A payload of five bytes
crosses the byte boundary of the header with `Radix` 4. Two faults suffice to repeat or lose
both packets of a batch. The receiver's ring of three, entered at its second
slot, is gone round twice. Four batches let main overwrite a batch after
it has waited for a stale `processed`, which the third is the first to do. In
`FastCDC`, minimum 1 and maximum 4 give chunks of every admissible size and up to
six boundaries within 11 bytes, and the bound on the buffer is tight:
`MaxSlots` cannot be 7. In `DedupArchive` the codes have their real width; a
content has one, eight or nine of them, of which eight begin at each of the eight
places in a byte and fill their bytes, and nine go on behind them; five chunks
give references within a batch and across two, and a batch shorter than the one
before it. In `LZW`, a run of three equal bytes makes the coder use a
code in the step after it was entered; six bytes of two values do so twice, give
words of three bytes, and let any subset of up to five entries be dropped. Two
chunks show what is carried over from one to the next. In `LZWKernel` a bucket
has one slot and the associative memory two, of which both overflow within six
bytes, in a bucket that gets two keys of three; pieces follow one another
without end. In `CpuPipeline` the buffer holds four blocks of two bytes, so that
files of up to seventeen bytes fill it twice; three byte values include zero, the
associative memory of three has one entry more than its `int` has bits, and
codes overflow their width; `ArchiveIsChunks` is stated within these limits.

Fairness. `Transfer`: the client never blocks, and the host receives a datagram
that is there; nothing is assumed of the network. `ThreadHost`: a thread that
can run runs (weak fairness of each thread), and a thread that finds the mutex
free again and again gets it at last (strong fairness of the lock steps). The
second is an assumption on the scheduler, not a promise of `std::mutex`: the
worker gives the mutex up and takes it again at once. Spurious wakeups happen
but nothing relies on them. Deadlock is checked except in `Transfer_faulty` and
`Transfer_small_blocks` (a lost last packet leaves the host in `recvfrom`; `HostStops`
and `WaitsOnlyForLost` say that nothing else does) and `ThreadHost` (with fewer
than two batches the threads may be left waiting; `HangsOnlyWithoutSecondBatch`
says that nothing else leaves them so). The other modules state safety only: their
loops end by their indices.

### Disagreements between code and documentation

Each is a run that TLC finds violated.

| Run | What the code does | What is said of it |
|---|---|---|
| `Transfer_tail` | `done == 1` is never true (`host.cpp:536`): `done` is 0 or 128. A file that ends in an odd number of full blocks loses the last one | `single_arm_proc.tex:19`: the steps are repeated for all packets |
| `CpuPipeline_tail` | a file whose last block is full ends with a read of length 0, for which nothing is handed over (`main.cpp:294`): up to 14 full blocks that wait in the buffer are never compressed | `single_arm_proc.tex:19`: the steps are repeated for all packets, and in the end there is the final file |
| `ThreadHost_once` | `processed` and `ready` are never reset (`thread_host.cpp:483`, `:182`): batches are overwritten before the worker has seen them, and the last one is compressed again and again | `thread_host.cpp:459`: the pipeline is called once the buffer is full; `:479`, `:486`: wait for the worker, then send |
| `ThreadHost_one_batch` | `done_flag` may be set before the worker looks at its only batch (`thread_host.cpp:514`); main then waits forever | `thread_host.cpp:511`: "Wait for the workder." |

Three more are no runs of their own:

- a file shorter than a block. The client's comments know "the last chunk"
  (`client.cpp:149`, `:167`), but where there is no full block it sends one nevertheless,
  read past its `malloc`'d buffer: before the remainder (`:171`), or with the done bit if
  the file is empty (`:153`). `WrittenWhenDone` says exactly what is sent then (`Sent`);
- the coder of `main.cpp` and zero bytes. `lzw.cpp:339` says "init the memories with the
  first 256 codes", but the keys entered are those of words of two bytes, and
  `validation_and_real_time.tex:76` reports that fault of the kernel, where it was mended;
- its associative memory. `lzw.cpp:155` says 64 pairs can be stored, of which
  `1 << fill` gives 32 a bit; `validation_and_real_time.tex:80` reports the same of the kernel.

For the last two `ArchiveIsChunks` says that the codes are right as long as a chunk has
no zero byte behind its first and the memory no more entries than an `int` has bits.

A failed `recvfrom` is no such disagreement, but worth knowing: `get_packet`
prints "crash" and returns, and the loop handles the old content of the buffer as
a packet (`ReceiveError`). `ReceivedStream` holds only where that is excluded.

The report says that threads were tried and given up
(`final_ultra96_mapped_design.tex:130`).

## 4. Proofs

The theorems hold for all values of the constants that satisfy the named
assumptions of the modules; every assumption is also evaluated by a run.

Many operators are recursive functions over a sequence or a count of rounds. The
library's induction theorems take an operator as a parameter, which the provers cannot
instantiate; induction is done with a set in its place (`NumbersInSet`: a set of
numbers that has 0 and with each number the next one has them all, from the
well-foundedness of the order). A recursive function is a `CHOOSE`, so each of them
comes with a lemma that there is such a function (`RoundsExist`, `UpdateStatesExist`
and their like), extending one for `n` rounds to one for `n + 1`.

`TransferProofs`. `HeaderRoundTrip` is the arithmetic core: for every even radix
and every length below half the square of the radix, the host decodes the length and
the done bit the client encoded. `TypeCorrect` needs it to know that a datagram's
header carries the length of its payload. The theorem on the received stream has
an inductive invariant with two parts the property does not state: while the
host is in its loop, the bytes gathered fill whole slots (`lengthSum = writer *
BlockSize`), because a shorter packet hands the buffer over; and the buffer's
first `lengthSum` bytes are what arrived since. The theorem assumes that
`recvfrom` does not fail; loss, repetition and reordering are unrestricted.
`OnlyLossStopsTheHost` goes through the steps that could leave the client gone, the
done flag down and no datagram with the done bit under way: the client's last step sends
one, a repetition or an overtaking keeps those there are, and the receive that
takes one sets the flag, which again rests on the header's round trip.
`PipelineGetsFile` needs what the client, the network and the host have in common
where there are no faults (`InOrder`): the datagrams under way are those between the
host's and the client's positions in what is sent (`SentByte`: the file, with a block
before it if it is shorter than a block), the bytes received are those up to
the host's, and the slot is the number of datagrams taken modulo `NumPackets`, or 0
if packets are flushed one by one. With the invariant of the received stream this gives
`WrittenWhenDone`, the stranded tail included.

`ReceiversAgree`: every step of the two programs together is a step of the host's
specification or a stutter, so that the invariants of `Transfer` carry over; beside
them it is enough that the ring holds buffers as `recvfrom` leaves them, and that
the receiver's file is what was received.

`ThreadHostProofs`. The invariant ties the program counters to the mutex (a
thread in its critical section holds it), the flags to the progress (`processed`
implies that the first batch is written, `ready` that one is collected), and the
worker's copies to the buffer while it holds the mutex. Mutual exclusion gives
`NoDataRace`, the copies give `WholeBatch`, and the rest gives the refinement:
each step is a `Put`, a `Take` or a stutter of `Handoff`. A second invariant
about where each thread can be before `processed` shows which runs can hang.

`FastCDCProofs`. The invariant says that between boundaries the position is at most
`ChunkSize` past the last one, and past a boundary by the skip, so that the test
for equality in the code cannot be stepped over; that the boundaries are
`MinSize + 1` apart; and from it, that the k-th boundary is at least at
`MinSize + (k - 2) * (MinSize + 1)`, which bounds their number. `SameContentSameCut`
compares two stretches of one batch; what it needs is that the hash at a position is
a function of the bytes since the last boundary and of nothing else (the skip clears
it), so that the scans of equal bytes are in equal states until one of them cuts,
and then the other does.

`LZWProofs`. The invariant has four parts. `Adjacent`: the words written are
adjacent pieces of the chunk, and the code given out with the k-th of them is
`Radix + k - 1`. `Dictionary`: an entry's code stands for the key's word and the
key's byte. `Written`: the k-th code was given out before it was written, and
stands for the k-th piece. `Decoded`: the decoder's table agrees with `Word` on
all codes but the last one given out. The case that code is met in is the heart of
the proof: its word begins where the previous word began and also where the next
one begins, so both begin with the same byte, the one the decoder appends.
Nothing is assumed of the dictionary but that what is in it was entered, so the
theorem holds for a coder that loses entries, and for chunks of any length.
`OneCodeForAWord` is the converse for the codes in use (`NamedCodes`, the bytes and the
entries that have found a place): no two of them stand for one word, also where
entries were dropped. The prefix of a key and the prefix the coder holds are in use
themselves (`InUse`), so that two entries of one word have keys whose prefixes stand
for one shorter word, by induction the same code, and a key is entered once. A
dropped entry's code is not in use; its word is given another when it comes again.

`LZWKernelProofs`. The arithmetic says that a code below `CodeSpace` and a byte make a
key no other pair makes, that a key is determined by its three segments, and that the
six shifts find the lowest bit of a word of 64. The invariant (`IInv`) has four parts:
`Types`, with the codes below their width because a chunk is short enough;
`Entries`, that a key has at most one entry in each memory and that what is stored was
given out; `Bits`, that an entry of the
associative memory has its bit in exactly one word of each key memory, so that a
match is a single bit; and `Capacity`, that each code given out has led to at most one entry, so
that memories which refuse one are full. Then an insertion changes what a lookup finds for its own
key only (`InsertLookups`), whatever collides, which is what makes
`Dict` change as `LZWEncoder` says (`ExtendedDict`). With `DecodesChunkHolds`, which
allows any dropped entry, this means that what the kernel codes is decoded, for
every hash function and all sizes of the memories.
`MatchesGolden` needs a second invariant, between the kernel and the rounds of
the test bench's `encoding`: a kernel that has not failed has an entry for a key
exactly where the reference dictionary has the word that key stands for, with the same
code (`Agrees` of `CodingProofs`). Then the two take the same branch at each byte. `OnlyFailsForRoom` adds where `Testbench.cpp` stands: what
the kernel wrote for the chunks of the piece, one behind the other, is what the
comparison's pointer has passed and what lies ahead of it.

`DedupArchiveProofs`. What makes `OwnResults` hold is spread over three loops and a
queue without an order, so its invariant has four parts. `TypeOK` and `Typed` are
the types. `Orders`: which commands are in the queue or complete follows from where
the host stands, and a later command of a batch is complete only if the
earlier ones are. `Contents`: a buffer's copies are this batch's from the command that
transfers them on; in particular the codes of the new chunks stand in the
kernel's output one behind the other, at the sums of the lengths before them, which is
where `output_codes_ptr` is when the record loop comes to them. Nothing is assumed of
the buffers' old contents, the number of batches, the chunks or their codes (but that
there are between one and 8191 of them).

For the archive there is the invariant `History`. The log of dedup determines its map: ids go up
from 0 by one (`Numbered`), and an entry is new exactly where its content comes first.
The records in the archive are the first entries of the log, each a packet of its own
codes or its id, which gives `EachContentOnce`: the log's first entries, as many as the archive has
records, have as many new ones as contents, also where a failure of the kernel leaves
the log ahead of the archive. The decoder stands at a record's beginning
between its steps, its output is the codes of the entries before it, and its list
has as many entries as the counter of dedup had there, each at its id (`DecodedTo`).
`CodesCount` is the arithmetic of the inferred number of codes: for every number
`n` of codes, reading until the packet's last byte reads exactly `n` and stops at the
packet's end. That the bits so read are the codes is in `CodingProofs`. So
`DecodesInput` and `SameNumbering` hold for all chunks, codes and batches.

`CodingProofs`. The table of cases is used through four facts (`CutFor`): the
parts of a case cut a code of the width from its highest bits down, the first of them
fills the bits that are left or a byte, the others begin bytes, and what the last one
leaves free is the next case's number. Each line of the two tables has them. A
round of `create_packet` then puts the parts of its code at the place where the
bits so far end (`PutStep`), and later rounds leave them alone, because a
byte is only ever added to below the bits it has (`Keeps`, `StandsOn`). `Read_code`
takes bits one by one; as many of them as a part has make that part (`ReadBits`), and
the parts from the highest down make the quotients of the code by powers of two,
the last of which is the code (`ReadPart`, `ReadHeld`). The second part of the module is
about the reference encoding: its table of words and a dictionary of codes and bytes
have the same entries (`SameEntries`) after a hit, a miss and the end of the input if they
had before (`Agrees`), because the prefix's word and its code determine each other.

`CpuPipelineProofs`. For `CutsCover` the scan of `cdc` is followed round by round: each
boundary is between the least and the greatest size from the one before (`Spaced`),
whatever the hash is and whatever is read behind the buffer. The invariant of
the pipeline has four parts: `Types`; `Ids`, that the ids in the map are the numbers
below the counter, each once; `Buffered`, that the buffer's first `sum` bytes
are the last ones read of the file and the chunks of the log are the file before them;
and `Blocks`, that while nothing has failed, `sum` is the blocks written and all
blocks but a file's last are full, which is what bounds the loss of
`LosesOnlyFullBlocks`. `StandardPadding` goes through `sha256_update` byte by byte with
the invariant that the blocks given to the transform and the bytes in the context's buffer
are the message so far (`Context`), and through the two ways of `sha256_final`, with one
block or two. In both, the zeros fill up to the length field, and there is only one
number of zeros below a block that does (`OneNumberOfZeros`). The assumptions are
that there are values of a byte and that the sizes are numbers.

`ArchiveIsChunks` brings three results together. `FingerprintsDiffer`: of two padded
chunks with the same blocks the shorter one's mark would be followed by zeros up to the
length, and the longer one's mark would be one of them; so they are the same. `LzwGolden`:
memories that are `Sound` (a key is in one place, and an entry of the associative memory
has its bit in one word of each key memory) stay so when a key that is not found is
inserted, which changes the lookup of that key only (`Adds`); the entries the coder begins
with all have a zero byte, so that for the other bytes its dictionary begins empty,
and from there `Agrees` holds to the end. All this is needed only while the limits are
kept, and they are: failure is never taken back, and the counters only go up, so what
holds at the end held throughout. `Codes12ReadBack` is the packing. The
invariant of the archive (`AInv`) then says that each record stands for its chunk, and
that a fingerprint's id is the number of the packet with its chunk; it is not kept for ids
when the coder fails, where dedup has counted a chunk whose packet is not written. Assumed
besides are the memories' sizes (`SoftwareLZWAssumption`) and that a packet's 12
bits hold a code.

Only model-checked: liveness (`HostStops`, `EndsWithTwoBatches`), which the prover
does not cover. No module uses a recursive operator.

## 5. Not modelled, and the plan

What is left, in order:

1. A composition from file to decoded file. Its parts meet in the modules'
   constants: `Transfer` ends with the batches `FastCDC` cuts, `DedupArchive` takes
   chunks whose codes `LZW` decodes.

Left out for good:

- the kernel of the two-threaded host: it is called with five arguments and
  returns packed bytes, and its source is not in the repository. `ThreadHost` has the
  threads, and the receive loop, which is the same, is in `Transfer`;
- the transformation of a block by SHA-256 and the values of `GEAR` and `my_hash`:
  an injective fingerprint, any gear word and any hash function are all the
  pipeline uses;
- the bounds of the kernel's streams: the dataflow pragma is commented out, so the
  stages run one after the other, and the model's streams have no bound;
- OpenCL errors: no return value is looked at (`host.cpp:347`), and the queue of the
  model completes every command;
- options: `-b` and `-c` are not checked by the code. Values that make a buffer
  other than `BUFFER_LEN` bytes, or chunks of 8192 bytes, are outside the
  assumptions of `HostQueue` and `LZWKernel`;
- option parsing, timers, device discovery and file reading (`Utilities`,
  `EventTimer`, `stopwatch`), the prototypes in `Temp_Files`, and the copies of the
  source in the report.

## 6. Running

    tlc -workers 2 -config Transfer_faulty.cfg MCReceiver
    tlc -workers 2 -config ThreadHost.cfg ThreadHost
    tlc -workers 2 -config LZWKernel.cfg MCTestBench
    tlapm LZWKernelProofs.tla
    tlapm DedupArchiveProofs.tla
    tlapm CpuPipelineProofs.tla

`PROJECT.json` lists the runs, the source lines behind each definition, the
hazards each property is for, and the mutants that show that it can fail.
