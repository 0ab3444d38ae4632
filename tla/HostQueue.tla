------------------------------ MODULE HostQueue ------------------------------
(***************************************************************************)
(* How compression_pipeline runs the kernel on a batch (host.cpp) and what *)
(* the kernel does with it (lzw and the functions below it in              *)
(* lzw_vitis.cpp, all but compute_lzw).                                    *)
(*                                                                         *)
(* The command queue executes out of order: three commands, the transfer   *)
(* to the device, the task and the transfer back, are ordered by their     *)
(* events alone.  Each of the four buffers exists twice, on the device and *)
(* mapped into the host, and is never cleared.                             *)
(*                                                                         *)
(* A chunk is one cell of the input buffer, so that the boundaries in      *)
(* chunk_indices are cell numbers.                                         *)
(***************************************************************************)
EXTENDS Integers, Sequences

CONSTANTS
  Chunks,     \* the contents a chunk may have
  Codes,      \* the LZW codes of each content
  MaxBatch,   \* cells of the input buffer, and bound on the chunks of a batch
  MayFail,    \* {TRUE} if compute_lzw may fail to insert, else {}
  Nothing     \* what a cell of a new buffer holds

VARIABLES
  host,     \* host_input, chunk_indices, output_codes, output_code_lengths
  device,   \* the same buffers on the device
  queue,    \* the commands enqueued and not yet complete
  complete, \* the commands whose events are complete
  kernel    \* the local state of lzw

queueVars == <<host, device, queue, complete, kernel>>

Cells == 0 .. MaxBatch - 1

\* Buffers as the set-up leaves them.
EmptyBuffers ==
  [input |-> [c \in Cells |-> Nothing],
   indices |-> <<>>,
   codes |-> <<>>,
   lengths |-> [k \in 0 .. MaxBatch |-> 0]]

IdleKernel == [busy |-> FALSE, bound |-> 0, stream |-> <<>>, out |-> <<>>,
               done |-> 0, failure |-> FALSE]

QueueInit ==
  /\ host = EmptyBuffers
  /\ device = EmptyBuffers
  /\ queue = {} /\ complete = {}
  /\ kernel = IdleKernel

-----------------------------------------------------------------------------
(* The host's side *)

\* memcpy to host_input, and the boundaries to chunk_indices behind their
\* number; the three vectors of events are new.
FillBuffers(batch) ==
  /\ host' = [host EXCEPT
       !.input = [c \in Cells |-> IF c < Len(batch) THEN batch[c + 1] ELSE @[c]],
       !.indices = <<Len(batch) + 1>> \o [k \in 1 .. Len(batch) + 1 |-> k - 1]]
  /\ complete' = {}
  /\ UNCHANGED <<device, queue, kernel>>

\* Mutant of WaitList: the task does not wait for its input.
WaitListEager(command) ==
  CASE command = "write" -> {}
    [] command = "task" -> {}
    [] command = "read" -> {"task"}

\* The events a command waits for.
WaitList(command) ==
  CASE command = "write" -> {}
    [] command = "task" -> {"write"}
    [] command = "read" -> {"task"}

Enqueue(command) ==
  /\ queue' = queue \cup {command}
  /\ UNCHANGED <<host, device, complete, kernel>>

-----------------------------------------------------------------------------
(* The device's side *)

Ready(command) == command \in queue /\ WaitList(command) \subseteq complete

Complete(command) ==
  /\ queue' = queue \ {command}
  /\ complete' = complete \cup {command}

MigrateToDevice ==
  /\ Ready("write")
  /\ device' = [device EXCEPT !.input = host.input, !.indices = host.indices]
  /\ Complete("write")
  /\ UNCHANGED <<host, kernel>>

MigrateToHost ==
  /\ Ready("read")
  /\ host' = [host EXCEPT !.codes = device.codes, !.lengths = device.lengths]
  /\ Complete("read")
  /\ UNCHANGED <<device, kernel>>

\* chunk_indices_len - 1
Bound == IF device.indices = <<>> THEN 0 ELSE device.indices[1] - 1

\* lzw is called: it copies the indices, and load_data puts the whole buffer
\* into in_stream, what it holds of earlier batches included.
LoadData ==
  /\ Ready("task") /\ ~kernel.busy
  /\ kernel' = [IdleKernel EXCEPT
       !.busy = TRUE,
       !.bound = Bound,
       !.stream = [k \in 1 .. MaxBatch |-> device.input[k - 1]]]
  /\ UNCHANGED <<host, device, queue, complete>>

CodesOf(c) == IF c \in Chunks THEN Codes[c] ELSE <<0>>

\* One round of compute_data's loop: compute_lzw reads a chunk's bytes from
\* the stream and writes its codes behind the others'.  Its failure stays in
\* generic_info.
ComputeChunk ==
  /\ kernel.busy /\ kernel.done < kernel.bound
  /\ \E failed \in {FALSE} \cup MayFail :
       kernel' = [kernel EXCEPT
         !.stream = Tail(@),
         !.out = @ \o CodesOf(Head(kernel.stream)),
         !.done = @ + 1,
         !.failure = @ \/ failed]
  /\ device' = [device EXCEPT
       !.lengths[kernel.done + 1] = Len(CodesOf(Head(kernel.stream)))]
  /\ UNCHANGED <<host, queue, complete>>

\* The rest of in_stream is read, the failure becomes the first of the
\* lengths, and store_data writes the codes over what is in the buffer.
StoreData ==
  /\ kernel.busy /\ kernel.done = kernel.bound
  /\ kernel' = IdleKernel
  /\ device' = [device EXCEPT
       !.lengths[0] = IF kernel.failure THEN 1 ELSE 0,
       !.codes = kernel.out \o SubSeq(@, Len(kernel.out) + 1, Len(@))]
  /\ Complete("task")
  /\ UNCHANGED host

Device ==
  MigrateToDevice \/ MigrateToHost \/ LoadData \/ ComputeChunk \/ StoreData
=============================================================================
