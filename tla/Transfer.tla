------------------------------ MODULE Transfer ------------------------------
(***************************************************************************)
(* A file's way from the client to the compression pipeline: the sender    *)
(* (client.cpp), the UDP socket between them (server.cpp) and the receive  *)
(* loop of the single-threaded host (host.cpp), which gathers packets in a *)
(* buffer and hands the buffer to compression_pipeline.                    *)
(*                                                                         *)
(* A byte of the file is the position it has in the file, so that a lost,  *)
(* repeated or misplaced byte shows.                                       *)
(***************************************************************************)
EXTENDS Packet, Integers, Sequences, SequencesExt

CONSTANTS
  BlockSize,    \* -b of the host: payload bytes a packet buffer holds
  ClientBlock,  \* -b of the client
  NumPackets,   \* NUM_PACKETS: packet slots of the pipeline buffer (2)
  FileSizes,    \* lengths of the files sent
  Faults,       \* what the network and the socket may do
  MaxFaults     \* bound on the number of faults in a behaviour

AllFaults == {"lose", "duplicate", "reorder", "recv_error"}

ASSUME TransferAssumption ==
  /\ BlockSize \in Nat \ {0} /\ NumPackets \in Nat \ {0}
  /\ ClientBlock \in 1 .. BlockSize
  /\ BlockSize \in Lengths
  /\ FileSizes \subseteq Nat
  /\ Faults \subseteq AllFaults /\ MaxFaults \in Nat

Junk == -1   \* a byte past the client's malloc'd file buffer
Zero == -2   \* a byte calloc cleared and nothing has written

Bytes == {Junk, Zero} \cup Nat

VARIABLES
  fileSize,   \* bytes_read of the client
  n,          \* the client's packet counter
  clientPc,   \* where the client stands: "loop", "rest", "gone"
  net,        \* datagrams under way and in the host's socket buffer
  input,      \* input[]: one receive buffer per slot
  writer,     \* index of the slot the next packet goes to
  lengthSum,  \* r_data->length_sum
  pipeline,   \* r_data->pipeline_buffer
  done,       \* the host's done flag, as the code decodes it
  written,    \* history: all the bytes given to compression_pipeline
  received,   \* history: the payloads of the datagrams received, in order
  faults,     \* number of faults so far, capped by MaxFaults
  lost        \* history: whether a datagram has been lost

clientVars == <<fileSize, n, clientPc>>
hostVars == <<input, writer, lengthSum, pipeline, done, written, received>>
vars == <<clientVars, net, hostVars, faults, lost>>

loops == fileSize \div ClientBlock
remainder == fileSize % ClientBlock

File == [i \in 1 .. fileSize |-> i - 1]

\* memcpy(&local[HEADER], &buff[start], length); past the file it reads junk.
Payload(start, length) ==
  [i \in 1 .. length |-> IF start + i <= fileSize THEN start + i - 1 ELSE Junk]

Datagram(start, length, last) ==
  [header |-> Header(length, last), data |-> Payload(start, length)]

SlotIds == 0 .. NumPackets - 1
BufferSize == NumPackets * BlockSize

EmptySlot == [header |-> [low |-> 0, high |-> 0],
              data |-> [i \in 1 .. BlockSize |-> Zero]]

Init ==
  /\ fileSize \in FileSizes
  /\ n = 0
  /\ clientPc = "loop"
  /\ net = <<>>
  /\ input = [s \in SlotIds |-> EmptySlot]
  /\ writer = 0
  /\ lengthSum = 0
  /\ pipeline = [i \in 1 .. BufferSize |-> Zero]
  /\ done = 0
  /\ written = <<>>
  /\ received = <<>>
  /\ faults = 0 /\ lost = FALSE

-----------------------------------------------------------------------------
(* The client *)

Send(start, length, last) ==
  /\ net' = Append(net, Datagram(start, length, last))
  /\ n' = n + 1
  /\ UNCHANGED <<fileSize, hostVars, faults, lost>>

\* "send chunk size bytes"
SendBlock ==
  /\ clientPc = "loop" /\ n < loops - 1
  /\ Send(n * ClientBlock, ClientBlock, FALSE)
  /\ UNCHANGED clientPc

\* "if no remainder send the last chunk with done bit"
SendLastBlock ==
  /\ clientPc = "loop" /\ n >= loops - 1
  /\ remainder = 0
  /\ Send(n * ClientBlock, ClientBlock, TRUE)
  /\ clientPc' = "gone"

\* "if remainder then send last chunk as normal"
SendBlockBeforeRest ==
  /\ clientPc = "loop" /\ n >= loops - 1
  /\ remainder # 0
  /\ Send(n * ClientBlock, ClientBlock, FALSE)
  /\ clientPc' = "rest"

\* "send remaining pieces"
SendRemainder ==
  /\ clientPc = "rest"
  /\ Send(loops * ClientBlock, remainder, TRUE)
  /\ clientPc' = "gone"

Client == SendBlock \/ SendLastBlock \/ SendBlockBeforeRest \/ SendRemainder

-----------------------------------------------------------------------------
(* The network: UDP between two sockets *)

Fault(kind) ==
  /\ kind \in Faults /\ faults < MaxFaults
  /\ faults' = faults + 1
  /\ lost' = (lost \/ kind = "lose")

Lose == \E k \in DOMAIN net :
  /\ Fault("lose")
  /\ net' = RemoveAt(net, k)
  /\ UNCHANGED <<clientVars, hostVars>>

Duplicate == \E k \in DOMAIN net :
  /\ Fault("duplicate")
  /\ net' = Append(net, net[k])
  /\ UNCHANGED <<clientVars, hostVars>>

\* The front datagram is overtaken by all the others.
Reorder ==
  /\ Len(net) > 1
  /\ Fault("reorder")
  /\ net' = Append(Tail(net), Head(net))
  /\ UNCHANGED <<clientVars, hostVars>>

Network == Lose \/ Duplicate \/ Reorder

-----------------------------------------------------------------------------
(* The host *)

\* Mutant of CopyToPipeline: slots are as long as this packet's payload.
CopyBehindLength(data, length) ==
  [i \in 1 .. BufferSize |->
    IF i - writer * length \in 1 .. length
    THEN data[i - writer * length] ELSE pipeline[i]]

\* memcpy(pipeline_buffer + writer * blocksize, input[writer] + 2, length)
CopyToPipeline(data, length) ==
  [i \in 1 .. BufferSize |->
    IF i - writer * BlockSize \in 1 .. length
    THEN data[i - writer * BlockSize] ELSE pipeline[i]]

\* Mutants of BatchReady: one slot too late, only for a full buffer, and for
\* every packet.
BatchReadyLate(length, doneField) ==
  writer = NumPackets \/ (length < BlockSize /\ length > 0) \/ doneField = 1
BatchReadyWhenFull(length, doneField) == writer = NumPackets - 1 \/ doneField = 1
BatchReadyAlways(length, doneField) == length > 0 \/ doneField = 1

\* The test before compression_pipeline; doneField is never 1 (see Packet).
BatchReady(length, doneField) ==
  \/ writer = NumPackets - 1
  \/ length < BlockSize /\ length > 0
  \/ doneField = 1

\* The rest of the loop body, once slot is what input[writer] holds.
HandleBuffer(slot) ==
  LET length == LengthField(slot.header) IN
  /\ done' = DoneField(slot.header)
  /\ input' = [input EXCEPT ![writer] = slot]
  /\ pipeline' = CopyToPipeline(slot.data, length)
  /\ \/ /\ BatchReady(length, DoneField(slot.header))
        /\ written' = written \o SubSeq(pipeline', 1, lengthSum + length)
        /\ writer' = 0
        /\ lengthSum' = 0
     \/ /\ ~BatchReady(length, DoneField(slot.header))
        /\ written' = written
        /\ writer' = writer + 1
        /\ lengthSum' = lengthSum + length

\* recvfrom overwrites as much of the buffer as the datagram is long.
Filled(slot, datagram) ==
  [header |-> datagram.header,
   data |-> [i \in 1 .. BlockSize |->
              IF i \in DOMAIN datagram.data THEN datagram.data[i]
                                            ELSE slot.data[i]]]

Receive ==
  /\ done = 0
  /\ net # <<>>
  /\ net' = Tail(net)
  /\ HandleBuffer(Filled(input[writer], Head(net)))
  /\ received' = received \o Head(net).data
  /\ UNCHANGED <<clientVars, faults, lost>>

\* recvfrom fails: get_packet says so on stderr and returns, and the loop
\* goes on with what the buffer already held.
ReceiveError ==
  /\ done = 0
  /\ Fault("recv_error")
  /\ HandleBuffer(input[writer])
  /\ UNCHANGED <<clientVars, net, received>>

Host == Receive \/ ReceiveError

\* Both programs have returned from main.
Finished == clientPc = "gone" /\ done # 0 /\ UNCHANGED vars

Next == Client \/ Network \/ Host \/ Finished

Spec == Init /\ [][Next]_vars

\* The client never waits, and the host takes a datagram that has arrived.
FairSpec == Spec /\ WF_vars(Client) /\ WF_vars(Receive)

-----------------------------------------------------------------------------
(* Properties *)

\* The variables stay in their ranges: every datagram's header carries the
\* length of its payload, and the writer never leaves the slots.
TypeOK ==
  /\ fileSize \in FileSizes
  /\ n \in Nat
  /\ clientPc \in {"loop", "rest", "gone"}
  /\ clientPc = "rest" => remainder # 0
  /\ \A k \in DOMAIN net : /\ net[k].header \in Headers
                           /\ Len(net[k].data) \in 1 .. BlockSize
                           /\ LengthField(net[k].header) = Len(net[k].data)
                           /\ \A i \in DOMAIN net[k].data : net[k].data[i] \in Bytes
  /\ writer \in SlotIds
  /\ lengthSum \in 0 .. BufferSize
  /\ done \in {0, DoneBit}
  /\ faults \in 0 .. MaxFaults

\* What is in the pipeline buffer and has not been handed over.
Pending == SubSeq(pipeline, 1, lengthSum)

\* Nothing that arrives is dropped, repeated or moved by the slot and length
\* bookkeeping of the receive loop: what compression_pipeline was given,
\* followed by what still waits in the buffer, is what arrived.
ReceivedStream == written \o Pending = received

\* With equal block sizes the pipeline runs on a full buffer ("after the
\* buffer is completely filled"); only the last packet may cut a batch short.
FullBatches ==
  [][ written' # written =>
        \/ Len(written') - Len(written) = BufferSize
        \/ done' # 0 ]_vars

\* The loop's last round is not skipped for a file shorter than a block.
BlocksSent == IF loops = 0 THEN 1 ELSE loops

\* What the client sends.  Before a file shorter than a block it sends a whole
\* block, the file and what follows it in memory, though no "last chunk" is
\* there to send; the remainder is the file once more.
Sent == IF loops = 0 THEN Payload(0, ClientBlock) \o File ELSE File

\* The bytes the loop still holds when it ends: the done flag is never 1, so
\* a last packet of full size in a slot that is not the last is not handed
\* over, nor are the packets before it.
Stranded ==
  IF remainder = 0 /\ ClientBlock = BlockSize
  THEN (BlocksSent % NumPackets) * BlockSize ELSE 0

\* Without faults, and whatever the file's length, the pipeline has seen
\* exactly the file when the host stops, but for the block too many of a file
\* shorter than a block and for the stranded tail.
WrittenWhenDone ==
  (done # 0 /\ faults = 0) => written = SubSeq(Sent, 1, Len(Sent) - Stranded)

\* The client has gone and no datagram with the done bit is left to come.
WaitsForever ==
  /\ clientPc = "gone" /\ done = 0
  /\ \A k \in DOMAIN net : DoneField(net[k].header) = 0

\* recvfrom has no timeout.  What leaves the host there for good is the loss of
\* a datagram and nothing else: not its own decoding or bookkeeping, not the
\* client, not a repeated or overtaken datagram.
WaitsOnlyForLost ==
  [][ WaitsForever' => \/ WaitsForever
                       \/ Len(net') < Len(net) /\ faults' = faults + 1 ]_vars

\* The host leaves its receive loop, whatever is repeated or overtaken, and
\* although recvfrom may fail.  There is no timeout, so a lost last packet
\* would leave it there.
HostStops == <>(done # 0 \/ lost)

-----------------------------------------------------------------------------
(* What the documentation says and the code does not do *)

\* "The above steps are repeated for all the packets": when the host stops,
\* all it received has been compressed.
AllCompressed == done # 0 => written = received
=============================================================================
