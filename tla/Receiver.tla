------------------------------ MODULE Receiver ------------------------------
(***************************************************************************)
(* The example receiver (Server/encoder.cpp), which gathers a whole file   *)
(* in memory and writes it when the last packet has come.  The host of     *)
(* Transfer began as a copy of it: here both programs are given the same   *)
(* datagrams, in the same steps, so that what they make of them can be     *)
(* compared.                                                               *)
(***************************************************************************)
EXTENDS Transfer

CONSTANTS
  RingSlots,   \* NUM_PACKETS of the receiver, 8
  PipeDepth    \* pipe_depth, 4: the slot of the first packet

\* recvfrom does not fail: the receiver's buffers come from malloc, and what
\* it would find in one that nothing was received in is anything.
ASSUME ReceiverAssumption ==
  /\ RingSlots \in Nat \ {0} /\ PipeDepth \in 0 .. RingSlots - 1
  /\ "recv_error" \notin Faults

VARIABLES
  ring,        \* input[] of the receiver
  ringWriter,  \* writer; -1 before the first packet
  ringDone,    \* done
  file,        \* file, as far as offset
  outfile      \* history: what is in output_cpu.bin, <<>> before it is written

receiverVars == <<ring, ringWriter, ringDone, file, outfile>>
bothVars == <<vars, receiverVars>>

ReceiverInit ==
  /\ ring = [s \in 0 .. RingSlots - 1 |-> EmptySlot]
  /\ ringWriter = -1
  /\ ringDone = 0
  /\ file = <<>> /\ outfile = <<>>

\* The first packet goes to pipe_depth; behind the last slot comes the first.
NextSlot ==
  IF ringWriter = -1 THEN PipeDepth
  ELSE IF ringWriter = RingSlots THEN 0 ELSE ringWriter

\* Mutant of Store: bytes are taken up to the block's size.
StoreBlock(slot) == file \o slot.data

\* memcpy(&file[offset], &buffer[HEADER], length); offset += length
Store(slot) == file \o SubSeq(slot.data, 1, LengthField(slot.header))

\* get_packet and what follows it, before the loop and in it.
ReceiveToFile(datagram) ==
  LET slot == Filled(ring[NextSlot], datagram) IN
  /\ ringDone = 0
  /\ ring' = [ring EXCEPT ![NextSlot] = slot]
  /\ ringWriter' = NextSlot + 1
  /\ ringDone' = DoneField(slot.header)
  /\ file' = Store(slot)
  /\ UNCHANGED outfile

\* "write file to root"
WriteFile ==
  /\ ringDone # 0 /\ outfile = <<>>
  /\ outfile' = file
  /\ UNCHANGED <<vars, ring, ringWriter, ringDone, file>>

-----------------------------------------------------------------------------
(* Both programs *)

BothInit == Init /\ ReceiverInit

BothReceive == Receive /\ ReceiveToFile(Head(net))

BothNext ==
  \/ (Client \/ Network \/ Finished) /\ UNCHANGED receiverVars
  \/ BothReceive
  \/ WriteFile

BothSpec == BothInit /\ [][BothNext]_bothVars

-----------------------------------------------------------------------------
(* Properties *)

\* The receiver stays in its ring and stops when the host stops.  It writes the
\* payloads it was sent, in the order they came; the host hands over the same
\* bytes but for what is stranded in its buffer.
SameBytes ==
  /\ ringWriter \in -1 .. RingSlots
  /\ ringDone = done
  /\ file = received
  /\ outfile # <<>> => outfile = written \o Pending
=============================================================================
