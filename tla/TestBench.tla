------------------------------ MODULE TestBench ------------------------------
(***************************************************************************)
(* The test bench of the kernel (Testbench.cpp): it reads a file piece by  *)
(* piece, has the kernel code the chunks of a piece, and compares what the *)
(* kernel wrote with the reference encoding of each chunk.                 *)
(*                                                                         *)
(* A piece is the sequence of its chunks: that they cover it is the        *)
(* subject of FastCDC.  What earlier pieces left behind in lzw_codes and   *)
(* out_packet_lengths is not kept, since the kernel writes all the bench   *)
(* reads.                                                                  *)
(***************************************************************************)
EXTENDS LZWKernel

CONSTANT Pieces   \* the pieces that may come

ASSUME TestBenchAssumption == Pieces \subseteq Seq(Inputs) \ {<<>>}

VARIABLES
  benchPc,   \* "kernel", "check", in the end "closed" or, after exit, "exit"
  piece,     \* the chunks between chunk_indices
  lengths,   \* out_packet_lengths from 1 on
  failed,    \* out_packet_lengths[0]
  out,       \* lzw_codes
  at, ptr,   \* the chunk to compare, and lzw_codes_ptr as an offset
  failStat   \* fail_stat

benchVars == <<benchPc, piece, lengths, failed, out, at, ptr, failStat>>

BenchInit ==
  /\ Init
  /\ benchPc = "kernel"
  /\ piece \in {p \in Pieces : p[1] = chunk}
  /\ lengths = <<>> /\ failed = FALSE /\ out = <<>>
  /\ at = 1 /\ ptr = 0 /\ failStat = FALSE

-----------------------------------------------------------------------------
(* lzw, called for the piece *)

Code == benchPc = "kernel" /\ (Hit \/ Miss \/ Flush) /\ UNCHANGED benchVars

\* What compute_data keeps of a chunk: the failure is never taken back.
Record ==
  /\ lengths' = Append(lengths, Len(codes))
  /\ out' = out \o codes
  /\ failed' = (failed \/ failure)

NextOfPiece ==
  /\ benchPc = "kernel" /\ Len(lengths) + 1 < Len(piece)
  /\ NextChunk /\ chunk' = piece[Len(lengths) + 2]
  /\ Record
  /\ UNCHANGED <<benchPc, piece, at, ptr, failStat>>

\* lzw returns; a failure ends the test.
Return ==
  /\ benchPc = "kernel" /\ pc = "done" /\ Len(lengths) + 1 = Len(piece)
  /\ Record
  /\ benchPc' = IF failed' THEN "exit" ELSE "check"
  /\ at' = 1 /\ ptr' = 0
  /\ UNCHANGED <<vars, piece, failStat>>

-----------------------------------------------------------------------------
(* The comparison *)

\* Mutant of Compare: lzw_codes_ptr stays at the first chunk's codes.
CompareFromStart ==
  LET reference == Golden(piece[at]) IN
  /\ benchPc = "check" /\ at <= Len(piece)
  /\ IF lengths[at] # Len(reference)
     THEN benchPc' = "exit" /\ failStat' = TRUE /\ UNCHANGED <<at, ptr>>
     ELSE /\ failStat' = (failStat \/ \E j \in DOMAIN reference : reference[j] # out[ptr + j])
          /\ at' = at + 1
          /\ UNCHANGED <<benchPc, ptr>>
  /\ UNCHANGED <<vars, piece, lengths, failed, out>>

\* One chunk: another number of codes ends the test, another code is noted.
Compare ==
  LET reference == Golden(piece[at]) IN
  /\ benchPc = "check" /\ at <= Len(piece)
  /\ IF lengths[at] # Len(reference)
     THEN benchPc' = "exit" /\ failStat' = TRUE /\ UNCHANGED <<at, ptr>>
     ELSE /\ failStat' = (failStat \/ \E j \in DOMAIN reference : reference[j] # out[ptr + j])
          /\ at' = at + 1
          /\ ptr' = ptr + lengths[at]
          /\ UNCHANGED benchPc
  /\ UNCHANGED <<vars, piece, lengths, failed, out>>

NextPiece ==
  /\ benchPc = "check" /\ at > Len(piece)
  /\ piece' \in Pieces
  /\ NextChunk /\ chunk' = piece'[1]
  /\ benchPc' = "kernel"
  /\ lengths' = <<>> /\ out' = <<>>
  /\ at' = 1 /\ ptr' = 0
  /\ UNCHANGED <<failed, failStat>>

\* The end of the file: "TEST PASSED!!", unless fail_stat is set.
Close ==
  /\ benchPc = "check" /\ at > Len(piece)
  /\ benchPc' = "closed"
  /\ UNCHANGED <<vars, piece, lengths, failed, out, at, ptr, failStat>>

Ended == benchPc \in {"closed", "exit"} /\ UNCHANGED <<vars, benchVars>>

BenchNext == Code \/ NextOfPiece \/ Return \/ Compare \/ NextPiece \/ Close \/ Ended

BenchSpec == BenchInit /\ [][BenchNext]_<<vars, benchVars>>

-----------------------------------------------------------------------------
(* Properties *)

\* The bench never finds the kernel in the wrong: it ends with TEST PASSED!!
\* or because the kernel itself has reported that an entry found no place.
OnlyFailsForRoom ==
  /\ ~failStat
  /\ benchPc = "exit" => failed
=============================================================================
