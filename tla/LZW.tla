-------------------------------- MODULE LZW ---------------------------------
(***************************************************************************)
(* A chunk's way through the LZW coder and back through Decompress         *)
(* (Decoder.cpp).  The decoder never sees the coder's dictionary: it       *)
(* builds its own, one entry behind.                                       *)
(*                                                                         *)
(* Chunks follow each other; the decoder starts on a chunk when its codes  *)
(* are complete.  That the codes come back from the packed bytes, all of   *)
(* them and no more, is the subject of DedupArchive.                       *)
(***************************************************************************)
EXTENDS LZWEncoder

VARIABLES
  read,    \* how many codes Decompress has read
  table,   \* Code_table: the word of code v is table[v + 1]
  old,     \* Old
  symbol,  \* Symbol, a string of one byte
  output,  \* Output
  starts   \* history: the offset at which each word begins in the chunk

decoderVars == <<read, table, old, symbol, output>>
vars == <<encoderVars, decoderVars, starts>>

LZWInit ==
  /\ Init
  /\ read = 0 /\ table = <<>> /\ old = 0 /\ symbol = <<>> /\ output = <<>>
  /\ starts = <<0>>

-----------------------------------------------------------------------------
(* The coder's steps *)

EncodeHit == Hit /\ UNCHANGED <<decoderVars, starts>>

EncodeMiss == Miss /\ starts' = Append(starts, i) /\ UNCHANGED decoderVars

EncodeFlush == Flush /\ starts' = Append(starts, i) /\ UNCHANGED decoderVars

\* Mutant of EncodeNextChunk: the decoder's position is not set back.
EncodeNextChunkReadOn ==
  /\ read = Len(codes)
  /\ NextChunk
  /\ starts' = <<0>>
  /\ UNCHANGED decoderVars

\* The next chunk; what Decompress has left behind stays where it is.
EncodeNextChunk ==
  /\ read = Len(codes)
  /\ NextChunk
  /\ read' = 0
  /\ starts' = <<0>>
  /\ UNCHANGED <<table, old, symbol, output>>

-----------------------------------------------------------------------------
(* Decompress *)

Singles == [v \in 1 .. Radix |-> <<v - 1>>]

\* The table is cleared and filled with the bytes; the first code is a byte.
DecodeFirst ==
  /\ pc = "done" /\ read = 0
  /\ table' = Singles
  /\ old' = codes[1]
  /\ symbol' = <<codes[1]>>
  /\ output' = <<codes[1]>>
  /\ read' = 1
  /\ UNCHANGED <<encoderVars, starts>>

\* Mutant of Symbols: no case for a code that is not in the table yet.
SymbolsKnown(new) ==
  IF new >= Len(table) THEN table[old + 1] ELSE table[new + 1]

\* The word of the next code, which may be the one about to be entered.
Symbols(new) ==
  IF new >= Len(table) THEN table[old + 1] \o symbol ELSE table[new + 1]

\* One round of the loop.
DecodeNext ==
  /\ pc = "done" /\ read \in 1 .. Len(codes) - 1
  /\ LET new == codes[read + 1] IN
       /\ output' = output \o Symbols(new)
       /\ symbol' = <<Symbols(new)[1]>>
       /\ table' = Append(table, table[old + 1] \o symbol')
       /\ old' = new
  /\ read' = read + 1
  /\ UNCHANGED <<encoderVars, starts>>

LZWNext ==
  \/ EncodeHit \/ EncodeMiss \/ EncodeFlush \/ EncodeNextChunk
  \/ DecodeFirst \/ DecodeNext

LZWSpec == LZWInit /\ [][LZWNext]_vars

-----------------------------------------------------------------------------
(* Properties *)

\* The word a code stands for: a byte, or the word written when the code was
\* given out with the byte that followed it.
WordIn(c, s, v) ==
  IF v < Radix THEN <<v>>
  ELSE SubSeq(c, s[v - Radix + 1] + 1, s[v - Radix + 2] + 1)

Word(v) == WordIn(chunk, starts, v)

\* The variables stay in their ranges; no code is wider than the length of
\* the chunk allows.
TypeOK ==
  /\ pc \in {"code", "done"}
  /\ chunk \in Inputs
  /\ i \in 1 .. Len(chunk)
  /\ nextCode \in Radix .. Radix + Len(chunk) - 1
  /\ prefix \in 0 .. nextCode - 1
  /\ codes \in Seq(0 .. Radix + Len(chunk) - 2)
  /\ failure \in BOOLEAN
  /\ read \in 0 .. Len(codes)

\* The codes decode to the chunk, whatever entries the dictionary dropped:
\* what Decompress has written is the beginning of the chunk, and in the end
\* all of it.
DecodesChunk ==
  read > 0 =>
    /\ Len(output) <= Len(chunk)
    /\ output = SubSeq(chunk, 1, Len(output))
    /\ read = Len(codes) => output = chunk

\* The codes that prefix_code may come to hold in this chunk: the bytes, and the
\* codes of the entries that have found a place.
NamedCodes == (0 .. Radix - 1) \cup {dict[key] : key \in DOMAIN dict}

\* The coder's keys, which hold codes in the place of words, are as good as the
\* words that the test bench's reference encoding keys by: two codes in use never
\* stand for the same word, whatever entries were dropped before, although the
\* word of a dropped entry is given a second code when it comes again.  All
\* codes given out are in use as long as nothing was dropped.
OneCodeForAWord ==
  pc = "code" =>
    /\ \A v, w \in NamedCodes : Word(v) = Word(w) => v = w
    /\ ~failure => NamedCodes = 0 .. nextCode - 1
=============================================================================
