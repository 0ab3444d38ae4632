----------------------------- MODULE LZWEncoder -----------------------------
(***************************************************************************)
(* What the LZW kernel promises for a chunk (compute_lzw of                *)
(* lzw_vitis.cpp): the coder with a dictionary in the place of its         *)
(* memories.  The dictionary maps a key, the code of a word and the byte   *)
(* that follows it, to the code of the longer word.  It may drop an entry, *)
(* and says so in failure.                                                 *)
(***************************************************************************)
EXTENDS Integers, Sequences

CONSTANTS
  Radix,   \* number of values of a byte (256), and the first code given out
  Inputs   \* the chunks that may come

ASSUME LZWAssumption ==
  /\ Radix \in Nat \ {0}
  /\ Inputs \subseteq Seq(0 .. Radix - 1) \ {<<>>}

VARIABLES
  pc,        \* "code" in the loop, "done" after it
  chunk,     \* the bytes between start_idx and end_idx
  i,         \* how many of them have been read
  prefix,    \* prefix_code
  dict,      \* hash_table and my_assoc_mem together
  nextCode,  \* next_code
  codes,     \* the codes written to out_stream for this chunk
  failure    \* failure

encoderVars == <<pc, chunk, i, prefix, dict, nextCode, codes, failure>>

EmptyDict == [key \in {} |-> 0]

Extended(key, code) ==
  [k \in DOMAIN dict \cup {key} |-> IF k = key THEN code ELSE dict[k]]

\* The call of compute_lzw: cleared memories, and the first byte read.
Init ==
  /\ pc = "code"
  /\ chunk \in Inputs
  /\ i = 1
  /\ prefix = chunk[1]
  /\ dict = EmptyDict
  /\ nextCode = Radix
  /\ codes = <<>>
  /\ failure = FALSE

\* The word read so far and the next byte.
Key == <<prefix, chunk[i + 1]>>

\* The longer word is in the dictionary.
Hit ==
  /\ pc = "code" /\ i < Len(chunk)
  /\ Key \in DOMAIN dict
  /\ prefix' = dict[Key]
  /\ i' = i + 1
  /\ UNCHANGED <<pc, chunk, dict, nextCode, codes, failure>>

\* Mutant of Miss: the key's parts are exchanged where it is entered.
MissSwapped ==
  /\ pc = "code" /\ i < Len(chunk)
  /\ Key \notin DOMAIN dict
  /\ codes' = Append(codes, prefix)
  /\ \/ dict' = Extended(<<Key[2], Key[1]>>, nextCode) /\ UNCHANGED failure
     \/ failure' = TRUE /\ UNCHANGED dict
  /\ nextCode' = nextCode + 1
  /\ prefix' = chunk[i + 1]
  /\ i' = i + 1
  /\ UNCHANGED <<pc, chunk>>

\* It is not: the word's code is written and the longer word entered, or
\* dropped.  Either way its code is used up.
Miss ==
  /\ pc = "code" /\ i < Len(chunk)
  /\ Key \notin DOMAIN dict
  /\ codes' = Append(codes, prefix)
  /\ \/ dict' = Extended(Key, nextCode) /\ UNCHANGED failure
     \/ failure' = TRUE /\ UNCHANGED dict
  /\ nextCode' = nextCode + 1
  /\ prefix' = chunk[i + 1]
  /\ i' = i + 1
  /\ UNCHANGED <<pc, chunk>>

\* The code of the last word.
Flush ==
  /\ pc = "code" /\ i = Len(chunk)
  /\ codes' = Append(codes, prefix)
  /\ pc' = "done"
  /\ UNCHANGED <<chunk, i, prefix, dict, nextCode, failure>>

\* The next call, for another chunk.
NextChunk ==
  /\ pc = "done"
  /\ pc' = "code"
  /\ chunk' \in Inputs
  /\ i' = 1
  /\ prefix' = chunk'[1]
  /\ dict' = EmptyDict
  /\ nextCode' = Radix
  /\ codes' = <<>>
  /\ failure' = FALSE

Next == Hit \/ Miss \/ Flush \/ NextChunk

Spec == Init /\ [][Next]_encoderVars
=============================================================================
