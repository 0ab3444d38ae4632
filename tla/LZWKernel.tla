------------------------------ MODULE LZWKernel ------------------------------
(***************************************************************************)
(* compute_lzw with its memories (lzw_vitis.cpp): a hash table of CAPACITY *)
(* buckets of two slots, and an associative memory that takes what finds   *)
(* no slot.  A key is the code of a word and the byte behind it in 21      *)
(* bits.  The associative memory has three key memories, one for each      *)
(* segment of the key; a word of one of them tells, bit by bit, which      *)
(* entries have that segment.                                              *)
(*                                                                         *)
(* A word of 64 bits is the set of its one-bits.  The valid slots of a     *)
(* bucket are a sequence, since the second is only used after the first.   *)
(***************************************************************************)
EXTENDS GoldenLZW

CONSTANTS
  Inputs,     \* the chunks that may come
  CodeSpace,  \* number of values a slot has room for: 2^13
  LowSpace,   \* words of lower_key_mem, 512
  MiddleSpace,\* words of middle_key_mem, 512
  Buckets,    \* the buckets, CAPACITY of them
  Hash,       \* my_hash
  Ways,       \* slots of a bucket, 2
  Store       \* ASSOCIATIVE_MEM_STORE, 64

\* 2^21: a code and a byte
KeySpace == CodeSpace * Radix

Keys == 0 .. KeySpace - 1

\* The chunks are short enough for their codes to fit a slot.
ASSUME KernelAssumption ==
  /\ Radix \in Nat \ {0}
  /\ Inputs \subseteq Seq(0 .. Radix - 1) \ {<<>>}
  /\ CodeSpace \in Nat
  /\ \A c \in Inputs : Radix + Len(c) - 1 <= CodeSpace
  /\ LowSpace \in Nat \ {0} /\ MiddleSpace \in Nat \ {0}
  /\ Hash \in [Keys -> Buckets]
  /\ Ways \in Nat
  /\ Store \in 0 .. 64

VARIABLES
  pc, chunk, i, prefix, nextCode, codes, failure,  \* as in LZWEncoder
  table,                  \* hash_table
  upper, middle, lower,   \* my_assoc_mem: the key memories,
  value, fill             \* the values, and the number of entries

tableVars == <<table, upper, middle, lower, value, fill>>
vars == <<pc, chunk, i, prefix, nextCode, codes, failure, tableVars>>

-----------------------------------------------------------------------------
(* Keys *)

Low(key) == key % LowSpace
Middle(key) == (key \div LowSpace) % MiddleSpace
High(key) == (key \div LowSpace) \div MiddleSpace

\* Mutant of KeyOf: a bit less for the code, as in the software coder.
KeyOfShort(p, c) == (p * Radix + c) % (KeySpace \div 2)

\* ((prefix_code << 8) + next_char) & 0x1FFFFF
KeyOf(p, c) == (p * Radix + c) % KeySpace

\* value & 0x1FFF
Stored(v) == v % CodeSpace

-----------------------------------------------------------------------------
(* lookup *)

Bucket(key) == table[Hash[key]]

HashHits(key) == {s \in DOMAIN Bucket(key) : Bucket(key)[s].key = key}

\* The slots are compared in their order.
HashValue(key) ==
  Bucket(key)[CHOOSE s \in HashHits(key) : \A r \in HashHits(key) : s <= r].value

\* match_high & match_middle & match_low
Match(key) == upper[High(key)] \cap middle[Middle(key)] \cap lower[Low(key)]

\* "Right shift until the rightmost set bit is found": if the lower width bits
\* are zero they are shifted out.
Shift(m, width) ==
  IF m.bits \cap (0 .. width - 1) = {}
  THEN [bits |-> {b - width : b \in m.bits}, address |-> m.address + width]
  ELSE m

\* Mutant of Address: a stage of the shifter is left out.
AddressShort(match) ==
  Shift(Shift(Shift(Shift(Shift([bits |-> match, address |-> 0],
    32), 16), 8), 4), 2).address

Address(match) ==
  Shift(Shift(Shift(Shift(Shift(Shift([bits |-> match, address |-> 0],
    32), 16), 8), 4), 2), 1).address

Found(key) == HashHits(key) # {} \/ Match(key) # {}

Result(key) ==
  IF HashHits(key) # {} THEN HashValue(key) ELSE value[Address(Match(key))]

-----------------------------------------------------------------------------
(* insert *)

\* hash_insert; its collision is that the bucket is full.
HashInsert(key, v) ==
  /\ Len(Bucket(key)) < Ways
  /\ table' = [table EXCEPT ![Hash[key]] = Append(@, [key |-> key, value |-> Stored(v)])]
  /\ UNCHANGED <<upper, middle, lower, value, fill, failure>>

\* Mutant of AssocFull: the last slot is not used.
AssocFullEarly == fill >= Store - 1

\* ! (mem_fill < ASSOCIATIVE_MEM_STORE)
AssocFull == fill >= Store

\* assoc_insert, of what hash_insert did not take
AssocInsert(key, v) ==
  /\ Len(Bucket(key)) = Ways /\ ~AssocFull
  /\ upper' = [upper EXCEPT ![High(key)] = @ \cup {fill}]
  /\ middle' = [middle EXCEPT ![Middle(key)] = @ \cup {fill}]
  /\ lower' = [lower EXCEPT ![Low(key)] = @ \cup {fill}]
  /\ value' = [value EXCEPT ![fill] = Stored(v)]
  /\ fill' = fill + 1
  /\ UNCHANGED <<table, failure>>

\* The collision that is left: compute_lzw notes its failure and goes on.
NoRoom(key) ==
  /\ Len(Bucket(key)) = Ways /\ AssocFull
  /\ failure' = TRUE
  /\ UNCHANGED tableVars

Insert(key, v) == HashInsert(key, v) \/ AssocInsert(key, v) \/ NoRoom(key)

-----------------------------------------------------------------------------
(* compute_lzw *)

Cleared(words) == [a \in words |-> {}]

\* The words of the key memories that keys address.
HighWords == {High(key) : key \in Keys}
MiddleWords == {Middle(key) : key \in Keys}
LowWords == {Low(key) : key \in Keys}

Init ==
  /\ pc = "code"
  /\ chunk \in Inputs
  /\ i = 1
  /\ prefix = chunk[1]
  /\ nextCode = Radix
  /\ codes = <<>>
  /\ failure = FALSE
  /\ table = [b \in Buckets |-> <<>>]
  /\ upper = Cleared(HighWords)
  /\ middle = Cleared(MiddleWords)
  /\ lower = Cleared(LowWords)
  /\ value = [s \in 0 .. Store - 1 |-> 0]
  /\ fill = 0

Key == KeyOf(prefix, chunk[i + 1])

Hit ==
  /\ pc = "code" /\ i < Len(chunk)
  /\ Found(Key)
  /\ prefix' = Result(Key)
  /\ i' = i + 1
  /\ UNCHANGED <<pc, chunk, nextCode, codes, failure, tableVars>>

Miss ==
  /\ pc = "code" /\ i < Len(chunk)
  /\ ~Found(Key)
  /\ codes' = Append(codes, prefix)
  /\ Insert(Key, nextCode)
  /\ nextCode' = nextCode + 1
  /\ prefix' = chunk[i + 1]
  /\ i' = i + 1
  /\ UNCHANGED <<pc, chunk>>

Flush ==
  /\ pc = "code" /\ i = Len(chunk)
  /\ codes' = Append(codes, prefix)
  /\ pc' = "done"
  /\ UNCHANGED <<chunk, i, prefix, nextCode, failure, tableVars>>

\* Mutant of NextChunk: one of the key memories is not cleared.
NextChunkUncleared ==
  /\ pc = "done"
  /\ pc' = "code"
  /\ chunk' \in Inputs
  /\ i' = 1
  /\ prefix' = chunk'[1]
  /\ nextCode' = Radix
  /\ codes' = <<>>
  /\ failure' = FALSE
  /\ table' = [b \in Buckets |-> <<>>]
  /\ upper' = Cleared(HighWords)
  /\ middle' = Cleared(MiddleWords)
  /\ fill' = 0
  /\ UNCHANGED <<lower, value>>

\* The next call: every memory is cleared but the values.
NextChunk ==
  /\ pc = "done"
  /\ pc' = "code"
  /\ chunk' \in Inputs
  /\ i' = 1
  /\ prefix' = chunk'[1]
  /\ nextCode' = Radix
  /\ codes' = <<>>
  /\ failure' = FALSE
  /\ table' = [b \in Buckets |-> <<>>]
  /\ upper' = Cleared(HighWords)
  /\ middle' = Cleared(MiddleWords)
  /\ lower' = Cleared(LowWords)
  /\ fill' = 0
  /\ UNCHANGED value

Next == Hit \/ Miss \/ Flush \/ NextChunk

Spec == Init /\ [][Next]_vars

-----------------------------------------------------------------------------
(* Properties *)

\* The memories together are the dictionary that LZWEncoder promises.
Dict ==
  [k \in {pair \in (0 .. CodeSpace - 1) \X (0 .. Radix - 1) :
            Found(KeyOf(pair[1], pair[2]))}
     |-> Result(KeyOf(k[1], k[2]))]

Encoder == INSTANCE LZWEncoder WITH dict <- Dict

\* With its buckets, its three key memories and its masks, the kernel does
\* what LZWEncoder says: a lookup finds what was entered under the word's key,
\* whatever collides, and an entry is dropped only with failure set.
ImplementsEncoder == Encoder!Spec

\* The memories stay within their sizes, and no entry of the associative
\* memory has a bit at two places of one key memory or at fewer than three.
TypeOK ==
  /\ \A b \in Buckets : table[b] \in Seq([key : Keys, value : 0 .. CodeSpace - 1])
  /\ \A b \in Buckets : Len(table[b]) <= Ways
  /\ fill \in 0 .. Store
  /\ \A s \in 0 .. Store - 1 : \A memory \in {upper, middle, lower} :
       IF s < fill THEN \E a \in DOMAIN memory :
                          \A b \in DOMAIN memory : s \in memory[b] <=> b = a
       ELSE \A a \in DOMAIN memory : s \notin memory[a]

\* Unless the kernel reports its failure, the codes of a chunk are those of
\* the test bench's reference encoding.
MatchesGolden == pc = "done" /\ ~failure => codes = Golden(chunk)

\* However badly my_hash spreads the keys, a chunk that makes no more entries
\* than one bucket and the associative memory hold is compressed.
FailsBeyondCapacity == failure => nextCode - Radix > Ways + Store
=============================================================================
