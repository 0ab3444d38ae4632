---------------------------- MODULE SoftwareLZW -----------------------------
(***************************************************************************)
(* lzw of lzw.cpp, the coder of the CPU pipeline: the hash table and the   *)
(* associative memory of the kernel with 20 bits of a key and 12 bits of a *)
(* code.  In three points it is not the kernel's coder: its dictionary     *)
(* begins with an entry <c, 0> for every byte c, its bits are shifted as   *)
(* an int, and a word that finds no place is kept as the prefix.           *)
(***************************************************************************)
EXTENDS GoldenLZW

CONSTANTS
  CodeSpace,   \* number of values a slot has room for: 2^12
  LowSpace,    \* words of lower_key_mem, 512
  MiddleSpace, \* words of middle_key_mem, 512
  Buckets,     \* the buckets, CAPACITY of them
  Hash,        \* my_hash
  Ways,        \* slots of a bucket, 2
  Store,       \* ASSOCIATE_MEM_STORE, 64
  Width        \* bits of an int, 32

\* 2^20: a code and a byte
KeySpace == CodeSpace * Radix

Keys == 0 .. KeySpace - 1

ASSUME SoftwareLZWAssumption ==
  /\ Radix \in Nat \ {0} /\ CodeSpace \in Nat /\ CodeSpace >= Radix
  /\ LowSpace \in Nat \ {0} /\ MiddleSpace \in Nat \ {0}
  /\ Hash \in [Keys -> Buckets]
  /\ Ways \in Nat /\ Store \in Nat /\ Width \in Nat

\* (prefix_code << 8) + next_char, and the mask 0xFFFFF
KeyOf(p, c) == (p * Radix + c) % KeySpace

Low(key) == key % LowSpace
Middle(key) == (key \div LowSpace) % MiddleSpace
High(key) == (key \div LowSpace) \div MiddleSpace

\* What 1 << fill is from 32 on is undefined: bits for each such fill.
Undefined == [Width .. Store - 1 -> SUBSET (0 .. Width - 1)]

\* 1 << fill, as far as a lookup sees it: match is an unsigned int.
Bits(fill, undefined) == IF fill < Width THEN {fill} ELSE undefined[fill]

-----------------------------------------------------------------------------
(* The memories: table, upper, middle, lower, value, fill *)

\* The two slots at my_hash(key), as far as they are valid.
Bucket(m, key) == m.table[Hash[key]]

HashHits(m, key) ==
  {s \in DOMAIN Bucket(m, key) : Bucket(m, key)[s].key = key}

\* assoc_lookup's match.  A lookup that meets none of its Width bits goes on to
\* shift it by Width and more, which C++ does not define, but match is 0 then, and
\* 0 shifted is 0 whether a processor takes the count modulo Width or shifts all
\* bits out: a miss.  What a compiler might make of it otherwise is left out.
Match(m, key) ==
  m.upper[High(key)] \cap m.middle[Middle(key)] \cap m.lower[Low(key)]

Least(S) == CHOOSE s \in S : \A r \in S : s <= r

\* lookup: hash_lookup, and assoc_lookup if it misses
Found(m, key) == HashHits(m, key) # {} \/ Match(m, key) # {}

Result(m, key) ==
  IF HashHits(m, key) # {}
  THEN Bucket(m, key)[Least(HashHits(m, key))].value
  ELSE m.value[Least(Match(m, key))]

HashHasRoom(m, key) == Len(Bucket(m, key)) < Ways
AssocHasRoom(m) == m.fill < Store

HashInserted(m, key, v) ==
  [m EXCEPT !.table[Hash[key]] = Append(@, [key |-> key, value |-> v % CodeSpace])]

\* Mutant of AssocInserted: the value is entered one place too far.
AssocInsertedBehind(m, key, v, undefined) ==
  LET bits == Bits(m.fill, undefined) IN
  [m EXCEPT !.upper[High(key)] = @ \cup bits,
            !.middle[Middle(key)] = @ \cup bits,
            !.lower[Low(key)] = @ \cup bits,
            !.value[(m.fill + 1) % Store] = v % CodeSpace,
            !.fill = @ + 1]

AssocInserted(m, key, v, undefined) ==
  LET bits == Bits(m.fill, undefined) IN
  [m EXCEPT !.upper[High(key)] = @ \cup bits,
            !.middle[Middle(key)] = @ \cup bits,
            !.lower[Low(key)] = @ \cup bits,
            !.value[m.fill] = v % CodeSpace,
            !.fill = @ + 1]

Collides(m, key) == ~HashHasRoom(m, key) /\ ~AssocHasRoom(m)

\* insert: where both are full nothing is entered
Inserted(m, key, v, undefined) ==
  IF HashHasRoom(m, key) THEN HashInserted(m, key, v)
  ELSE IF AssocHasRoom(m) THEN AssocInserted(m, key, v, undefined)
  ELSE m

-----------------------------------------------------------------------------
(* lzw *)

Cleared ==
  [table |-> [b \in Buckets |-> <<>>],
   upper |-> [a \in {High(k) : k \in Keys} |-> {}],
   middle |-> [a \in {Middle(k) : k \in Keys} |-> {}],
   lower |-> [a \in {Low(k) : k \in Keys} |-> {}],
   value |-> [s \in 0 .. Store - 1 |-> 0],
   fill |-> 0]

\* "init the memories with the first 256 codes": key (i << 8) + 0
Prefilled(undefined) ==
  LET m[n \in 0 .. Radix] ==
        IF n = 0 THEN Cleared
        ELSE Inserted(m[n - 1], KeyOf(n - 1, 0), n - 1, undefined)
  IN m[Radix]

\* A round of the loop, for next_char.
Step(s, char, undefined) ==
  LET key == KeyOf(s.prefix, char) IN
  IF Found(s.m, key) THEN [s EXCEPT !.prefix = Result(s.m, key)]
  ELSE IF Collides(s.m, key) THEN [s EXCEPT !.failure = TRUE]
  ELSE [s EXCEPT !.m = Inserted(@, key, s.nextCode, undefined),
                 !.codes = Append(@, s.prefix),
                 !.nextCode = @ + 1,
                 !.prefix = char]

\* The call for a chunk: codes, failure, and what else the loop ends with.
Lzw(chunk, undefined) ==
  LET s[n \in 1 .. Len(chunk)] ==
        IF n = 1 THEN [m |-> Prefilled(undefined), prefix |-> chunk[1], codes |-> <<>>,
                       nextCode |-> Radix, failure |-> FALSE]
        ELSE Step(s[n - 1], chunk[n], undefined)
      end == s[Len(chunk)]
  IN [end EXCEPT !.codes = Append(@, end.prefix)]

\* What the coder needs to be right: no zero byte behind the first, no more
\* entries in the associative memory than an int has bits, and codes that fit.
WithinLimits(chunk, result) ==
  /\ \A n \in 2 .. Len(chunk) : chunk[n] # 0
  /\ result.m.fill <= Width
  /\ result.nextCode <= CodeSpace
=============================================================================
