--------------------------- MODULE LZWKernelProofs ---------------------------
(***************************************************************************)
(* The kernel's memories are the dictionary of LZWEncoder, for every hash  *)
(* function and every size of the memories.  With that dictionary the      *)
(* kernel is, byte by byte, where the reference encoding of the test bench *)
(* is, as long as no entry was dropped; so the bench passes unless the     *)
(* kernel reports a failure.                                               *)
(***************************************************************************)
EXTENDS TestBench, CodingProofs

SlotValue == 0 .. CodeSpace - 1
Entry == [key : Keys, value : SlotValue]

-----------------------------------------------------------------------------
(* Keys *)

LEMMA TimesMonotonic ==
  ASSUME NEW d \in Nat, NEW x \in Nat, NEW y \in Nat, x <= y
  PROVE  d * x <= d * y /\ d * x \in Nat /\ d * y \in Nat
<1>1. PICK z \in Nat : y = x + z
  BY y = x + (y - x), y - x \in Nat
<1>2. d * y = d * x + d * z /\ d * z \in Nat /\ d * x \in Nat
  BY <1>1, SMT
<1> QED BY <1>2, SMT

\* A quotient and a remainder determine each other.
LEMMA QuotientUnique ==
  ASSUME NEW d \in Nat, NEW p \in Nat, NEW q \in Nat,
         NEW c \in 0 .. d - 1, NEW e \in 0 .. d - 1, d * p + c = d * q + e
  PROVE  p = q /\ c = e
<1>1. \A x, y \in Nat, a, b \in 0 .. d - 1 : x < y => d * x + a # d * y + b
  <2> SUFFICES ASSUME NEW x \in Nat, NEW y \in Nat,
                      NEW a \in 0 .. d - 1, NEW b \in 0 .. d - 1, x < y
               PROVE  d * x + a # d * y + b
    OBVIOUS
  <2>1. d * (x + 1) <= d * y /\ d * (x + 1) \in Nat /\ d * y \in Nat
    BY TimesMonotonic, x + 1 \in Nat, x + 1 <= y
  <2>2. d * (x + 1) = d * x + d /\ d * x \in Nat
    BY SMT
  <2> QED BY <2>1, <2>2, SMT
<1>2. ~(p < q) /\ ~(q < p)
  BY <1>1
<1>3. p = q
  BY <1>2
<1>4. d * p \in Nat /\ d * q = d * p
  BY <1>3, SMT
<1> QED BY <1>3, <1>4, SMT

LEMMA ConstantFacts ==
  /\ Radix \in Nat /\ Radix > 0 /\ CodeSpace \in Nat /\ KeySpace \in Nat
  /\ LowSpace \in Nat /\ LowSpace > 0 /\ MiddleSpace \in Nat /\ MiddleSpace > 0
  /\ Ways \in Nat /\ Store \in Nat /\ Store <= 64
  /\ Hash \in [Keys -> Buckets]
  BY KernelAssumption, SMT DEF KeySpace

\* A key holds a code and a byte: neither mask takes anything away.
LEMMA KeyFits ==
  ASSUME NEW p \in SlotValue, NEW c \in Byte
  PROVE  KeyOf(p, c) = Radix * p + c /\ KeyOf(p, c) \in Keys
<1>1. p \in Nat /\ c \in Nat /\ CodeSpace - 1 \in Nat /\ p <= CodeSpace - 1
  BY ConstantFacts DEF SlotValue, Byte
<1>2. Radix * p <= Radix * (CodeSpace - 1) /\ Radix * p \in Nat
  BY <1>1, ConstantFacts, TimesMonotonic
<1>3. Radix * (CodeSpace - 1) = KeySpace - Radix /\ p * Radix = Radix * p
  BY <1>1, ConstantFacts, SMT DEF KeySpace
<1>4. Radix * p + c \in 0 .. KeySpace - 1
  BY <1>1, <1>2, <1>3, ConstantFacts, SMT DEF Byte
<1>5. \A x \in 0 .. KeySpace - 1 : x % KeySpace = x
  BY ConstantFacts, SMT
<1> QED BY <1>3, <1>4, <1>5 DEF KeyOf, Keys

LEMMA KeysDiffer ==
  ASSUME NEW p \in SlotValue, NEW c \in Byte, NEW q \in SlotValue, NEW d \in Byte,
         KeyOf(p, c) = KeyOf(q, d)
  PROVE  p = q /\ c = d
<1>1. Radix * p + c = Radix * q + d
  BY KeyFits
<1>2. p \in Nat /\ q \in Nat /\ Radix \in Nat /\ c \in 0 .. Radix - 1 /\ d \in 0 .. Radix - 1
  BY ConstantFacts DEF SlotValue, Byte
<1> QED BY <1>1, <1>2, QuotientUnique

\* The three segments are the whole key.
LEMMA SegmentsDiffer ==
  ASSUME NEW x \in Keys, NEW y \in Keys,
         High(x) = High(y), Middle(x) = Middle(y), Low(x) = Low(y)
  PROVE  x = y
<1>1. x \in Nat /\ y \in Nat
  BY ConstantFacts DEF Keys
<1>2. /\ x = LowSpace * (x \div LowSpace) + (x % LowSpace) /\ x \div LowSpace \in Nat
      /\ y = LowSpace * (y \div LowSpace) + (y % LowSpace) /\ y \div LowSpace \in Nat
  BY <1>1, ConstantFacts, DivisionBounds
<1> DEFINE xq == x \div LowSpace
           yq == y \div LowSpace
<1>3. xq \in Nat /\ yq \in Nat
  BY <1>2
<1>4. xq \div MiddleSpace = yq \div MiddleSpace /\ xq % MiddleSpace = yq % MiddleSpace
  BY DEF High, Middle
<1> HIDE DEF xq, yq
<1>5. /\ xq = MiddleSpace * (xq \div MiddleSpace) + (xq % MiddleSpace)
      /\ yq = MiddleSpace * (yq \div MiddleSpace) + (yq % MiddleSpace)
  BY <1>3, ConstantFacts, DivisionBounds
<1>6. xq = yq
  BY <1>4, <1>5, Zenon
<1>7. x = LowSpace * xq + Low(x) /\ y = LowSpace * yq + Low(y)
  BY <1>2 DEF Low, xq, yq
<1> QED BY <1>6, <1>7, Zenon

\* The shifter finds a single bit.
LEMMA SingleBit ==
  ASSUME NEW b \in 0 .. 63
  PROVE  Address({b}) = b
<1> DEFINE At(a, w, s) == /\ s = [bits |-> {b - a}, address |-> a]
                          /\ a \in 0 .. b /\ b - a < w
<1>1. \A w \in Nat : \A s, a : w > 0 /\ At(a, 2 * w, s) =>
        At(a, w, Shift(s, w)) \/ At(a + w, w, Shift(s, w))
  <2> SUFFICES ASSUME NEW w \in Nat, NEW s, NEW a, w > 0, At(a, 2 * w, s)
               PROVE  At(a, w, Shift(s, w)) \/ At(a + w, w, Shift(s, w))
    OBVIOUS
  <2>1. s.bits = {b - a} /\ s.address = a /\ a \in Int /\ a >= 0 /\ a <= b /\ b \in Int
    BY SMT
  <2>2. CASE b - a < w
    <3>1. b - a \in 0 .. w - 1
      BY <2>1, <2>2
    <3>2. Shift(s, w) = s
      BY <2>1, <3>1, Zenon DEF Shift
    <3> QED BY <2>2, <3>2
  <2>3. CASE ~(b - a < w)
    <3>1. b - a \notin 0 .. w - 1
      BY <2>1, <2>3
    <3>2. s.bits \cap (0 .. w - 1) = {}
      BY <2>1, <3>1, Zenon
    <3>3. {x - w : x \in s.bits} = {b - a - w}
      BY <2>1, Zenon
    <3>4. Shift(s, w) = [bits |-> {b - a - w}, address |-> a + w]
      BY <2>1, <3>2, <3>3, Zenon DEF Shift
    <3>5. b - a - w = b - (a + w) /\ a + w \in 0 .. b /\ b - (a + w) < w
      BY <2>1, <2>3, SMT
    <3>6. Shift(s, w) = [bits |-> {b - (a + w)}, address |-> a + w]
      BY <3>4, <3>5, Zenon
    <3> QED BY <3>5, <3>6
  <2> QED BY <2>2, <2>3
<1> DEFINE Narrow(w, s) == \E a : At(a, w, s)
<1>2. \A w \in Nat : \A s : w > 0 /\ Narrow(2 * w, s) => Narrow(w, Shift(s, w))
  <2> HIDE DEF At
  <2> QED BY <1>1, Zenon
<1> DEFINE s0 == [bits |-> {b}, address |-> 0]
           s1 == Shift(s0, 32)
           s2 == Shift(s1, 16)
           s3 == Shift(s2, 8)
           s4 == Shift(s3, 4)
           s5 == Shift(s4, 2)
           s6 == Shift(s5, 1)
<1>3. Narrow(64, s0)
  <2>1. b - 0 = b /\ 0 \in 0 .. b /\ b - 0 < 64
    OBVIOUS
  <2>2. s0 = [bits |-> {b - 0}, address |-> 0]
    BY <2>1
  <2>3. At(0, 64, s0)
    BY <2>1, <2>2
  <2> QED BY <2>3
<1>4. s6.address = b
  <2> HIDE DEF Narrow, s0, s1, s2, s3, s4, s5, s6
  <2>0. 64 = 2 * 32 /\ 32 = 2 * 16 /\ 16 = 2 * 8 /\ 8 = 2 * 4 /\ 4 = 2 * 2 /\ 2 = 2 * 1
    OBVIOUS
  <2>1. Narrow(32, s1)
    BY <1>2, <1>3, <2>0, 32 \in Nat DEF s1
  <2>2. Narrow(16, s2)
    BY <1>2, <2>1, <2>0, 16 \in Nat DEF s2
  <2>3. Narrow(8, s3)
    BY <1>2, <2>2, <2>0, 8 \in Nat DEF s3
  <2>4. Narrow(4, s4)
    BY <1>2, <2>3, <2>0, 4 \in Nat DEF s4
  <2>5. Narrow(2, s5)
    BY <1>2, <2>4, <2>0, 2 \in Nat DEF s5
  <2>6. Narrow(1, s6)
    BY <1>2, <2>5, <2>0, 1 \in Nat DEF s6
  <2>7. PICK a : At(a, 1, s6)
    BY <2>6 DEF Narrow
  <2>8. s6.address = a /\ a \in 0 .. b /\ b - a < 1
    BY <2>7
  <2> QED BY <2>8
<1> QED BY <1>4 DEF Address
-----------------------------------------------------------------------------
(* The inductive invariant *)

Memory(words) == [words -> SUBSET (0 .. fill - 1)]

Types ==
  /\ pc \in {"code", "done"}
  /\ chunk \in Inputs
  /\ i \in 1 .. Len(chunk)
  /\ nextCode \in Radix .. Radix + i - 1
  /\ prefix \in 0 .. nextCode - 1
  /\ codes \in Seq(Nat)
  /\ failure \in BOOLEAN
  /\ table \in [Buckets -> Seq(Entry)]
  /\ fill \in 0 .. Store
  /\ upper \in Memory(HighWords)
  /\ middle \in Memory(MiddleWords)
  /\ lower \in Memory(LowWords)
  /\ value \in [0 .. Store - 1 -> SlotValue]

\* What is stored was given out, and a key has one entry.
Entries ==
  /\ \A b \in Buckets : \A s \in 1 .. Len(table[b]) : table[b][s].value < nextCode
  /\ \A s \in 0 .. fill - 1 : value[s] < nextCode
  /\ \A key \in Keys : \A s, r \in Match(key) : s = r
  /\ \A key \in Keys : \A s, r \in HashHits(key) : s = r

\* A bit for each entry in each of the key memories.
OneBit(memory, words) ==
  \A s \in 0 .. fill - 1 : \E a \in words : \A b \in words : s \in memory[b] <=> b = a

Bits ==
  OneBit(upper, HighWords) /\ OneBit(middle, MiddleWords) /\ OneBit(lower, LowWords)

\* Each code given out has led to one entry at most.
Capacity ==
  /\ \A b \in Buckets : Len(table[b]) <= Ways /\ Len(table[b]) + fill <= nextCode - Radix
  /\ FailsBeyondCapacity

IInv == Types /\ Entries /\ Bits /\ Capacity

LEMMA Grounds ==
  ASSUME Types
  PROVE  /\ chunk \in Seq(Byte) /\ Len(chunk) \in Nat
         /\ \A k \in 1 .. Len(chunk) : chunk[k] \in Byte
         /\ Radix + Len(chunk) - 1 <= CodeSpace
         /\ i \in Nat /\ nextCode \in Nat /\ prefix \in Nat /\ fill \in Nat
         /\ prefix \in SlotValue
         /\ i < Len(chunk) => nextCode \in SlotValue /\ Stored(nextCode) = nextCode
         /\ i < Len(chunk) => chunk[i + 1] \in Byte
         /\ \A b \in Buckets : table[b] \in Seq(Entry) /\ Len(table[b]) \in Nat
<1>1. chunk \in Seq(Byte) /\ Radix + Len(chunk) - 1 <= CodeSpace
  BY KernelAssumption DEF Types, Byte
<1>2. Len(chunk) \in Nat /\ \A k \in 1 .. Len(chunk) : chunk[k] \in Byte
  BY <1>1, LenProperties, ElementOfSeq
<1>3. i \in Nat /\ nextCode \in Nat /\ prefix \in Nat /\ fill \in Nat
  BY ConstantFacts, <1>2, SMT DEF Types
<1>4. prefix \in SlotValue
  BY ConstantFacts, <1>1, <1>2, SMT DEF Types, SlotValue
<1>5. ASSUME i < Len(chunk) PROVE nextCode \in SlotValue /\ chunk[i + 1] \in Byte
  BY <1>5, ConstantFacts, <1>1, <1>2, <1>3, SMT DEF Types, SlotValue
<1>6. \A x \in SlotValue : x % CodeSpace = x
  BY ConstantFacts, SMT DEF SlotValue
<1>7. \A b \in Buckets : table[b] \in Seq(Entry) /\ Len(table[b]) \in Nat
  BY LenProperties DEF Types
<1> QED BY <1>1, <1>2, <1>3, <1>4, <1>5, <1>6, <1>7 DEF Stored

\* A lookup that hits finds its key's only entry.
LEMMA HashEntry ==
  ASSUME Types, Entries, NEW key \in Keys, NEW s \in HashHits(key)
  PROVE  /\ s \in 1 .. Len(Bucket(key)) /\ HashHits(key) = {s}
         /\ HashValue(key) = Bucket(key)[s].value
<1>1. Hash[key] \in Buckets
  BY ConstantFacts
<1>2. s \in 1 .. Len(Bucket(key)) /\ s \in Nat
  BY <1>1, Grounds, LenProperties DEF HashHits, Bucket
<1>3. HashHits(key) = {s}
  BY DEF Entries
<1>4. (CHOOSE t \in {s} : \A r \in {s} : t <= r) = s
  BY <1>2, s <= s
<1> QED BY <1>2, <1>3, <1>4 DEF HashValue

LEMMA AssocEntry ==
  ASSUME Types, Entries, NEW key \in Keys, NEW s \in Match(key)
  PROVE  s \in 0 .. fill - 1 /\ Match(key) = {s} /\ Address(Match(key)) = s
<1>1. s \in 0 .. fill - 1
  BY DEF Match, Types, Memory, HighWords
<1>2. Match(key) = {s}
  BY DEF Entries
<1>3. s \in 0 .. 63
  BY <1>1, ConstantFacts, SMT DEF Types
<1> QED BY <1>1, <1>2, <1>3, SingleBit

\* What a lookup returns was given out.
LEMMA ResultGiven ==
  ASSUME Types, Entries, NEW key \in Keys, Found(key)
  PROVE  Result(key) \in 0 .. nextCode - 1
<1>1. Hash[key] \in Buckets
  BY ConstantFacts
<1>2. CASE HashHits(key) # {}
  <2>1. PICK s : s \in HashHits(key)
    BY <1>2
  <2>2. s \in 1 .. Len(Bucket(key)) /\ Result(key) = Bucket(key)[s].value
    BY <2>1, <1>2, HashEntry DEF Result
  <2>3. Bucket(key) \in Seq(Entry)
    BY <1>1, Grounds DEF Bucket
  <2>4. Bucket(key)[s] \in Entry
    BY <2>2, <2>3, ElementOfSeq
  <2>5. Bucket(key)[s].value \in SlotValue /\ Bucket(key)[s].value < nextCode
    BY <2>4, <2>2, <1>1 DEF Entry, Entries, Bucket
  <2> QED BY <2>2, <2>5, ConstantFacts, Grounds, SMT DEF SlotValue
<1>3. CASE HashHits(key) = {}
  <2>1. PICK s : s \in Match(key)
    BY <1>3 DEF Found
  <2>2. s \in 0 .. fill - 1 /\ Result(key) = value[s]
    BY <1>3, <2>1, AssocEntry DEF Result
  <2>3. s \in 0 .. Store - 1
    BY <2>2, ConstantFacts, SMT DEF Types
  <2>4. value[s] \in SlotValue /\ value[s] < nextCode
    BY <2>2, <2>3 DEF Types, Entries
  <2> QED BY <2>2, <2>4, ConstantFacts, Grounds, SMT DEF SlotValue
<1> QED BY <1>2, <1>3

-----------------------------------------------------------------------------
(* What an insertion does to the lookups *)

\* In the hash table: the new key's lookup finds the new entry, no other
\* lookup changes.
LEMMA HashInsertLookups ==
  ASSUME IInv, NEW new \in Keys, NEW v \in SlotValue, ~Found(new),
         HashInsert(new, v), Stored(v) = v, NEW key \in Keys
  PROVE  /\ Match(key)' = Match(key)
         /\ Len(Bucket(key)') \in Nat /\ Bucket(key)' \in Seq(Entry)
         /\ key # new => HashHits(key)' = HashHits(key)
         /\ key # new => \A s \in HashHits(key) : Bucket(key)'[s] = Bucket(key)[s]
         /\ key = new => /\ HashHits(key)' = {Len(Bucket(new)) + 1}
                         /\ Bucket(key)'[Len(Bucket(new)) + 1].value = v
<1> DEFINE entry == [key |-> new, value |-> v]
           old == Bucket(key)
<1>1. Hash[key] \in Buckets /\ Hash[new] \in Buckets
  BY ConstantFacts
<1>2. old \in Seq(Entry) /\ Len(old) \in Nat /\ DOMAIN old = 1 .. Len(old)
  BY <1>1, Grounds, LenProperties DEF Bucket, IInv
<1>3. entry \in Entry
  BY DEF Entry
<1>4. table' = [table EXCEPT ![Hash[new]] = Append(@, entry)]
  BY DEF HashInsert
<1>5. Match(key)' = Match(key)
  BY DEF HashInsert, Match
<1>6. CASE Hash[key] # Hash[new]
  <2>1. Bucket(key)' = old
    BY <1>1, <1>4, <1>6 DEF Bucket, IInv, Types
  <2>2. HashHits(key)' = HashHits(key)
    BY <2>1 DEF HashHits
  <2> QED BY <1>2, <1>5, <1>6, <2>1, <2>2
<1>7. CASE Hash[key] = Hash[new]
  <2>1. Bucket(key)' = Append(old, entry)
    BY <1>1, <1>4, <1>7 DEF Bucket, IInv, Types
  <2>2. /\ Append(old, entry) \in Seq(Entry)
        /\ Len(Append(old, entry)) = Len(old) + 1
        /\ DOMAIN Append(old, entry) = 1 .. Len(old) + 1
        /\ \A s \in 1 .. Len(old) : Append(old, entry)[s] = old[s]
        /\ Append(old, entry)[Len(old) + 1] = entry
    BY <1>2, <1>3, AppendProperties, LenProperties
  <2>3. HashHits(key)' = {s \in 1 .. Len(old) + 1 : Append(old, entry)[s].key = key}
    BY <2>1, <2>2 DEF HashHits
  <2>4. 1 .. Len(old) + 1 = (1 .. Len(old)) \cup {Len(old) + 1}
    BY <1>2
  <2>5. HashHits(key) = {s \in 1 .. Len(old) : old[s].key = key}
    BY <1>2 DEF HashHits
  <2>6. HashHits(key)' = HashHits(key) \cup (IF key = new THEN {Len(old) + 1} ELSE {})
    <3> HIDE DEF old
    <3>1. entry.key = new
      OBVIOUS
    <3> QED BY <2>2, <2>3, <2>4, <2>5, <3>1, Zenon
  <2>7. key = new => HashHits(key) = {}
    BY DEF Found
  <2>8. key = new => old = Bucket(new)
    OBVIOUS
  <2>9. \A s \in HashHits(key) : s \in 1 .. Len(old)
    BY <2>5
  <2>10. entry.value = v
    OBVIOUS
  <2> HIDE DEF old, entry
  <2>11. Bucket(key)' \in Seq(Entry) /\ Len(Bucket(key)') \in Nat
    BY <1>2, <2>1, <2>2, Zenon, LenProperties
  <2>12. key # new => /\ HashHits(key)' = HashHits(key)
                      /\ \A s \in HashHits(key) : Bucket(key)'[s] = old[s]
    BY <2>1, <2>2, <2>6, <2>9
  <2>13. key = new => /\ HashHits(key)' = {Len(Bucket(new)) + 1}
                      /\ Bucket(key)'[Len(Bucket(new)) + 1].value = v
    BY <2>1, <2>2, <2>6, <2>7, <2>8, <2>10
  <2> QED BY <1>5, <2>11, <2>12, <2>13 DEF old
<1> QED BY <1>6, <1>7

\* In the associative memory.
LEMMA AssocInsertLookups ==
  ASSUME IInv, NEW new \in Keys, NEW v \in SlotValue, ~Found(new),
         AssocInsert(new, v), Stored(v) = v, NEW key \in Keys
  PROVE  /\ Bucket(key)' = Bucket(key) /\ HashHits(key)' = HashHits(key)
         /\ key # new => Match(key)' = Match(key)
         /\ key = new => Match(key)' = {fill}
         /\ value'[fill] = v
         /\ \A s \in 0 .. fill - 1 : value'[s] = value[s]
<1>1. /\ High(key) \in HighWords /\ Middle(key) \in MiddleWords /\ Low(key) \in LowWords
      /\ High(new) \in HighWords /\ Middle(new) \in MiddleWords /\ Low(new) \in LowWords
  BY DEF HighWords, MiddleWords, LowWords
<1>2. /\ upper'[High(key)] = upper[High(key)] \cup (IF High(key) = High(new) THEN {fill} ELSE {})
      /\ middle'[Middle(key)] =
           middle[Middle(key)] \cup (IF Middle(key) = Middle(new) THEN {fill} ELSE {})
      /\ lower'[Low(key)] = lower[Low(key)] \cup (IF Low(key) = Low(new) THEN {fill} ELSE {})
  BY <1>1, Zenon DEF AssocInsert, IInv, Types, Memory
<1>3. fill \notin upper[High(key)] /\ fill \notin middle[Middle(key)]
  BY <1>1, Grounds, fill \notin 0 .. fill - 1 DEF IInv, Types, Memory
<1>4. Match(key)' = upper'[High(key)] \cap middle'[Middle(key)] \cap lower'[Low(key)]
  BY DEF Match
<1>5. key # new => ~(High(key) = High(new) /\ Middle(key) = Middle(new) /\ Low(key) = Low(new))
  BY SegmentsDiffer
<1>6. fill \notin lower[Low(key)]
  BY <1>1, Grounds, fill \notin 0 .. fill - 1 DEF IInv, Types, Memory
<1>7. key # new => Match(key)' = Match(key)
  BY <1>2, <1>3, <1>4, <1>5, <1>6, Zenon DEF Match
<1>8. key = new => Match(key) = {}
  BY DEF Found
<1>9. key = new => Match(key)' = {fill}
  <2> SUFFICES ASSUME key = new PROVE Match(key)' = {fill}
    OBVIOUS
  <2>1. /\ upper'[High(key)] = upper[High(key)] \cup {fill}
        /\ middle'[Middle(key)] = middle[Middle(key)] \cup {fill}
        /\ lower'[Low(key)] = lower[Low(key)] \cup {fill}
    BY <1>2, Zenon
  <2> QED BY <2>1, <1>4, <1>8, Zenon DEF Match
<1>10. Bucket(key)' = Bucket(key) /\ HashHits(key)' = HashHits(key)
  BY DEF AssocInsert, Bucket, HashHits
<1>11. fill \in 0 .. Store - 1
  BY ConstantFacts, SMT DEF IInv, Types, AssocInsert, AssocFull
<1>12. value' = [value EXCEPT ![fill] = v] /\ value \in [0 .. Store - 1 -> SlotValue]
  BY DEF AssocInsert, IInv, Types
<1>13. \A s \in 0 .. fill - 1 : s \in 0 .. Store - 1 /\ s # fill
  BY <1>11, ConstantFacts, SMT
<1>14. value'[fill] = v /\ \A s \in 0 .. fill - 1 : value'[s] = value[s]
  BY <1>11, <1>12, <1>13
<1> QED BY <1>7, <1>9, <1>10, <1>14

\* The value a lookup finds in a bucket, of its key's only entry.
LEMMA SingleHit ==
  ASSUME NEW bucket, NEW s \in Nat
  PROVE  bucket[CHOOSE t \in {s} : \A r \in {s} : t <= r].value = bucket[s].value
<1>1. (CHOOSE t \in {s} : \A r \in {s} : t <= r) = s
  BY s <= s
<1> QED BY <1>1

\* Either way the new key is found, with its code, and nothing else changes.
LEMMA InsertLookups ==
  ASSUME IInv, NEW new \in Keys, NEW v \in SlotValue, ~Found(new),
         HashInsert(new, v) \/ AssocInsert(new, v), Stored(v) = v, NEW key \in Keys
  PROVE  /\ Found(key)' <=> Found(key) \/ key = new
         /\ key # new /\ Found(key) => Result(key)' = Result(key)
         /\ key = new => Result(key)' = v
<1>1. Types /\ Entries
  BY DEF IInv
<1>2. Hash[key] \in Buckets /\ Len(Bucket(key)) \in Nat
  BY <1>1, ConstantFacts, Grounds DEF Bucket
<1>3. CASE HashInsert(new, v)
  <2>1. value' = value
    BY <1>3 DEF HashInsert
  <2>2. Match(key)' = Match(key)
    BY <1>3, HashInsertLookups
  <2>3. CASE key # new
    <3>1. /\ HashHits(key)' = HashHits(key)
          /\ \A s \in HashHits(key) : Bucket(key)'[s] = Bucket(key)[s]
      BY <1>3, <2>3, HashInsertLookups
    <3>2. Found(key)' <=> Found(key)
      BY <2>2, <3>1 DEF Found
    <3>3. ASSUME HashHits(key) # {} PROVE HashValue(key)' = HashValue(key)
      <4>1. PICK s : s \in HashHits(key)
        BY <3>3
      <4>2. s \in Nat /\ HashHits(key) = {s} /\ HashValue(key) = Bucket(key)[s].value
        BY <4>1, <1>1, <1>2, HashEntry
      <4>3. HashValue(key)' = Bucket(key)'[CHOOSE t \in {s} : \A r \in {s} : t <= r].value
        BY <3>1, <4>2 DEF HashValue
      <4> QED BY <4>1, <4>2, <4>3, <3>1, SingleHit
    <3>4. Result(key)' = Result(key)
      BY <2>1, <2>2, <3>1, <3>3 DEF Result
    <3> QED BY <2>3, <3>2, <3>4
  <2>4. CASE key = new
    <3>1. /\ HashHits(key)' = {Len(Bucket(new)) + 1}
          /\ Bucket(key)'[Len(Bucket(new)) + 1].value = v
          /\ Len(Bucket(new)) + 1 \in Nat
      BY <1>2, <1>3, <2>4, HashInsertLookups
    <3>2. HashValue(key)' = v
      <4> DEFINE s == Len(Bucket(new)) + 1
      <4>1. HashValue(key)' = Bucket(key)'[CHOOSE t \in {s} : \A r \in {s} : t <= r].value
        BY <3>1 DEF HashValue
      <4> QED BY <4>1, <3>1, SingleHit
    <3> QED BY <2>4, <3>1, <3>2 DEF Found, Result
  <2> QED BY <2>3, <2>4
<1>4. CASE AssocInsert(new, v)
  <2>1. Bucket(key)' = Bucket(key) /\ HashHits(key)' = HashHits(key)
    BY <1>4, AssocInsertLookups
  <2>2. HashValue(key)' = HashValue(key)
    BY <2>1 DEF HashValue
  <2>3. value'[fill] = v /\ \A s \in 0 .. fill - 1 : value'[s] = value[s]
    BY <1>4, AssocInsertLookups
  <2>4. CASE key # new
    <3>1. Match(key)' = Match(key)
      BY <1>4, <2>4, AssocInsertLookups
    <3>2. ASSUME Match(key) # {}
          PROVE  value'[Address(Match(key))] = value[Address(Match(key))]
      <4>1. PICK s : s \in Match(key)
        BY <3>2
      <4> QED BY <4>1, <1>1, <2>3, AssocEntry
    <3>3. Found(key)' <=> Found(key)
      BY <2>1, <3>1 DEF Found
    <3>4. Found(key) => Result(key)' = Result(key)
      BY <2>1, <2>2, <3>1, <3>2 DEF Found, Result
    <3> QED BY <2>4, <3>3, <3>4
  <2>5. CASE key = new
    <3>1. Match(key)' = {fill} /\ HashHits(key)' = {}
      BY <1>4, <2>1, <2>5, AssocInsertLookups DEF Found
    <3>2. fill \in 0 .. 63
      BY <1>4, ConstantFacts, SMT DEF IInv, Types, AssocInsert, AssocFull
    <3>3. Result(key)' = v
      BY <3>1, <3>2, <2>3, SingleBit DEF Result
    <3> QED BY <2>5, <3>1, <3>3 DEF Found
  <2> QED BY <2>4, <2>5
<1> QED BY <1>3, <1>4

-----------------------------------------------------------------------------
(* The invariant holds *)

LEMMA ClearedMemory ==
  ASSUME NEW words
  PROVE  /\ Cleared(words) \in [words -> SUBSET (0 .. 0 - 1)]
         /\ \A a \in words : Cleared(words)[a] = {}
  BY DEF Cleared

\* The state in which compute_lzw begins.
Fresh ==
  /\ pc = "code" /\ chunk \in Inputs /\ i = 1 /\ prefix = chunk[1]
  /\ nextCode = Radix /\ codes = <<>> /\ failure = FALSE
  /\ table = [b \in Buckets |-> <<>>]
  /\ upper = Cleared(HighWords) /\ middle = Cleared(MiddleWords)
  /\ lower = Cleared(LowWords) /\ fill = 0
  /\ value \in [0 .. Store - 1 -> SlotValue]

LEMMA NothingFound ==
  ASSUME Fresh, NEW key \in Keys
  PROVE  HashHits(key) = {} /\ Match(key) = {} /\ ~Found(key)
<1>1. Hash[key] \in Buckets
  BY ConstantFacts
<1>2. Bucket(key) = <<>>
  BY <1>1 DEF Fresh, Bucket
<1>3. HashHits(key) = {}
  BY <1>2 DEF HashHits
<1>4. Match(key) = {}
  <2>1. High(key) \in HighWords
    BY DEF HighWords
  <2> QED BY <2>1, ClearedMemory DEF Fresh, Match
<1> QED BY <1>3, <1>4 DEF Found

LEMMA FreshInv == Fresh => IInv
<1> SUFFICES ASSUME Fresh PROVE IInv
  OBVIOUS
<1>1. chunk \in Seq(Byte) /\ chunk # <<>>
  BY KernelAssumption DEF Fresh, Byte
<1>2. Len(chunk) \in Nat /\ 1 \in 1 .. Len(chunk) /\ chunk[1] \in Byte
  BY <1>1, LenProperties, ElementOfSeq, EmptySeq, SMT
<1>3. /\ i \in 1 .. Len(chunk) /\ nextCode \in Radix .. Radix + i - 1
      /\ prefix \in 0 .. nextCode - 1 /\ fill \in 0 .. Store
  BY <1>2, ConstantFacts DEF Fresh, Byte
<1>4. /\ upper \in Memory(HighWords) /\ middle \in Memory(MiddleWords)
      /\ lower \in Memory(LowWords)
  BY ClearedMemory DEF Fresh, Memory
<1>5. table \in [Buckets -> Seq(Entry)] /\ codes \in Seq(Nat)
  BY EmptySeq DEF Fresh
<1>6. Types
  BY <1>3, <1>4, <1>5 DEF Types, Fresh
<1>7. \A b \in Buckets : Len(table[b]) = 0
  BY EmptySeq DEF Fresh
<1>8. \A s \in 1 .. 0 : FALSE
  OBVIOUS
<1>9. \A s \in 0 .. fill - 1 : FALSE
  BY DEF Fresh
<1>10. Entries
  BY <1>7, <1>8, <1>9, NothingFound DEF Entries
<1>11. Bits
  BY <1>9 DEF Bits, OneBit
<1>12. Capacity
  <2>1. failure = FALSE /\ fill = 0 /\ nextCode - Radix = 0
    BY ConstantFacts DEF Fresh
  <2> QED BY <1>7, <2>1, ConstantFacts DEF Capacity, FailsBeyondCapacity
<1> QED BY <1>6, <1>10, <1>11, <1>12 DEF IInv

LEMMA InitFresh ==
  ASSUME Init
  PROVE  Fresh
<1>2. 0 \in SlotValue \/ Store = 0
  <2>1. PICK c \in Inputs : chunk = c
    BY DEF Init
  <2>2. Radix + Len(c) - 1 <= CodeSpace /\ c \in Seq(Byte) /\ c # <<>>
    BY KernelAssumption DEF Byte
  <2>3. Len(c) \in Nat /\ Len(c) # 0
    BY <2>2, EmptySeq, LenProperties
  <2>4. 0 <= CodeSpace - 1
    BY <2>2, <2>3, ConstantFacts, SMT
  <2> QED BY <2>4, ConstantFacts DEF SlotValue
<1>3. value \in [0 .. Store - 1 -> SlotValue]
  BY <1>2, ConstantFacts DEF Init
<1> QED BY <1>3 DEF Init, Fresh

LEMMA HitInv ==
  ASSUME IInv, Hit
  PROVE  IInv'
<1>1. Types /\ Entries /\ Bits /\ Capacity
  BY DEF IInv
<1>2. i < Len(chunk) /\ Found(Key) /\ prefix' = Result(Key) /\ i' = i + 1
  BY DEF Hit
<1>3. Key \in Keys
  BY <1>1, <1>2, Grounds, KeyFits DEF Key
<1>4. prefix' \in 0 .. nextCode - 1
  BY <1>1, <1>2, <1>3, ResultGiven
<1>5. UNCHANGED <<pc, chunk, nextCode, codes, failure, tableVars>>
  BY DEF Hit
<1>6. i' \in 1 .. Len(chunk) /\ nextCode \in Radix .. Radix + i' - 1
  BY <1>1, <1>2, Grounds, ConstantFacts, SMT DEF Types
<1>7. Types'
  BY <1>1, <1>4, <1>5, <1>6 DEF Types, Memory, tableVars
<1>8. Entries'
  BY <1>1, <1>5 DEF Entries, tableVars, Match, HashHits, Bucket
<1>9. Bits' /\ Capacity'
  BY <1>1, <1>5 DEF Bits, OneBit, Capacity, FailsBeyondCapacity, tableVars
<1> QED BY <1>7, <1>8, <1>9 DEF IInv

LEMMA FlushInv ==
  ASSUME IInv, Flush
  PROVE  IInv'
<1>1. Types /\ Entries /\ Bits /\ Capacity
  BY DEF IInv
<1>2. /\ UNCHANGED <<chunk, i, prefix, nextCode, failure, tableVars>>
      /\ pc' = "done" /\ codes' = Append(codes, prefix)
  BY DEF Flush
<1>3. codes' \in Seq(Nat)
  BY <1>1, <1>2, Grounds, AppendProperties DEF Types
<1>4. Types'
  BY <1>1, <1>2, <1>3 DEF Types, Memory, tableVars
<1>5. Entries'
  BY <1>1, <1>2 DEF Entries, tableVars, Match, HashHits, Bucket
<1>6. Bits' /\ Capacity'
  BY <1>1, <1>2 DEF Bits, OneBit, Capacity, FailsBeyondCapacity, tableVars
<1> QED BY <1>4, <1>5, <1>6 DEF IInv

LEMMA NextChunkInv ==
  ASSUME IInv, NextChunk
  PROVE  Fresh' /\ IInv'
<1>1. Fresh'
  BY DEF NextChunk, Fresh, IInv, Types
<1> QED BY <1>1, FreshInv, PTL

\* What the three ways a miss can end have in common.
LEMMA MissTypes ==
  ASSUME IInv, Miss
  PROVE  /\ Key \in Keys /\ ~Found(Key) /\ Insert(Key, nextCode)
         /\ Hash[Key] \in Buckets
         /\ nextCode \in SlotValue /\ Stored(nextCode) = nextCode
         /\ nextCode' = nextCode + 1 /\ nextCode \in Nat
         /\ pc' \in {"code", "done"} /\ chunk' \in Inputs
         /\ i' \in 1 .. Len(chunk') /\ nextCode' \in Radix .. Radix + i' - 1
         /\ prefix' \in 0 .. nextCode' - 1 /\ codes' \in Seq(Nat)
<1>1. Types /\ i < Len(chunk) /\ pc' = pc /\ chunk' = chunk /\ i' = i + 1
  BY DEF IInv, Miss
<1>2. Key \in Keys /\ Hash[Key] \in Buckets
  BY <1>1, Grounds, KeyFits, ConstantFacts DEF Key
<1>3. /\ i' \in 1 .. Len(chunk') /\ nextCode + 1 \in Radix .. Radix + i' - 1
  BY <1>1, Grounds, ConstantFacts, SMT DEF Types
<1>4. chunk[i + 1] \in Byte
  BY <1>1, Grounds
<1>5. prefix' \in 0 .. nextCode
  BY <1>1, <1>4, ConstantFacts, SMT DEF Types, Byte, Miss
<1>6. codes' \in Seq(Nat)
  BY <1>1, Grounds, AppendProperties DEF Types, Miss
<1> QED BY <1>1, <1>2, <1>3, <1>5, <1>6, Grounds DEF Types, Miss

LEMMA StillRoom ==
  ASSUME NEW l \in Nat, NEW f \in Nat, NEW n \in Nat, NEW r \in Nat, l + f <= n - r
  PROVE  l + f <= (n + 1) - r /\ l + (f + 1) <= (n + 1) - r
  BY SMT

LEMMA StillGiven ==
  ASSUME NEW x \in SlotValue, NEW n \in Nat, x < n
  PROVE  x < n + 1
  BY ConstantFacts, SMT DEF SlotValue

LEMMA MissHashInv ==
  ASSUME IInv, Miss, HashInsert(Key, nextCode)
  PROVE  IInv'
<1>1. Types /\ Entries /\ Bits /\ Capacity
  BY DEF IInv
<1> DEFINE new == Key
           b0 == Hash[new]
           entry == [key |-> new, value |-> nextCode]
<1>2. /\ table' = [table EXCEPT ![b0] = Append(@, entry)]
      /\ UNCHANGED <<upper, middle, lower, value, fill, failure>>
      /\ Len(table[b0]) < Ways
  BY MissTypes DEF HashInsert, Bucket
<1>3. entry \in Entry /\ b0 \in Buckets
  BY MissTypes DEF Entry
<1>4. table[b0] \in Seq(Entry) /\ Len(table[b0]) \in Nat
  BY <1>1, <1>3, Grounds
<1>5. /\ Append(table[b0], entry) \in Seq(Entry)
      /\ Len(Append(table[b0], entry)) = Len(table[b0]) + 1
      /\ \A s \in 1 .. Len(table[b0]) : Append(table[b0], entry)[s] = table[b0][s]
      /\ Append(table[b0], entry)[Len(table[b0]) + 1] = entry
  BY <1>3, <1>4, AppendProperties
<1>6. entry.value = nextCode
  OBVIOUS
<1> HIDE DEF entry, b0
<1>7. /\ table' \in [Buckets -> Seq(Entry)]
      /\ \A b \in Buckets : table'[b] = IF b = b0 THEN Append(table[b0], entry) ELSE table[b]
  BY <1>1, <1>2, <1>3, <1>5 DEF Types
<1>8. Types'
  BY <1>1, <1>2, <1>7, MissTypes DEF Types, Memory
<1>9. ASSUME NEW b \in Buckets, NEW s \in 1 .. Len(table'[b])
      PROVE  table'[b][s].value < nextCode'
  <2>1. CASE b # b0
    <3>1. table'[b] = table[b] /\ table[b] \in Seq(Entry)
      BY <2>1, <1>1, <1>7, <1>9, Grounds
    <3>2. table[b][s].value < nextCode /\ table[b][s] \in Entry
      BY <3>1, <1>1, <1>9, ElementOfSeq DEF Entries
    <3> QED BY <3>1, <3>2, MissTypes, ConstantFacts, SMT DEF Entry, SlotValue
  <2>2. CASE b = b0
    <3>1. s \in 1 .. Len(table[b0]) \/ s = Len(table[b0]) + 1
      BY <1>4, <1>5, <1>7, <2>2, <1>9
    <3>2. CASE s = Len(table[b0]) + 1
      BY <3>2, <2>2, <1>5, <1>6, <1>7, MissTypes
    <3>3. CASE s \in 1 .. Len(table[b0])
      <4>1. table'[b][s] = table[b0][s]
        BY <3>3, <2>2, <1>5, <1>7
      <4>2. table[b0][s].value < nextCode /\ table[b0][s] \in Entry
        BY <3>3, <1>1, <1>3, <1>4, ElementOfSeq DEF Entries
      <4> QED BY <4>1, <4>2, MissTypes, ConstantFacts, SMT DEF Entry, SlotValue
    <3> QED BY <3>1, <3>2, <3>3
  <2> QED BY <2>1, <2>2
<1>10. \A s \in 0 .. fill' - 1 : value'[s] < nextCode'
  <2>1. \A s \in 0 .. fill - 1 : s \in 0 .. Store - 1
    BY <1>1, ConstantFacts, SMT DEF Types
  <2>2. \A s \in 0 .. fill - 1 : value[s] < nextCode /\ value[s] \in SlotValue
    BY <1>1, <2>1 DEF Entries, Types
  <2> QED BY <1>2, <2>2, MissTypes, ConstantFacts, SMT DEF SlotValue
<1>11. ASSUME NEW key \in Keys
       PROVE  /\ \A s, r \in Match(key)' : s = r
              /\ \A s, r \in HashHits(key)' : s = r
  <2>1. /\ Match(key)' = Match(key)
        /\ key # Key => HashHits(key)' = HashHits(key)
        /\ key = Key => HashHits(key)' = {Len(Bucket(Key)) + 1}
    BY <1>11, MissTypes, HashInsertLookups
  <2> QED BY <2>1, <1>1 DEF Entries
<1>12. Entries'
  BY <1>9, <1>10, <1>11 DEF Entries
<1>13. Bits'
  BY <1>1, <1>2 DEF Bits, OneBit
<1>14. Capacity'
  <2>1. ASSUME NEW b \in Buckets
        PROVE  Len(table'[b]) <= Ways /\ Len(table'[b]) + fill <= (nextCode + 1) - Radix
    <3>1. Len(table[b]) <= Ways /\ Len(table[b]) + fill <= nextCode - Radix
      BY <1>1 DEF Capacity
    <3>2. Len(table'[b]) = Len(table[b]) \/ (Len(table'[b]) = Len(table[b]) + 1 /\ b = b0)
      BY <1>5, <1>7
    <3>3. Len(table[b]) \in Nat /\ fill \in Nat /\ nextCode \in Nat
      BY <1>1, <2>1, Grounds
    <3>4. b = b0 => Len(table[b]) < Ways
      BY <1>2
    <3>5. Radix \in Nat /\ Ways \in Nat
      BY ConstantFacts
    <3> HIDE DEF new
    <3> QED BY <3>1, <3>2, <3>3, <3>4, <3>5, SMT
  <2>2. failure => nextCode - Radix > Ways + Store
    BY <1>1 DEF Capacity, FailsBeyondCapacity
  <2>3. failure => (nextCode + 1) - Radix > Ways + Store
    BY <2>2, MissTypes, ConstantFacts, SMT
  <2> QED BY <1>2, <2>1, <2>3, MissTypes DEF Capacity, FailsBeyondCapacity
<1> QED BY <1>8, <1>12, <1>13, <1>14 DEF IInv

\* A key memory of n entries.
OneEach(memory, words, n) ==
  /\ memory \in [words -> SUBSET (0 .. n - 1)]
  /\ \A s \in 0 .. n - 1 : \E a \in words : \A b \in words : s \in memory[b] <=> b = a

LEMMA MemoryInsert ==
  ASSUME NEW words, NEW n \in Nat, NEW memory, OneEach(memory, words, n),
         NEW w \in words
  PROVE  OneEach([memory EXCEPT ![w] = @ \cup {n}], words, n + 1)
<1> DEFINE next == [memory EXCEPT ![w] = @ \cup {n}]
<1>0. memory \in [words -> SUBSET (0 .. n - 1)]
  BY DEF OneEach
<1>1. 0 .. (n + 1) - 1 = (0 .. n - 1) \cup {n} /\ n \notin 0 .. n - 1
  BY SMT
<1>2. \A b \in words : next[b] = memory[b] \cup (IF b = w THEN {n} ELSE {})
  BY <1>0, Zenon
<1>3. next \in [words -> SUBSET (0 .. (n + 1) - 1)]
  BY <1>0, <1>1, <1>2
<1>4. ASSUME NEW s \in 0 .. (n + 1) - 1
      PROVE  \E a \in words : \A b \in words : s \in next[b] <=> b = a
  <2>1. CASE s = n
    BY <1>0, <1>1, <1>2, <2>1
  <2>2. CASE s \in 0 .. n - 1
    <3>1. PICK a \in words : \A b \in words : s \in memory[b] <=> b = a
      BY <2>2 DEF OneEach
    <3>2. s # n
      BY <1>1, <2>2
    <3> QED BY <3>1, <3>2, <1>2
  <2> QED BY <1>1, <1>4, <2>1, <2>2
<1> QED BY <1>3, <1>4 DEF OneEach

LEMMA MissAssocInv ==
  ASSUME IInv, Miss, AssocInsert(Key, nextCode)
  PROVE  IInv'
<1>1. Types /\ Entries /\ Bits /\ Capacity
  BY DEF IInv
<1> DEFINE new == Key
           v == nextCode
<1>2. /\ UNCHANGED <<table, failure>> /\ fill' = fill + 1
      /\ fill < Store
      /\ upper' = [upper EXCEPT ![High(new)] = @ \cup {fill}]
      /\ middle' = [middle EXCEPT ![Middle(new)] = @ \cup {fill}]
      /\ lower' = [lower EXCEPT ![Low(new)] = @ \cup {fill}]
      /\ value' = [value EXCEPT ![fill] = v]
  <2>1. fill \in Nat /\ Store \in Nat
    BY <1>1, Grounds, ConstantFacts
  <2>2. fill < Store
    BY <2>1 DEF AssocInsert, AssocFull
  <2> QED BY <2>2, MissTypes DEF AssocInsert
<1>3. fill \in Nat /\ fill' \in 0 .. Store /\ fill \in 0 .. Store - 1
  BY <1>1, <1>2, Grounds, ConstantFacts, SMT DEF Types
<1>4. /\ High(new) \in HighWords /\ Middle(new) \in MiddleWords /\ Low(new) \in LowWords
  BY MissTypes DEF HighWords, MiddleWords, LowWords
<1> HIDE DEF new, v
<1>5. OneEach(upper, HighWords, fill) /\ OneEach(middle, MiddleWords, fill)
      /\ OneEach(lower, LowWords, fill)
  BY <1>1 DEF Types, Memory, Bits, OneBit, OneEach
<1>6. OneEach(upper', HighWords, fill + 1)
  BY <1>2, <1>3, <1>4, <1>5, MemoryInsert, Zenon
<1>7. OneEach(middle', MiddleWords, fill + 1)
  BY <1>2, <1>3, <1>4, <1>5, MemoryInsert, Zenon
<1>8. OneEach(lower', LowWords, fill + 1)
  BY <1>2, <1>3, <1>4, <1>5, MemoryInsert, Zenon
<1>9. value' \in [0 .. Store - 1 -> SlotValue]
  BY <1>1, <1>2, <1>3, MissTypes DEF Types, v
<1>10. Types'
  BY <1>1, <1>2, <1>3, <1>6, <1>7, <1>8, <1>9, MissTypes DEF Types, Memory, OneEach
<1>11. Bits'
  <2>1. fill' = fill + 1
    BY <1>2
  <2> QED BY <2>1, <1>6, <1>7, <1>8 DEF Bits, OneBit, OneEach
<1>12. ASSUME NEW b \in Buckets, NEW s \in 1 .. Len(table[b])
       PROVE  table[b][s].value < nextCode + 1
  <2>1. table[b][s].value < nextCode /\ table[b][s] \in Entry
    BY <1>1, <1>12, Grounds, ElementOfSeq DEF Entries
  <2>2. table[b][s].value \in SlotValue /\ nextCode \in Nat
    BY <2>1, MissTypes DEF Entry
  <2> QED BY <2>1, <2>2, StillGiven
<1>13. ASSUME NEW s \in 0 .. (fill + 1) - 1
       PROVE  value'[s] < nextCode + 1
  <2>1. s \in 0 .. fill - 1 \/ s = fill
    BY <1>3, <1>13
  <2>2. CASE s = fill
    BY <1>1, <1>2, <1>3, <2>2, MissTypes DEF Types, v
  <2>3. CASE s \in 0 .. fill - 1
    <3>1. s \in 0 .. Store - 1 /\ s # fill
      BY <1>3, <2>3, ConstantFacts
    <3>2. value'[s] = value[s] /\ value[s] < nextCode /\ value[s] \in SlotValue
      BY <1>1, <1>2, <1>3, <2>3, <3>1 DEF Types, Entries
    <3> QED BY <3>2, MissTypes, StillGiven
  <2> QED BY <2>1, <2>2, <2>3
<1>14. ASSUME NEW key \in Keys
       PROVE  /\ \A s, r \in Match(key)' : s = r
              /\ \A s, r \in HashHits(key)' : s = r
  <2>1. /\ HashHits(key)' = HashHits(key)
        /\ key # Key => Match(key)' = Match(key)
        /\ key = Key => Match(key)' = {fill}
    BY <1>14, MissTypes, AssocInsertLookups
  <2> QED BY <2>1, <1>1 DEF Entries
<1>15. Entries'
  BY <1>2, <1>12, <1>13, <1>14, MissTypes DEF Entries
<1>16. Capacity'
  <2>1. ASSUME NEW b \in Buckets
        PROVE  Len(table[b]) <= Ways /\ Len(table[b]) + (fill + 1) <= (nextCode + 1) - Radix
    <3>1. Len(table[b]) <= Ways /\ Len(table[b]) + fill <= nextCode - Radix
      BY <1>1 DEF Capacity
    <3>2. Len(table[b]) \in Nat /\ nextCode \in Nat /\ Radix \in Nat
      BY <1>1, <2>1, Grounds, ConstantFacts
    <3>3. fill \in Nat
      BY <1>3
    <3> QED BY <3>1, <3>2, <3>3, StillRoom
  <2>2. failure => nextCode - Radix > Ways + Store
    BY <1>1 DEF Capacity, FailsBeyondCapacity
  <2>3. failure => (nextCode + 1) - Radix > Ways + Store
    BY <2>2, MissTypes, ConstantFacts, SMT
  <2> QED BY <1>2, <2>1, <2>3, MissTypes DEF Capacity, FailsBeyondCapacity
<1> QED BY <1>10, <1>11, <1>15, <1>16 DEF IInv

LEMMA MissNoRoomInv ==
  ASSUME IInv, Miss, NoRoom(Key)
  PROVE  IInv'
<1>1. Types /\ Entries /\ Bits /\ Capacity
  BY DEF IInv
<1>2. /\ UNCHANGED tableVars /\ failure' = TRUE /\ nextCode' = nextCode + 1
      /\ Len(table[Hash[Key]]) = Ways /\ fill >= Store
  BY MissTypes DEF NoRoom, AssocFull, Bucket
<1>3. /\ UNCHANGED <<table, upper, middle, lower, value, fill>>
  BY <1>2 DEF tableVars
<1>4. Types'
  BY <1>1, <1>2, <1>3, MissTypes DEF Types, Memory
<1>5. ASSUME NEW b \in Buckets, NEW s \in 1 .. Len(table[b])
      PROVE  table[b][s].value < nextCode + 1
  <2>1. table[b][s].value < nextCode /\ table[b][s] \in Entry
    BY <1>1, <1>5, Grounds, ElementOfSeq DEF Entries
  <2>2. table[b][s].value \in SlotValue /\ nextCode \in Nat
    BY <2>1, MissTypes DEF Entry
  <2> QED BY <2>1, <2>2, StillGiven
<1>6. ASSUME NEW s \in 0 .. fill - 1
      PROVE  value[s] < nextCode + 1
  <2>1. s \in 0 .. Store - 1
    BY <1>1, <1>6, ConstantFacts, SMT DEF Types
  <2>2. value[s] < nextCode /\ value[s] \in SlotValue
    BY <1>1, <1>6, <2>1 DEF Types, Entries
  <2> QED BY <2>2, MissTypes, StillGiven
<1>7. \A key \in Keys : Match(key)' = Match(key) /\ HashHits(key)' = HashHits(key)
  BY <1>3 DEF Match, HashHits, Bucket
<1>8. Entries'
  BY <1>1, <1>2, <1>3, <1>5, <1>6, <1>7 DEF Entries
<1>9. Bits'
  BY <1>1, <1>3 DEF Bits, OneBit
<1>10. Capacity'
  <2>1. ASSUME NEW b \in Buckets
        PROVE  Len(table[b]) <= Ways /\ Len(table[b]) + fill <= (nextCode + 1) - Radix
    <3>1. Len(table[b]) <= Ways /\ Len(table[b]) + fill <= nextCode - Radix
      BY <1>1 DEF Capacity
    <3>2. Len(table[b]) \in Nat /\ nextCode \in Nat /\ Radix \in Nat /\ fill \in Nat
      BY <1>1, <2>1, Grounds, ConstantFacts
    <3> QED BY <3>1, <3>2, StillRoom
  <2>2. Ways + fill <= nextCode - Radix
    BY <1>1, <1>2, MissTypes DEF Capacity
  <2>3. (nextCode + 1) - Radix > Ways + Store
    BY <1>1, <1>2, <2>2, Grounds, ConstantFacts, SMT
  <2> QED BY <1>2, <1>3, <2>1, <2>3 DEF Capacity, FailsBeyondCapacity
<1> QED BY <1>4, <1>8, <1>9, <1>10 DEF IInv

LEMMA NextInv ==
  ASSUME IInv, [Next]_vars
  PROVE  IInv'
<1>1. CASE Hit
  BY <1>1, HitInv
<1>2. CASE Miss
  <2>1. HashInsert(Key, nextCode) \/ AssocInsert(Key, nextCode) \/ NoRoom(Key)
    BY <1>2, MissTypes DEF Insert
  <2> QED BY <1>2, <2>1, MissHashInv, MissAssocInv, MissNoRoomInv
<1>3. CASE Flush
  BY <1>3, FlushInv
<1>4. CASE NextChunk
  BY <1>4, NextChunkInv
<1>5. CASE UNCHANGED vars
  <2>1. Types' /\ Entries'
    BY <1>5 DEF IInv, vars, tableVars, Types, Memory, Entries, Match, HashHits, Bucket
  <2>2. Bits' /\ Capacity'
    BY <1>5 DEF IInv, vars, tableVars, Bits, OneBit, Capacity, FailsBeyondCapacity
  <2> QED BY <2>1, <2>2 DEF IInv
<1> QED BY <1>1, <1>2, <1>3, <1>4, <1>5 DEF Next

THEOREM Invariance == Spec => []IInv
<1>1. Init => IInv
  BY InitFresh, FreshInv
<1> QED BY <1>1, NextInv, PTL DEF Spec

\* The sizes of the memories, and one entry for a key, hold in every state.
THEOREM TypeCorrect == Spec => []TypeOK
<1>1. ASSUME IInv PROVE TypeOK
  <2>1. Types /\ Bits /\ Capacity
    BY <1>1 DEF IInv
  <2>2. /\ DOMAIN upper = HighWords /\ DOMAIN middle = MiddleWords /\ DOMAIN lower = LowWords
        /\ \A a \in HighWords : upper[a] \subseteq 0 .. fill - 1
        /\ \A a \in MiddleWords : middle[a] \subseteq 0 .. fill - 1
        /\ \A a \in LowWords : lower[a] \subseteq 0 .. fill - 1
    BY <2>1 DEF Types, Memory
  <2>3. ASSUME NEW s \in 0 .. Store - 1
        PROVE  s \in 0 .. fill - 1 <=> s < fill
    BY <2>1, <2>3, Grounds, ConstantFacts, SMT DEF Types
  <2>4. ASSUME NEW s \in 0 .. Store - 1, NEW memory \in {upper, middle, lower}
        PROVE  IF s < fill THEN \E a \in DOMAIN memory :
                                  \A b \in DOMAIN memory : s \in memory[b] <=> b = a
               ELSE \A a \in DOMAIN memory : s \notin memory[a]
    BY <2>1, <2>2, <2>3 DEF Bits, OneBit
  <2>5. \A b \in Buckets : table[b] \in Seq([key : Keys, value : 0 .. CodeSpace - 1])
    BY <2>1 DEF Types, Entry, SlotValue
  <2> QED BY <2>1, <2>4, <2>5 DEF TypeOK, Types, Capacity
<1> QED BY <1>1, Invariance, PTL

\* A call fails only beyond the capacity of one bucket and the associative
\* memory, whatever the hash function does.
THEOREM FailsOnlyBeyondCapacity == Spec => []FailsBeyondCapacity
<1>1. IInv => FailsBeyondCapacity
  BY DEF IInv, Capacity
<1> QED BY <1>1, Invariance, PTL

-----------------------------------------------------------------------------
(* The refinement *)

Pairs == SlotValue \X Byte

LEMMA DictLookup ==
  ASSUME NEW p \in SlotValue, NEW c \in Byte
  PROVE  /\ <<p, c>> \in DOMAIN Dict <=> Found(KeyOf(p, c))
         /\ Found(KeyOf(p, c)) => Dict[<<p, c>>] = Result(KeyOf(p, c))
<1>1. <<p, c>> \in SlotValue \X Byte /\ <<p, c>>[1] = p /\ <<p, c>>[2] = c
  OBVIOUS
<1>2. <<p, c>> \in DOMAIN Dict <=> Found(KeyOf(<<p, c>>[1], <<p, c>>[2]))
  BY <1>1 DEF Dict, SlotValue, Byte
<1> QED BY <1>1, <1>2 DEF Dict

LEMMA EmptyFresh == Fresh => Dict = Encoder!EmptyDict
<1> SUFFICES ASSUME Fresh PROVE Dict = Encoder!EmptyDict
  OBVIOUS
<1> DEFINE D == {pair \in Pairs : Found(KeyOf(pair[1], pair[2]))}
<1>1. ASSUME NEW pair \in Pairs PROVE ~Found(KeyOf(pair[1], pair[2]))
  <2>1. pair[1] \in SlotValue /\ pair[2] \in Byte
    BY DEF Pairs
  <2> QED BY <2>1, KeyFits, NothingFound
<1>2. D = {}
  BY <1>1
<1>3. Dict = [k \in D |-> Result(KeyOf(k[1], k[2]))]
  BY DEF Dict, Pairs, SlotValue, Byte
<1> HIDE DEF D
<1> QED BY <1>2, <1>3 DEF Encoder!EmptyDict

LEMMA SameDict ==
  ASSUME UNCHANGED tableVars
  PROVE  Dict' = Dict
  BY DEF tableVars, Dict, Found, HashHits, Match, Bucket, Result, HashValue

LEMMA ExtendedDict ==
  ASSUME IInv, Miss, HashInsert(Key, nextCode) \/ AssocInsert(Key, nextCode)
  PROVE  Dict' = Encoder!Extended(Encoder!Key, nextCode)
<1>1. /\ Types /\ i < Len(chunk)
  BY DEF IInv, Miss
<1> DEFINE pair0 == <<prefix, chunk[i + 1]>>
           D == {pair \in Pairs : Found(KeyOf(pair[1], pair[2]))}
           E == {pair \in Pairs : Found(KeyOf(pair[1], pair[2]))'}
<1>2. /\ prefix \in SlotValue /\ chunk[i + 1] \in Byte /\ pair0 \in Pairs
      /\ pair0[1] = prefix /\ pair0[2] = chunk[i + 1]
  BY <1>1, Grounds DEF Pairs
<1>3. ASSUME NEW key \in Keys
      PROVE  /\ Found(key)' <=> Found(key) \/ key = Key
             /\ key # Key /\ Found(key) => Result(key)' = Result(key)
             /\ key = Key => Result(key)' = nextCode
  BY <1>3, MissTypes, InsertLookups
<1>4. ASSUME NEW pair \in Pairs
      PROVE  KeyOf(pair[1], pair[2]) \in Keys /\ (KeyOf(pair[1], pair[2]) = Key <=> pair = pair0)
  <2>1. pair[1] \in SlotValue /\ pair[2] \in Byte /\ pair = <<pair[1], pair[2]>>
    BY DEF Pairs
  <2>2. KeyOf(pair[1], pair[2]) = Key => pair[1] = prefix /\ pair[2] = chunk[i + 1]
    BY <1>2, <2>1, KeysDiffer DEF Key
  <2> QED BY <2>1, <2>2, KeyFits DEF Key
<1>5. E = D \cup {pair0}
  BY <1>2, <1>3, <1>4
<1>6. ASSUME NEW pair \in E
      PROVE  Result(KeyOf(pair[1], pair[2]))' =
             IF pair = pair0 THEN nextCode ELSE Result(KeyOf(pair[1], pair[2]))
  <2>1. pair \in Pairs /\ Found(KeyOf(pair[1], pair[2]))'
    OBVIOUS
  <2> QED BY <2>1, <1>3, <1>4
<1>7. Dict = [k \in D |-> Result(KeyOf(k[1], k[2]))]
  BY DEF Dict, Pairs, SlotValue, Byte
<1>8. Dict' = [k \in E |-> Result(KeyOf(k[1], k[2]))']
  BY DEF Dict, Pairs, SlotValue, Byte
<1>9. Encoder!Key = pair0
  BY DEF Encoder!Key
<1> HIDE DEF D, E, pair0
<1>10. Dict' = [k \in E |-> IF k = pair0 THEN nextCode ELSE Result(KeyOf(k[1], k[2]))]
  BY <1>6, <1>8
<1>11. DOMAIN Dict = D /\ \A k \in D : Dict[k] = Result(KeyOf(k[1], k[2]))
  BY <1>7
<1>12. Encoder!Extended(Encoder!Key, nextCode) =
         [k \in D \cup {pair0} |-> IF k = pair0 THEN nextCode ELSE Dict[k]]
  BY <1>9, <1>11 DEF Encoder!Extended
<1> QED BY <1>5, <1>10, <1>11, <1>12

\* Each step of the kernel is a step of LZWEncoder with the dictionary the
\* memories make.
LEMMA StepRefines ==
  ASSUME IInv, Next
  PROVE  Encoder!Next
<1>1. Types
  BY DEF IInv
<1>2. CASE Hit
  <2>1. /\ prefix \in SlotValue /\ chunk[i + 1] \in Byte /\ UNCHANGED tableVars
    BY <1>1, <1>2, Grounds DEF Hit
  <2>2. Encoder!Key \in DOMAIN Dict /\ prefix' = Dict[Encoder!Key]
    BY <1>2, <2>1, DictLookup DEF Hit, Key, Encoder!Key
  <2>3. Dict' = Dict
    BY <2>1, SameDict
  <2> QED BY <1>2, <2>2, <2>3 DEF Hit, Encoder!Hit, Encoder!Next
<1>3. CASE Miss
  <2>1. prefix \in SlotValue /\ chunk[i + 1] \in Byte
    BY <1>1, <1>3, Grounds DEF Miss
  <2>2. Encoder!Key \notin DOMAIN Dict
    BY <1>3, <2>1, DictLookup DEF Miss, Key, Encoder!Key
  <2>3. \/ Dict' = Encoder!Extended(Encoder!Key, nextCode) /\ UNCHANGED failure
        \/ failure' = TRUE /\ UNCHANGED Dict
    <3>1. CASE HashInsert(Key, nextCode) \/ AssocInsert(Key, nextCode)
      BY <1>3, <3>1, ExtendedDict DEF HashInsert, AssocInsert
    <3>2. CASE NoRoom(Key)
      BY <3>2, SameDict DEF NoRoom
    <3> QED BY <1>3, <3>1, <3>2, MissTypes DEF Insert
  <2> QED BY <1>3, <2>2, <2>3 DEF Miss, Encoder!Miss, Encoder!Next
<1>4. CASE Flush
  BY <1>4, SameDict DEF Flush, Encoder!Flush, Encoder!Next
<1>5. CASE NextChunk
  <2>1. Fresh'
    BY <1>5, NextChunkInv
  <2>2. (Dict = Encoder!EmptyDict)'
    BY <2>1, EmptyFresh, PTL
  <2>3. Dict' = Encoder!EmptyDict
    BY <2>2 DEF Encoder!EmptyDict
  <2> QED BY <1>5, <2>3 DEF NextChunk, Encoder!NextChunk, Encoder!Next
<1> QED BY <1>2, <1>3, <1>4, <1>5 DEF Next

\* The kernel implements LZWEncoder: what is proved of the coder with a
\* dictionary holds of the coder with these memories.
THEOREM KernelImplementsEncoder == Spec => ImplementsEncoder
<1>1. Init => Encoder!Init
  <2> SUFFICES ASSUME Init PROVE Encoder!Init
    OBVIOUS
  <2>1. Dict = Encoder!EmptyDict
    BY InitFresh, EmptyFresh
  <2> QED BY <2>1 DEF Init, Encoder!Init
<1>2. IInv /\ [Next]_vars => [Encoder!Next]_(Encoder!encoderVars)
  <2> SUFFICES ASSUME IInv, [Next]_vars PROVE [Encoder!Next]_(Encoder!encoderVars)
    OBVIOUS
  <2>1. CASE Next
    BY <2>1, StepRefines
  <2>2. CASE UNCHANGED vars
    BY <2>2, SameDict DEF vars, tableVars, Encoder!encoderVars
  <2> QED BY <2>1, <2>2
<1> QED BY <1>1, <1>2, Invariance, PTL DEF Spec, ImplementsEncoder, Encoder!Spec

-----------------------------------------------------------------------------
(* The kernel follows the reference encoding *)

\* As long as no entry was dropped, the kernel is where the reference encoding is.
FollowsGolden ==
  pc = "code" /\ ~failure =>
    \A f : GoldenStates(chunk, Len(chunk), f) =>
             Agrees(f[i - 1], Dict, nextCode, prefix, codes)

LEMMA FreshFollows ==
  ASSUME Fresh
  PROVE  FollowsGolden
<1> SUFFICES ASSUME NEW f, GoldenStates(chunk, Len(chunk), f)
             PROVE  Agrees(f[i - 1], Dict, nextCode, prefix, codes)
  BY DEF FollowsGolden
<1>1. Types
  BY FreshInv DEF IInv
<1>2. Len(chunk) \in Nat /\ chunk[1] \in Byte
  <2>1. 1 \in 1 .. Len(chunk)
    BY <1>1, Grounds DEF Types
  <2> QED BY <1>1, <2>1, Grounds
<1>3. f[0] = GoldenStart(chunk)
  BY <1>2, GoldenStateStep
<1>4. /\ i - 1 = 0 /\ prefix = chunk[1] /\ nextCode = Radix /\ codes = <<>>
      /\ Dict = Encoder!EmptyDict
  BY EmptyFresh DEF Fresh
<1>5. Agrees(GoldenStart(chunk), Encoder!EmptyDict, Radix, chunk[1], <<>>)
  <2>1. DOMAIN Encoder!EmptyDict = {}
    BY DEF Encoder!EmptyDict
  <2> QED BY <1>2, <2>1, AgreeStart
<1> QED BY <1>3, <1>4, <1>5, Zenon

LEMMA HitFollows ==
  ASSUME IInv, FollowsGolden, Hit
  PROVE  FollowsGolden'
<1> SUFFICES ASSUME ~failure', NEW f, GoldenStates(chunk', Len(chunk'), f)
             PROVE  Agrees(f[i' - 1], Dict', nextCode', prefix', codes')
  BY DEF FollowsGolden
<1>1. /\ Types /\ pc = "code" /\ ~failure /\ i < Len(chunk)
      /\ chunk' = chunk /\ i' = i + 1 /\ nextCode' = nextCode /\ codes' = codes
      /\ UNCHANGED tableVars
  BY DEF IInv, Hit
<1>2. /\ i \in Nat /\ Len(chunk) \in Nat /\ prefix \in SlotValue /\ chunk[i + 1] \in Byte
      /\ i' - 1 = i /\ i \in 1 .. Len(chunk)
  BY <1>1, Grounds DEF Types
<1>3. f[i] = GoldenFrom(chunk, f[i - 1], i)
  BY <1>1, <1>2, GoldenStateStep
<1>4. f[i] = GoldenStep(f[i - 1], <<chunk[i + 1]>>)
  BY <1>1, <1>3 DEF GoldenFrom
<1>5. <<prefix, chunk[i + 1]>> \in DOMAIN Dict /\ prefix' = Dict[<<prefix, chunk[i + 1]>>]
  BY <1>2, DictLookup DEF Hit, Key
<1>6. Dict' = Dict
  BY <1>1, SameDict
<1>7. Agrees(f[i - 1], Dict, nextCode, prefix, codes)
  BY <1>1 DEF FollowsGolden
<1>8. Agrees(GoldenStep(f[i - 1], <<chunk[i + 1]>>), Dict, nextCode,
             Dict[<<prefix, chunk[i + 1]>>], codes)
  BY <1>2, <1>5, <1>7, AgreeHit
<1> QED BY <1>1, <1>2, <1>4, <1>5, <1>6, <1>8, Zenon

LEMMA MissFollows ==
  ASSUME IInv, FollowsGolden, Miss
  PROVE  FollowsGolden'
<1> SUFFICES ASSUME ~failure', NEW f, GoldenStates(chunk', Len(chunk'), f)
             PROVE  Agrees(f[i' - 1], Dict', nextCode', prefix', codes')
  BY DEF FollowsGolden
<1>1. /\ Types /\ pc = "code" /\ i < Len(chunk)
      /\ chunk' = chunk /\ i' = i + 1 /\ nextCode' = nextCode + 1
      /\ codes' = Append(codes, prefix) /\ prefix' = chunk[i + 1]
  BY DEF IInv, Miss
<1>2. /\ i \in Nat /\ Len(chunk) \in Nat /\ prefix \in SlotValue /\ chunk[i + 1] \in Byte
      /\ i' - 1 = i /\ i \in 1 .. Len(chunk) /\ nextCode \in Nat /\ nextCode >= Radix
  BY <1>1, Grounds, ConstantFacts DEF Types
<1>3. f[i] = GoldenFrom(chunk, f[i - 1], i)
  BY <1>1, <1>2, GoldenStateStep
<1>4. f[i] = GoldenStep(f[i - 1], <<chunk[i + 1]>>)
  BY <1>1, <1>3 DEF GoldenFrom
<1>5. ~failure /\ (HashInsert(Key, nextCode) \/ AssocInsert(Key, nextCode))
  <2>1. HashInsert(Key, nextCode) \/ AssocInsert(Key, nextCode) \/ NoRoom(Key)
    BY MissTypes DEF Insert
  <2>2. ~NoRoom(Key)
    BY DEF NoRoom
  <2>3. HashInsert(Key, nextCode) \/ AssocInsert(Key, nextCode) => failure' = failure
    BY DEF HashInsert, AssocInsert
  <2> QED BY <2>1, <2>2, <2>3
<1>6. <<prefix, chunk[i + 1]>> \notin DOMAIN Dict
  BY <1>2, DictLookup DEF Miss, Key
<1>7. Dict' = [k \in DOMAIN Dict \cup {<<prefix, chunk[i + 1]>>} |->
                 IF k = <<prefix, chunk[i + 1]>> THEN nextCode ELSE Dict[k]]
  BY <1>5, ExtendedDict DEF Encoder!Extended, Encoder!Key
<1>8. Agrees(f[i - 1], Dict, nextCode, prefix, codes)
  BY <1>1, <1>5 DEF FollowsGolden, Miss
<1>9. Agrees(GoldenStep(f[i - 1], <<chunk[i + 1]>>),
             [k \in DOMAIN Dict \cup {<<prefix, chunk[i + 1]>>} |->
                IF k = <<prefix, chunk[i + 1]>> THEN nextCode ELSE Dict[k]],
             nextCode + 1, chunk[i + 1], Append(codes, prefix))
  BY <1>2, <1>6, <1>8, AgreeMiss
<1> QED BY <1>1, <1>2, <1>4, <1>7, <1>9, Zenon

LEMMA FlushMatches ==
  ASSUME IInv, FollowsGolden, Flush
  PROVE  MatchesGolden'
<1>1. /\ Types /\ pc = "code" /\ i = Len(chunk) /\ failure' = failure
      /\ chunk' = chunk /\ codes' = Append(codes, prefix)
  BY DEF IInv, Flush
<1> SUFFICES ASSUME ~failure PROVE Append(codes, prefix) = Golden(chunk)
  BY <1>1 DEF MatchesGolden
<1>2. i \in Nat /\ Len(chunk) \in Nat /\ i \in 1 .. Len(chunk)
  BY <1>1, Grounds DEF Types
<1>3. PICK f : /\ GoldenStates(chunk, Len(chunk), f)
               /\ Golden(chunk) = Append(f[Len(chunk)].output,
                                         f[Len(chunk)].table[f[Len(chunk)].p])
  BY <1>2, GoldenEnd
<1>4. Agrees(f[i - 1], Dict, nextCode, prefix, codes)
  BY <1>1, <1>3 DEF FollowsGolden
<1>5. f[i] = GoldenStep(f[i - 1], <<>>)
  <2>1. f[i] = GoldenFrom(chunk, f[i - 1], i)
    BY <1>2, <1>3, GoldenStateStep
  <2> QED BY <1>1, <1>2, <2>1 DEF GoldenFrom
<1>6. f[i] = f[i - 1]
  BY <1>4, <1>5, AgreeFlush
<1>7. f[i].output = codes /\ f[i].table[f[i].p] = prefix
  BY <1>4, <1>6 DEF Agrees
<1> QED BY <1>1, <1>3, <1>7

\* Unless an entry found no place, the codes of a chunk are those of the
\* reference encoding, which keeps the words themselves.
THEOREM MatchesGoldenHolds == Spec => []MatchesGolden
<1>1. Init => FollowsGolden /\ MatchesGolden
  BY InitFresh, FreshFollows DEF Fresh, MatchesGolden
<1>2. IInv /\ FollowsGolden /\ MatchesGolden /\ [Next]_vars
        => (FollowsGolden /\ MatchesGolden)'
  <2> SUFFICES ASSUME IInv, FollowsGolden, MatchesGolden, [Next]_vars
               PROVE  FollowsGolden' /\ MatchesGolden'
    OBVIOUS
  <2>1. CASE Hit
    <3>1. MatchesGolden'
      BY <2>1 DEF Hit, MatchesGolden
    <3> QED BY <2>1, <3>1, HitFollows
  <2>2. CASE Miss
    <3>1. MatchesGolden'
      BY <2>2 DEF Miss, MatchesGolden
    <3> QED BY <2>2, <3>1, MissFollows
  <2>3. CASE Flush
    <3>1. FollowsGolden'
      BY <2>3 DEF Flush, FollowsGolden
    <3> QED BY <2>3, <3>1, FlushMatches
  <2>4. CASE NextChunk
    <3>1. Fresh'
      BY <2>4, NextChunkInv
    <3>2. FollowsGolden'
      BY <3>1, FreshFollows, PTL
    <3> QED BY <3>2, <2>4 DEF NextChunk, MatchesGolden
  <2>5. CASE UNCHANGED vars
    <3>1. Dict' = Dict
      BY <2>5, SameDict DEF vars
    <3> QED BY <2>5, <3>1 DEF vars, FollowsGolden, MatchesGolden
  <2> QED BY <2>1, <2>2, <2>3, <2>4, <2>5 DEF Next
<1> QED BY <1>1, <1>2, Invariance, PTL DEF Spec

-----------------------------------------------------------------------------
(* The test bench *)

\* The bench's kernel is the kernel.
LEMMA BenchKernel == BenchSpec => [](IInv /\ MatchesGolden)
<1>1. BenchInit => Init
  BY DEF BenchInit
<1>2. [BenchNext]_<<vars, benchVars>> => [Next]_vars
  <2> SUFFICES ASSUME [BenchNext]_<<vars, benchVars>> PROVE [Next]_vars
    OBVIOUS
  <2>1. CASE Code
    BY <2>1 DEF Code, Next
  <2>2. CASE NextOfPiece
    BY <2>2 DEF NextOfPiece, Next
  <2>3. CASE NextPiece
    BY <2>3 DEF NextPiece, Next
  <2>4. CASE Return \/ Compare \/ Close \/ Ended \/ UNCHANGED <<vars, benchVars>>
    <3>1. vars' = vars
      <4>1. CASE Return
        BY <4>1 DEF Return
      <4>2. CASE Compare
        BY <4>2 DEF Compare
      <4>3. CASE Close
        BY <4>3 DEF Close
      <4>4. CASE Ended \/ UNCHANGED <<vars, benchVars>>
        <5> HIDE DEF vars, benchVars
        <5> QED BY <4>4 DEF Ended
      <4> QED BY <2>4, <4>1, <4>2, <4>3, <4>4
    <3> QED BY <3>1
  <2> QED BY <2>1, <2>2, <2>3, <2>4 DEF BenchNext
<1> QED BY <1>1, <1>2, Invariance, MatchesGoldenHolds, PTL DEF BenchSpec, Spec

\* The codes o of the first chunks of the piece s, ls many of each and p[k]
\* before those of the k-th, are the reference encodings.
Written(s, ls, o, p) ==
  /\ p[1] = 0 /\ p[Len(ls) + 1] = Len(o)
  /\ \A k \in 1 .. Len(ls) :
       /\ Golden(s[k]) \in Seq(Nat) /\ ls[k] = Len(Golden(s[k]))
       /\ p[k] \in Nat /\ p[k + 1] = p[k] + ls[k] /\ p[k + 1] <= Len(o)
       /\ \A j \in 1 .. ls[k] : o[p[k] + j] = Golden(s[k])[j]

BenchInv ==
  /\ benchPc \in {"kernel", "check", "closed", "exit"}
  /\ piece \in Pieces
  /\ lengths \in Seq(Nat) /\ out \in Seq(Nat) /\ failed \in BOOLEAN
  /\ benchPc = "kernel" => Len(lengths) < Len(piece) /\ chunk = piece[Len(lengths) + 1]
  /\ benchPc = "check" =>
       /\ ~failed /\ pc = "done" /\ Len(lengths) = Len(piece) /\ at \in 1 .. Len(piece) + 1
  /\ ~failed => \E p : /\ Written(piece, lengths, out, p)
                       /\ benchPc = "check" => ptr = p[at]
  /\ OnlyFailsForRoom

LEMMA PieceType ==
  ASSUME NEW s \in Pieces
  PROVE  s \in Seq(Inputs) /\ Len(s) \in Nat /\ Len(s) > 0
<1>1. s \in Seq(Inputs) /\ s # <<>>
  BY TestBenchAssumption
<1>2. Len(s) \in Nat /\ (Len(s) = 0 => s = <<>>)
  BY <1>1, LenProperties, EmptySeq
<1> QED BY <1>1, <1>2

LEMMA NothingWritten == \A s : \E p : Written(s, <<>>, <<>>, p) /\ p[1] = 0
<1> SUFFICES ASSUME NEW s PROVE \E p : Written(s, <<>>, <<>>, p) /\ p[1] = 0
  OBVIOUS
<1> DEFINE p == [n \in {1} |-> 0]
<1>1. Len(<<>>) = 0 /\ Len(<<>>) + 1 = 1 /\ 1 .. Len(<<>>) = {}
  OBVIOUS
<1>2. p[1] = 0
  OBVIOUS
<1> HIDE DEF p
<1>3. Written(s, <<>>, <<>>, p)
  BY <1>1, <1>2, Zenon DEF Written
<1> QED BY <1>2, <1>3

LEMMA RecordWritten ==
  ASSUME NEW s, NEW ls \in Seq(Nat), NEW o \in Seq(Nat), NEW p, Written(s, ls, o, p),
         NEW cs \in Seq(Nat), cs = Golden(s[Len(ls) + 1])
  PROVE  \E q : Written(s, Append(ls, Len(cs)), o \o cs, q) /\ q[1] = 0
<1>1. /\ Len(ls) \in Nat /\ Len(o) \in Nat /\ Len(cs) \in Nat
      /\ o \o cs \in Seq(Nat) /\ Len(o \o cs) = Len(o) + Len(cs)
      /\ \A j \in 1 .. Len(o) : (o \o cs)[j] = o[j]
      /\ \A j \in 1 .. Len(cs) : (o \o cs)[Len(o) + j] = cs[j]
  <2>1. /\ Len(ls) \in Nat /\ Len(o) \in Nat /\ Len(cs) \in Nat
    BY LenProperties
  <2>2. /\ o \o cs \in Seq(Nat) /\ Len(o \o cs) = Len(o) + Len(cs)
        /\ \A j \in 1 .. Len(o) + Len(cs) :
             (o \o cs)[j] = IF j <= Len(o) THEN o[j] ELSE cs[j - Len(o)]
    BY ConcatProperties
  <2> DEFINE t == o \o cs
             a == Len(o)
             b == Len(cs)
  <2> HIDE DEF t, a, b
  <2>3. /\ a \in Nat /\ b \in Nat
        /\ \A j \in 1 .. a + b : t[j] = IF j <= a THEN o[j] ELSE cs[j - a]
    BY <2>1, <2>2 DEF t, a, b
  <2>4. \A j \in 1 .. a : t[j] = o[j]
    BY <2>3
  <2>5. \A j \in 1 .. b : t[a + j] = cs[j]
    <3> SUFFICES ASSUME NEW j \in 1 .. b PROVE t[a + j] = cs[j]
      OBVIOUS
    <3>1. a + j \in 1 .. a + b /\ ~(a + j <= a) /\ (a + j) - a = j
      BY <2>3
    <3> QED BY <2>3, <3>1
  <2> QED BY <2>1, <2>2, <2>4, <2>5 DEF t, a, b
<1> DEFINE m == Len(ls)
           ms == Append(ls, Len(cs))
           r == o \o cs
           q == [k \in 1 .. m + 2 |-> IF k = m + 2 THEN Len(r) ELSE p[k]]
<1>2. /\ Len(ms) = m + 1 /\ ms[m + 1] = Len(cs)
      /\ \A k \in 1 .. m : ms[k] = ls[k]
  BY <1>1, AppendProperties
<1>3. q[m + 2] = Len(r) /\ \A k \in 1 .. m + 1 : q[k] = p[k]
  BY <1>1
<1>4. /\ m \in Nat /\ Len(r) = Len(o) + Len(cs)
      /\ \A j \in 1 .. Len(o) : r[j] = o[j]
      /\ \A j \in 1 .. Len(cs) : r[Len(o) + j] = cs[j]
  BY <1>1
<1>5. cs = Golden(s[m + 1])
  OBVIOUS
<1>6. /\ p[1] = 0 /\ p[m + 1] = Len(o)
      /\ \A k \in 1 .. m :
           /\ Golden(s[k]) \in Seq(Nat) /\ ls[k] = Len(Golden(s[k]))
           /\ p[k] \in Nat /\ p[k + 1] = p[k] + ls[k] /\ p[k + 1] <= Len(o)
           /\ \A j \in 1 .. ls[k] : o[p[k] + j] = Golden(s[k])[j]
  BY DEF Written
<1> HIDE DEF m, ms, r, q
<1>7. ASSUME NEW k \in 1 .. m + 1
      PROVE  /\ Golden(s[k]) \in Seq(Nat) /\ ms[k] = Len(Golden(s[k]))
             /\ q[k] \in Nat /\ q[k + 1] = q[k] + ms[k] /\ q[k + 1] <= Len(r)
             /\ \A j \in 1 .. ms[k] : r[q[k] + j] = Golden(s[k])[j]
  <2>1. CASE k = m + 1
    <3>1. q[k] = Len(o) /\ q[k + 1] = Len(r) /\ ms[k] = Len(cs)
      <4>1. k + 1 = m + 2 /\ k \in 1 .. m + 1
        BY <1>4, <2>1
      <4> QED BY <2>1, <4>1, <1>2, <1>3, <1>6
    <3>2. Golden(s[k]) = cs
      BY <2>1, <1>5
    <3>3. Len(r) <= Len(r) /\ Len(o) \in Nat
      BY <1>1, <1>4
    <3>4. \A j \in 1 .. Len(cs) : r[Len(o) + j] = cs[j]
      BY <1>4
    <3> QED BY <3>1, <3>2, <3>3, <3>4, <1>4
  <2>2. CASE k # m + 1
    <3>1. k \in 1 .. m /\ k + 1 \in 1 .. m + 1
      BY <1>4, <2>2
    <3>2. q[k] = p[k] /\ q[k + 1] = p[k + 1] /\ ms[k] = ls[k]
      BY <1>2, <1>3, <3>1
    <3>3. /\ Golden(s[k]) \in Seq(Nat) /\ ls[k] = Len(Golden(s[k]))
          /\ p[k] \in Nat /\ p[k + 1] = p[k] + ls[k] /\ p[k + 1] <= Len(o)
      BY <1>6, <3>1
    <3>4. ls[k] \in Nat
      BY <3>3, LenProperties
    <3>5. ASSUME NEW j \in 1 .. ls[k] PROVE r[p[k] + j] = Golden(s[k])[j]
      <4>1. p[k] + j \in 1 .. Len(o)
        <5>1. \A a, b, n \in Nat : a + b <= n => \A x \in 1 .. b : a + x \in 1 .. n
          OBVIOUS
        <5>2. p[k] + ls[k] <= Len(o)
          BY <3>3, Zenon
        <5> QED BY <3>3, <3>4, <1>1, <5>1, <5>2
      <4>2. o[p[k] + j] = Golden(s[k])[j]
        BY <1>6, <3>1
      <4> QED BY <4>1, <4>2, <1>4
    <3>6. p[k + 1] <= Len(r)
      BY <3>3, <3>4, <1>1, <1>4
    <3> QED BY <3>2, <3>3, <3>5, <3>6
  <2> QED BY <2>1, <2>2
<1>8. q[1] = 0 /\ q[(m + 1) + 1] = Len(r)
  <2>1. 1 \in 1 .. m + 1 /\ (m + 1) + 1 = m + 2
    BY <1>4
  <2> QED BY <2>1, <1>3, <1>6
<1>9. Written(s, ms, r, q)
  BY <1>2, <1>7, <1>8 DEF Written
<1> QED BY <1>8, <1>9 DEF ms, r

\* A chunk is done: either a failure is kept or what is written is right.
LEMMA RecordStep ==
  ASSUME IInv, MatchesGolden, BenchInv, benchPc = "kernel", pc = "done", Record
  PROVE  /\ lengths' \in Seq(Nat) /\ Len(lengths') = Len(lengths) + 1
         /\ out' \in Seq(Nat) /\ failed' \in BOOLEAN
         /\ ~failed' => \E p : Written(piece, lengths', out', p) /\ p[1] = 0
<1>1. codes \in Seq(Nat) /\ failure \in BOOLEAN
  BY DEF IInv, Types
<1>2. Len(codes) \in Nat
  BY <1>1, LenProperties
<1>3. lengths \in Seq(Nat) /\ out \in Seq(Nat) /\ failed \in BOOLEAN
  BY DEF BenchInv
<1>4. lengths' \in Seq(Nat) /\ Len(lengths') = Len(lengths) + 1
  BY <1>2, <1>3, AppendProperties DEF Record
<1>5. out' \in Seq(Nat)
  BY <1>1, <1>3, ConcatProperties DEF Record
<1>6. ASSUME ~failed' PROVE \E p : Written(piece, lengths', out', p) /\ p[1] = 0
  <2>1. ~failed /\ ~failure
    BY <1>6 DEF Record
  <2>2. codes = Golden(piece[Len(lengths) + 1])
    BY <2>1 DEF MatchesGolden, BenchInv
  <2>3. PICK p : Written(piece, lengths, out, p)
    BY <2>1 DEF BenchInv
  <2>4. \E q : Written(piece, Append(lengths, Len(codes)), out \o codes, q) /\ q[1] = 0
    BY <1>1, <1>3, <2>2, <2>3, RecordWritten
  <2> QED BY <2>4 DEF Record
<1> QED BY <1>1, <1>3, <1>4, <1>5, <1>6 DEF Record

LEMMA CompareStep ==
  ASSUME BenchInv, Compare
  PROVE  BenchInv'
<1>1. /\ benchPc = "check" /\ at <= Len(piece) /\ ~failed /\ pc = "done"
      /\ Len(lengths) = Len(piece) /\ at \in 1 .. Len(piece) + 1 /\ piece \in Pieces
      /\ UNCHANGED <<pc, chunk, piece, lengths, failed, out>>
  BY DEF BenchInv, Compare, vars
<1>2. Len(piece) \in Nat /\ at \in 1 .. Len(piece) /\ at + 1 \in 1 .. Len(piece) + 1
  BY <1>1, PieceType
<1>3. PICK p : Written(piece, lengths, out, p) /\ ptr = p[at]
  BY <1>1 DEF BenchInv
<1>4. /\ Golden(piece[at]) \in Seq(Nat) /\ lengths[at] = Len(Golden(piece[at]))
      /\ p[at + 1] = ptr + lengths[at]
      /\ \A j \in 1 .. lengths[at] : out[ptr + j] = Golden(piece[at])[j]
  BY <1>1, <1>2, <1>3 DEF Written
<1>5. /\ failStat' = (failStat \/ \E j \in DOMAIN Golden(piece[at]) :
                                    Golden(piece[at])[j] # out[ptr + j])
      /\ at' = at + 1 /\ ptr' = ptr + lengths[at] /\ benchPc' = benchPc
  BY <1>4 DEF Compare
<1>6. DOMAIN Golden(piece[at]) = 1 .. lengths[at]
  BY <1>4, LenProperties
<1>7. ~failStat'
  BY <1>4, <1>5, <1>6 DEF BenchInv, OnlyFailsForRoom
<1>8. Written(piece', lengths', out', p) /\ ptr' = p[at']
  BY <1>1, <1>3, <1>4, <1>5
<1> QED BY <1>1, <1>2, <1>5, <1>7, <1>8 DEF BenchInv, OnlyFailsForRoom

LEMMA BenchNextInv ==
  ASSUME IInv, MatchesGolden, BenchInv, [BenchNext]_<<vars, benchVars>>
  PROVE  BenchInv'
<1>1. CASE Code
  <2>1. UNCHANGED benchVars /\ chunk' = chunk /\ benchPc = "kernel"
    BY <1>1 DEF Code, Hit, Miss, Flush
  <2> QED BY <2>1 DEF benchVars, BenchInv, OnlyFailsForRoom
<1>2. CASE NextOfPiece
  <2>1. /\ benchPc = "kernel" /\ Len(lengths) + 1 < Len(piece) /\ pc = "done" /\ Record
        /\ chunk' = piece[Len(lengths) + 2]
        /\ UNCHANGED <<benchPc, piece, at, ptr, failStat>>
    BY <1>2 DEF NextOfPiece, NextChunk
  <2>2. /\ lengths' \in Seq(Nat) /\ Len(lengths') = Len(lengths) + 1
        /\ out' \in Seq(Nat) /\ failed' \in BOOLEAN
        /\ ~failed' => \E p : Written(piece, lengths', out', p)
    BY <2>1, RecordStep
  <2>3. Len(lengths) \in Nat /\ Len(lengths) + 2 = (Len(lengths) + 1) + 1
    BY LenProperties DEF BenchInv
  <2> QED BY <2>1, <2>2, <2>3 DEF BenchInv, OnlyFailsForRoom
<1>3. CASE Return
  <2>1. /\ benchPc = "kernel" /\ Len(lengths) + 1 = Len(piece) /\ pc = "done" /\ Record
        /\ benchPc' = (IF failed' THEN "exit" ELSE "check")
        /\ at' = 1 /\ ptr' = 0
        /\ UNCHANGED <<pc, chunk, piece, failStat>>
    BY <1>3 DEF Return, vars
  <2>2. /\ lengths' \in Seq(Nat) /\ Len(lengths') = Len(lengths) + 1
        /\ out' \in Seq(Nat) /\ failed' \in BOOLEAN
        /\ ~failed' => \E p : Written(piece, lengths', out', p) /\ p[1] = 0
    BY <2>1, RecordStep
  <2>3. 1 \in 1 .. Len(piece) + 1
    BY PieceType DEF BenchInv
  <2> QED BY <2>1, <2>2, <2>3 DEF BenchInv, OnlyFailsForRoom
<1>4. CASE Compare
  BY <1>4, CompareStep
<1>5. CASE NextPiece
  <2>1. /\ piece' \in Pieces /\ chunk' = piece'[1] /\ benchPc' = "kernel"
        /\ lengths' = <<>> /\ out' = <<>>
        /\ UNCHANGED <<failed, failStat>>
    BY <1>5 DEF NextPiece
  <2>2. Len(piece') > 0 /\ Len(<<>>) = 0 /\ Len(<<>>) + 1 = 1 /\ <<>> \in Seq(Nat)
    BY <2>1, PieceType
  <2>3. \E p : Written(piece', <<>>, <<>>, p)
    BY NothingWritten
  <2> QED BY <2>1, <2>2, <2>3 DEF BenchInv, OnlyFailsForRoom
<1>6. CASE Close
  BY <1>6 DEF Close, BenchInv, OnlyFailsForRoom
<1>7. CASE Ended \/ UNCHANGED <<vars, benchVars>>
  <2>1. UNCHANGED benchVars /\ pc' = pc /\ chunk' = chunk
    BY <1>7 DEF Ended, vars
  <2> QED BY <2>1 DEF benchVars, BenchInv, OnlyFailsForRoom
<1> QED BY <1>1, <1>2, <1>3, <1>4, <1>5, <1>6, <1>7 DEF BenchNext

\* The test bench passes unless the kernel itself reports that an entry found
\* no place, whatever the file and however the kernel's memories are laid out.
THEOREM OnlyFailsForRoomHolds == BenchSpec => []OnlyFailsForRoom
<1>1. BenchInit => BenchInv
  <2> SUFFICES ASSUME BenchInit PROVE BenchInv
    OBVIOUS
  <2>1. /\ benchPc = "kernel" /\ piece \in Pieces /\ piece[1] = chunk
        /\ lengths = <<>> /\ failed = FALSE /\ out = <<>> /\ failStat = FALSE
    BY DEF BenchInit
  <2>2. Len(piece) > 0 /\ Len(<<>>) = 0 /\ Len(<<>>) + 1 = 1 /\ <<>> \in Seq(Nat)
    BY <2>1, PieceType
  <2>3. \E p : Written(piece, <<>>, <<>>, p)
    BY NothingWritten
  <2> QED BY <2>1, <2>2, <2>3 DEF BenchInv, OnlyFailsForRoom
<1>2. BenchInv => OnlyFailsForRoom
  BY DEF BenchInv
<1> QED BY <1>1, <1>2, BenchNextInv, BenchKernel, PTL DEF BenchSpec
=============================================================================
