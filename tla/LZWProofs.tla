----------------------------- MODULE LZWProofs ------------------------------
(***************************************************************************)
(* The LZW coder and Decompress are inverse to each other, for chunks of   *)
(* any length over any alphabet, whatever entries the dictionary drops.    *)
(***************************************************************************)
EXTENDS LZW, SequenceTheorems, TLAPS

Byte == 0 .. Radix - 1

\* A piece of a sequence: its length, its first element, and the piece that
\* is longer by one.
LEMMA Pieces ==
  ASSUME NEW S, NEW c \in Seq(S), NEW a \in Nat, NEW b \in Nat,
         a < b, b <= Len(c)
  PROVE  /\ SubSeq(c, a + 1, b) \in Seq(S)
         /\ Len(SubSeq(c, a + 1, b)) = b - a
         /\ SubSeq(c, a + 1, b)[1] = c[a + 1]
         /\ SubSeq(c, 1, a) \o SubSeq(c, a + 1, b) = SubSeq(c, 1, b)
         /\ b < Len(c) =>
              SubSeq(c, a + 1, b + 1) = SubSeq(c, a + 1, b) \o <<c[b + 1]>>
<1>1. /\ \A j \in a + 1 .. b : c[j] \in S
      /\ Len(c) \in Nat
  BY LenProperties
<1>2. /\ SubSeq(c, a + 1, b) \in Seq(S)
      /\ Len(SubSeq(c, a + 1, b)) = b - a
      /\ \A j \in 1 .. b - a : SubSeq(c, a + 1, b)[j] = c[a + j]
  BY <1>1, SubSeqProperties, SMT
<1>3. SubSeq(c, a + 1, b)[1] = c[a + 1]
  BY <1>2, 1 \in 1 .. b - a
<1>4. SubSeq(c, 1, a) \o SubSeq(c, a + 1, b) = SubSeq(c, 1, b)
  BY <1>1, ConcatAdjacentSubSeq, 1 \in 1 .. a + 1, a \in 0 .. b, SMT
<1>5. ASSUME b < Len(c)
      PROVE  SubSeq(c, a + 1, b + 1) = SubSeq(c, a + 1, b) \o <<c[b + 1]>>
  <2>1. a + 1 \in Int /\ b + 1 \in Int
    OBVIOUS
  <2> QED BY <1>1, <1>5, SubSeqRecursiveSecond, SMT
<1> QED BY <1>2, <1>3, <1>4, <1>5

\* A piece of one element.
LEMMA SinglePiece ==
  ASSUME NEW S, NEW c \in Seq(S), NEW a \in Nat, a < Len(c)
  PROVE  SubSeq(c, a + 1, a + 1) = <<c[a + 1]>>
<1>1. a + 1 \in 1 .. Len(c) /\ c[a + 1] \in S
  BY LenProperties, ElementOfSeq
<1>2. SubSeq(c, a + 1, a + 1) = <<c[a + 1]>> \o SubSeq(c, a + 2, a + 1)
  BY <1>1, a + 1 \in a + 1 .. Len(c), SubSeqRecursiveFirst
<1>3. SubSeq(c, a + 2, a + 1) = <<>>
  BY a + 2 \in Int, a + 1 \in Int, a + 1 < a + 2, SubSeqEmpty
<1>4. <<c[a + 1]>> \in Seq(S)
  BY <1>1
<1> QED BY <1>2, <1>3, <1>4, ConcatEmptySeq

-----------------------------------------------------------------------------
(* The inductive invariant *)

Types ==
  /\ pc \in {"code", "done"}
  /\ chunk \in Inputs
  /\ i \in 1 .. Len(chunk)
  /\ prefix \in Nat /\ nextCode \in Nat
  /\ codes \in Seq(Nat) /\ starts \in Seq(Nat)
  /\ failure \in BOOLEAN
  /\ read \in 0 .. Len(codes)
  /\ table \in Seq(Seq(Byte)) /\ output \in Seq(Byte)

\* The words written are adjacent pieces of the chunk, one for each code, and
\* the code given out with the k-th of them is Radix + k - 1.
Adjacent ==
  /\ Len(starts) = Len(codes) + 1
  /\ starts[1] = 0
  /\ \A k \in 1 .. Len(codes) : starts[k] < starts[k + 1] /\ starts[k] < i
  /\ prefix < nextCode
  /\ pc = "code" => /\ starts[Len(codes) + 1] < i
                    /\ Len(codes) < i
                    /\ nextCode = Radix + Len(codes)
  /\ pc = "done" => /\ starts[Len(codes) + 1] = i /\ i = Len(chunk)
                    /\ Len(codes) \in 1 .. i
                    /\ nextCode = Radix + Len(codes) - 1

\* The word being read, and what an entry of the dictionary stands for.
Dictionary ==
  pc = "code" =>
    /\ Word(prefix) = SubSeq(chunk, starts[Len(codes) + 1] + 1, i)
    /\ \A p \in Nat, b \in Byte : <<p, b>> \in DOMAIN dict =>
         /\ p < nextCode
         /\ dict[<<p, b>>] \in 0 .. nextCode - 1
         /\ Word(dict[<<p, b>>]) = Word(p) \o <<b>>

\* What has been written: codes that were there when they were written, and
\* stand for their words.
Written ==
  \A k \in 1 .. Len(codes) :
    /\ codes[k] < Radix + k - 1
    /\ Word(codes[k]) = SubSeq(chunk, starts[k] + 1, starts[k + 1])

\* The decoder's table is one entry behind the words it has read.
Decoded ==
  read > 0 =>
    /\ pc = "done"
    /\ Len(table) = Radix + read - 1
    /\ \A v \in 0 .. Radix + read - 2 : table[v + 1] = Word(v)
    /\ old = codes[read]
    /\ symbol = <<chunk[starts[read] + 1]>>
    /\ output = SubSeq(chunk, 1, starts[read + 1])

IInv == Types /\ Adjacent /\ Dictionary /\ Written /\ Decoded

-----------------------------------------------------------------------------
(* What the invariant says of the sequences *)

LEMMA Grounds ==
  ASSUME Types
  PROVE  /\ Radix \in Nat /\ Radix > 0
         /\ chunk \in Seq(Byte) /\ Len(chunk) \in Nat
         /\ Len(codes) \in Nat /\ Len(starts) \in Nat
         /\ \A k \in 1 .. Len(codes) : codes[k] \in Nat
         /\ \A k \in 1 .. Len(starts) : starts[k] \in Nat
         /\ \A k \in 1 .. Len(chunk) : chunk[k] \in Byte
         /\ read \in Nat /\ i \in Nat
<1>1. chunk \in Seq(Byte) /\ Radix \in Nat /\ Radix > 0
  BY LZWAssumption DEF Types, Byte
<1>2. codes \in Seq(Nat) /\ starts \in Seq(Nat)
  BY DEF Types
<1> QED BY <1>1, <1>2, LenProperties, ElementOfSeq, SMT DEF Types

\* The word of the code given out with the k-th word.
LEMMA EntryWord ==
  ASSUME Types, NEW k \in Nat \ {0}
  PROVE  Word(Radix + k - 1) = SubSeq(chunk, starts[k] + 1, starts[k + 1] + 1)
<1>1. /\ Radix + k - 1 >= Radix
      /\ (Radix + k - 1) - Radix + 1 = k /\ (Radix + k - 1) - Radix + 2 = k + 1
  BY Grounds, SMT
<1>2. ~(Radix + k - 1 < Radix)
  BY <1>1, Grounds, SMT
<1> QED BY <1>1, <1>2, Zenon DEF Word, WordIn

LEMMA InitIInv ==
  ASSUME LZWInit
  PROVE  IInv
<1>1. /\ pc = "code" /\ chunk \in Inputs /\ i = 1 /\ prefix = chunk[1]
      /\ dict = EmptyDict /\ nextCode = Radix /\ codes = <<>> /\ failure = FALSE
      /\ read = 0 /\ table = <<>> /\ output = <<>> /\ starts = <<0>>
  BY DEF LZWInit, Init
<1>2. chunk \in Seq(Byte) /\ chunk # <<>> /\ Radix \in Nat
  BY <1>1, LZWAssumption DEF Byte
<1>3. Len(chunk) \in Nat /\ Len(chunk) >= 1
  BY <1>2, EmptySeq, LenProperties, SMT
<1>4. prefix \in Byte /\ prefix < Radix /\ prefix \in Nat
  BY <1>1, <1>2, <1>3, ElementOfSeq, 1 \in 1 .. Len(chunk), SMT DEF Byte
<1>5. Types
  <2>1. /\ codes \in Seq(Nat) /\ Len(codes) = 0
        /\ table \in Seq(Seq(Byte)) /\ output \in Seq(Byte)
    BY <1>1, EmptySeq
  <2>2. starts \in Seq(Nat)
    BY <1>1
  <2>3. /\ i \in 1 .. Len(chunk) /\ prefix \in Nat /\ nextCode \in Nat
        /\ read \in 0 .. Len(codes)
    <3>1. i = 1 /\ nextCode = Radix /\ read = 0 /\ Len(codes) = 0
      BY <1>1, <2>1
    <3> QED BY <3>1, <1>2, <1>3, <1>4
  <2> QED BY <1>1, <2>1, <2>2, <2>3, Zenon DEF Types
<1>6. Adjacent
  BY <1>1, <1>2, <1>4, SMT DEF Adjacent
<1>7. Word(prefix) = SubSeq(chunk, 0 + 1, 0 + 1)
  <2>1. Word(prefix) = <<chunk[1]>>
    BY <1>1, <1>4 DEF Word, WordIn
  <2> QED BY <2>1, <1>2, <1>3, SinglePiece, 0 \in Nat, 0 < Len(chunk)
<1>8. Dictionary
  BY <1>1, <1>7, SMT DEF Dictionary, EmptyDict
<1>9. Written /\ Decoded
  BY <1>1, SMT DEF Written, Decoded
<1> QED BY <1>5, <1>6, <1>8, <1>9 DEF IInv

-----------------------------------------------------------------------------
(* The coder's steps *)

\* Another word begins: the words of the codes stay what they were.
LEMMA WordsKept ==
  ASSUME Types, Adjacent, starts' = Append(starts, i), chunk' = chunk
  PROVE  /\ starts' \in Seq(Nat) /\ Len(starts') = Len(starts) + 1
         /\ \A k \in 1 .. Len(starts) : starts'[k] = starts[k]
         /\ starts'[Len(starts) + 1] = i
         /\ \A v \in Nat : v < Radix + Len(codes) => WordIn(chunk', starts', v) = Word(v)
<1>1. i \in Nat /\ starts \in Seq(Nat)
  BY Grounds DEF Types
<1>2. /\ starts' \in Seq(Nat) /\ Len(starts') = Len(starts) + 1
      /\ \A k \in 1 .. Len(starts) : starts'[k] = starts[k]
      /\ starts'[Len(starts) + 1] = i
  BY <1>1, AppendProperties
<1>3. ASSUME NEW v \in Nat, v < Radix + Len(codes)
      PROVE  WordIn(chunk', starts', v) = Word(v)
  <2>1. CASE v < Radix
    BY <2>1 DEF Word, WordIn
  <2>2. CASE ~(v < Radix)
    <3>1. v - Radix + 1 \in 1 .. Len(starts) /\ v - Radix + 2 \in 1 .. Len(starts)
      BY <1>3, <2>2, Grounds, SMT DEF Adjacent
    <3>2. /\ starts'[v - Radix + 1] = starts[v - Radix + 1]
          /\ starts'[v - Radix + 2] = starts[v - Radix + 2]
      BY <1>2, <3>1
    <3> QED BY <2>2, <3>2 DEF Word, WordIn
  <2> QED BY <2>1, <2>2
<1> QED BY <1>2, <1>3

LEMMA HitStep ==
  ASSUME IInv, EncodeHit
  PROVE  IInv'
<1> DEFINE s == starts[Len(codes) + 1]
<1>1. /\ pc = "code" /\ i < Len(chunk) /\ Key \in DOMAIN dict
      /\ prefix' = dict[Key] /\ i' = i + 1
      /\ pc' = pc /\ chunk' = chunk /\ dict' = dict /\ nextCode' = nextCode
      /\ codes' = codes /\ failure' = failure /\ starts' = starts
      /\ read' = read /\ table' = table /\ old' = old /\ symbol' = symbol
      /\ output' = output
  BY DEF EncodeHit, Hit, decoderVars
<1>2. Types /\ Adjacent /\ Dictionary /\ Written /\ Decoded
  BY DEF IInv
<1>3. read = 0
  BY <1>1, <1>2, Grounds, SMT DEF Decoded
<1>4. prefix \in Nat /\ chunk[i + 1] \in Byte
  BY <1>1, <1>2, Grounds, SMT DEF Types
<1>5. /\ dict[Key] \in 0 .. nextCode - 1
      /\ Word(dict[Key]) = Word(prefix) \o <<chunk[i + 1]>>
  BY <1>1, <1>2, <1>4 DEF Dictionary, Key
<1>6. Types'
  BY <1>1, <1>2, <1>5, Grounds, SMT DEF Types
<1>7. Adjacent'
  BY <1>1, <1>2, <1>5, Grounds, SMT DEF Adjacent
<1>8. \A v : Word(v)' = Word(v)
  BY <1>1 DEF Word
<1>9. Word(prefix)' = SubSeq(chunk, s + 1, i + 1)
  <2>1. s \in Nat /\ s < i /\ i \in Nat /\ i < Len(chunk) /\ i <= Len(chunk)
    BY <1>1, <1>2, Grounds, SMT DEF Adjacent
  <2>2. SubSeq(chunk, s + 1, i + 1) = SubSeq(chunk, s + 1, i) \o <<chunk[i + 1]>>
    <3> HIDE DEF s
    <3>1. chunk \in Seq(Byte)
      BY <1>2, Grounds
    <3> QED BY <2>1, <3>1, Pieces, Zenon
  <2>3. Word(prefix) = SubSeq(chunk, s + 1, i)
    BY <1>1, <1>2 DEF Dictionary
  <2>4. Word(prefix)' = Word(dict[Key])
    BY <1>1 DEF Word
  <2> QED BY <2>2, <2>3, <2>4, <1>5
<1>10. Dictionary'
  <2>1. Word(prefix)' = SubSeq(chunk', starts'[Len(codes') + 1] + 1, i')
    BY <1>1, <1>9
  <2>2. ASSUME NEW p \in Nat, NEW b \in Byte, <<p, b>> \in DOMAIN dict'
        PROVE  /\ p < nextCode'
               /\ dict'[<<p, b>>] \in 0 .. nextCode' - 1
               /\ Word(dict[<<p, b>>])' = Word(p)' \o <<b>>
    <3>1. /\ p < nextCode /\ dict[<<p, b>>] \in 0 .. nextCode - 1
          /\ Word(dict[<<p, b>>]) = Word(p) \o <<b>>
      BY <1>1, <1>2, <2>2 DEF Dictionary
    <3>2. Word(dict[<<p, b>>])' = Word(dict[<<p, b>>])
      BY <1>1 DEF Word
    <3> QED BY <3>1, <3>2, <1>1, <1>8
  <2> QED BY <2>1, <2>2 DEF Dictionary
<1>11. Written'
  <2>1. ASSUME NEW k \in 1 .. Len(codes)
        PROVE  Word(codes[k])' = Word(codes[k])
    BY <1>1 DEF Word
  <2> QED BY <1>1, <1>2, <2>1 DEF Written
<1>12. Decoded'
  BY <1>1, <1>3, SMT DEF Decoded
<1> QED BY <1>6, <1>7, <1>10, <1>11, <1>12 DEF IInv

\* A word is written and the next one begins: what both Miss and Flush do.
LEMMA WordWritten ==
  ASSUME IInv, pc = "code", chunk' = chunk,
         codes' = Append(codes, prefix), starts' = Append(starts, i)
  PROVE  /\ codes' \in Seq(Nat) /\ Len(codes') = Len(codes) + 1
         /\ starts' \in Seq(Nat) /\ Len(starts') = Len(codes') + 1
         /\ starts'[1] = 0 /\ starts'[Len(codes') + 1] = i
         /\ \A k \in 1 .. Len(codes') : /\ starts'[k] < starts'[k + 1]
                                        /\ starts'[k] < i
         /\ Written'
<1> DEFINE n == Len(codes)
<1>1. Types /\ Adjacent /\ Dictionary /\ Written
  BY DEF IInv
<1>2. /\ n \in Nat /\ Radix \in Nat /\ Len(starts) = n + 1 /\ starts[n + 1] < i
      /\ nextCode = Radix + n /\ prefix < nextCode /\ prefix \in Nat /\ i \in Nat
      /\ codes \in Seq(Nat) /\ starts \in Seq(Nat)
  BY <1>1, Grounds DEF Adjacent, Types
<1>3. /\ codes' \in Seq(Nat) /\ Len(codes') = n + 1
      /\ \A k \in 1 .. n : codes'[k] = codes[k]
      /\ codes'[n + 1] = prefix
  BY <1>2, AppendProperties
<1>4. /\ starts' \in Seq(Nat) /\ Len(starts') = n + 2
      /\ \A k \in 1 .. n + 1 : starts'[k] = starts[k]
      /\ starts'[n + 2] = i
      /\ \A v \in Nat : v < Radix + n => WordIn(chunk', starts', v) = Word(v)
  <2>1. n + 1 + 1 = n + 2
    BY <1>2
  <2> QED BY <1>1, <1>2, <2>1, WordsKept
<1>5. \A k \in 1 .. n : starts[k] < starts[k + 1] /\ starts[k] < i
  BY <1>1 DEF Adjacent
<1>6. ASSUME NEW k \in 1 .. n + 1
      PROVE  starts'[k] < starts'[k + 1] /\ starts'[k] < i
  <2>1. CASE k = n + 1
    BY <2>1, <1>2, <1>4, SMT
  <2>2. CASE k \in 1 .. n
    BY <2>2, <1>2, <1>4, <1>5, SMT
  <2> QED BY <2>1, <2>2, <1>2, SMT
<1>7. starts'[1] = 0
  BY <1>1, <1>2, <1>4, 1 \in 1 .. n + 1, SMT DEF Adjacent
<1>8. ASSUME NEW k \in 1 .. n + 1
      PROVE  /\ codes'[k] < Radix + k - 1
             /\ WordIn(chunk', starts', codes'[k])
                  = SubSeq(chunk', starts'[k] + 1, starts'[k + 1])
  <2>1. CASE k = n + 1
    <3>1. codes'[k] = prefix /\ starts'[k] = starts[n + 1] /\ starts'[k + 1] = i
      <4>1. k + 1 = n + 2 /\ n + 1 \in 1 .. n + 1
        BY <2>1, <1>2
      <4> QED BY <2>1, <4>1, <1>3, <1>4
    <3>2. Word(prefix) = SubSeq(chunk, starts[n + 1] + 1, i)
      BY <1>1 DEF Dictionary
    <3>3. WordIn(chunk', starts', codes'[k]) = Word(prefix)
      <4>1. prefix \in Nat /\ prefix < Radix + n
        BY <1>2
      <4> QED BY <3>1, <4>1, <1>4
    <3>4. codes'[k] < Radix + k - 1
      BY <2>1, <3>1, <1>2
    <3> QED BY <3>1, <3>2, <3>3, <3>4, <2>1, chunk' = chunk
  <2>2. CASE k \in 1 .. n
    <3>1. /\ codes'[k] = codes[k] /\ codes[k] \in Nat /\ k \in Nat
          /\ starts'[k] = starts[k] /\ starts'[k + 1] = starts[k + 1]
      <4>1. k \in 1 .. n + 1 /\ k + 1 \in 1 .. n + 1
        BY <2>2, <1>2
      <4> QED BY <2>2, <4>1, <1>1, <1>3, <1>4, Grounds
    <3>2. /\ codes[k] < Radix + k - 1
          /\ Word(codes[k]) = SubSeq(chunk, starts[k] + 1, starts[k + 1])
      BY <2>2, <1>1 DEF Written
    <3>3. codes[k] < Radix + n
      <4>1. k <= n /\ k \in Int /\ n \in Int /\ Radix \in Int
        BY <2>2, <1>2
      <4>2. codes[k] \in Int /\ codes[k] < Radix + k - 1
        BY <3>1, <3>2
      <4> HIDE DEF n
      <4> QED BY <4>1, <4>2
    <3>4. WordIn(chunk', starts', codes'[k]) = Word(codes[k])
      BY <3>1, <3>3, <1>4
    <3> QED BY <3>1, <3>2, <3>4, chunk' = chunk
  <2>3. k = n + 1 \/ k \in 1 .. n
    BY <1>2
  <2> QED BY <2>1, <2>2, <2>3, Zenon
<1>9. Written'
  BY <1>3, <1>8 DEF Written, Word
<1>10. Len(starts') = Len(codes') + 1 /\ Len(codes') + 1 = n + 2
  BY <1>2, <1>3, <1>4
<1> QED BY <1>3, <1>4, <1>6, <1>7, <1>9, <1>10

LEMMA FlushStep ==
  ASSUME IInv, EncodeFlush
  PROVE  IInv'
<1>1. /\ pc = "code" /\ i = Len(chunk) /\ pc' = "done"
      /\ codes' = Append(codes, prefix) /\ starts' = Append(starts, i)
      /\ chunk' = chunk /\ i' = i /\ prefix' = prefix
      /\ nextCode' = nextCode /\ failure' = failure
      /\ read' = read /\ table' = table /\ output' = output
  BY DEF EncodeFlush, Flush, decoderVars
<1>2. Types /\ Adjacent /\ Dictionary /\ Written /\ Decoded
  BY DEF IInv
<1>3. read = 0
  BY <1>1, <1>2, Grounds, SMT DEF Decoded
<1>4. /\ codes' \in Seq(Nat) /\ Len(codes') = Len(codes) + 1
      /\ starts' \in Seq(Nat) /\ Len(starts') = Len(codes') + 1
      /\ starts'[1] = 0 /\ starts'[Len(codes') + 1] = i
      /\ \A k \in 1 .. Len(codes') : /\ starts'[k] < starts'[k + 1]
                                     /\ starts'[k] < i
      /\ Written'
  BY <1>1, WordWritten
<1>5. Len(codes) \in Nat /\ Radix \in Nat /\ Len(codes) < i /\ i \in Nat
      /\ nextCode = Radix + Len(codes) /\ prefix < nextCode
  BY <1>1, <1>2, Grounds DEF Adjacent
<1>6. Types'
  <2>1. read' \in 0 .. Len(codes')
    BY <1>1, <1>3, <1>4, <1>5
  <2> QED BY <1>1, <1>2, <1>4, <2>1, Zenon DEF Types
<1>7. Adjacent'
  <2>1. /\ Len(codes') \in 1 .. i' /\ prefix' < nextCode'
        /\ nextCode' = Radix + Len(codes') - 1
    BY <1>1, <1>4, <1>5, SMT
  <2>2. pc' # "code" /\ i' = Len(chunk')
    BY <1>1
  <2> QED BY <1>1, <1>4, <2>1, <2>2, Zenon DEF Adjacent
<1>8. Dictionary'
  BY <1>1 DEF Dictionary
<1>9. Decoded'
  BY <1>1, <1>3, SMT DEF Decoded
<1> QED BY <1>4, <1>6, <1>7, <1>8, <1>9 DEF IInv

\* What the code given out by a miss stands for.
LEMMA EntryOfMiss ==
  ASSUME IInv, EncodeMiss
  PROVE  WordIn(chunk', starts', nextCode) = Word(prefix) \o <<chunk[i + 1]>>
<1> DEFINE n == Len(codes)
<1>1. /\ pc = "code" /\ i < Len(chunk) /\ chunk' = chunk /\ starts' = Append(starts, i)
      /\ Types /\ Adjacent /\ Dictionary
  BY DEF EncodeMiss, Miss, IInv
<1>2. /\ n \in Nat /\ Radix \in Nat /\ i \in Nat /\ nextCode = Radix + n
      /\ Len(chunk) \in Nat /\ chunk \in Seq(Byte)
      /\ Len(starts) = n + 1 /\ starts[n + 1] < i /\ starts[n + 1] \in Nat
  <2>1. n + 1 \in 1 .. Len(starts)
    BY <1>1, Grounds DEF Adjacent
  <2> QED BY <1>1, <2>1, Grounds DEF Adjacent
<1>3. /\ nextCode - Radix + 1 = n + 1 /\ nextCode - Radix + 2 = n + 2
      /\ ~(nextCode < Radix) /\ n + 1 \in 1 .. n + 1 /\ (n + 1) + 1 = n + 2
  BY <1>2
<1>4. starts'[n + 1] = starts[n + 1] /\ starts'[n + 2] = i
  BY <1>1, <1>2, <1>3, WordsKept
<1>5. WordIn(chunk', starts', nextCode) = SubSeq(chunk, starts[n + 1] + 1, i + 1)
  BY <1>1, <1>3, <1>4 DEF WordIn
<1>6. SubSeq(chunk, starts[n + 1] + 1, i + 1)
        = SubSeq(chunk, starts[n + 1] + 1, i) \o <<chunk[i + 1]>>
  BY <1>1, <1>2, i <= Len(chunk), Pieces
<1>7. Word(prefix) = SubSeq(chunk, starts[n + 1] + 1, i)
  BY <1>1 DEF Dictionary
<1> QED BY <1>5, <1>6, <1>7

LEMMA MissStep ==
  ASSUME IInv, EncodeMiss
  PROVE  IInv'
<1> DEFINE n == Len(codes)
<1>1. /\ pc = "code" /\ pc' = pc /\ i < Len(chunk) /\ i' = i + 1
      /\ codes' = Append(codes, prefix) /\ starts' = Append(starts, i)
      /\ chunk' = chunk /\ prefix' = chunk[i + 1] /\ nextCode' = nextCode + 1
      /\ read' = read /\ table' = table /\ output' = output
      /\ \/ dict' = Extended(Key, nextCode) /\ failure' = failure
         \/ failure' = TRUE /\ dict' = dict
  BY DEF EncodeMiss, Miss, decoderVars
<1>2. Types /\ Adjacent /\ Dictionary /\ Written /\ Decoded
  BY DEF IInv
<1>3. read = 0
  BY <1>1, <1>2, Grounds, SMT DEF Decoded
<1>4. /\ codes' \in Seq(Nat) /\ Len(codes') = n + 1
      /\ starts' \in Seq(Nat) /\ Len(starts') = Len(codes') + 1
      /\ starts'[1] = 0 /\ starts'[Len(codes') + 1] = i
      /\ \A k \in 1 .. Len(codes') : /\ starts'[k] < starts'[k + 1]
                                     /\ starts'[k] < i
      /\ Written'
  BY <1>1, WordWritten
<1>5. /\ n \in Nat /\ Radix \in Nat /\ Radix > 0 /\ n < i /\ i \in Nat
      /\ Len(chunk) \in Nat /\ chunk \in Seq(Byte) /\ failure \in BOOLEAN
      /\ nextCode = Radix + n /\ prefix < nextCode /\ prefix \in Nat
      /\ Len(starts) = n + 1 /\ starts[n + 1] < i /\ starts[n + 1] \in Nat
  <2>1. n + 1 \in 1 .. Len(starts)
    BY <1>2, Grounds DEF Adjacent
  <2> QED BY <1>1, <1>2, <2>1, Grounds DEF Adjacent, Types
<1>6. /\ \A k \in 1 .. n + 1 : starts'[k] = starts[k]
      /\ \A v \in Nat : v < Radix + n => WordIn(chunk', starts', v) = Word(v)
  BY <1>1, <1>2, <1>5, WordsKept
<1>7. chunk[i + 1] \in Byte /\ chunk[i + 1] \in Nat /\ chunk[i + 1] < Radix
  <2>1. chunk[i + 1] \in Byte
    BY <1>1, <1>2, <1>5, Grounds
  <2> QED BY <2>1, <1>5 DEF Byte
<1>8. Types'
  <2>1. /\ read' \in 0 .. Len(codes') /\ i' \in 1 .. Len(chunk')
        /\ prefix' \in Nat /\ nextCode' \in Nat
    BY <1>1, <1>3, <1>4, <1>5, <1>7
  <2>2. failure' \in BOOLEAN
    BY <1>1, <1>5
  <2> QED BY <1>1, <1>2, <1>4, <2>1, <2>2, Zenon DEF Types
<1>9. Adjacent'
  <2>1. /\ Len(codes') < i' /\ prefix' < nextCode' /\ i < i'
        /\ nextCode' = Radix + Len(codes')
    BY <1>1, <1>4, <1>5, <1>7
  <2>2. ASSUME NEW k \in 1 .. Len(codes')
        PROVE  starts'[k] < i'
    <3>1. k \in 1 .. Len(starts')
      BY <1>4, <1>5
    <3>2. starts'[k] \in Nat
      BY <3>1, <1>4, ElementOfSeq
    <3> QED BY <3>2, <1>1, <1>4, <1>5
  <2>3. pc' # "done"
    BY <1>1
  <2> QED BY <1>1, <1>4, <2>1, <2>2, <2>3, Zenon DEF Adjacent
<1>10. WordIn(chunk', starts', nextCode) = Word(prefix) \o <<chunk[i + 1]>>
  BY EntryOfMiss
<1>11. Dictionary'
  <2>1. WordIn(chunk', starts', prefix')
          = SubSeq(chunk', starts'[Len(codes') + 1] + 1, i')
    <3>1. SubSeq(chunk, i + 1, i + 1) = <<chunk[i + 1]>>
      BY <1>1, <1>5, SinglePiece
    <3> QED BY <1>1, <1>4, <1>7, <3>1 DEF WordIn
  <2>2. ASSUME NEW p \in Nat, NEW b \in Byte, <<p, b>> \in DOMAIN dict'
        PROVE  /\ p < nextCode'
               /\ dict'[<<p, b>>] \in 0 .. nextCode' - 1
               /\ WordIn(chunk', starts', dict'[<<p, b>>])
                    = WordIn(chunk', starts', p) \o <<b>>
    <3>1. CASE <<p, b>> \in DOMAIN dict /\ dict'[<<p, b>>] = dict[<<p, b>>]
      <4>1. /\ p < nextCode /\ dict[<<p, b>>] \in 0 .. nextCode - 1
            /\ Word(dict[<<p, b>>]) = Word(p) \o <<b>>
        BY <1>1, <1>2, <3>1 DEF Dictionary
      <4>2. dict[<<p, b>>] \in Nat /\ dict[<<p, b>>] < Radix + n /\ p < Radix + n
        BY <4>1, <1>5
      <4>3. /\ WordIn(chunk', starts', dict[<<p, b>>]) = Word(dict[<<p, b>>])
            /\ WordIn(chunk', starts', p) = Word(p)
        BY <4>2, <1>6
      <4>4. p < nextCode' /\ dict[<<p, b>>] \in 0 .. nextCode' - 1
        BY <4>1, <1>1, <1>5
      <4> QED BY <3>1, <4>1, <4>3, <4>4
    <3>2. CASE <<p, b>> = Key /\ dict'[<<p, b>>] = nextCode
      <4>1. p = prefix /\ b = chunk[i + 1]
        BY <3>2 DEF Key
      <4>2. WordIn(chunk', starts', p) = Word(prefix)
        BY <4>1, <1>5, <1>6
      <4>3. p < nextCode' /\ nextCode \in 0 .. nextCode' - 1
        BY <4>1, <1>1, <1>5
      <4> QED BY <3>2, <4>1, <4>2, <4>3, <1>10
    <3>3. \/ <<p, b>> \in DOMAIN dict /\ dict'[<<p, b>>] = dict[<<p, b>>]
          \/ <<p, b>> = Key /\ dict'[<<p, b>>] = nextCode
      BY <1>1, <2>2 DEF Extended
    <3> QED BY <3>1, <3>2, <3>3
  <2> QED BY <2>1, <2>2 DEF Dictionary, Word
<1>12. Decoded'
  BY <1>1, <1>3, SMT DEF Decoded
<1> QED BY <1>4, <1>8, <1>9, <1>11, <1>12 DEF IInv

LEMMA NextChunkStep ==
  ASSUME IInv, EncodeNextChunk
  PROVE  IInv'
<1>1. /\ pc' = "code" /\ chunk' \in Inputs /\ i' = 1 /\ prefix' = chunk'[1]
      /\ dict' = EmptyDict /\ nextCode' = Radix /\ codes' = <<>>
      /\ failure' = FALSE /\ read' = 0 /\ starts' = <<0>>
      /\ table' = table /\ output' = output
  BY DEF EncodeNextChunk, NextChunk
<1>2. chunk' \in Seq(Byte) /\ chunk' # <<>> /\ Radix \in Nat
  BY <1>1, LZWAssumption DEF Byte
<1>3. Len(chunk') \in Nat /\ Len(chunk') >= 1
  BY <1>2, EmptySeq, LenProperties, SMT
<1>4. prefix' \in Byte /\ prefix' < Radix /\ prefix' \in Nat
  BY <1>1, <1>2, <1>3, ElementOfSeq, 1 \in 1 .. Len(chunk'), SMT DEF Byte
<1>5. Types'
  <2>1. codes' \in Seq(Nat) /\ Len(codes') = 0 /\ starts' \in Seq(Nat)
    BY <1>1, EmptySeq
  <2>2. /\ i' \in 1 .. Len(chunk') /\ nextCode' \in Nat
        /\ read' \in 0 .. Len(codes')
    BY <1>1, <1>2, <1>3, <2>1
  <2>3. table \in Seq(Seq(Byte)) /\ output \in Seq(Byte)
    BY DEF IInv, Types
  <2> QED BY <1>1, <1>4, <2>1, <2>2, <2>3, Zenon DEF Types
<1>6. Adjacent'
  BY <1>1, <1>2, <1>4, SMT DEF Adjacent
<1>7. WordIn(chunk', starts', prefix') = SubSeq(chunk', 0 + 1, 0 + 1)
  <2>1. WordIn(chunk', starts', prefix') = <<chunk'[1]>>
    BY <1>1, <1>4 DEF WordIn
  <2> QED BY <2>1, <1>2, <1>3, SinglePiece, 0 \in Nat, 0 < Len(chunk')
<1>8. Dictionary'
  <2>1. starts'[Len(codes') + 1] = 0
    BY <1>1
  <2>2. DOMAIN dict' = {}
    BY <1>1 DEF EmptyDict
  <2>3. starts'[Len(codes') + 1] + 1 = 0 + 1 /\ i' = 0 + 1
    BY <1>1, <2>1
  <2>4. WordIn(chunk', starts', prefix')
          = SubSeq(chunk', starts'[Len(codes') + 1] + 1, i')
    BY <1>7, <2>3, Zenon
  <2> QED BY <2>2, <2>4, Zenon DEF Dictionary, Word
<1>9. Written' /\ Decoded'
  BY <1>1, SMT DEF Written, Decoded
<1> QED BY <1>5, <1>6, <1>8, <1>9 DEF IInv

-----------------------------------------------------------------------------
(* The decoder's steps *)

\* The decoder leaves the coder alone.
LEMMA CoderKept ==
  ASSUME IInv, UNCHANGED <<encoderVars, starts>>
  PROVE  /\ Adjacent' /\ Dictionary' /\ Written'
         /\ \A v : WordIn(chunk', starts', v) = Word(v)
<1>1. /\ pc' = pc /\ chunk' = chunk /\ i' = i /\ prefix' = prefix
      /\ dict' = dict /\ nextCode' = nextCode /\ codes' = codes
      /\ failure' = failure /\ starts' = starts
  BY DEF encoderVars
<1>2. Adjacent'
  BY <1>1, Zenon DEF IInv, Adjacent
<1>3. Dictionary'
  BY <1>1, Zenon DEF IInv, Dictionary, Word
<1>4. Written'
  BY <1>1, Zenon DEF IInv, Written, Word
<1> QED BY <1>1, <1>2, <1>3, <1>4 DEF Word

\* What is known when all codes are there: the words are pieces of the chunk.
LEMMA WhenDone ==
  ASSUME IInv, pc = "done", NEW k \in 1 .. Len(codes)
  PROVE  /\ starts[k] \in Nat /\ starts[k + 1] \in Nat
         /\ starts[k] < starts[k + 1] /\ starts[k + 1] <= Len(chunk)
         /\ k < Len(codes) => starts[k + 1] < Len(chunk)
         /\ codes[k] \in Nat /\ codes[k] < Radix + k - 1
         /\ Word(codes[k]) = SubSeq(chunk, starts[k] + 1, starts[k + 1])
         /\ chunk[starts[k] + 1] \in Byte
<1>1. Types /\ Adjacent /\ Written
  BY DEF IInv
<1>2. /\ Len(starts) = Len(codes) + 1 /\ Len(codes) \in Nat /\ i = Len(chunk)
      /\ starts[Len(codes) + 1] = i /\ i \in Nat
      /\ \A j \in 1 .. Len(codes) : starts[j] < starts[j + 1] /\ starts[j] < i
      /\ \A j \in 1 .. Len(starts) : starts[j] \in Nat
  BY <1>1, Grounds DEF Adjacent
<1>3. k \in 1 .. Len(starts) /\ k + 1 \in 1 .. Len(starts)
  BY <1>2
<1>4. starts[k] \in Nat /\ starts[k + 1] \in Nat /\ starts[k] < starts[k + 1]
  BY <1>2, <1>3
<1>5. k < Len(codes) => starts[k + 1] < Len(chunk)
  BY <1>2, k + 1 \in Nat
<1>6. starts[k + 1] <= Len(chunk)
  <2>1. CASE k < Len(codes)
    BY <2>1, <1>2, <1>4, <1>5
  <2>2. CASE k = Len(codes)
    BY <2>2, <1>2
  <2> QED BY <2>1, <2>2, <1>2
<1>7. /\ codes[k] \in Nat /\ codes[k] < Radix + k - 1
      /\ Word(codes[k]) = SubSeq(chunk, starts[k] + 1, starts[k + 1])
  BY <1>1, Grounds DEF Written
<1>8. chunk[starts[k] + 1] \in Byte
  <2>1. starts[k] + 1 \in 1 .. Len(chunk)
    BY <1>1, <1>4, <1>6, Grounds
  <2> QED BY <1>1, <2>1, Grounds
<1> QED BY <1>4, <1>5, <1>6, <1>7, <1>8

LEMMA DecodeFirstStep ==
  ASSUME IInv, DecodeFirst
  PROVE  IInv'
<1>1. /\ pc = "done" /\ read = 0 /\ table' = Singles /\ old' = codes[1]
      /\ symbol' = <<codes[1]>> /\ output' = <<codes[1]>> /\ read' = 1
      /\ UNCHANGED <<encoderVars, starts>>
      /\ pc' = pc /\ chunk' = chunk /\ i' = i /\ prefix' = prefix
      /\ nextCode' = nextCode /\ codes' = codes /\ failure' = failure
      /\ starts' = starts
  BY DEF DecodeFirst, encoderVars
<1>2. Types /\ Adjacent
  BY DEF IInv
<1>3. /\ Radix \in Nat /\ Radix > 0 /\ Len(codes) \in Nat /\ starts[1] = 0
      /\ chunk \in Seq(Byte) /\ 1 \in 1 .. Len(codes)
  BY <1>1, <1>2, Grounds DEF Adjacent
<1>4. /\ codes[1] \in Nat /\ codes[1] < Radix /\ codes[1] \in Byte
      /\ starts[2] \in Nat /\ starts[2] > 0 /\ starts[2] <= Len(chunk)
      /\ Word(codes[1]) = SubSeq(chunk, 1, starts[2])
  <2>1. /\ codes[1] \in Nat /\ codes[1] < Radix + 1 - 1
        /\ starts[1] < starts[1 + 1] /\ starts[1 + 1] <= Len(chunk)
        /\ starts[1 + 1] \in Nat
        /\ Word(codes[1]) = SubSeq(chunk, starts[1] + 1, starts[1 + 1])
    BY <1>1, <1>3, WhenDone
  <2> QED BY <2>1, <1>3 DEF Byte
<1>5. Word(codes[1]) = <<codes[1]>>
  BY <1>4 DEF Word, WordIn
<1>6. codes[1] = chunk[1]
  <2>1. SubSeq(chunk, 0 + 1, starts[2])[1] = chunk[0 + 1]
    BY <1>3, <1>4, Pieces
  <2> QED BY <2>1, <1>4, <1>5
<1>7. /\ table' \in Seq(Seq(Byte)) /\ Len(table') = Radix
      /\ \A v \in 0 .. Radix - 1 : table'[v + 1] = <<v>>
  <2>1. \A v \in 1 .. Radix : <<v - 1>> \in Seq(Byte)
    <3>1. ASSUME NEW v \in 1 .. Radix
          PROVE  <<v - 1>> \in Seq(Byte)
      <4>1. v - 1 \in Byte
        BY <1>3 DEF Byte
      <4> QED BY <4>1
    <3> QED BY <3>1
  <2>2. Singles \in Seq(Seq(Byte)) /\ Len(Singles) = Radix
    BY <2>1, <1>3, SMT DEF Singles
  <2>3. ASSUME NEW v \in 0 .. Radix - 1
        PROVE  Singles[v + 1] = <<v>>
    <3>1. v + 1 \in 1 .. Radix /\ (v + 1) - 1 = v
      BY <1>3
    <3> QED BY <3>1 DEF Singles
  <2> QED BY <1>1, <2>2, <2>3
<1>8. Types'
  <2>1. read' \in 0 .. Len(codes') /\ output' \in Seq(Byte)
    BY <1>1, <1>3, <1>4
  <2> QED BY <1>1, <1>2, <1>7, <2>1, Zenon DEF Types
<1>9. Decoded'
  <2>1. Len(table') = Radix + read' - 1 /\ Radix + read' - 2 = Radix - 1
    BY <1>1, <1>3, <1>7
  <2>2. ASSUME NEW v \in 0 .. Radix + read' - 2
        PROVE  table'[v + 1] = WordIn(chunk', starts', v)
    <3>1. v \in 0 .. Radix - 1 /\ v < Radix
      BY <1>1, <1>3
    <3> QED BY <3>1, <1>7 DEF WordIn
  <2>3. old' = codes'[read'] /\ symbol' = <<chunk'[starts'[read'] + 1]>>
    BY <1>1, <1>3, <1>6
  <2>4. output' = SubSeq(chunk', 1, starts'[read' + 1])
    <3>1. read' + 1 = 2
      BY <1>1
    <3>2. output' = Word(codes[1])
      BY <1>1, <1>5
    <3> QED BY <3>1, <3>2, <1>1, <1>4, Zenon
  <2> QED BY <1>1, <2>1, <2>2, <2>3, <2>4 DEF Decoded, Word
<1> QED BY <1>1, <1>8, <1>9, CoderKept DEF IInv

\* The next code's word, whether it is in the table or about to be entered.
LEMMA NextSymbols ==
  ASSUME IInv, pc = "done", read \in 1 .. Len(codes) - 1
  PROVE  Symbols(codes[read + 1]) = Word(codes[read + 1])
<1> DEFINE new == codes[read + 1]
           a == starts[read]
           b == starts[read + 1]
<1>1. Types /\ Adjacent /\ Written /\ Decoded
  BY DEF IInv
<1>2. /\ Radix \in Nat /\ Radix > 0 /\ chunk \in Seq(Byte) /\ Len(chunk) \in Nat
      /\ read \in Nat /\ Len(codes) \in Nat
  BY <1>1, Grounds
<1>3. read \in 1 .. Len(codes) /\ read + 1 \in 1 .. Len(codes)
      /\ read < Len(codes)
  BY <1>2
<1>4. /\ a \in Nat /\ b \in Nat /\ a < b /\ b < Len(chunk)
      /\ old \in Nat /\ old < Radix + read - 1
      /\ Word(old) = SubSeq(chunk, a + 1, b)
  <2>1. old = codes[read]
    BY <1>1, <1>3 DEF Decoded
  <2> QED BY <1>3, <2>1, WhenDone
<1>5. /\ new \in Nat /\ new < Radix + read
      /\ starts[read + 2] \in Nat /\ b < starts[read + 2]
      /\ starts[read + 2] <= Len(chunk)
      /\ Word(new) = SubSeq(chunk, b + 1, starts[read + 2])
  <2>1. (read + 1) + 1 = read + 2 /\ Radix + (read + 1) - 1 = Radix + read
    BY <1>2
  <2> QED BY <1>3, <2>1, WhenDone
<1>6. /\ Len(table) = Radix + read - 1
      /\ \A v \in 0 .. Radix + read - 2 : table[v + 1] = Word(v)
      /\ symbol = <<chunk[a + 1]>>
  BY <1>1, <1>3 DEF Decoded
<1>7. CASE new < Len(table)
  <2>1. new \in 0 .. Radix + read - 2
    BY <1>2, <1>5, <1>6, <1>7
  <2>2. ~(new >= Len(table))
    BY <1>2, <1>5, <1>6, <1>7
  <2> QED BY <2>1, <2>2, <1>6 DEF Symbols
<1>8. CASE ~(new < Len(table))
  <2>1. new = Radix + read - 1 /\ new >= Len(table) /\ read \in Nat \ {0}
    <3>1. new \in Nat /\ new < Radix + read /\ Len(table) = Radix + read - 1
      BY <1>5, <1>6
    <3> HIDE DEF new
    <3> QED BY <3>1, <1>2, <1>3, <1>8
  <2>2. Word(new) = SubSeq(chunk, a + 1, b + 1)
    BY <1>1, <2>1, EntryWord
  <2>3. /\ SubSeq(chunk, a + 1, b + 1) = SubSeq(chunk, a + 1, b) \o <<chunk[b + 1]>>
        /\ SubSeq(chunk, b + 1, starts[read + 2])[1] = chunk[b + 1]
        /\ SubSeq(chunk, a + 1, b + 1)[1] = chunk[a + 1]
    <3> HIDE DEF a, b
    <3>1. b <= Len(chunk) /\ b + 1 \in Nat /\ a < b + 1 /\ b + 1 <= Len(chunk)
      BY <1>2, <1>4
    <3>2. /\ chunk \in Seq(Byte) /\ a \in Nat /\ b \in Nat /\ a < b /\ b < Len(chunk)
          /\ starts[read + 2] \in Nat /\ b < starts[read + 2] /\ starts[read + 2] <= Len(chunk)
      BY <3>1, <1>2, <1>4, <1>5
    <3>3. SubSeq(chunk, a + 1, b + 1) = SubSeq(chunk, a + 1, b) \o <<chunk[b + 1]>>
      BY <3>1, <3>2, Pieces
    <3>4. SubSeq(chunk, b + 1, starts[read + 2])[1] = chunk[b + 1]
      BY <3>2, Pieces
    <3>5. SubSeq(chunk, a + 1, b + 1)[1] = chunk[a + 1]
      BY <3>1, <3>2, Pieces
    <3> QED BY <3>3, <3>4, <3>5
  <2>4. chunk[b + 1] = chunk[a + 1]
    BY <2>2, <2>3, <1>5
  <2>5. old \in 0 .. Radix + read - 2
    BY <1>2, <1>4
  <2>6. table[old + 1] = SubSeq(chunk, a + 1, b)
    BY <2>5, <1>4, <1>6
  <2>7. Symbols(new) = table[old + 1] \o symbol
    BY <2>1 DEF Symbols
  <2> QED BY <2>2, <2>3, <2>4, <2>6, <2>7, <1>6
<1> QED BY <1>7, <1>8

LEMMA DecodeNextStep ==
  ASSUME IInv, DecodeNext
  PROVE  IInv'
<1> DEFINE new == codes[read + 1]
           a == starts[read]
           b == starts[read + 1]
           e == starts[read + 2]
<1>1. /\ pc = "done" /\ read \in 1 .. Len(codes) - 1
      /\ output' = output \o Symbols(new)
      /\ symbol' = <<Symbols(new)[1]>>
      /\ table' = Append(table, table[old + 1] \o symbol')
      /\ old' = new /\ read' = read + 1
      /\ UNCHANGED <<encoderVars, starts>>
      /\ pc' = pc /\ chunk' = chunk /\ i' = i /\ prefix' = prefix
      /\ nextCode' = nextCode /\ codes' = codes /\ failure' = failure
      /\ starts' = starts
  BY DEF DecodeNext, encoderVars
<1>2. Types /\ Adjacent /\ Written /\ Decoded
  BY DEF IInv
<1>3. /\ Radix \in Nat /\ Radix > 0 /\ chunk \in Seq(Byte) /\ Len(chunk) \in Nat
      /\ read \in Nat /\ Len(codes) \in Nat
      /\ table \in Seq(Seq(Byte)) /\ output \in Seq(Byte)
  BY <1>2, Grounds DEF Types
<1>4. /\ read \in 1 .. Len(codes) /\ read + 1 \in 1 .. Len(codes)
      /\ read < Len(codes) /\ read > 0 /\ (read + 1) + 1 = read + 2
  BY <1>1, <1>3
<1>5. /\ Len(table) = Radix + read - 1
      /\ \A v \in 0 .. Radix + read - 2 : table[v + 1] = Word(v)
      /\ old = codes[read] /\ output = SubSeq(chunk, 1, b)
  BY <1>2, <1>4 DEF Decoded
<1>6. /\ a \in Nat /\ b \in Nat /\ a < b /\ b < Len(chunk) /\ b <= Len(chunk)
      /\ old \in Nat /\ old < Radix + read - 1
      /\ Word(old) = SubSeq(chunk, a + 1, b)
  BY <1>1, <1>4, <1>5, WhenDone
<1>7. /\ e \in Nat /\ b < e /\ e <= Len(chunk) /\ chunk[b + 1] \in Byte
      /\ Word(new) = SubSeq(chunk, b + 1, e)
  BY <1>1, <1>4, WhenDone
<1>8. Symbols(new) = SubSeq(chunk, b + 1, e)
  BY <1>1, <1>7, NextSymbols
<1>9. /\ SubSeq(chunk, b + 1, e)[1] = chunk[b + 1]
      /\ SubSeq(chunk, b + 1, e) \in Seq(Byte)
      /\ SubSeq(chunk, 1, b) \o SubSeq(chunk, b + 1, e) = SubSeq(chunk, 1, e)
      /\ SubSeq(chunk, a + 1, b) \in Seq(Byte)
      /\ SubSeq(chunk, a + 1, b + 1) = SubSeq(chunk, a + 1, b) \o <<chunk[b + 1]>>
  <2> HIDE DEF a, b, e
  <2>1. /\ SubSeq(chunk, b + 1, e)[1] = chunk[b + 1]
        /\ SubSeq(chunk, b + 1, e) \in Seq(Byte)
        /\ SubSeq(chunk, 1, b) \o SubSeq(chunk, b + 1, e) = SubSeq(chunk, 1, e)
    <3>1. /\ chunk \in Seq(Byte) /\ b \in Nat /\ e \in Nat
          /\ b < e /\ e <= Len(chunk)
      BY <1>3, <1>6, <1>7
    <3> QED BY <3>1, Pieces, Zenon
  <2>2. /\ SubSeq(chunk, a + 1, b) \in Seq(Byte)
        /\ SubSeq(chunk, a + 1, b + 1)
             = SubSeq(chunk, a + 1, b) \o <<chunk[b + 1]>>
    BY <1>3, <1>6, Pieces, Zenon
  <2> QED BY <2>1, <2>2
<1>10. symbol' = <<chunk[b + 1]>> /\ output' = SubSeq(chunk, 1, e)
  BY <1>1, <1>5, <1>8, <1>9
<1>11. table[old + 1] = SubSeq(chunk, a + 1, b)
  <2>1. old \in 0 .. Radix + read - 2
    BY <1>3, <1>6
  <2> QED BY <2>1, <1>5, <1>6
<1>12. table' = Append(table, SubSeq(chunk, a + 1, b + 1))
  BY <1>1, <1>9, <1>10, <1>11
<1>13. SubSeq(chunk, a + 1, b + 1) \in Seq(Byte)
  <2>1. <<chunk[b + 1]>> \in Seq(Byte)
    BY <1>7
  <2> QED BY <2>1, <1>9, ConcatProperties
<1>14. /\ table' \in Seq(Seq(Byte)) /\ Len(table') = Radix + read
       /\ \A k \in 1 .. Len(table) : table'[k] = table[k]
       /\ table'[Radix + read] = SubSeq(chunk, a + 1, b + 1)
  <2>1. Len(table) + 1 = Radix + read
    BY <1>3, <1>5
  <2>2. /\ Append(table, SubSeq(chunk, a + 1, b + 1)) \in Seq(Seq(Byte))
        /\ Len(table') = Len(table) + 1
        /\ \A k \in 1 .. Len(table) : table'[k] = table[k]
        /\ table'[Len(table) + 1] = SubSeq(chunk, a + 1, b + 1)
    <3> HIDE DEF a, b
    <3> QED BY <1>3, <1>12, <1>13, AppendProperties
  <2> QED BY <1>12, <2>1, <2>2, Zenon
<1>15. Types'
  <2>1. read' \in 0 .. Len(codes')
    BY <1>1, <1>3
  <2>2. output' \in Seq(Byte)
    BY <1>1, <1>3, <1>8, <1>9, ConcatProperties
  <2> QED BY <1>1, <1>2, <1>14, <2>1, <2>2, Zenon DEF Types
<1>16. Decoded'
  <2>1. Len(table') = Radix + read' - 1 /\ Radix + read' - 2 = Radix + read - 1
    BY <1>1, <1>3, <1>14
  <2>2. ASSUME NEW v \in 0 .. Radix + read' - 2
        PROVE  table'[v + 1] = WordIn(chunk', starts', v)
    <3>1. WordIn(chunk', starts', v) = Word(v)
      BY <1>1 DEF Word
    <3>2. CASE v = Radix + read - 1
      <4>1. v + 1 = Radix + read /\ read \in Nat \ {0}
        BY <1>3, <1>4, <3>2
      <4>2. Word(v) = SubSeq(chunk, a + 1, b + 1)
        BY <1>2, <3>2, <4>1, EntryWord
      <4> QED BY <3>1, <4>1, <4>2, <1>14
    <3>3. CASE v \in 0 .. Radix + read - 2
      <4>1. v + 1 \in 1 .. Len(table)
        BY <1>3, <1>5, <3>3
      <4> QED BY <3>1, <3>3, <4>1, <1>5, <1>14
    <3>4. v = Radix + read - 1 \/ v \in 0 .. Radix + read - 2
      BY <1>3, <2>1
    <3> QED BY <3>2, <3>3, <3>4
  <2>3. old' = codes'[read'] /\ symbol' = <<chunk'[starts'[read'] + 1]>>
    BY <1>1, <1>10
  <2>4. output' = SubSeq(chunk', 1, starts'[read' + 1])
    BY <1>1, <1>4, <1>10
  <2> QED BY <1>1, <2>1, <2>2, <2>3, <2>4 DEF Decoded, Word
<1> QED BY <1>1, <1>15, <1>16, CoderKept DEF IInv

-----------------------------------------------------------------------------
(* The theorems *)

LEMMA Stutter ==
  ASSUME IInv, UNCHANGED vars
  PROVE  IInv'
<1>1. UNCHANGED <<encoderVars, starts>> /\ UNCHANGED decoderVars
  BY DEF vars
<1>2. /\ pc' = pc /\ chunk' = chunk /\ i' = i /\ prefix' = prefix
      /\ nextCode' = nextCode /\ codes' = codes /\ failure' = failure
      /\ starts' = starts /\ read' = read /\ table' = table /\ old' = old
      /\ symbol' = symbol /\ output' = output
  BY <1>1 DEF encoderVars, decoderVars
<1>3. Types'
  BY <1>2, Zenon DEF IInv, Types
<1>4. Decoded'
  BY <1>2, Zenon DEF IInv, Decoded, Word
<1> QED BY <1>1, <1>3, <1>4, CoderKept DEF IInv

THEOREM Invariance == LZWSpec => []IInv
<1>1. LZWInit => IInv
  BY InitIInv
<1>2. IInv /\ [LZWNext]_vars => IInv'
  <2> SUFFICES ASSUME IInv, [LZWNext]_vars PROVE IInv'
    OBVIOUS
  <2>1. CASE EncodeHit
    BY <2>1, HitStep
  <2>2. CASE EncodeMiss
    BY <2>2, MissStep
  <2>3. CASE EncodeFlush
    BY <2>3, FlushStep
  <2>4. CASE EncodeNextChunk
    BY <2>4, NextChunkStep
  <2>5. CASE DecodeFirst
    BY <2>5, DecodeFirstStep
  <2>6. CASE DecodeNext
    BY <2>6, DecodeNextStep
  <2>7. CASE UNCHANGED vars
    BY <2>7, Stutter
  <2> QED BY <2>1, <2>2, <2>3, <2>4, <2>5, <2>6, <2>7 DEF LZWNext
<1> QED BY <1>1, <1>2, PTL DEF LZWSpec

\* The variables stay in their ranges: a code is not wider than the length of
\* the chunk allows, which is what CODE_LENGTH relies on.
THEOREM TypeCorrect == LZWSpec => []TypeOK
<1>1. IInv => TypeOK
  <2> SUFFICES ASSUME IInv PROVE TypeOK
    OBVIOUS
  <2>1. Types /\ Adjacent /\ Written
    BY DEF IInv
  <2>2. /\ Radix \in Nat /\ Radix > 0 /\ Len(chunk) \in Nat /\ i \in Nat
        /\ Len(codes) \in Nat /\ i \in 1 .. Len(chunk)
        /\ prefix \in Nat /\ nextCode \in Nat /\ codes \in Seq(Nat)
    BY <2>1, Grounds DEF Types
  <2>3. /\ nextCode \in Radix .. Radix + Len(chunk) - 1
        /\ Len(codes) <= Len(chunk)
    <3>1. CASE pc = "code"
      BY <3>1, <2>1, <2>2 DEF Adjacent
    <3>2. CASE pc = "done"
      BY <3>2, <2>1, <2>2 DEF Adjacent
    <3> QED BY <2>1, <3>1, <3>2 DEF Types
  <2>4. prefix \in 0 .. nextCode - 1
    BY <2>1, <2>2 DEF Adjacent
  <2>5. codes \in Seq(0 .. Radix + Len(chunk) - 2)
    <3>1. ASSUME NEW k \in 1 .. Len(codes)
          PROVE  codes[k] \in 0 .. Radix + Len(chunk) - 2
      <4>1. codes[k] \in Nat /\ codes[k] < Radix + k - 1
        BY <2>1, Grounds DEF Written
      <4> QED BY <4>1, <2>2, <2>3
    <3>2. codes \in [1 .. Len(codes) -> 0 .. Radix + Len(chunk) - 2]
      <4>1. codes \in [1 .. Len(codes) -> Nat]
        BY <2>2, LenProperties
      <4> QED BY <4>1, <3>1
    <3> QED BY <3>2, <2>2, SMT
  <2> QED BY <2>1, <2>3, <2>4, <2>5, Zenon DEF Types, TypeOK
<1> QED BY <1>1, Invariance, PTL

\* What Decompress has written is the beginning of the chunk, and when it has
\* read all codes it is the chunk.
THEOREM DecodesChunkHolds == LZWSpec => []DecodesChunk
<1>1. IInv => DecodesChunk
  <2> SUFFICES ASSUME IInv, read > 0 PROVE DecodesChunk
    BY DEF DecodesChunk
  <2> DEFINE e == starts[read + 1]
  <2>1. Types /\ Adjacent /\ Decoded
    BY DEF IInv
  <2>2. /\ pc = "done" /\ output = SubSeq(chunk, 1, e)
        /\ starts[Len(codes) + 1] = Len(chunk)
    BY <2>1 DEF Decoded, Adjacent
  <2>3. read \in 1 .. Len(codes) /\ chunk \in Seq(Byte) /\ Len(chunk) \in Nat
    BY <2>1, Grounds DEF Types
  <2>4. e \in Nat /\ e > 0 /\ e <= Len(chunk)
    <3>1. e \in Nat /\ starts[read] \in Nat /\ starts[read] < e /\ e <= Len(chunk)
      BY <2>2, <2>3, WhenDone
    <3> QED BY <3>1
  <2>5. Len(output) = e
    <3> HIDE DEF e
    <3>1. Len(SubSeq(chunk, 0 + 1, e)) = e - 0
      BY <2>3, <2>4, Pieces
    <3> QED BY <2>2, <2>4, <3>1
  <2>6. read = Len(codes) => output = chunk
    BY <2>2, <2>3, SubSeqFull
  <2> QED BY <2>2, <2>4, <2>5, <2>6 DEF DecodesChunk
<1> QED BY <1>1, Invariance, PTL

-----------------------------------------------------------------------------
(* Two codes in use stand for different words *)

\* The keys in the dictionary and the prefix are made of codes in use.
InUse ==
  pc = "code" =>
    /\ DOMAIN dict \subseteq Nat \X Byte
    /\ prefix \in NamedCodes
    /\ \A p \in Nat, b \in Byte : <<p, b>> \in DOMAIN dict => p \in NamedCodes

Complete == InUse /\ OneCodeForAWord

LEMMA WordType ==
  ASSUME Types, Adjacent, pc = "code", NEW v \in 0 .. nextCode - 1
  PROVE  Word(v) \in Seq(Byte) /\ Len(Word(v)) > 0
<1>1. v \in Nat /\ v < Radix + Len(codes) /\ Radix \in Nat /\ Len(codes) \in Nat
  BY Grounds DEF Adjacent, Types
<1>2. CASE v < Radix
  <2>1. Word(v) = <<v>> /\ v \in Byte
    BY <1>1, <1>2 DEF Word, WordIn, Byte
  <2> QED BY <2>1
<1>3. CASE ~(v < Radix)
  <2> DEFINE k == v - Radix + 1
  <2>1. /\ k \in Nat \ {0} /\ k \in 1 .. Len(codes) /\ v = Radix + k - 1
        /\ k \in 1 .. Len(starts) /\ k + 1 \in 1 .. Len(starts)
    BY <1>1, <1>3, Grounds DEF Adjacent
  <2> HIDE DEF k
  <2>2. Word(v) = SubSeq(chunk, starts[k] + 1, starts[k + 1] + 1)
    BY <2>1, EntryWord
  <2>3. /\ starts[k] \in Nat /\ starts[k + 1] \in Nat /\ starts[k] < starts[k + 1]
        /\ i \in 1 .. Len(chunk) /\ chunk \in Seq(Byte) /\ Len(chunk) \in Nat
    BY <2>1, Grounds DEF Adjacent, Types
  <2>4. starts[k + 1] < i
    <3>1. CASE k = Len(codes)
      BY <3>1 DEF Adjacent
    <3>2. CASE k # Len(codes)
      BY <2>1, <3>2, k + 1 \in 1 .. Len(codes), Grounds DEF Adjacent
    <3> QED BY <3>1, <3>2
  <2>5. /\ starts[k + 1] + 1 \in Nat /\ starts[k] < starts[k + 1] + 1
        /\ starts[k + 1] + 1 <= Len(chunk)
        /\ (starts[k + 1] + 1) - starts[k] > 0
    BY <2>3, <2>4
  <2> DEFINE a == starts[k]
             b == starts[k + 1] + 1
  <2> HIDE DEF a, b
  <2>6. /\ SubSeq(chunk, a + 1, b) \in Seq(Byte)
        /\ Len(SubSeq(chunk, a + 1, b)) = b - a
    <3>1. a \in Nat /\ b \in Nat /\ a < b /\ b <= Len(chunk)
      BY <2>3, <2>5 DEF a, b
    <3> QED BY <2>3, <3>1, Pieces
  <2> QED BY <2>2, <2>5, <2>6 DEF a, b
<1> QED BY <1>2, <1>3

\* A code in use is a byte or an entry's, and has been given out.
LEMMA CodeInUse ==
  ASSUME IInv, InUse, pc = "code", NEW v \in NamedCodes
  PROVE  /\ v \in 0 .. nextCode - 1
         /\ ~(v < Radix) =>
              \E p \in Nat, b \in Byte : <<p, b>> \in DOMAIN dict /\ dict[<<p, b>>] = v
<1>1. /\ Radix \in Nat /\ nextCode \in Nat /\ Radix <= nextCode
  BY Grounds DEF IInv, Types, Adjacent
<1>2. CASE v \in 0 .. Radix - 1
  BY <1>1, <1>2
<1>3. CASE v \notin 0 .. Radix - 1
  <2>1. PICK key \in DOMAIN dict : v = dict[key]
    BY <1>3 DEF NamedCodes
  <2>2. PICK p \in Nat, b \in Byte : key = <<p, b>>
    BY <2>1 DEF InUse
  <2>3. v \in 0 .. nextCode - 1
    BY <2>1, <2>2 DEF IInv, Dictionary
  <2> QED BY <2>1, <2>2, <2>3
<1> QED BY <1>2, <1>3

\* The word that a miss enters is none of those of the codes in use.
LEMMA MissedWord ==
  ASSUME IInv, Complete, EncodeMiss, NEW v \in NamedCodes
  PROVE  Word(v) # Word(prefix) \o <<chunk[i + 1]>>
<1>1. /\ Types /\ Adjacent /\ Dictionary /\ pc = "code" /\ i < Len(chunk)
      /\ Key \notin DOMAIN dict /\ InUse /\ prefix \in NamedCodes
  BY DEF IInv, EncodeMiss, Miss, Complete, InUse
<1>2. /\ prefix \in 0 .. nextCode - 1 /\ chunk[i + 1] \in Byte
      /\ Radix \in Nat /\ nextCode \in Nat /\ v \in 0 .. nextCode - 1
  BY <1>1, Grounds, CodeInUse DEF Types, Adjacent
<1>3. Word(prefix) \in Seq(Byte) /\ Len(Word(prefix)) > 0 /\ Word(v) \in Seq(Byte)
  BY <1>1, <1>2, WordType
<1>4. SUFFICES ASSUME Word(v) = Word(prefix) \o <<chunk[i + 1]>> PROVE FALSE
  OBVIOUS
<1>5. Word(v) = Append(Word(prefix), chunk[i + 1])
  BY <1>2, <1>3, <1>4, AppendIsConcat
<1>6. CASE v < Radix
  <2>1. Len(Word(v)) = 1
    BY <1>6 DEF Word, WordIn
  <2>2. Len(Word(v)) = Len(Word(prefix)) + 1 /\ Len(Word(prefix)) \in Nat
    BY <1>2, <1>3, <1>5, AppendProperties, LenProperties
  <2>3. Len(Word(prefix)) > 0
    BY <1>3
  <2> QED BY <2>1, <2>2, <2>3, SMT
<1>7. CASE ~(v < Radix)
  <2>1. PICK p \in Nat, b \in Byte : <<p, b>> \in DOMAIN dict /\ dict[<<p, b>>] = v
    BY <1>1, <1>7, CodeInUse
  <2>2. p < nextCode /\ Word(v) = Word(p) \o <<b>>
    BY <1>1, <2>1 DEF Dictionary
  <2>3. p \in 0 .. nextCode - 1 /\ p \in NamedCodes
    BY <1>1, <1>2, <2>1, <2>2 DEF InUse
  <2>4. Word(p) \in Seq(Byte)
    BY <1>1, <2>3, WordType
  <2>5. Word(v) = Append(Word(p), b)
    BY <2>1, <2>2, <2>4, AppendIsConcat
  <2>6. Word(p) = Word(prefix) /\ b = chunk[i + 1]
    <3>1. Append(Word(p), b) = Append(Word(prefix), chunk[i + 1])
      BY <1>5, <2>5, Zenon
    <3>2. /\ Word(p) \in Seq(Byte) /\ Word(prefix) \in Seq(Byte)
          /\ b \in Byte /\ chunk[i + 1] \in Byte
      BY <1>2, <1>3, <2>1, <2>4
    <3>3. \A s, t \in Seq(Byte), e, f \in Byte :
            Append(s, e) = Append(t, f) => s = t /\ e = f
      BY AppendInjective
    <3> QED BY <3>1, <3>2, <3>3, SMT
  <2>7. p = prefix
    BY <1>1, <2>3, <2>6 DEF Complete, OneCodeForAWord
  <2> QED BY <1>1, <2>1, <2>6, <2>7 DEF Key
<1> QED BY <1>6, <1>7

\* With an empty dictionary the codes in use are the bytes.
LEMMA SingleWords ==
  ASSUME NEW c, NEW s
  PROVE  /\ (0 .. Radix - 1) \cup {EmptyDict[key] : key \in DOMAIN EmptyDict} = 0 .. Radix - 1
         /\ DOMAIN EmptyDict = {}
         /\ \A v, w \in 0 .. Radix - 1 : WordIn(c, s, v) = WordIn(c, s, w) => v = w
<1>1. \A v \in 0 .. Radix - 1 : WordIn(c, s, v) = <<v>>
  BY LZWAssumption DEF WordIn
<1>2. \A v, w \in 0 .. Radix - 1 : WordIn(c, s, v) = WordIn(c, s, w) => v = w
  BY <1>1
<1>3. DOMAIN EmptyDict = {}
  BY DEF EmptyDict
<1> QED BY <1>2, <1>3

\* The words of the codes in use stay what they were when another word begins.
LEMMA NamedWordsKept ==
  ASSUME IInv, Complete, EncodeMiss, NEW v \in NamedCodes
  PROVE  WordIn(chunk', starts', v) = Word(v)
<1>1. /\ pc = "code" /\ chunk' = chunk /\ starts' = Append(starts, i)
      /\ Types /\ Adjacent /\ InUse
  BY DEF EncodeMiss, Miss, IInv, Complete
<1>2. /\ v \in 0 .. nextCode - 1 /\ nextCode = Radix + Len(codes)
      /\ Radix \in Nat /\ Len(codes) \in Nat
  BY <1>1, CodeInUse, Grounds DEF Adjacent
<1>3. v \in Nat /\ v < Radix + Len(codes)
  BY <1>2
<1> QED BY <1>1, <1>3, WordsKept

LEMMA MissComplete ==
  ASSUME IInv, Complete, EncodeMiss
  PROVE  Complete'
<1>1. /\ pc = "code" /\ pc' = "code" /\ chunk' = chunk /\ nextCode' = nextCode + 1
      /\ Key = <<prefix, chunk[i + 1]>> /\ Key \notin DOMAIN dict
      /\ prefix' = chunk[i + 1] /\ i < Len(chunk)
      /\ Types /\ Adjacent /\ InUse /\ OneCodeForAWord
  BY DEF EncodeMiss, Miss, IInv, Key, Complete
<1>2. /\ nextCode \in Nat /\ Radix \in Nat /\ prefix \in Nat /\ chunk[i + 1] \in Byte
      /\ Radix <= nextCode
  BY <1>1, Grounds DEF Types, Adjacent
<1>3. /\ DOMAIN dict \subseteq Nat \X Byte /\ prefix \in NamedCodes
      /\ chunk[i + 1] \in NamedCodes
      /\ \A p \in Nat, b \in Byte : <<p, b>> \in DOMAIN dict => p \in NamedCodes
  BY <1>1, <1>2 DEF InUse, NamedCodes, Byte
<1>4. CASE failure' = TRUE /\ dict' = dict
  <2>1. NamedCodes' = NamedCodes
    BY <1>4 DEF NamedCodes
  <2>2. InUse'
    BY <1>1, <1>3, <1>4, <2>1 DEF InUse
  <2>3. ASSUME NEW v \in NamedCodes', NEW w \in NamedCodes',
               WordIn(chunk', starts', v) = WordIn(chunk', starts', w)
        PROVE  v = w
    BY <1>1, <2>1, <2>3, NamedWordsKept DEF OneCodeForAWord
  <2> QED BY <1>4, <2>2, <2>3 DEF Complete, OneCodeForAWord, Word
<1>5. CASE dict' = Extended(Key, nextCode) /\ failure' = failure
  <2>1. /\ DOMAIN dict' = DOMAIN dict \cup {Key} /\ dict'[Key] = nextCode
        /\ \A key \in DOMAIN dict : dict'[key] = dict[key]
    BY <1>1, <1>5 DEF Extended
  <2>2. NamedCodes' = NamedCodes \cup {nextCode}
    <3>1. NamedCodes' = (0 .. Radix - 1) \cup {dict'[key] : key \in DOMAIN dict'}
      BY DEF NamedCodes
    <3>2. {dict'[key] : key \in DOMAIN dict'} = {dict[key] : key \in DOMAIN dict} \cup {nextCode}
      BY <2>1
    <3> QED BY <3>1, <3>2 DEF NamedCodes
  <2>3. InUse'
    <3>1. Key \in Nat \X Byte
      BY <1>1, <1>2
    <3>2. DOMAIN dict' \subseteq Nat \X Byte /\ prefix' \in NamedCodes'
      BY <1>1, <1>3, <2>1, <2>2, <3>1
    <3>3. ASSUME NEW p \in Nat, NEW b \in Byte, <<p, b>> \in DOMAIN dict'
          PROVE  p \in NamedCodes'
      <4>1. CASE <<p, b>> \in DOMAIN dict
        BY <1>3, <2>2, <4>1
      <4>2. CASE <<p, b>> = Key
        BY <1>1, <1>3, <2>2, <4>2
      <4> QED BY <2>1, <3>3, <4>1, <4>2
    <3> QED BY <3>2, <3>3 DEF InUse
  <2>4. WordIn(chunk', starts', nextCode) = Word(prefix) \o <<chunk[i + 1]>>
    BY EntryOfMiss
  <2>5. \A v \in NamedCodes : WordIn(chunk', starts', v) # WordIn(chunk', starts', nextCode)
    BY <2>4, NamedWordsKept, MissedWord
  <2>6. ASSUME NEW v \in NamedCodes', NEW w \in NamedCodes',
               WordIn(chunk', starts', v) = WordIn(chunk', starts', w)
        PROVE  v = w
    <3>1. CASE v \in NamedCodes /\ w \in NamedCodes
      BY <1>1, <2>6, <3>1, NamedWordsKept DEF OneCodeForAWord
    <3>2. CASE v = nextCode /\ w \in NamedCodes
      BY <2>5, <2>6, <3>2
    <3>3. CASE w = nextCode /\ v \in NamedCodes
      BY <2>5, <2>6, <3>3
    <3> QED BY <2>2, <3>1, <3>2, <3>3
  <2>7. ~failure' => NamedCodes' = 0 .. nextCode' - 1
    BY <1>1, <1>2, <1>5, <2>2 DEF OneCodeForAWord
  <2> QED BY <2>3, <2>6, <2>7 DEF Complete, OneCodeForAWord, Word
<1> QED BY <1>4, <1>5 DEF EncodeMiss, Miss

\* Two codes that the coder has in use never stand for the same word, whatever
\* entries it has dropped; while it has dropped none, all codes given out are
\* in use.
THEOREM OneCodeForAWordHolds == LZWSpec => []OneCodeForAWord
<1>1. LZWInit => Complete
  <2> SUFFICES ASSUME LZWInit PROVE Complete
    OBVIOUS
  <2>1. dict = EmptyDict /\ nextCode = Radix /\ prefix = chunk[1] /\ pc = "code"
    BY DEF LZWInit, Init
  <2>2. prefix \in 0 .. Radix - 1
    <3>1. Types /\ Adjacent
      BY InitIInv DEF IInv
    <3> QED BY <2>1, <3>1, Grounds DEF Types, Adjacent
  <2>3. NamedCodes = 0 .. Radix - 1
    BY <2>1, SingleWords DEF NamedCodes
  <2>4. InUse
    BY <2>1, <2>2, <2>3, SingleWords DEF InUse
  <2>5. \A v, w \in NamedCodes : Word(v) = Word(w) => v = w
    BY <2>3, SingleWords DEF Word
  <2> QED BY <2>1, <2>3, <2>4, <2>5 DEF Complete, OneCodeForAWord
<1>2. IInv /\ Complete /\ [LZWNext]_vars => Complete'
  <2> SUFFICES ASSUME IInv, Complete, [LZWNext]_vars PROVE Complete'
    OBVIOUS
  <2>1. CASE EncodeMiss
    BY <2>1, MissComplete
  <2>2. CASE EncodeHit
    <3>1. /\ pc = "code" /\ pc' = pc /\ failure' = failure /\ nextCode' = nextCode
          /\ dict' = dict /\ chunk' = chunk /\ starts' = starts
          /\ prefix' = dict[Key] /\ Key \in DOMAIN dict
      BY <2>2 DEF EncodeHit, Hit
    <3>2. NamedCodes' = NamedCodes
      BY <3>1 DEF NamedCodes
    <3>3. prefix' \in NamedCodes
      BY <3>1 DEF NamedCodes
    <3> QED BY <3>1, <3>2, <3>3 DEF Complete, InUse, OneCodeForAWord, Word
  <2>3. CASE UNCHANGED vars
    BY <2>3 DEF Complete, InUse, OneCodeForAWord, NamedCodes, Word, vars, encoderVars,
                decoderVars
  <2>4. CASE EncodeNextChunk
    <3>1. /\ dict' = EmptyDict /\ nextCode' = Radix /\ prefix' = chunk'[1]
          /\ chunk' \in Inputs
      BY <2>4 DEF EncodeNextChunk, NextChunk
    <3>2. prefix' \in 0 .. Radix - 1
      <4>1. chunk' \in Seq(Byte) /\ chunk' # <<>>
        BY <3>1, LZWAssumption DEF Byte
      <4>2. Len(chunk') \in Nat /\ Len(chunk') >= 1
        BY <4>1, EmptySeq, LenProperties, SMT
      <4> QED BY <3>1, <4>1, <4>2, ElementOfSeq, 1 \in 1 .. Len(chunk') DEF Byte
    <3>3. NamedCodes' = 0 .. Radix - 1
      BY <3>1, SingleWords DEF NamedCodes
    <3>4. DOMAIN dict' = {}
      BY <3>1, SingleWords
    <3>5. InUse'
      BY <3>2, <3>3, <3>4 DEF InUse
    <3>6. \A v, w \in NamedCodes' :
            WordIn(chunk', starts', v) = WordIn(chunk', starts', w) => v = w
      <4>1. \A v \in 0 .. Radix - 1 : WordIn(chunk', starts', v) = <<v>>
        BY LZWAssumption DEF WordIn
      <4>2. ASSUME NEW v \in NamedCodes', NEW w \in NamedCodes',
                   WordIn(chunk', starts', v) = WordIn(chunk', starts', w)
            PROVE  v = w
        <5>1. <<v>> = <<w>>
          BY <3>3, <4>1, <4>2
        <5> QED BY <5>1
      <4> QED BY <4>2
    <3> QED BY <3>1, <3>3, <3>5, <3>6 DEF Complete, OneCodeForAWord, Word
  <2>5. CASE EncodeFlush \/ DecodeFirst \/ DecodeNext
    <3>1. pc' = "done"
      BY <2>5 DEF EncodeFlush, Flush, DecodeFirst, DecodeNext, encoderVars
    <3> QED BY <3>1 DEF Complete, InUse, OneCodeForAWord
  <2> QED BY <2>1, <2>2, <2>3, <2>4, <2>5 DEF LZWNext
<1>3. Complete => OneCodeForAWord
  BY DEF Complete
<1> QED BY <1>1, <1>2, <1>3, Invariance, PTL DEF LZWSpec
=============================================================================
