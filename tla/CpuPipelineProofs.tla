------------------------- MODULE CpuPipelineProofs --------------------------
(***************************************************************************)
(* Theorems about the pipeline without the kernel: how the file goes       *)
(* through the buffer, where cdc cuts it, how its chunks are hashed and    *)
(* coded, and what the records of the archive stand for.                   *)
(***************************************************************************)
EXTENDS CpuPipeline, CodingProofs, FiniteSetTheorems

LEMMA ConstantFacts ==
  /\ Radix \in Nat /\ Radix > 0
  /\ BlockSize \in Nat /\ BlockSize > 0 /\ NumPackets \in Nat /\ NumPackets > 1
  /\ MinSize \in Nat /\ MinSize > 0 /\ ChunkSize \in Nat /\ ChunkSize > MinSize + 1
  /\ WinSize \in Nat
  BY CpuPipelineAssumption

-----------------------------------------------------------------------------
(* The boundaries that cdc finds *)

CdcStart(buff) == [i |-> MinSize, prev |-> 0, hash |-> HashFunc(buff), cuts |-> <<0>>]

CdcStep(s, buff, size) == IF s.i < size THEN Roll(Cut(s), buff) ELSE s

\* The states of the scan of size bytes, up to the m-th.
CdcStates(buff, size, m, f) ==
  f = [n \in 0 .. m |-> IF n = 0 THEN CdcStart(buff) ELSE CdcStep(f[n - 1], buff, size)]

LEMMA CdcStatesExist ==
  ASSUME NEW buff, NEW size
  PROVE  \A m \in Nat : \E f : CdcStates(buff, size, m, f)
<1> DEFINE T == {m \in Nat : \E f : CdcStates(buff, size, m, f)}
<1>1. 0 \in T
  <2> DEFINE f == [n \in 0 .. 0 |-> CdcStart(buff)]
  <2>1. f = [n \in 0 .. 0 |-> IF n = 0 THEN CdcStart(buff) ELSE CdcStep(f[n - 1], buff, size)]
    OBVIOUS
  <2> QED BY <2>1 DEF CdcStates
<1>2. ASSUME NEW m \in Nat, m \in T PROVE m + 1 \in T
  <2>1. PICK f : CdcStates(buff, size, m, f)
    BY <1>2
  <2> DEFINE g == [n \in 0 .. m + 1 |-> IF n = m + 1 THEN CdcStep(f[m], buff, size)
                                        ELSE f[n]]
  <2>2. ASSUME NEW n \in 0 .. m + 1
        PROVE  g[n] = IF n = 0 THEN CdcStart(buff) ELSE CdcStep(g[n - 1], buff, size)
    <3>1. \A k1 \in 0 .. m : f[k1] = IF k1 = 0 THEN CdcStart(buff)
                                     ELSE CdcStep(f[k1 - 1], buff, size)
      BY <2>1 DEF CdcStates
    <3>2. CASE n = m + 1
      <4>1. g[n - 1] = f[m] /\ n # 0 /\ g[n] = CdcStep(f[m], buff, size)
        BY <3>2
      <4> QED BY <4>1
    <3>3. CASE n \in 0 .. m
      <4>1. g[n] = f[n] /\ (n # 0 => g[n - 1] = f[n - 1])
        BY <3>3
      <4> QED BY <3>1, <3>3, <4>1
    <3> QED BY <3>2, <3>3
  <2> HIDE DEF g
  <2>3. DOMAIN g = 0 .. m + 1 /\ g = [n \in 0 .. m + 1 |-> g[n]]
    BY DEF g
  <2>4. CdcStates(buff, size, m + 1, g)
    BY <2>2, <2>3 DEF CdcStates
  <2> QED BY <2>4
<1> HIDE DEF T
<1>3. \A m \in Nat : m \in T
  BY <1>1, <1>2, NumbersInSet
<1> QED BY <1>3 DEF T

LEMMA BoundariesEnd ==
  ASSUME NEW buff, NEW size \in Nat
  PROVE  \E f : /\ CdcStates(buff, size, size, f)
                /\ Boundaries(buff, size) = Append(f[size].cuts, size)
<1> DEFINE Rec(f) ==
      f = [n \in 0 .. size |->
             IF n = 0 THEN [i |-> MinSize, prev |-> 0, hash |-> HashFunc(buff), cuts |-> <<0>>]
             ELSE IF f[n - 1].i < size THEN Roll(Cut(f[n - 1]), buff)
             ELSE f[n - 1]]
           h == CHOOSE f : Rec(f)
<1>1. \E f : Rec(f)
  <2>1. PICK f : CdcStates(buff, size, size, f)
    BY CdcStatesExist
  <2>2. Rec(f)
    BY <2>1, Zenon DEF CdcStates, CdcStart, CdcStep
  <2> QED BY <2>2
<1>2. Rec(h)
  BY <1>1, Zenon
<1>3. Boundaries(buff, size) = Append(h[size].cuts, size)
  BY DEF Boundaries
<1> HIDE DEF h
<1>4. CdcStates(buff, size, size, h)
  BY <1>2 DEF CdcStates, CdcStart, CdcStep
<1> QED BY <1>3, <1>4

\* Boundaries with the least size between them, the last of them at last.
Spaced(cs, last) ==
  /\ cs \in Seq(Nat) /\ Len(cs) \in Nat /\ Len(cs) > 0
  /\ cs[1] = 0 /\ cs[Len(cs)] = last
  /\ \A c \in 1 .. Len(cs) - 1 : cs[c + 1] - cs[c] \in MinSize .. ChunkSize

\* A state of the scan after n rounds.
CdcState(s, size, n) ==
  /\ s = [i |-> s.i, prev |-> s.prev, hash |-> s.hash, cuts |-> s.cuts]
  /\ s.i \in Nat /\ s.prev \in Nat /\ s.prev < size
  /\ s.i - s.prev \in MinSize .. ChunkSize
  /\ s.i >= n \/ s.i >= size
  /\ Spaced(s.cuts, s.prev)

LEMMA SpacedAppend ==
  ASSUME NEW cs, NEW last \in Nat, Spaced(cs, last), NEW next \in Nat
  PROVE  /\ Append(cs, next) \in Seq(Nat)
         /\ Len(Append(cs, next)) = Len(cs) + 1
         /\ Append(cs, next)[1] = 0 /\ Append(cs, next)[Len(cs) + 1] = next
         /\ \A c \in 1 .. Len(cs) - 1 :
              Append(cs, next)[c + 1] - Append(cs, next)[c] \in MinSize .. ChunkSize
         /\ Append(cs, next)[Len(cs) + 1] - Append(cs, next)[Len(cs)] = next - last
<1>1. cs \in Seq(Nat) /\ Len(cs) \in Nat /\ Len(cs) > 0 /\ cs[1] = 0 /\ cs[Len(cs)] = last
  BY DEF Spaced
<1>2. /\ Append(cs, next) \in Seq(Nat) /\ Len(Append(cs, next)) = Len(cs) + 1
      /\ \A c \in 1 .. Len(cs) : Append(cs, next)[c] = cs[c]
      /\ Append(cs, next)[Len(cs) + 1] = next
  BY <1>1, AppendProperties
<1>3. \A c \in 1 .. Len(cs) - 1 : cs[c + 1] - cs[c] \in MinSize .. ChunkSize
  BY DEF Spaced
<1>4. /\ 1 \in 1 .. Len(cs) /\ Len(cs) \in 1 .. Len(cs)
      /\ \A c \in 1 .. Len(cs) - 1 : c \in 1 .. Len(cs) /\ c + 1 \in 1 .. Len(cs)
  BY <1>1
<1> DEFINE a == Append(cs, next)
           m == Len(cs)
<1> HIDE DEF a, m
<1>5. \A c \in 1 .. m - 1 : a[c + 1] - a[c] \in MinSize .. ChunkSize
  BY <1>2, <1>3, <1>4, Zenon DEF a, m
<1> QED BY <1>1, <1>2, <1>4, <1>5 DEF a, m

LEMMA CdcStartState ==
  ASSUME NEW buff, NEW size \in Nat, size > 0
  PROVE  CdcState(CdcStart(buff), size, 0)
<1>1. Spaced(<<0>>, 0)
  BY DEF Spaced
<1> QED BY <1>1, ConstantFacts DEF CdcStart, CdcState

LEMMA CdcStepState ==
  ASSUME NEW buff, NEW size \in Nat, NEW n \in Nat, NEW s, CdcState(s, size, n)
  PROVE  CdcState(CdcStep(s, buff, size), size, n + 1)
<1>1. /\ s.i \in Nat /\ s.prev \in Nat /\ s.prev < size
      /\ s.i - s.prev >= MinSize /\ s.i - s.prev <= ChunkSize
      /\ s.i >= n \/ s.i >= size
      /\ Spaced(s.cuts, s.prev)
  BY ConstantFacts DEF CdcState
<1>2. CASE ~(s.i < size)
  <2>1. s.i >= size /\ CdcStep(s, buff, size) = s
    BY <1>1, <1>2 DEF CdcStep
  <2> QED BY <2>1 DEF CdcState
<1>3. CASE s.i < size /\ IsCut(s)
  <2> DEFINE cs == Append(s.cuts, s.i)
             h == ((s.hash) * Prime - buff[s.i + MinSize] * PrimeWinSizePower
                        + buff[(s.i + MinSize) + WinSize] * Prime) % ChunkSize
  <2>1. Cut(s) = [i |-> s.i + MinSize, prev |-> s.i, hash |-> s.hash, cuts |-> cs]
    BY <1>3 DEF Cut, CdcState
  <2>2. CdcStep(s, buff, size) = [i |-> (s.i + MinSize) + 1, prev |-> s.i, hash |-> h, cuts |-> cs]
    <3> DEFINE t == [i |-> s.i + MinSize, prev |-> s.i, hash |-> s.hash, cuts |-> cs]
    <3>1. CdcStep(s, buff, size) = Roll(t, buff)
      BY <1>3, <2>1 DEF CdcStep
    <3>2. t.i = s.i + MinSize /\ t.hash = s.hash
      OBVIOUS
    <3>3. Roll(t, buff) = [t EXCEPT !.hash = h, !.i = (s.i + MinSize) + 1]
      BY <3>2, Zenon DEF Roll
    <3> HIDE DEF h, cs
    <3>4. [t EXCEPT !.hash = h, !.i = (s.i + MinSize) + 1] =
            [i |-> (s.i + MinSize) + 1, prev |-> s.i, hash |-> h, cuts |-> cs]
      <4> DEFINE j == (s.i + MinSize) + 1
                 u == [t EXCEPT !.hash = h]
      <4>1. u = [i |-> s.i + MinSize, prev |-> s.i, hash |-> h, cuts |-> cs]
        OBVIOUS
      <4> HIDE DEF j
      <4>2. [t EXCEPT !.hash = h, !.i = j] = [u EXCEPT !.i = j]
        OBVIOUS
      <4> HIDE DEF t, u
      <4>3. [u EXCEPT !.i = j] = [i |-> j, prev |-> s.i, hash |-> h, cuts |-> cs]
        BY <4>1
      <4> QED BY <4>2, <4>3 DEF j
    <3> QED BY <3>1, <3>3, <3>4
  <2>3. Spaced(cs, s.i)
    <3>1. s.i - s.prev \in MinSize .. ChunkSize
      BY DEF CdcState
    <3>2. /\ cs \in Seq(Nat) /\ Len(cs) = Len(s.cuts) + 1 /\ Len(s.cuts) \in Nat
          /\ Len(s.cuts) > 0 /\ cs[1] = 0 /\ cs[Len(s.cuts) + 1] = s.i
          /\ \A c \in 1 .. Len(s.cuts) - 1 : cs[c + 1] - cs[c] \in MinSize .. ChunkSize
          /\ cs[Len(s.cuts) + 1] - cs[Len(s.cuts)] = s.i - s.prev
      BY <1>1, SpacedAppend DEF Spaced
    <3> HIDE DEF cs
    <3>3. ASSUME NEW c \in 1 .. Len(cs) - 1 PROVE cs[c + 1] - cs[c] \in MinSize .. ChunkSize
      <4>1. c = Len(s.cuts) \/ c \in 1 .. Len(s.cuts) - 1
        BY <3>2
      <4> QED BY <4>1, <3>1, <3>2
    <3> QED BY <3>2, <3>3 DEF Spaced
  <2> HIDE DEF cs, h
  <2>4. /\ (s.i + MinSize) + 1 \in Nat /\ ((s.i + MinSize) + 1) - s.i \in MinSize .. ChunkSize
        /\ (s.i + MinSize) + 1 >= n + 1
    BY <1>1, <1>3, ConstantFacts
  <2> QED BY <1>1, <1>3, <2>2, <2>3, <2>4 DEF CdcState
<1>4. CASE s.i < size /\ ~IsCut(s)
  <2> DEFINE h == ((s.hash) * Prime - buff[s.i] * PrimeWinSizePower
                        + buff[s.i + WinSize] * Prime) % ChunkSize
  <2>1. CdcStep(s, buff, size) = [i |-> s.i + 1, prev |-> s.prev, hash |-> h, cuts |-> s.cuts]
    BY <1>4 DEF CdcStep, Roll, Cut, CdcState
  <2> HIDE DEF h
  <2>2. s.i - s.prev # ChunkSize
    BY <1>4 DEF IsCut
  <2>3. s.i + 1 \in Nat /\ (s.i + 1) - s.prev \in MinSize .. ChunkSize /\ s.i + 1 >= n + 1
    BY <1>1, <1>4, <2>2, ConstantFacts
  <2> QED BY <1>1, <2>1, <2>3 DEF CdcState
<1> QED BY <1>2, <1>3, <1>4

Covers(b, size) ==
  /\ b \in Seq(Nat) /\ Len(b) \in Nat /\ Len(b) > 1 /\ b[1] = 0 /\ b[Len(b)] = size
  /\ \A c \in 1 .. Len(b) - 1 :
       /\ b[c + 1] - b[c] \in 1 .. ChunkSize
       /\ c < Len(b) - 1 => b[c + 1] - b[c] >= MinSize

\* cdc cuts the bytes it is given, whatever is in the buffer and behind it.
LEMMA BoundariesCover ==
  ASSUME NEW buff, NEW size \in Nat, size > 0
  PROVE  Covers(Boundaries(buff, size), size)
<1>1. PICK f : /\ CdcStates(buff, size, size, f)
               /\ Boundaries(buff, size) = Append(f[size].cuts, size)
  BY BoundariesEnd
<1>2. /\ f[0] = CdcStart(buff)
      /\ \A n \in 1 .. size : f[n] = CdcStep(f[n - 1], buff, size)
  <2>1. \A n \in 0 .. size : f[n] = IF n = 0 THEN CdcStart(buff)
                                    ELSE CdcStep(f[n - 1], buff, size)
    BY <1>1 DEF CdcStates
  <2> QED BY <2>1
<1> DEFINE T == {n \in Nat : n <= size => CdcState(f[n], size, n)}
<1>3. 0 \in T
  BY <1>2, CdcStartState
<1>4. ASSUME NEW n \in Nat, n \in T PROVE n + 1 \in T
  <2> SUFFICES ASSUME n + 1 <= size PROVE CdcState(f[n + 1], size, n + 1)
    OBVIOUS
  <2>1. n <= size /\ n + 1 \in 1 .. size /\ (n + 1) - 1 = n
    OBVIOUS
  <2>2. CdcState(f[n], size, n) /\ f[n + 1] = CdcStep(f[n], buff, size)
    BY <2>1, <1>2, <1>4
  <2> QED BY <2>2, CdcStepState
<1> HIDE DEF T
<1>5. \A n \in Nat : n \in T
  BY <1>3, <1>4, NumbersInSet
<1>6. CdcState(f[size], size, size)
  BY <1>5 DEF T
<1> DEFINE s == f[size]
           b == Append(s.cuts, size)
<1>7. /\ s.i \in Nat /\ s.prev \in Nat /\ s.prev < size /\ s.i >= size
      /\ s.i - s.prev \in MinSize .. ChunkSize /\ Spaced(s.cuts, s.prev)
  BY <1>6 DEF CdcState
<1>8. /\ b \in Seq(Nat) /\ Len(b) = Len(s.cuts) + 1 /\ Len(s.cuts) \in Nat
      /\ Len(s.cuts) > 0 /\ b[1] = 0 /\ b[Len(s.cuts) + 1] = size
      /\ \A c \in 1 .. Len(s.cuts) - 1 : b[c + 1] - b[c] \in MinSize .. ChunkSize
      /\ b[Len(s.cuts) + 1] - b[Len(s.cuts)] = size - s.prev
  BY <1>7, SpacedAppend DEF Spaced
<1>9. size - s.prev \in 1 .. ChunkSize
  BY <1>7, ConstantFacts
<1> HIDE DEF b, s
<1>10. ASSUME NEW c \in 1 .. Len(b) - 1
       PROVE  /\ b[c + 1] - b[c] \in 1 .. ChunkSize
              /\ c < Len(b) - 1 => b[c + 1] - b[c] >= MinSize
  <2>1. CASE c = Len(s.cuts)
    BY <1>8, <1>9, <2>1
  <2>2. CASE c # Len(s.cuts)
    <3>1. c \in 1 .. Len(s.cuts) - 1
      BY <1>8, <2>2
    <3>2. b[c + 1] - b[c] \in MinSize .. ChunkSize
      BY <1>8, <3>1
    <3> QED BY <3>2, ConstantFacts
  <2> QED BY <2>1, <2>2
<1>11. Covers(b, size)
  BY <1>8, <1>10 DEF Covers
<1> QED BY <1>1, <1>11 DEF b, s

-----------------------------------------------------------------------------
(* The buffer *)

\* The sequences g[1] to g[m], one behind the other.
Joined(g, m, f) == f = [n \in 0 .. m |-> IF n = 0 THEN <<>> ELSE f[n - 1] \o g[n]]

LEMMA JoinedExist == \A g : \A m \in Nat : \E f : Joined(g, m, f)
<1> SUFFICES ASSUME NEW g PROVE \A m \in Nat : \E f : Joined(g, m, f)
  OBVIOUS
<1> DEFINE T == {m \in Nat : \E f : Joined(g, m, f)}
<1>1. 0 \in T
  <2> DEFINE f == [n \in 0 .. 0 |-> <<>>]
  <2>1. f = [n \in 0 .. 0 |-> IF n = 0 THEN <<>> ELSE f[n - 1] \o g[n]]
    OBVIOUS
  <2> QED BY <2>1 DEF Joined
<1>2. ASSUME NEW m \in Nat, m \in T PROVE m + 1 \in T
  <2>1. PICK f : Joined(g, m, f)
    BY <1>2
  <2> DEFINE h == [n \in 0 .. m + 1 |-> IF n = m + 1 THEN f[m] \o g[m + 1] ELSE f[n]]
  <2>2. ASSUME NEW n \in 0 .. m + 1
        PROVE  h[n] = IF n = 0 THEN <<>> ELSE h[n - 1] \o g[n]
    <3>1. \A x \in 0 .. m : f[x] = IF x = 0 THEN <<>> ELSE f[x - 1] \o g[x]
      BY <2>1 DEF Joined
    <3>2. CASE n = m + 1
      <4>1. h[n - 1] = f[m] /\ n # 0 /\ h[n] = f[m] \o g[n]
        BY <3>2
      <4> QED BY <4>1
    <3>3. CASE n \in 0 .. m
      <4>1. h[n] = f[n] /\ (n # 0 => h[n - 1] = f[n - 1])
        BY <3>3
      <4> QED BY <3>1, <3>3, <4>1
    <3> QED BY <3>2, <3>3
  <2> HIDE DEF h
  <2>3. DOMAIN h = 0 .. m + 1 /\ h = [n \in 0 .. m + 1 |-> h[n]]
    BY DEF h
  <2>4. Joined(g, m + 1, h)
    BY <2>2, <2>3 DEF Joined
  <2> QED BY <2>4
<1> HIDE DEF T
<1>3. \A m \in Nat : m \in T
  BY <1>1, <1>2, NumbersInSet
<1> QED BY <1>3 DEF T

\* The same of the chunks of a log, without a word on what f is elsewhere.
Join(lg, f) == f[0] = <<>> /\ \A n \in 1 .. Len(lg) : f[n] = f[n - 1] \o lg[n].chunk

LogEntry == [chunk : Seq(Byte), exceeded : BOOLEAN]

\* How much of the file has been compressed.
HandedOver == (offset - sum) + (IF pc = "compress" THEN cuts[k] ELSE 0)

Types ==
  /\ pc \in {"read", "compress", "closed", "failed"}
  /\ file \in Files
  /\ offset \in 0 .. Len(file) /\ length \in -1 .. BlockSize
  /\ writer \in 0 .. NumPackets - 1 /\ sum \in 0 .. BufferLen
  /\ pc = "read" /\ length # 0 => sum = writer * BlockSize
  /\ buffer \in [0 .. BufferLen - 1 -> Byte]
  /\ pc = "compress" => k \in 1 .. Len(cuts) - 1 /\ Covers(cuts, sum)
  /\ log \in Seq(LogEntry)

Ids ==
  /\ chunkId \in Nat /\ IsFiniteSet(DOMAIN shaMap)
  /\ {shaMap[f] : f \in DOMAIN shaMap} = 0 .. chunkId - 1
  /\ Cardinality(DOMAIN shaMap) = chunkId

\* The buffer holds what was read last, and the log what came before.
Buffered ==
  /\ sum <= offset
  /\ \A b \in 0 .. sum - 1 : buffer[b] = file[(offset - sum) + b + 1]
  /\ pc # "failed" =>
       \A f : Join(log, f) => f[Len(log)] = SubSeq(file, 1, HandedOver)

\* Blocks are full but for the last; one that is short is handed over.
Blocks ==
  /\ \/ \E q \in Nat : offset = q * BlockSize
     \/ offset = Len(file) /\ (pc # "compress" => sum = 0)
  /\ length = 0 => offset = Len(file)
  /\ pc = "closed" => length = 0
  /\ length = 0 /\ pc \in {"read", "closed"} =>
       \E q \in Nat : sum = q * BlockSize /\ q < NumPackets - 1

PInv == Types /\ Ids /\ Buffered /\ (pc # "failed" => Blocks)

LEMMA FileFacts ==
  ASSUME Types
  PROVE  /\ file \in Seq(Byte) /\ Len(file) \in Nat
         /\ offset \in Nat /\ offset <= Len(file) /\ sum \in Nat /\ writer \in Nat
         /\ \A b \in 1 .. Len(file) : file[b] \in Byte
         /\ BufferLen \in Nat
<1>1. file \in Seq(Byte)
  BY CpuPipelineAssumption DEF Types, Byte
<1>2. Len(file) \in Nat /\ \A b \in 1 .. Len(file) : file[b] \in Byte
  BY <1>1, LenProperties, ElementOfSeq
<1>3. BufferLen \in Nat
  BY ConstantFacts, SMT DEF BufferLen
<1> QED BY <1>1, <1>2, <1>3, ConstantFacts DEF Types

LEMMA AvailableFacts ==
  ASSUME Types
  PROVE  /\ Available \in Nat /\ Available <= BlockSize /\ offset + Available <= Len(file)
         /\ Available < BlockSize => offset + Available = Len(file)
<1>1. Len(file) \in Nat /\ offset \in Nat /\ offset <= Len(file) /\ BlockSize \in Nat
  BY FileFacts, ConstantFacts
<1> QED BY <1>1 DEF Available

LEMMA TimesFacts ==
  ASSUME NEW w \in Nat, NEW b \in Nat, NEW p \in Nat, w < p
  PROVE  /\ w * b \in Nat /\ (w + 1) * b = w * b + b /\ w * b + b <= p * b
<1>1. PICK d \in Nat : p = (w + 1) + d
  BY p = (w + 1) + (p - (w + 1)), p - (w + 1) \in Nat
<1>2. p * b = (w * b + b) + d * b /\ d * b \in Nat /\ w * b \in Nat /\ (w + 1) * b = w * b + b
  BY <1>1, SMT
<1> QED BY <1>2, SMT

\* What both kinds of round do.
LEMMA ReadFacts ==
  ASSUME PInv, pc = "read", length # 0
  PROVE  /\ sum = writer * BlockSize /\ sum \in Nat /\ Available \in 0 .. BlockSize
         /\ sum + BlockSize <= BufferLen
         /\ offset + Available \in 0 .. Len(file)
         /\ Copied(Available) \in [0 .. BufferLen - 1 -> Byte]
         /\ sum + Available <= offset + Available
         /\ \A b \in 0 .. (sum + Available) - 1 :
              Copied(Available)[b] =
                file[((offset + Available) - (sum + Available)) + b + 1]
<1>1. /\ Types /\ Buffered /\ sum = writer * BlockSize /\ writer \in Nat
      /\ writer < NumPackets
  BY ConstantFacts, FileFacts DEF PInv, Types
<1>2. sum \in Nat /\ sum + BlockSize <= BufferLen
  BY <1>1, ConstantFacts, TimesFacts DEF BufferLen
<1>3. /\ Available \in Nat /\ Available <= BlockSize /\ offset + Available <= Len(file)
      /\ offset \in Nat /\ Len(file) \in Nat /\ BufferLen \in Nat /\ sum <= offset
  BY <1>1, AvailableFacts, FileFacts DEF Buffered
<1> DEFINE n == Available
<1> HIDE DEF n
<1>4. n \in Nat /\ n <= BlockSize /\ offset + n <= Len(file)
  BY <1>3 DEF n
<1>5. DOMAIN buffer = 0 .. BufferLen - 1 /\ \A b \in 0 .. BufferLen - 1 : buffer[b] \in Byte
  BY <1>1 DEF Types
<1>6. Copied(n) = [b \in 0 .. BufferLen - 1 |->
                     IF b - sum \in 0 .. n - 1 THEN file[offset + b - sum + 1] ELSE buffer[b]]
  BY <1>1, <1>5 DEF Copied
<1>7. ASSUME NEW b \in 0 .. BufferLen - 1, b - sum \in 0 .. n - 1
      PROVE  file[offset + b - sum + 1] \in Byte
  <2>1. offset + b - sum + 1 \in 1 .. Len(file)
    BY <1>2, <1>3, <1>4, <1>7
  <2> QED BY <2>1, <1>1, FileFacts
<1>8. Copied(n) \in [0 .. BufferLen - 1 -> Byte]
  BY <1>5, <1>6, <1>7
<1>9. ASSUME NEW b \in 0 .. (sum + n) - 1
      PROVE  Copied(n)[b] = file[((offset + n) - (sum + n)) + b + 1]
  <2>1. /\ b \in 0 .. BufferLen - 1 /\ b \in Int
        /\ ((offset + n) - (sum + n)) + b + 1 = (offset - sum) + b + 1
        /\ offset + b - sum + 1 = (offset - sum) + b + 1
    BY <1>2, <1>3, <1>4, ConstantFacts
  <2>2. CASE b - sum \in 0 .. n - 1
    BY <1>6, <2>1, <2>2
  <2>3. CASE ~(b - sum \in 0 .. n - 1)
    <3>1. b \in 0 .. sum - 1
      BY <1>2, <1>4, <2>1, <2>3
    <3>2. buffer[b] = file[(offset - sum) + b + 1]
      BY <1>1, <3>1 DEF Buffered
    <3> QED BY <1>6, <2>1, <2>3, <3>2
  <2> QED BY <2>2, <2>3
<1>10. /\ offset + n \in 0 .. Len(file) /\ n \in 0 .. BlockSize /\ sum + n <= offset + n
  BY <1>2, <1>3, <1>4, ConstantFacts
<1> QED BY <1>1, <1>2, <1>8, <1>9, <1>10 DEF n

LEMMA InitP == Init => PInv
<1> SUFFICES ASSUME Init PROVE PInv
  OBVIOUS
<1>1. 0 \in Byte
  BY ConstantFacts DEF Byte
<1>2. file \in Seq(Byte) /\ Len(file) \in Nat
  BY CpuPipelineAssumption, LenProperties DEF Init, Byte
<1>3. BufferLen \in Nat
  BY ConstantFacts, SMT DEF BufferLen
<1>4. Types
  BY <1>1, <1>2, <1>3, ConstantFacts DEF Init, Types, LogEntry
<1>5. Ids
  <2>1. DOMAIN shaMap = {} /\ chunkId = 0
    BY DEF Init
  <2> QED BY <2>1, FS_EmptySet DEF Ids
<1>6. Buffered
  <2>1. SubSeq(file, 1, 0) = <<>>
    BY <1>2, SubSeqEmpty
  <2>2. HandedOver = 0 /\ Len(log) = 0 /\ sum = 0 /\ offset = 0
    BY DEF Init, HandedOver
  <2>3. \A f : Join(log, f) => f[Len(log)] = SubSeq(file, 1, HandedOver)
    BY <2>1, <2>2 DEF Join
  <2> QED BY <2>2, <2>3 DEF Buffered
<1>7. Blocks
  <2>1. offset = 0 * BlockSize
    BY ConstantFacts, SMT DEF Init
  <2> QED BY <2>1 DEF Init, Blocks
<1> QED BY <1>4, <1>5, <1>6, <1>7 DEF PInv

-----------------------------------------------------------------------------
(* The steps *)

LEMMA ReadBlockStep ==
  ASSUME PInv, ReadBlock
  PROVE  PInv'
<1>1. /\ pc = "read" /\ length # 0 /\ ~BufferReady(Available)
      /\ length' = Available /\ offset' = offset + Available /\ sum' = sum + Available
      /\ buffer' = Copied(Available) /\ writer' = writer + 1
      /\ UNCHANGED <<pc, file, shaMap, chunkId, log>>
      /\ Types /\ Ids /\ Buffered /\ Blocks
  BY DEF ReadBlock, PInv, dedupVars
<1>2. /\ sum = writer * BlockSize /\ sum \in Nat /\ Available \in 0 .. BlockSize
      /\ sum + BlockSize <= BufferLen /\ offset + Available \in 0 .. Len(file)
      /\ Copied(Available) \in [0 .. BufferLen - 1 -> Byte]
      /\ sum + Available <= offset + Available
      /\ \A b \in 0 .. (sum + Available) - 1 :
           Copied(Available)[b] = file[((offset + Available) - (sum + Available)) + b + 1]
  BY <1>1, ReadFacts
<1>3. /\ writer # NumPackets - 1 /\ (Available = 0 \/ Available = BlockSize)
      /\ writer \in Nat /\ writer + 1 \in 0 .. NumPackets - 1 /\ writer < NumPackets - 1
  BY <1>1, <1>2, ConstantFacts DEF BufferReady, Types
<1>4. /\ offset \in Nat /\ Len(file) \in Nat /\ BufferLen \in Nat /\ offset <= Len(file)
      /\ Available = 0 => offset = Len(file)
  BY <1>1, <1>2, FileFacts, AvailableFacts, ConstantFacts
<1> DEFINE n == Available
<1> HIDE DEF n
<1>5. /\ length' = n /\ offset' = offset + n /\ sum' = sum + n /\ n \in 0 .. BlockSize
      /\ n = 0 \/ n = BlockSize
  BY <1>1, <1>2, <1>3 DEF n
<1>6. Types'
  <2>1. n # 0 => sum + n = (writer + 1) * BlockSize
    BY <1>2, <1>3, <1>5, ConstantFacts, TimesFacts
  <2>2. sum + n \in 0 .. BufferLen /\ n \in -1 .. BlockSize /\ offset + n \in 0 .. Len(file)
    BY <1>2, <1>4, <1>5, ConstantFacts DEF n
  <2>3. buffer' \in [0 .. BufferLen - 1 -> Byte]
    BY <1>1, <1>2
  <2> QED BY <1>1, <1>3, <1>5, <2>1, <2>2, <2>3 DEF Types
<1>7. Ids'
  BY <1>1 DEF Ids
<1>8. Buffered'
  <2>1. (offset + n) - (sum + n) = offset - sum
    BY <1>2, <1>4, <1>5, ConstantFacts
  <2>2. HandedOver' = HandedOver
    BY <1>1, <1>5, <2>1 DEF HandedOver
  <2>3. /\ sum' <= offset'
        /\ \A b \in 0 .. sum' - 1 : buffer'[b] = file[(offset' - sum') + b + 1]
    BY <1>1, <1>2
  <2> QED BY <1>1, <2>2, <2>3 DEF Buffered, Join
<1>9. Blocks'
  <2>1. CASE n = 0
    <3>1. offset' = offset /\ sum' = sum /\ length' = 0 /\ offset = Len(file)
      BY <1>2, <1>4, <1>5, <2>1 DEF n
    <3>2. \E q \in Nat : sum = q * BlockSize /\ q < NumPackets - 1
      BY <1>2, <1>3
    <3>3. pc' = "read"
      BY <1>1
    <3> QED BY <1>1, <3>1, <3>2, <3>3 DEF Blocks
  <2>2. CASE n = BlockSize
    <3>1. offset # Len(file) /\ length' # 0
      BY <1>2, <1>4, <1>5, <2>2, ConstantFacts DEF n
    <3>2. PICK q \in Nat : offset = q * BlockSize
      BY <1>1, <3>1 DEF Blocks
    <3>3. offset' = (q + 1) * BlockSize
      BY <1>5, <2>2, <3>2, ConstantFacts, TimesFacts, q < q + 1, q + 1 \in Nat
    <3>4. pc' # "closed"
      BY <1>1
    <3> QED BY <3>1, <3>3, <3>4 DEF Blocks
  <2> QED BY <1>5, <2>1, <2>2
<1> QED BY <1>6, <1>7, <1>8, <1>9 DEF PInv

LEMMA ReadAndChunkStep ==
  ASSUME PInv, ReadAndChunk
  PROVE  PInv'
<1>1. /\ pc = "read" /\ length # 0 /\ BufferReady(Available)
      /\ length' = Available /\ offset' = offset + Available /\ sum' = sum + Available
      /\ buffer' = Copied(Available) /\ k' = 1 /\ pc' = "compress"
      /\ UNCHANGED <<file, writer, shaMap, chunkId, log>>
      /\ Types /\ Ids /\ Buffered /\ Blocks
  BY DEF ReadAndChunk, PInv, dedupVars
<1>2. /\ sum = writer * BlockSize /\ sum \in Nat /\ Available \in 0 .. BlockSize
      /\ sum + BlockSize <= BufferLen /\ offset + Available \in 0 .. Len(file)
      /\ Copied(Available) \in [0 .. BufferLen - 1 -> Byte]
      /\ sum + Available <= offset + Available
      /\ \A b \in 0 .. (sum + Available) - 1 :
           Copied(Available)[b] = file[((offset + Available) - (sum + Available)) + b + 1]
  BY <1>1, ReadFacts
<1>3. /\ offset \in Nat /\ Len(file) \in Nat /\ BufferLen \in Nat /\ offset <= Len(file)
      /\ Available < BlockSize => offset + Available = Len(file)
  BY <1>1, <1>2, FileFacts, AvailableFacts, ConstantFacts
<1>4. sum + Available \in Nat /\ sum + Available > 0
  <2>1. CASE Available > 0
    BY <1>2, <2>1, ConstantFacts
  <2>2. CASE writer = NumPackets - 1
    <3>1. NumPackets - 1 = (NumPackets - 2) + 1 /\ NumPackets - 2 \in Nat
          /\ NumPackets - 2 < NumPackets
      BY ConstantFacts
    <3>2. writer * BlockSize = (NumPackets - 2) * BlockSize + BlockSize
          /\ (NumPackets - 2) * BlockSize \in Nat
      BY <2>2, <3>1, ConstantFacts, TimesFacts
    <3> QED BY <1>2, <3>2, ConstantFacts
  <2> QED BY <1>1, <2>1, <2>2 DEF BufferReady
<1>5. Covers(cuts', sum')
  <2>1. PICK junk : cuts' = Boundaries(Extended(junk, Available), sum + Available)
    BY DEF ReadAndChunk
  <2>2. Covers(Boundaries(Extended(junk, Available), sum + Available), sum + Available)
    BY <1>4, BoundariesCover
  <2> QED BY <1>1, <2>1, <2>2
<1> DEFINE n == Available
<1> HIDE DEF n
<1>6. /\ length' = n /\ offset' = offset + n /\ sum' = sum + n /\ n \in 0 .. BlockSize
      /\ n < BlockSize => offset + n = Len(file)
  BY <1>1, <1>2, <1>3 DEF n
<1>7. Types'
  <2>1. sum + n \in 0 .. BufferLen /\ n \in -1 .. BlockSize /\ offset + n \in 0 .. Len(file)
    BY <1>2, <1>3, <1>6, ConstantFacts DEF n
  <2>2. buffer' \in [0 .. BufferLen - 1 -> Byte]
    BY <1>1, <1>2
  <2>3. k' \in 1 .. Len(cuts') - 1
    BY <1>1, <1>5 DEF Covers
  <2> QED BY <1>1, <1>5, <1>6, <2>1, <2>2, <2>3 DEF Types
<1>8. Ids'
  BY <1>1 DEF Ids
<1>9. Buffered'
  <2>1. (offset + n) - (sum + n) = offset - sum /\ offset - sum \in Int
    BY <1>2, <1>3, <1>6, ConstantFacts
  <2>2. cuts'[k'] = 0
    BY <1>1, <1>5 DEF Covers
  <2>3. HandedOver' = HandedOver
    BY <1>1, <1>6, <2>1, <2>2 DEF HandedOver
  <2>4. /\ sum' <= offset'
        /\ \A b \in 0 .. sum' - 1 : buffer'[b] = file[(offset' - sum') + b + 1]
    BY <1>1, <1>2
  <2> QED BY <1>1, <2>3, <2>4 DEF Buffered, Join
<1>10. Blocks'
  <2>1. CASE n < BlockSize
    BY <1>1, <1>6, <2>1 DEF Blocks
  <2>2. CASE ~(n < BlockSize)
    <3>1. n = BlockSize /\ n # 0 /\ offset # Len(file)
      BY <1>2, <1>3, <1>6, <2>2, ConstantFacts DEF n
    <3>2. PICK q \in Nat : offset = q * BlockSize
      BY <1>1, <3>1 DEF Blocks
    <3>3. offset' = (q + 1) * BlockSize
      BY <1>6, <3>1, <3>2, ConstantFacts, TimesFacts, q < q + 1, q + 1 \in Nat
    <3>4. length' # 0 /\ pc' = "compress"
      BY <1>1, <1>6, <3>1
    <3> QED BY <3>3, <3>4 DEF Blocks
  <2> QED BY <2>1, <2>2
<1> QED BY <1>7, <1>8, <1>9, <1>10 DEF PInv

LEMMA CloseStep ==
  ASSUME PInv, Close
  PROVE  PInv'
<1>1. /\ pc = "read" /\ pc' = "closed" /\ length = 0
      /\ UNCHANGED <<file, offset, length, writer, sum, buffer, cuts, k, shaMap, chunkId, log>>
  BY DEF Close, dedupVars
<1>2. HandedOver' = HandedOver
  BY <1>1 DEF HandedOver
<1>3. Types' /\ Ids'
  BY <1>1 DEF PInv, Types, Ids
<1>4. Buffered'
  BY <1>1, <1>2 DEF PInv, Buffered, Join
<1>5. Blocks'
  <2>1. Blocks /\ pc # "compress" /\ pc' # "compress" /\ pc \in {"read", "closed"}
    BY <1>1 DEF PInv
  <2>2. length = 0 /\ offset = Len(file)
    BY <1>1, <2>1 DEF Blocks
  <2>3. \E q \in Nat : sum = q * BlockSize /\ q < NumPackets - 1
    BY <2>1, <2>2 DEF Blocks
  <2>4. (\E q \in Nat : offset = q * BlockSize) \/ sum = 0
    BY <2>1 DEF Blocks
  <2>5. (\E q \in Nat : offset' = q * BlockSize) \/ sum' = 0
    BY <1>1, <2>4
  <2>6. \E q \in Nat : sum' = q * BlockSize /\ q < NumPackets - 1
    BY <1>1, <2>3
  <2>7. offset' = Len(file') /\ length' = 0
    BY <1>1, <2>2
  <2> QED BY <2>1, <2>5, <2>6, <2>7, Zenon DEF Blocks
<1> QED BY <1>3, <1>4, <1>5 DEF PInv

\* The chunk to be compressed is what follows in the file.
LEMMA ChunkIsNext ==
  ASSUME PInv, pc = "compress"
  PROVE  /\ Chunk \in Seq(Byte) /\ Chunk # <<>>
         /\ HandedOver \in Nat /\ cuts[k + 1] \in Nat /\ cuts[k] \in Nat
         /\ SubSeq(file, 1, HandedOver) \o Chunk =
              SubSeq(file, 1, (offset - sum) + cuts[k + 1])
<1>1. /\ Types /\ Buffered /\ k \in 1 .. Len(cuts) - 1 /\ Covers(cuts, sum)
      /\ file \in Seq(Byte) /\ Len(file) \in Nat /\ offset \in Nat /\ offset <= Len(file)
      /\ sum \in Nat /\ sum <= offset
  BY FileFacts DEF PInv, Types, Buffered
<1>2. /\ Len(cuts) \in Nat /\ k + 1 \in 1 .. Len(cuts) /\ k \in 1 .. Len(cuts)
      /\ cuts \in Seq(Nat)
  BY <1>1 DEF Covers
<1>3. /\ cuts[k] \in Nat /\ cuts[k + 1] \in Nat /\ cuts[k + 1] - cuts[k] >= 1
  BY <1>1, <1>2, ElementOfSeq, ConstantFacts DEF Covers
<1>4. \A c \in 1 .. Len(cuts) : cuts[c] <= sum
  <2> DEFINE T == {d \in Nat : d < Len(cuts) => cuts[Len(cuts) - d] <= sum}
  <2>1. 0 \in T
    BY <1>1, <1>2 DEF Covers
  <2>2. ASSUME NEW d \in Nat, d \in T PROVE d + 1 \in T
    <3> SUFFICES ASSUME d + 1 < Len(cuts) PROVE cuts[Len(cuts) - (d + 1)] <= sum
      OBVIOUS
    <3> DEFINE c == Len(cuts) - (d + 1)
    <3>1. c \in 1 .. Len(cuts) - 1 /\ c + 1 = Len(cuts) - d /\ c \in 1 .. Len(cuts)
          /\ c + 1 \in 1 .. Len(cuts)
      BY <1>2
    <3>2. cuts[c + 1] <= sum
      BY <2>2, <3>1
    <3> HIDE DEF c
    <3>3. cuts[c + 1] - cuts[c] \in 1 .. ChunkSize
      BY <1>1, <3>1 DEF Covers
    <3>4. cuts[c] \in Nat /\ cuts[c + 1] \in Nat
      BY <1>2, <3>1, ElementOfSeq
    <3>5. cuts[c] <= sum
      BY <1>1, <3>2, <3>3, <3>4, ConstantFacts
    <3> QED BY <3>5 DEF c
  <2> HIDE DEF T
  <2>3. \A d \in Nat : d \in T
    BY <2>1, <2>2, NumbersInSet
  <2>4. ASSUME NEW c \in 1 .. Len(cuts) PROVE cuts[c] <= sum
    <3>1. Len(cuts) - c \in Nat /\ Len(cuts) - c < Len(cuts) /\ Len(cuts) - (Len(cuts) - c) = c
      BY <1>2
    <3>2. Len(cuts) - c \in T
      BY <2>3, <3>1
    <3> QED BY <3>1, <3>2 DEF T
  <2> QED BY <2>4
<1> DEFINE x == cuts[k]
           y == cuts[k + 1]
           a == (offset - sum) + x
           z == (offset - sum) + y
<1>5. y <= sum
  BY <1>2, <1>4
<1>6. Chunk = [b \in 1 .. y - x |-> buffer[x + b - 1]]
  BY DEF Chunk
<1>7. HandedOver = a
  BY DEF HandedOver
<1> HIDE DEF x, y
<1>8. x \in Nat /\ y \in Nat /\ y - x >= 1 /\ y <= sum
  BY <1>3, <1>5 DEF x, y
<1>9. a \in Nat /\ z \in Nat /\ z <= Len(file) /\ z - a = y - x /\ a < z
  BY <1>1, <1>8
<1>10. ASSUME NEW b \in 1 .. y - x PROVE buffer[x + b - 1] = file[a + b]
  <2>1. x + b - 1 \in 0 .. sum - 1 /\ (offset - sum) + (x + b - 1) + 1 = a + b
    BY <1>1, <1>8
  <2>2. buffer[x + b - 1] = file[(offset - sum) + (x + b - 1) + 1]
    BY <1>1, <2>1 DEF Buffered
  <2> QED BY <2>1, <2>2
<1> HIDE DEF a, z
<1>11. ASSUME NEW b \in 1 .. y - x PROVE file[a + b] \in Byte
  <2>1. a + b \in 1 .. Len(file)
    BY <1>1, <1>8, <1>9
  <2> QED BY <1>1, <2>1, ElementOfSeq
<1>12. Chunk = [b \in 1 .. y - x |-> file[a + b]]
  BY <1>6, <1>10
<1>13. y - x \in Nat
  BY <1>8
<1>14. Chunk \in Seq(Byte) /\ Len(Chunk) = y - x
  <2> DEFINE m == y - x
  <2> HIDE DEF m
  <2>1. m \in Nat /\ Chunk = [b \in 1 .. m |-> file[a + b]] /\ \A b \in 1 .. m : file[a + b] \in Byte
    BY <1>11, <1>12, <1>13 DEF m
  <2>2. Chunk \in [1 .. m -> Byte]
    BY <2>1
  <2> QED BY <2>1, <2>2 DEF m
<1>15. SubSeq(file, a + 1, z) = Chunk
  <2> DEFINE t == SubSeq(file, a + 1, z)
  <2>1. /\ t \in Seq(Byte)
        /\ Len(t) = (IF a + 1 <= z THEN z - (a + 1) + 1 ELSE 0)
        /\ \A b \in 1 .. z - (a + 1) + 1 : t[b] = file[(a + 1) + b - 1]
    <3>1. a + 1 \in 1 .. Len(file) + 1 /\ z \in a + 1 - 1 .. Len(file)
      BY <1>1, <1>9
    <3> QED BY <1>1, <3>1, SubSeqProperties
  <2> HIDE DEF t
  <2>2. Len(t) = y - x /\ z - (a + 1) + 1 = y - x
    BY <1>9, <2>1
  <2>3. ASSUME NEW b \in 1 .. y - x PROVE t[b] = Chunk[b]
    <3>1. (a + 1) + b - 1 = a + b
      BY <1>8, <1>9
    <3>2. t[b] = file[(a + 1) + b - 1]
      BY <2>1, <2>2
    <3> QED BY <3>1, <3>2, <1>12
  <2>4. t = Chunk
    BY <1>14, <2>1, <2>2, <2>3, SeqEqual
  <2> QED BY <2>4 DEF t
<1>16. SubSeq(file, 1, a) \o SubSeq(file, a + 1, z) = SubSeq(file, 1, z)
  <2>1. 1 \in 1 .. Len(file) + 1 /\ a \in 1 - 1 .. Len(file) /\ z \in a .. Len(file)
    BY <1>1, <1>9
  <2> QED BY <1>1, <2>1, ConcatAdjacentSubSeq
<1>17. Chunk # <<>>
  <2>1. Len(Chunk) # 0 /\ Len(<<>>) = 0
    BY <1>8, <1>14
  <2> QED BY <2>1
<1> QED BY <1>3, <1>7, <1>9, <1>14, <1>15, <1>16, <1>17 DEF z, y

LEMMA CompressStep ==
  ASSUME PInv, pc = "compress", NextChunk, NEW e \in BOOLEAN,
         log' = Append(log, [chunk |-> Chunk, exceeded |-> e]),
         UNCHANGED <<file, offset, length, buffer, cuts>>
  PROVE  Types' /\ Buffered' /\ Blocks'
<1>1. /\ Types /\ Buffered /\ Blocks /\ k \in 1 .. Len(cuts) - 1 /\ Covers(cuts, sum)
      /\ Len(cuts) \in Nat /\ cuts[Len(cuts)] = sum
      /\ offset \in Nat /\ offset <= Len(file) /\ Len(file) \in Nat
      /\ sum \in Nat /\ sum <= offset
  BY FileFacts DEF PInv, Types, Buffered, Covers
<1>2. /\ Chunk \in Seq(Byte) /\ HandedOver \in Nat
      /\ SubSeq(file, 1, HandedOver) \o Chunk = SubSeq(file, 1, (offset - sum) + cuts[k + 1])
  BY ChunkIsNext
<1> DEFINE entry == [chunk |-> Chunk, exceeded |-> e]
<1>3. entry \in LogEntry /\ entry.chunk = Chunk
  BY <1>2 DEF LogEntry
<1>4. log \in Seq(LogEntry)
  BY <1>1 DEF Types
<1> HIDE DEF entry
<1>5. /\ log' = Append(log, entry) /\ log' \in Seq(LogEntry) /\ Len(log) \in Nat
      /\ Len(log') = Len(log) + 1
      /\ \A n \in 1 .. Len(log) : log'[n] = log[n]
      /\ log'[Len(log) + 1] = entry
  BY <1>3, <1>4, AppendProperties, LenProperties DEF entry
<1>6. ASSUME NEW f, Join(log', f)
      PROVE  f[Len(log')] = SubSeq(file, 1, (offset - sum) + cuts[k + 1])
  <2>1. f[0] = <<>> /\ \A n \in 1 .. Len(log) + 1 : f[n] = f[n - 1] \o log'[n].chunk
    BY <1>5, <1>6 DEF Join
  <2>2. Join(log, f)
    <3>1. ASSUME NEW n \in 1 .. Len(log) PROVE f[n] = f[n - 1] \o log[n].chunk
      <4>1. n \in 1 .. Len(log) + 1
        BY <1>5
      <4>2. log'[n] = log[n]
        BY <1>5
      <4> QED BY <2>1, <4>1, <4>2
    <3> QED BY <2>1, <3>1 DEF Join
  <2>3. f[Len(log)] = SubSeq(file, 1, HandedOver)
    BY <1>1, <2>2 DEF Buffered
  <2>4. Len(log) + 1 \in 1 .. Len(log) + 1 /\ (Len(log) + 1) - 1 = Len(log)
    BY <1>5
  <2>5. f[Len(log) + 1] = f[Len(log)] \o Chunk
    BY <1>3, <1>5, <2>1, <2>4
  <2> QED BY <1>2, <1>5, <2>3, <2>5
<1>7. CASE k + 1 < Len(cuts)
  <2>1. /\ k' = k + 1 /\ pc' = pc /\ writer' = writer /\ sum' = sum
    BY <1>7 DEF NextChunk
  <2>2. k' \in 1 .. Len(cuts') - 1
    BY <1>1, <1>7, <2>1
  <2>3. Types'
    BY <1>1, <1>5, <2>1, <2>2 DEF Types
  <2>4. HandedOver' = (offset - sum) + cuts[k + 1]
    BY <2>1 DEF HandedOver
  <2>5. Buffered'
    BY <1>1, <1>6, <2>1, <2>4 DEF Buffered
  <2>6. Blocks'
    BY <1>1, <2>1 DEF Blocks
  <2> QED BY <2>3, <2>5, <2>6
<1>8. CASE ~(k + 1 < Len(cuts))
  <2>1. /\ k + 1 = Len(cuts) /\ pc' = "read" /\ writer' = 0 /\ sum' = 0
    BY <1>1, <1>8 DEF NextChunk
  <2>2. 0 = 0 * BlockSize /\ 0 \in 0 .. NumPackets - 1 /\ 0 \in 0 .. BufferLen
        /\ 0 < NumPackets - 1
    BY <1>1, ConstantFacts, FileFacts
  <2>3. Types'
    BY <1>1, <1>5, <2>1, <2>2 DEF Types
  <2>4. (offset - sum) + cuts[k + 1] = offset /\ offset - 0 = offset
    BY <1>1, <2>1
  <2>5. HandedOver' = (offset - sum) + cuts[k + 1]
    <3>1. HandedOver' = (offset' - sum') + 0
      BY <2>1 DEF HandedOver
    <3> QED BY <1>1, <2>1, <2>4, <3>1
  <2>6. Buffered'
    <3>1. sum' <= offset' /\ 0 .. sum' - 1 = {}
      BY <1>1, <2>1
    <3> QED BY <1>6, <2>1, <2>5, <3>1 DEF Buffered
  <2>7. Blocks'
    BY <1>1, <2>1, <2>2 DEF Blocks
  <2> QED BY <2>3, <2>6, <2>7
<1> QED BY <1>7, <1>8

LEMMA CompressKnownStep ==
  ASSUME PInv, CompressKnown
  PROVE  PInv'
<1>1. /\ pc = "compress" /\ NextChunk /\ FALSE \in BOOLEAN
      /\ log' = Append(log, [chunk |-> Chunk, exceeded |-> FALSE])
      /\ UNCHANGED <<file, offset, length, buffer, cuts>>
      /\ UNCHANGED <<shaMap, chunkId>>
  BY DEF CompressKnown, dedupVars
<1>2. Types' /\ Buffered' /\ Blocks'
  BY <1>1, CompressStep
<1> QED BY <1>1, <1>2 DEF PInv, Ids

LEMMA DedupNewIds ==
  ASSUME Ids, NEW fingerprint, DedupNew(fingerprint)
  PROVE  Ids'
<1>1. /\ fingerprint \notin DOMAIN shaMap /\ chunkId' = chunkId + 1 /\ chunkId \in Nat
      /\ shaMap' = [f \in DOMAIN shaMap \cup {fingerprint} |->
                      IF f = fingerprint THEN chunkId ELSE shaMap[f]]
      /\ IsFiniteSet(DOMAIN shaMap) /\ Cardinality(DOMAIN shaMap) = chunkId
      /\ {shaMap[f] : f \in DOMAIN shaMap} = 0 .. chunkId - 1
  BY DEF DedupNew, Ids
<1>2. DOMAIN shaMap' = DOMAIN shaMap \cup {fingerprint}
  BY <1>1
<1>3. IsFiniteSet(DOMAIN shaMap') /\ Cardinality(DOMAIN shaMap') = chunkId + 1
  BY <1>1, <1>2, FS_AddElement
<1>4. {shaMap'[f] : f \in DOMAIN shaMap'} = {shaMap[f] : f \in DOMAIN shaMap} \cup {chunkId}
  <2>1. /\ shaMap'[fingerprint] = chunkId /\ fingerprint \in DOMAIN shaMap'
        /\ \A f \in DOMAIN shaMap : f # fingerprint /\ f \in DOMAIN shaMap'
                                  /\ shaMap'[f] = shaMap[f]
    BY <1>1, <1>2
  <2>2. \A f \in DOMAIN shaMap' : f \in DOMAIN shaMap \/ f = fingerprint
    BY <1>2
  <2> DEFINE new == shaMap'
  <2> HIDE DEF new
  <2>3. {new[f] : f \in DOMAIN new} = {shaMap[f] : f \in DOMAIN shaMap} \cup {chunkId}
    <3>1. /\ new[fingerprint] = chunkId /\ fingerprint \in DOMAIN new
          /\ \A f \in DOMAIN shaMap : f \in DOMAIN new /\ new[f] = shaMap[f]
          /\ \A f \in DOMAIN new : f \in DOMAIN shaMap \/ f = fingerprint
      BY <2>1, <2>2 DEF new
    <3> QED BY <3>1
  <2> QED BY <2>3 DEF new
<1>5. (0 .. chunkId - 1) \cup {chunkId} = 0 .. (chunkId + 1) - 1
  BY <1>1
<1> QED BY <1>1, <1>3, <1>4, <1>5 DEF Ids

LEMMA CompressNewStep ==
  ASSUME PInv, CompressNew
  PROVE  PInv'
<1>1. /\ pc = "compress" /\ DedupNew(Fingerprint(Chunk))
      /\ UNCHANGED <<file, offset, length, buffer, cuts>>
      /\ Types /\ Ids /\ Buffered
  BY DEF CompressNew, PInv
<1>2. Ids'
  BY <1>1, DedupNewIds
<1>3. PICK undefined \in Undefined :
        LET result == Lzw(Chunk, undefined) IN
        IF result.failure
        THEN /\ pc' = "failed"
             /\ UNCHANGED <<writer, sum, k, archive, log>>
        ELSE /\ archive' = Append(archive, RawRecord(result.codes))
             /\ log' = Append(log, [chunk |-> Chunk,
                                    exceeded |-> ~WithinLimits(Chunk, result)])
             /\ NextChunk
  BY DEF CompressNew
<1> DEFINE result == Lzw(Chunk, undefined)
           e == ~WithinLimits(Chunk, result)
<1>4. \/ pc' = "failed" /\ UNCHANGED <<writer, sum, k, log>>
      \/ log' = Append(log, [chunk |-> Chunk, exceeded |-> e]) /\ NextChunk
  BY <1>3
<1>5. e \in BOOLEAN
  OBVIOUS
<1> HIDE DEF e, result
<1>6. CASE pc' = "failed" /\ UNCHANGED <<writer, sum, k, log>>
  BY <1>1, <1>2, <1>6 DEF PInv, Types, Buffered
<1>7. CASE log' = Append(log, [chunk |-> Chunk, exceeded |-> e]) /\ NextChunk
  BY <1>1, <1>2, <1>5, <1>7, CompressStep DEF PInv
<1> QED BY <1>4, <1>6, <1>7

LEMMA NextP == ASSUME PInv, [Next]_vars PROVE PInv'
<1>1. CASE ReadBlock
  BY <1>1, ReadBlockStep
<1>2. CASE ReadAndChunk
  BY <1>2, ReadAndChunkStep
<1>3. CASE Close
  BY <1>3, CloseStep
<1>4. CASE CompressKnown
  BY <1>4, CompressKnownStep
<1>5. CASE CompressNew
  BY <1>5, CompressNewStep
<1>6. CASE Ended \/ UNCHANGED vars
  <2>1. /\ UNCHANGED <<pc, file, offset, length, writer, sum, buffer, cuts, k>>
        /\ UNCHANGED <<shaMap, chunkId, log>>
    BY <1>6 DEF Ended, vars, dedupVars
  <2> QED BY <2>1 DEF PInv, Types, Ids, Buffered, Blocks, HandedOver, Join
<1> QED BY <1>1, <1>2, <1>3, <1>4, <1>5, <1>6 DEF Next

THEOREM Invariance == Spec => []PInv
<1> QED BY InitP, NextP, PTL DEF Spec

\* The buffer is not overrun, and the ids are the numbers of the new chunks.
THEOREM TypeCorrect == Spec => []TypeOK
<1>1. ASSUME PInv PROVE TypeOK
  <2>1. Types /\ Ids
    BY <1>1 DEF PInv
  <2> QED BY <2>1 DEF Types, Ids, TypeOK, Byte
<1> QED BY <1>1, Invariance, PTL

\* Whatever the buffer holds and whatever is read behind it, cdc's chunks are
\* the bytes of the buffer, each of them within its limits.
THEOREM CutsCoverHolds == Spec => []CutsCover
<1>1. ASSUME PInv PROVE CutsCover
  <2> SUFFICES ASSUME pc = "compress"
               PROVE  /\ cuts[1] = 0 /\ cuts[Len(cuts)] = sum
                      /\ \A c \in 1 .. Len(cuts) - 1 :
                           LET size == cuts[c + 1] - cuts[c] IN
                           /\ size \in 1 .. ChunkSize
                           /\ c < Len(cuts) - 1 => size >= MinSize
    BY DEF CutsCover
  <2>1. Covers(cuts, sum)
    BY <1>1 DEF PInv, Types
  <2> QED BY <2>1 DEF Covers
<1> QED BY <1>1, Invariance, PTL

\* For a file of any length, what is compressed is the file but for some full
\* blocks at its end.
THEOREM LosesOnlyFullBlocksHolds == Spec => []LosesOnlyFullBlocks
<1>1. ASSUME PInv PROVE LosesOnlyFullBlocks
  <2> SUFFICES ASSUME pc = "closed" PROVE LosesOnlyFullBlocks
    BY DEF LosesOnlyFullBlocks
  <2>1. /\ Types /\ Buffered /\ Blocks /\ log \in Seq(LogEntry)
        /\ file \in Seq(Byte) /\ Len(file) \in Nat /\ offset \in Nat
        /\ sum \in Nat /\ sum <= offset /\ offset <= Len(file)
    BY <1>1, FileFacts DEF PInv, Types, Buffered
  <2>2. Len(log) \in Nat
    BY <2>1, LenProperties
  <2> DEFINE Rec(f) == f = [n \in 0 .. Len(log) |->
                              IF n = 0 THEN <<>> ELSE f[n - 1] \o log[n].chunk]
             h == CHOOSE f : Rec(f)
             g == [n \in 1 .. Len(log) |-> log[n].chunk]
  <2>3. \E f : Rec(f)
    <3>1. PICK f : Joined(g, Len(log), f)
      BY <2>2, JoinedExist
    <3>2. f = [n \in 0 .. Len(log) |-> IF n = 0 THEN <<>> ELSE f[n - 1] \o g[n]]
      BY <3>1 DEF Joined
    <3>3. \A n \in 0 .. Len(log) : n # 0 => g[n] = log[n].chunk
      BY <2>2
    <3> HIDE DEF g
    <3>4. Rec(f)
      BY <3>2, <3>3
    <3> QED BY <3>4
  <2>4. Rec(h)
    BY <2>3, Zenon
  <2> HIDE DEF h
  <2>5. Join(log, h)
    <3>1. \A n \in 0 .. Len(log) : h[n] = IF n = 0 THEN <<>> ELSE h[n - 1] \o log[n].chunk
      BY <2>4
    <3>2. \A n \in 1 .. Len(log) : n \in 0 .. Len(log) /\ n # 0
      BY <2>2
    <3>3. 0 \in 0 .. Len(log)
      BY <2>2
    <3>4. \A n \in 1 .. Len(log) : h[n] = h[n - 1] \o log[n].chunk
      BY <3>1, <3>2
    <3> QED BY <3>1, <3>3, <3>4 DEF Join
  <2>6. HandedOver = offset - sum
    BY <2>1 DEF HandedOver
  <2>7. h[Len(log)] = SubSeq(file, 1, offset - sum)
    BY <2>1, <2>5, <2>6 DEF Buffered
  <2>8. Len(SubSeq(file, 1, offset - sum)) = offset - sum
    <3>1. \A b \in 1 .. offset - sum : file[b] \in Byte
      BY <2>1, FileFacts
    <3>2. offset - sum \in Nat
      BY <2>1
    <3> QED BY <3>1, <3>2, SubSeqProperties
  <2> DEFINE size == Len(h[Len(log)])
  <2>9. size = offset - sum /\ h[Len(log)] = SubSeq(file, 1, size)
    BY <2>7, <2>8
  <2>10. /\ Len(file) % BlockSize # 0 => size = Len(file)
         /\ (Len(file) - size) % BlockSize = 0
         /\ Len(file) - size < (NumPackets - 1) * BlockSize
    <3>1. length = 0 /\ offset = Len(file)
      BY <2>1 DEF Blocks
    <3>2. PICK q \in Nat : sum = q * BlockSize /\ q < NumPackets - 1
      BY <2>1, <3>1 DEF Blocks
    <3>3. \A d \in Nat : (d * BlockSize) % BlockSize = 0
      BY ConstantFacts, SMT
    <3>4. (\E d \in Nat : Len(file) = d * BlockSize) \/ sum = 0
      BY <2>1, <3>1 DEF Blocks
    <3>5. Len(file) % BlockSize # 0 => sum = 0
      BY <3>3, <3>4
    <3>6. Len(file) - size = sum /\ (sum = 0 => size = Len(file))
      BY <2>1, <2>9, <3>1
    <3>7. NumPackets - 1 \in Nat /\ q * BlockSize \in Nat
          /\ q * BlockSize + BlockSize <= (NumPackets - 1) * BlockSize
      BY <3>2, ConstantFacts, TimesFacts
    <3>8. (NumPackets - 1) * BlockSize \in Int
      BY ConstantFacts, SMT
    <3>9. sum < (NumPackets - 1) * BlockSize
      <4> DEFINE x == q * BlockSize
                 y == (NumPackets - 1) * BlockSize
      <4> HIDE DEF x, y
      <4>1. sum = x /\ x \in Nat /\ y \in Int /\ x + BlockSize <= y
        BY <3>2, <3>7, <3>8 DEF x, y
      <4>2. sum < y
        BY <4>1, ConstantFacts
      <4> QED BY <4>2 DEF y
    <3> QED BY <3>2, <3>3, <3>5, <3>6, <3>9
  <2>11. /\ h[Len(log)] = SubSeq(file, 1, size)
         /\ Len(file) % BlockSize # 0 => size = Len(file)
         /\ (Len(file) - size) % BlockSize = 0
         /\ Len(file) - size < (NumPackets - 1) * BlockSize
    BY <2>9, <2>10
  <2> HIDE DEF size
  <2> QED BY <2>11 DEF LosesOnlyFullBlocks, h, size
<1> QED BY <1>1, Invariance, PTL

-----------------------------------------------------------------------------
(* The padding of a chunk *)

\* f joins the first m of the sequences g.
Chain(g, m, f) == f[0] = <<>> /\ \A n \in 1 .. m : f[n] = f[n - 1] \o g[n]

LEMMA ChainAppend ==
  ASSUME NEW S, NEW g \in Seq(S), NEW x \in S, NEW f, Chain(Append(g, x), Len(g) + 1, f)
  PROVE  Chain(g, Len(g), f) /\ f[Len(g) + 1] = f[Len(g)] \o x
<1>1. /\ Len(g) \in Nat
      /\ \A n \in 1 .. Len(g) : Append(g, x)[n] = g[n]
      /\ Append(g, x)[Len(g) + 1] = x
  BY AppendProperties, LenProperties
<1>2. /\ f[0] = <<>>
      /\ \A n \in 1 .. Len(g) + 1 : f[n] = f[n - 1] \o Append(g, x)[n]
  BY DEF Chain
<1>3. ASSUME NEW n \in 1 .. Len(g) PROVE f[n] = f[n - 1] \o g[n]
  <2>1. n \in 1 .. Len(g) + 1
    BY <1>1
  <2> QED BY <2>1, <1>1, <1>2
<1>4. Len(g) + 1 \in 1 .. Len(g) + 1 /\ (Len(g) + 1) - 1 = Len(g)
  BY <1>1
<1> QED BY <1>1, <1>2, <1>3, <1>4 DEF Chain

\* Said of three sequences only: as a law it leads the provers astray.
Assoc(u, v, w) == (u \o v) \o w = u \o (v \o w)
LEMMA Associative ==
  \A S : \A u, v, w \in Seq(S) : Assoc(u, v, w)
<1>1. ASSUME NEW S, NEW u \in Seq(S), NEW v \in Seq(S), NEW w \in Seq(S)
      PROVE  (u \o v) \o w = u \o (v \o w)
  BY ConcatAssociative
<1> QED BY <1>1 DEF Assoc

UpdateStep(s, byte) ==
  LET data == Append(s.data, byte) IN
  IF Len(data) = BlockBytes
  THEN [blocks |-> Transform(s.blocks, data), data |-> <<>>,
        bitlen |-> s.bitlen + 8 * BlockBytes]
  ELSE [s EXCEPT !.data = data]

\* The contexts of sha256_update, up to the m-th.
UpdateStates(c, m, f) ==
  f = [n \in 0 .. m |-> IF n = 0 THEN Start ELSE UpdateStep(f[n - 1], c[n])]

LEMMA UpdateStatesExist ==
  ASSUME NEW c
  PROVE  \A m \in Nat : \E f : UpdateStates(c, m, f)
<1> DEFINE T == {m \in Nat : \E f : UpdateStates(c, m, f)}
<1>1. 0 \in T
  <2> DEFINE f == [n \in 0 .. 0 |-> Start]
  <2>1. f = [n \in 0 .. 0 |-> IF n = 0 THEN Start ELSE UpdateStep(f[n - 1], c[n])]
    OBVIOUS
  <2> QED BY <2>1 DEF UpdateStates
<1>2. ASSUME NEW m \in Nat, m \in T PROVE m + 1 \in T
  <2>1. PICK f : UpdateStates(c, m, f)
    BY <1>2
  <2> DEFINE g == [n \in 0 .. m + 1 |-> IF n = m + 1 THEN UpdateStep(f[m], c[m + 1])
                                        ELSE f[n]]
  <2>2. ASSUME NEW n \in 0 .. m + 1
        PROVE  g[n] = IF n = 0 THEN Start ELSE UpdateStep(g[n - 1], c[n])
    <3>1. \A x \in 0 .. m : f[x] = IF x = 0 THEN Start ELSE UpdateStep(f[x - 1], c[x])
      BY <2>1 DEF UpdateStates
    <3>2. CASE n = m + 1
      <4>1. g[n - 1] = f[m] /\ n # 0 /\ g[n] = UpdateStep(f[m], c[n])
        BY <3>2
      <4> QED BY <4>1
    <3>3. CASE n \in 0 .. m
      <4>1. g[n] = f[n] /\ (n # 0 => g[n - 1] = f[n - 1])
        BY <3>3
      <4> QED BY <3>1, <3>3, <4>1
    <3> QED BY <3>2, <3>3
  <2> HIDE DEF g
  <2>3. DOMAIN g = 0 .. m + 1 /\ g = [n \in 0 .. m + 1 |-> g[n]]
    BY DEF g
  <2>4. UpdateStates(c, m + 1, g)
    BY <2>2, <2>3 DEF UpdateStates
  <2> QED BY <2>4
<1> HIDE DEF T
<1>3. \A m \in Nat : m \in T
  BY <1>1, <1>2, NumbersInSet
<1> QED BY <1>3 DEF T

LEMMA UpdateEnd ==
  ASSUME NEW c, Len(c) \in Nat
  PROVE  \E f : UpdateStates(c, Len(c), f) /\ Update(c) = f[Len(c)]
<1> DEFINE Rec(f) ==
      f = [n \in 0 .. Len(c) |->
        IF n = 0 THEN Start
        ELSE LET data == Append(f[n - 1].data, c[n]) IN
             IF Len(data) = BlockBytes
             THEN [blocks |-> Transform(f[n - 1].blocks, data), data |-> <<>>,
                   bitlen |-> f[n - 1].bitlen + 8 * BlockBytes]
             ELSE [f[n - 1] EXCEPT !.data = data]]
           h == CHOOSE f : Rec(f)
<1>1. \E f : Rec(f)
  <2>1. PICK f : UpdateStates(c, Len(c), f)
    BY UpdateStatesExist
  <2>2. Rec(f)
    BY <2>1, Zenon DEF UpdateStates, UpdateStep
  <2> QED BY <2>2
<1>2. Rec(h)
  BY <1>1, Zenon
<1>3. Update(c) = h[Len(c)]
  BY DEF Update
<1> HIDE DEF h
<1>4. UpdateStates(c, Len(c), h)
  BY <1>2, Zenon DEF UpdateStates, UpdateStep
<1> QED BY <1>3, <1>4

LEMMA BlockFacts ==
  /\ BlockBytes \in Nat /\ LengthBytes \in Nat /\ LengthBytes < BlockBytes
  BY Sha256Assumption

\* The context s after n bytes of c, whose elements are in U.
Context(s, c, n, U) ==
  /\ s = [blocks |-> s.blocks, data |-> s.data, bitlen |-> s.bitlen]
  /\ s.blocks \in Seq(Seq(U)) /\ s.data \in Seq(U) /\ s.bitlen \in Nat
  /\ Len(s.data) < BlockBytes
  /\ s.bitlen + 8 * Len(s.data) = 8 * n
  /\ BlockBytes * Len(s.blocks) + Len(s.data) = n
  /\ \A f : Chain(s.blocks, Len(s.blocks), f) =>
              f[Len(s.blocks)] \in Seq(U) /\ f[Len(s.blocks)] \o s.data = SubSeq(c, 1, n)

LEMMA StartContext ==
  ASSUME NEW U, NEW c \in Seq(U)
  PROVE  Context(Start, c, 0, U)
<1>1. SubSeq(c, 1, 0) = <<>>
  BY SubSeqEmpty
<1>2. /\ Start = [blocks |-> <<>>, data |-> <<>>, bitlen |-> 0]
      /\ Start.blocks = <<>> /\ Start.data = <<>> /\ Start.bitlen = 0
  BY DEF Start
<1>3. <<>> \in Seq(Seq(U)) /\ <<>> \in Seq(U) /\ Len(<<>>) = 0 /\ <<>> \o <<>> = <<>>
  BY EmptySeq, ConcatEmptySeq
<1>4. \A f : Chain(<<>>, 0, f) => f[0] \in Seq(U) /\ f[0] \o <<>> = SubSeq(c, 1, 0)
  BY <1>1, <1>3 DEF Chain
<1>5. /\ 0 + 8 * 0 = 8 * 0 /\ BlockBytes * 0 + 0 = 0 /\ 0 < BlockBytes
  BY BlockFacts, SMT
<1> QED BY <1>2, <1>3, <1>4, <1>5 DEF Context

LEMMA UpdateContext ==
  ASSUME NEW U, NEW c \in Seq(U), NEW n \in Nat, n < Len(c), NEW s, Context(s, c, n, U)
  PROVE  Context(UpdateStep(s, c[n + 1]), c, n + 1, U)
<1> DEFINE byte == c[n + 1]
           data == Append(s.data, byte)
           d == Len(s.data)
           m == Len(s.blocks)
<1>1. byte \in U /\ Len(c) \in Nat /\ n + 1 \in 1 .. Len(c)
  <2>1. Len(c) \in Nat
    BY LenProperties
  <2>2. n + 1 \in 1 .. Len(c)
    BY <2>1
  <2> QED BY <2>1, <2>2, ElementOfSeq
<1>2. /\ s.blocks \in Seq(Seq(U)) /\ s.data \in Seq(U) /\ s.bitlen \in Nat
      /\ d < BlockBytes /\ s.bitlen + 8 * d = 8 * n /\ BlockBytes * m + d = n
      /\ d \in Nat /\ m \in Nat
  BY LenProperties DEF Context
<1>3. /\ data \in Seq(U) /\ Len(data) = d + 1 /\ data = s.data \o <<byte>> /\ <<byte>> \in Seq(U)
  BY <1>1, <1>2, AppendProperties, AppendIsConcat
<1>4. SubSeq(c, 1, n) \o <<byte>> = SubSeq(c, 1, n + 1)
  <2>1. SubSeq(c, n + 1, n + 1) = <<byte>>
    <3>1. \A j \in n + 1 .. n + 1 : c[j] \in U
      BY <1>1
    <3> DEFINE t == SubSeq(c, n + 1, n + 1)
    <3>2. t \in Seq(U) /\ Len(t) = 1 /\ t[1] = byte
      BY <3>1, SubSeqProperties, n + 1 \in Int
    <3> HIDE DEF t
    <3>3. <<byte>> \in Seq(U) /\ Len(<<byte>>) = 1 /\ <<byte>>[1] = byte
      BY <1>3
    <3>4. \A j \in 1 .. Len(t) : t[j] = <<byte>>[j]
      BY <3>2, <3>3
    <3>5. t = <<byte>>
      BY <3>2, <3>3, <3>4, SeqEqual
    <3> QED BY <3>5 DEF t
  <2>2. SubSeq(c, 1, n) \o SubSeq(c, n + 1, n + 1) = SubSeq(c, 1, n + 1)
    <3>1. 1 \in 1 .. Len(c) + 1 /\ n \in 1 - 1 .. Len(c) /\ n + 1 \in n .. Len(c)
      BY <1>1
    <3> QED BY <3>1, ConcatAdjacentSubSeq
  <2> QED BY <2>1, <2>2
<1>5. ASSUME NEW f, Chain(s.blocks, m, f)
      PROVE  f[m] \in Seq(U) /\ f[m] \o data = SubSeq(c, 1, n + 1)
  <2>1. f[m] \in Seq(U) /\ f[m] \o s.data = SubSeq(c, 1, n)
    BY <1>5 DEF Context
  <2>2. f[m] \o (s.data \o <<byte>>) = (f[m] \o s.data) \o <<byte>>
    <3>1. f[m] \in Seq(U) /\ s.data \in Seq(U) /\ <<byte>> \in Seq(U)
      BY <2>1, <1>2, <1>3, Zenon
    <3>2. Assoc(f[m], s.data, <<byte>>)
      BY <3>1, Associative
    <3> QED BY <3>2, Zenon DEF Assoc
  <2> QED BY <2>1, <2>2, <1>3, <1>4, Zenon
<1> HIDE DEF data, byte, d, m
<1>6. CASE Len(data) = BlockBytes
  <2> DEFINE bs == Append(s.blocks, data)
  <2>1. UpdateStep(s, byte) = [blocks |-> bs, data |-> <<>>, bitlen |-> s.bitlen + 8 * BlockBytes]
    BY <1>6 DEF UpdateStep, Transform, data
  <2>2. /\ bs \in Seq(Seq(U)) /\ Len(bs) = m + 1
    BY <1>2, <1>3, AppendProperties DEF m
  <2>3. ASSUME NEW f, Chain(bs, m + 1, f)
        PROVE  f[m + 1] \in Seq(U) /\ f[m + 1] \o <<>> = SubSeq(c, 1, n + 1)
    <3>1. Chain(s.blocks, m, f) /\ f[m + 1] = f[m] \o data
      BY <1>2, <1>3, <2>3, ChainAppend DEF m
    <3>2. f[m] \in Seq(U) /\ f[m + 1] = SubSeq(c, 1, n + 1)
      BY <1>5, <3>1
    <3>3. f[m + 1] \in Seq(U)
      BY <1>3, <3>1, <3>2, ConcatProperties
    <3> QED BY <3>2, <3>3, ConcatEmptySeq
  <2>4. /\ s.bitlen + 8 * BlockBytes \in Nat /\ Len(<<>>) = 0 /\ <<>> \in Seq(U)
        /\ (s.bitlen + 8 * BlockBytes) + 8 * 0 = 8 * (n + 1)
        /\ BlockBytes * (m + 1) + 0 = n + 1
        /\ 0 < BlockBytes
    <3>1. d + 1 = BlockBytes
      BY <1>3, <1>6
    <3>2. BlockBytes * (m + 1) = BlockBytes * m + BlockBytes /\ BlockBytes * m \in Nat
      BY <1>2, BlockFacts, SMT
    <3>3. s.bitlen + 8 * d = 8 * n /\ BlockBytes * m + d = n /\ s.bitlen \in Nat /\ d \in Nat
      BY <1>2
    <3> DEFINE x == BlockBytes * m
               y == BlockBytes * (m + 1)
               l == s.bitlen
    <3>4. /\ x \in Nat /\ y = x + BlockBytes /\ d + 1 = BlockBytes /\ l \in Nat /\ d \in Nat
          /\ l + 8 * d = 8 * n /\ x + d = n
      BY <3>1, <3>2, <3>3
    <3> HIDE DEF x, y, l
    <3>5. /\ l + 8 * BlockBytes \in Nat /\ (l + 8 * BlockBytes) + 8 * 0 = 8 * (n + 1)
          /\ y + 0 = n + 1 /\ 0 < BlockBytes
      BY <3>4, BlockFacts
    <3> QED BY <3>5, EmptySeq DEF y, l
  <2> HIDE DEF bs
  <2>5. Context([blocks |-> bs, data |-> <<>>, bitlen |-> s.bitlen + 8 * BlockBytes],
                c, n + 1, U)
    BY <2>2, <2>3, <2>4 DEF Context
  <2> QED BY <2>1, <2>5 DEF byte
<1>7. CASE Len(data) # BlockBytes
  <2>1. UpdateStep(s, byte) = [blocks |-> s.blocks, data |-> data, bitlen |-> s.bitlen]
    <3>1. UpdateStep(s, byte) = [s EXCEPT !.data = data]
      BY <1>7 DEF UpdateStep, data
    <3>2. s = [blocks |-> s.blocks, data |-> s.data, bitlen |-> s.bitlen]
      BY DEF Context
    <3> QED BY <3>1, <3>2
  <2>2. /\ Len(data) < BlockBytes /\ s.bitlen + 8 * Len(data) = 8 * (n + 1)
        /\ BlockBytes * m + Len(data) = n + 1
    <3>1. BlockBytes * m \in Nat
      BY <1>2, BlockFacts, SMT
    <3>2. s.bitlen + 8 * d = 8 * n /\ BlockBytes * m + d = n /\ s.bitlen \in Nat /\ d \in Nat
          /\ d < BlockBytes
      BY <1>2
    <3> DEFINE x == BlockBytes * m
               l == s.bitlen
               e == Len(data)
    <3>3. /\ x \in Nat /\ l \in Nat /\ d \in Nat /\ e = d + 1 /\ d < BlockBytes /\ e # BlockBytes
          /\ l + 8 * d = 8 * n /\ x + d = n
      BY <3>1, <3>2, <1>3, <1>7
    <3> HIDE DEF x, l, e
    <3>4. e < BlockBytes /\ l + 8 * e = 8 * (n + 1) /\ x + e = n + 1
      BY <3>3, BlockFacts
    <3> QED BY <3>4 DEF x, l, e
  <2>3. Context([blocks |-> s.blocks, data |-> data, bitlen |-> s.bitlen], c, n + 1, U)
    BY <1>2, <1>3, <1>5, <2>2 DEF Context, m
  <2> QED BY <2>1, <2>3 DEF byte
<1> QED BY <1>6, <1>7 DEF byte

LEMMA UpdatedContext ==
  ASSUME NEW U, NEW c \in Seq(U)
  PROVE  Context(Update(c), c, Len(c), U)
<1>0. Len(c) \in Nat
  BY LenProperties
<1>1. PICK f : UpdateStates(c, Len(c), f) /\ Update(c) = f[Len(c)]
  BY <1>0, UpdateEnd
<1>2. /\ f[0] = Start
      /\ \A n \in 1 .. Len(c) : f[n] = UpdateStep(f[n - 1], c[n])
  <2>1. \A n \in 0 .. Len(c) : f[n] = IF n = 0 THEN Start ELSE UpdateStep(f[n - 1], c[n])
    BY <1>1 DEF UpdateStates
  <2> QED BY <1>0, <2>1
<1> DEFINE T == {n \in Nat : n <= Len(c) => Context(f[n], c, n, U)}
<1>3. 0 \in T
  BY <1>2, StartContext
<1>4. ASSUME NEW n \in Nat, n \in T PROVE n + 1 \in T
  <2> SUFFICES ASSUME n + 1 <= Len(c) PROVE Context(f[n + 1], c, n + 1, U)
    OBVIOUS
  <2>1. n <= Len(c) /\ n < Len(c) /\ n + 1 \in 1 .. Len(c) /\ (n + 1) - 1 = n
    BY <1>0
  <2>2. Context(f[n], c, n, U) /\ f[n + 1] = UpdateStep(f[n], c[n + 1])
    BY <2>1, <1>2, <1>4
  <2>3. Context(UpdateStep(f[n], c[n + 1]), c, n + 1, U)
    BY <2>1, <2>2, UpdateContext
  <2> QED BY <2>2, <2>3
<1> HIDE DEF T
<1>5. \A n \in Nat : n \in T
  BY <1>3, <1>4, NumbersInSet
<1> QED BY <1>0, <1>1, <1>5 DEF T

LEMMA ZerosFacts ==
  ASSUME NEW U, 0 \in U, NEW n \in Nat
  PROVE  Zeros(n) \in Seq(U) /\ Len(Zeros(n)) = n /\ \A b \in 1 .. n : Zeros(n)[b] = 0
BY DEF Zeros

LEMMA ZerosJoined ==
  ASSUME NEW U, 0 \in U, NEW a \in Nat, NEW b \in Nat
  PROVE  Zeros(a) \o Zeros(b) = Zeros(a + b)
<1> DEFINE s == Zeros(a) \o Zeros(b)
           t == Zeros(a + b)
<1>1. /\ s \in Seq(U) /\ Len(s) = a + b
      /\ \A i \in 1 .. a + b : s[i] = IF i <= a THEN Zeros(a)[i] ELSE Zeros(b)[i - a]
  <2>1. Zeros(a) \in Seq(U) /\ Zeros(b) \in Seq(U) /\ Len(Zeros(a)) = a /\ Len(Zeros(b)) = b
    BY ZerosFacts
  <2> DEFINE u == Zeros(a)
             v == Zeros(b)
  <2> HIDE DEF u, v
  <2>2. /\ u \o v \in Seq(U) /\ Len(u \o v) = Len(u) + Len(v)
        /\ \A i \in 1 .. Len(u) + Len(v) : (u \o v)[i] = IF i <= Len(u) THEN u[i] ELSE v[i - Len(u)]
    BY <2>1, ConcatProperties DEF u, v
  <2>3. Len(u) = a /\ Len(v) = b
    BY <2>1 DEF u, v
  <2> QED BY <2>2, <2>3 DEF u, v
<1>2. t \in Seq(U) /\ Len(t) = a + b /\ \A i \in 1 .. a + b : t[i] = 0
  BY ZerosFacts
<1>3. ASSUME NEW i \in 1 .. a + b PROVE s[i] = 0
  <2>1. CASE i <= a
    <3>1. i \in 1 .. a
      BY <2>1
    <3> QED BY <3>1, <1>1, <2>1, ZerosFacts
  <2>2. CASE ~(i <= a)
    <3>1. i - a \in 1 .. b
      BY <2>2
    <3> QED BY <3>1, <1>1, <2>2, ZerosFacts
  <2> QED BY <2>1, <2>2
<1> HIDE DEF s, t
<1>4. s = t
  <2>1. \A i \in 1 .. Len(s) : s[i] = t[i]
    BY <1>1, <1>2, <1>3
  <2> QED BY <2>1, <1>1, <1>2, SeqEqual
<1> QED BY <1>4 DEF s, t

\* A remainder is 0 only for the multiples.
LEMMA OneNumberOfZeros ==
  ASSUME NEW m \in Nat, m > 0, NEW a \in Nat, NEW x \in 0 .. m - 1, NEW y \in 0 .. m - 1,
         (a + x) % m = 0, (a + y) % m = 0
  PROVE  x = y
<1> DEFINE p == (a + x) \div m
           q == (a + y) \div m
<1>1. p \in Int /\ q \in Int /\ a + x = m * p /\ a + y = m * q
  BY SMT
<1> HIDE DEF p, q
<1>2. ~(p > q)
  <2> SUFFICES ASSUME p > q PROVE FALSE
    OBVIOUS
  <2>1. m * p >= m * q + m
    BY <1>1, SMT
  <2> QED BY <2>1, <1>1
<1>3. ~(q > p)
  <2> SUFFICES ASSUME q > p PROVE FALSE
    OBVIOUS
  <2>1. m * q >= m * p + m
    BY <1>1, SMT
  <2> QED BY <2>1, <1>1
<1>4. p = q
  BY <1>1, <1>2, <1>3
<1> QED BY <1>1, <1>4

LEMMA MultipleFacts ==
  ASSUME NEW m \in Nat, m > 0, NEW n \in Nat
  PROVE  (m * n) % m = 0
<1> DEFINE q == (m * n) \div m
           r == (m * n) % m
<1>1. m * n \in Nat /\ q \in Int /\ r \in 0 .. m - 1 /\ m * n = m * q + r
  BY SMT
<1> HIDE DEF q, r
<1>2. ~(n > q)
  <2> SUFFICES ASSUME n > q PROVE FALSE
    OBVIOUS
  <2>1. m * n >= m * q + m
    BY <1>1, SMT
  <2> QED BY <2>1, <1>1
<1>3. ~(q > n)
  <2> SUFFICES ASSUME q > n PROVE FALSE
    OBVIOUS
  <2>1. m * q >= m * n + m
    BY <1>1, SMT
  <2> QED BY <2>1, <1>1
<1>4. q = n
  BY <1>1, <1>2, <1>3
<1>5. r = 0
  BY <1>1, <1>4
<1> QED BY <1>5 DEF r

LEMMA ZerosChosen ==
  ASSUME NEW n \in Nat, NEW z \in 0 .. BlockBytes - 1, NEW blocks \in Nat,
         n + 1 + z + LengthBytes = BlockBytes * blocks
  PROVE  z = CHOOSE x \in 0 .. BlockBytes - 1 : (n + 1 + x + LengthBytes) % BlockBytes = 0
<1>1. (n + 1 + z + LengthBytes) % BlockBytes = 0
  <2>1. BlockBytes \in Nat /\ BlockBytes > 0
    BY BlockFacts
  <2>2. (BlockBytes * blocks) % BlockBytes = 0
    BY <2>1, MultipleFacts
  <2> QED BY <2>2
<1> DEFINE w == CHOOSE x \in 0 .. BlockBytes - 1 : (n + 1 + x + LengthBytes) % BlockBytes = 0
<1>2. w \in 0 .. BlockBytes - 1 /\ (n + 1 + w + LengthBytes) % BlockBytes = 0
  BY <1>1
<1> HIDE DEF w
<1>3. z = w
  <2>1. /\ n + 1 + LengthBytes \in Nat /\ BlockBytes \in Nat /\ BlockBytes > 0
        /\ n + 1 + z + LengthBytes = (n + 1 + LengthBytes) + z
        /\ n + 1 + w + LengthBytes = (n + 1 + LengthBytes) + w
    BY <1>2, BlockFacts
  <2>2. ((n + 1 + LengthBytes) + z) % BlockBytes = 0 /\ ((n + 1 + LengthBytes) + w) % BlockBytes = 0
    BY <2>1, <1>1, <1>2
  <2> QED BY <2>1, <2>2, <1>2, OneNumberOfZeros
<1> QED BY <1>3 DEF w

LEMMA LengthFieldFacts ==
  ASSUME NEW U, NEW bits, \A b \in 1 .. LengthBytes : LengthField(bits)[b] \in U
  PROVE  LengthField(bits) \in Seq(U)
<1> DEFINE l == LengthField(bits)
<1>1. DOMAIN l = 1 .. LengthBytes /\ l = [b \in 1 .. LengthBytes |-> l[b]]
  BY DEF LengthField
<1> HIDE DEF l
<1>2. l \in [1 .. LengthBytes -> U]
  BY <1>1 DEF l
<1>3. l \in Seq(U)
  BY <1>2, BlockFacts, SeqDef
<1> QED BY <1>3 DEF l

\* The zeros when the mark and the length fit in the last block, and when not.
LEMMA OneBlock ==
  ASSUME NEW m \in Nat, NEW d \in Nat, NEW n \in Nat, BlockBytes * m + d = n,
         d < BlockBytes - LengthBytes,
         NEW z, z = (BlockBytes - LengthBytes) - (d + 1)
  PROVE  z \in Nat /\ z \in 0 .. BlockBytes - 1 /\ n + 1 + z + LengthBytes = BlockBytes * (m + 1)
<1>1. BlockBytes \in Nat /\ LengthBytes \in Nat
  BY BlockFacts
<1>2. BlockBytes * (m + 1) = BlockBytes * m + BlockBytes /\ BlockBytes * m \in Nat
  BY <1>1, SMT
<1> DEFINE x == BlockBytes * m
           w == BlockBytes * (m + 1)
<1>3. x \in Nat /\ w = x + BlockBytes /\ x + d = n
  BY <1>2
<1> HIDE DEF x, w
<1>4. z \in Nat /\ z \in 0 .. BlockBytes - 1 /\ n + 1 + z + LengthBytes = w
  BY <1>1, <1>3
<1> QED BY <1>4 DEF w

LEMMA TwoBlocks ==
  ASSUME NEW m \in Nat, NEW d \in Nat, NEW n \in Nat, BlockBytes * m + d = n,
         d < BlockBytes, ~(d < BlockBytes - LengthBytes),
         NEW y, y = BlockBytes - (d + 1), NEW room, room = BlockBytes - LengthBytes
  PROVE  /\ y \in Nat /\ room \in Nat /\ y + room \in 0 .. BlockBytes - 1
         /\ n + 1 + (y + room) + LengthBytes = BlockBytes * (m + 2)
<1>1. BlockBytes \in Nat /\ LengthBytes \in Nat /\ LengthBytes < BlockBytes
  BY BlockFacts
<1>2. BlockBytes * (m + 2) = BlockBytes * m + BlockBytes + BlockBytes /\ BlockBytes * m \in Nat
  BY <1>1, SMT
<1> DEFINE x == BlockBytes * m
           w == BlockBytes * (m + 2)
<1>3. x \in Nat /\ w = x + BlockBytes + BlockBytes /\ x + d = n
  BY <1>2
<1> HIDE DEF x, w
<1>4. /\ y \in Nat /\ room \in Nat /\ y + room \in 0 .. BlockBytes - 1
      /\ n + 1 + (y + room) + LengthBytes = w
  BY <1>1, <1>3
<1> QED BY <1>4 DEF w

LEMMA FinalLength ==
  ASSUME NEW U, 0 \in U, 128 \in U, NEW c, NEW n, NEW s, Context(s, c, n, U)
  PROVE  Len(Final(s)) \in Nat
<1>1. s.blocks \in Seq(Seq(U))
  BY DEF Context
<1>2. \A t \in Seq(Seq(U)) : Len(t) \in Nat
  BY LenProperties
<1> QED BY <1>1, <1>2 DEF Final, Transform

\* The blocks of Final, joined, are the message with its padding.
LEMMA FinalPads ==
  ASSUME NEW U, 0 \in U, 128 \in U, NEW c \in Seq(U),
         \A b \in 1 .. LengthBytes : LengthField(8 * Len(c))[b] \in U,
         NEW s, Context(s, c, Len(c), U),
         NEW g, g = Final(s), NEW f, Chain(g, Len(g), f), Len(g) \in Nat
  PROVE  f[Len(g)] = StandardPadded(c)
<1> DEFINE d == Len(s.data)
           m == Len(s.blocks)
           n == Len(c)
           L == LengthField(8 * n)
           mark == <<128>>
           room == BlockBytes - LengthBytes
           B == (s.data \o mark) \o Zeros(room - (d + 1)) \o L
           P == (s.data \o mark) \o Zeros(BlockBytes - (d + 1))
           Q == Zeros(room) \o L
<1>1. /\ s.blocks \in Seq(Seq(U)) /\ s.data \in Seq(U) /\ s.bitlen \in Nat
      /\ d < BlockBytes /\ s.bitlen + 8 * d = 8 * n /\ BlockBytes * m + d = n
      /\ d \in Nat /\ m \in Nat /\ n \in Nat
  BY LenProperties DEF Context
<1>2. /\ L \in Seq(U) /\ mark \in Seq(U) /\ s.data \o mark \in Seq(U)
      /\ Append(s.data, 128) = s.data \o mark /\ Len(Append(s.data, 128)) = d + 1
      /\ TotalLength(s) = L
  <2>1. L \in Seq(U)
    BY LengthFieldFacts
  <2>2. mark \in Seq(U)
    OBVIOUS
  <2>3. Append(s.data, 128) = s.data \o mark /\ Len(Append(s.data, 128)) = d + 1
    BY <1>1, AppendProperties, AppendIsConcat
  <2>4. s.data \o mark \in Seq(U)
    BY <1>1, <2>2, ConcatProperties
  <2>5. TotalLength(s) = L
    BY <1>1 DEF TotalLength
  <2> QED BY <2>1, <2>2, <2>3, <2>4, <2>5
<1>3. ASSUME NEW h, Chain(s.blocks, m, h)
      PROVE  h[m] \in Seq(U) /\ h[m] \o s.data = c
  BY <1>3, SubSeqFull DEF Context
<1>4. BlockBytes \in Nat /\ LengthBytes \in Nat /\ LengthBytes < BlockBytes /\ BlockBytes * m \in Nat
  <2>1. BlockBytes \in Nat /\ m \in Nat
    BY <1>1, BlockFacts
  <2>2. BlockBytes * m \in Nat
    BY <2>1, SMT
  <2> QED BY <2>2, BlockFacts
<1>5. ASSUME NEW z \in 0 .. BlockBytes - 1, NEW j \in Nat, n + 1 + z + LengthBytes = BlockBytes * j
      PROVE  StandardPadded(c) = ((c \o mark) \o Zeros(z)) \o L
  <2>1. z = CHOOSE x \in 0 .. BlockBytes - 1 : (n + 1 + x + LengthBytes) % BlockBytes = 0
    BY <1>1, <1>5, ZerosChosen
  <2> QED BY <2>1, Zenon DEF StandardPadded
<1>assoc. \A u, v, w \in Seq(U) : Assoc(u, v, w)
  BY Associative
<1>fits. Fits(s.data) <=> d < BlockBytes - LengthBytes
  BY DEF Fits
<1> HIDE DEF d, m, n, L, mark
<1>6. CASE Fits(s.data)
  <2> DEFINE z == room - (d + 1)
  <2>1. /\ z \in Nat /\ z \in 0 .. BlockBytes - 1
        /\ n + 1 + z + LengthBytes = BlockBytes * (m + 1)
    BY <1>6, <1>1, <1>fits, OneBlock
  <2> HIDE DEF z
  <2>2. m + 1 \in Nat
    BY <1>1
  <2>3. StandardPadded(c) = ((c \o mark) \o Zeros(z)) \o L
    BY <2>1, <2>2, <1>5, Zenon
  <2> DEFINE A == ((s.data \o mark) \o Zeros(z)) \o L
  <2>4. Zeros(z) \in Seq(U) /\ A \in Seq(U)
    BY <1>2, <2>1, ZerosFacts, ConcatProperties
  <2>5. g = Append(s.blocks, A)
    BY <1>2, <1>6 DEF Final, Transform, z, mark, d
  <2> HIDE DEF A
  <2>6. Len(g) = m + 1
    BY <1>1, <2>4, <2>5, AppendProperties DEF m
  <2>7. Chain(s.blocks, m, f) /\ f[m + 1] = f[m] \o A
    BY <1>1, <2>4, <2>5, <2>6, ChainAppend DEF m
  <2>8. f[m] \o A = (((f[m] \o s.data) \o mark) \o Zeros(z)) \o L
    <3>1. f[m] \in Seq(U) /\ s.data \in Seq(U) /\ mark \in Seq(U) /\ Zeros(z) \in Seq(U) /\ L \in Seq(U)
      BY <1>1, <1>2, <1>3, <2>4, <2>7
    <3> DEFINE qr == s.data \o mark
               qrs == qr \o Zeros(z)
    <3>2. qr \in Seq(U) /\ qrs \in Seq(U)
      BY <3>1, ConcatProperties
    <3> HIDE DEF qr, qrs
    <3>3. Assoc(f[m], qrs, L) /\ Assoc(f[m], qr, Zeros(z)) /\ Assoc(f[m], s.data, mark)
      BY <3>1, <3>2, <1>assoc, Zenon
    <3>4. /\ (f[m] \o qrs) \o L = f[m] \o (qrs \o L)
          /\ (f[m] \o qr) \o Zeros(z) = f[m] \o (qr \o Zeros(z))
          /\ (f[m] \o s.data) \o mark = f[m] \o (s.data \o mark)
      BY <3>3, Zenon DEF Assoc
    <3> QED BY <3>4, Zenon DEF A, qr, qrs
  <2> QED BY <1>3, <2>3, <2>6, <2>7, <2>8
<1>7. CASE ~Fits(s.data)
  <2> DEFINE y == BlockBytes - (d + 1)
             z == y + room
  <2>1. /\ y \in Nat /\ room \in Nat /\ z \in 0 .. BlockBytes - 1
        /\ n + 1 + z + LengthBytes = BlockBytes * (m + 2)
    BY <1>7, <1>1, <1>fits, TwoBlocks
  <2>2. m + 2 \in Nat
    BY <1>1
  <2>3. StandardPadded(c) = ((c \o mark) \o Zeros(z)) \o L
    <3> HIDE DEF z
    <3> QED BY <2>1, <2>2, <1>5, Zenon
  <2>4. Zeros(z) = Zeros(y) \o Zeros(room)
    BY <2>1, ZerosJoined
  <2> HIDE DEF y, z, room
  <2> DEFINE A == (s.data \o mark) \o Zeros(y)
             C == Zeros(room) \o L
             h == Append(s.blocks, A)
  <2>5. Zeros(y) \in Seq(U) /\ Zeros(room) \in Seq(U) /\ A \in Seq(U) /\ C \in Seq(U)
    BY <1>2, <2>1, ZerosFacts, ConcatProperties
  <2>6. g = Append(h, C)
    BY <1>2, <1>7 DEF Final, Transform, y, room, mark, d, h
  <2> HIDE DEF A, C
  <2>7. h \in Seq(Seq(U)) /\ Len(h) = m + 1
    BY <1>1, <2>5, AppendProperties DEF m
  <2> HIDE DEF h
  <2>8. Len(g) = m + 2 /\ Len(g) = Len(h) + 1
    BY <1>1, <2>5, <2>6, <2>7, AppendProperties
  <2>9. Chain(h, m + 1, f) /\ f[m + 2] = f[m + 1] \o C
    <3>1. Chain(h, Len(h), f) /\ f[Len(h) + 1] = f[Len(h)] \o C
      BY <2>5, <2>6, <2>7, <2>8, ChainAppend
    <3>2. (m + 1) + 1 = m + 2
      BY <1>1
    <3> QED BY <3>1, <3>2, <2>7
  <2>10. Chain(s.blocks, m, f) /\ f[m + 1] = f[m] \o A
    BY <1>1, <2>5, <2>7, <2>9, ChainAppend DEF h, m
  <2>11. f[m] \in Seq(U) /\ f[m] \o s.data = c
    BY <1>3, <2>10
  <2>12. f[m] \o A = (c \o mark) \o Zeros(y) /\ c \o mark \in Seq(U)
    <3>1. f[m] \o A = (f[m] \o (s.data \o mark)) \o Zeros(y)
      <4>1. Assoc(f[m], s.data \o mark, Zeros(y))
        BY <1>2, <2>5, <2>11, <1>assoc, Zenon
      <4> QED BY <4>1, <2>11, Zenon DEF Assoc, A
    <3>2. f[m] \o (s.data \o mark) = c \o mark
      <4>1. Assoc(f[m], s.data, mark)
        BY <1>1, <1>2, <2>11, <1>assoc, Zenon
      <4> QED BY <4>1, <2>11, Zenon DEF Assoc
    <3>3. c \o mark \in Seq(U)
      BY <1>2, ConcatProperties
    <3> QED BY <3>1, <3>2, <3>3
  <2>13. ((c \o mark) \o Zeros(y)) \o C = ((c \o mark) \o Zeros(z)) \o L
    <3>1. ((c \o mark) \o Zeros(y)) \o Zeros(room) = (c \o mark) \o Zeros(z)
      <4> DEFINE p == c \o mark
                 zy == Zeros(y)
                 zr == Zeros(room)
      <4>1. p \in Seq(U) /\ zy \in Seq(U) /\ zr \in Seq(U) /\ zy \o zr = Zeros(z)
        BY <2>4, <2>5, <2>12
      <4> HIDE DEF p, zy, zr
      <4>2. (p \o zy) \o zr = p \o (zy \o zr)
        <5>1. Assoc(p, zy, zr)
          BY <4>1, <1>assoc, Zenon
        <5> QED BY <5>1, Zenon DEF Assoc
      <4> QED BY <4>1, <4>2, Zenon DEF p, zy, zr
    <3>2. (c \o mark) \o Zeros(y) \in Seq(U)
      BY <2>5, <2>12, ConcatProperties
    <3>3. ((c \o mark) \o Zeros(y)) \o (Zeros(room) \o L)
            = (((c \o mark) \o Zeros(y)) \o Zeros(room)) \o L
      <4>1. Assoc((c \o mark) \o Zeros(y), Zeros(room), L)
        BY <1>2, <2>5, <3>2, <1>assoc, Zenon
      <4> QED BY <4>1, Zenon DEF Assoc
    <3> QED BY <3>1, <3>3 DEF C
  <2> QED BY <2>3, <2>8, <2>9, <2>10, <2>12, <2>13
<1> QED BY <1>6, <1>7

\* The padding that sha256_update and sha256_final make is the standard's,
\* whatever the length of the chunk.
THEOREM StandardPaddingHolds == Spec => []StandardPadding
<1>1. ASSUME PInv PROVE StandardPadding
  <2>1. log \in Seq(LogEntry)
    BY <1>1 DEF PInv, Types
  <2>2. ASSUME NEW c \in Seq(Byte)
        PROVE  LET joined[n \in 0 .. Len(Fingerprint(c))] ==
                     IF n = 0 THEN <<>> ELSE joined[n - 1] \o Fingerprint(c)[n]
               IN joined[Len(Fingerprint(c))] = StandardPadded(c)
    <3> DEFINE g == Fingerprint(c)
               Rec(f) == f = [n \in 0 .. Len(g) |->
                                IF n = 0 THEN <<>> ELSE f[n - 1] \o g[n]]
               h == CHOOSE f : Rec(f)
               U == Byte \cup {0, 128}
                      \cup {LengthField(8 * Len(c))[b] : b \in 1 .. LengthBytes}
    <3>1. c \in Seq(U)
      BY <2>2, SeqDef
    <3>2. Context(Update(c), c, Len(c), U)
      BY <3>1, UpdatedContext
    <3>3. Len(g) \in Nat
      BY <3>1, <3>2, FinalLength DEF Fingerprint
    <3>4. \E f : Rec(f)
      BY <3>3, JoinedExist, Zenon DEF Joined
    <3>5. Rec(h)
      BY <3>4, Zenon
    <3> HIDE DEF h
    <3>6. Chain(g, Len(g), h)
      <4> HIDE DEF g
      <4>1. \A n \in 0 .. Len(g) : h[n] = IF n = 0 THEN <<>> ELSE h[n - 1] \o g[n]
        BY <3>5
      <4>2. 0 \in 0 .. Len(g) /\ \A n \in 1 .. Len(g) : n \in 0 .. Len(g) /\ n # 0
        BY <3>3
      <4> QED BY <4>1, <4>2 DEF Chain
    <3>7. h[Len(g)] = StandardPadded(c)
      BY <3>1, <3>2, <3>3, <3>6, FinalPads DEF Fingerprint
    <3> QED BY <3>7 DEF h
  <2>3. \A n \in DOMAIN log : log[n].chunk \in Seq(Byte)
    <3>1. \A n \in DOMAIN log : log[n] \in LogEntry
      BY <2>1, LenProperties, ElementOfSeq
    <3> QED BY <3>1 DEF LogEntry
  <2> QED BY <2>2, <2>3 DEF StandardPadding
<1> QED BY <1>1, Invariance, PTL

-----------------------------------------------------------------------------
(* The memories of the software coder *)

SlotValue == 0 .. CodeSpace - 1
Entry == [key : Keys, value : SlotValue]

LEMMA CoderConstants ==
  /\ Radix \in Nat /\ Radix > 0 /\ CodeSpace \in Nat /\ CodeSpace >= Radix /\ KeySpace \in Nat
  /\ LowSpace \in Nat /\ LowSpace > 0 /\ MiddleSpace \in Nat /\ MiddleSpace > 0
  /\ Ways \in Nat /\ Store \in Nat /\ Width \in Nat
  /\ Hash \in [Keys -> Buckets]
  BY SoftwareLZWAssumption, SMT DEF KeySpace

LEMMA KeyFits ==
  ASSUME NEW p \in SlotValue, NEW c \in Byte
  PROVE  KeyOf(p, c) = Radix * p + c /\ KeyOf(p, c) \in Keys
<1>1. p \in Nat /\ c \in Nat /\ c < Radix /\ p + 1 <= CodeSpace /\ Radix \in Nat /\ CodeSpace \in Nat
  BY CoderConstants DEF SlotValue, Byte
<1>2. Radix * p + Radix <= Radix * CodeSpace /\ Radix * p \in Nat /\ Radix * CodeSpace \in Nat
  <2>1. PICK z \in Nat : CodeSpace = (p + 1) + z
    BY <1>1, CodeSpace = (p + 1) + (CodeSpace - (p + 1)), CodeSpace - (p + 1) \in Nat
  <2>2. Radix * CodeSpace = Radix * p + Radix + Radix * z /\ Radix * z \in Nat /\ Radix * p \in Nat
    BY <1>1, <2>1, SMT
  <2> QED BY <1>1, <2>2
<1>3. Radix * CodeSpace = KeySpace /\ p * Radix = Radix * p
  BY <1>1, SMT DEF KeySpace
<1> DEFINE y == Radix * p
           z == Radix * CodeSpace
<1>4. y \in Nat /\ z \in Nat /\ y + Radix <= z /\ KeySpace = z /\ p * Radix = y
  BY <1>2, <1>3
<1> HIDE DEF y, z
<1>5. y + c \in 0 .. z - 1 /\ (y + c) % z = y + c
  BY <1>1, <1>4
<1> QED BY <1>4, <1>5 DEF KeyOf, Keys, y

LEMMA KeysDiffer ==
  ASSUME NEW p \in SlotValue, NEW c \in Byte, NEW q \in SlotValue, NEW d \in Byte,
         KeyOf(p, c) = KeyOf(q, d)
  PROVE  p = q /\ c = d
<1>1. Radix * p + c = Radix * q + d
  BY KeyFits
<1>2. p \in Int /\ q \in Int /\ Radix \in Nat /\ Radix > 0 /\ c \in 0 .. Radix - 1 /\ d \in 0 .. Radix - 1
  BY CoderConstants DEF SlotValue, Byte
<1>3. /\ (Radix * p + c) \div Radix = p /\ (Radix * p + c) % Radix = c
      /\ (Radix * q + d) \div Radix = q /\ (Radix * q + d) % Radix = d
  BY <1>2, DivisionUnique
<1> QED BY <1>1, <1>3, Zenon

\* The three segments are the whole key.
LEMMA SegmentsDiffer ==
  ASSUME NEW x \in Keys, NEW y \in Keys,
         High(x) = High(y), Middle(x) = Middle(y), Low(x) = Low(y)
  PROVE  x = y
<1>1. x \in Nat /\ y \in Nat
  BY CoderConstants DEF Keys
<1>2. /\ x = LowSpace * (x \div LowSpace) + (x % LowSpace) /\ x \div LowSpace \in Nat
      /\ y = LowSpace * (y \div LowSpace) + (y % LowSpace) /\ y \div LowSpace \in Nat
  BY <1>1, CoderConstants, DivisionBounds
<1> DEFINE xq == x \div LowSpace
           yq == y \div LowSpace
<1>3. xq \in Nat /\ yq \in Nat
  BY <1>2
<1>4. xq \div MiddleSpace = yq \div MiddleSpace /\ xq % MiddleSpace = yq % MiddleSpace
  BY DEF High, Middle
<1> HIDE DEF xq, yq
<1>5. /\ xq = MiddleSpace * (xq \div MiddleSpace) + (xq % MiddleSpace)
      /\ yq = MiddleSpace * (yq \div MiddleSpace) + (yq % MiddleSpace)
  BY <1>3, CoderConstants, DivisionBounds
<1>6. xq = yq
  BY <1>4, <1>5, Zenon
<1>7. x = LowSpace * xq + Low(x) /\ y = LowSpace * yq + Low(y)
  BY <1>2 DEF Low, xq, yq
<1> QED BY <1>6, <1>7, Zenon

\* A memory is a record of its parts; fill goes on counting beyond an int's bits.
Shape(m) ==
  /\ DOMAIN m = {"table", "upper", "middle", "lower", "value", "fill"}
  /\ m.fill \in Nat

Highs == {High(x) : x \in Keys}
Middles == {Middle(x) : x \in Keys}
Lows == {Low(x) : x \in Keys}

\* The associative memory holds the keys of at: each has its bit in the three
\* words of its segments and in no other, and is not in the hash table.
AssocHolds(m, at) ==
  /\ at \in [0 .. m.fill - 1 -> Keys]
  /\ m.upper = [a \in Highs |-> {s \in 0 .. m.fill - 1 : High(at[s]) = a}]
  /\ m.middle = [a \in Middles |-> {s \in 0 .. m.fill - 1 : Middle(at[s]) = a}]
  /\ m.lower = [a \in Lows |-> {s \in 0 .. m.fill - 1 : Low(at[s]) = a}]
  /\ \A s, t \in 0 .. m.fill - 1 : at[s] = at[t] => s = t
  /\ \A s \in 0 .. m.fill - 1 : HashHits(m, at[s]) = {}

\* A memory within the limits of an int.
Sound(m) ==
  /\ Shape(m) /\ m.fill <= Width /\ m.fill <= Store
  /\ m.table \in [Buckets -> Seq(Entry)]
  /\ m.value \in [0 .. Store - 1 -> SlotValue]
  /\ \A b \in Buckets : \A s, t \in 1 .. Len(m.table[b]) :
       m.table[b][s].key = m.table[b][t].key => s = t
  /\ \E at : AssocHolds(m, at)

LEMMA BucketFacts ==
  ASSUME NEW m, Sound(m), NEW x \in Keys
  PROVE  /\ Hash[x] \in Buckets /\ Bucket(m, x) \in Seq(Entry) /\ Len(Bucket(m, x)) \in Nat
         /\ DOMAIN Bucket(m, x) = 1 .. Len(Bucket(m, x))
         /\ HashHits(m, x) = {s \in 1 .. Len(Bucket(m, x)) : Bucket(m, x)[s].key = x}
         /\ \A s, t \in HashHits(m, x) : s = t
         /\ \A s \in HashHits(m, x) : Bucket(m, x)[s].value \in SlotValue
<1>1. Hash[x] \in Buckets
  BY CoderConstants
<1>2. Bucket(m, x) \in Seq(Entry)
  BY <1>1 DEF Sound, Bucket
<1>3. Len(Bucket(m, x)) \in Nat /\ DOMAIN Bucket(m, x) = 1 .. Len(Bucket(m, x))
  BY <1>2, LenProperties
<1>4. HashHits(m, x) = {s \in 1 .. Len(Bucket(m, x)) : Bucket(m, x)[s].key = x}
  BY <1>3 DEF HashHits
<1>5. \A s, t \in HashHits(m, x) : s = t
  <2>1. \A s, t \in 1 .. Len(m.table[Hash[x]]) :
          m.table[Hash[x]][s].key = m.table[Hash[x]][t].key => s = t
    BY <1>1 DEF Sound
  <2> QED BY <1>4, <2>1 DEF Bucket
<1>6. ASSUME NEW s \in HashHits(m, x) PROVE Bucket(m, x)[s].value \in SlotValue
  <2>1. Bucket(m, x)[s] \in Entry
    BY <1>2, <1>4, ElementOfSeq
  <2> QED BY <2>1 DEF Entry
<1> QED BY <1>1, <1>2, <1>3, <1>4, <1>5, <1>6

\* A match is the place of the key.
LEMMA MatchFacts ==
  ASSUME NEW m, Sound(m), NEW at, AssocHolds(m, at), NEW x \in Keys
  PROVE  Match(m, x) = {s \in 0 .. m.fill - 1 : at[s] = x}
<1>1. High(x) \in Highs /\ Middle(x) \in Middles /\ Low(x) \in Lows
  BY DEF Highs, Middles, Lows
<1>2. /\ m.upper[High(x)] = {s \in 0 .. m.fill - 1 : High(at[s]) = High(x)}
      /\ m.middle[Middle(x)] = {s \in 0 .. m.fill - 1 : Middle(at[s]) = Middle(x)}
      /\ m.lower[Low(x)] = {s \in 0 .. m.fill - 1 : Low(at[s]) = Low(x)}
  BY <1>1 DEF AssocHolds
<1>3. \A s \in 0 .. m.fill - 1 :
        High(at[s]) = High(x) /\ Middle(at[s]) = Middle(x) /\ Low(at[s]) = Low(x) => at[s] = x
  <2>1. \A s \in 0 .. m.fill - 1 : at[s] \in Keys
    BY DEF AssocHolds
  <2> QED BY <2>1, SegmentsDiffer
<1> QED BY <1>2, <1>3 DEF Match

LEMMA LeastSame ==
  ASSUME NEW S, NEW s \in Nat, S = {s}
  PROVE  Least(S) = s
BY s <= s DEF Least

LEMMA LookupValue ==
  ASSUME NEW m, Sound(m), NEW x \in Keys, Found(m, x)
  PROVE  Result(m, x) \in SlotValue
<1>1. CASE HashHits(m, x) # {}
  <2>1. PICK s : s \in HashHits(m, x)
    BY <1>1
  <2>2. HashHits(m, x) = {s} /\ s \in Nat
    BY <2>1, BucketFacts
  <2>3. Least(HashHits(m, x)) = s
    BY <2>2, LeastSame
  <2> QED BY <1>1, <2>1, <2>3, BucketFacts DEF Result
<1>2. CASE HashHits(m, x) = {}
  <2>1. PICK at : AssocHolds(m, at)
    BY DEF Sound
  <2>2. PICK s : s \in Match(m, x)
    BY <1>2 DEF Found
  <2>3. Match(m, x) = {t \in 0 .. m.fill - 1 : at[t] = x}
    BY <2>1, MatchFacts
  <2>4. Match(m, x) = {s} /\ s \in 0 .. m.fill - 1
    BY <2>1, <2>2, <2>3 DEF AssocHolds
  <2>5. m.fill \in Nat /\ m.fill <= Store /\ m.value \in [0 .. Store - 1 -> SlotValue]
    BY DEF Sound, Shape
  <2>6. s \in Nat /\ s \in 0 .. Store - 1
    BY <2>4, <2>5, CoderConstants
  <2>7. Least(Match(m, x)) = s
    BY <2>4, <2>6, LeastSame
  <2> QED BY <1>2, <2>5, <2>6, <2>7 DEF Result
<1> QED BY <1>1, <1>2

-----------------------------------------------------------------------------
(* What is put in is found *)

\* A key that is put in is found with its value, and all others as before.
Adds(m, n, key, v) ==
  /\ Found(n, key) /\ Result(n, key) = v
  /\ \A x \in Keys \ {key} : /\ Found(n, x) <=> Found(m, x)
                             /\ Found(m, x) => Result(n, x) = Result(m, x)

\* What the lookups see of a memory.
LEMMA LookupParts ==
  ASSUME NEW m, NEW n, NEW x, HashHits(n, x) = HashHits(m, x), Match(n, x) = Match(m, x),
         \A s \in HashHits(m, x) : Bucket(n, x)[s].value = Bucket(m, x)[s].value,
         \A s \in Match(m, x) : n.value[s] = m.value[s],
         \A s, t \in HashHits(m, x) : s = t, \A s, t \in Match(m, x) : s = t,
         HashHits(m, x) \subseteq Nat, Match(m, x) \subseteq Nat
  PROVE  /\ Found(n, x) <=> Found(m, x)
         /\ Found(m, x) => Result(n, x) = Result(m, x)
<1>1. Found(n, x) <=> Found(m, x)
  BY DEF Found
<1>2. ASSUME Found(m, x) PROVE Result(n, x) = Result(m, x)
  <2>1. CASE HashHits(m, x) # {}
    <3>1. PICK s : s \in HashHits(m, x)
      BY <2>1
    <3>2. HashHits(m, x) = {s} /\ s \in Nat
      BY <3>1
    <3>3. Least(HashHits(m, x)) = s
      BY <3>2, LeastSame
    <3>4. Result(n, x) = Bucket(n, x)[s].value /\ Result(m, x) = Bucket(m, x)[s].value
      BY <2>1, <3>3 DEF Result
    <3> QED BY <3>1, <3>4
  <2>2. CASE HashHits(m, x) = {}
    <3>1. PICK s : s \in Match(m, x)
      BY <1>2, <2>2 DEF Found
    <3>2. Match(m, x) = {s} /\ s \in Nat
      BY <3>1
    <3>3. Least(Match(m, x)) = s
      BY <3>2, LeastSame
    <3>4. Result(n, x) = n.value[s] /\ Result(m, x) = m.value[s]
      BY <2>2, <3>3 DEF Result
    <3> QED BY <3>1, <3>4
  <2> QED BY <2>1, <2>2
<1> QED BY <1>1, <1>2

LEMMA MatchSingle ==
  ASSUME NEW m, Sound(m), NEW x \in Keys
  PROVE  /\ Match(m, x) \subseteq 0 .. m.fill - 1 /\ \A s, t \in Match(m, x) : s = t
         /\ HashHits(m, x) \subseteq Nat /\ Match(m, x) \subseteq Nat
<1>1. PICK at : AssocHolds(m, at)
  BY DEF Sound
<1>2. Match(m, x) = {s \in 0 .. m.fill - 1 : at[s] = x}
  BY <1>1, MatchFacts
<1>3. m.fill \in Nat
  BY DEF Sound, Shape
<1>4. \A s, t \in Match(m, x) : s = t
  BY <1>1, <1>2 DEF AssocHolds
<1>5. HashHits(m, x) \subseteq Nat
  BY BucketFacts
<1> QED BY <1>2, <1>3, <1>4, <1>5

LEMMA HashInsertSound ==
  ASSUME NEW m, Sound(m), NEW key \in Keys, ~Found(m, key), HashHasRoom(m, key),
         NEW v \in SlotValue
  PROVE  /\ Sound(HashInserted(m, key, v)) /\ HashInserted(m, key, v).fill = m.fill
         /\ Adds(m, HashInserted(m, key, v), key, v)
<1> DEFINE n == HashInserted(m, key, v)
           h == Hash[key]
           old == m.table[h]
           entry == [key |-> key, value |-> v]
<1>1. v % CodeSpace = v
  BY CoderConstants DEF SlotValue
<1>2. Shape(m) /\ m.table \in [Buckets -> Seq(Entry)] /\ h \in Buckets
  BY CoderConstants DEF Sound
<1>3. n = [m EXCEPT !.table[h] = Append(old, entry)]
  BY <1>1 DEF HashInserted
<1>4. /\ n.table = [m.table EXCEPT ![h] = Append(old, entry)]
      /\ n.upper = m.upper /\ n.middle = m.middle /\ n.lower = m.lower
      /\ n.value = m.value /\ n.fill = m.fill /\ Shape(n)
  BY <1>2, <1>3 DEF Shape
<1> HIDE DEF n
<1>5. entry \in Entry /\ entry.key = key /\ entry.value = v
  BY DEF Entry
<1> DEFINE new == Append(old, entry)
           len == Len(old)
<1>6. old \in Seq(Entry) /\ len \in Nat /\ DOMAIN old = 1 .. len
  BY <1>2, LenProperties
<1>7. /\ new \in Seq(Entry) /\ Len(new) = len + 1 /\ new[len + 1] = entry
      /\ \A s \in 1 .. len : new[s] = old[s]
  BY <1>5, <1>6, AppendProperties
<1> HIDE DEF entry, new, len, old
<1>8. /\ n.table \in [Buckets -> Seq(Entry)] /\ n.table[h] = new
      /\ \A b \in Buckets \ {h} : n.table[b] = m.table[b]
  BY <1>2, <1>4, <1>7 DEF new
<1>9. HashHits(m, key) = {} /\ Match(m, key) = {}
  BY DEF Found
<1>10. \A s \in 1 .. len : old[s].key # key
  <2>1. HashHits(m, key) = {s \in 1 .. len : old[s].key = key}
    BY BucketFacts DEF Bucket, old, len
  <2> QED BY <2>1, <1>9
<1>11. ASSUME NEW b \in Buckets, NEW s \in 1 .. Len(n.table[b]), NEW t \in 1 .. Len(n.table[b]),
              n.table[b][s].key = n.table[b][t].key
       PROVE  s = t
  <2>1. CASE b # h
    BY <1>8, <1>11, <2>1 DEF Sound
  <2>2. CASE b = h
    <3>1. s \in 1 .. len + 1 /\ t \in 1 .. len + 1 /\ new[s].key = new[t].key
      BY <1>7, <1>8, <1>11, <2>2
    <3>2. CASE s \in 1 .. len /\ t \in 1 .. len
      <4>1. old[s].key = old[t].key
        BY <1>7, <3>1, <3>2
      <4> QED BY <1>2, <3>2, <4>1 DEF Sound, old, len
    <3>3. CASE s = len + 1 /\ t = len + 1
      BY <3>3
    <3>4. CASE s = len + 1 /\ t \in 1 .. len
      BY <1>5, <1>7, <1>10, <3>1, <3>4
    <3>5. CASE t = len + 1 /\ s \in 1 .. len
      BY <1>5, <1>7, <1>10, <3>1, <3>5
    <3> QED BY <1>6, <3>1, <3>2, <3>3, <3>4, <3>5
  <2> QED BY <2>1, <2>2
<1>12. ASSUME NEW x \in Keys, x # key
       PROVE  /\ HashHits(n, x) = HashHits(m, x)
              /\ \A s \in HashHits(m, x) : Bucket(n, x)[s] = Bucket(m, x)[s]
  <2>1. Hash[x] \in Buckets
    BY CoderConstants
  <2>2. CASE Hash[x] # h
    <3>1. Bucket(n, x) = Bucket(m, x)
      BY <1>8, <2>1, <2>2 DEF Bucket
    <3> QED BY <3>1 DEF HashHits
  <2>3. CASE Hash[x] = h
    <3>1. Bucket(n, x) = new /\ Bucket(m, x) = old
      BY <1>8, <2>3 DEF Bucket, old
    <3>2. DOMAIN new = 1 .. len + 1 /\ DOMAIN old = 1 .. len
      BY <1>6, <1>7, LenProperties
    <3>3. \A s \in 1 .. len + 1 : s = len + 1 \/ s \in 1 .. len
      BY <1>6
    <3>4. \A s \in 1 .. len : s \in 1 .. len + 1
      BY <1>6
    <3>5. HashHits(n, x) = HashHits(m, x)
      BY <1>5, <1>7, <1>12, <3>1, <3>2, <3>3, <3>4 DEF HashHits
    <3>6. \A s \in HashHits(m, x) : s \in 1 .. len
      BY <3>1, <3>2 DEF HashHits
    <3> QED BY <1>7, <3>1, <3>5, <3>6
  <2> QED BY <2>2, <2>3
<1>13. \A x \in Keys : Match(n, x) = Match(m, x)
  BY <1>4 DEF Match
<1>14. PICK at : AssocHolds(m, at)
  BY DEF Sound
<1>15. \A s \in 0 .. m.fill - 1 : at[s] \in Keys /\ at[s] # key
  <2>1. Match(m, key) = {s \in 0 .. m.fill - 1 : at[s] = key}
    BY <1>14, MatchFacts
  <2> QED BY <1>9, <1>14, <2>1 DEF AssocHolds
<1>16. AssocHolds(n, at)
  BY <1>4, <1>12, <1>14, <1>15 DEF AssocHolds
<1>17. Sound(n)
  BY <1>4, <1>8, <1>11, <1>16 DEF Sound
<1>18. Found(n, key) /\ Result(n, key) = v
  <2>1. Bucket(n, key) = new /\ DOMAIN new = 1 .. len + 1 /\ len + 1 \in Nat
    BY <1>6, <1>7, <1>8, LenProperties DEF Bucket
  <2>2. \A s \in 1 .. len + 1 : s = len + 1 \/ s \in 1 .. len
    BY <1>6
  <2>3. len + 1 \in 1 .. len + 1
    BY <1>6
  <2>4. HashHits(n, key) = {len + 1}
    BY <1>5, <1>7, <1>10, <2>1, <2>2, <2>3 DEF HashHits
  <2>5. Least(HashHits(n, key)) = len + 1
    BY <2>1, <2>4, LeastSame
  <2> QED BY <1>5, <1>7, <2>1, <2>4, <2>5 DEF Found, Result
<1>19. ASSUME NEW x \in Keys \ {key}
       PROVE  /\ Found(n, x) <=> Found(m, x)
              /\ Found(m, x) => Result(n, x) = Result(m, x)
  <2>1. /\ HashHits(n, x) = HashHits(m, x) /\ Match(n, x) = Match(m, x)
        /\ \A s \in HashHits(m, x) : Bucket(n, x)[s].value = Bucket(m, x)[s].value
        /\ \A s \in Match(m, x) : n.value[s] = m.value[s]
    BY <1>4, <1>12, <1>13
  <2>2. /\ \A s, t \in HashHits(m, x) : s = t
        /\ \A s, t \in Match(m, x) : s = t
        /\ HashHits(m, x) \subseteq Nat /\ Match(m, x) \subseteq Nat
    BY BucketFacts, MatchSingle
  <2> QED BY <2>1, <2>2, LookupParts
<1> QED BY <1>4, <1>17, <1>18, <1>19 DEF Adds, n

LEMMA WordUpdated ==
  ASSUME NEW W, NEW u, NEW r, NEW h \in W, NEW x, u = [a \in W |-> u[a]],
         r = [a \in W |-> r[a]], r[h] = x, \A a \in W \ {h} : r[a] = u[a]
  PROVE  [u EXCEPT ![h] = x] = r
<1> DEFINE w == [u EXCEPT ![h] = x]
<1>1. w = [a \in W |-> w[a]]
  BY SMT
<1>2. \A a \in W : w[a] = r[a]
  BY SMT
<1> HIDE DEF w
<1>3. [a \in W |-> w[a]] = [a \in W |-> r[a]]
  BY <1>2, Zenon
<1>4. w = r
  BY <1>1, <1>3, Zenon
<1> QED BY <1>4 DEF w

LEMMA AssocInsertSound ==
  ASSUME NEW m, Sound(m), NEW key \in Keys, ~Found(m, key), AssocHasRoom(m), m.fill < Width,
         NEW v \in SlotValue, NEW undefined
  PROVE  /\ Sound(AssocInserted(m, key, v, undefined))
         /\ AssocInserted(m, key, v, undefined).fill = m.fill + 1
         /\ Adds(m, AssocInserted(m, key, v, undefined), key, v)
<1> DEFINE n == AssocInserted(m, key, v, undefined)
           f == m.fill
           hi == High(key)
           mi == Middle(key)
           lo == Low(key)
<1>1. v % CodeSpace = v /\ Bits(f, undefined) = {f}
  BY CoderConstants DEF SlotValue, Bits
<1>2. /\ Shape(m) /\ f \in Nat /\ f < Store /\ f < Width
      /\ m.table \in [Buckets -> Seq(Entry)] /\ m.value \in [0 .. Store - 1 -> SlotValue]
  BY DEF Sound, Shape, AssocHasRoom
<1>3. n = [m EXCEPT !.upper[hi] = m.upper[hi] \cup {f}, !.middle[mi] = m.middle[mi] \cup {f},
                    !.lower[lo] = m.lower[lo] \cup {f}, !.value[f] = v, !.fill = f + 1]
  BY <1>1 DEF AssocInserted
<1>4. /\ n.table = m.table
      /\ n.upper = [m.upper EXCEPT ![hi] = m.upper[hi] \cup {f}]
      /\ n.middle = [m.middle EXCEPT ![mi] = m.middle[mi] \cup {f}]
      /\ n.lower = [m.lower EXCEPT ![lo] = m.lower[lo] \cup {f}]
      /\ n.value = [m.value EXCEPT ![f] = v] /\ n.fill = f + 1
      /\ Shape(n)
  BY <1>2, <1>3 DEF Shape
<1> HIDE DEF n
<1>5. HashHits(m, key) = {} /\ Match(m, key) = {}
  BY DEF Found
<1>6. PICK at : AssocHolds(m, at)
  BY DEF Sound
<1> DEFINE at2 == [s \in 0 .. f |-> IF s = f THEN key ELSE at[s]]
<1>7. /\ \A s \in 0 .. f - 1 : at[s] \in Keys /\ at[s] # key
      /\ \A s, t \in 0 .. f - 1 : at[s] = at[t] => s = t
      /\ \A s \in 0 .. f - 1 : HashHits(m, at[s]) = {}
      /\ m.upper = [a \in Highs |-> {s \in 0 .. f - 1 : High(at[s]) = a}]
      /\ m.middle = [a \in Middles |-> {s \in 0 .. f - 1 : Middle(at[s]) = a}]
      /\ m.lower = [a \in Lows |-> {s \in 0 .. f - 1 : Low(at[s]) = a}]
  <2>1. Match(m, key) = {s \in 0 .. f - 1 : at[s] = key}
    BY <1>6, MatchFacts
  <2> QED BY <1>5, <1>6, <2>1 DEF AssocHolds
<1> HIDE DEF f
<1>8. /\ \A s \in 0 .. f : s = f \/ s \in 0 .. f - 1
      /\ \A s \in 0 .. f - 1 : s \in 0 .. f /\ s # f
      /\ f \in 0 .. f /\ (f + 1) - 1 = f
  BY <1>2
<1>9. /\ at2 \in [0 .. f -> Keys] /\ at2[f] = key
      /\ \A s \in 0 .. f - 1 : at2[s] = at[s]
  BY <1>7, <1>8
<1> HIDE DEF at2
<1>10. hi \in Highs /\ mi \in Middles /\ lo \in Lows
  BY DEF Highs, Middles, Lows
<1>11. n.upper = [a \in Highs |-> {s \in 0 .. f : High(at2[s]) = a}]
  <2>1. \A a \in Highs \ {hi} :
          {s \in 0 .. f - 1 : High(at[s]) = a} = {s \in 0 .. f : High(at2[s]) = a}
    BY <1>8, <1>9
  <2>2. {s \in 0 .. f - 1 : High(at[s]) = hi} \cup {f} = {s \in 0 .. f : High(at2[s]) = hi}
    BY <1>8, <1>9
  <2> DEFINE r == [a \in Highs |-> {s \in 0 .. f : High(at2[s]) = a}]
             u == m.upper
             x == u[hi] \cup {f}
  <2>3. /\ u = [a \in Highs |-> u[a]] /\ r = [a \in Highs |-> r[a]]
        /\ r[hi] = x /\ \A a \in Highs \ {hi} : r[a] = u[a]
    BY <1>7, <1>10, <2>1, <2>2
  <2>4. n.upper = [u EXCEPT ![hi] = x]
    BY <1>4
  <2> HIDE DEF r, u, x, hi
  <2>5. n.upper = r
    BY <1>10, <2>3, <2>4, WordUpdated
  <2> QED BY <2>5 DEF r
<1>12. n.middle = [a \in Middles |-> {s \in 0 .. f : Middle(at2[s]) = a}]
  <2>1. \A a \in Middles \ {mi} :
          {s \in 0 .. f - 1 : Middle(at[s]) = a} = {s \in 0 .. f : Middle(at2[s]) = a}
    BY <1>8, <1>9
  <2>2. {s \in 0 .. f - 1 : Middle(at[s]) = mi} \cup {f} = {s \in 0 .. f : Middle(at2[s]) = mi}
    BY <1>8, <1>9
  <2> DEFINE r == [a \in Middles |-> {s \in 0 .. f : Middle(at2[s]) = a}]
             u == m.middle
             x == u[mi] \cup {f}
  <2>3. /\ u = [a \in Middles |-> u[a]] /\ r = [a \in Middles |-> r[a]]
        /\ r[mi] = x /\ \A a \in Middles \ {mi} : r[a] = u[a]
    BY <1>7, <1>10, <2>1, <2>2
  <2>4. n.middle = [u EXCEPT ![mi] = x]
    BY <1>4
  <2> HIDE DEF r, u, x, mi
  <2>5. n.middle = r
    BY <1>10, <2>3, <2>4, WordUpdated
  <2> QED BY <2>5 DEF r
<1>13. n.lower = [a \in Lows |-> {s \in 0 .. f : Low(at2[s]) = a}]
  <2>1. \A a \in Lows \ {lo} :
          {s \in 0 .. f - 1 : Low(at[s]) = a} = {s \in 0 .. f : Low(at2[s]) = a}
    BY <1>8, <1>9
  <2>2. {s \in 0 .. f - 1 : Low(at[s]) = lo} \cup {f} = {s \in 0 .. f : Low(at2[s]) = lo}
    BY <1>8, <1>9
  <2> DEFINE r == [a \in Lows |-> {s \in 0 .. f : Low(at2[s]) = a}]
             u == m.lower
             x == u[lo] \cup {f}
  <2>3. /\ u = [a \in Lows |-> u[a]] /\ r = [a \in Lows |-> r[a]]
        /\ r[lo] = x /\ \A a \in Lows \ {lo} : r[a] = u[a]
    BY <1>7, <1>10, <2>1, <2>2
  <2>4. n.lower = [u EXCEPT ![lo] = x]
    BY <1>4
  <2> HIDE DEF r, u, x, lo
  <2>5. n.lower = r
    BY <1>10, <2>3, <2>4, WordUpdated
  <2> QED BY <2>5 DEF r
<1>14. \A x \in Keys : HashHits(n, x) = HashHits(m, x) /\ Bucket(n, x) = Bucket(m, x)
  BY <1>4 DEF HashHits, Bucket
<1>15. AssocHolds(n, at2)
  <2>1. \A s, t \in 0 .. f : at2[s] = at2[t] => s = t
    BY <1>7, <1>8, <1>9
  <2>2. \A s \in 0 .. f : HashHits(n, at2[s]) = {}
    BY <1>5, <1>7, <1>8, <1>9, <1>14
  <2>3. 0 .. n.fill - 1 = 0 .. f
    BY <1>4, <1>8
  <2> QED BY <1>9, <1>11, <1>12, <1>13, <2>1, <2>2, <2>3 DEF AssocHolds
<1>16. n.value \in [0 .. Store - 1 -> SlotValue] /\ n.value[f] = v
       /\ \A s \in 0 .. f - 1 : n.value[s] = m.value[s]
  <2>1. f \in 0 .. Store - 1 /\ \A s \in 0 .. f - 1 : s \in 0 .. Store - 1 /\ s # f
    BY <1>2, CoderConstants
  <2> QED BY <1>2, <1>4, <2>1
<1>17. Sound(n)
  <2>1. n.fill <= Width /\ n.fill <= Store
    BY <1>2, <1>4, CoderConstants
  <2> QED BY <1>2, <1>4, <1>15, <1>16, <2>1 DEF Sound
<1>18. ASSUME NEW x \in Keys PROVE Match(n, x) = {s \in 0 .. f : at2[s] = x}
  <2>1. Match(n, x) = {s \in 0 .. n.fill - 1 : at2[s] = x}
    BY <1>15, <1>17, MatchFacts
  <2> QED BY <1>4, <1>8, <2>1
<1>19. Found(n, key) /\ Result(n, key) = v
  <2>1. Match(n, key) = {f}
    BY <1>7, <1>8, <1>9, <1>18
  <2>2. Least(Match(n, key)) = f
    BY <1>2, <2>1, LeastSame
  <2>3. HashHits(n, key) = {}
    BY <1>5, <1>14
  <2> QED BY <1>16, <2>1, <2>2, <2>3 DEF Found, Result
<1>20. ASSUME NEW x \in Keys \ {key}
       PROVE  /\ Found(n, x) <=> Found(m, x)
              /\ Found(m, x) => Result(n, x) = Result(m, x)
  <2>0. Match(m, x) = {s \in 0 .. f - 1 : at[s] = x}
    BY <1>6, MatchFacts DEF f
  <2>1. Match(n, x) = Match(m, x)
    BY <1>8, <1>9, <1>18, <2>0
  <2>2. /\ \A s, t \in HashHits(m, x) : s = t
        /\ \A s, t \in Match(m, x) : s = t
        /\ HashHits(m, x) \subseteq Nat /\ Match(m, x) \subseteq Nat
    BY BucketFacts, MatchSingle
  <2>3. \A s \in Match(m, x) : n.value[s] = m.value[s]
    BY <1>16, <2>0
  <2> QED BY <1>14, <2>1, <2>2, <2>3, LookupParts
<1> QED BY <1>4, <1>17, <1>19, <1>20 DEF Adds, n, f

\* insert, as far as the limits are kept
LEMMA InsertSound ==
  ASSUME NEW m, Sound(m), NEW key \in Keys, ~Found(m, key), ~Collides(m, key),
         NEW v \in SlotValue, NEW undefined, Inserted(m, key, v, undefined).fill <= Width
  PROVE  /\ Sound(Inserted(m, key, v, undefined))
         /\ Adds(m, Inserted(m, key, v, undefined), key, v)
<1>1. CASE HashHasRoom(m, key)
  <2>1. Inserted(m, key, v, undefined) = HashInserted(m, key, v)
    BY <1>1 DEF Inserted
  <2> QED BY <1>1, <2>1, HashInsertSound
<1>2. CASE ~HashHasRoom(m, key)
  <2>1. AssocHasRoom(m) /\ Inserted(m, key, v, undefined) = AssocInserted(m, key, v, undefined)
    BY <1>2 DEF Inserted, Collides
  <2>2. AssocInserted(m, key, v, undefined).fill = m.fill + 1 /\ m.fill \in Nat
    BY DEF AssocInserted, Sound, Shape
  <2>3. m.fill < Width
    BY <2>1, <2>2, CoderConstants
  <2> QED BY <2>1, <2>3, AssocInsertSound
<1> QED BY <1>1, <1>2

\* Whatever is inserted, a memory keeps its parts and fill does not go down.
LEMMA InsertShape ==
  ASSUME NEW m, Shape(m), NEW key, NEW v, NEW undefined
  PROVE  Shape(Inserted(m, key, v, undefined)) /\ m.fill <= Inserted(m, key, v, undefined).fill
<1>1. CASE HashHasRoom(m, key)
  <2>1. Inserted(m, key, v, undefined)
          = [m EXCEPT !.table[Hash[key]] = Append(@, [key |-> key, value |-> v % CodeSpace])]
    BY <1>1 DEF Inserted, HashInserted
  <2> QED BY <2>1 DEF Shape
<1>2. CASE ~HashHasRoom(m, key) /\ AssocHasRoom(m)
  <2> DEFINE bits == Bits(m.fill, undefined)
             w == v % CodeSpace
             hi == High(key)
             mi == Middle(key)
             lo == Low(key)
  <2>1. Inserted(m, key, v, undefined)
          = [m EXCEPT !.upper[hi] = @ \cup bits, !.middle[mi] = @ \cup bits,
                      !.lower[lo] = @ \cup bits, !.value[m.fill] = w, !.fill = @ + 1]
    BY <1>2, Zenon DEF Inserted, AssocInserted
  <2> HIDE DEF bits, w, hi, mi, lo
  <2> QED BY <2>1 DEF Shape
<1>3. CASE ~HashHasRoom(m, key) /\ ~AssocHasRoom(m)
  <2>1. Inserted(m, key, v, undefined) = m
    BY <1>3 DEF Inserted
  <2> QED BY <2>1 DEF Shape
<1> QED BY <1>1, <1>2, <1>3

-----------------------------------------------------------------------------
(* The memories with the first codes *)

PrefillFrom(u, m, n) == Inserted(m, KeyOf(n - 1, 0), n - 1, u)

PrefillStates(u, z, f) ==
  f = [n \in 0 .. z |-> IF n = 0 THEN Cleared ELSE PrefillFrom(u, f[n - 1], n)]

LEMMA PrefillStatesExist ==
  ASSUME NEW u
  PROVE  \A z \in Nat : \E f : PrefillStates(u, z, f)
<1> DEFINE T == {z \in Nat : \E f : PrefillStates(u, z, f)}
<1>1. 0 \in T
  <2> DEFINE f == [n \in 0 .. 0 |-> Cleared]
  <2>1. f = [n \in 0 .. 0 |-> IF n = 0 THEN Cleared ELSE PrefillFrom(u, f[n - 1], n)]
    OBVIOUS
  <2> QED BY <2>1 DEF PrefillStates
<1>2. ASSUME NEW z \in Nat, z \in T PROVE z + 1 \in T
  <2>1. PICK f : PrefillStates(u, z, f)
    BY <1>2
  <2> DEFINE g == [n \in 0 .. z + 1 |-> IF n = z + 1 THEN PrefillFrom(u, f[z], z + 1)
                                        ELSE f[n]]
  <2>2. ASSUME NEW n \in 0 .. z + 1
        PROVE  g[n] = IF n = 0 THEN Cleared ELSE PrefillFrom(u, g[n - 1], n)
    <3>1. \A j \in 0 .. z : f[j] = IF j = 0 THEN Cleared ELSE PrefillFrom(u, f[j - 1], j)
      BY <2>1 DEF PrefillStates
    <3>2. CASE n = z + 1
      <4>1. g[n - 1] = f[z] /\ n # 0 /\ g[n] = PrefillFrom(u, f[z], n)
        BY <3>2
      <4> QED BY <4>1
    <3>3. CASE n \in 0 .. z
      <4>1. g[n] = f[n] /\ (n # 0 => g[n - 1] = f[n - 1])
        BY <3>3
      <4> QED BY <3>1, <3>3, <4>1
    <3> QED BY <3>2, <3>3
  <2> HIDE DEF g
  <2>3. DOMAIN g = 0 .. z + 1 /\ g = [n \in 0 .. z + 1 |-> g[n]]
    BY DEF g
  <2>4. PrefillStates(u, z + 1, g)
    BY <2>2, <2>3 DEF PrefillStates
  <2> QED BY <2>4
<1> HIDE DEF T
<1>3. \A z \in Nat : z \in T
  BY <1>1, <1>2, NumbersInSet
<1> QED BY <1>3 DEF T

LEMMA PrefillEnd ==
  ASSUME NEW u
  PROVE  \E f : /\ f[0] = Cleared /\ \A n \in 1 .. Radix : f[n] = PrefillFrom(u, f[n - 1], n)
                /\ Prefilled(u) = f[Radix]
<1> DEFINE Rec(f) ==
      f = [n \in 0 .. Radix |->
             IF n = 0 THEN Cleared ELSE Inserted(f[n - 1], KeyOf(n - 1, 0), n - 1, u)]
           h == CHOOSE f : Rec(f)
<1>1. \E f : Rec(f)
  BY CoderConstants, PrefillStatesExist DEF PrefillStates, PrefillFrom
<1>2. Rec(h)
  BY <1>1, Zenon
<1>3. Prefilled(u) = h[Radix]
  BY DEF Prefilled
<1> HIDE DEF h
<1>4. \A n \in 0 .. Radix : h[n] = IF n = 0 THEN Cleared ELSE PrefillFrom(u, h[n - 1], n)
  BY <1>2 DEF PrefillFrom
<1>5. h[0] = Cleared
  BY <1>4, CoderConstants
<1>6. \A n \in 1 .. Radix : h[n] = PrefillFrom(u, h[n - 1], n)
  BY <1>4, CoderConstants
<1> QED BY <1>3, <1>5, <1>6

LEMMA ClearedSound ==
  Sound(Cleared) /\ \A x \in Keys : ~Found(Cleared, x)
<1> DEFINE m == Cleared
<1>1. /\ DOMAIN m = {"table", "upper", "middle", "lower", "value", "fill"}
      /\ m.table = [b \in Buckets |-> <<>>] /\ m.upper = [a \in Highs |-> {}]
      /\ m.middle = [a \in Middles |-> {}] /\ m.lower = [a \in Lows |-> {}]
      /\ m.value = [s \in 0 .. Store - 1 |-> 0] /\ m.fill = 0
  BY DEF Cleared, Highs, Middles, Lows
<1> HIDE DEF m
<1>2. m.table \in [Buckets -> Seq(Entry)]
  BY <1>1
<1>3. m.value \in [0 .. Store - 1 -> SlotValue]
  BY <1>1, CoderConstants DEF SlotValue
<1>4. \A b \in Buckets : \A s, t \in 1 .. Len(m.table[b]) :
        m.table[b][s].key = m.table[b][t].key => s = t
  BY <1>1
<1>5. \A x \in Keys : HashHits(m, x) = {}
  BY <1>1, CoderConstants DEF HashHits, Bucket
<1>6. 0 .. m.fill - 1 = {}
  BY <1>1
<1> DEFINE at == [s \in {} |-> 0]
<1>7. AssocHolds(m, at)
  BY <1>1, <1>6 DEF AssocHolds
<1>8. Sound(m)
  BY <1>1, <1>2, <1>3, <1>4, <1>7, CoderConstants DEF Sound, Shape
<1>9. \A x \in Keys : Match(m, x) = {}
  BY <1>6, <1>8, MatchSingle
<1> QED BY <1>5, <1>8, <1>9 DEF Found, m

\* What is found after the first n bytes.
FilledTo(m, n) ==
  /\ Shape(m)
  /\ m.fill <= Width => /\ Sound(m)
                        /\ \A x \in Keys : Found(m, x) => \E i \in 0 .. n - 1 : x = KeyOf(i, 0)

LEMMA FillStep ==
  ASSUME NEW n \in 0 .. Radix - 1, NEW m, FilledTo(m, n), NEW u
  PROVE  FilledTo(Inserted(m, KeyOf(n, 0), n, u), n + 1)
<1> DEFINE x == KeyOf(n, 0)
           m2 == Inserted(m, x, n, u)
<1>1. n \in SlotValue /\ 0 \in Byte /\ n \in Nat
  BY CoderConstants DEF SlotValue, Byte
<1>2. x \in Keys
  BY <1>1, KeyFits
<1>3. Shape(m2) /\ m.fill <= m2.fill /\ m.fill \in Nat
  BY InsertShape DEF FilledTo, Shape
<1>4. ASSUME m2.fill <= Width
      PROVE  Sound(m2) /\ \A y \in Keys : Found(m2, y) => \E i \in 0 .. n : y = KeyOf(i, 0)
  <2>1. m.fill <= Width
    BY <1>3, <1>4, CoderConstants DEF Shape
  <2>2. Sound(m) /\ \A y \in Keys : Found(m, y) => \E i \in 0 .. n - 1 : y = KeyOf(i, 0)
    BY <2>1 DEF FilledTo
  <2>3. \A i \in 0 .. n - 1 : i \in SlotValue /\ i # n /\ i \in 0 .. n
    BY <1>1, CoderConstants DEF SlotValue
  <2>4. ~Found(m, x)
    <3> SUFFICES ASSUME Found(m, x) PROVE FALSE
      OBVIOUS
    <3>1. PICK i \in 0 .. n - 1 : KeyOf(n, 0) = KeyOf(i, 0)
      BY <1>2, <2>2
    <3> QED BY <1>1, <2>3, <3>1, KeysDiffer
  <2>5. CASE Collides(m, x)
    <3>1. m2 = m
      BY <2>5 DEF Inserted, Collides
    <3> QED BY <2>2, <2>3, <3>1
  <2>6. CASE ~Collides(m, x)
    <3>1. Sound(m2) /\ Adds(m, m2, x, n)
      BY <1>1, <1>2, <1>4, <2>2, <2>4, <2>6, InsertSound
    <3>2. \A y \in Keys : Found(m2, y) => y = x \/ Found(m, y)
      BY <3>1 DEF Adds
    <3>3. n \in 0 .. n
      BY <1>1
    <3> HIDE DEF m2
    <3> QED BY <2>2, <2>3, <3>1, <3>2, <3>3
  <2> QED BY <2>5, <2>6
<1>5. (n + 1) - 1 = n
  BY <1>1
<1> QED BY <1>3, <1>4, <1>5 DEF FilledTo

LEMMA PrefilledSound ==
  ASSUME NEW u
  PROVE  /\ Shape(Prefilled(u))
         /\ Prefilled(u).fill <= Width =>
              /\ Sound(Prefilled(u))
              /\ \A p \in SlotValue, c \in Byte \ {0} : ~Found(Prefilled(u), KeyOf(p, c))
<1>1. PICK f : /\ f[0] = Cleared /\ \A n \in 1 .. Radix : f[n] = PrefillFrom(u, f[n - 1], n)
               /\ Prefilled(u) = f[Radix]
  BY PrefillEnd
<1> DEFINE T == {n \in Nat : n <= Radix => FilledTo(f[n], n)}
<1>2. 0 \in T
  BY <1>1, ClearedSound DEF FilledTo, Sound
<1>3. ASSUME NEW n \in Nat, n \in T PROVE n + 1 \in T
  <2> SUFFICES ASSUME n + 1 <= Radix PROVE FilledTo(f[n + 1], n + 1)
    OBVIOUS
  <2>1. n \in 0 .. Radix - 1 /\ n + 1 \in 1 .. Radix /\ (n + 1) - 1 = n /\ n <= Radix
    BY CoderConstants
  <2>2. f[n + 1] = Inserted(f[n], KeyOf(n, 0), n, u)
    BY <1>1, <2>1 DEF PrefillFrom
  <2> QED BY <1>3, <2>1, <2>2, FillStep
<1> HIDE DEF T
<1>4. Radix \in T
  BY <1>2, <1>3, NumbersInSet, CoderConstants
<1>5. FilledTo(Prefilled(u), Radix)
  BY <1>1, <1>4, CoderConstants DEF T
<1>6. ASSUME Prefilled(u).fill <= Width, NEW p \in SlotValue, NEW c \in Byte \ {0}
      PROVE  ~Found(Prefilled(u), KeyOf(p, c))
  <2> SUFFICES ASSUME Found(Prefilled(u), KeyOf(p, c)) PROVE FALSE
    OBVIOUS
  <2>1. KeyOf(p, c) \in Keys
    BY KeyFits
  <2>2. PICK i \in 0 .. Radix - 1 : KeyOf(p, c) = KeyOf(i, 0)
    BY <1>5, <1>6, <2>1 DEF FilledTo
  <2>3. i \in SlotValue /\ 0 \in Byte
    BY CoderConstants DEF SlotValue, Byte
  <2> QED BY <2>2, <2>3, KeysDiffer
<1> QED BY <1>5, <1>6 DEF FilledTo

-----------------------------------------------------------------------------
(* The coder and the reference encoding *)

\* The dictionary behind the memories: its words have no zero byte but in
\* front, so the entries it begins with are none of its own.
DictPairs(m) == {q \in SlotValue \X (Byte \ {0}) : Found(m, KeyOf(q[1], q[2]))}

DictOf(m) == [q \in DictPairs(m) |-> Result(m, KeyOf(q[1], q[2]))]

LEMMA DictAdded ==
  ASSUME NEW p \in SlotValue, NEW c \in Byte \ {0}, NEW m, NEW n, NEW v,
         Adds(m, n, KeyOf(p, c), v)
  PROVE  DictOf(n) = [q \in DOMAIN DictOf(m) \cup {<<p, c>>} |->
                        IF q = <<p, c>> THEN v ELSE DictOf(m)[q]]
<1> DEFINE x == KeyOf(p, c)
<1>1. ASSUME NEW q \in SlotValue \X (Byte \ {0}), q # <<p, c>>
      PROVE  KeyOf(q[1], q[2]) \in Keys \ {x}
  <2>1. q[1] \in SlotValue /\ q[2] \in Byte /\ q = <<q[1], q[2]>>
    BY <1>1
  <2>2. KeyOf(q[1], q[2]) \in Keys
    BY <2>1, KeyFits
  <2>3. KeyOf(q[1], q[2]) = x => q[1] = p /\ q[2] = c
    BY <2>1, KeysDiffer
  <2> QED BY <1>1, <2>1, <2>2, <2>3
<1>2. <<p, c>> \in SlotValue \X (Byte \ {0}) /\ <<p, c>>[1] = p /\ <<p, c>>[2] = c
  OBVIOUS
<1>3. Found(n, x) /\ Result(n, x) = v
  BY DEF Adds
<1>4. ASSUME NEW q \in SlotValue \X (Byte \ {0}), q # <<p, c>>
      PROVE  /\ Found(n, KeyOf(q[1], q[2])) <=> Found(m, KeyOf(q[1], q[2]))
             /\ Found(m, KeyOf(q[1], q[2])) =>
                  Result(n, KeyOf(q[1], q[2])) = Result(m, KeyOf(q[1], q[2]))
  BY <1>1, <1>4 DEF Adds
<1>5. DictPairs(n) = DictPairs(m) \cup {<<p, c>>}
  BY <1>2, <1>3, <1>4 DEF DictPairs
<1>6. ASSUME NEW q \in DictPairs(n)
      PROVE  Result(n, KeyOf(q[1], q[2])) = IF q = <<p, c>> THEN v ELSE DictOf(m)[q]
  <2>1. CASE q = <<p, c>>
    BY <1>2, <1>3, <2>1
  <2>2. CASE q # <<p, c>>
    <3>1. q \in DictPairs(m) /\ q \in SlotValue \X (Byte \ {0}) /\ Found(m, KeyOf(q[1], q[2]))
      BY <1>5, <2>2 DEF DictPairs
    <3>2. DictOf(m)[q] = Result(m, KeyOf(q[1], q[2]))
      BY <3>1 DEF DictOf
    <3> QED BY <1>4, <2>2, <3>1, <3>2
  <2> QED BY <2>1, <2>2
<1>7. DOMAIN DictOf(m) = DictPairs(m)
  BY DEF DictOf
<1> QED BY <1>5, <1>6, <1>7, Zenon DEF DictOf

LzwStart(chunk, u) ==
  [m |-> Prefilled(u), prefix |-> chunk[1], codes |-> <<>>, nextCode |-> Radix,
   failure |-> FALSE]

LzwStates(chunk, u, z, f) ==
  f = [n \in 1 .. z |-> IF n = 1 THEN LzwStart(chunk, u) ELSE Step(f[n - 1], chunk[n], u)]

LEMMA LzwStatesExist ==
  ASSUME NEW chunk, NEW u
  PROVE  \A z \in Nat : \E f : LzwStates(chunk, u, z, f)
<1> DEFINE T == {z \in Nat : \E f : LzwStates(chunk, u, z, f)}
<1>1. 0 \in T
  <2> DEFINE f == [n \in 1 .. 0 |-> 0]
  <2>1. f = [n \in 1 .. 0 |-> IF n = 1 THEN LzwStart(chunk, u)
                              ELSE Step(f[n - 1], chunk[n], u)]
    OBVIOUS
  <2> QED BY <2>1 DEF LzwStates
<1>2. ASSUME NEW z \in Nat, z \in T PROVE z + 1 \in T
  <2>1. PICK f : LzwStates(chunk, u, z, f)
    BY <1>2
  <2> DEFINE g == [n \in 1 .. z + 1 |->
                     IF n = 1 THEN LzwStart(chunk, u)
                     ELSE IF n = z + 1 THEN Step(f[z], chunk[z + 1], u) ELSE f[n]]
  <2>2. ASSUME NEW n \in 1 .. z + 1
        PROVE  g[n] = IF n = 1 THEN LzwStart(chunk, u) ELSE Step(g[n - 1], chunk[n], u)
    <3>1. \A j \in 1 .. z : f[j] = IF j = 1 THEN LzwStart(chunk, u)
                                   ELSE Step(f[j - 1], chunk[j], u)
      BY <2>1 DEF LzwStates
    <3>2. CASE n = 1
      BY <3>2
    <3>3. \A j \in 1 .. z : g[j] = f[j]
      BY <3>1
    <3>4. CASE n = z + 1 /\ n # 1
      <4>1. n - 1 = z /\ z \in 1 .. z
        BY <3>4
      <4>2. g[n] = Step(f[z], chunk[n], u)
        BY <3>4
      <4> QED BY <3>3, <3>4, <4>1, <4>2
    <3>5. CASE n \in 2 .. z
      <4>1. n - 1 \in 1 .. z /\ n \in 1 .. z /\ n # 1
        BY <3>5
      <4> HIDE DEF g
      <4> QED BY <3>1, <3>3, <4>1
    <3> QED BY <3>2, <3>4, <3>5
  <2> HIDE DEF g
  <2>3. g = [n \in 1 .. z + 1 |-> g[n]]
    BY DEF g
  <2>4. LzwStates(chunk, u, z + 1, g)
    BY <2>2, <2>3 DEF LzwStates
  <2> QED BY <2>4
<1> HIDE DEF T
<1>3. \A z \in Nat : z \in T
  BY <1>1, <1>2, NumbersInSet
<1> QED BY <1>3 DEF T

LEMMA LzwEnd ==
  ASSUME NEW chunk, Len(chunk) \in Nat \ {0}, NEW u
  PROVE  \E f : /\ f[1] = LzwStart(chunk, u)
                /\ \A n \in 2 .. Len(chunk) : f[n] = Step(f[n - 1], chunk[n], u)
                /\ Lzw(chunk, u) = [f[Len(chunk)] EXCEPT !.codes =
                                      Append(@, f[Len(chunk)].prefix)]
<1> DEFINE Rec(f) ==
      f = [n \in 1 .. Len(chunk) |->
             IF n = 1 THEN [m |-> Prefilled(u), prefix |-> chunk[1], codes |-> <<>>,
                            nextCode |-> Radix, failure |-> FALSE]
             ELSE Step(f[n - 1], chunk[n], u)]
           h == CHOOSE f : Rec(f)
<1>1. \E f : Rec(f)
  <2>1. PICK f : LzwStates(chunk, u, Len(chunk), f)
    BY LzwStatesExist
  <2>2. Rec(f)
    BY <2>1, Zenon DEF LzwStates, LzwStart
  <2> QED BY <2>2
<1>2. Rec(h)
  BY <1>1, Zenon
<1>3. Lzw(chunk, u) = [h[Len(chunk)] EXCEPT !.codes = Append(@, h[Len(chunk)].prefix)]
  BY DEF Lzw
<1> HIDE DEF h
<1>4. \A n \in 1 .. Len(chunk) : h[n] = IF n = 1 THEN LzwStart(chunk, u)
                                        ELSE Step(h[n - 1], chunk[n], u)
  BY <1>2 DEF LzwStart
<1>5. h[1] = LzwStart(chunk, u)
  BY <1>4
<1>6. \A n \in 2 .. Len(chunk) : h[n] = Step(h[n - 1], chunk[n], u)
  BY <1>4
<1> QED BY <1>3, <1>5, <1>6

\* Nothing went wrong so far, and nothing was undefined.
InLimits(s) == ~s.failure /\ s.m.fill <= Width /\ s.nextCode <= CodeSpace

IsSequence(s) == \E S : s \in Seq(S)

CoderShape(s) ==
  /\ DOMAIN s = {"m", "prefix", "codes", "nextCode", "failure"}
  /\ Shape(s.m) /\ s.nextCode \in Nat /\ s.nextCode >= Radix
  /\ IsSequence(s.codes)

\* Within the limits the coder is where the reference encoding is.
Follows(s, g) ==
  /\ CoderShape(s)
  /\ InLimits(s) => /\ Sound(s.m)
                    /\ s.prefix \in SlotValue /\ s.codes \in Seq(SlotValue)
                    /\ Agrees(g, DictOf(s.m), s.nextCode, s.prefix, s.codes)

\* Whatever the elements of a sequence are.
LEMMA SequenceAppend ==
  ASSUME NEW s, IsSequence(s), NEW x
  PROVE  /\ IsSequence(Append(s, x)) /\ Len(s) \in Nat /\ Len(Append(s, x)) = Len(s) + 1
         /\ \A n \in 1 .. Len(s) : Append(s, x)[n] = s[n]
         /\ Append(s, x)[Len(s) + 1] = x
         /\ DOMAIN s = 1 .. Len(s)
<1>1. PICK S : s \in Seq(S)
  BY DEF IsSequence
<1> DEFINE T == S \cup {x}
<1>2. s \in Seq(T) /\ x \in T
  BY <1>1, SeqDef
<1> HIDE DEF T
<1> QED BY <1>2, AppendProperties, LenProperties DEF IsSequence

LEMMA StepShape ==
  ASSUME NEW s, CoderShape(s), NEW c, NEW u
  PROVE  CoderShape(Step(s, c, u))
<1> DEFINE x == KeyOf(s.prefix, c)
           n == Step(s, c, u)
<1>1. CASE Found(s.m, x)
  <2>1. n = [s EXCEPT !.prefix = Result(s.m, x)]
    BY <1>1 DEF Step
  <2> HIDE DEF n, x
  <2>2. CoderShape(n)
    BY <2>1 DEF CoderShape
  <2> QED BY <2>2 DEF n
<1>2. CASE ~Found(s.m, x) /\ Collides(s.m, x)
  <2>1. n = [s EXCEPT !.failure = TRUE]
    BY <1>2 DEF Step
  <2> HIDE DEF n, x
  <2>2. CoderShape(n)
    BY <2>1 DEF CoderShape
  <2> QED BY <2>2 DEF n
<1>3. CASE ~Found(s.m, x) /\ ~Collides(s.m, x)
  <2> DEFINE m2 == Inserted(s.m, x, s.nextCode, u)
  <2>1. n = [s EXCEPT !.m = m2, !.codes = Append(s.codes, s.prefix),
                      !.nextCode = s.nextCode + 1, !.prefix = c]
    BY <1>3 DEF Step
  <2>2. Shape(m2)
    BY InsertShape DEF CoderShape
  <2>3. IsSequence(Append(s.codes, s.prefix))
    BY SequenceAppend DEF CoderShape
  <2> HIDE DEF n, m2
  <2>4. /\ DOMAIN n = {"m", "prefix", "codes", "nextCode", "failure"}
        /\ n.m = m2 /\ n.codes = Append(s.codes, s.prefix) /\ n.nextCode = s.nextCode + 1
    BY <2>1 DEF CoderShape
  <2>5. CoderShape(n)
    BY <2>2, <2>3, <2>4, CoderConstants DEF CoderShape
  <2> QED BY <2>5 DEF n
<1> QED BY <1>1, <1>2, <1>3

LEMMA StartShape ==
  ASSUME NEW chunk, NEW u
  PROVE  CoderShape(LzwStart(chunk, u))
<1> DEFINE s == LzwStart(chunk, u)
<1>1. /\ DOMAIN s = {"m", "prefix", "codes", "nextCode", "failure"}
      /\ s.m = Prefilled(u) /\ s.nextCode = Radix /\ s.codes = <<>>
  BY DEF LzwStart
<1> HIDE DEF s
<1>2. IsSequence(s.codes)
  <2>1. <<>> \in Seq({})
    OBVIOUS
  <2> QED BY <1>1, <2>1 DEF IsSequence
<1>3. CoderShape(s)
  BY <1>1, <1>2, CoderConstants, PrefilledSound DEF CoderShape
<1> QED BY <1>3 DEF s

\* Whether the limits are kept or not, lzw returns some codes.
LEMMA LzwShape ==
  ASSUME NEW chunk, Len(chunk) \in Nat \ {0}, NEW u
  PROVE  IsSequence(Lzw(chunk, u).codes)
<1> DEFINE L == Len(chunk)
<1>1. PICK f : /\ f[1] = LzwStart(chunk, u)
               /\ \A n \in 2 .. L : f[n] = Step(f[n - 1], chunk[n], u)
               /\ Lzw(chunk, u) = [f[L] EXCEPT !.codes = Append(f[L].codes, f[L].prefix)]
  BY LzwEnd
<1> DEFINE T == {n \in Nat : n + 1 <= L => CoderShape(f[n + 1])}
<1>2. 0 \in T
  BY <1>1, StartShape
<1>3. ASSUME NEW n \in Nat, n \in T PROVE n + 1 \in T
  <2> SUFFICES ASSUME (n + 1) + 1 <= L PROVE CoderShape(f[(n + 1) + 1])
    OBVIOUS
  <2>1. /\ n + 1 <= L /\ (n + 1) + 1 \in 2 .. L /\ ((n + 1) + 1) - 1 = n + 1
    OBVIOUS
  <2>2. f[(n + 1) + 1] = Step(f[n + 1], chunk[(n + 1) + 1], u)
    BY <1>1, <2>1
  <2> QED BY <1>3, <2>1, <2>2, StepShape
<1>4. L - 1 \in Nat /\ (L - 1) + 1 = L /\ L <= L
  OBVIOUS
<1> HIDE DEF T, L
<1>5. L - 1 \in T
  BY <1>2, <1>3, <1>4, NumbersInSet
<1>6. CoderShape(f[L])
  BY <1>4, <1>5 DEF T
<1>7. Lzw(chunk, u).codes = Append(f[L].codes, f[L].prefix)
  BY <1>1, <1>6 DEF CoderShape
<1> QED BY <1>6, <1>7, SequenceAppend DEF CoderShape

LEMMA StartFollows ==
  ASSUME NEW chunk, chunk[1] \in Byte, NEW u
  PROVE  Follows(LzwStart(chunk, u), GoldenStart(chunk))
<1> DEFINE s == LzwStart(chunk, u)
<1>1. /\ DOMAIN s = {"m", "prefix", "codes", "nextCode", "failure"}
      /\ s.m = Prefilled(u) /\ s.nextCode = Radix /\ s.prefix = chunk[1] /\ s.codes = <<>>
  BY DEF LzwStart
<1> HIDE DEF s
<1>2. CoderShape(s)
  BY StartShape DEF s
<1>3. ASSUME InLimits(s)
      PROVE  /\ Sound(s.m) /\ s.prefix \in SlotValue /\ s.codes \in Seq(SlotValue)
             /\ Agrees(GoldenStart(chunk), DictOf(s.m), s.nextCode, s.prefix, s.codes)
  <2>1. /\ Sound(s.m)
        /\ \A p \in SlotValue, c \in Byte \ {0} : ~Found(s.m, KeyOf(p, c))
    BY <1>1, <1>3, PrefilledSound DEF InLimits
  <2>2. DictPairs(s.m) = {}
    BY <2>1 DEF DictPairs
  <2>3. DOMAIN DictOf(s.m) = {}
    BY <2>2 DEF DictOf
  <2>4. s.prefix \in SlotValue
    BY <1>1, CoderConstants DEF Byte, SlotValue
  <2>5. s.codes \in Seq(SlotValue)
    BY <1>1
  <2> QED BY <1>1, <2>1, <2>3, <2>4, <2>5, AgreeStart
<1> QED BY <1>2, <1>3 DEF Follows, s

LEMMA StepFollows ==
  ASSUME NEW s, NEW g, Follows(s, g), NEW c \in Byte \ {0}, NEW u
  PROVE  Follows(Step(s, c, u), GoldenStep(g, <<c>>))
<1> DEFINE x == KeyOf(s.prefix, c)
           n == Step(s, c, u)
           h == GoldenStep(g, <<c>>)
           pair == <<s.prefix, c>>
<1>1. CoderShape(s) /\ CoderShape(n)
  BY StepShape DEF Follows
<1>2. ASSUME InLimits(s), Found(s.m, x), NEW r, r = [s EXCEPT !.prefix = Result(s.m, x)]
      PROVE  /\ Sound(r.m) /\ r.prefix \in SlotValue /\ r.codes \in Seq(SlotValue)
             /\ Agrees(h, DictOf(r.m), r.nextCode, r.prefix, r.codes)
  <2>1. /\ r.m = s.m /\ r.codes = s.codes /\ r.nextCode = s.nextCode
        /\ r.prefix = Result(s.m, x)
    BY <1>1, <1>2 DEF CoderShape
  <2>2. /\ Sound(s.m) /\ s.prefix \in SlotValue /\ s.codes \in Seq(SlotValue)
        /\ Agrees(g, DictOf(s.m), s.nextCode, s.prefix, s.codes)
    BY <1>2 DEF Follows
  <2>3. pair \in DOMAIN DictOf(s.m) /\ DictOf(s.m)[pair] = Result(s.m, x)
    BY <1>2, <2>2 DEF DictOf, DictPairs
  <2>4. Agrees(h, DictOf(s.m), s.nextCode, DictOf(s.m)[pair], s.codes)
    BY <2>2, <2>3, AgreeHit
  <2>5. x \in Keys
    BY <2>2, KeyFits
  <2>6. Result(s.m, x) \in SlotValue
    BY <1>2, <2>2, <2>5, LookupValue
  <2> QED BY <2>1, <2>2, <2>3, <2>4, <2>6
<1>3. CASE Found(s.m, x)
  <2>1. n = [s EXCEPT !.prefix = Result(s.m, x)]
    BY <1>3 DEF Step
  <2> HIDE DEF n, x
  <2>2. InLimits(n) => InLimits(s)
    BY <1>1, <2>1 DEF CoderShape, InLimits
  <2> QED BY <1>1, <1>2, <1>3, <2>1, <2>2 DEF Follows, n, x
<1>4. CASE ~Found(s.m, x) /\ Collides(s.m, x)
  <2>1. n = [s EXCEPT !.failure = TRUE]
    BY <1>4 DEF Step
  <2> HIDE DEF n, x
  <2>2. ~InLimits(n)
    BY <1>1, <2>1 DEF CoderShape, InLimits
  <2> QED BY <1>1, <2>2 DEF Follows, n
<1>5. CASE ~Found(s.m, x) /\ ~Collides(s.m, x)
  <2> DEFINE m2 == Inserted(s.m, x, s.nextCode, u)
  <2>1. n = [s EXCEPT !.m = m2, !.codes = Append(s.codes, s.prefix),
                      !.nextCode = s.nextCode + 1, !.prefix = c]
    BY <1>5 DEF Step
  <2>2. Shape(m2) /\ s.m.fill <= m2.fill /\ s.m.fill \in Nat /\ m2.fill \in Nat
    BY <1>1, InsertShape DEF CoderShape, Shape
  <2> HIDE DEF n, m2
  <2>3. /\ DOMAIN n = {"m", "prefix", "codes", "nextCode", "failure"}
        /\ n.m = m2 /\ n.codes = Append(s.codes, s.prefix) /\ n.nextCode = s.nextCode + 1
        /\ n.prefix = c /\ n.failure = s.failure
    BY <1>1, <2>1 DEF CoderShape
  <2>4. CoderShape(n)
    BY <1>1 DEF n
  <2>5. ASSUME InLimits(n)
        PROVE  /\ Sound(n.m) /\ n.prefix \in SlotValue /\ n.codes \in Seq(SlotValue)
               /\ Agrees(h, DictOf(n.m), n.nextCode, n.prefix, n.codes)
    <3>1. /\ InLimits(s) /\ s.nextCode \in SlotValue /\ m2.fill <= Width
          /\ s.nextCode \in Nat /\ s.nextCode >= Radix
      BY <1>1, <2>2, <2>3, <2>5, CoderConstants DEF CoderShape, InLimits, SlotValue
    <3>2. /\ Sound(s.m) /\ s.prefix \in SlotValue /\ s.codes \in Seq(SlotValue)
          /\ Agrees(g, DictOf(s.m), s.nextCode, s.prefix, s.codes)
      BY <3>1 DEF Follows
    <3>3. x \in Keys
      BY <3>2, KeyFits
    <3>4. Sound(m2) /\ Adds(s.m, m2, x, s.nextCode)
      BY <1>5, <3>1, <3>2, <3>3, InsertSound DEF m2
    <3>5. pair \notin DOMAIN DictOf(s.m)
      BY <1>5 DEF DictOf, DictPairs
    <3>6. DictOf(m2) = [q \in DOMAIN DictOf(s.m) \cup {pair} |->
                          IF q = pair THEN s.nextCode ELSE DictOf(s.m)[q]]
      <4>1. Adds(s.m, m2, KeyOf(s.prefix, c), s.nextCode)
        BY <3>4
      <4>2. s.prefix \in SlotValue
        BY <3>2
      <4>3. DictOf(m2) = [q \in DOMAIN DictOf(s.m) \cup {<<s.prefix, c>>} |->
                            IF q = <<s.prefix, c>> THEN s.nextCode ELSE DictOf(s.m)[q]]
        BY <4>1, <4>2, DictAdded
      <4> QED BY <4>3
    <3>7. Agrees(h, [q \in DOMAIN DictOf(s.m) \cup {pair} |->
                       IF q = pair THEN s.nextCode ELSE DictOf(s.m)[q]],
                 s.nextCode + 1, c, Append(s.codes, s.prefix))
      BY <3>1, <3>2, <3>5, AgreeMiss
    <3>8. c \in SlotValue
      BY CoderConstants DEF Byte, SlotValue
    <3>9. Append(s.codes, s.prefix) \in Seq(SlotValue)
      BY <3>2, AppendProperties
    <3> QED BY <2>3, <3>4, <3>6, <3>7, <3>8, <3>9
  <2> QED BY <2>4, <2>5 DEF Follows, n
<1> QED BY <1>3, <1>4, <1>5

\* Within its limits the software coder gives the codes of the reference
\* encoding (lzw of lzw.cpp), for every chunk.
THEOREM LzwGolden ==
  ASSUME NEW chunk \in Seq(Byte), chunk # <<>>, NEW u,
         ~Lzw(chunk, u).failure, WithinLimits(chunk, Lzw(chunk, u))
  PROVE  /\ Lzw(chunk, u).codes = Golden(chunk)
         /\ Lzw(chunk, u).codes \in Seq(SlotValue)
<1> DEFINE L == Len(chunk)
<1>1. L \in Nat \ {0} /\ \A n \in 1 .. L : chunk[n] \in Byte
  BY LenProperties, EmptySeq, ElementOfSeq
<1>2. PICK f : /\ f[1] = LzwStart(chunk, u)
               /\ \A n \in 2 .. L : f[n] = Step(f[n - 1], chunk[n], u)
               /\ Lzw(chunk, u) = [f[L] EXCEPT !.codes = Append(f[L].codes, f[L].prefix)]
  BY <1>1, LzwEnd
<1>3. PICK g : /\ GoldenStates(chunk, L, g)
               /\ Golden(chunk) = Append(g[L].output, g[L].table[g[L].p])
  BY <1>1, GoldenEnd
<1>4. /\ g[0] = GoldenStart(chunk)
      /\ \A n \in 1 .. L : g[n] = GoldenFrom(chunk, g[n - 1], n)
  BY <1>1, <1>3, GoldenStateStep
<1> DEFINE T == {n \in Nat : n + 1 <= L => Follows(f[n + 1], g[n])}
<1>5. 0 \in T
  <2>1. chunk[1] \in Byte
    BY <1>1
  <2>2. Follows(f[1], g[0])
    BY <1>2, <1>4, <2>1, StartFollows
  <2> QED BY <2>2
<1>6. \A n \in 2 .. L : chunk[n] \in Byte \ {0}
  BY <1>1 DEF WithinLimits
<1>7. ASSUME NEW n \in Nat, n \in T PROVE n + 1 \in T
  <2> SUFFICES ASSUME (n + 1) + 1 <= L PROVE Follows(f[(n + 1) + 1], g[n + 1])
    OBVIOUS
  <2>1. /\ n + 1 <= L /\ (n + 1) + 1 \in 2 .. L /\ ((n + 1) + 1) - 1 = n + 1
        /\ n + 1 \in 1 .. L /\ n + 1 < L /\ (n + 1) - 1 = n
    BY <1>1
  <2>2. Follows(f[n + 1], g[n])
    BY <1>7, <2>1
  <2>3. f[(n + 1) + 1] = Step(f[n + 1], chunk[(n + 1) + 1], u)
    BY <1>2, <2>1
  <2>4. g[n + 1] = GoldenStep(g[n], <<chunk[(n + 1) + 1]>>)
    BY <1>4, <2>1 DEF GoldenFrom
  <2>5. chunk[(n + 1) + 1] \in Byte \ {0}
    BY <1>6, <2>1
  <2> QED BY <2>2, <2>3, <2>4, <2>5, StepFollows
<1>8. L - 1 \in Nat /\ (L - 1) + 1 = L /\ L \in 1 .. L
  BY <1>1
<1> HIDE DEF T, L
<1>9. L - 1 \in T
  BY <1>5, <1>7, <1>8, NumbersInSet
<1>10. Follows(f[L], g[L - 1])
  BY <1>1, <1>8, <1>9 DEF T
<1>11. /\ Lzw(chunk, u).failure = f[L].failure /\ Lzw(chunk, u).m = f[L].m
       /\ Lzw(chunk, u).nextCode = f[L].nextCode
       /\ Lzw(chunk, u).codes = Append(f[L].codes, f[L].prefix)
  BY <1>2, <1>10 DEF Follows, CoderShape
<1>12. InLimits(f[L])
  BY <1>11 DEF InLimits, WithinLimits
<1>13. /\ f[L].prefix \in SlotValue /\ f[L].codes \in Seq(SlotValue)
       /\ Agrees(g[L - 1], DictOf(f[L].m), f[L].nextCode, f[L].prefix, f[L].codes)
  BY <1>10, <1>12 DEF Follows
<1>14. g[L] = GoldenStep(g[L - 1], <<>>)
  <2>1. g[L] = GoldenFrom(chunk, g[L - 1], L)
    BY <1>4, <1>8
  <2>2. ~(L < Len(chunk))
    BY <1>1 DEF L
  <2> QED BY <2>1, <2>2 DEF GoldenFrom
<1>15. g[L] = g[L - 1]
  BY <1>13, <1>14, AgreeFlush
<1>16. g[L].output = f[L].codes /\ g[L].table[g[L].p] = f[L].prefix
  BY <1>13, <1>15 DEF Agrees
<1>17. Append(f[L].codes, f[L].prefix) \in Seq(SlotValue)
  BY <1>13, AppendProperties
<1> QED BY <1>3, <1>11, <1>16, <1>17

-----------------------------------------------------------------------------
(* Different chunks have different fingerprints *)

LEMMA PaddedForm ==
  ASSUME NEW c, Len(c) \in Nat
  PROVE  \E z \in Nat : StandardPadded(c)
                          = ((c \o <<128>>) \o Zeros(z)) \o LengthField(8 * Len(c))
<1> DEFINE n == Len(c)
           m == n \div BlockBytes
           d == n % BlockBytes
<1>1. BlockBytes \in Nat /\ LengthBytes \in Nat /\ LengthBytes < BlockBytes /\ BlockBytes > 0
  BY BlockFacts
<1>2. m \in Nat /\ d \in Nat /\ d < BlockBytes /\ BlockBytes * m + d = n
  BY <1>1, DivisionBounds
<1>3. n \in Nat
  OBVIOUS
<1> HIDE DEF n, m, d
<1>4. ASSUME NEW z \in 0 .. BlockBytes - 1, NEW j \in Nat, n + 1 + z + LengthBytes = BlockBytes * j
      PROVE  \E y \in Nat : StandardPadded(c) = ((c \o <<128>>) \o Zeros(y)) \o LengthField(8 * Len(c))
  <2>1. z = CHOOSE x \in 0 .. BlockBytes - 1 : (n + 1 + x + LengthBytes) % BlockBytes = 0
    BY <1>3, <1>4, ZerosChosen
  <2>2. StandardPadded(c) = ((c \o <<128>>) \o Zeros(z)) \o LengthField(8 * Len(c))
    BY <2>1, Zenon DEF StandardPadded, n
  <2>3. z \in Nat
    BY <1>1
  <2> QED BY <2>2, <2>3, Zenon
<1>5. CASE d < BlockBytes - LengthBytes
  <2> DEFINE z == (BlockBytes - LengthBytes) - (d + 1)
  <2>1. /\ z \in Nat /\ z \in 0 .. BlockBytes - 1
        /\ n + 1 + z + LengthBytes = BlockBytes * (m + 1)
    BY <1>2, <1>3, <1>5, OneBlock
  <2>2. m + 1 \in Nat
    BY <1>2
  <2> HIDE DEF z
  <2> QED BY <1>4, <2>1, <2>2
<1>6. CASE ~(d < BlockBytes - LengthBytes)
  <2> DEFINE z == (BlockBytes - (d + 1)) + (BlockBytes - LengthBytes)
  <2>1. /\ z \in 0 .. BlockBytes - 1
        /\ n + 1 + z + LengthBytes = BlockBytes * (m + 2)
    BY <1>2, <1>3, <1>6, TwoBlocks
  <2>2. m + 2 \in Nat
    BY <1>2
  <2> HIDE DEF z
  <2> QED BY <1>4, <2>1, <2>2
<1> QED BY <1>5, <1>6

\* The elements of the padded chunks.
Padding == Byte \cup {0, 128} \cup {LengthField(8 * n)[b] : n \in Nat, b \in 1 .. LengthBytes}

LEMMA PaddedParts ==
  ASSUME NEW c \in Seq(Byte)
  PROVE  LET s == StandardPadded(c)
             last == Len(s) - LengthBytes
         IN /\ s \in Seq(Padding) /\ last \in Nat /\ Len(c) \in Nat /\ Len(c) + 1 <= last
            /\ \A i \in 1 .. Len(c) : s[i] = c[i]
            /\ s[Len(c) + 1] = 128
            /\ \A i \in Len(c) + 2 .. last : s[i] = 0
<1> DEFINE U == Padding
           n == Len(c)
           L == LengthField(8 * n)
           mark == <<128>>
           s == StandardPadded(c)
<1>1. c \in Seq(U) /\ mark \in Seq(U) /\ n \in Nat /\ 0 \in U
  <2>1. Byte \subseteq U /\ 128 \in U /\ 0 \in U
    BY DEF Padding
  <2>2. c \in Seq(U)
    BY <2>1, SeqDef
  <2> HIDE DEF U
  <2> QED BY <2>1, <2>2, LenProperties
<1>2. L \in Seq(U) /\ Len(L) = LengthBytes
  <2>1. \A b \in 1 .. LengthBytes : L[b] \in U
    BY <1>1 DEF Padding
  <2> HIDE DEF U
  <2>2. L \in Seq(U)
    BY <2>1, LengthFieldFacts
  <2>3. DOMAIN L = 1 .. LengthBytes
    BY DEF LengthField
  <2>4. LengthBytes \in Nat
    BY BlockFacts
  <2> HIDE DEF L
  <2> QED BY <2>2, <2>3, <2>4, LenProperties
<1>3. PICK z \in Nat : s = ((c \o mark) \o Zeros(z)) \o L
  BY <1>1, PaddedForm
<1> HIDE DEF U, L, n, s, mark
<1> DEFINE A == c \o mark
           B == A \o Zeros(z)
<1>4. /\ A \in Seq(U) /\ Len(A) = n + 1 /\ A[n + 1] = 128
      /\ \A i \in 1 .. n : A[i] = c[i]
  <2>1. A = Append(c, 128)
    BY <1>1, AppendIsConcat DEF mark, U, Padding
  <2>2. 128 \in U
    BY DEF U, Padding
  <2> HIDE DEF A
  <2> QED BY <1>1, <2>1, <2>2, AppendProperties DEF n
<1>5. Zeros(z) \in Seq(U) /\ Len(Zeros(z)) = z /\ \A b \in 1 .. z : Zeros(z)[b] = 0
  BY <1>1, ZerosFacts
<1> HIDE DEF A
<1>6. /\ B \in Seq(U) /\ Len(B) = (n + 1) + z
      /\ \A i \in 1 .. n + 1 : B[i] = A[i]
      /\ \A i \in n + 2 .. (n + 1) + z : B[i] = 0
  <2>1. /\ B \in Seq(U) /\ Len(B) = (n + 1) + z
        /\ \A i \in 1 .. Len(A) + Len(Zeros(z)) :
             B[i] = IF i <= Len(A) THEN A[i] ELSE Zeros(z)[i - Len(A)]
    <3> DEFINE t == Zeros(z)
    <3>1. A \in Seq(U) /\ t \in Seq(U) /\ Len(A) = n + 1 /\ Len(t) = z
      BY <1>4, <1>5
    <3> HIDE DEF t
    <3>2. /\ A \o t \in Seq(U) /\ Len(A \o t) = Len(A) + Len(t)
          /\ \A i \in 1 .. Len(A) + Len(t) :
               (A \o t)[i] = IF i <= Len(A) THEN A[i] ELSE t[i - Len(A)]
      BY <3>1, ConcatProperties
    <3> QED BY <3>1, <3>2 DEF t
  <2> HIDE DEF B
  <2> QED BY <1>1, <1>4, <1>5, <2>1
<1> HIDE DEF B
<1>7. /\ s \in Seq(U) /\ Len(s) = ((n + 1) + z) + LengthBytes
      /\ \A i \in 1 .. (n + 1) + z : s[i] = B[i]
  <2>1. s = B \o L
    BY <1>3 DEF A, B
  <2>2. /\ s \in Seq(U) /\ Len(s) = Len(B) + Len(L)
        /\ \A i \in 1 .. Len(B) + Len(L) : s[i] = IF i <= Len(B) THEN B[i] ELSE L[i - Len(B)]
    BY <1>2, <1>6, <2>1, ConcatProperties
  <2> QED BY <1>1, <1>2, <1>6, <2>2, BlockFacts
<1>8. /\ Len(s) - LengthBytes = (n + 1) + z /\ (n + 1) + z \in Nat /\ n + 1 <= (n + 1) + z
      /\ \A i \in 1 .. n : i \in 1 .. n + 1 /\ i \in 1 .. (n + 1) + z
      /\ n + 1 \in 1 .. n + 1 /\ n + 1 \in 1 .. (n + 1) + z
      /\ \A i \in n + 2 .. (n + 1) + z : i \in 1 .. (n + 1) + z
  BY <1>1, <1>7, BlockFacts
<1>9. \A i \in 1 .. n : s[i] = c[i]
  BY <1>4, <1>6, <1>7, <1>8
<1>10. s[n + 1] = 128
  BY <1>4, <1>6, <1>7, <1>8
<1>11. \A i \in n + 2 .. (n + 1) + z : s[i] = 0
  BY <1>6, <1>7, <1>8
<1> QED BY <1>1, <1>7, <1>8, <1>9, <1>10, <1>11 DEF s, n, U

\* The blocks of a fingerprint are the padded chunk.
LEMMA BlocksJoined ==
  ASSUME NEW c \in Seq(Byte)
  PROVE  /\ Len(Fingerprint(c)) \in Nat
         /\ \A f : Chain(Fingerprint(c), Len(Fingerprint(c)), f) =>
                     f[Len(Fingerprint(c))] = StandardPadded(c)
<1> DEFINE U == Padding
<1>1. /\ c \in Seq(U) /\ 0 \in U /\ 128 \in U
      /\ \A b \in 1 .. LengthBytes : LengthField(8 * Len(c))[b] \in U
  <2>1. Byte \subseteq U /\ 128 \in U /\ 0 \in U
    BY DEF Padding
  <2>2. Len(c) \in Nat
    BY LenProperties
  <2>3. \A b \in 1 .. LengthBytes : LengthField(8 * Len(c))[b] \in U
    BY <2>2 DEF Padding
  <2> QED BY <2>1, <2>3, SeqDef
<1> HIDE DEF U
<1>2. Context(Update(c), c, Len(c), U)
  BY <1>1, UpdatedContext
<1>3. Len(Fingerprint(c)) \in Nat
  BY <1>1, <1>2, FinalLength DEF Fingerprint
<1>4. \A f : Chain(Fingerprint(c), Len(Fingerprint(c)), f) =>
               f[Len(Fingerprint(c))] = StandardPadded(c)
  BY <1>1, <1>2, <1>3, FinalPads DEF Fingerprint
<1> QED BY <1>3, <1>4

\* Different chunks have different blocks, and so different fingerprints as
\* they are modelled here (sha256_update and sha256_final).
THEOREM FingerprintsDiffer ==
  ASSUME NEW a \in Seq(Byte), NEW b \in Seq(Byte), Fingerprint(a) = Fingerprint(b)
  PROVE  a = b
<1>1. StandardPadded(a) = StandardPadded(b)
  <2> DEFINE g == Fingerprint(a)
  <2>1. Len(g) \in Nat
    BY BlocksJoined
  <2>2. PICK f : Joined(g, Len(g), f)
    BY <2>1, JoinedExist
  <2>3. Chain(g, Len(g), f)
    <3> HIDE DEF g
    <3>1. \A n \in 0 .. Len(g) : f[n] = IF n = 0 THEN <<>> ELSE f[n - 1] \o g[n]
      BY <2>2 DEF Joined
    <3>2. 0 \in 0 .. Len(g) /\ \A n \in 1 .. Len(g) : n \in 0 .. Len(g) /\ n # 0
      BY <2>1
    <3> QED BY <3>1, <3>2 DEF Chain
  <2> HIDE DEF g
  <2>4. f[Len(g)] = StandardPadded(a)
    BY <2>3, BlocksJoined DEF g
  <2>5. f[Len(g)] = StandardPadded(b)
    BY <2>3, BlocksJoined DEF g
  <2> QED BY <2>4, <2>5
<1> DEFINE s == StandardPadded(a)
           last == Len(s) - LengthBytes
<1>2. /\ last \in Nat /\ Len(a) \in Nat /\ Len(a) + 1 <= last
      /\ \A i \in 1 .. Len(a) : s[i] = a[i]
      /\ s[Len(a) + 1] = 128
      /\ \A i \in Len(a) + 2 .. last : s[i] = 0
  BY PaddedParts
<1>3. /\ Len(b) \in Nat /\ Len(b) + 1 <= last
      /\ \A i \in 1 .. Len(b) : s[i] = b[i]
      /\ s[Len(b) + 1] = 128
      /\ \A i \in Len(b) + 2 .. last : s[i] = 0
  BY <1>1, PaddedParts
<1> HIDE DEF s, last
<1>4. ~(Len(a) < Len(b))
  BY <1>2, <1>3
<1>5. ~(Len(b) < Len(a))
  BY <1>2, <1>3
<1>6. Len(a) = Len(b) /\ \A i \in 1 .. Len(a) : a[i] = b[i]
  BY <1>2, <1>3, <1>4, <1>5
<1> QED BY <1>6, SeqEqual

-----------------------------------------------------------------------------
(* The archive *)

LEMMA FunctionLength ==
  ASSUME NEW p \in Nat, NEW f, DOMAIN f = 1 .. p, f = [b \in 1 .. p |-> f[b]]
  PROVE  Len(f) = p
<1> DEFINE S == {f[b] : b \in 1 .. p}
<1>1. f \in [1 .. p -> S]
  OBVIOUS
<1> HIDE DEF S
<1> QED BY <1>1, LenProperties, SeqDef

LEMMA PacketLengths ==
  ASSUME NEW n \in Nat
  PROVE  /\ PacketLength(n) \in Nat /\ 8 * PacketLength(n) >= 12 * n
         /\ (8 * PacketLength(n)) \div 12 = n
         /\ (2 * PacketLength(n)) \div 2 = PacketLength(n) /\ (2 * PacketLength(n)) % 2 = 0
<1> DEFINE q == n \div 2
           r == n % 2
           p == PacketLength(n)
<1>1. q \in Nat /\ r \in 0 .. 1 /\ n = 2 * q + r
  BY SMT
<1>2. p = (n * 12) \div 8 + (IF r # 0 THEN 1 ELSE 0)
  BY DEF PacketLength, CodeBits
<1> HIDE DEF q, r, p
<1>3. CASE r = 0
  <2>1. p = 3 * q
    BY <1>1, <1>2, <1>3
  <2> QED BY <1>1, <1>3, <2>1 DEF p
<1>4. CASE r = 1
  <2>1. p = 3 * q + 2
    BY <1>1, <1>2, <1>4
  <2> QED BY <1>1, <1>4, <2>1 DEF p
<1> QED BY <1>1, <1>3, <1>4

\* Every packet keeps the kind of a record and its length; what is in it is
\* read back if the codes fit.
LEMMA RawRecordFacts ==
  ASSUME NEW codes, IsSequence(codes)
  PROVE  LET record == RawRecord(codes) IN
         /\ record.header % 2 = 0 /\ record.header \div 2 = Len(record.packet)
         /\ codes \in Seq(SlotValue) =>
              ReadCodes(record.packet, (8 * Len(record.packet)) \div CodeBits, CodeBits) = codes
<1> DEFINE record == RawRecord(codes)
           n == Len(codes)
           p == PacketLength(n)
           packet == CreatePacket(Cases12, codes, p)
<1>1. n \in Nat
  BY SequenceAppend
<1>2. p \in Nat /\ 8 * p >= 12 * n /\ (8 * p) \div 12 = n /\ (2 * p) \div 2 = p /\ (2 * p) % 2 = 0
  BY <1>1, PacketLengths
<1>3. record.header = 2 * p /\ record.packet = packet
  BY DEF RawRecord
<1>4. DOMAIN packet = 1 .. p /\ packet = [b \in 1 .. p |-> packet[b]]
  BY DEF CreatePacket
<1> HIDE DEF record, n, p, packet
<1>5. Len(packet) = p
  BY <1>2, <1>4, FunctionLength
<1>6. ASSUME codes \in Seq(SlotValue) PROVE ReadCodes(packet, n, 12) = codes
  <2>1. SlotValue \subseteq 0 .. 4095
    BY CoderConstants, CpuPipelineAssumption DEF SlotValue
  <2>2. codes \in Seq(0 .. 4095)
    <3> DEFINE C == 0 .. 4095
    <3>1. SlotValue \subseteq C
      BY <2>1
    <3> HIDE DEF C
    <3>2. codes \in Seq(C)
      BY <1>6, <3>1, SeqDef
    <3> QED BY <3>2 DEF C
  <2> QED BY <1>2, <2>2, Codes12ReadBack DEF packet, n
<1> QED BY <1>2, <1>3, <1>5, <1>6 DEF record, CodeBits

LEMMA RefRecordFacts ==
  ASSUME NEW id \in Nat
  PROVE  RefRecord(id).header % 2 = 1 /\ RefRecord(id).header \div 2 = id
BY DEF RefRecord

\* The packets among the first n records of a.
PacketsOf(a, n) == Cardinality({m \in 1 .. n : a[m].header % 2 = 0})

\* The n-th record of a stands for the n-th chunk of lg.
RecordHolds(a, lg, n) ==
  LET record == a[n] IN
  IF record.header % 2 = 1
  THEN \E m \in 1 .. n - 1 :
         /\ a[m].header % 2 = 0 /\ PacketsOf(a, m - 1) = record.header \div 2
         /\ lg[m].chunk = lg[n].chunk
  ELSE lg[n].exceeded \/
       LET codes == (8 * Len(record.packet)) \div CodeBits IN
       /\ record.header \div 2 = Len(record.packet)
       /\ ReadCodes(record.packet, codes, CodeBits) = Golden(lg[n].chunk)

Archived ==
  /\ IsSequence(archive) /\ Len(log) = Len(archive)
  /\ \A n \in 1 .. Len(archive) : RecordHolds(archive, log, n)

\* A fingerprint's id is the number of the packet with its chunk.
Numbered ==
  /\ chunkId = PacketsOf(archive, Len(archive))
  /\ \A f \in DOMAIN shaMap : \E m \in 1 .. Len(archive) :
       /\ archive[m].header % 2 = 0 /\ PacketsOf(archive, m - 1) = shaMap[f]
       /\ Fingerprint(log[m].chunk) = f

AInv == Archived /\ (pc # "failed" => Numbered)

LEMMA PacketsSame ==
  ASSUME NEW a, NEW b, NEW n \in Nat, \A m \in 1 .. n : b[m] = a[m]
  PROVE  PacketsOf(b, n) = PacketsOf(a, n)
<1>1. {m \in 1 .. n : b[m].header % 2 = 0} = {m \in 1 .. n : a[m].header % 2 = 0}
  OBVIOUS
<1> QED BY <1>1 DEF PacketsOf

LEMMA PacketsNext ==
  ASSUME NEW a, NEW n \in Nat
  PROVE  /\ PacketsOf(a, n) \in Nat
         /\ PacketsOf(a, n + 1) = IF a[n + 1].header % 2 = 0 THEN PacketsOf(a, n) + 1
                                  ELSE PacketsOf(a, n)
<1> DEFINE S == {m \in 1 .. n : a[m].header % 2 = 0}
           T == {m \in 1 .. n + 1 : a[m].header % 2 = 0}
<1>1. IsFiniteSet(S) /\ Cardinality(S) \in Nat
  <2>1. IsFiniteSet(1 .. n)
    BY FS_Interval
  <2> QED BY <2>1, FS_Subset, FS_CardinalityType
<1>2. n + 1 \notin S /\ n + 1 \in 1 .. n + 1 /\ \A m \in 1 .. n + 1 : m = n + 1 \/ m \in 1 .. n
  OBVIOUS
<1>3. CASE a[n + 1].header % 2 = 0
  <2>1. T = S \cup {n + 1}
    BY <1>2, <1>3
  <2> HIDE DEF S, T
  <2>2. Cardinality(T) = Cardinality(S) + 1
    BY <1>1, <1>2, <2>1, FS_AddElement
  <2> QED BY <1>1, <1>3, <2>2 DEF PacketsOf, S, T
<1>4. CASE ~(a[n + 1].header % 2 = 0)
  <2>1. T = S
    BY <1>2, <1>4
  <2> HIDE DEF S, T
  <2> QED BY <1>1, <1>4, <2>1 DEF PacketsOf, S, T
<1> QED BY <1>3, <1>4

\* A record more, for a chunk more.
LEMMA RecordAdded ==
  ASSUME Archived, log \in Seq(LogEntry), NEW x, NEW entry,
         archive' = Append(archive, x), log' = Append(log, entry),
         RecordHolds(archive', log', Len(archive) + 1)
  PROVE  /\ Archived' /\ Len(archive) \in Nat /\ Len(archive') = Len(archive) + 1
         /\ \A m \in 1 .. Len(archive) : archive'[m] = archive[m] /\ log'[m] = log[m]
         /\ archive'[Len(archive) + 1] = x /\ log'[Len(archive) + 1] = entry
         /\ \A m \in 0 .. Len(archive) : PacketsOf(archive', m) = PacketsOf(archive, m)
<1> DEFINE l == Len(archive)
<1>1. /\ IsSequence(archive') /\ l \in Nat /\ Len(archive') = l + 1
      /\ \A m \in 1 .. l : archive'[m] = archive[m]
      /\ archive'[l + 1] = x
  BY SequenceAppend DEF Archived
<1>2. /\ Len(log') = l + 1 /\ Len(log) = l
      /\ \A m \in 1 .. l : log'[m] = log[m]
      /\ log'[l + 1] = entry
  <2>1. IsSequence(log) /\ Len(log) = l
    BY DEF Archived, IsSequence
  <2> QED BY <2>1, SequenceAppend
<1> HIDE DEF l
<1>3. ASSUME NEW m \in 0 .. l PROVE PacketsOf(archive', m) = PacketsOf(archive, m)
  <2>1. m \in Nat /\ \A n \in 1 .. m : n \in 1 .. l
    BY <1>1
  <2> QED BY <1>1, <2>1, PacketsSame
<1>4. ASSUME NEW n \in 1 .. l PROVE RecordHolds(archive', log', n)
  <2>1. RecordHolds(archive, log, n)
    BY DEF Archived, l
  <2>2. /\ archive'[n] = archive[n] /\ log'[n] = log[n]
        /\ \A m \in 1 .. n - 1 : /\ m \in 1 .. l /\ m - 1 \in 0 .. l
    BY <1>1, <1>2
  <2>3. \A m \in 1 .. n - 1 : /\ archive'[m] = archive[m] /\ log'[m] = log[m]
                              /\ PacketsOf(archive', m - 1) = PacketsOf(archive, m - 1)
    BY <1>1, <1>2, <1>3, <2>2
  <2> QED BY <2>1, <2>2, <2>3 DEF RecordHolds
<1>5. \A n \in 1 .. l + 1 : n = l + 1 \/ n \in 1 .. l
  BY <1>1
<1>6. Archived'
  BY <1>1, <1>2, <1>4, <1>5 DEF Archived, l
<1> QED BY <1>1, <1>2, <1>3, <1>6 DEF l

LEMMA KnownArchived ==
  ASSUME PInv, AInv, CompressKnown
  PROVE  AInv'
<1> DEFINE fp == Fingerprint(Chunk)
           id == shaMap[fp]
           l == Len(archive)
           entry == [chunk |-> Chunk, exceeded |-> FALSE]
<1>1. /\ pc = "compress" /\ fp \in DOMAIN shaMap
      /\ archive' = Append(archive, RefRecord(id)) /\ log' = Append(log, entry)
      /\ shaMap' = shaMap /\ chunkId' = chunkId
  BY DEF CompressKnown, dedupVars
<1>2. /\ Archived /\ Numbered /\ log \in Seq(LogEntry) /\ Chunk \in Seq(Byte)
      /\ chunkId \in Nat /\ {shaMap[f] : f \in DOMAIN shaMap} = 0 .. chunkId - 1
  BY <1>1, ChunkIsNext DEF AInv, PInv, Types, Ids
<1>3. id \in Nat
  <2>1. id \in 0 .. chunkId - 1
    BY <1>1, <1>2
  <2> QED BY <1>2, <2>1
<1>4. PICK m \in 1 .. l : /\ archive[m].header % 2 = 0 /\ PacketsOf(archive, m - 1) = id
                          /\ Fingerprint(log[m].chunk) = fp
  BY <1>1, <1>2 DEF Numbered
<1>5. /\ l \in Nat /\ Len(log) = l
      /\ archive'[l + 1] = RefRecord(id) /\ log'[l + 1] = entry
      /\ \A n \in 1 .. l : archive'[n] = archive[n] /\ log'[n] = log[n]
  <2>1. IsSequence(archive) /\ IsSequence(log) /\ Len(log) = l
    BY <1>2 DEF Archived, IsSequence
  <2> DEFINE x == RefRecord(id)
  <2>2. archive' = Append(archive, x) /\ log' = Append(log, entry)
    BY <1>1
  <2> HIDE DEF x, entry, l
  <2>3. /\ l \in Nat /\ archive'[l + 1] = x /\ \A n \in 1 .. l : archive'[n] = archive[n]
    BY <2>1, <2>2, SequenceAppend DEF l
  <2>4. /\ log'[l + 1] = entry /\ \A n \in 1 .. l : log'[n] = log[n]
    BY <2>1, <2>2, SequenceAppend
  <2> QED BY <2>1, <2>3, <2>4 DEF x
<1>6. log[m].chunk = Chunk
  <2>1. log[m] \in LogEntry
    BY <1>2, <1>5, ElementOfSeq
  <2>2. log[m].chunk \in Seq(Byte)
    BY <2>1 DEF LogEntry
  <2> QED BY <1>2, <1>4, <2>2, FingerprintsDiffer
<1> DEFINE r == RefRecord(id)
<1>7. r.header % 2 = 1 /\ r.header \div 2 = id /\ entry.chunk = Chunk
  BY <1>3, RefRecordFacts
<1> HIDE DEF r, entry, id, fp, l
<1>8. RecordHolds(archive', log', l + 1)
  <2>1. m \in 1 .. (l + 1) - 1 /\ m - 1 \in Nat /\ \A n \in 1 .. m - 1 : n \in 1 .. l
    BY <1>5
  <2>2. PacketsOf(archive', m - 1) = PacketsOf(archive, m - 1)
    BY <1>5, <2>1, PacketsSame
  <2> QED BY <1>4, <1>5, <1>6, <1>7, <2>1, <2>2 DEF RecordHolds, r
<1>9. /\ Archived' /\ Len(archive') = l + 1
      /\ \A n \in 0 .. l : PacketsOf(archive', n) = PacketsOf(archive, n)
  BY <1>1, <1>2, <1>8, RecordAdded DEF l
<1>10. Numbered'
  <2>1. PacketsOf(archive', l + 1) = PacketsOf(archive, l)
    <3>1. ~(archive'[l + 1].header % 2 = 0)
      BY <1>5, <1>7 DEF r
    <3>2. PacketsOf(archive', l + 1) = PacketsOf(archive', l)
      BY <1>5, <3>1, PacketsNext
    <3> QED BY <1>5, <1>9, <3>2
  <2>2. ASSUME NEW f \in DOMAIN shaMap
        PROVE  \E n \in 1 .. l + 1 :
                 /\ archive'[n].header % 2 = 0 /\ PacketsOf(archive', n - 1) = shaMap[f]
                 /\ Fingerprint(log'[n].chunk) = f
    <3>1. PICK n \in 1 .. l : /\ archive[n].header % 2 = 0 /\ PacketsOf(archive, n - 1) = shaMap[f]
                              /\ Fingerprint(log[n].chunk) = f
      BY <1>2 DEF Numbered, l
    <3>2. n \in 1 .. l + 1 /\ n - 1 \in 0 .. l
      BY <1>5
    <3> QED BY <1>5, <1>9, <3>1, <3>2
  <2> QED BY <1>1, <1>2, <1>9, <2>1, <2>2 DEF Numbered, l
<1> QED BY <1>9, <1>10 DEF AInv

LEMMA NewArchived ==
  ASSUME PInv, AInv, CompressNew
  PROVE  AInv'
<1> DEFINE fp == Fingerprint(Chunk)
           l == Len(archive)
<1>1. /\ pc = "compress" /\ fp \notin DOMAIN shaMap
      /\ shaMap' = [f \in DOMAIN shaMap \cup {fp} |-> IF f = fp THEN chunkId ELSE shaMap[f]]
      /\ chunkId' = chunkId + 1
  BY DEF CompressNew, DedupNew
<1>2. PICK undefined \in Undefined :
        LET result == Lzw(Chunk, undefined) IN
        IF result.failure
        THEN /\ pc' = "failed"
             /\ UNCHANGED <<writer, sum, k, archive, log>>
        ELSE /\ archive' = Append(archive, RawRecord(result.codes))
             /\ log' = Append(log, [chunk |-> Chunk,
                                    exceeded |-> ~WithinLimits(Chunk, result)])
             /\ NextChunk
  BY DEF CompressNew
<1> DEFINE result == Lzw(Chunk, undefined)
           codes == result.codes
           e == ~WithinLimits(Chunk, result)
           entry == [chunk |-> Chunk, exceeded |-> e]
<1>3. \/ pc' = "failed" /\ UNCHANGED <<archive, log>>
      \/ ~result.failure /\ archive' = Append(archive, RawRecord(codes)) /\ log' = Append(log, entry)
  BY <1>2
<1>4. /\ Archived /\ Numbered /\ log \in Seq(LogEntry) /\ chunkId \in Nat
      /\ Chunk \in Seq(Byte) /\ Chunk # <<>>
  BY <1>1, ChunkIsNext DEF AInv, PInv, Types, Ids
<1>5. IsSequence(codes)
  <2>1. Len(Chunk) \in Nat \ {0}
    BY <1>4, LenProperties, EmptySeq
  <2> QED BY <2>1, LzwShape
<1>6. ~result.failure /\ ~e => codes = Golden(Chunk) /\ codes \in Seq(SlotValue)
  BY <1>4, LzwGolden
<1> DEFINE r == RawRecord(codes)
<1>7. /\ r.header % 2 = 0 /\ r.header \div 2 = Len(r.packet)
      /\ codes \in Seq(SlotValue) =>
           ReadCodes(r.packet, (8 * Len(r.packet)) \div CodeBits, CodeBits) = codes
  BY <1>5, RawRecordFacts
<1>8. entry.chunk = Chunk /\ entry.exceeded = e
  OBVIOUS
<1> HIDE DEF r, entry, e, codes, result
<1>9. CASE pc' = "failed" /\ UNCHANGED <<archive, log>>
  BY <1>4, <1>9 DEF AInv, Archived
<1>10. CASE ~result.failure /\ archive' = Append(archive, r) /\ log' = Append(log, entry)
  <2>1. /\ l \in Nat /\ Len(log) = l
        /\ archive'[l + 1] = r /\ log'[l + 1] = entry
        /\ \A n \in 1 .. l : archive'[n] = archive[n] /\ log'[n] = log[n]
    <3>1. IsSequence(archive) /\ IsSequence(log) /\ Len(log) = l
      BY <1>4 DEF Archived, IsSequence
    <3> QED BY <1>10, <3>1, SequenceAppend
  <2> HIDE DEF l
  <2>2. RecordHolds(archive', log', l + 1)
    BY <1>6, <1>7, <1>8, <1>10, <2>1 DEF RecordHolds
  <2>3. /\ Archived' /\ Len(archive') = l + 1
        /\ \A n \in 0 .. l : PacketsOf(archive', n) = PacketsOf(archive, n)
    BY <1>4, <1>10, <2>2, RecordAdded DEF l
  <2>4. PacketsOf(archive', l + 1) = chunkId + 1 /\ PacketsOf(archive', l) = chunkId
    <3>1. PacketsOf(archive', l) = PacketsOf(archive, l) /\ PacketsOf(archive, l) = chunkId
      BY <1>4, <2>1, <2>3 DEF Numbered, l
    <3> QED BY <1>7, <2>1, <3>1, PacketsNext
  <2>5. ASSUME NEW f \in DOMAIN shaMap'
        PROVE  \E n \in 1 .. l + 1 :
                 /\ archive'[n].header % 2 = 0 /\ PacketsOf(archive', n - 1) = shaMap'[f]
                 /\ Fingerprint(log'[n].chunk) = f
    <3>1. CASE f = fp
      <4>1. shaMap'[f] = chunkId /\ l + 1 \in 1 .. l + 1 /\ (l + 1) - 1 = l
        BY <1>1, <2>1, <3>1
      <4> QED BY <1>7, <1>8, <2>1, <2>4, <3>1, <4>1
    <3>2. CASE f \in DOMAIN shaMap
      <4>1. shaMap'[f] = shaMap[f]
        BY <1>1, <3>2
      <4>2. PICK n \in 1 .. l : /\ archive[n].header % 2 = 0
                                /\ PacketsOf(archive, n - 1) = shaMap[f]
                                /\ Fingerprint(log[n].chunk) = f
        BY <1>4, <3>2 DEF Numbered, l
      <4>3. n \in 1 .. l + 1 /\ n - 1 \in 0 .. l
        BY <2>1
      <4> QED BY <2>1, <2>3, <4>1, <4>2, <4>3
    <3> QED BY <1>1, <2>5, <3>1, <3>2
  <2>6. Numbered'
    BY <1>1, <2>3, <2>4, <2>5 DEF Numbered
  <2> QED BY <2>3, <2>6 DEF AInv
<1> QED BY <1>3, <1>9, <1>10 DEF r

\* Each record of the archive stands for its chunk: references for an earlier
\* packet of the same content, packets for the codes of the reference encoding
\* as long as the coder is within its limits (compression_pipeline of main.cpp).
THEOREM ArchiveIsChunksHolds == Spec => []ArchiveIsChunks
<1>1. Init => AInv
  <2> SUFFICES ASSUME Init PROVE AInv
    OBVIOUS
  <2>1. archive = <<>> /\ log = <<>> /\ shaMap = <<>> /\ chunkId = 0
    BY DEF Init
  <2>2. <<>> \in Seq({}) /\ Len(<<>>) = 0 /\ DOMAIN <<>> = {} /\ 1 .. 0 = {}
    OBVIOUS
  <2>3. PacketsOf(archive, 0) = 0
    <3>1. {m \in 1 .. 0 : archive[m].header % 2 = 0} = {}
      OBVIOUS
    <3> QED BY <3>1, FS_EmptySet DEF PacketsOf
  <2> QED BY <2>1, <2>2, <2>3 DEF AInv, Archived, Numbered, IsSequence
<1>2. ASSUME PInv, AInv, [Next]_vars PROVE AInv'
  <2>1. CASE CompressKnown
    BY <1>2, <2>1, KnownArchived
  <2>2. CASE CompressNew
    BY <1>2, <2>2, NewArchived
  <2>3. CASE ReadBlock \/ ReadAndChunk \/ Close
    <3>1. /\ pc = "read" /\ pc' # "failed"
          /\ UNCHANGED <<shaMap, chunkId, archive, log>>
      BY <2>3 DEF ReadBlock, ReadAndChunk, Close, dedupVars
    <3> QED BY <1>2, <3>1 DEF AInv, Archived, Numbered
  <2>4. CASE Ended \/ UNCHANGED vars
    <3>1. UNCHANGED <<pc, shaMap, chunkId, archive, log>>
      BY <2>4 DEF Ended, vars, dedupVars
    <3> QED BY <1>2, <3>1 DEF AInv, Archived, Numbered
  <2> QED BY <1>2, <2>1, <2>2, <2>3, <2>4 DEF Next
<1>3. ASSUME PInv, AInv PROVE ArchiveIsChunks
  <2>1. /\ Len(log) = Len(archive) /\ DOMAIN archive = 1 .. Len(archive)
        /\ \A n \in 1 .. Len(archive) : RecordHolds(archive, log, n)
    <3>1. IsSequence(archive)
      BY <1>3 DEF AInv, Archived
    <3> QED BY <1>3, <3>1, SequenceAppend DEF AInv, Archived
  <2>2. \A n : Packets(n) = PacketsOf(archive, n)
    BY DEF Packets, PacketsOf
  <2> QED BY <2>1, <2>2 DEF RecordHolds, ArchiveIsChunks
<1> QED BY <1>1, <1>2, <1>3, Invariance, PTL DEF Spec
=============================================================================
