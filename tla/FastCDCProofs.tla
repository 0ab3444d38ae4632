--------------------------- MODULE FastCDCProofs ----------------------------
(***************************************************************************)
(* Chunking covers every batch with chunks of bounded size that fit in the *)
(* chunk_indices buffer, and cuts the same bytes at the same places,       *)
(* whatever the gear table and the contents are.                           *)
(***************************************************************************)
EXTENDS FastCDC, SequenceTheorems, WellFoundedInduction, TLAPS

LEMMA ConstantFacts ==
  /\ MinSize \in Nat /\ MinSize > 0 /\ ChunkSize \in Nat /\ MinSize < ChunkSize
  /\ Word \in Nat /\ Word > 0 /\ MaxSlots \in Nat /\ MaxSlots > 2
  BY FastCDCAssumption

\* While it scans, the loop is no further behind the last boundary than a
\* chunk may be long; as every cut skips MinSize bytes, it is at least as far
\* into the buffer as that many cuts need.
ScanInv ==
  /\ prev = vect[Len(vect)]
  /\ i - prev <= ChunkSize
  /\ i >= prev + MinSize
  /\ i + 1 >= Len(vect) * (MinSize + 1)
  /\ prev < buffSize \/ prev = 0
  /\ Len(vect) <= MaxSlots - 2

IInv ==
  /\ TypeOK
  /\ ChunksCover
  /\ ChunkSizes
  /\ pc = "scan" => ScanInv
  /\ FitsChunkIndices

LEMMA LengthType ==
  ASSUME TypeOK
  PROVE  /\ buffSize \in Nat /\ buffSize <= BufferBound
         /\ Len(vect) \in Nat /\ Len(vect) > 0 /\ vect \in Seq(Nat)
         /\ \A k \in 1 .. Len(vect) : vect[k] \in Nat
<1>1. buff \in Seq(DOMAIN Gear) /\ Len(buff) <= BufferBound
  BY FastCDCAssumption DEF TypeOK
<1>2. Len(vect) \in Nat /\ Len(vect) > 0 /\ \A k \in 1 .. Len(vect) : vect[k] \in Nat
  BY EmptySeq, ElementOfSeq DEF TypeOK
<1> QED BY <1>1, <1>2, LenProperties DEF buffSize, TypeOK

LEMMA RolledType ==
  ASSUME TypeOK, i < buffSize
  PROVE  Rolled \in 0 .. Word - 1
<1>1. buff[i + 1] \in DOMAIN Gear
  <2>1. buff \in Seq(DOMAIN Gear) /\ i + 1 \in 1 .. Len(buff)
    BY LengthType, FastCDCAssumption DEF TypeOK, buffSize
  <2> QED BY <2>1, ElementOfSeq
<1>2. Gear[buff[i + 1]] \in Nat /\ hash \div 2 \in Nat
  BY <1>1, ConstantFacts, FastCDCAssumption DEF TypeOK
<1> DEFINE sum == (hash \div 2) + Gear[buff[i + 1]]
<1>3. sum \in Nat
  BY <1>2
<1> HIDE DEF sum
<1>4. sum % Word \in 0 .. Word - 1
  BY <1>3, ConstantFacts, SMT
<1> QED BY <1>4 DEF Rolled, sum

\* There is room for a boundary that the scan finds inside the buffer.
LEMMA RoomForCut ==
  ASSUME TypeOK, ScanInv, i < buffSize
  PROVE  Len(vect) + 1 <= MaxSlots - 2
<1> DEFINE step == MinSize + 1
<1>1. /\ Len(vect) \in Nat /\ i \in Nat /\ step \in Nat /\ MaxSlots - 2 \in Nat
      /\ MaxSlots - 3 \in Int
  BY LengthType, ConstantFacts DEF TypeOK
<1>2. i + 1 <= MinSize + (MaxSlots - 3) * step
  BY <1>1, LengthType, ConstantFacts DEF BufferBound, TypeOK
<1>3. Len(vect) * step <= i + 1
  BY <1>1 DEF ScanInv
<1>4. (MaxSlots - 2) * step = (MaxSlots - 3) * step + step
  BY <1>1, ConstantFacts
<1>5. Len(vect) * step < (MaxSlots - 2) * step
  BY <1>1, <1>2, <1>3, <1>4, ConstantFacts
<1>6. SUFFICES ASSUME MaxSlots - 2 <= Len(vect) PROVE FALSE
  BY <1>1
<1>7. PICK more \in Nat : Len(vect) = (MaxSlots - 2) + more
  BY <1>1, <1>6, Len(vect) - (MaxSlots - 2) \in Nat,
     Len(vect) = (MaxSlots - 2) + (Len(vect) - (MaxSlots - 2))
<1>8. Len(vect) * step = (MaxSlots - 2) * step + more * step /\ more * step \in Nat
  BY <1>1, <1>7
<1> QED BY <1>1, <1>5, <1>8

LEMMA InitInv == Init => IInv
<1> SUFFICES ASSUME Init PROVE IInv
  OBVIOUS
<1>1. vect = <<0>> /\ Len(vect) = 1 /\ vect[1] = 0 /\ vect \in Seq(Nat)
  BY DEF Init
<1>2. TypeOK
  BY <1>1, ConstantFacts DEF Init, TypeOK
<1>3. buffSize \in Nat
  BY <1>2, LengthType
<1>4. ScanInv
  BY <1>1, ConstantFacts DEF Init, ScanInv
<1>5. ChunksCover /\ ChunkSizes /\ FitsChunkIndices
  BY <1>1, ConstantFacts DEF Init, ChunksCover, ChunkSizes, FitsChunkIndices
<1> QED BY <1>2, <1>4, <1>5 DEF IInv

\* A boundary appended behind the last one keeps the chunks in order and size.
LEMMA AppendBoundary ==
  ASSUME IInv, NEW b \in Nat, vect' = Append(vect, b), buff' = buff,
         vect[Len(vect)] < b, b - vect[Len(vect)] <= ChunkSize,
         b # buffSize => b - vect[Len(vect)] >= MinSize
  PROVE  /\ vect' \in Seq(Nat) /\ vect' # <<>> /\ Len(vect') = Len(vect) + 1
         /\ vect'[Len(vect')] = b
         /\ vect'[1] = 0
         /\ \A k \in 1 .. Len(vect') - 1 : vect'[k] < vect'[k + 1]
         /\ ChunkSizes'
<1>1. /\ Len(vect) \in Nat /\ Len(vect) > 0 /\ vect \in Seq(Nat)
      /\ buffSize' = buffSize
  BY LengthType DEF IInv, buffSize
<1>2. /\ vect' \in Seq(Nat) /\ Len(vect') = Len(vect) + 1
      /\ \A k \in 1 .. Len(vect) : vect'[k] = vect[k]
      /\ vect'[Len(vect) + 1] = b
  BY <1>1, AppendProperties
<1>3. vect' # <<>> /\ vect'[1] = 0
  BY <1>1, <1>2 DEF IInv, ChunksCover
<1>4. ASSUME NEW k \in 1 .. Len(vect') - 1
      PROVE  /\ vect'[k] < vect'[k + 1]
             /\ vect'[k + 1] - vect'[k] <= ChunkSize
             /\ vect'[k + 1] # buffSize => vect'[k + 1] - vect'[k] >= MinSize
  <2>1. CASE k = Len(vect)
    <3>1. vect'[k] = vect[Len(vect)] /\ vect'[k + 1] = b
      BY <1>1, <1>2, <2>1
    <3> QED BY <3>1
  <2>2. CASE k # Len(vect)
    <3>1. k \in 1 .. Len(vect) - 1 /\ k \in 1 .. Len(vect) /\ k + 1 \in 1 .. Len(vect)
      BY <1>1, <1>2, <2>2
    <3>2. vect'[k] = vect[k] /\ vect'[k + 1] = vect[k + 1]
      BY <1>2, <3>1
    <3> QED BY <3>1, <3>2 DEF IInv, ChunksCover, ChunkSizes
  <2> QED BY <2>1, <2>2
<1>5. ChunkSizes'
  BY <1>1, <1>4 DEF ChunkSizes
<1> QED BY <1>1, <1>2, <1>3, <1>4, <1>5

LEMMA CutInv == IInv /\ Cut => IInv'
<1> SUFFICES ASSUME IInv, Cut PROVE IInv'
  OBVIOUS
<1>1. /\ TypeOK /\ ScanInv /\ i < buffSize /\ i \in Nat /\ prev \in Nat
      /\ buffSize' = buffSize /\ buffSize \in Nat
      /\ Len(vect) \in Nat /\ Len(vect) > 0
  BY LengthType DEF IInv, Cut, TypeOK, buffSize
<1>2. /\ vect[Len(vect)] < i /\ i - vect[Len(vect)] <= ChunkSize
      /\ i - vect[Len(vect)] >= MinSize
  BY <1>1, ConstantFacts DEF ScanInv
<1>3. /\ vect' \in Seq(Nat) /\ vect' # <<>> /\ Len(vect') = Len(vect) + 1
      /\ vect'[Len(vect')] = i
      /\ vect'[1] = 0
      /\ \A k \in 1 .. Len(vect') - 1 : vect'[k] < vect'[k + 1]
      /\ ChunkSizes'
  BY <1>1, <1>2, AppendBoundary DEF Cut
<1>4. TypeOK'
  BY <1>1, <1>3, ConstantFacts DEF Cut, TypeOK
<1>5. ChunksCover'
  BY <1>3 DEF Cut, ChunksCover
<1>6. Len(vect') <= MaxSlots - 2
  BY <1>1, <1>3, RoomForCut
<1>7. i' + 1 >= Len(vect') * (MinSize + 1)
  <2>1. (Len(vect) + 1) * (MinSize + 1) = Len(vect) * (MinSize + 1) + (MinSize + 1)
    BY <1>1, ConstantFacts
  <2>2. i + 1 >= Len(vect) * (MinSize + 1) /\ Len(vect) * (MinSize + 1) \in Nat
    BY <1>1, ConstantFacts DEF ScanInv
  <2> QED BY <1>1, <1>3, <2>1, <2>2, ConstantFacts DEF Cut
<1>8. ScanInv'
  BY <1>1, <1>3, <1>6, <1>7, ConstantFacts DEF Cut, ScanInv
<1>9. FitsChunkIndices'
  BY <1>1, <1>3, <1>6, ConstantFacts DEF FitsChunkIndices
<1> QED BY <1>3, <1>4, <1>5, <1>8, <1>9 DEF IInv

LEMMA ScanStepInv == IInv /\ Scan => IInv'
<1> SUFFICES ASSUME IInv, Scan PROVE IInv'
  OBVIOUS
<1>1. /\ TypeOK /\ ScanInv /\ i < buffSize /\ i \in Nat /\ prev \in Nat
      /\ buffSize' = buffSize /\ Len(vect) \in Nat
  BY LengthType DEF IInv, Scan, TypeOK, buffSize
<1>2. Rolled \in 0 .. Word - 1
  BY <1>1, RolledType
<1>3. TypeOK'
  BY <1>1, <1>2 DEF Scan, TypeOK
<1>4. ScanInv'
  <2>1. i - prev # ChunkSize
    BY DEF Scan, IsBoundary
  <2>2. i' + 1 >= Len(vect) * (MinSize + 1)
    <3>1. Len(vect) * (MinSize + 1) \in Nat /\ i + 1 >= Len(vect) * (MinSize + 1)
      BY <1>1, ConstantFacts DEF ScanInv
    <3> QED BY <1>1, <3>1 DEF Scan
  <2> QED BY <1>1, <2>1, <2>2, ConstantFacts DEF Scan, ScanInv
<1>5. ChunksCover' /\ ChunkSizes' /\ FitsChunkIndices'
  BY <1>1 DEF Scan, IInv, ChunksCover, ChunkSizes, FitsChunkIndices
<1> QED BY <1>3, <1>4, <1>5 DEF IInv

LEMMA FinishInv == IInv /\ Finish => IInv'
<1> SUFFICES ASSUME IInv, Finish PROVE IInv'
  OBVIOUS
<1>1. /\ TypeOK /\ ScanInv /\ i >= buffSize /\ i \in Nat /\ prev \in Nat
      /\ buffSize' = buffSize /\ buffSize \in Nat /\ Len(vect) \in Nat
      /\ pc' = "done"
  BY LengthType DEF IInv, Finish, TypeOK, buffSize
<1>2. CASE vect[Len(vect)] = buffSize
  <2>1. vect' = vect
    BY <1>2 DEF Finish
  <2> QED BY <1>1, <1>2, <2>1
          DEF Finish, IInv, TypeOK, ChunksCover, ChunkSizes, FitsChunkIndices
<1>3. CASE vect[Len(vect)] # buffSize
  <2>1. vect' = Append(vect, buffSize) /\ buff' = buff
    BY <1>3 DEF Finish
  <2>2. vect[Len(vect)] < buffSize /\ buffSize - vect[Len(vect)] <= ChunkSize
    BY <1>1, <1>3, ConstantFacts DEF ScanInv
  <2>3. /\ vect' \in Seq(Nat) /\ vect' # <<>> /\ Len(vect') = Len(vect) + 1
        /\ vect'[Len(vect')] = buffSize
        /\ vect'[1] = 0
        /\ \A k \in 1 .. Len(vect') - 1 : vect'[k] < vect'[k + 1]
        /\ ChunkSizes'
    BY <1>1, <2>1, <2>2, AppendBoundary
  <2>4. TypeOK' /\ ChunksCover'
    BY <1>1, <2>3 DEF Finish, TypeOK, ChunksCover
  <2>5. FitsChunkIndices'
    BY <1>1, <2>3, ConstantFacts DEF ScanInv, FitsChunkIndices
  <2> QED BY <1>1, <2>3, <2>4, <2>5 DEF IInv
<1> QED BY <1>2, <1>3

LEMMA Invariant == Spec => []IInv
<1>1. IInv /\ UNCHANGED vars => IInv'
  BY DEF IInv, vars, TypeOK, ScanInv, ChunksCover, ChunkSizes, FitsChunkIndices,
     buffSize
<1>2. IInv /\ [Next]_vars => IInv'
  BY <1>1, CutInv, ScanStepInv, FinishInv DEF Next, Done
<1> QED BY <1>2, InitInv, PTL DEF Spec

\* Hash, positions and boundaries stay in range.
THEOREM TypeCorrect == Spec => []TypeOK
  BY Invariant, PTL DEF IInv

\* The boundaries ascend from 0, without an empty chunk, to the batch's end.
THEOREM ChunksCoverHolds == Spec => []ChunksCover
  BY Invariant, PTL DEF IInv

\* Chunks are at most ChunkSize and, but for the last, at least MinSize long.
THEOREM ChunkSizesHold == Spec => []ChunkSizes
  BY Invariant, PTL DEF IInv

\* The boundaries and their number fit in the chunk_indices buffer.
THEOREM FitsChunkIndicesHolds == Spec => []FitsChunkIndices
  BY Invariant, PTL DEF IInv

-----------------------------------------------------------------------------
\* A set of numbers that holds 0 and with a number the next one holds all.
LEMMA NumbersInSet ==
  ASSUME NEW T, 0 \in T, \A n \in Nat : n \in T => n + 1 \in T
  PROVE  \A n \in Nat : n \in T
<1> DEFINE S == {n \in Nat : n \notin T}
<1>1. SUFFICES ASSUME S # {} PROVE FALSE
  OBVIOUS
<1>2. PICK x \in S : \A y \in S : ~(<<y, x>> \in OpToRel(<, Nat))
  BY <1>1, NatLessThanWellFounded, WFMin, S \subseteq Nat
<1>3. x \in Nat /\ x \notin T /\ x # 0
  OBVIOUS
<1>4. x - 1 \in Nat /\ x - 1 < x /\ (x - 1) + 1 = x
  BY <1>3, SMT
<1>5. x - 1 \in S
  BY <1>3, <1>4
<1>6. <<x - 1, x>> \in OpToRel(<, Nat)
  BY <1>3, <1>4 DEF OpToRel
<1> QED BY <1>2, <1>5, <1>6

\* The hashes h that the loop has had at the positions of a chunk: it starts
\* with 0, and where it did not cut it had no reason to.
RolledAt(h, p) == ((h[p] \div 2) + Gear[buff[p + 1]]) % Word

Scanned(h, from, to) ==
  /\ h[from + MinSize + 1] = 0
  /\ \A p \in from + MinSize + 1 .. to - 1 :
       /\ h[p + 1] = RolledAt(h, p)
       /\ ~Masked(RolledAt(h, p)) /\ p - from # ChunkSize

\* Where it did cut it had one.
CutAt(h, from, to) ==
  /\ to >= from + MinSize + 1
  /\ Masked(RolledAt(h, to)) \/ to - from = ChunkSize

Last == vect[Len(vect)]

TraceOf(h) ==
  /\ \A k \in 2 .. Len(vect) - 1 :
       /\ Scanned(h, vect[k], vect[k + 1])
       /\ vect[k + 1] < buffSize => CutAt(h, vect[k], vect[k + 1])
  /\ pc = "scan" /\ Len(vect) > 1 =>
       Scanned(h, Last, i) /\ h[i] = hash /\ i >= Last + MinSize + 1

\* The boundaries stay behind the scan, and there are such hashes.
TraceInv ==
  /\ \A k \in 1 .. Len(vect) : vect[k] <= i /\ (pc = "scan" => vect[k] < i)
  /\ \E h : TraceOf(h)

LEMMA InitTrace == Init => TraceInv
<1> SUFFICES ASSUME Init PROVE TraceInv
  OBVIOUS
<1>1. Len(vect) = 1 /\ vect[1] = 0
  BY DEF Init
<1>3. TraceOf([n \in Nat |-> 0])
  BY <1>1 DEF TraceOf
<1>4. \A k \in 1 .. Len(vect) : vect[k] <= i /\ vect[k] < i
  BY <1>1, ConstantFacts DEF Init
<1> QED BY <1>3, <1>4 DEF TraceInv

LEMMA CutTrace == IInv /\ TraceInv /\ Cut => TraceInv'
<1> SUFFICES ASSUME IInv, TraceInv, Cut PROVE TraceInv'
  OBVIOUS
<1>1. PICK h : TraceOf(h)
  BY DEF TraceInv
<1>2. /\ ScanInv /\ i < buffSize /\ i \in Nat /\ pc = "scan" /\ pc' = "scan"
      /\ buffSize' = buffSize /\ buffSize \in Nat /\ buff' = buff
      /\ Len(vect) \in Nat /\ Len(vect) > 0 /\ vect \in Seq(Nat)
      /\ \A k \in 1 .. Len(vect) : vect[k] \in Nat /\ vect[k] < i
  BY LengthType DEF IInv, Cut, TypeOK, buffSize, TraceInv
<1>3. /\ vect' \in Seq(Nat) /\ Len(vect') = Len(vect) + 1
      /\ \A k \in 1 .. Len(vect) : vect'[k] = vect[k]
      /\ vect'[Len(vect) + 1] = i
  BY <1>2, AppendProperties DEF Cut
<1>4. i' = i + MinSize + 1 /\ hash' = 0 /\ MinSize \in Nat
  BY <1>2, ConstantFacts DEF Cut
<1>5. PICK g : g[i'] = 0 /\ \A p \in Nat : p <= i => g[p] = h[p]
  <2> DEFINE f == [n \in Nat |-> IF n = i' THEN 0 ELSE h[n]]
  <2>1. f[i'] = 0 /\ \A p \in Nat : p <= i => f[p] = h[p]
    BY <1>2, <1>4
  <2> QED BY <2>1
<1>6. ASSUME NEW from \in Nat, NEW to \in Nat, to <= i, Scanned(h, from, to),
             from + MinSize + 1 <= i
      PROVE  Scanned(g, from, to)
  <2>1. from + MinSize + 1 \in Nat /\ g[from + MinSize + 1] = 0
    BY <1>5, <1>4, <1>6 DEF Scanned
  <2>2. ASSUME NEW p \in from + MinSize + 1 .. to - 1
        PROVE  g[p + 1] = RolledAt(g, p) /\ RolledAt(g, p) = RolledAt(h, p)
    <3>1. p \in Nat /\ p + 1 \in Nat /\ p <= i /\ p + 1 <= i
      BY <1>2, <1>4, <1>6
    <3>2. g[p] = h[p] /\ g[p + 1] = h[p + 1]
      BY <3>1, <1>5
    <3> QED BY <3>2, <1>6 DEF RolledAt, Scanned
  <2> QED BY <1>6, <2>1, <2>2 DEF Scanned
<1>7. \A p \in Nat : p <= i => RolledAt(g, p) = RolledAt(h, p)
  BY <1>5 DEF RolledAt
<1>8. ASSUME NEW k \in 2 .. Len(vect') - 1
      PROVE  /\ Scanned(g, vect'[k], vect'[k + 1])
             /\ vect'[k + 1] < buffSize /\ CutAt(g, vect'[k], vect'[k + 1])
  <2>1. CASE k < Len(vect)
    <3>1. /\ k \in 2 .. Len(vect) - 1 /\ k \in 1 .. Len(vect) /\ k + 1 \in 1 .. Len(vect)
          /\ vect'[k] = vect[k] /\ vect'[k + 1] = vect[k + 1]
      BY <1>2, <1>3, <2>1
    <3>2. /\ Scanned(h, vect[k], vect[k + 1]) /\ vect[k] \in Nat
          /\ vect[k + 1] \in Nat /\ vect[k + 1] < i
          /\ vect[k + 1] < buffSize /\ CutAt(h, vect[k], vect[k + 1])
      BY <1>1, <1>2, <3>1 DEF TraceOf
    <3>3. vect[k] + MinSize + 1 <= i
      BY <1>2, <1>4, <3>2 DEF CutAt
    <3>4. RolledAt(g, vect[k + 1]) = RolledAt(h, vect[k + 1])
      BY <1>2, <1>7, <3>2
    <3>5. Scanned(g, vect[k], vect[k + 1])
      BY <1>2, <1>6, <3>2, <3>3
    <3>6. CutAt(g, vect[k], vect[k + 1])
      BY <3>2, <3>4 DEF CutAt
    <3> QED BY <3>1, <3>2, <3>5, <3>6
  <2>2. CASE k = Len(vect)
    <3>1. Len(vect) > 1 /\ vect'[k] = Last /\ vect'[k + 1] = i
      BY <1>2, <1>3, <2>2 DEF Last
    <3>2. /\ Scanned(h, Last, i) /\ h[i] = hash /\ i >= Last + MinSize + 1
          /\ Last \in Nat
      BY <1>1, <1>2, <3>1 DEF TraceOf, Last
    <3>3. Scanned(g, Last, i)
      BY <1>2, <1>4, <1>6, <3>2
    <3>4. RolledAt(g, i) = Rolled
      BY <1>2, <1>7, <3>2 DEF RolledAt, Rolled
    <3>5. Masked(RolledAt(g, i)) \/ i - Last = ChunkSize
      BY <1>2, <3>4, Zenon DEF Cut, IsBoundary, ScanInv, Last
    <3>6. CutAt(g, Last, i)
      BY <3>2, <3>5 DEF CutAt
    <3> QED BY <1>2, <3>1, <3>3, <3>6
  <2> QED BY <1>2, <1>3, <2>1, <2>2
<1>9. Scanned(g, i, i') /\ Last' = i
  BY <1>2, <1>3, <1>4, <1>5 DEF Scanned, Last
<1>10. /\ \A f, to, from : Scanned(f, from, to)' <=> Scanned(f, from, to)
       /\ \A f, to, from : CutAt(f, from, to)' <=> CutAt(f, from, to)
  BY <1>2 DEF Scanned, CutAt, RolledAt
<1>11. \A k \in 2 .. Len(vect') - 1 :
         /\ Scanned(g, vect'[k], vect'[k + 1])
         /\ vect'[k + 1] < buffSize => CutAt(g, vect'[k], vect'[k + 1])
  BY <1>8
<1>12. g[i'] = hash' /\ i' >= Last' + MinSize + 1
  BY <1>2, <1>4, <1>5, <1>9
<1>13. TraceOf(g)'
  BY <1>2, <1>9, <1>10, <1>11, <1>12 DEF TraceOf, Scanned, CutAt, RolledAt
<1>14. ASSUME NEW k \in 1 .. Len(vect')
       PROVE  vect'[k] < i' /\ vect'[k] <= i'
  <2>1. CASE k = Len(vect) + 1
    BY <1>2, <1>3, <1>4, <2>1
  <2>2. CASE k # Len(vect) + 1
    <3>1. k \in 1 .. Len(vect) /\ vect'[k] = vect[k]
      BY <1>2, <1>3, <2>2
    <3> QED BY <1>2, <1>4, <3>1
  <2> QED BY <2>1, <2>2
<1> QED BY <1>2, <1>13, <1>14 DEF TraceInv

LEMMA ScanTrace == IInv /\ TraceInv /\ Scan => TraceInv'
<1> SUFFICES ASSUME IInv, TraceInv, Scan PROVE TraceInv'
  OBVIOUS
<1>1. PICK h : TraceOf(h)
  BY DEF TraceInv
<1>2. /\ TypeOK /\ i < buffSize /\ i \in Nat /\ pc = "scan" /\ pc' = "scan"
      /\ buffSize' = buffSize /\ buffSize \in Nat /\ buff' = buff /\ vect' = vect
      /\ Len(vect) \in Nat /\ Len(vect) > 0 /\ i' = i + 1 /\ hash' = Rolled
      /\ ~Masked(Rolled) /\ i - prev # ChunkSize /\ prev = Last
      /\ \A k \in 1 .. Len(vect) : vect[k] \in Nat /\ vect[k] < i
  BY LengthType DEF IInv, Scan, TypeOK, buffSize, TraceInv, ScanInv, IsBoundary, Last
<1>4. PICK g : g[i'] = Rolled /\ \A p \in Nat : p <= i => g[p] = h[p]
  <2> DEFINE f == [n \in Nat |-> IF n = i' THEN Rolled ELSE h[n]]
  <2>1. f[i'] = Rolled /\ \A p \in Nat : p <= i => f[p] = h[p]
    BY <1>2
  <2> QED BY <2>1
<1>5. ASSUME NEW from \in Nat, NEW to \in Nat, to <= i, Scanned(h, from, to),
             from + MinSize + 1 <= i
      PROVE  Scanned(g, from, to)
  <2>1. from + MinSize + 1 \in Nat /\ g[from + MinSize + 1] = 0
    BY <1>4, <1>5, ConstantFacts DEF Scanned
  <2>2. ASSUME NEW p \in from + MinSize + 1 .. to - 1
        PROVE  g[p + 1] = RolledAt(g, p) /\ RolledAt(g, p) = RolledAt(h, p)
    <3>1. p \in Nat /\ p + 1 \in Nat /\ p <= i /\ p + 1 <= i
      BY <1>2, <1>5, ConstantFacts
    <3>2. g[p] = h[p] /\ g[p + 1] = h[p + 1]
      BY <3>1, <1>4
    <3> QED BY <3>2, <1>5 DEF RolledAt, Scanned
  <2> QED BY <1>5, <2>1, <2>2 DEF Scanned
<1>6. \A p \in Nat : p <= i => RolledAt(g, p) = RolledAt(h, p)
  BY <1>4 DEF RolledAt
<1>7. ASSUME NEW k \in 2 .. Len(vect) - 1
      PROVE  /\ Scanned(g, vect[k], vect[k + 1])
             /\ vect[k + 1] < buffSize /\ CutAt(g, vect[k], vect[k + 1])
  <2>1. /\ k \in 1 .. Len(vect) /\ k + 1 \in 1 .. Len(vect)
    BY <1>2
  <2>2. /\ Scanned(h, vect[k], vect[k + 1]) /\ vect[k] \in Nat
        /\ vect[k + 1] \in Nat /\ vect[k + 1] < i
        /\ vect[k + 1] < buffSize /\ CutAt(h, vect[k], vect[k + 1])
    BY <1>1, <1>2, <2>1 DEF TraceOf
  <2>3. vect[k] + MinSize + 1 <= i
    BY <1>2, <2>2, ConstantFacts DEF CutAt
  <2>4. RolledAt(g, vect[k + 1]) = RolledAt(h, vect[k + 1])
    BY <1>2, <1>6, <2>2
  <2>5. Scanned(g, vect[k], vect[k + 1])
    BY <1>2, <1>5, <2>2, <2>3
  <2>6. CutAt(g, vect[k], vect[k + 1])
    BY <2>2, <2>4 DEF CutAt
  <2> QED BY <2>2, <2>5, <2>6
<1>8. ASSUME Len(vect) > 1
      PROVE  Scanned(g, Last, i + 1) /\ i >= Last + MinSize + 1
  <2>1. Scanned(h, Last, i) /\ h[i] = hash /\ i >= Last + MinSize + 1 /\ Last \in Nat
    BY <1>1, <1>2, <1>8 DEF TraceOf, Last
  <2>2. Scanned(g, Last, i)
    BY <1>2, <1>5, <2>1
  <2>3. g[i + 1] = RolledAt(g, i) /\ RolledAt(g, i) = Rolled
    BY <1>2, <1>4, <1>6, <2>1 DEF RolledAt, Rolled
  <2>4. ASSUME NEW p \in Last + MinSize + 1 .. (i + 1) - 1
        PROVE  /\ g[p + 1] = RolledAt(g, p)
               /\ ~Masked(RolledAt(g, p)) /\ p - Last # ChunkSize
    <3>1. CASE p = i
      BY <1>2, <2>3, <3>1
    <3>2. CASE p # i
      <4>1. p \in Last + MinSize + 1 .. i - 1
        BY <1>2, <2>1, <3>2, ConstantFacts
      <4> QED BY <2>2, <4>1 DEF Scanned
    <3> QED BY <3>1, <3>2
  <2> QED BY <2>1, <2>2, <2>4 DEF Scanned
<1>9. TraceOf(g)'
  <2>1. Last' = Last /\ Last \in Nat
    BY <1>2 DEF Last
  <2>2. Len(vect) > 1 => Scanned(g, Last, i') /\ g[i'] = hash' /\ i' >= Last + MinSize + 1
    BY <1>2, <1>4, <1>8, <2>1, ConstantFacts
  <2> QED BY <1>2, <1>7, <2>1, <2>2 DEF TraceOf, Scanned, CutAt, RolledAt
<1>10. \A k \in 1 .. Len(vect') : vect'[k] < i' /\ vect'[k] <= i'
  BY <1>2
<1> QED BY <1>2, <1>9, <1>10 DEF TraceInv

LEMMA FinishTrace == IInv /\ TraceInv /\ Finish => TraceInv'
<1> SUFFICES ASSUME IInv, TraceInv, Finish PROVE TraceInv'
  OBVIOUS
<1>1. PICK h : TraceOf(h)
  BY DEF TraceInv
<1>2. /\ TypeOK /\ i >= buffSize /\ i \in Nat /\ pc = "scan" /\ pc' = "done"
      /\ buffSize' = buffSize /\ buffSize \in Nat /\ buff' = buff /\ i' = i
      /\ Len(vect) \in Nat /\ Len(vect) > 0 /\ vect \in Seq(Nat)
      /\ \A k \in 1 .. Len(vect) : vect[k] \in Nat /\ vect[k] < i
  BY LengthType DEF IInv, Finish, TypeOK, buffSize, TraceInv
<1>3. CASE vect' = vect
  <2>1. TraceOf(h)'
    BY <1>1, <1>2, <1>3 DEF TraceOf, Scanned, CutAt, RolledAt
  <2> QED BY <1>2, <1>3, <2>1 DEF TraceInv
<1>4. CASE vect' = Append(vect, buffSize)
  <2>1. /\ Len(vect') = Len(vect) + 1
        /\ \A k \in 1 .. Len(vect) : vect'[k] = vect[k]
        /\ vect'[Len(vect) + 1] = buffSize
    BY <1>2, <1>4, AppendProperties
  <2>2. ASSUME NEW k \in 2 .. Len(vect') - 1
        PROVE  /\ Scanned(h, vect'[k], vect'[k + 1])
               /\ vect'[k + 1] < buffSize => CutAt(h, vect'[k], vect'[k + 1])
    <3>1. CASE k < Len(vect)
      <4>1. /\ k \in 2 .. Len(vect) - 1 /\ k \in 1 .. Len(vect) /\ k + 1 \in 1 .. Len(vect)
            /\ vect'[k] = vect[k] /\ vect'[k + 1] = vect[k + 1]
        BY <1>2, <2>1, <3>1
      <4> QED BY <1>1, <4>1 DEF TraceOf
    <3>2. CASE k = Len(vect)
      <4>1. Len(vect) > 1 /\ vect'[k] = Last /\ vect'[k + 1] = buffSize
        BY <1>2, <2>1, <3>2 DEF Last
      <4>2. Scanned(h, Last, i) /\ Last \in Nat
        BY <1>1, <1>2, <4>1 DEF TraceOf, Last
      <4>3. Scanned(h, Last, buffSize)
        BY <1>2, <4>2, ConstantFacts DEF Scanned
      <4> QED BY <1>2, <4>1, <4>3
    <3> QED BY <1>2, <2>1, <3>1, <3>2
  <2>3. TraceOf(h)'
    BY <1>2, <2>2 DEF TraceOf, Scanned, CutAt, RolledAt
  <2> QED BY <1>2, <2>1, <2>3 DEF TraceInv
<1> QED BY <1>3, <1>4 DEF Finish

\* Two chunks with the same bytes: the hashes are the same, as long as both
\* are scanned, so that the one cannot be cut before the other.
LEMMA SameHashes ==
  ASSUME IInv, NEW h, NEW a \in Nat, NEW b \in Nat,
         NEW x \in Nat, x <= ChunkSize,
         \A d \in 0 .. ChunkSize : buff[a + d + 1] = buff[b + d + 1],
         Scanned(h, a, a + x), Scanned(h, b, b + x)
  PROVE  \A d \in MinSize + 1 .. x : h[a + d] = h[b + d]
<1> DEFINE T == {n \in Nat : MinSize + 1 + n <= x =>
                               h[a + (MinSize + 1 + n)] = h[b + (MinSize + 1 + n)]}
<1>1. 0 \in T
  <2>1. h[a + MinSize + 1] = 0 /\ h[b + MinSize + 1] = 0
    BY DEF Scanned
  <2>2. a + (MinSize + 1 + 0) = a + MinSize + 1 /\ b + (MinSize + 1 + 0) = b + MinSize + 1
    BY ConstantFacts
  <2> QED BY <2>1, <2>2
<1>2. ASSUME NEW n \in Nat, n \in T PROVE n + 1 \in T
  <2>1. SUFFICES ASSUME MinSize + 1 + (n + 1) <= x
                 PROVE  h[a + (MinSize + 1 + (n + 1))] = h[b + (MinSize + 1 + (n + 1))]
    OBVIOUS
  <2> DEFINE d == MinSize + 1 + n
  <2>2. /\ d \in Nat /\ d + 1 <= x /\ d \in 0 .. ChunkSize /\ MinSize + 1 + (n + 1) = d + 1
        /\ d >= MinSize + 1
    BY <2>1, ConstantFacts
  <2>3. h[a + d] = h[b + d]
    BY <1>2, <2>2
  <2> HIDE DEF d
  <2>4. /\ a + d \in a + MinSize + 1 .. (a + x) - 1 /\ b + d \in b + MinSize + 1 .. (b + x) - 1
        /\ a + (d + 1) = (a + d) + 1 /\ b + (d + 1) = (b + d) + 1
        /\ a + d + 1 = (a + d) + 1 /\ b + d + 1 = (b + d) + 1
    BY <2>2, ConstantFacts
  <2>5. h[(a + d) + 1] = RolledAt(h, a + d) /\ h[(b + d) + 1] = RolledAt(h, b + d)
    BY <2>4 DEF Scanned
  <2>6. buff[(a + d) + 1] = buff[(b + d) + 1]
    BY <2>2, <2>4
  <2>7. RolledAt(h, a + d) = RolledAt(h, b + d)
    BY <2>3, <2>6 DEF RolledAt
  <2> QED BY <2>2, <2>4, <2>5, <2>7
<1>3. \A n \in Nat : n \in T
  <2> HIDE DEF T
  <2> QED BY <1>1, <1>2, NumbersInSet
<1>4. ASSUME NEW d \in MinSize + 1 .. x PROVE h[a + d] = h[b + d]
  <2>1. d - (MinSize + 1) \in Nat /\ MinSize + 1 + (d - (MinSize + 1)) = d /\ d <= x
    BY ConstantFacts
  <2> QED BY <1>3, <2>1
<1> QED BY <1>4

LEMMA NotCutBefore ==
  ASSUME IInv, NEW h, NEW a \in Nat, NEW b \in Nat,
         NEW x \in Nat, NEW y \in Nat, x < y, x <= ChunkSize,
         \A d \in 0 .. ChunkSize : buff[a + d + 1] = buff[b + d + 1],
         Scanned(h, a, a + x), CutAt(h, a, a + x), Scanned(h, b, b + y)
  PROVE  FALSE
<1>1. Scanned(h, b, b + x)
  BY ConstantFacts DEF Scanned
<1>2. /\ x \in MinSize + 1 .. x /\ x \in 0 .. ChunkSize /\ (a + x) - a = x /\ (b + x) - b = x
      /\ b + x \in b + MinSize + 1 .. (b + y) - 1
      /\ a + x + 1 = (a + x) + 1 /\ b + x + 1 = (b + x) + 1
  BY ConstantFacts DEF CutAt
<1>3. h[a + x] = h[b + x] /\ buff[(a + x) + 1] = buff[(b + x) + 1]
  BY <1>1, <1>2, SameHashes
<1>4. RolledAt(h, a + x) = RolledAt(h, b + x)
  BY <1>3 DEF RolledAt
<1>5. Masked(RolledAt(h, a + x)) \/ x = ChunkSize
  BY <1>2 DEF CutAt
<1>6. ~Masked(RolledAt(h, b + x)) /\ x # ChunkSize
  BY <1>2 DEF Scanned
<1> QED BY <1>4, <1>5, <1>6

LEMMA TraceGivesSameCut == IInv /\ TraceInv => SameContentSameCut
<1> SUFFICES ASSUME IInv, TraceInv, pc = "done",
                    NEW j \in 2 .. Len(vect) - 1, NEW k \in 2 .. Len(vect) - 1,
                    vect[j] + ChunkSize < buffSize, vect[k] + ChunkSize < buffSize,
                    Following(j) = Following(k)
             PROVE  vect[j + 1] - vect[j] = vect[k + 1] - vect[k]
  BY DEF SameContentSameCut
<1>1. PICK h : TraceOf(h)
  BY DEF TraceInv
<1>2. /\ Len(vect) \in Nat /\ buffSize \in Nat /\ buffSize = Len(buff)
      /\ buff \in Seq(DOMAIN Gear)
      /\ \A m \in 1 .. Len(vect) : vect[m] \in Nat
  BY LengthType, FastCDCAssumption DEF IInv, TypeOK, buffSize
<1>3. ASSUME NEW m \in 2 .. Len(vect) - 1, vect[m] + ChunkSize < buffSize
      PROVE  /\ vect[m] \in Nat /\ vect[m + 1] - vect[m] \in Nat
             /\ vect[m + 1] - vect[m] <= ChunkSize
             /\ vect[m] + (vect[m + 1] - vect[m]) = vect[m + 1]
             /\ Scanned(h, vect[m], vect[m + 1]) /\ CutAt(h, vect[m], vect[m + 1])
             /\ \A d \in 0 .. ChunkSize : buff[vect[m] + d + 1] = Following(m)[d + 1]
  <2>1. m \in 1 .. Len(vect) /\ m + 1 \in 1 .. Len(vect) /\ m \in 1 .. Len(vect) - 1
    BY <1>2
  <2>2. vect[m] \in Nat /\ vect[m + 1] \in Nat
    BY <1>2, <2>1
  <2>3. vect[m] < vect[m + 1] /\ vect[m + 1] - vect[m] <= ChunkSize
    BY <2>1 DEF IInv, ChunksCover, ChunkSizes
  <2>4. vect[m + 1] < buffSize
    BY <1>2, <1>3, <2>2, <2>3, ConstantFacts
  <2>5. Scanned(h, vect[m], vect[m + 1]) /\ CutAt(h, vect[m], vect[m + 1])
    BY <1>1, <2>4 DEF TraceOf
  <2>6. ASSUME NEW d \in 0 .. ChunkSize
        PROVE  buff[vect[m] + d + 1] = Following(m)[d + 1]
    <3> DEFINE n == vect[m]
    <3>1. n \in Nat /\ n + ChunkSize < Len(buff) /\ Len(buff) \in Nat
      BY <1>2, <1>3, <2>2
    <3> HIDE DEF n
    <3>2. /\ n + 1 \in 1 .. Len(buff) + 1 /\ n + ChunkSize + 1 \in 0 .. Len(buff)
          /\ d + 1 \in 1 .. (n + ChunkSize + 1) - (n + 1) + 1
          /\ (n + 1) + (d + 1) - 1 = n + d + 1
      BY <3>1, ConstantFacts
    <3>3. SubSeq(buff, n + 1, n + ChunkSize + 1)[d + 1] = buff[(n + 1) + (d + 1) - 1]
      BY <1>2, <3>2, SubSeqProperties
    <3> QED BY <3>2, <3>3 DEF Following, n
  <2> QED BY <2>2, <2>3, <2>5, <2>6
<1> DEFINE a == vect[j]
           b == vect[k]
           x == vect[j + 1] - vect[j]
           y == vect[k + 1] - vect[k]
<1>4. /\ a \in Nat /\ b \in Nat /\ x \in Nat /\ y \in Nat
      /\ x <= ChunkSize /\ y <= ChunkSize
      /\ Scanned(h, a, a + x) /\ CutAt(h, a, a + x)
      /\ Scanned(h, b, b + y) /\ CutAt(h, b, b + y)
  BY <1>3
<1>5. /\ \A d \in 0 .. ChunkSize : buff[a + d + 1] = buff[b + d + 1]
      /\ \A d \in 0 .. ChunkSize : buff[b + d + 1] = buff[a + d + 1]
  <2>1. \A d \in 0 .. ChunkSize : buff[a + d + 1] = Following(j)[d + 1]
    BY <1>3
  <2>2. \A d \in 0 .. ChunkSize : buff[b + d + 1] = Following(k)[d + 1]
    BY <1>3
  <2>3. Following(j) = Following(k)
    OBVIOUS
  <2> HIDE DEF a, b
  <2> QED BY <2>1, <2>2, <2>3
<1> HIDE DEF a, b, x, y
<1>6. ~(x < y) /\ ~(y < x)
  BY <1>4, <1>5, NotCutBefore
<1>7. x = y
  BY <1>4, <1>6
<1> QED BY <1>7 DEF x, y

\* The same bytes behind two boundaries are cut at the same place.
THEOREM SameContentSameCutHolds == Spec => []SameContentSameCut
<1>1. IInv /\ TraceInv /\ UNCHANGED vars => TraceInv'
  BY DEF TraceInv, vars, TraceOf, Scanned, CutAt, RolledAt, Last, buffSize
<1>2. IInv /\ TraceInv /\ [Next]_vars => TraceInv'
  BY <1>1, CutTrace, ScanTrace, FinishTrace DEF Next, Done
<1> QED BY <1>2, InitTrace, Invariant, TraceGivesSameCut, PTL DEF Spec
=============================================================================
