------------------------- MODULE DedupArchiveProofs -------------------------
(***************************************************************************)
(* The out-of-order queue, the kernel's run and the host's pointer: the    *)
(* codes the host puts into a chunk's record are that chunk's.  Then what  *)
(* the archive holds and what the decoder makes of it: the numbers dedup   *)
(* gives out, batch after batch, are the places in the decoder's table,    *)
(* and the bits of a packet are the codes again.                           *)
(***************************************************************************)
EXTENDS DedupArchive, CodingProofs, FiniteSetTheorems

LEMMA ConstantFacts ==
  /\ \A c \in Chunks : Codes[c] \in Seq(Nat) /\ Len(Codes[c]) \in Nat /\ Len(Codes[c]) > 0
  /\ MaxBatch \in Nat
  /\ Nothing \notin Chunks /\ MayFail \subseteq {TRUE}
<1>1. ASSUME NEW c \in Chunks
      PROVE  Codes[c] \in Seq(0 .. 8191) /\ Codes[c] # <<>>
  BY DedupArchiveAssumption
<1>2. ASSUME NEW c \in Chunks
      PROVE  Codes[c] \in Seq(Nat) /\ Len(Codes[c]) \in Nat /\ Len(Codes[c]) > 0
  <2> DEFINE CodeWords == 0 .. 8191
  <2>1. CodeWords \subseteq Nat
    OBVIOUS
  <2>2. Codes[c] \in Seq(CodeWords) /\ Codes[c] # <<>>
    BY <1>1
  <2> HIDE DEF CodeWords
  <2>3. Codes[c] \in Seq(Nat)
    BY <2>1, <2>2, SeqMonotonic
  <2>4. Len(Codes[c]) \in Nat \ {0}
    BY <2>2, EmptySeq
  <2> QED BY <2>3, <2>4
<1> QED BY <1>2, DedupArchiveAssumption

-----------------------------------------------------------------------------
(* Codes of a batch, one chunk's behind the other's *)

\* off[k] is where the codes of the k-th chunk end.
Offsets(off, batch, codes, m) ==
  /\ off \in [0 .. m -> Nat]
  /\ off[0] = 0
  /\ \A k \in 0 .. m : off[k] <= Len(codes)
  /\ \A k \in 1 .. m :
       /\ off[k] = off[k - 1] + Len(Codes[batch[k]])
       /\ \A j \in 1 .. Len(Codes[batch[k]]) :
            codes[off[k - 1] + j] = Codes[batch[k]][j]

\* What is put behind the codes leaves them where they are.
LEMMA OffsetsPrefix ==
  ASSUME NEW batch \in Seq(Chunks), NEW m \in 0 .. Len(batch),
         NEW out \in Seq(Nat), NEW rest \in Seq(Nat),
         NEW off, Offsets(off, batch, out, m)
  PROVE  Offsets(off, batch, out \o rest, m)
<1>1. /\ Len(out) \in Nat /\ Len(rest) \in Nat
      /\ Len(out \o rest) = Len(out) + Len(rest)
      /\ \A x \in 1 .. Len(out) : (out \o rest)[x] = out[x]
  <2>1. Len(out) \in Nat /\ Len(rest) \in Nat
    BY LenProperties
  <2>2. /\ Len(out \o rest) = Len(out) + Len(rest)
        /\ \A x \in 1 .. Len(out) + Len(rest) :
             (out \o rest)[x] = IF x <= Len(out) THEN out[x] ELSE rest[x - Len(out)]
    BY ConcatProperties
  <2> QED BY <2>1, <2>2
<1> DEFINE all == out \o rest
<1>2. /\ off \in [0 .. m -> Nat] /\ off[0] = 0
      /\ \A k \in 0 .. m : off[k] <= Len(out)
  BY DEF Offsets
<1>3. \A k \in 0 .. m : off[k] <= Len(all)
  BY <1>1, <1>2, m \in Nat
<1>4. ASSUME NEW k \in 1 .. m
      PROVE  /\ off[k] = off[k - 1] + Len(Codes[batch[k]])
             /\ \A j \in 1 .. Len(Codes[batch[k]]) : all[off[k - 1] + j] = Codes[batch[k]][j]
  <2>1. /\ off[k] = off[k - 1] + Len(Codes[batch[k]])
        /\ \A j \in 1 .. Len(Codes[batch[k]]) : out[off[k - 1] + j] = Codes[batch[k]][j]
    BY DEF Offsets
  <2>2. /\ k \in 0 .. m /\ k - 1 \in 0 .. m
        /\ off[k] \in Nat /\ off[k - 1] \in Nat /\ off[k] <= Len(out)
    BY <1>2
  <2>3. batch[k] \in Chunks
    BY LenProperties
  <2>4. Len(Codes[batch[k]]) \in Nat
    BY <2>3, ConstantFacts
  <2>5. \A j \in 1 .. Len(Codes[batch[k]]) : off[k - 1] + j \in 1 .. Len(out)
    BY <1>1, <2>1, <2>2, <2>4
  <2> QED BY <1>1, <2>1, <2>5
<1> HIDE DEF all
<1>5. Offsets(off, batch, all, m)
  BY <1>2, <1>3, <1>4 DEF Offsets
<1> QED BY <1>5 DEF all

\* The next chunk's codes end where all of them end.
LEMMA OffsetsExtend ==
  ASSUME NEW batch \in Seq(Chunks), NEW m \in Nat, m + 1 <= Len(batch),
         NEW out \in Seq(Nat),
         NEW off, Offsets(off, batch, out, m), off[m] = Len(out)
  PROVE  LET all == out \o Codes[batch[m + 1]] IN
         \E f : Offsets(f, batch, all, m + 1) /\ f[m + 1] = Len(all)
<1> DEFINE c == batch[m + 1]
           all == out \o Codes[c]
           f == [k \in 0 .. m + 1 |-> IF k <= m THEN off[k] ELSE Len(all)]
<1>1. Len(batch) \in Nat /\ m \in 0 .. Len(batch) /\ c \in Chunks
  BY LenProperties
<1>2. Codes[c] \in Seq(Nat) /\ Len(Codes[c]) \in Nat /\ Len(out) \in Nat
  BY <1>1, ConstantFacts, LenProperties
<1>3. /\ all \in Seq(Nat)
      /\ Len(all) = Len(out) + Len(Codes[c])
      /\ \A x \in 1 .. Len(out) + Len(Codes[c]) :
           all[x] = IF x <= Len(out) THEN out[x] ELSE Codes[c][x - Len(out)]
  BY <1>2, ConcatProperties
<1>4. Offsets(off, batch, all, m)
  BY <1>1, <1>2, OffsetsPrefix
<1> HIDE DEF all
<1>5. /\ off \in [0 .. m -> Nat] /\ off[0] = 0 /\ \A k \in 0 .. m : off[k] <= Len(all)
      /\ \A k \in 1 .. m :
           /\ off[k] = off[k - 1] + Len(Codes[batch[k]])
           /\ \A j \in 1 .. Len(Codes[batch[k]]) :
                all[off[k - 1] + j] = Codes[batch[k]][j]
  BY <1>4 DEF Offsets
<1>6. Len(all) \in Nat
  BY <1>2, <1>3
<1>7. /\ f \in [0 .. m + 1 -> Nat]
      /\ \A k \in 0 .. m : f[k] = off[k]
      /\ f[m + 1] = Len(all)
  BY <1>5, <1>6
<1> HIDE DEF f
<1>8. f[0] = 0 /\ \A k \in 0 .. m + 1 : f[k] <= Len(all)
  BY <1>5, <1>6, <1>7
<1>9. ASSUME NEW k \in 1 .. m + 1
      PROVE  /\ f[k] = f[k - 1] + Len(Codes[batch[k]])
             /\ \A j \in 1 .. Len(Codes[batch[k]]) :
                  all[f[k - 1] + j] = Codes[batch[k]][j]
  <2>1. CASE k <= m
    <3>1. k \in 1 .. m /\ f[k] = off[k] /\ f[k - 1] = off[k - 1]
      BY <1>7, <2>1
    <3> QED BY <1>5, <3>1
  <2>2. CASE k = m + 1
    <3>1. f[k] = Len(all) /\ f[k - 1] = Len(out) /\ batch[k] = c
      BY <1>7, <2>2
    <3>2. \A j \in 1 .. Len(Codes[c]) : all[Len(out) + j] = Codes[c][j]
      <4> TAKE j \in 1 .. Len(Codes[c])
      <4>1. /\ Len(out) + j \in 1 .. Len(out) + Len(Codes[c])
            /\ ~(Len(out) + j <= Len(out)) /\ Len(out) + j - Len(out) = j
        BY <1>2
      <4> QED BY <1>3, <4>1
    <3> QED BY <1>3, <3>1, <3>2
  <2> QED BY <2>1, <2>2
<1>10. Offsets(f, batch, all, m + 1)
  BY <1>7, <1>8, <1>9 DEF Offsets
<1> QED BY <1>7, <1>10 DEF all

\* At the offset of a chunk are its codes.
LEMMA OffsetsSubSeq ==
  ASSUME NEW batch \in Seq(Chunks), NEW codes \in Seq(Nat), NEW off,
         Offsets(off, batch, codes, Len(batch)), NEW k \in 1 .. Len(batch)
  PROVE  LET size == Len(Codes[batch[k]]) IN
         /\ off[k] = off[k - 1] + size /\ off[k - 1] \in Nat
         /\ off[k - 1] + size <= Len(codes)
         /\ SubSeq(codes, off[k - 1] + 1, off[k - 1] + size) = Codes[batch[k]]
<1> DEFINE c == batch[k]
           start == off[k - 1]
           part == SubSeq(codes, start + 1, start + Len(Codes[c]))
<1>1. c \in Chunks /\ Len(batch) \in Nat /\ Len(codes) \in Nat
  BY LenProperties
<1>2. Codes[c] \in Seq(Nat) /\ Len(Codes[c]) \in Nat
  BY <1>1, ConstantFacts
<1>3. /\ off \in [0 .. Len(batch) -> Nat]
      /\ off[k] = start + Len(Codes[c]) /\ off[k] <= Len(codes)
      /\ \A j \in 1 .. Len(Codes[c]) : codes[start + j] = Codes[c][j]
  BY <1>1 DEF Offsets
<1>4. start \in Nat
  <2>1. k - 1 \in 0 .. Len(batch)
    BY <1>1
  <2> QED BY <1>3, <2>1
<1> HIDE DEF start, c
<1>5. \A i \in start + 1 .. start + Len(Codes[c]) : codes[i] \in Nat
  <2> TAKE i \in start + 1 .. start + Len(Codes[c])
  <2>1. i \in 1 .. Len(codes)
    BY <1>1, <1>2, <1>3, <1>4
  <2> QED BY <2>1, ElementOfSeq
<1>6. /\ part \in Seq(Nat)
      /\ Len(part) = IF start + 1 <= start + Len(Codes[c])
                     THEN start + Len(Codes[c]) - (start + 1) + 1 ELSE 0
      /\ \A i \in 1 .. start + Len(Codes[c]) - (start + 1) + 1 :
           part[i] = codes[start + 1 + i - 1]
  BY <1>2, <1>4, <1>5, SubSeqProperties, start + 1 \in Int, start + Len(Codes[c]) \in Int
<1> HIDE DEF part
<1>7. Len(part) = Len(Codes[c])
  BY <1>2, <1>4, <1>6
<1>8. \A i \in 1 .. Len(part) : part[i] = Codes[c][i]
  <2> TAKE i \in 1 .. Len(part)
  <2>1. start + 1 + i - 1 = start + i /\ i \in 1 .. Len(Codes[c])
    BY <1>2, <1>4, <1>7
  <2>2. i \in 1 .. start + Len(Codes[c]) - (start + 1) + 1
    BY <1>2, <1>4, <2>1
  <2> QED BY <1>3, <1>6, <2>1, <2>2
<1>9. part = Codes[c]
  BY <1>2, <1>6, <1>7, <1>8, SeqEqual
<1> QED BY <1>3, <1>4, <1>9 DEF start, part, c
-----------------------------------------------------------------------------
(* A run of the kernel *)

\* A buffer holds the batch and its boundaries.
Holds(indices, cells, batch) ==
  /\ indices # <<>> /\ indices[1] = Len(batch) + 1
  /\ \A k \in 1 .. Len(batch) : cells[k - 1] = batch[k]

LengthsOf(lengths, batch, m) ==
  \A k \in 1 .. m : lengths[k] = Len(Codes[batch[k]])

\* A buffer holds the batch's codes and their numbers.
Results(codes, lengths, batch) ==
  /\ LengthsOf(lengths, batch, Len(batch))
  /\ \E off : Offsets(off, batch, codes, Len(batch))

Kernels == [busy : BOOLEAN, bound : Nat, stream : Seq(Chunks \cup {Nothing}),
            out : Seq(Nat), done : Nat, failure : BOOLEAN]

\* The kernel has coded the batch's first chunks; the rest is in the stream.
Running(k, lengths, batch) ==
  /\ k.bound = Len(batch) /\ k.done \in 0 .. Len(batch)
  /\ Len(k.stream) = MaxBatch - k.done
  /\ \A x \in 1 .. Len(batch) - k.done : k.stream[x] = batch[k.done + x]
  /\ LengthsOf(lengths, batch, k.done)
  /\ \E off : Offsets(off, batch, k.out, k.done) /\ off[k.done] = Len(k.out)

\* load_data: the stream begins with the batch.
LEMMA RunningLoaded ==
  ASSUME NEW batch \in Seq(Chunks), Len(batch) <= MaxBatch, NEW lengths,
         NEW cells \in [Cells -> Chunks \cup {Nothing}],
         NEW indices, Holds(indices, cells, batch),
         NEW k, k = [IdleKernel EXCEPT
                       !.busy = TRUE,
                       !.bound = Len(batch),
                       !.stream = [x \in 1 .. MaxBatch |-> cells[x - 1]]]
  PROVE  k \in Kernels /\ Running(k, lengths, batch)
<1> DEFINE stream == [x \in 1 .. MaxBatch |-> cells[x - 1]]
           off == [x \in 0 .. 0 |-> 0]
<1>1. /\ k.busy = TRUE /\ k.bound = Len(batch) /\ k.stream = stream
      /\ k.out = <<>> /\ k.done = 0 /\ k.failure = FALSE
      /\ k = [busy |-> TRUE, bound |-> Len(batch), stream |-> stream, out |-> <<>>,
              done |-> 0, failure |-> FALSE]
  BY DEF IdleKernel
<1>2. Len(batch) \in Nat /\ MaxBatch \in Nat
  BY LenProperties, ConstantFacts
<1>3. stream \in [1 .. MaxBatch -> Chunks \cup {Nothing}]
  BY <1>2 DEF Cells
<1>4. stream \in Seq(Chunks \cup {Nothing}) /\ Len(stream) = MaxBatch
  <2>1. stream \in Seq(Chunks \cup {Nothing})
    BY <1>2, <1>3, IsASeq
  <2>2. DOMAIN stream = 1 .. Len(stream) /\ Len(stream) \in Nat
    BY <2>1, LenProperties
  <2> QED BY <1>2, <2>1, <2>2
<1>5. \A x \in 1 .. Len(batch) : stream[x] = batch[x]
  BY <1>2 DEF Holds
<1> HIDE DEF stream
<1>6. <<>> \in Seq(Nat) /\ Len(<<>>) = 0
  BY EmptySeq
<1>7. k \in Kernels
  <2> DEFINE out == <<>>
  <2>1. out \in Seq(Nat)
    BY <1>6
  <2>2. k = [busy |-> TRUE, bound |-> Len(batch), stream |-> stream, out |-> out,
             done |-> 0, failure |-> FALSE]
    BY <1>1
  <2> HIDE DEF out
  <2>3. [busy |-> TRUE, bound |-> Len(batch), stream |-> stream, out |-> out,
         done |-> 0, failure |-> FALSE] \in Kernels
    BY <1>2, <1>4, <2>1 DEF Kernels
  <2> QED BY <2>2, <2>3
<1>8. Offsets(off, batch, <<>>, 0) /\ off[0] = 0
  BY <1>6 DEF Offsets
<1> HIDE DEF off
<1>9. Offsets(off, batch, k.out, k.done) /\ off[k.done] = Len(k.out)
  BY <1>1, <1>6, <1>8
<1>10. \A x \in 1 .. Len(batch) - k.done : k.stream[x] = batch[k.done + x]
  BY <1>1, <1>2, <1>5
<1>11. LengthsOf(lengths, batch, k.done)
  BY <1>1 DEF LengthsOf
<1>12. /\ k.bound = Len(batch) /\ k.done \in 0 .. Len(batch)
       /\ Len(k.stream) = MaxBatch - k.done
  BY <1>1, <1>2, <1>4
<1>13. Running(k, lengths, batch)
  BY <1>9, <1>10, <1>11, <1>12 DEF Running
<1> QED BY <1>7, <1>13

\* A round of compute_data: the next chunk leaves the stream, its codes come
\* behind the others'.
Round(k, next, failed) ==
  next = [k EXCEPT
            !.stream = Tail(@),
            !.out = @ \o CodesOf(Head(k.stream)),
            !.done = @ + 1,
            !.failure = @ \/ failed]

Longer(lengths, k) == [lengths EXCEPT ![k.done + 1] = Len(CodesOf(Head(k.stream)))]

LEMMA RunningOn ==
  ASSUME NEW batch \in Seq(Chunks), Len(batch) <= MaxBatch,
         NEW lengths \in [0 .. MaxBatch -> Nat],
         NEW k \in Kernels, Running(k, lengths, batch), k.done < k.bound,
         NEW failed \in BOOLEAN,
         NEW next, Round(k, next, failed)
  PROVE  /\ next \in Kernels /\ Running(next, Longer(lengths, k), batch)
         /\ Longer(lengths, k) \in [0 .. MaxBatch -> Nat]
<1> DEFINE d == k.done
           c == batch[d + 1]
           codes == Codes[c]
           all == k.out \o codes
           longer == Longer(lengths, k)
<1>1. /\ d \in Nat /\ d + 1 <= Len(batch) /\ Len(batch) \in Nat /\ MaxBatch \in Nat
      /\ k.bound = Len(batch) /\ Len(batch) <= MaxBatch
      /\ k.stream \in Seq(Chunks \cup {Nothing}) /\ k.out \in Seq(Nat)
      /\ k.failure \in BOOLEAN /\ k.busy \in BOOLEAN
  BY LenProperties, ConstantFacts DEF Running, Kernels
<1>2. /\ Len(k.stream) = MaxBatch - d
      /\ \A x \in 1 .. Len(batch) - d : k.stream[x] = batch[d + x]
      /\ LengthsOf(lengths, batch, d)
      /\ \E off : Offsets(off, batch, k.out, d) /\ off[d] = Len(k.out)
  BY DEF Running
<1>3. c \in Chunks
  BY <1>1, LenProperties
<1>4. codes \in Seq(Nat) /\ Len(codes) \in Nat
  BY <1>3, ConstantFacts
<1>5. k.stream # <<>> /\ Head(k.stream) = c
  <2>1. Len(k.stream) # 0
    BY <1>1, <1>2
  <2>2. k.stream # <<>>
    BY <2>1, EmptySeq
  <2>3. k.stream[1] = c
    <3>1. 1 \in 1 .. Len(batch) - d
      BY <1>1
    <3>2. k.stream[1] = batch[d + 1]
      BY <1>2, <3>1
    <3> QED BY <3>2
  <2>4. Head(k.stream) = k.stream[1]
    OBVIOUS
  <2> QED BY <2>2, <2>3, <2>4
<1>6. CodesOf(Head(k.stream)) = codes
  BY <1>3, <1>5 DEF CodesOf
<1>7. /\ Tail(k.stream) \in Seq(Chunks \cup {Nothing})
      /\ Len(Tail(k.stream)) = MaxBatch - (d + 1)
      /\ \A x \in 1 .. MaxBatch - (d + 1) : Tail(k.stream)[x] = k.stream[x + 1]
  <2>1. /\ Tail(k.stream) \in Seq(Chunks \cup {Nothing})
        /\ Len(Tail(k.stream)) = Len(k.stream) - 1
        /\ \A x \in 1 .. Len(Tail(k.stream)) : Tail(k.stream)[x] = k.stream[x + 1]
    BY <1>1, <1>5, HeadTailProperties
  <2>2. Len(Tail(k.stream)) = MaxBatch - (d + 1)
    BY <1>1, <1>2, <2>1
  <2> QED BY <2>1, <2>2
<1>8. all \in Seq(Nat)
  BY <1>1, <1>4, ConcatProperties
<1>9. \E f : Offsets(f, batch, all, d + 1) /\ f[d + 1] = Len(all)
  BY <1>1, <1>2, OffsetsExtend
<1> HIDE DEF c, codes, all, d, longer
<1>10. /\ longer = [lengths EXCEPT ![d + 1] = Len(codes)]
       /\ longer \in [0 .. MaxBatch -> Nat]
  <2>1. d + 1 \in 0 .. MaxBatch
    BY <1>1
  <2>2. longer = [lengths EXCEPT ![d + 1] = Len(codes)]
    BY <1>6 DEF d, Longer, longer
  <2> QED BY <1>4, <2>1, <2>2
<1>11. LengthsOf(longer, batch, d + 1)
  <2> SUFFICES ASSUME NEW x \in 1 .. d + 1
               PROVE  longer[x] = Len(Codes[batch[x]])
    BY DEF LengthsOf
  <2>1. x \in 0 .. MaxBatch
    BY <1>1
  <2>2. CASE x = d + 1
    BY <1>10, <2>1, <2>2 DEF c, codes
  <2>3. CASE x # d + 1
    <3>1. x \in 1 .. d
      BY <1>1, <2>3
    <3>2. longer[x] = lengths[x]
      BY <1>10, <2>1, <2>3
    <3> QED BY <1>2, <3>1, <3>2 DEF LengthsOf
  <2> QED BY <2>2, <2>3
<1>12. /\ next = [busy |-> k.busy, bound |-> k.bound, stream |-> Tail(k.stream),
                 out |-> all, done |-> d + 1, failure |-> next.failure]
       /\ next.failure \in BOOLEAN
  BY <1>1, <1>6 DEF Kernels, Round, all, d
<1>13. next \in Kernels
  <2>1. [busy |-> k.busy, bound |-> k.bound, stream |-> Tail(k.stream),
         out |-> all, done |-> d + 1, failure |-> next.failure] \in Kernels
    BY <1>1, <1>7, <1>8, <1>12 DEF Kernels
  <2> QED BY <1>12, <2>1
<1>14. /\ next.bound = k.bound /\ next.stream = Tail(k.stream) /\ next.out = all
       /\ next.done = d + 1
  BY <1>12
<1>15. /\ next.bound = Len(batch) /\ next.done \in 0 .. Len(batch)
       /\ Len(next.stream) = MaxBatch - next.done
  BY <1>1, <1>7, <1>14
<1>16. \A x \in 1 .. Len(batch) - (d + 1) : next.stream[x] = batch[(d + 1) + x]
  <2> TAKE x \in 1 .. Len(batch) - (d + 1)
  <2>1. /\ x \in 1 .. MaxBatch - (d + 1) /\ x + 1 \in 1 .. Len(batch) - d
        /\ d + (x + 1) = (d + 1) + x
    <3> DEFINE n == Len(batch)
    <3>1. d \in Nat /\ n \in Nat /\ MaxBatch \in Nat /\ n <= MaxBatch
      BY <1>1
    <3>2. x \in 1 .. n - (d + 1)
      OBVIOUS
    <3> HIDE DEF n
    <3>3. x \in Int /\ 1 <= x /\ x <= n - (d + 1)
      BY <3>1, <3>2
    <3>4. x \in 1 .. MaxBatch - (d + 1) /\ x + 1 \in 1 .. n - d
      BY <3>1, <3>3
    <3>5. d + (x + 1) = (d + 1) + x
      BY <3>1, <3>3
    <3> QED BY <3>4, <3>5 DEF n
  <2>2. Tail(k.stream)[x] = k.stream[x + 1]
    BY <1>7, <2>1
  <2>3. k.stream[x + 1] = batch[d + (x + 1)]
    BY <1>2, <2>1
  <2> QED BY <1>14, <2>1, <2>2, <2>3
<1>17. Running(next, longer, batch)
  BY <1>9, <1>11, <1>14, <1>15, <1>16 DEF Running
<1> QED BY <1>10, <1>13, <1>17 DEF longer

\* store_data: the codes come over what the buffer holds.
LEMMA RunningStored ==
  ASSUME NEW batch \in Seq(Chunks), NEW lengths \in [0 .. MaxBatch -> Nat],
         NEW k \in Kernels, Running(k, lengths, batch), k.done = k.bound,
         NEW codes \in Seq(Nat), NEW first \in Nat
  PROVE  LET all == k.out \o SubSeq(codes, Len(k.out) + 1, Len(codes))
             results == [lengths EXCEPT ![0] = first]
         IN all \in Seq(Nat) /\ results \in [0 .. MaxBatch -> Nat]
            /\ Results(all, results, batch)
<1> DEFINE rest == SubSeq(codes, Len(k.out) + 1, Len(codes))
           all == k.out \o rest
           results == [lengths EXCEPT ![0] = first]
<1>1. k.out \in Seq(Nat) /\ Len(batch) \in Nat
  BY LenProperties DEF Kernels
<1>2. rest \in Seq(Nat)
  <2>1. Len(k.out) + 1 \in Int /\ Len(codes) \in Int /\ Len(k.out) \in Nat
    BY <1>1, LenProperties
  <2>2. \A x \in Len(k.out) + 1 .. Len(codes) : x \in 1 .. Len(codes)
    BY <2>1
  <2>3. \A x \in Len(k.out) + 1 .. Len(codes) : codes[x] \in Nat
    BY <2>2, ElementOfSeq
  <2> QED BY <2>1, <2>3, SubSeqProperties
<1> HIDE DEF rest
<1>3. all \in Seq(Nat)
  BY <1>1, <1>2, ConcatProperties
<1>4. /\ LengthsOf(lengths, batch, Len(batch))
      /\ \E off : Offsets(off, batch, k.out, Len(batch))
  <2>1. k.done = Len(batch)
    BY DEF Running
  <2> QED BY <2>1 DEF Running
<1>5. \E off : Offsets(off, batch, all, Len(batch))
  <2>1. PICK off : Offsets(off, batch, k.out, Len(batch))
    BY <1>4
  <2>2. Len(batch) \in 0 .. Len(batch)
    BY <1>1
  <2>3. Offsets(off, batch, k.out \o rest, Len(batch))
    BY <1>1, <1>2, <2>1, <2>2, OffsetsPrefix
  <2> QED BY <2>3
<1>6. results \in [0 .. MaxBatch -> Nat]
  OBVIOUS
<1>7. LengthsOf(results, batch, Len(batch))
  BY <1>1, <1>4 DEF LengthsOf
<1> HIDE DEF all, results
<1>8. Results(all, results, batch)
  BY <1>5, <1>7 DEF Results
<1> QED BY <1>3, <1>6, <1>8 DEF all, results, rest

-----------------------------------------------------------------------------
(* The inductive invariant *)

Buffers == [input : [Cells -> Chunks \cup {Nothing}], indices : Seq(Nat),
            codes : Seq(Nat), lengths : [0 .. MaxBatch -> Nat]]

IsSeq(s) == \E S : s \in Seq(S)

Typed ==
  /\ Len(chunks) <= MaxBatch
  /\ host \in Buffers /\ device \in Buffers /\ kernel \in Kernels
  /\ IsSeq(finalData) /\ IsSeq(archive)

\* Where the host is tells which commands it has enqueued; the events keep
\* what is complete in their order.
Orders ==
  /\ pc \in {"dedup", "write"} => complete = {}
  /\ pc = "task" => queue \cup complete = {"write"}
  /\ pc = "read" => queue \cup complete = {"write", "task"}
  /\ pc = "wait" => queue \cup complete = {"write", "task", "read"}
  /\ pc \notin {"task", "read", "wait"} => queue = {}
  /\ "task" \in complete => "write" \in complete
  /\ "read" \in complete => "task" \in complete
  /\ kernel.busy => "task" \in queue /\ "write" \in complete

\* The host works on a batch, up to the wait for the kernel.
Working == pc \in {"dedup", "write", "task", "read", "wait"}

\* What has been transferred is this batch's.
Contents ==
  /\ Working \/ pc \in {"records", "file"} =>
       Len(chunks) > 0 /\ Holds(host.indices, host.input, chunks)
  /\ Working => ptr = 0 /\ finalData = <<>>
  /\ Working /\ "write" \in complete => Holds(device.indices, device.input, chunks)
  /\ kernel.busy => Running(kernel, device.lengths, chunks)
  /\ Working /\ "task" \in complete => Results(device.codes, device.lengths, chunks)
  /\ Working /\ "read" \in complete => Results(host.codes, host.lengths, chunks)
  /\ pc = "records" =>
       /\ LengthsOf(host.lengths, chunks, Len(chunks))
       /\ Len(finalData) < Len(chunks)
       /\ \E off : Offsets(off, chunks, host.codes, Len(chunks)) /\ ptr = off[Len(finalData)]

Invariant == TypeOK /\ Typed /\ Orders /\ Contents

LEMMA EmptyBuffersTyped == EmptyBuffers \in Buffers /\ IdleKernel \in Kernels
<1> DEFINE none == <<>>
<1>1. none \in Seq(Nat) /\ none \in Seq(Chunks \cup {Nothing})
  BY EmptySeq
<1>2. /\ EmptyBuffers = [input |-> [c \in Cells |-> Nothing], indices |-> none,
                         codes |-> none, lengths |-> [k \in 0 .. MaxBatch |-> 0]]
      /\ IdleKernel = [busy |-> FALSE, bound |-> 0, stream |-> none, out |-> none,
                       done |-> 0, failure |-> FALSE]
  BY DEF EmptyBuffers, IdleKernel
<1> HIDE DEF none
<1>3. [input |-> [c \in Cells |-> Nothing], indices |-> none,
       codes |-> none, lengths |-> [k \in 0 .. MaxBatch |-> 0]] \in Buffers
  BY <1>1 DEF Buffers
<1>4. [busy |-> FALSE, bound |-> 0, stream |-> none, out |-> none,
       done |-> 0, failure |-> FALSE] \in Kernels
  BY <1>1 DEF Kernels
<1> QED BY <1>2, <1>3, <1>4

LEMMA InitInvariant == Init => Invariant
<1> SUFFICES ASSUME Init PROVE Invariant
  OBVIOUS
<1> DEFINE none == <<>>
<1>1. /\ pc = "receive" /\ chunks = none /\ input = none /\ shaMap = none /\ chunkId = 0
      /\ dedupOut = none /\ ptr = 0 /\ finalData = none /\ archive = none /\ pos = 0
      /\ queue = {} /\ complete = {} /\ host = EmptyBuffers /\ device = EmptyBuffers
      /\ kernel = IdleKernel
  BY DEF Init, QueueInit
<1>2. /\ \A S : none \in Seq(S)
      /\ Len(none) = 0
  BY EmptySeq
<1>3. DOMAIN none = {}
  <2>1. DOMAIN none = 1 .. 0
    BY <1>2, LenProperties
  <2> QED BY <2>1
<1>4. ~kernel.busy /\ kernel.done = 0 /\ host.codes = none
  BY <1>1 DEF IdleKernel, EmptyBuffers
<1> HIDE DEF none
<1>5. TypeOK
  <2>1. /\ chunks \in Seq(Chunks) /\ input \in Seq(Chunks) /\ dedupOut \in Seq({New} \cup Nat)
        /\ Len(chunks) = 0 /\ Len(dedupOut) = 0 /\ Len(finalData) = 0 /\ Len(archive) = 0
        /\ Len(host.codes) = 0
    BY <1>1, <1>2, <1>4
  <2>2. \A f \in DOMAIN shaMap : shaMap[f] \in 0 .. chunkId - 1
    BY <1>1, <1>3
  <2>3. kernel.done <= MaxBatch /\ (kernel.busy => "task" \in queue)
    BY <1>4, ConstantFacts
  <2>4. queue \cup complete \subseteq {"write", "task", "read"} /\ queue \cap complete = {}
    BY <1>1
  <2>5. pc = "receive" /\ chunkId = 0 /\ ptr = 0 /\ pos = 0
    BY <1>1
  <2> QED BY <2>1, <2>2, <2>3, <2>4, <2>5 DEF TypeOK
<1>6. Typed
  <2>1. Len(chunks) <= MaxBatch
    BY <1>1, <1>2, ConstantFacts
  <2>2. IsSeq(finalData) /\ IsSeq(archive)
    BY <1>1, <1>2 DEF IsSeq
  <2> QED BY <1>1, <2>1, <2>2, EmptyBuffersTyped DEF Typed
<1>7. Orders
  BY <1>1, <1>4 DEF Orders
<1>8. Contents
  BY <1>1, <1>4 DEF Contents, Working
<1> QED BY <1>5, <1>6, <1>7, <1>8 DEF Invariant

-----------------------------------------------------------------------------
(* The steps *)

LEMMA BufferFields ==
  ASSUME NEW a, NEW b, NEW c, NEW d, NEW buffer,
         buffer = [input |-> a, indices |-> b, codes |-> c, lengths |-> d]
  PROVE  /\ buffer.input = a /\ buffer.indices = b /\ buffer.codes = c
         /\ buffer.lengths = d
  OBVIOUS

\* memcpy and the boundaries put the batch into the host's buffers.
LEMMA FillHolds ==
  ASSUME NEW batch \in Seq(Chunks), Len(batch) <= MaxBatch, NEW before \in Buffers,
         NEW after,
         after = [before EXCEPT
           !.input = [c \in Cells |-> IF c < Len(batch) THEN batch[c + 1] ELSE @[c]],
           !.indices = <<Len(batch) + 1>> \o [k \in 1 .. Len(batch) + 1 |-> k - 1]]
  PROVE  /\ after \in Buffers /\ Holds(after.indices, after.input, batch)
         /\ after.codes = before.codes
<1> DEFINE n == Len(batch)
           cells == [c \in Cells |-> IF c < n THEN batch[c + 1] ELSE before.input[c]]
           head == <<n + 1>>
           rest == [k \in 1 .. n + 1 |-> k - 1]
           indices == head \o rest
<1>1. n \in Nat /\ n <= MaxBatch /\ MaxBatch \in Nat /\ batch \in [1 .. n -> Chunks]
  BY LenProperties, ConstantFacts
<1>2. /\ before.input \in [Cells -> Chunks \cup {Nothing}]
      /\ before.codes \in Seq(Nat) /\ before.lengths \in [0 .. MaxBatch -> Nat]
      /\ after = [input |-> cells, indices |-> indices, codes |-> before.codes,
                  lengths |-> before.lengths]
  BY DEF Buffers
<1>3. cells \in [Cells -> Chunks \cup {Nothing}]
  <2>1. ASSUME NEW c \in Cells, c < n
        PROVE  batch[c + 1] \in Chunks
    <3>1. c + 1 \in 1 .. n
      BY <1>1, <2>1 DEF Cells
    <3> QED BY <1>1, <3>1
  <2>2. ASSUME NEW c \in Cells
        PROVE  (IF c < n THEN batch[c + 1] ELSE before.input[c]) \in Chunks \cup {Nothing}
    BY <1>2, <2>1
  <2> QED BY <2>2
<1>4. \A k \in 1 .. n : cells[k - 1] = batch[k]
  <2> TAKE k \in 1 .. n
  <2>1. k - 1 \in Cells /\ k - 1 < n /\ (k - 1) + 1 = k
    BY <1>1 DEF Cells
  <2> QED BY <2>1
<1>5. /\ indices \in Seq(Nat) /\ indices # <<>> /\ indices[1] = n + 1
  <2>1. head \in Seq(Nat) /\ Len(head) = 1 /\ head[1] = n + 1
    BY <1>1
  <2>2. rest \in Seq(Nat)
    <3>1. n + 1 \in Nat /\ \A k \in 1 .. n + 1 : k - 1 \in Nat
      BY <1>1
    <3>2. rest \in [1 .. n + 1 -> Nat]
      BY <3>1
    <3> QED BY <3>1, <3>2
  <2>3. Len(rest) \in Nat
    BY <2>2, LenProperties
  <2> HIDE DEF head, rest
  <2>4. /\ indices \in Seq(Nat) /\ Len(indices) = Len(head) + Len(rest)
        /\ \A x \in 1 .. Len(head) + Len(rest) :
             indices[x] = IF x <= Len(head) THEN head[x] ELSE rest[x - Len(head)]
    BY <2>1, <2>2, ConcatProperties
  <2>5. 1 \in 1 .. Len(head) + Len(rest) /\ 1 <= Len(head)
    BY <2>1, <2>3
  <2>6. indices[1] = n + 1
    BY <2>1, <2>4, <2>5
  <2> HIDE DEF indices
  <2>7. Len(indices) # 0
    BY <2>1, <2>3, <2>4
  <2>8. indices # <<>>
    BY <2>7, EmptySeq
  <2> QED BY <2>4, <2>6, <2>8
<1> HIDE DEF cells, indices
<1>6. /\ after.input = cells /\ after.indices = indices /\ after.codes = before.codes
  <2>1. after = [input |-> cells, indices |-> indices, codes |-> before.codes,
                 lengths |-> before.lengths]
    BY <1>2
  <2> QED BY ONLY <2>1, BufferFields
<1>7. [input |-> cells, indices |-> indices, codes |-> before.codes,
       lengths |-> before.lengths] \in Buffers
  BY <1>2, <1>3, <1>5 DEF Buffers
<1>8. Holds(indices, cells, batch)
  BY <1>4, <1>5 DEF Holds
<1> QED BY <1>2, <1>6, <1>7, <1>8

LEMMA StartBatchStep ==
  ASSUME Invariant, NEW batch \in Batches, StartBatch(batch)
  PROVE  Invariant'
<1>1. PICK n \in 1 .. MaxBatch : batch \in [1 .. n -> Chunks]
  BY DEF Batches
<1>2. /\ batch \in Seq(Chunks) /\ Len(batch) \in Nat
      /\ Len(batch) > 0 /\ Len(batch) <= MaxBatch
  <2>1. n \in Nat /\ n > 0 /\ n <= MaxBatch
    BY ConstantFacts
  <2>2. batch \in Seq(Chunks)
    BY <1>1, <2>1
  <2>3. DOMAIN batch = 1 .. Len(batch) /\ Len(batch) \in Nat
    BY <2>2, LenProperties
  <2>4. Len(batch) = n
    BY <1>1, <2>1, <2>3
  <2> QED BY <2>1, <2>2, <2>4
<1>3. /\ pc = "receive" /\ pc' = "dedup"
      /\ chunks' = batch /\ input' = input \o batch
      /\ dedupOut' = <<>> /\ ptr' = 0 /\ finalData' = <<>> /\ complete' = {}
      /\ UNCHANGED <<shaMap, chunkId, archive, device, queue, kernel, pos>>
  BY DEF StartBatch, FillBuffers, decoderVars
<1>4. host' \in Buffers /\ Holds(host'.indices, host'.input, batch) /\ host'.codes = host.codes
  <2>1. host \in Buffers
    BY DEF Invariant, Typed
  <2>2. host' = [host EXCEPT
           !.input = [c \in Cells |-> IF c < Len(batch) THEN batch[c + 1] ELSE @[c]],
           !.indices = <<Len(batch) + 1>> \o [k \in 1 .. Len(batch) + 1 |-> k - 1]]
    BY DEF StartBatch, FillBuffers
  <2> QED BY <1>2, <2>1, <2>2, FillHolds
<1>5. queue = {} /\ ~kernel.busy
  BY <1>3 DEF Invariant, Orders
<1>6. TypeOK'
  <2>1. /\ input \in Seq(Chunks) /\ chunkId \in Nat
        /\ \A f \in DOMAIN shaMap : shaMap[f] \in 0 .. chunkId - 1
        /\ kernel.done <= MaxBatch /\ ptr \in 0 .. Len(host.codes)
        /\ pos \in 0 .. Len(archive)
    BY DEF Invariant, TypeOK
  <2>2. input' \in Seq(Chunks)
    BY <1>2, <1>3, <2>1, ConcatProperties
  <2>3. dedupOut' \in Seq({New} \cup Nat) /\ Len(dedupOut') = 0 /\ Len(finalData') = 0
    BY <1>3, EmptySeq
  <2>4. host.codes \in Seq(Nat)
    BY DEF Invariant, Typed, Buffers
  <2>5. Len(host.codes) \in Nat
    BY <2>4, LenProperties
  <2>6. ptr' \in 0 .. Len(host'.codes)
    BY <1>3, <1>4, <2>5
  <2>7. Len(dedupOut') <= Len(chunks') /\ Len(finalData') <= Len(chunks')
    BY <1>2, <1>3, <2>3
  <2>8. queue' \cup complete' \subseteq {"write", "task", "read"} /\ queue' \cap complete' = {}
        /\ (kernel'.busy => "task" \in queue') /\ kernel'.done <= MaxBatch
    BY <1>3, <1>5, <2>1
  <2>9. /\ chunkId' \in Nat /\ \A f \in DOMAIN shaMap' : shaMap'[f] \in 0 .. chunkId' - 1
        /\ pos' \in 0 .. Len(archive') /\ chunks' \in Seq(Chunks) /\ pc' = "dedup"
    BY <1>2, <1>3, <2>1
  <2> QED BY <2>2, <2>3, <2>6, <2>7, <2>8, <2>9 DEF TypeOK
<1>7. Typed'
  <2>1. device \in Buffers /\ kernel \in Kernels /\ IsSeq(archive)
    BY DEF Invariant, Typed
  <2>2. IsSeq(finalData')
    BY <1>3, EmptySeq DEF IsSeq
  <2>3. IsSeq(archive')
    BY <1>3, <2>1
  <2> QED BY <1>2, <1>3, <1>4, <2>1, <2>2, <2>3 DEF Typed, IsSeq
<1>8. Orders'
  BY <1>3, <1>5 DEF Orders
<1>9. Contents'
  BY <1>2, <1>3, <1>4, <1>5 DEF Contents, Working
<1> QED BY <1>6, <1>7, <1>8, <1>9 DEF Invariant

LEMMA DedupStep == ASSUME Invariant, Dedup PROVE Invariant'
<1> DEFINE c == chunks[Len(dedupOut) + 1]
           fingerprint == Sha[c]
           found == fingerprint \in DOMAIN shaMap
           out == IF found THEN shaMap[fingerprint] ELSE New
<1>1. /\ pc = "dedup" /\ Len(dedupOut) < Len(chunks)
      /\ shaMap' = IF found THEN shaMap
                   ELSE [f \in DOMAIN shaMap \cup {fingerprint} |->
                           IF f = fingerprint THEN chunkId ELSE shaMap[f]]
      /\ chunkId' = IF found THEN chunkId ELSE chunkId + 1
      /\ dedupOut' = Append(dedupOut, out)
      /\ pc' = "write" \/ pc' = "dedup"
  BY DEF Dedup
<1>2. UNCHANGED <<chunks, host, device, queue, complete, kernel, ptr, finalData, archive,
                  input, pos>>
  BY DEF Dedup, queueVars, recordVars, decoderVars
<1> HIDE DEF fingerprint
<1>3. TypeOK'
  <2>1. /\ chunks \in Seq(Chunks) /\ input \in Seq(Chunks) /\ chunkId \in Nat
        /\ \A f \in DOMAIN shaMap : shaMap[f] \in 0 .. chunkId - 1
        /\ dedupOut \in Seq({New} \cup Nat)
        /\ queue \cup complete \subseteq {"write", "task", "read"}
        /\ queue \cap complete = {} /\ (kernel.busy => "task" \in queue)
        /\ kernel.done <= MaxBatch /\ ptr \in 0 .. Len(host.codes)
        /\ Len(finalData) <= Len(chunks) /\ pos \in 0 .. Len(archive)
    BY DEF Invariant, TypeOK
  <2>2. out \in {New} \cup Nat
    BY <2>1
  <2> HIDE DEF out
  <2>3. dedupOut' \in Seq({New} \cup Nat) /\ Len(dedupOut') = Len(dedupOut) + 1
    BY <1>1, <2>1, <2>2, AppendProperties
  <2>4. Len(dedupOut') <= Len(chunks')
    <3>1. Len(dedupOut) \in Nat /\ Len(chunks) \in Nat
      BY <2>1, LenProperties
    <3> QED BY <1>1, <1>2, <2>3, <3>1
  <2>5. chunkId' \in Nat /\ \A f \in DOMAIN shaMap' : shaMap'[f] \in 0 .. chunkId' - 1
    <3>1. CASE found
      BY <1>1, <2>1, <3>1
    <3>2. CASE ~found
      <4>1. /\ chunkId' = chunkId + 1
            /\ shaMap' = [f \in DOMAIN shaMap \cup {fingerprint} |->
                            IF f = fingerprint THEN chunkId ELSE shaMap[f]]
        BY <1>1, <3>2
      <4>2. \A f \in DOMAIN shaMap : shaMap[f] \in 0 .. chunkId' - 1
        BY <2>1, <4>1
      <4>3. chunkId \in 0 .. chunkId' - 1
        BY <2>1, <4>1
      <4>4. \A f \in DOMAIN shaMap' : shaMap'[f] \in 0 .. chunkId' - 1
        BY <4>1, <4>2, <4>3
      <4> QED BY <2>1, <4>1, <4>4
    <3> QED BY <3>1, <3>2
  <2> QED BY <1>1, <1>2, <2>1, <2>3, <2>4, <2>5 DEF TypeOK
<1>4. Typed'
  BY <1>2 DEF Invariant, Typed, IsSeq
<1>5. Orders'
  BY <1>1, <1>2 DEF Invariant, Orders
<1>6. Contents'
  <2>1. Working /\ Working' /\ pc' # "records"
    BY <1>1 DEF Working
  <2> QED BY <1>2, <2>1 DEF Invariant, Contents
<1> QED BY <1>3, <1>4, <1>5, <1>6 DEF Invariant

LEMMA EnqueueStep == ASSUME Invariant, EnqueueNext PROVE Invariant'
<1>1. /\ pc \in {"write", "task", "read"}
      /\ queue' = queue \cup {pc}
      /\ pc' = CASE pc = "write" -> "task" [] pc = "task" -> "read" [] pc = "read" -> "wait"
      /\ UNCHANGED <<chunks, shaMap, chunkId, dedupOut, host, device, complete, kernel, ptr,
                     finalData, archive, input, pos>>
  BY DEF EnqueueNext, Enqueue, dedupVars, recordVars, decoderVars
<1>2. \/ pc = "write" /\ pc' = "task" /\ queue' = queue \cup {"write"}
      \/ pc = "task" /\ pc' = "read" /\ queue' = queue \cup {"task"}
      \/ pc = "read" /\ pc' = "wait" /\ queue' = queue \cup {"read"}
  BY <1>1
<1>3. Orders /\ queue \cap complete = {}
  BY DEF Invariant, TypeOK
<1>4. Orders' /\ (queue \cap complete = {})'
  <2>1. CASE pc = "write" /\ pc' = "task" /\ queue' = queue \cup {"write"}
    BY <1>1, <1>3, <2>1 DEF Orders
  <2>2. CASE pc = "task" /\ pc' = "read" /\ queue' = queue \cup {"task"}
    BY <1>1, <1>3, <2>2 DEF Orders
  <2>3. CASE pc = "read" /\ pc' = "wait" /\ queue' = queue \cup {"read"}
    BY <1>1, <1>3, <2>3 DEF Orders
  <2> QED BY <1>2, <2>1, <2>2, <2>3
<1>5. TypeOK'
  <2>1. /\ pc' \in {"task", "read", "wait"}
        /\ (queue \cup complete \subseteq {"write", "task", "read"})'
        /\ (kernel.busy => "task" \in queue)'
    BY <1>1, <1>2 DEF Invariant, TypeOK
  <2> QED BY <1>1, <1>4, <2>1 DEF Invariant, TypeOK
<1>6. Typed'
  BY <1>1 DEF Invariant, Typed, IsSeq
<1>7. Contents'
  <2>1. Working /\ Working' /\ pc' # "records"
    BY <1>2 DEF Working
  <2> QED BY <1>1, <2>1 DEF Invariant, Contents
<1> QED BY <1>4, <1>5, <1>6, <1>7 DEF Invariant

\* A command is in the queue only while the host waits for the kernel or is
\* about to.
LEMMA InQueue ==
  ASSUME Invariant, NEW command \in queue
  PROVE  Working /\ pc # "records" /\ pc \in {"task", "read", "wait"}
BY DEF Invariant, Orders, Working

LEMMA MigrateToDeviceStep ==
  ASSUME Invariant, MigrateToDevice,
         UNCHANGED <<pc, chunks, dedupVars, recordVars, input, decoderVars>>
  PROVE  Invariant'
<1>1. /\ "write" \in queue
      /\ device' = [device EXCEPT !.input = host.input, !.indices = host.indices]
      /\ queue' = queue \ {"write"} /\ complete' = complete \cup {"write"}
      /\ UNCHANGED <<host, kernel, pc, chunks, shaMap, chunkId, dedupOut, ptr, finalData,
                     archive, input, pos>>
  BY DEF MigrateToDevice, Ready, Complete, dedupVars, recordVars, decoderVars
<1>2. Working /\ pc # "records" /\ pc \in {"task", "read", "wait"}
  BY <1>1, InQueue
<1>3. "write" \notin complete
  BY <1>1 DEF Invariant, TypeOK
<1>4. ~kernel.busy /\ "task" \notin complete /\ "read" \notin complete
  BY <1>3 DEF Invariant, Orders
<1>5. /\ device' \in Buffers
      /\ device'.input = host.input /\ device'.indices = host.indices
  BY <1>1 DEF Invariant, Typed, Buffers
<1>6. TypeOK'
  <2>1. /\ queue' \cup complete' \subseteq {"write", "task", "read"}
        /\ queue' \cap complete' = {}
    BY <1>1 DEF Invariant, TypeOK
  <2> QED BY <1>1, <1>4, <2>1 DEF Invariant, TypeOK
<1>7. Typed'
  BY <1>1, <1>5 DEF Invariant, Typed, IsSeq
<1>8. Orders'
  <2>1. queue' \cup complete' = queue \cup complete
    BY <1>1
  <2> QED BY <1>1, <1>2, <1>4, <2>1 DEF Invariant, Orders
<1>9. Contents'
  <2>1. Holds(host.indices, host.input, chunks)
    BY <1>2 DEF Invariant, Contents
  <2>2. Holds(device.indices, device.input, chunks)'
    BY <1>1, <1>5, <2>1
  <2>3. ~kernel'.busy /\ "task" \notin complete' /\ "read" \notin complete'
        /\ pc' # "records" /\ Working'
    BY <1>1, <1>2, <1>4 DEF Working
  <2> QED BY <1>1, <1>2, <2>2, <2>3 DEF Invariant, Contents
<1> QED BY <1>6, <1>7, <1>8, <1>9 DEF Invariant

LEMMA MigrateToHostStep ==
  ASSUME Invariant, MigrateToHost,
         UNCHANGED <<pc, chunks, dedupVars, recordVars, input, decoderVars>>
  PROVE  Invariant'
<1>1. /\ "read" \in queue /\ "task" \in complete
      /\ host' = [host EXCEPT !.codes = device.codes, !.lengths = device.lengths]
      /\ queue' = queue \ {"read"} /\ complete' = complete \cup {"read"}
      /\ UNCHANGED <<device, kernel, pc, chunks, shaMap, chunkId, dedupOut, ptr, finalData,
                     archive, input, pos>>
  BY DEF MigrateToHost, Ready, WaitList, Complete, dedupVars, recordVars, decoderVars
<1>2. Working /\ pc # "records" /\ pc \in {"task", "read", "wait"}
  BY <1>1, InQueue
<1>3. /\ host' \in Buffers
      /\ host'.input = host.input /\ host'.indices = host.indices
      /\ host'.codes = device.codes /\ host'.lengths = device.lengths
  BY <1>1 DEF Invariant, Typed, Buffers
<1>4. "task" \notin queue /\ ~kernel.busy
  BY <1>1 DEF Invariant, TypeOK
<1>5. TypeOK'
  <2>1. /\ queue' \cup complete' \subseteq {"write", "task", "read"}
        /\ queue' \cap complete' = {}
    BY <1>1 DEF Invariant, TypeOK
  <2>2. ptr' \in 0 .. Len(host'.codes)
    <3>1. ptr' = 0
      BY <1>1, <1>2 DEF Invariant, Contents
    <3>2. host'.codes \in Seq(Nat)
      BY <1>3 DEF Buffers
    <3>3. Len(host'.codes) \in Nat
      BY <3>2, LenProperties
    <3> QED BY <3>1, <3>3
  <2> QED BY <1>1, <1>4, <2>1, <2>2 DEF Invariant, TypeOK
<1>6. Typed'
  BY <1>1, <1>3 DEF Invariant, Typed, IsSeq
<1>7. Orders'
  <2>1. queue' \cup complete' = queue \cup complete
    BY <1>1
  <2> QED BY <1>1, <1>2, <1>4, <2>1 DEF Invariant, Orders
<1>8. Contents'
  <2>1. Results(device.codes, device.lengths, chunks) /\ Holds(host.indices, host.input, chunks)
    BY <1>1, <1>2 DEF Invariant, Contents
  <2>2. /\ Results(host.codes, host.lengths, chunks)'
        /\ Holds(host.indices, host.input, chunks)'
    BY <1>1, <1>3, <2>1
  <2>3. pc' # "records" /\ Working'
    BY <1>1, <1>2 DEF Working
  <2>4. "write" \in complete' => "write" \in complete
    BY <1>1
  <2> QED BY <1>1, <1>2, <2>2, <2>3, <2>4 DEF Invariant, Contents
<1> QED BY <1>5, <1>6, <1>7, <1>8 DEF Invariant

LEMMA LoadDataStep ==
  ASSUME Invariant, LoadData,
         UNCHANGED <<pc, chunks, dedupVars, recordVars, input, decoderVars>>
  PROVE  Invariant'
<1>1. /\ "task" \in queue /\ "write" \in complete
      /\ kernel' = [IdleKernel EXCEPT
           !.busy = TRUE,
           !.bound = Bound,
           !.stream = [x \in 1 .. MaxBatch |-> device.input[x - 1]]]
      /\ UNCHANGED <<host, device, queue, complete, pc, chunks, shaMap, chunkId, dedupOut,
                     ptr, finalData, archive, input, pos>>
  BY DEF LoadData, Ready, WaitList, dedupVars, recordVars, decoderVars
<1>2. Working /\ pc # "records" /\ pc \in {"task", "read", "wait"}
  BY <1>1, InQueue
<1>3. /\ chunks \in Seq(Chunks) /\ Len(chunks) <= MaxBatch
      /\ device.input \in [Cells -> Chunks \cup {Nothing}]
      /\ Holds(device.indices, device.input, chunks)
  BY <1>1, <1>2 DEF Invariant, TypeOK, Typed, Contents, Buffers
<1>4. Bound = Len(chunks)
  <2>1. Len(chunks) \in Nat
    BY <1>3, LenProperties
  <2> QED BY <1>3, <2>1 DEF Bound, Holds
<1>5. kernel' \in Kernels /\ Running(kernel', device.lengths, chunks)
  BY <1>1, <1>3, <1>4, RunningLoaded
<1>6. TypeOK'
  <2>1. kernel'.done <= MaxBatch
    <3>1. kernel'.done \in 0 .. Len(chunks) /\ Len(chunks) \in Nat
      BY <1>3, <1>5, LenProperties DEF Running
    <3> QED BY <1>3, <3>1, ConstantFacts
  <2> QED BY <1>1, <2>1 DEF Invariant, TypeOK
<1>7. Typed'
  BY <1>1, <1>5 DEF Invariant, Typed, IsSeq
<1>8. Orders'
  BY <1>1 DEF Invariant, Orders
<1>9. Contents'
  BY <1>1, <1>5 DEF Invariant, Contents, Working
<1> QED BY <1>6, <1>7, <1>8, <1>9 DEF Invariant

LEMMA ComputeChunkStep ==
  ASSUME Invariant, ComputeChunk,
         UNCHANGED <<pc, chunks, dedupVars, recordVars, input, decoderVars>>
  PROVE  Invariant'
<1> DEFINE new == Len(CodesOf(Head(kernel.stream)))
<1>1. PICK failed \in {FALSE} \cup MayFail : Round(kernel, kernel', failed)
  BY DEF ComputeChunk, Round
<1>2. /\ kernel.busy /\ kernel.done < kernel.bound
      /\ device' = [device EXCEPT !.lengths[kernel.done + 1] = new]
      /\ UNCHANGED <<host, queue, complete, pc, chunks, shaMap, chunkId, dedupOut,
                     ptr, finalData, archive, input, pos>>
  BY DEF ComputeChunk, dedupVars, recordVars, decoderVars
<1>3. "task" \in queue /\ "task" \notin complete /\ "read" \notin complete
  BY <1>2 DEF Invariant, TypeOK, Orders
<1>4. Working /\ pc # "records" /\ pc \in {"task", "read", "wait"}
  BY <1>3, InQueue
<1>5. /\ chunks \in Seq(Chunks) /\ Len(chunks) <= MaxBatch
      /\ device \in Buffers /\ device.lengths \in [0 .. MaxBatch -> Nat] /\ kernel \in Kernels
      /\ Running(kernel, device.lengths, chunks)
  BY <1>2 DEF Invariant, TypeOK, Typed, Contents, Buffers
<1>6. failed \in BOOLEAN
  BY ConstantFacts
<1> DEFINE longer == Longer(device.lengths, kernel)
<1>7. /\ kernel' \in Kernels /\ Running(kernel', longer, chunks)
      /\ longer \in [0 .. MaxBatch -> Nat]
  <2>1. ASSUME NEW next, Round(kernel, next, failed)
        PROVE  /\ next \in Kernels /\ Running(next, longer, chunks)
               /\ longer \in [0 .. MaxBatch -> Nat]
    BY <1>2, <1>5, <1>6, <2>1, RunningOn
  <2> QED BY <1>1, <2>1
<1>8. device' = [device EXCEPT !.lengths = longer]
  BY <1>2, <1>5 DEF Buffers, Longer
<1> HIDE DEF longer
<1>9. /\ device' \in Buffers
      /\ device'.input = device.input /\ device'.indices = device.indices
      /\ device'.lengths = longer
  BY <1>5, <1>7, <1>8 DEF Buffers
<1>10. TypeOK'
  <2>1. kernel'.done <= MaxBatch
    <3>1. kernel'.done \in 0 .. Len(chunks) /\ Len(chunks) \in Nat
      BY <1>5, <1>7, LenProperties DEF Running
    <3> QED BY <1>5, <3>1, ConstantFacts
  <2> QED BY <1>2, <1>3, <2>1 DEF Invariant, TypeOK
<1>11. Typed'
  BY <1>2, <1>7, <1>9 DEF Invariant, Typed, IsSeq
<1>12. Orders'
  BY <1>2, <1>3 DEF Invariant, Orders
<1>13. Contents'
  <2>1. Running(kernel, device.lengths, chunks)'
    BY <1>2, <1>7, <1>9
  <2>2. Holds(device.indices, device.input, chunks)' \/ "write" \notin complete'
    BY <1>2, <1>4, <1>9 DEF Invariant, Contents
  <2>3. "task" \notin complete' /\ "read" \notin complete' /\ pc' # "records"
    BY <1>2, <1>3, <1>4
  <2> QED BY <1>2, <2>1, <2>2, <2>3 DEF Invariant, Contents, Working
<1> QED BY <1>10, <1>11, <1>12, <1>13 DEF Invariant

LEMMA StoreDataStep ==
  ASSUME Invariant, StoreData,
         UNCHANGED <<pc, chunks, dedupVars, recordVars, input, decoderVars>>
  PROVE  Invariant'
<1> DEFINE first == IF kernel.failure THEN 1 ELSE 0
           all == kernel.out \o SubSeq(device.codes, Len(kernel.out) + 1, Len(device.codes))
           results == [device.lengths EXCEPT ![0] = first]
<1>1. /\ kernel.busy /\ kernel.done = kernel.bound
      /\ kernel' = IdleKernel
      /\ queue' = queue \ {"task"} /\ complete' = complete \cup {"task"}
      /\ device' = [device EXCEPT !.lengths[0] = first, !.codes = all]
      /\ UNCHANGED <<host, pc, chunks, shaMap, chunkId, dedupOut,
                     ptr, finalData, archive, input, pos>>
  BY DEF StoreData, Complete, dedupVars, recordVars, decoderVars
<1>2. /\ "task" \in queue /\ "write" \in complete /\ "task" \notin complete
      /\ "read" \notin complete
  BY <1>1 DEF Invariant, TypeOK, Orders
<1>3. Working /\ pc # "records" /\ pc \in {"task", "read", "wait"}
  BY <1>2, InQueue
<1>4. /\ chunks \in Seq(Chunks) /\ device \in Buffers
      /\ device.lengths \in [0 .. MaxBatch -> Nat] /\ device.codes \in Seq(Nat)
      /\ kernel \in Kernels /\ Running(kernel, device.lengths, chunks)
  BY <1>1 DEF Invariant, TypeOK, Typed, Contents, Buffers
<1>5. /\ all \in Seq(Nat) /\ results \in [0 .. MaxBatch -> Nat]
      /\ Results(all, results, chunks)
  BY <1>1, <1>4, first \in Nat, RunningStored
<1> HIDE DEF all
<1>6. device' = [device EXCEPT !.lengths = results, !.codes = all]
  BY <1>1, <1>4 DEF Buffers
<1> HIDE DEF results
<1>7. /\ device' \in Buffers
      /\ device'.input = device.input /\ device'.indices = device.indices
      /\ device'.lengths = results /\ device'.codes = all
  BY <1>4, <1>5, <1>6 DEF Buffers
<1>8. kernel' \in Kernels /\ ~kernel'.busy /\ kernel'.done = 0
  BY <1>1, EmptyBuffersTyped DEF IdleKernel
<1>9. TypeOK'
  <2>1. /\ queue' \cup complete' \subseteq {"write", "task", "read"}
        /\ queue' \cap complete' = {}
    BY <1>1 DEF Invariant, TypeOK
  <2> QED BY <1>1, <1>8, <2>1, ConstantFacts DEF Invariant, TypeOK
<1>10. Typed'
  BY <1>1, <1>7, <1>8 DEF Invariant, Typed, IsSeq
<1>11. Orders'
  <2>1. queue' \cup complete' = queue \cup complete
    BY <1>1, <1>2
  <2> QED BY <1>1, <1>2, <1>3, <1>8, <2>1 DEF Invariant, Orders
<1>12. Contents'
  <2>1. Holds(device.indices, device.input, chunks)'
    BY <1>1, <1>2, <1>3, <1>7 DEF Invariant, Contents
  <2>2. Results(device.codes, device.lengths, chunks)'
    BY <1>1, <1>5, <1>7
  <2>3. "read" \notin complete' /\ pc' # "records"
    BY <1>1, <1>2, <1>3
  <2> QED BY <1>1, <1>8, <2>1, <2>2, <2>3 DEF Invariant, Contents, Working
<1> QED BY <1>9, <1>10, <1>11, <1>12 DEF Invariant

LEMMA AppendIsSeq ==
  ASSUME NEW s, IsSeq(s), NEW e
  PROVE  /\ IsSeq(Append(s, e)) /\ Len(Append(s, e)) = Len(s) + 1 /\ Len(s) \in Nat
<1>1. PICK S : s \in Seq(S)
  BY DEF IsSeq
<1>2. s \in Seq(S \cup {e})
  BY <1>1, S \subseteq S \cup {e}, SeqMonotonic
<1>3. /\ Append(s, e) \in Seq(S \cup {e}) /\ Len(Append(s, e)) = Len(s) + 1
  BY <1>2, e \in S \cup {e}, AppendProperties
<1> QED BY <1>1, <1>3, LenProperties DEF IsSeq

LEMMA ConcatIsSeq ==
  ASSUME NEW s, IsSeq(s), NEW t, IsSeq(t)
  PROVE  /\ IsSeq(s \o t) /\ Len(s \o t) = Len(s) + Len(t)
         /\ Len(s) \in Nat /\ Len(t) \in Nat
<1>1. PICK S : s \in Seq(S)
  BY DEF IsSeq
<1>2. PICK T : t \in Seq(T)
  BY DEF IsSeq
<1>3. s \in Seq(S \cup T) /\ t \in Seq(S \cup T)
  BY <1>1, <1>2, S \subseteq S \cup T, T \subseteq S \cup T, SeqMonotonic
<1>4. s \o t \in Seq(S \cup T) /\ Len(s \o t) = Len(s) + Len(t)
  BY <1>3, ConcatProperties
<1> QED BY <1>1, <1>2, <1>4, LenProperties DEF IsSeq

LEMMA EndWaitStep == ASSUME Invariant, EndWait PROVE Invariant'
<1>1. /\ pc = "wait" /\ "read" \in complete
      /\ pc' = IF host.lengths[0] % 2 = 1 THEN "failed" ELSE "records"
      /\ UNCHANGED <<chunks, shaMap, chunkId, dedupOut, host, device, queue, complete, kernel,
                     ptr, finalData, archive, input, pos>>
  BY DEF EndWait, Waited, dedupVars, queueVars, recordVars, decoderVars
<1>2. /\ Working /\ ~Working' /\ pc' \in {"failed", "records"}
  BY <1>1 DEF Working
<1>3. queue = {} /\ ~kernel.busy
  <2>1. "task" \in complete /\ "write" \in complete
    BY <1>1 DEF Invariant, Orders
  <2>2. queue = {}
    BY <1>1, <2>1 DEF Invariant, TypeOK
  <2> QED BY <2>2 DEF Invariant, TypeOK
<1>4. TypeOK'
  BY <1>1, <1>2 DEF Invariant, TypeOK
<1>5. Typed'
  BY <1>1 DEF Invariant, Typed, IsSeq
<1>6. Orders'
  BY <1>1, <1>2, <1>3 DEF Invariant, Orders
<1>7. Contents'
  <2>1. /\ Len(chunks) > 0 /\ Holds(host.indices, host.input, chunks)
        /\ Results(host.codes, host.lengths, chunks)
        /\ ptr = 0 /\ finalData = <<>>
    BY <1>1, <1>2 DEF Invariant, Contents
  <2>2. PICK off : Offsets(off, chunks, host.codes, Len(chunks))
    BY <2>1 DEF Results
  <2>3. Len(finalData) = 0
    BY <2>1, EmptySeq
  <2>4. ptr = off[Len(finalData)]
    BY <2>1, <2>2, <2>3 DEF Offsets
  <2>5. LengthsOf(host.lengths, chunks, Len(chunks)) /\ Len(finalData) < Len(chunks)
    BY <2>1, <2>3 DEF Results
  <2> QED BY <1>1, <1>2, <1>3, <2>1, <2>2, <2>4, <2>5 DEF Contents
<1> QED BY <1>4, <1>5, <1>6, <1>7 DEF Invariant

\* At the pointer are the codes of the chunk whose turn it is.
LEMMA AtPointer ==
  ASSUME Invariant, pc = "records"
  PROVE  LET k == Len(finalData) + 1
             n == host.lengths[k]
         IN /\ k \in 1 .. Len(chunks) /\ n = Len(Codes[chunks[k]]) /\ n \in Nat
            /\ ptr \in Nat /\ ptr + n <= Len(host.codes)
            /\ SubSeq(host.codes, ptr + 1, ptr + n) = Codes[chunks[k]]
            /\ \E off : Offsets(off, chunks, host.codes, Len(chunks)) /\ ptr + n = off[k]
<1> DEFINE k == Len(finalData) + 1
           n == host.lengths[k]
           size == Len(Codes[chunks[k]])
<1>1. PICK off : Offsets(off, chunks, host.codes, Len(chunks)) /\ ptr = off[Len(finalData)]
  BY DEF Invariant, Contents
<1>2. /\ chunks \in Seq(Chunks) /\ host.codes \in Seq(Nat) /\ IsSeq(finalData)
      /\ LengthsOf(host.lengths, chunks, Len(chunks)) /\ Len(finalData) < Len(chunks)
  BY DEF Invariant, TypeOK, Typed, Contents, Buffers
<1>3. Len(finalData) \in Nat /\ Len(chunks) \in Nat
  BY <1>2, LenProperties DEF IsSeq
<1>4. k \in 1 .. Len(chunks) /\ k - 1 = Len(finalData)
  BY <1>2, <1>3
<1> HIDE DEF k
<1>5. n = size
  BY <1>2, <1>4 DEF LengthsOf
<1>6. size \in Nat
  BY <1>2, <1>4, LenProperties, ConstantFacts
<1>7. /\ off[k] = off[k - 1] + size /\ off[k - 1] \in Nat
      /\ off[k - 1] + size <= Len(host.codes)
      /\ SubSeq(host.codes, off[k - 1] + 1, off[k - 1] + size) = Codes[chunks[k]]
  BY <1>1, <1>2, <1>4, OffsetsSubSeq
<1>8. ptr = off[k - 1]
  BY <1>1, <1>4
<1> HIDE DEF n, size
<1> QED BY <1>1, <1>4, <1>5, <1>6, <1>7, <1>8 DEF k, n, size

LEMMA MakeRecordStep == ASSUME Invariant, MakeRecord PROVE Invariant'
<1> DEFINE k == Len(finalData) + 1
           n == host.lengths[k]
<1>1. /\ pc = "records" /\ k < host.indices[1] /\ ptr' = ptr + n
      /\ pc' = IF k + 1 = host.indices[1] THEN "file" ELSE "records"
      /\ \E record : finalData' = Append(finalData, record)
      /\ UNCHANGED <<chunks, shaMap, chunkId, dedupOut, host, device, queue, complete, kernel,
                     archive, input, pos>>
  BY DEF MakeRecord, dedupVars, queueVars, decoderVars
<1>2. /\ k \in 1 .. Len(chunks) /\ n \in Nat
      /\ ptr \in Nat /\ ptr + n <= Len(host.codes)
      /\ \E off : Offsets(off, chunks, host.codes, Len(chunks)) /\ ptr + n = off[k]
  BY <1>1, AtPointer
<1>3. IsSeq(finalData') /\ Len(finalData') = k
  BY <1>1, AppendIsSeq DEF Invariant, Typed
<1>4. /\ Len(chunks) > 0 /\ Holds(host.indices, host.input, chunks)
      /\ LengthsOf(host.lengths, chunks, Len(chunks))
      /\ queue = {} /\ ~kernel.busy
  BY <1>1 DEF Invariant, TypeOK, Contents, Orders
<1> HIDE DEF k, n
<1>5. Len(chunks) \in Nat /\ Len(host.codes) \in Nat
  <2>1. chunks \in Seq(Chunks) /\ host.codes \in Seq(Nat)
    BY DEF Invariant, TypeOK, Typed, Buffers
  <2> QED BY <2>1, LenProperties
<1>6. /\ ptr' \in 0 .. Len(host.codes) /\ Len(finalData') <= Len(chunks)
      /\ pc' \in {"file", "records"} /\ (pc' = "records" => k < Len(chunks))
  <2>1. host.indices[1] = Len(chunks) + 1
    BY <1>4 DEF Holds
  <2> QED BY <1>1, <1>2, <1>3, <1>5, <2>1
<1>7. TypeOK'
  BY <1>1, <1>6 DEF Invariant, TypeOK
<1>8. Typed'
  BY <1>1, <1>3 DEF Invariant, Typed, IsSeq
<1>9. Orders'
  BY <1>1, <1>4, <1>6 DEF Invariant, Orders
<1>10. Contents'
  <2>1. ~Working'
    BY <1>6 DEF Working
  <2>2. \E off : Offsets(off, chunks, host.codes, Len(chunks)) /\ ptr' = off[Len(finalData')]
    BY <1>1, <1>2, <1>3
  <2> QED BY <1>1, <1>3, <1>4, <1>6, <2>1, <2>2 DEF Contents
<1> QED BY <1>7, <1>8, <1>9, <1>10 DEF Invariant

LEMMA WriteRecordsStep == ASSUME Invariant, WriteRecords PROVE Invariant'
<1>1. /\ pc = "file" /\ pc' = "receive" /\ archive' = archive \o finalData
      /\ UNCHANGED <<chunks, shaMap, chunkId, dedupOut, host, device, queue, complete, kernel,
                     ptr, finalData, input, pos>>
  BY DEF WriteRecords, dedupVars, queueVars, decoderVars
<1>2. /\ IsSeq(archive') /\ Len(archive') = Len(archive) + Len(finalData)
      /\ Len(archive) \in Nat /\ Len(finalData) \in Nat
  BY <1>1, ConcatIsSeq DEF Invariant, Typed
<1>3. queue = {} /\ ~kernel.busy
  BY <1>1 DEF Invariant, TypeOK, Orders
<1>4. TypeOK'
  <2>1. pos' \in 0 .. Len(archive')
    <3>1. pos \in 0 .. Len(archive)
      BY DEF Invariant, TypeOK
    <3> QED BY <1>1, <1>2, <3>1
  <2> QED BY <1>1, <2>1 DEF Invariant, TypeOK
<1>5. Typed'
  BY <1>1, <1>2 DEF Invariant, Typed, IsSeq
<1>6. Orders'
  BY <1>1, <1>3 DEF Invariant, Orders
<1>7. Contents'
  BY <1>1, <1>3 DEF Contents, Working
<1> QED BY <1>4, <1>5, <1>6, <1>7 DEF Invariant

LEMMA CloseArchiveStep == ASSUME Invariant, CloseArchive PROVE Invariant'
<1>1. /\ pc = "receive" /\ pc' = "closed"
      /\ UNCHANGED <<chunks, shaMap, chunkId, dedupOut, host, device, queue, complete, kernel,
                     ptr, finalData, archive, input, pos>>
  BY DEF CloseArchive, dedupVars, queueVars, recordVars, decoderVars
<1>2. queue = {} /\ ~kernel.busy
  BY <1>1 DEF Invariant, TypeOK, Orders
<1>3. TypeOK' /\ Typed'
  BY <1>1 DEF Invariant, TypeOK, Typed, IsSeq
<1>4. Orders' /\ Contents'
  BY <1>1, <1>2 DEF Invariant, Orders, Contents, Working
<1> QED BY <1>3, <1>4 DEF Invariant

\* The decoder moves on in the archive and leaves the host alone.
LEMMA DecodeStep ==
  ASSUME Invariant, UNCHANGED encoderVars,
         pos' = pos \/ (pos < Len(archive) /\ pos' = pos + 1)
  PROVE  Invariant'
<1>1. UNCHANGED <<pc, chunks, shaMap, chunkId, dedupOut, host, device, queue, complete, kernel,
                  ptr, finalData, archive, input>>
  BY DEF encoderVars, dedupVars, queueVars, recordVars
<1>2. TypeOK'
  <2>1. Len(archive) \in Nat
    BY LenProperties DEF Invariant, Typed, IsSeq
  <2>2. pos' \in 0 .. Len(archive)
    BY <2>1 DEF Invariant, TypeOK
  <2> QED BY <1>1, <2>2 DEF Invariant, TypeOK
<1>3. Typed' /\ Orders'
  BY <1>1 DEF Invariant, Typed, IsSeq, Orders
<1>4. Contents'
  BY <1>1 DEF Invariant, Contents, Working
<1> QED BY <1>2, <1>3, <1>4 DEF Invariant

LEMMA NextInvariant == ASSUME Invariant, [Next]_vars PROVE Invariant'
<1>1. ASSUME NEW batch \in Batches, StartBatch(batch) PROVE Invariant'
  BY <1>1, StartBatchStep
<1>2. CASE Dedup
  BY <1>2, DedupStep
<1>3. CASE EnqueueNext
  BY <1>3, EnqueueStep
<1>4. CASE DeviceStep
  <2>1. UNCHANGED <<pc, chunks, dedupVars, recordVars, input, decoderVars>>
    BY <1>4 DEF DeviceStep
  <2>2. CASE MigrateToDevice
    BY <2>1, <2>2, MigrateToDeviceStep
  <2>3. CASE MigrateToHost
    BY <2>1, <2>3, MigrateToHostStep
  <2>4. CASE LoadData
    BY <2>1, <2>4, LoadDataStep
  <2>5. CASE ComputeChunk
    BY <2>1, <2>5, ComputeChunkStep
  <2>6. CASE StoreData
    BY <2>1, <2>6, StoreDataStep
  <2> QED BY <1>4, <2>2, <2>3, <2>4, <2>5, <2>6 DEF DeviceStep, Device
<1>5. CASE EndWait
  BY <1>5, EndWaitStep
<1>6. CASE MakeRecord
  BY <1>6, MakeRecordStep
<1>7. CASE WriteRecords
  BY <1>7, WriteRecordsStep
<1>8. CASE CloseArchive
  BY <1>8, CloseArchiveStep
<1>9. CASE Decoder
  <2>1. UNCHANGED encoderVars
    BY <1>9 DEF Decoder, DecodeRaw, DecodeReference
  <2>2. pos < Len(archive) /\ pos' = pos + 1
    BY <1>9 DEF Decoder, DecodeRaw, DecodeReference
  <2> QED BY <2>1, <2>2, DecodeStep
<1>10. CASE UNCHANGED vars
  <2>1. UNCHANGED encoderVars /\ pos' = pos
    BY <1>10 DEF vars, decoderVars
  <2> QED BY <2>1, DecodeStep
<1>11. CASE Finished
  BY <1>10, <1>11 DEF Finished
<1> QED BY <1>1, <1>2, <1>3, <1>4, <1>5, <1>6, <1>7, <1>8, <1>9, <1>10, <1>11
        DEF Next, Encoder

THEOREM InvariantHolds == Spec => []Invariant
<1>1. Invariant /\ [Next]_vars => Invariant'
  BY NextInvariant
<1> QED BY <1>1, InitInvariant, PTL DEF Spec

-----------------------------------------------------------------------------

\* The variables keep their types, whatever the chunks and their codes: a
\* command is never at once in the queue and complete, and output_codes_ptr
\* stays inside the codes the host has.
THEOREM TypeCorrect == Spec => []TypeOK
<1>1. Invariant => TypeOK
  BY DEF Invariant
<1> QED BY <1>1, InvariantHolds, PTL

\* The events of main's queue and the pointer of the record loop (host.cpp)
\* give each record the codes of its own chunk, in every batch of a run of any
\* length, although the queue is out of order and no buffer is ever cleared.
THEOREM RecordsHoldOwnCodes == Spec => []OwnResults
<1>1. Invariant => OwnResults
  <2> SUFFICES ASSUME Invariant PROVE OwnResults
    OBVIOUS
  <2>1. pc \in {"records", "file"} => queue = {} /\ ~kernel.busy
    BY DEF Invariant, TypeOK, Orders
  <2>2. ASSUME pc = "records"
        PROVE  LET k == Len(finalData) + 1
                   n == host.lengths[k]
               IN /\ k <= Len(chunks) /\ n = Len(Codes[chunks[k]])
                  /\ ptr + n <= Len(host.codes)
                  /\ SubSeq(host.codes, ptr + 1, ptr + n) = Codes[chunks[k]]
    <3>1. Len(chunks) \in Nat
      BY LenProperties DEF Invariant, TypeOK
    <3> QED BY <2>2, <3>1, AtPointer
  <2> QED BY <2>1, <2>2 DEF OwnResults
<1> QED BY <1>1, InvariantHolds, PTL

-----------------------------------------------------------------------------
-----------------------------------------------------------------------------
(* The log of dedup *)

Entries == [chunk : Chunks, id : Nat, out : {New} \cup Nat]

\* chunk_id after a call of dedup
After(e) == IF e.out = New THEN e.id + 1 ELSE e.id

\* chunk_id after k calls
IdAt(lg, next, k) == IF k < Len(lg) THEN lg[k + 1].id ELSE next

\* The ids go up with the new chunks, the map has the id of every chunk met,
\* and a chunk is new the first time it is met and no other time.
Numbered(lg, next, map) ==
  /\ IdAt(lg, next, 0) = 0
  /\ \A k \in 1 .. Len(lg) : After(lg[k]) = IdAt(lg, next, k) /\ After(lg[k]) <= next
  /\ \A j, k \in 1 .. Len(lg) : j < k => After(lg[j]) <= lg[k].id
  /\ \A k \in 1 .. Len(lg) :
       /\ lg[k].out = New =>
            /\ Sha[lg[k].chunk] \in DOMAIN map /\ map[Sha[lg[k].chunk]] = lg[k].id
            /\ \A j \in 1 .. k - 1 : lg[j].chunk # lg[k].chunk
       /\ lg[k].out # New =>
            \E j \in 1 .. k - 1 :
              lg[j].chunk = lg[k].chunk /\ lg[j].out = New /\ lg[k].out = lg[j].id
  /\ \A f \in DOMAIN map :
       \E k \in 1 .. Len(lg) : Sha[lg[k].chunk] = f /\ lg[k].out = New

\* What dedup answers and enters for a chunk.
Answer(map, c) == IF Sha[c] \in DOMAIN map THEN map[Sha[c]] ELSE New

EntryFor(map, next, c) == [chunk |-> c, id |-> next, out |-> Answer(map, c)]

NextId(map, next, c) == IF Sha[c] \in DOMAIN map THEN next ELSE next + 1

WithId(map, next, c) ==
  IF Sha[c] \in DOMAIN map THEN map
  ELSE [f \in DOMAIN map \cup {Sha[c]} |-> IF f = Sha[c] THEN next ELSE map[f]]

\* A call of dedup keeps the log in order.
LEMMA NumberedAppend ==
  ASSUME NEW lg \in Seq(Entries), NEW next \in Nat, NEW map, NEW c \in Chunks,
         \A f \in DOMAIN map : map[f] \in Nat,
         Numbered(lg, next, map)
  PROVE  LET all == Append(lg, EntryFor(map, next, c)) IN
         /\ EntryFor(map, next, c) \in Entries /\ all \in Seq(Entries)
         /\ Numbered(all, NextId(map, next, c), WithId(map, next, c))
<1> DEFINE out == Answer(map, c)
           after == NextId(map, next, c)
           larger == WithId(map, next, c)
           e == EntryFor(map, next, c)
           all == Append(lg, e)
           n == Len(lg)
<1>1. /\ e \in Entries /\ e.chunk = c /\ e.id = next /\ e.out = out
      /\ (out = New <=> Sha[c] \notin DOMAIN map)
  <2>1. Sha[c] \in DOMAIN map => map[Sha[c]] \in Nat
    OBVIOUS
  <2>2. out \in {New} \cup Nat /\ (out = New <=> Sha[c] \notin DOMAIN map)
    BY <2>1 DEF New, Answer
  <2>3. e = [chunk |-> c, id |-> next, out |-> out]
    BY DEF EntryFor
  <2> HIDE DEF out
  <2> QED BY <2>2, <2>3 DEF Entries
<1> HIDE DEF e
<1>2. n \in Nat /\ \A k \in 1 .. n : lg[k] \in Entries
  BY LenProperties, ElementOfSeq
<1>3. /\ all \in Seq(Entries) /\ Len(all) = n + 1
      /\ \A k \in 1 .. n : all[k] = lg[k]
      /\ all[n + 1] = e
  BY <1>1, AppendProperties
<1> HIDE DEF all, n
<1>4. /\ IdAt(lg, next, 0) = 0
      /\ \A k \in 1 .. n : After(lg[k]) = IdAt(lg, next, k) /\ After(lg[k]) <= next
      /\ \A j, k \in 1 .. n : j < k => After(lg[j]) <= lg[k].id
  BY DEF Numbered, n
<1>5. \A k \in 1 .. n :
        /\ lg[k].out = New =>
             /\ Sha[lg[k].chunk] \in DOMAIN map /\ map[Sha[lg[k].chunk]] = lg[k].id
             /\ \A j \in 1 .. k - 1 : lg[j].chunk # lg[k].chunk
        /\ lg[k].out # New =>
             \E j \in 1 .. k - 1 :
               lg[j].chunk = lg[k].chunk /\ lg[j].out = New /\ lg[k].out = lg[j].id
  BY DEF Numbered, n
<1>6. \A f \in DOMAIN map : \E k \in 1 .. n : Sha[lg[k].chunk] = f /\ lg[k].out = New
  BY DEF Numbered, n
<1>7. After(e) = after /\ next <= after
  BY <1>1 DEF After, NextId
<1>0. after \in Nat
  BY DEF NextId
<1> HIDE DEF after, out
<1>8. \A k \in 0 .. n : IdAt(all, after, k) = IdAt(lg, next, k)
  <2> TAKE k \in 0 .. n
  <2>1. CASE k < n
    <3>1. k + 1 \in 1 .. n /\ k < n + 1
      BY <1>2, <2>1
    <3> QED BY <1>2, <1>3, <2>1, <3>1 DEF IdAt, n
  <2>2. CASE ~(k < n)
    <3>1. k = n /\ k < n + 1
      BY <1>2, <2>2
    <3> QED BY <1>1, <1>3, <2>2, <3>1 DEF IdAt, n
  <2> QED BY <2>1, <2>2
<1>9. IdAt(all, after, n + 1) = after
  BY <1>2, <1>3 DEF IdAt
<1>10. IdAt(all, after, 0) = 0
  BY <1>2, <1>4, <1>8
<1>11. \A k \in 1 .. n + 1 : After(all[k]) = IdAt(all, after, k) /\ After(all[k]) <= after
  <2> TAKE k \in 1 .. n + 1
  <2>1. CASE k \in 1 .. n
    <3>1. all[k] = lg[k] /\ After(lg[k]) = IdAt(lg, next, k) /\ After(lg[k]) <= next
      BY <1>3, <1>4, <2>1
    <3>2. IdAt(all, after, k) = IdAt(lg, next, k)
      BY <1>8, <2>1
    <3>3. After(lg[k]) \in Nat
      BY <1>2, <2>1 DEF After, Entries
    <3> QED BY <1>0, <1>7, <3>1, <3>2, <3>3
  <2>2. CASE k = n + 1
    BY <1>0, <1>3, <1>7, <1>9, <2>2
  <2> QED BY <1>2, <2>1, <2>2
<1>12. \A j, k \in 1 .. n + 1 : j < k => After(all[j]) <= all[k].id
  <2> TAKE j, k \in 1 .. n + 1
  <2> HAVE j < k
  <2>1. j \in 1 .. n /\ all[j] = lg[j]
    BY <1>2, <1>3
  <2>2. CASE k \in 1 .. n
    BY <1>3, <1>4, <2>1, <2>2
  <2>3. CASE k = n + 1
    BY <1>1, <1>3, <1>4, <2>1, <2>3
  <2>4. k \in 1 .. n \/ k = n + 1
    BY <1>2
  <2> QED BY <2>2, <2>3, <2>4
<1>13. /\ Sha[c] \in DOMAIN larger
       /\ \A f \in DOMAIN map : f \in DOMAIN larger /\ larger[f] = map[f]
       /\ Sha[c] \notin DOMAIN map => larger[Sha[c]] = next
       /\ \A f \in DOMAIN larger : f \in DOMAIN map \/ (f = Sha[c] /\ Sha[c] \notin DOMAIN map)
  BY Zenon DEF WithId
<1> HIDE DEF larger
<1>14. ASSUME NEW k \in 1 .. n + 1, all[k].out = New
       PROVE  /\ Sha[all[k].chunk] \in DOMAIN larger
              /\ larger[Sha[all[k].chunk]] = all[k].id
              /\ \A j \in 1 .. k - 1 : all[j].chunk # all[k].chunk
  <2>1. \A j \in 1 .. k - 1 : j \in 1 .. n /\ all[j] = lg[j]
    BY <1>2, <1>3
  <2>2. CASE k \in 1 .. n
    BY <1>3, <1>5, <1>13, <1>14, <2>1, <2>2
  <2>3. CASE k = n + 1
    <3>1. all[k].chunk = c /\ all[k].id = next /\ Sha[c] \notin DOMAIN map
      BY <1>1, <1>3, <1>14, <2>3
    <3>2. ASSUME NEW j \in 1 .. k - 1, all[j].chunk = c
          PROVE  FALSE
      <4>1. j \in 1 .. n /\ lg[j].chunk = c
        BY <2>1, <3>2
      <4>2. CASE lg[j].out = New
        BY <1>5, <3>1, <4>1, <4>2
      <4>3. CASE lg[j].out # New
        <5>1. PICK i \in 1 .. j - 1 : lg[i].chunk = lg[j].chunk /\ lg[i].out = New
          BY <1>5, <4>1, <4>3
        <5>2. i \in 1 .. n
          BY <1>2, <4>1
        <5> QED BY <1>5, <3>1, <4>1, <5>1, <5>2
      <4> QED BY <4>2, <4>3
    <3> QED BY <1>13, <3>1, <3>2
  <2> QED BY <1>2, <2>2, <2>3
<1>15. ASSUME NEW k \in 1 .. n + 1, all[k].out # New
       PROVE  \E j \in 1 .. k - 1 :
                all[j].chunk = all[k].chunk /\ all[j].out = New /\ all[k].out = all[j].id
  <2>1. \A j \in 1 .. k - 1 : j \in 1 .. n /\ all[j] = lg[j]
    BY <1>2, <1>3
  <2>2. CASE k \in 1 .. n
    <3>1. PICK j \in 1 .. k - 1 :
            lg[j].chunk = lg[k].chunk /\ lg[j].out = New /\ lg[k].out = lg[j].id
      BY <1>3, <1>5, <1>15, <2>2
    <3> QED BY <1>3, <2>1, <2>2, <3>1
  <2>3. CASE k = n + 1
    <3>1. all[k].chunk = c /\ all[k].out = out /\ Sha[c] \in DOMAIN map
      BY <1>1, <1>3, <1>15, <2>3
    <3>2. PICK j \in 1 .. n : Sha[lg[j].chunk] = Sha[c] /\ lg[j].out = New
      BY <1>6, <3>1
    <3>3. lg[j].chunk = c
      <4>1. lg[j].chunk \in Chunks
        BY <1>2 DEF Entries
      <4> QED BY <3>2, <4>1, DedupArchiveAssumption
    <3>4. out = lg[j].id
      BY <1>5, <3>1, <3>2, <3>3 DEF out, Answer
    <3>5. j \in 1 .. k - 1
      BY <1>2, <2>3
    <3> QED BY <2>1, <3>1, <3>2, <3>3, <3>4, <3>5
  <2> QED BY <1>2, <2>2, <2>3
<1>16. ASSUME NEW f \in DOMAIN larger
       PROVE  \E k \in 1 .. n + 1 : Sha[all[k].chunk] = f /\ all[k].out = New
  <2>1. CASE f \in DOMAIN map
    <3>1. PICK k \in 1 .. n : Sha[lg[k].chunk] = f /\ lg[k].out = New
      BY <1>6, <2>1
    <3>2. k \in 1 .. n + 1
      BY <1>2
    <3> QED BY <1>3, <3>1, <3>2
  <2>2. CASE f = Sha[c] /\ Sha[c] \notin DOMAIN map
    <3>1. n + 1 \in 1 .. n + 1
      BY <1>2
    <3> QED BY <1>1, <1>3, <2>2, <3>1
  <2> QED BY <1>13, <2>1, <2>2
<1>17. Numbered(all, after, larger)
  <2>1. \A k \in 1 .. Len(all) :
          After(all[k]) = IdAt(all, after, k) /\ After(all[k]) <= after
    BY <1>3, <1>11
  <2>2. \A j, k \in 1 .. Len(all) : j < k => After(all[j]) <= all[k].id
    BY <1>3, <1>12
  <2>3. \A k \in 1 .. Len(all) :
          /\ all[k].out = New =>
               /\ Sha[all[k].chunk] \in DOMAIN larger
               /\ larger[Sha[all[k].chunk]] = all[k].id
               /\ \A j \in 1 .. k - 1 : all[j].chunk # all[k].chunk
          /\ all[k].out # New =>
               \E j \in 1 .. k - 1 :
                 all[j].chunk = all[k].chunk /\ all[j].out = New /\ all[k].out = all[j].id
    BY <1>3, <1>14, <1>15, Zenon
  <2>4. \A f \in DOMAIN larger :
          \E k \in 1 .. Len(all) : Sha[all[k].chunk] = f /\ all[k].out = New
    BY <1>3, <1>16, Zenon
  <2> QED BY <1>10, <2>1, <2>2, <2>3, <2>4, Zenon DEF Numbered
<1> QED BY <1>1, <1>3, <1>17 DEF all, e, after, larger

-----------------------------------------------------------------------------
(* What has gone through the pipeline *)

\* The batch is the end of the input, and the log has gone as far into it as
\* dedup_out has.
InLine(chs, inp, lg, outs) ==
  /\ lg \in Seq(Entries) /\ Len(chs) <= Len(inp)
  /\ \A k \in 1 .. Len(chs) : inp[Len(inp) - Len(chs) + k] = chs[k]
  /\ Len(lg) = Len(inp) - Len(chs) + Len(outs)
  /\ \A k \in 1 .. Len(lg) : lg[k].chunk = inp[k]
  /\ \A k \in 1 .. Len(outs) : outs[k] = lg[Len(inp) - Len(chs) + k].out

RecordFor(e) ==
  IF e.out = New THEN RawRecord(Len(Codes[e.chunk]), Codes[e.chunk]) ELSE RefRecord(e.out)

\* Records of log entries, from the one behind the first so many.
RecordsOf(records, lg, before) ==
  \A k \in 1 .. Len(records) : records[k] = RecordFor(lg[before + k])

Before == Len(input) - Len(chunks)

History ==
  /\ InLine(chunks, input, log, dedupOut)
  /\ Numbered(log, chunkId, shaMap)
  /\ pc # "dedup" => Len(dedupOut) = Len(chunks)
  /\ Len(archive) = IF pc \in {"receive", "closed"} THEN Len(log) ELSE Before
  /\ RecordsOf(archive, log, 0)
  /\ pc \in {"records", "file"} => RecordsOf(finalData, log, Before)
  /\ pc = "file" => Len(finalData) = Len(chunks)

LEMMA InitHistory == Init => History
<1> SUFFICES ASSUME Init PROVE History
  OBVIOUS
<1> DEFINE none == <<>>
<1>1. /\ pc = "receive" /\ chunks = none /\ input = none /\ shaMap = none /\ chunkId = 0
      /\ dedupOut = none /\ log = none /\ archive = none
  BY DEF Init
<1>2. /\ \A S : none \in Seq(S)
      /\ Len(none) = 0
  BY EmptySeq
<1>3. DOMAIN none = {}
  <2>1. DOMAIN none = 1 .. 0
    BY <1>2, LenProperties
  <2> QED BY <2>1
<1> HIDE DEF none
<1>4. InLine(chunks, input, log, dedupOut)
  BY <1>1, <1>2 DEF InLine
<1>5. Numbered(log, chunkId, shaMap)
  BY <1>1, <1>2, <1>3 DEF Numbered, IdAt
<1>6. RecordsOf(archive, log, 0) /\ Len(archive) = Len(log) /\ Len(dedupOut) = Len(chunks)
  BY <1>1, <1>2 DEF RecordsOf
<1> QED BY <1>1, <1>4, <1>5, <1>6 DEF History

\* The lengths are natural numbers.
LEMMA LengthFacts ==
  ASSUME Invariant, History
  PROVE  /\ Len(chunks) \in Nat /\ Len(input) \in Nat /\ Len(log) \in Nat
         /\ Len(dedupOut) \in Nat /\ Len(archive) \in Nat /\ Len(finalData) \in Nat
         /\ Before \in Nat
<1>1. /\ chunks \in Seq(Chunks) /\ input \in Seq(Chunks) /\ dedupOut \in Seq({New} \cup Nat)
      /\ log \in Seq(Entries) /\ IsSeq(archive) /\ IsSeq(finalData)
      /\ Len(chunks) <= Len(input)
  BY DEF Invariant, TypeOK, Typed, History, InLine
<1>2. /\ Len(chunks) \in Nat /\ Len(input) \in Nat /\ Len(log) \in Nat
      /\ Len(dedupOut) \in Nat
  BY <1>1, LenProperties
<1>3. Len(archive) \in Nat /\ Len(finalData) \in Nat
  BY <1>1, LenProperties DEF IsSeq
<1> QED BY <1>1, <1>2, <1>3 DEF Before

LEMMA StartBatchHistory ==
  ASSUME Invariant, History, NEW batch \in Batches, StartBatch(batch)
  PROVE  History'
<1>1. /\ pc = "receive" /\ pc' = "dedup"
      /\ chunks' = batch /\ input' = input \o batch /\ dedupOut' = <<>>
      /\ UNCHANGED <<shaMap, chunkId, archive, log>>
  BY DEF StartBatch
<1>2. batch \in Seq(Chunks) /\ Len(batch) \in Nat
  <2>1. PICK n \in 1 .. MaxBatch : batch \in [1 .. n -> Chunks]
    BY DEF Batches
  <2>2. n \in Nat
    BY ConstantFacts
  <2>3. batch \in Seq(Chunks)
    BY <2>1, <2>2
  <2> QED BY <2>3, LenProperties
<1>3. /\ input \in Seq(Chunks) /\ Len(input) \in Nat /\ Len(chunks) \in Nat
      /\ InLine(chunks, input, log, dedupOut)
      /\ Len(dedupOut) = Len(chunks)
      /\ Len(archive) = Len(log)
      /\ RecordsOf(archive, log, 0) /\ Numbered(log, chunkId, shaMap)
  BY <1>1, LengthFacts DEF Invariant, TypeOK, History
<1>4. Len(log) = Len(input) /\ log \in Seq(Entries)
      /\ \A k \in 1 .. Len(log) : log[k].chunk = input[k]
  BY <1>3 DEF InLine
<1> DEFINE all == input \o batch
           none == <<>>
<1>5. /\ Len(all) = Len(input) + Len(batch)
      /\ \A k \in 1 .. Len(input) + Len(batch) :
           all[k] = IF k <= Len(input) THEN input[k] ELSE batch[k - Len(input)]
  BY <1>2, <1>3, ConcatProperties
<1>6. Len(none) = 0
  BY EmptySeq
<1> HIDE DEF all, none
<1>7. \A k \in 1 .. Len(batch) : all[Len(input) + k] = batch[k]
  <2> TAKE k \in 1 .. Len(batch)
  <2>1. /\ Len(input) + k \in 1 .. Len(input) + Len(batch) /\ ~(Len(input) + k <= Len(input))
        /\ Len(input) + k - Len(input) = k
    BY <1>2, <1>3
  <2> QED BY <1>5, <2>1
<1>8. \A k \in 1 .. Len(input) : all[k] = input[k]
  BY <1>2, <1>3, <1>5
<1>9. InLine(batch, all, log, none)
  <2>1. Len(all) - Len(batch) = Len(input) /\ Len(batch) <= Len(all)
    BY <1>2, <1>3, <1>5
  <2>2. Len(log) = Len(all) - Len(batch) + Len(none)
    BY <1>3, <1>4, <1>6, <2>1
  <2>3. \A k \in 1 .. Len(log) : log[k].chunk = all[k]
    BY <1>4, <1>8
  <2>4. \A k \in 1 .. Len(none) : none[k] = log[Len(all) - Len(batch) + k].out
    BY <1>6
  <2> QED BY <1>4, <1>7, <2>1, <2>2, <2>3, <2>4 DEF InLine
<1>10. InLine(chunks, input, log, dedupOut)'
  BY <1>1, <1>9 DEF all, none
<1>11. Len(archive') = Before'
  BY <1>1, <1>2, <1>3, <1>4, <1>5 DEF Before, all
<1>12. Numbered(log, chunkId, shaMap)' /\ RecordsOf(archive, log, 0)'
  BY <1>1, <1>3
<1> QED BY <1>1, <1>10, <1>11, <1>12 DEF History

LEMMA DedupHistory == ASSUME Invariant, History, Dedup PROVE History'
<1> DEFINE m == Len(dedupOut)
           n == Len(log)
           c == chunks[m + 1]
           out == Answer(shaMap, c)
           e == EntryFor(shaMap, chunkId, c)
           all == Append(log, e)
           outs == Append(dedupOut, out)
<1>1. /\ pc = "dedup" /\ m < Len(chunks)
      /\ shaMap' = WithId(shaMap, chunkId, c) /\ chunkId' = NextId(shaMap, chunkId, c)
      /\ dedupOut' = outs /\ log' = all
      /\ pc' = IF m + 1 = Len(chunks) THEN "write" ELSE "dedup"
      /\ UNCHANGED <<chunks, input, archive, finalData>>
  BY DEF Dedup, recordVars, Answer, EntryFor, NextId, WithId
<1>2. /\ m \in Nat /\ n \in Nat /\ Len(chunks) \in Nat /\ Len(input) \in Nat
      /\ Len(chunks) <= Len(input) /\ Before \in Nat /\ Before = Len(input) - Len(chunks)
  BY LengthFacts DEF History, InLine, Before
<1>3. /\ log \in Seq(Entries) /\ n = Before + m
      /\ \A k \in 1 .. Len(chunks) : input[Before + k] = chunks[k]
      /\ \A k \in 1 .. n : log[k].chunk = input[k]
      /\ \A k \in 1 .. m : dedupOut[k] = log[Before + k].out
  BY DEF History, InLine, Before
<1>4. c \in Chunks /\ c = input[n + 1]
  <2>1. m + 1 \in 1 .. Len(chunks) /\ Before + (m + 1) = n + 1
    BY <1>1, <1>2, <1>3
  <2>2. chunks \in Seq(Chunks)
    BY DEF Invariant, TypeOK
  <2>3. c \in Chunks
    BY <2>1, <2>2, ElementOfSeq
  <2> QED BY <1>3, <2>1, <2>3
<1>5. /\ chunkId \in Nat /\ \A f \in DOMAIN shaMap : shaMap[f] \in Nat
      /\ dedupOut \in Seq({New} \cup Nat) /\ Numbered(log, chunkId, shaMap)
  BY DEF Invariant, TypeOK, History
<1>6. out \in {New} \cup Nat
  BY <1>5 DEF Answer
<1> HIDE DEF c
<1>7. /\ e \in Entries /\ all \in Seq(Entries)
      /\ Numbered(all, chunkId', shaMap')
  <2>1. /\ e \in Entries /\ all \in Seq(Entries)
        /\ Numbered(all, NextId(shaMap, chunkId, c), WithId(shaMap, chunkId, c))
    BY <1>3, <1>4, <1>5, NumberedAppend
  <2> HIDE DEF all, e
  <2> QED BY <1>1, <2>1
<1>8. e.chunk = c /\ e.out = out
  BY DEF EntryFor
<1> HIDE DEF e, out
<1>9. /\ Len(all) = n + 1 /\ \A k \in 1 .. n : all[k] = log[k]
      /\ all[n + 1] = e
  BY <1>3, <1>7, AppendProperties
<1>10. /\ Len(outs) = m + 1 /\ \A k \in 1 .. m : outs[k] = dedupOut[k]
       /\ outs[m + 1] = out
  BY <1>5, <1>6, AppendProperties
<1> HIDE DEF all, outs, m, n
<1>11. InLine(chunks, input, all, outs)
  <2>1. \A k \in 1 .. Len(all) : all[k].chunk = input[k]
    <3> TAKE k \in 1 .. Len(all)
    <3>1. k \in 1 .. n \/ k = n + 1
      BY <1>2, <1>9
    <3> QED BY <1>3, <1>4, <1>8, <1>9, <3>1
  <2>2. \A k \in 1 .. Len(outs) : outs[k] = all[Before + k].out
    <3> TAKE k \in 1 .. Len(outs)
    <3>1. CASE k \in 1 .. m
      <4>1. Before + k \in 1 .. n
        BY <1>2, <1>3, <3>1
      <4> QED BY <1>3, <1>9, <1>10, <3>1, <4>1
    <3>2. CASE k = m + 1
      <4>1. Before + k = n + 1
        BY <1>2, <1>3, <3>2
      <4> QED BY <1>8, <1>9, <1>10, <3>2, <4>1
    <3> QED BY <1>2, <1>10, <3>1, <3>2
  <2>3. Len(all) = Before + Len(outs)
    BY <1>2, <1>3, <1>9, <1>10
  <2> QED BY <1>2, <1>3, <1>7, <2>1, <2>2, <2>3 DEF InLine
<1>12. RecordsOf(archive, all, 0) /\ Len(archive) = Before
  <2>1. RecordsOf(archive, log, 0) /\ Len(archive) = Before
    BY <1>1 DEF History
  <2>2. \A k \in 1 .. Len(archive) : 0 + k \in 1 .. n
    BY <1>2, <1>3, <2>1
  <2> QED BY <1>9, <2>1, <2>2 DEF RecordsOf
<1>13. /\ pc' \in {"dedup", "write"} /\ (pc' # "dedup" => Len(outs) = Len(chunks))
  BY <1>1, <1>10
<1>14. InLine(chunks, input, log, dedupOut)' /\ RecordsOf(archive, log, 0)'
       /\ Numbered(log, chunkId, shaMap)' /\ Len(archive') = Before'
  BY <1>1, <1>7, <1>11, <1>12 DEF Before
<1> QED BY <1>1, <1>13, <1>14 DEF History

LEMMA MakeRecordHistory == ASSUME Invariant, History, MakeRecord PROVE History'
<1> DEFINE k == Len(finalData) + 1
           n == host.lengths[k]
           part == SubSeq(host.codes, ptr + 1, ptr + n)
           record == IF dedupOut[k] = New THEN RawRecord(n, part) ELSE RefRecord(dedupOut[k])
           e == log[Before + k]
           all == Append(finalData, record)
<1>1. /\ pc = "records" /\ k < host.indices[1]
      /\ finalData' = all
      /\ pc' = IF k + 1 = host.indices[1] THEN "file" ELSE "records"
      /\ UNCHANGED <<chunks, input, log, dedupOut, shaMap, chunkId, archive>>
  BY DEF MakeRecord, dedupVars
<1>2. k \in 1 .. Len(chunks) /\ n = Len(Codes[chunks[k]]) /\ part = Codes[chunks[k]]
  BY <1>1, AtPointer
<1>3. Len(chunks) \in Nat /\ Len(dedupOut) = Len(chunks) /\ Before \in Nat
      /\ Len(finalData) \in Nat
  BY <1>1, LengthFacts DEF History
<1>4. e.chunk = chunks[k] /\ e.out = dedupOut[k]
  <2>1. /\ \A x \in 1 .. Len(chunks) : input[Before + x] = chunks[x]
        /\ \A x \in 1 .. Len(log) : log[x].chunk = input[x]
        /\ \A x \in 1 .. Len(dedupOut) : dedupOut[x] = log[Before + x].out
        /\ Len(log) = Before + Len(dedupOut)
    BY DEF History, InLine, Before
  <2>2. Before + k \in 1 .. Len(log)
    BY <1>2, <1>3, <2>1
  <2> QED BY <1>2, <1>3, <2>1, <2>2
<1>5. record = RecordFor(e)
  BY <1>2, <1>4 DEF RecordFor
<1> HIDE DEF record, e
<1>6. /\ Len(all) = k /\ \A x \in 1 .. k - 1 : all[x] = finalData[x]
      /\ all[k] = record
  <2>1. PICK S : finalData \in Seq(S)
    BY DEF Invariant, Typed, IsSeq
  <2>2. finalData \in Seq(S \cup {record})
    BY <2>1, S \subseteq S \cup {record}, SeqMonotonic
  <2>3. /\ Len(all) = Len(finalData) + 1
        /\ \A x \in 1 .. Len(finalData) : all[x] = finalData[x]
        /\ all[Len(finalData) + 1] = record
    BY <2>2, record \in S \cup {record}, AppendProperties
  <2> HIDE DEF all
  <2>4. k - 1 = Len(finalData)
    BY <1>3
  <2> QED BY <2>3, <2>4
<1>7. RecordsOf(all, log, Before)
  <2> SUFFICES ASSUME NEW x \in 1 .. Len(all)
               PROVE  all[x] = RecordFor(log[Before + x])
    BY DEF RecordsOf
  <2>1. RecordsOf(finalData, log, Before)
    BY <1>1 DEF History
  <2>2. CASE x \in 1 .. Len(finalData)
    <3>1. x \in 1 .. k - 1
      BY <1>3, <2>2
    <3> QED BY <1>6, <2>1, <2>2, <3>1 DEF RecordsOf
  <2>3. CASE x = k
    BY <1>5, <1>6, <2>3 DEF e
  <2> QED BY <1>3, <1>6, <2>2, <2>3
<1> HIDE DEF all, k
<1>8. pc' \in {"file", "records"} /\ (pc' = "file" => Len(all) = Len(chunks))
  <2>1. host.indices[1] = Len(chunks) + 1
    BY <1>1 DEF Invariant, Contents, Holds
  <2> QED BY <1>1, <1>2, <1>3, <1>6, <2>1
<1>9. /\ InLine(chunks, input, log, dedupOut)' /\ Numbered(log, chunkId, shaMap)'
      /\ RecordsOf(archive, log, 0)' /\ RecordsOf(finalData, log, Before)'
      /\ Len(archive') = Before' /\ Len(dedupOut') = Len(chunks')
      /\ (pc' = "file" => Len(finalData') = Len(chunks'))
  BY <1>1, <1>3, <1>7, <1>8 DEF History, Before
<1> QED BY <1>8, <1>9 DEF History

LEMMA WriteRecordsHistory == ASSUME Invariant, History, WriteRecords PROVE History'
<1>1. /\ pc = "file" /\ pc' = "receive" /\ archive' = archive \o finalData
      /\ UNCHANGED <<chunks, input, log, dedupOut, shaMap, chunkId, finalData>>
  BY DEF WriteRecords, dedupVars
<1>2. /\ Len(chunks) \in Nat /\ Before \in Nat
      /\ Len(archive) \in Nat /\ Len(finalData) \in Nat
  BY LengthFacts
<1>3. /\ Len(archive) = Before /\ Len(finalData) = Len(chunks)
      /\ Len(dedupOut) = Len(chunks) /\ Len(log) = Before + Len(dedupOut)
      /\ RecordsOf(archive, log, 0) /\ RecordsOf(finalData, log, Before)
  BY <1>1 DEF History, InLine, Before
<1> DEFINE all == archive \o finalData
<1>4. /\ Len(all) = Len(archive) + Len(finalData)
      /\ \A x \in 1 .. Len(archive) + Len(finalData) :
           all[x] = IF x <= Len(archive) THEN archive[x] ELSE finalData[x - Len(archive)]
  <2>1. PICK S : archive \in Seq(S)
    BY DEF Invariant, Typed, IsSeq
  <2>2. PICK T : finalData \in Seq(T)
    BY DEF Invariant, Typed, IsSeq
  <2>3. archive \in Seq(S \cup T) /\ finalData \in Seq(S \cup T)
    BY <2>1, <2>2, S \subseteq S \cup T, T \subseteq S \cup T, SeqMonotonic
  <2> QED BY <2>3, ConcatProperties
<1> HIDE DEF all
<1>5. RecordsOf(all, log, 0)
  <2> SUFFICES ASSUME NEW x \in 1 .. Len(all)
               PROVE  all[x] = RecordFor(log[0 + x])
    BY DEF RecordsOf
  <2>1. CASE x <= Len(archive)
    <3>1. x \in 1 .. Len(archive) /\ x \in 1 .. Len(archive) + Len(finalData)
      BY <1>2, <1>4, <2>1
    <3> QED BY <1>3, <1>4, <2>1, <3>1 DEF RecordsOf
  <2>2. CASE ~(x <= Len(archive))
    <3>1. /\ x - Len(archive) \in 1 .. Len(finalData)
          /\ x \in 1 .. Len(archive) + Len(finalData)
          /\ Before + (x - Len(archive)) = 0 + x
      BY <1>2, <1>3, <1>4, <2>2
    <3>2. finalData[x - Len(archive)] = RecordFor(log[Before + (x - Len(archive))])
      BY <1>3, <3>1 DEF RecordsOf
    <3> QED BY <1>4, <2>2, <3>1, <3>2
  <2> QED BY <2>1, <2>2
<1>6. Len(all) = Len(log)
  BY <1>2, <1>3, <1>4
<1>7. /\ InLine(chunks, input, log, dedupOut)' /\ Numbered(log, chunkId, shaMap)'
      /\ RecordsOf(archive, log, 0)' /\ Len(archive') = Len(log')
      /\ Len(dedupOut') = Len(chunks')
  BY <1>1, <1>3, <1>5, <1>6 DEF History, all
<1> QED BY <1>1, <1>7 DEF History

\* The steps that only move the host or the device on.
LEMMA OtherHistory ==
  ASSUME Invariant, History,
         UNCHANGED <<chunks, input, log, dedupOut, shaMap, chunkId, archive, finalData>>,
         \/ pc' = pc
         \/ pc \notin {"dedup", "receive", "closed"}
            /\ pc' \in {"task", "read", "wait", "failed"}
         \/ pc = "wait" /\ pc' = "records"
         \/ pc = "receive" /\ pc' = "closed"
  PROVE  History'
<1>1. /\ InLine(chunks, input, log, dedupOut)' /\ Numbered(log, chunkId, shaMap)'
      /\ RecordsOf(archive, log, 0)' /\ Before' = Before
      /\ RecordsOf(finalData, log, Before)' = RecordsOf(finalData, log, Before)
  BY DEF History, Before
<1>2. CASE pc' = pc
  BY <1>1, <1>2 DEF History
<1>3. CASE pc \notin {"dedup", "receive", "closed"} /\ pc' \in {"task", "read", "wait", "failed"}
  BY <1>1, <1>3 DEF History
<1>4. CASE pc = "wait" /\ pc' = "records"
  <2>1. finalData = <<>>
    BY <1>4 DEF Invariant, Contents, Working
  <2>2. Len(finalData) = 0
    BY <2>1, EmptySeq
  <2>3. RecordsOf(finalData, log, Before)
    BY <2>2 DEF RecordsOf
  <2> QED BY <1>1, <1>4, <2>3 DEF History
<1>5. CASE pc = "receive" /\ pc' = "closed"
  BY <1>1, <1>5 DEF History
<1> QED BY <1>2, <1>3, <1>4, <1>5

LEMMA NextHistory == ASSUME Invariant, History, [Next]_vars PROVE History'
<1> DEFINE Kept == UNCHANGED <<chunks, input, log, dedupOut, shaMap, chunkId, archive,
                              finalData>>
<1>1. ASSUME NEW batch \in Batches, StartBatch(batch) PROVE History'
  BY <1>1, StartBatchHistory
<1>2. CASE Dedup
  BY <1>2, DedupHistory
<1>3. CASE EnqueueNext
  <2>1. /\ Kept /\ pc \notin {"dedup", "receive", "closed"}
        /\ pc' \in {"task", "read", "wait", "failed"}
    BY <1>3 DEF EnqueueNext, dedupVars, recordVars
  <2> QED BY <2>1, OtherHistory
<1>4. CASE DeviceStep
  <2>1. Kept /\ pc' = pc
    BY <1>4 DEF DeviceStep, dedupVars, recordVars
  <2> QED BY <2>1, OtherHistory
<1>5. CASE EndWait
  <2>1. /\ Kept /\ pc = "wait" /\ pc' \in {"failed", "records"}
    BY <1>5 DEF EndWait, dedupVars, recordVars
  <2>2. pc \notin {"dedup", "receive", "closed"}
    BY <2>1
  <2> QED BY <2>1, <2>2, OtherHistory
<1>6. CASE MakeRecord
  BY <1>6, MakeRecordHistory
<1>7. CASE WriteRecords
  BY <1>7, WriteRecordsHistory
<1>8. CASE CloseArchive
  <2>1. Kept /\ pc = "receive" /\ pc' = "closed"
    BY <1>8 DEF CloseArchive, dedupVars, recordVars
  <2> QED BY <2>1, OtherHistory
<1>9. CASE Decoder \/ Finished \/ UNCHANGED vars
  <2>1. Kept /\ pc' = pc
    BY <1>9 DEF Decoder, DecodeRaw, DecodeReference, Finished, vars, encoderVars,
                dedupVars, recordVars
  <2> QED BY <2>1, OtherHistory
<1> QED BY <1>1, <1>2, <1>3, <1>4, <1>5, <1>6, <1>7, <1>8, <1>9 DEF Next, Encoder

LEMMA HistoryHolds == Spec => [](Invariant /\ History)
<1>1. Invariant /\ History /\ [Next]_vars => History'
  BY NextHistory
<1> QED BY <1>1, InvariantHolds, InitHistory, PTL DEF Spec

-----------------------------------------------------------------------------
(* Each content is stored once *)

\* A record's header tells which kind it is.
LEMMA HeaderParity ==
  ASSUME NEW e \in Entries
  PROVE  RecordFor(e).header % 2 = 0 <=> e.out = New
<1>1. e.chunk \in Chunks /\ e.out \in {New} \cup Nat
  BY DEF Entries
<1>2. CASE e.out = New
  <2> DEFINE n == Len(Codes[e.chunk])
  <2>1. n \in Nat
    BY <1>1, ConstantFacts
  <2>2. RecordFor(e).header = 2 * PacketLength(n)
    BY <1>2 DEF RecordFor, RawRecord, RawHeader
  <2> HIDE DEF n
  <2>3. PacketLength(n) \in Int
    BY <2>1 DEF PacketLength, CodeBits
  <2>4. (2 * PacketLength(n)) % 2 = 0
    BY <2>3
  <2> QED BY <1>2, <2>2, <2>4
<1>3. CASE e.out # New
  <2>1. e.out \in Nat /\ RecordFor(e).header = 2 * e.out + 1
    BY <1>1, <1>3 DEF RecordFor, RefRecord, RefHeader
  <2>2. (2 * e.out + 1) % 2 = 1
    BY <2>1
  <2> QED BY <1>3, <2>1, <2>2
<1> QED BY <1>2, <1>3

\* Of the first n chunks there are as many new ones as contents.
LEMMA NewOnes ==
  ASSUME NEW lg \in Seq(Entries), NEW next, NEW map, Numbered(lg, next, map),
         NEW n \in 0 .. Len(lg)
  PROVE  Cardinality({k \in 1 .. n : lg[k].out = New})
           = Cardinality({lg[k].chunk : k \in 1 .. n})
<1> DEFINE S == {k \in 1 .. n : lg[k].out = New}
           T == {lg[k].chunk : k \in 1 .. n}
           f == [k \in S |-> lg[k].chunk]
<1>1. Len(lg) \in Nat /\ n \in Nat /\ n <= Len(lg)
  BY LenProperties
<1>2. IsFiniteSet(S)
  <2>1. IsFiniteSet(1 .. n)
    BY <1>1, FS_Interval
  <2>2. S \in SUBSET (1 .. n)
    OBVIOUS
  <2> QED BY <2>1, <2>2, FS_Subset
<1>3. f \in [S -> T]
  OBVIOUS
<1>4. \A k \in 1 .. n :
        /\ lg[k].out = New => \A j \in 1 .. k - 1 : lg[j].chunk # lg[k].chunk
        /\ lg[k].out # New =>
             \E j \in 1 .. k - 1 : lg[j].chunk = lg[k].chunk /\ lg[j].out = New
  BY <1>1 DEF Numbered
<1>5. ASSUME NEW j \in S, NEW k \in S, f[j] = f[k]
      PROVE  j = k
  <2>1. /\ j \in 1 .. n /\ k \in 1 .. n
        /\ lg[j].out = New /\ lg[k].out = New /\ lg[j].chunk = lg[k].chunk
    BY <1>5
  <2>2. ~(j \in 1 .. k - 1) /\ ~(k \in 1 .. j - 1)
    BY <1>4, <2>1
  <2> QED BY <1>1, <2>1, <2>2
<1>6. ASSUME NEW t \in T
      PROVE  \E k \in S : f[k] = t
  <2>1. PICK k \in 1 .. n : lg[k].chunk = t
    OBVIOUS
  <2>2. CASE lg[k].out = New
    BY <2>1, <2>2
  <2>3. CASE lg[k].out # New
    <3>1. PICK j \in 1 .. k - 1 : lg[j].chunk = lg[k].chunk /\ lg[j].out = New
      BY <1>4, <2>3
    <3>2. j \in 1 .. n
      BY <1>1
    <3>3. j \in S
      BY <3>1, <3>2
    <3> QED BY <2>1, <3>1, <3>3
  <2> QED BY <2>2, <2>3
<1> HIDE DEF f, S, T
<1>7. f \in Bijection(S, T)
  BY <1>3, <1>5, <1>6 DEF Bijection, Injection, Surjection, IsInjective
<1>8. Cardinality(S) = Cardinality(T)
  BY <1>2, <1>7, FS_Bijection DEF ExistsBijection
<1> QED BY <1>8 DEF S, T

\* The archive has a record for each of the first chunks that came in, in any
\* number of batches, and a packet of codes for each content among them once,
\* whether it was closed or a failure of the kernel ended it (dedup.cpp with the
\* records of compression_pipeline).
THEOREM EachContentOnce == Spec => []StoredOnce
<1>1. ASSUME Invariant, History
      PROVE  StoredOnce
  <2> DEFINE n == Len(archive)
  <2>1. /\ log \in Seq(Entries) /\ Numbered(log, chunkId, shaMap)
        /\ n = IF pc \in {"receive", "closed"} THEN Len(log) ELSE Before
        /\ RecordsOf(archive, log, 0)
        /\ pc # "dedup" => Len(dedupOut) = Len(chunks)
        /\ Len(log) = Before + Len(dedupOut)
        /\ \A k \in 1 .. Len(log) : log[k].chunk = input[k]
    BY <1>1 DEF History, InLine, Before
  <2>2. /\ Len(log) \in Nat /\ n \in Nat /\ Len(input) \in Nat
        /\ Len(dedupOut) \in Nat /\ Len(chunks) \in Nat /\ Before \in Nat
    BY <1>1, LengthFacts
  <2>3. n \in 0 .. Len(log) /\ n <= Len(input)
    BY <2>1, <2>2 DEF Before
  <2>4. pc = "closed" => n = Len(input)
    BY <2>1, <2>2 DEF Before
  <2>5. DOMAIN archive = 1 .. n
    BY <1>1, LenProperties DEF Invariant, Typed, IsSeq
  <2> HIDE DEF n
  <2>6. \A k \in 1 .. n : archive[k].header % 2 = 0 <=> log[k].out = New
    <3> TAKE k \in 1 .. n
    <3>1. log[k] \in Entries
      BY <2>1, <2>2, <2>3, ElementOfSeq
    <3>2. archive[k] = RecordFor(log[k])
      BY <2>1, <2>2 DEF RecordsOf, n
    <3> QED BY <3>1, <3>2, HeaderParity
  <2>7. {k \in DOMAIN archive : archive[k].header % 2 = 0}
          = {k \in 1 .. n : log[k].out = New}
    BY <2>5, <2>6
  <2>8. {input[k] : k \in DOMAIN archive} = {log[k].chunk : k \in 1 .. n}
    BY <2>1, <2>2, <2>3, <2>5
  <2>9. Cardinality({k \in 1 .. n : log[k].out = New})
          = Cardinality({log[k].chunk : k \in 1 .. n})
    BY <2>1, <2>3, NewOnes
  <2> QED BY <2>3, <2>4, <2>7, <2>8, <2>9 DEF StoredOnce, n
<1> QED BY <1>1, HistoryHolds, PTL

-----------------------------------------------------------------------------
(* The decoder *)

\* Decompress reads as many codes as were packed, and stands at the packet's
\* end then: the packet's length, although it rounds in its own way, names the
\* byte the last code ends in, and the code before ends in an earlier one.
LEMMA CodesCount ==
  ASSUME NEW n \in Nat, n > 0
  PROVE  /\ PacketLength(n) \in Nat /\ CodesRead(PacketLength(n)) = n
         /\ BytesRead(n) = PacketLength(n)
<1> DEFINE size == PacketLength(n)
<1>1. /\ n \in Int /\ n % 8 \in 0 .. 7 /\ n \div 8 \in Nat /\ n = 8 * (n \div 8) + (n % 8)
  OBVIOUS
<1> DEFINE q == n \div 8
           r == n % 8
<1>2. (n * CodeBits) \div 8 = 13 * q + (13 * r) \div 8
  BY <1>1 DEF CodeBits
<1>3. BytesRead(n) = 13 * q + (13 * r + 7) \div 8
  BY <1>1 DEF CodeBits, BytesRead
<1>4. size = 13 * q + (13 * r) \div 8 + (IF r # 0 THEN 1 ELSE 0)
  BY <1>2 DEF PacketLength
<1> HIDE DEF size, q, r
<1>5. /\ (13 * r + 7) \div 8 = (13 * r) \div 8 + (IF r # 0 THEN 1 ELSE 0)
      /\ (13 * r) \div 8 \in Nat /\ (r > 0 => (13 * r) \div 8 >= r)
  <2>1. r \in 0 .. 7
    BY <1>1 DEF r
  <2> QED BY <2>1
<1>6. size \in Nat /\ BytesRead(n) = size /\ n <= size
  <2>1. q \in Nat /\ r \in 0 .. 7 /\ n = 8 * q + r
    BY <1>1 DEF q, r
  <2> QED BY <1>3, <1>4, <1>5, <2>1
<1>7. ~ReadsOn(n, size)
  <2>1. q \in Nat
    BY <1>1 DEF q
  <2> QED BY <1>2, <1>4, <1>5, <2>1 DEF ReadsOn
<1>8. \A m \in 1 .. n - 1 : ReadsOn(m, size)
  <2> TAKE m \in 1 .. n - 1
  <2>1. m \in Nat /\ m <= n - 1 /\ 13 * m <= 13 * n - 13
    OBVIOUS
  <2>2. (m * 13) \div 8 <= (13 * n - 13) \div 8
    BY <2>1
  <2>3. (13 * n - 13) \div 8 < size - 1
    <3>1. q \in Nat /\ r \in 0 .. 7 /\ n = 8 * q + r
      BY <1>1 DEF q, r
    <3>2. (13 * n - 13) \div 8 = 13 * q + (13 * r - 13) \div 8
      BY <3>1
    <3>3. (13 * r - 13) \div 8 < (13 * r) \div 8 + (IF r # 0 THEN 1 ELSE 0) - 1
      BY <3>1
    <3> QED BY <1>4, <1>5, <3>1, <3>2, <3>3
  <2>4. (m * 13) \div 8 \in Int /\ (13 * n - 13) \div 8 \in Int
    BY <2>1
  <2> QED BY <1>6, <2>2, <2>3, <2>4 DEF ReadsOn, CodeBits
<1>9. ASSUME NEW k \in 1 .. size + 1, ~ReadsOn(k, size), \A m \in 1 .. k - 1 : ReadsOn(m, size)
      PROVE  k = n
  <2>1. ~(k \in 1 .. n - 1) /\ ~(n \in 1 .. k - 1)
    BY <1>7, <1>8, <1>9
  <2> QED BY <1>6, <2>1
<1>10. n \in 1 .. size + 1
  BY <1>6
<1>11. CodesRead(size) = n
  BY <1>7, <1>8, <1>9, <1>10 DEF CodesRead
<1> QED BY <1>6, <1>11 DEF size

\* The bits read from a packet make the codes that were put into it.
LEMMA CodesComeBack ==
  ASSUME NEW c \in Chunks
  PROVE  ReadCodes(CreatePacket(Cases13, Codes[c], PacketLength(Len(Codes[c]))),
                   Len(Codes[c]), CodeBits) = Codes[c]
<1> DEFINE n == Len(Codes[c])
           size == PacketLength(n)
<1>1. n \in Nat
  BY ConstantFacts
<1>2. Codes[c] \in Seq(0 .. 8191)
  BY DedupArchiveAssumption
<1> HIDE DEF n
<1>3. size \in Nat /\ 8 * size >= 13 * n
  BY <1>1 DEF PacketLength, CodeBits
<1> HIDE DEF size
<1>4. ReadCodes(CreatePacket(Cases13, Codes[c], size), Len(Codes[c]), 13) = Codes[c]
  BY <1>2, <1>3, Codes13ReadBack DEF n
<1> QED BY <1>4 DEF size, n, CodeBits

\* The decoder has handled the first so many entries of the log.
DecodedTo(p, lg, next, tab, out) ==
  /\ IsSeq(tab) /\ IsSeq(out)
  /\ Len(out) = p /\ \A k \in 1 .. p : out[k] = Codes[lg[k].chunk]
  /\ Len(tab) = IdAt(lg, next, p)
  /\ \A k \in 1 .. p : lg[k].out = New => tab[lg[k].id + 1] = Codes[lg[k].chunk]

Decoded ==
  /\ ~EncoderEnded => pos = 0
  /\ ~astray
  /\ DecodedTo(pos, log, chunkId, table, output)

LEMMA InitDecoded == Init => Decoded
<1> SUFFICES ASSUME Init PROVE Decoded
  OBVIOUS
<1> DEFINE none == <<>>
<1>1. /\ pos = 0 /\ ~astray /\ table = none /\ output = none /\ log = none /\ chunkId = 0
  BY DEF Init
<1>2. IsSeq(none) /\ Len(none) = 0
  BY EmptySeq DEF IsSeq
<1> HIDE DEF none
<1>3. DecodedTo(pos, log, chunkId, table, output)
  BY <1>1, <1>2 DEF DecodedTo, IdAt
<1> QED BY <1>1, <1>3 DEF Decoded

\* The archive has no record but of the log's chunks.
LEMMA NextRecord ==
  ASSUME Invariant, History, pos < Len(archive)
  PROVE  /\ pos \in Nat /\ pos + 1 \in 1 .. Len(log) /\ Len(log) \in Nat
         /\ log[pos + 1] \in Entries
         /\ archive[pos + 1] = RecordFor(log[pos + 1])
         /\ IdAt(log, chunkId, pos) = log[pos + 1].id
         /\ IdAt(log, chunkId, pos + 1) = After(log[pos + 1])
<1>1. /\ Len(log) \in Nat /\ Len(archive) \in Nat /\ Before \in Nat /\ Len(dedupOut) \in Nat
  BY LengthFacts
<1>2. /\ Len(log) = Before + Len(dedupOut) /\ log \in Seq(Entries)
      /\ Len(archive) = Len(log) \/ Len(archive) = Before
      /\ RecordsOf(archive, log, 0) /\ Numbered(log, chunkId, shaMap)
  BY DEF History, InLine, Before
<1>3. pos \in Nat
  BY <1>1 DEF Invariant, TypeOK
<1>4. pos + 1 \in 1 .. Len(log) /\ pos + 1 \in 1 .. Len(archive) /\ pos < Len(log)
  BY <1>1, <1>2, <1>3
<1>5. log[pos + 1] \in Entries
  BY <1>2, <1>4, ElementOfSeq
<1>6. archive[pos + 1] = RecordFor(log[pos + 1])
  <2>1. archive[pos + 1] = RecordFor(log[0 + (pos + 1)]) /\ 0 + (pos + 1) = pos + 1
    BY <1>2, <1>3, <1>4 DEF RecordsOf
  <2> QED BY <2>1
<1>7. IdAt(log, chunkId, pos) = log[pos + 1].id
  BY <1>4 DEF IdAt
<1>8. IdAt(log, chunkId, pos + 1) = After(log[pos + 1])
  BY <1>2, <1>4 DEF Numbered
<1> QED BY <1>1, <1>3, <1>4, <1>5, <1>6, <1>7, <1>8

LEMMA AppendElements ==
  ASSUME NEW s, IsSeq(s), NEW e
  PROVE  /\ IsSeq(Append(s, e)) /\ Len(Append(s, e)) = Len(s) + 1
         /\ Append(s, e)[Len(s) + 1] = e
         /\ \A k \in 1 .. Len(s) : Append(s, e)[k] = s[k]
<1>1. PICK S : s \in Seq(S)
  BY DEF IsSeq
<1>2. s \in Seq(S \cup {e})
  BY <1>1, S \subseteq S \cup {e}, SeqMonotonic
<1> QED BY <1>2, e \in S \cup {e}, AppendProperties DEF IsSeq

\* The ids before the decoder's record are smaller than the record's.
LEMMA EarlierEntry ==
  ASSUME Invariant, History, pos < Len(archive), NEW k \in 1 .. pos
  PROVE  log[k] \in Entries /\ After(log[k]) <= log[pos + 1].id
<1>1. pos \in Nat /\ pos + 1 \in 1 .. Len(log) /\ Len(log) \in Nat
  BY NextRecord
<1>2. k \in 1 .. Len(log) /\ k < pos + 1
  BY <1>1
<1>3. log \in Seq(Entries)
  BY DEF History, InLine
<1> QED BY <1>1, <1>2, <1>3, ElementOfSeq DEF History, Numbered

\* The new chunk's place in the table is its id.
LEMMA DecodeRawStep ==
  ASSUME Invariant, History, Decoded, DecodeRaw
  PROVE  Decoded'
<1> DEFINE e == log[pos + 1]
           c == e.chunk
           n == Len(Codes[c])
           packet == CreatePacket(Cases13, Codes[c], PacketLength(n))
<1>1. /\ pos < Len(archive) /\ EncoderEnded /\ Record.header % 2 = 0 /\ pos' = pos + 1
      /\ Record = archive[pos + 1]
      /\ UNCHANGED <<pc, log, chunkId>>
  BY DEF DecodeRaw, Record, encoderVars, dedupVars
<1>2. /\ pos \in Nat /\ e \in Entries /\ Record = RecordFor(e)
      /\ IdAt(log, chunkId, pos) = e.id /\ IdAt(log, chunkId, pos + 1) = After(e)
  BY <1>1, NextRecord
<1> HIDE DEF e
<1>3. e.out = New /\ c \in Chunks /\ e.id \in Nat
  BY <1>1, <1>2, HeaderParity DEF Entries
<1>4. /\ n \in Nat /\ n > 0
      /\ PacketLength(n) \in Nat /\ CodesRead(PacketLength(n)) = n
      /\ BytesRead(n) = PacketLength(n)
  BY <1>3, ConstantFacts, CodesCount
<1>5. Record.header = 2 * PacketLength(n) /\ Record.packet = packet
  BY <1>2, <1>3 DEF RecordFor, RawRecord, RawHeader
<1>6. ReadCodes(packet, n, CodeBits) = Codes[c]
  BY <1>3, CodesComeBack
<1>7. Len(packet) = PacketLength(n)
  <2>1. ASSUME NEW S, NEW s \in Seq(S), NEW m \in Nat, DOMAIN s = 1 .. m
        PROVE  Len(s) = m
    <3>1. DOMAIN s = 1 .. Len(s) /\ Len(s) \in Nat
      BY LenProperties
    <3> QED BY <2>1, <3>1
  <2> DEFINE size == PacketLength(n)
  <2>2. \E data : packet = [b \in 1 .. size |-> IF b <= Len(data) THEN data[b] ELSE 0]
    BY Zenon DEF CreatePacket
  <2>3. PICK data : packet = [b \in 1 .. size |-> IF b <= Len(data) THEN data[b] ELSE 0]
    BY <2>2
  <2> HIDE DEF packet, size
  <2>4. DOMAIN packet = 1 .. size /\ packet = [b \in 1 .. size |-> packet[b]]
    BY <2>3
  <2> DEFINE S == {packet[b] : b \in 1 .. size}
  <2>5. packet \in [1 .. size -> S]
    BY <2>4
  <2>6. size \in Nat
    BY <1>4 DEF size
  <2>7. packet \in Seq(S)
    BY <2>5, <2>6
  <2> QED BY <2>1, <2>4, <2>6, <2>7 DEF size
<1> HIDE DEF packet, n
<1>8. Record.header \div 2 = PacketLength(n)
  <2>1. (2 * PacketLength(n)) \div 2 = PacketLength(n)
    BY <1>4
  <2> QED BY <1>5, <2>1
<1>9. /\ table' = Append(table, Codes[c]) /\ output' = Append(output, Codes[c])
      /\ ~astray'
  BY <1>4, <1>5, <1>6, <1>7, <1>8 DEF DecodeRaw
<1> HIDE DEF c
<1>10. /\ IsSeq(table) /\ IsSeq(output) /\ Len(output) = pos /\ Len(table) = e.id
       /\ \A k \in 1 .. pos : output[k] = Codes[log[k].chunk]
       /\ \A k \in 1 .. pos : log[k].out = New => table[log[k].id + 1] = Codes[log[k].chunk]
  BY <1>2 DEF Decoded, DecodedTo
<1> DEFINE tab == Append(table, Codes[c])
           outs == Append(output, Codes[c])
<1>11. /\ IsSeq(tab) /\ Len(tab) = e.id + 1 /\ tab[e.id + 1] = Codes[c]
       /\ \A k \in 1 .. e.id : tab[k] = table[k]
  BY <1>10, AppendElements
<1>12. /\ IsSeq(outs) /\ Len(outs) = pos + 1 /\ outs[pos + 1] = Codes[c]
       /\ \A k \in 1 .. pos : outs[k] = output[k]
  BY <1>10, AppendElements
<1> HIDE DEF tab, outs
<1>13. ASSUME NEW k \in 1 .. pos + 1
       PROVE  /\ outs[k] = Codes[log[k].chunk]
              /\ log[k].out = New => tab[log[k].id + 1] = Codes[log[k].chunk]
  <2>1. CASE k = pos + 1
    BY <1>11, <1>12, <2>1 DEF e, c
  <2>2. CASE k \in 1 .. pos
    <3>1. outs[k] = Codes[log[k].chunk]
      BY <1>10, <1>12, <2>2
    <3>2. ASSUME log[k].out = New
          PROVE  tab[log[k].id + 1] = Codes[log[k].chunk]
      <4>1. log[k].id + 1 \in 1 .. e.id
        <5>1. log[k] \in Entries /\ After(log[k]) <= e.id
          BY <1>1, <2>2, EarlierEntry DEF e
        <5>2. log[k].id \in Nat /\ After(log[k]) = log[k].id + 1
          BY <3>2, <5>1 DEF Entries, After
        <5> QED BY <1>3, <5>1, <5>2
      <4> QED BY <1>10, <1>11, <2>2, <3>2, <4>1
    <3> QED BY <3>1, <3>2
  <2> QED BY <1>2, <2>1, <2>2
<1>14. Len(tab) = IdAt(log, chunkId, pos + 1)
  BY <1>2, <1>3, <1>11 DEF After
<1>15. DecodedTo(pos + 1, log, chunkId, tab, outs)
  BY <1>11, <1>12, <1>13, <1>14 DEF DecodedTo
<1> QED BY <1>1, <1>9, <1>15 DEF Decoded, EncoderEnded, tab, outs

\* A reference finds in the table what its chunk was decoded to before.
LEMMA DecodeReferenceStep ==
  ASSUME Invariant, History, Decoded, DecodeReference
  PROVE  Decoded'
<1> DEFINE e == log[pos + 1]
           c == e.chunk
<1>1. /\ pos < Len(archive) /\ EncoderEnded /\ Record.header % 2 = 1 /\ pos' = pos + 1
      /\ Record = archive[pos + 1]
      /\ UNCHANGED <<pc, log, chunkId, table, astray>>
  BY DEF DecodeReference, Record, encoderVars, dedupVars
<1>2. /\ pos \in Nat /\ e \in Entries /\ Record = RecordFor(e)
      /\ IdAt(log, chunkId, pos) = e.id /\ IdAt(log, chunkId, pos + 1) = After(e)
      /\ pos + 1 \in 1 .. Len(log)
  BY <1>1, NextRecord
<1>3. /\ IsSeq(table) /\ IsSeq(output) /\ Len(output) = pos /\ Len(table) = e.id
      /\ \A k \in 1 .. pos : output[k] = Codes[log[k].chunk]
      /\ \A k \in 1 .. pos : log[k].out = New => table[log[k].id + 1] = Codes[log[k].chunk]
  BY <1>2 DEF Decoded, DecodedTo
<1>4. e.out # New
  BY <1>1, <1>2, HeaderParity
<1>5. PICK j \in 1 .. pos : log[j].chunk = c /\ log[j].out = New /\ e.out = log[j].id
  <2>1. \E j \in 1 .. (pos + 1) - 1 :
          log[j].chunk = c /\ log[j].out = New /\ e.out = log[j].id
    BY <1>2, <1>4 DEF History, Numbered
  <2>2. (pos + 1) - 1 = pos
    BY <1>2
  <2> QED BY <2>1, <2>2
<1> HIDE DEF e
<1>6. e.out \in Nat /\ e.out < e.id /\ e.id \in Nat
  <2>1. log[j] \in Entries /\ After(log[j]) <= e.id
    BY <1>1, <1>5, EarlierEntry DEF e
  <2>2. log[j].id \in Nat /\ After(log[j]) = log[j].id + 1
    BY <1>5, <2>1 DEF Entries, After
  <2>3. e.id \in Nat
    BY <1>2 DEF Entries
  <2> QED BY <1>5, <2>1, <2>2, <2>3
<1>7. Record.header \div 2 = e.out
  <2>1. Record.header = 2 * e.out + 1
    BY <1>2, <1>4 DEF RecordFor, RefRecord, RefHeader
  <2>2. (2 * e.out + 1) \div 2 = e.out
    BY <1>6
  <2> QED BY <2>1, <2>2
<1>8. table[e.out + 1] = Codes[c]
  BY <1>3, <1>5
<1> HIDE DEF c
<1>9. output' = Append(output, Codes[c])
  BY <1>3, <1>6, <1>7, <1>8 DEF DecodeReference
<1> DEFINE outs == Append(output, Codes[c])
<1>10. /\ IsSeq(outs) /\ Len(outs) = pos + 1 /\ outs[pos + 1] = Codes[c]
       /\ \A k \in 1 .. pos : outs[k] = output[k]
  BY <1>3, AppendElements
<1> HIDE DEF outs
<1>11. ASSUME NEW k \in 1 .. pos + 1
       PROVE  /\ outs[k] = Codes[log[k].chunk]
              /\ log[k].out = New => table[log[k].id + 1] = Codes[log[k].chunk]
  <2>1. CASE k = pos + 1
    BY <1>4, <1>10, <2>1 DEF e, c
  <2>2. CASE k \in 1 .. pos
    BY <1>3, <1>10, <2>2
  <2> QED BY <1>2, <2>1, <2>2
<1>12. Len(table) = IdAt(log, chunkId, pos + 1)
  BY <1>2, <1>3, <1>4 DEF After
<1>13. DecodedTo(pos + 1, log, chunkId, table, outs)
  BY <1>3, <1>10, <1>11, <1>12 DEF DecodedTo
<1> QED BY <1>1, <1>9, <1>13 DEF Decoded, EncoderEnded, outs

\* The decoder is not past the log.
LEMMA PosInLog ==
  ASSUME Invariant, History
  PROVE  pos \in Nat /\ pos <= Len(log) /\ Len(log) \in Nat
<1>1. /\ Len(log) \in Nat /\ Len(archive) \in Nat /\ Before \in Nat /\ Len(dedupOut) \in Nat
  BY LengthFacts
<1>2. /\ Len(log) = Before + Len(dedupOut)
      /\ Len(archive) = Len(log) \/ Len(archive) = Before
  BY DEF History, InLine, Before
<1>3. pos \in 0 .. Len(archive)
  BY DEF Invariant, TypeOK
<1> QED BY <1>1, <1>2, <1>3

\* While the host runs the decoder has not begun.
LEMMA WaitingStep ==
  ASSUME Decoded, History, History', UNCHANGED decoderVars,
         (EncoderEnded => UNCHANGED <<pc, log, chunkId>>)
  PROVE  Decoded'
<1>1. UNCHANGED <<pos, table, output, astray>>
  BY DEF decoderVars
<1>2. IdAt(log, chunkId, 0) = 0
  BY DEF History, Numbered
<1>3. CASE EncoderEnded
  <2>1. DecodedTo(pos, log, chunkId, table, output)'
    BY <1>1, <1>3 DEF Decoded
  <2> QED BY <1>1, <1>3, <2>1 DEF Decoded, EncoderEnded
<1>4. CASE ~EncoderEnded
  <2>1. /\ pos = 0 /\ IsSeq(table) /\ IsSeq(output) /\ Len(output) = 0
        /\ Len(table) = IdAt(log, chunkId, 0)
    BY <1>4 DEF Decoded, DecodedTo
  <2>2. Numbered(log', chunkId', shaMap')
    BY DEF History
  <2>3. IdAt(log', chunkId', 0) = 0
    BY <2>2 DEF Numbered
  <2>4. Len(table) = 0
    BY <1>2, <2>1
  <2>5. DecodedTo(0, log', chunkId', table, output)
    BY <2>1, <2>3, <2>4 DEF DecodedTo
  <2> QED BY <1>1, <1>4, <2>1, <2>5 DEF Decoded
<1> QED BY <1>3, <1>4

LEMMA NextDecoded ==
  ASSUME Invariant, History, Decoded, [Next]_vars
  PROVE  Decoded'
<1>0. History'
  BY NextHistory
<1>1. ASSUME NEW batch \in Batches, StartBatch(batch) PROVE Decoded'
  <2>1. UNCHANGED decoderVars /\ ~EncoderEnded
    BY <1>1 DEF StartBatch, EncoderEnded
  <2> QED BY <1>0, <2>1, WaitingStep
<1>2. CASE Dedup \/ EnqueueNext \/ EndWait \/ MakeRecord \/ WriteRecords \/ CloseArchive
  <2>1. UNCHANGED decoderVars /\ ~EncoderEnded
    BY <1>2 DEF Dedup, EnqueueNext, EndWait, MakeRecord, WriteRecords, CloseArchive,
                EncoderEnded
  <2> QED BY <1>0, <2>1, WaitingStep
<1>3. CASE DeviceStep \/ Finished \/ UNCHANGED vars
  <2>1. UNCHANGED <<decoderVars, pc, log, chunkId>>
    BY <1>3 DEF DeviceStep, Finished, vars, encoderVars, dedupVars
  <2> QED BY <1>0, <2>1, WaitingStep
<1>4. CASE DecodeRaw
  BY <1>4, DecodeRawStep
<1>5. CASE DecodeReference
  BY <1>5, DecodeReferenceStep
<1> QED BY <1>1, <1>2, <1>3, <1>4, <1>5 DEF Next, Encoder, Decoder

\* The decoder writes the chunks that went into the pipeline, in their order,
\* whatever their codes and the batches and wherever a failure of the kernel has cut the archive short
\* (compression_pipeline with Decompress).
THEOREM DecoderGivesInput == Spec => []DecodesInput
<1>1. Init => Decoded
  BY InitDecoded
<1>2. Invariant /\ History /\ Decoded /\ [Next]_vars => Decoded'
  BY NextDecoded
<1>3. ASSUME Invariant, History, Decoded
      PROVE  DecodesInput
  <2>1. /\ ~astray /\ Len(output) = pos
        /\ \A k \in 1 .. pos : output[k] = Codes[log[k].chunk]
    BY <1>3 DEF Decoded, DecodedTo
  <2>2. \A k \in 1 .. Len(log) : log[k].chunk = input[k]
    BY <1>3 DEF History, InLine
  <2>3. pos \in Nat /\ pos <= Len(log) /\ Len(log) \in Nat
    BY <1>3, PosInLog
  <2>4. \A k \in 1 .. pos : k \in 1 .. Len(log)
    BY <2>3
  <2> QED BY <2>1, <2>2, <2>4 DEF DecodesInput
<1> QED BY <1>1, <1>2, <1>3, HistoryHolds, PTL DEF Spec

\* The static map of dedup and the decoder's table
\* number the chunks alike, at every moment of the decoding.
THEOREM NumberingHolds == Spec => []SameNumbering
<1>1. Init => Decoded
  BY InitDecoded
<1>2. Invariant /\ History /\ Decoded /\ [Next]_vars => Decoded'
  BY NextDecoded
<1>3. ASSUME Invariant, History, Decoded
      PROVE  SameNumbering
  <2> SUFFICES ASSUME NEW c \in Chunks, Sha[c] \in DOMAIN shaMap,
                      shaMap[Sha[c]] < Len(table)
               PROVE  table[shaMap[Sha[c]] + 1] = Codes[c]
    BY DEF SameNumbering
  <2>1. PICK j \in 1 .. Len(log) : Sha[log[j].chunk] = Sha[c] /\ log[j].out = New
    BY <1>3 DEF History, Numbered
  <2>2. log \in Seq(Entries)
    BY <1>3 DEF History, InLine
  <2>3. log[j] \in Entries
    BY <2>2, ElementOfSeq
  <2>4. log[j].chunk = c
    BY <2>1, <2>3, DedupArchiveAssumption DEF Entries
  <2>5. shaMap[Sha[c]] = log[j].id
    BY <1>3, <2>1, <2>4 DEF History, Numbered
  <2>6. /\ Len(table) = IdAt(log, chunkId, pos)
        /\ \A k \in 1 .. pos : log[k].out = New =>
             table[log[k].id + 1] = Codes[log[k].chunk]
    BY <1>3 DEF Decoded, DecodedTo
  <2>7. pos \in Nat /\ pos <= Len(log) /\ Len(log) \in Nat
    BY <1>3, PosInLog
  <2>8. j \in 1 .. pos
    <3> SUFFICES ASSUME ~(j <= pos) PROVE FALSE
      BY <2>7
    <3>1. pos < Len(log) /\ pos + 1 \in 1 .. Len(log)
      BY <2>7
    <3>2. Len(table) = log[pos + 1].id
      BY <2>6, <3>1 DEF IdAt
    <3>3. log[pos + 1].id <= log[j].id
      <4>1. CASE j = pos + 1
        BY <2>3, <4>1 DEF Entries
      <4>2. CASE pos + 1 < j
        <5>1. After(log[pos + 1]) <= log[j].id
          BY <1>3, <3>1, <4>2 DEF History, Numbered
        <5>2. log[pos + 1] \in Entries
          BY <2>2, <3>1, ElementOfSeq
        <5>3. log[pos + 1].id \in Nat /\ log[j].id \in Nat
          BY <2>3, <5>2 DEF Entries
        <5> QED BY <5>1, <5>3 DEF After
      <4> QED BY <2>7, <4>1, <4>2
    <3>4. log[pos + 1].id \in Nat /\ log[j].id \in Nat
      <4>1. log[pos + 1] \in Entries
        BY <2>2, <3>1, ElementOfSeq
      <4> QED BY <2>3, <4>1 DEF Entries
    <3> QED BY <2>5, <3>2, <3>3, <3>4
  <2> QED BY <2>1, <2>4, <2>5, <2>6, <2>8
<1> QED BY <1>1, <1>2, <1>3, HistoryHolds, PTL DEF Spec
=============================================================================
