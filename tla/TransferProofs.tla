--------------------------- MODULE TransferProofs ---------------------------
(***************************************************************************)
(* Theorems about the transfer, for the host of Transfer and, at the end,  *)
(* for the example receiver beside it.  Only RingFacts, for the receiver,  *)
(* uses ReceiverAssumption: what is proved of the host does not need it.   *)
(***************************************************************************)
EXTENDS Receiver, SequenceTheorems, TLAPS

\* Division: a quotient and a remainder that fit are the only ones.
LEMMA DivisionBounds ==
  ASSUME NEW d \in Nat, d > 0, NEW x \in Nat
  PROVE  /\ x % d \in 0 .. d - 1 /\ x \div d \in Nat
         /\ x = d * (x \div d) + (x % d)
  BY SMT

LEMMA TimesMonotonic ==
  ASSUME NEW d \in Nat, NEW x \in Nat, NEW y \in Nat, x <= y
  PROVE  d * x <= d * y
<1>1. PICK z \in Nat : y = x + z
  BY y = x + (y - x), y - x \in Nat
<1>2. d * y = d * x + d * z /\ d * z \in Nat
  BY <1>1, SMT
<1> QED BY <1>2, SMT

\* The half-word arithmetic of the header: a length and the done bit come
\* out of the two bytes as they went in.
LEMMA HeaderRoundTrip ==
  ASSUME NEW length \in Lengths, NEW last \in BOOLEAN
  PROVE  /\ Header(length, last) \in Headers
         /\ LengthField(Header(length, last)) = length
         /\ DoneField(Header(length, last)) = IF last THEN DoneBit ELSE 0
<1> DEFINE low == length % Radix
           high == length \div Radix
<1>1. /\ Radix \in Nat /\ DoneBit \in Nat /\ DoneBit > 1
      /\ Radix = 2 * DoneBit
  BY RadixAssumption, SMT DEF DoneBit
<1>2. /\ length \in Nat /\ length < Radix * DoneBit
  BY <1>1, SMT DEF Lengths
<1>3. /\ low \in 0 .. Radix - 1 /\ high \in Nat
      /\ length = Radix * high + low
  BY <1>1, <1>2, DivisionBounds
<1> HIDE DEF low, high
<1>4. high < DoneBit
  <2>1. SUFFICES ASSUME DoneBit <= high PROVE FALSE
    BY <1>1, <1>3
  <2>2. Radix * DoneBit <= Radix * high
    BY <1>1, <1>3, <2>1, TimesMonotonic
  <2>3. Radix * DoneBit \in Nat /\ Radix * high \in Nat
    BY <1>1, <1>3
  <2> QED BY <2>2, <2>3, <1>2, <1>3
<1>5. (high % DoneBit) = high /\ (high + DoneBit) % DoneBit = high
  BY <1>1, <1>3, <1>4, SMT
<1>6. CASE last
  <2>1. Header(length, last) = [low |-> low, high |-> high + DoneBit]
    BY <1>6 DEF Header, low, high
  <2>2. LengthField(Header(length, last)) = length
    BY <2>1, <1>1, <1>3, <1>5 DEF LengthField
  <2>3. Header(length, last) \in Headers
    BY <2>1, <1>1, <1>3, <1>4 DEF Headers
  <2>4. DoneField(Header(length, last)) = DoneBit
    BY <2>1, <1>1, <1>3 DEF DoneField
  <2> QED BY <2>2, <2>3, <2>4, <1>6
<1>7. CASE ~last
  <2>1. Header(length, last) = [low |-> low, high |-> high + 0]
    BY <1>7 DEF Header, low, high
  <2>2. LengthField(Header(length, last)) = length
    BY <2>1, <1>1, <1>3, <1>5 DEF LengthField
  <2>3. Header(length, last) \in Headers
    BY <2>1, <1>1, <1>3, <1>4 DEF Headers
  <2>4. DoneField(Header(length, last)) = 0
    BY <2>1, <1>1, <1>3, <1>4 DEF DoneField
  <2> QED BY <2>2, <2>3, <2>4, <1>7
<1> QED BY <1>6, <1>7

-----------------------------------------------------------------------------
(* Types *)

Slots ==
  {s \in [header : Headers, data : [1 .. BlockSize -> Bytes]] :
     LengthField(s.header) \in 0 .. BlockSize}

Datagrams ==
  {d \in [header : Headers, data : Seq(Bytes)] :
     /\ Len(d.data) \in 1 .. BlockSize
     /\ LengthField(d.header) = Len(d.data)
     /\ Len(d.data) < ClientBlock => DoneField(d.header) # 0}

TypeInv ==
  /\ fileSize \in FileSizes
  /\ n \in Nat
  /\ clientPc \in {"loop", "rest", "gone"}
  /\ clientPc = "rest" => remainder # 0
  /\ net \in Seq(Datagrams)
  /\ input \in [SlotIds -> Slots]
  /\ writer \in SlotIds
  /\ lengthSum \in Nat
  /\ lengthSum <= writer * BlockSize
  /\ pipeline \in [1 .. BufferSize -> Bytes]
  /\ done \in {0, DoneBit}
  /\ written \in Seq(Bytes)
  /\ received \in Seq(Bytes)
  /\ faults \in 0 .. MaxFaults

LEMMA ConstantFacts ==
  /\ Radix \in Nat /\ DoneBit \in Nat /\ DoneBit > 1 /\ Radix > 1
  /\ BlockSize \in Nat /\ BlockSize > 0
  /\ NumPackets \in Nat /\ NumPackets > 0
  /\ ClientBlock \in Nat /\ ClientBlock > 0 /\ ClientBlock <= BlockSize
  /\ BufferSize \in Nat
  /\ \A length \in 0 .. BlockSize : length \in Lengths
  /\ MaxFaults \in Nat
<1>1. /\ Radix \in Nat /\ DoneBit \in Nat /\ DoneBit > 1 /\ Radix > 1
  BY RadixAssumption, SMT DEF DoneBit
<1>2. /\ BlockSize \in Nat /\ BlockSize > 0
      /\ NumPackets \in Nat /\ NumPackets > 0
      /\ ClientBlock \in Nat /\ ClientBlock > 0 /\ ClientBlock <= BlockSize
      /\ MaxFaults \in Nat
  BY TransferAssumption
<1>3. BufferSize \in Nat
  BY <1>2 DEF BufferSize
<1>4. BlockSize \in 0 .. (Radix * DoneBit - 1) /\ Radix * DoneBit \in Nat
  BY <1>1, TransferAssumption DEF Lengths
<1>5. \A length \in 0 .. BlockSize : length \in Lengths
  BY <1>2, <1>4 DEF Lengths
<1> QED BY <1>1, <1>2, <1>3, <1>5

\* A slot's end is inside the buffer.
LEMMA SlotFits ==
  ASSUME NEW w \in SlotIds
  PROVE  /\ w * BlockSize \in Nat
         /\ (w + 1) * BlockSize = w * BlockSize + BlockSize
         /\ w * BlockSize + BlockSize <= BufferSize
         /\ w = NumPackets - 1 => w * BlockSize + BlockSize = BufferSize
<1>1. /\ w \in Nat /\ w + 1 \in Nat /\ w + 1 <= NumPackets
      /\ BlockSize \in Nat /\ NumPackets \in Nat
  BY ConstantFacts DEF SlotIds
<1>2. BlockSize * (w + 1) <= BlockSize * NumPackets
  BY <1>1, TimesMonotonic
<1>3. /\ w * BlockSize \in Nat
      /\ (w + 1) * BlockSize = w * BlockSize + BlockSize
      /\ BlockSize * (w + 1) = (w + 1) * BlockSize
      /\ BlockSize * NumPackets = NumPackets * BlockSize
  BY <1>1, SMT
<1>4. w = NumPackets - 1 => (w + 1) = NumPackets
  BY <1>1
<1> QED BY <1>2, <1>3, <1>4 DEF BufferSize

\* What the client sends is a datagram whose header tells its length.
LEMMA DatagramType ==
  ASSUME TypeInv, NEW start \in Nat, NEW length \in 1 .. BlockSize,
         NEW last \in BOOLEAN, length < ClientBlock => last
  PROVE  Datagram(start, length, last) \in Datagrams
<1>1. length \in Lengths /\ length \in Nat
  BY ConstantFacts
<1>2. fileSize \in Nat
  BY TransferAssumption DEF TypeInv
<1>3. Payload(start, length) \in [1 .. length -> Bytes]
  BY <1>1, <1>2 DEF Payload, Bytes
<1>4. Payload(start, length) \in Seq(Bytes) /\ Len(Payload(start, length)) = length
  BY <1>1, <1>3, LenProperties DEF Payload
<1>5. DoneBit # 0
  BY ConstantFacts
<1> QED BY <1>1, <1>4, <1>5, HeaderRoundTrip DEF Datagram, Datagrams

\* recvfrom leaves a well-formed buffer.
LEMMA FilledType ==
  ASSUME NEW s \in Slots, NEW d \in Datagrams
  PROVE  /\ Filled(s, d) \in Slots
         /\ LengthField(Filled(s, d).header) = Len(d.data)
         /\ DoneField(Filled(s, d).header) = DoneField(d.header)
         /\ \A i \in 1 .. Len(d.data) : Filled(s, d).data[i] = d.data[i]
<1>1. /\ Len(d.data) \in 1 .. BlockSize
      /\ LengthField(d.header) = Len(d.data)
      /\ d.header \in Headers
      /\ d.data \in Seq(Bytes) /\ DOMAIN d.data = 1 .. Len(d.data)
      /\ s.data \in [1 .. BlockSize -> Bytes]
  BY DEF Datagrams, Slots
<1>2. \A i \in 1 .. Len(d.data) : d.data[i] \in Bytes
  BY <1>1
<1> DEFINE data == [i \in 1 .. BlockSize |->
                     IF i \in DOMAIN d.data THEN d.data[i] ELSE s.data[i]]
<1>3. data \in [1 .. BlockSize -> Bytes]
  BY <1>1, <1>2
<1>4. \A i \in 1 .. Len(d.data) : data[i] = d.data[i]
  BY <1>1, ConstantFacts
<1>5. Filled(s, d) = [header |-> d.header, data |-> data]
  BY DEF Filled
<1> HIDE DEF data
<1> QED BY <1>1, <1>3, <1>4, <1>5, ConstantFacts DEF Slots

\* The payload is what the header says there is.
LEMMA FilledPayload ==
  ASSUME NEW s \in Slots, NEW d \in Datagrams
  PROVE  SubSeq(Filled(s, d).data, 1, LengthField(Filled(s, d).header)) = d.data
<1> DEFINE slot == Filled(s, d)
           length == LengthField(slot.header)
<1>1. /\ slot \in Slots
      /\ length = Len(d.data)
      /\ \A i \in 1 .. Len(d.data) : slot.data[i] = d.data[i]
  BY FilledType
<1>2. /\ length \in 1 .. BlockSize /\ length \in Nat
      /\ d.data \in Seq(Bytes)
      /\ slot.data \in [1 .. BlockSize -> Bytes]
  BY <1>1, ConstantFacts DEF Datagrams, Slots
<1> HIDE DEF slot, length
<1>3. \A i \in 1 .. length : slot.data[i] \in Bytes
  BY <1>2, ConstantFacts
<1>4. /\ SubSeq(slot.data, 1, length) \in Seq(Bytes)
      /\ Len(SubSeq(slot.data, 1, length)) = length
      /\ \A i \in 1 .. length : SubSeq(slot.data, 1, length)[i] = slot.data[i]
  <2>1. \A i \in 1 .. length : 1 + i - 1 = i
    BY <1>2
  <2> QED BY <1>2, <1>3, <2>1, SubSeqProperties
<1>5. SubSeq(slot.data, 1, length) = d.data
  BY <1>1, <1>2, <1>4, SeqEqual
<1> QED BY <1>5 DEF slot, length

-----------------------------------------------------------------------------
(* The receive loop *)

\* Copying a payload behind what is pending appends it to what is pending.
LEMMA CopyAppends ==
  ASSUME TypeInv, lengthSum = writer * BlockSize,
         NEW data \in [1 .. BlockSize -> Bytes], NEW length \in 0 .. BlockSize
  PROVE  /\ CopyToPipeline(data, length) \in [1 .. BufferSize -> Bytes]
         /\ SubSeq(CopyToPipeline(data, length), 1, lengthSum + length)
              = Pending \o SubSeq(data, 1, length)
         /\ Pending \in Seq(Bytes) /\ SubSeq(data, 1, length) \in Seq(Bytes)
<1> DEFINE p == CopyToPipeline(data, length)
           new == SubSeq(data, 1, length)
           all == SubSeq(p, 1, lengthSum + length)
<1>1. /\ lengthSum \in Nat /\ length \in Nat /\ length <= BlockSize
      /\ BlockSize \in Nat /\ BufferSize \in Nat
      /\ lengthSum + length <= BufferSize
  BY ConstantFacts, SlotFits DEF TypeInv
<1>2. pipeline \in [1 .. BufferSize -> Bytes]
  BY DEF TypeInv
<1>3. /\ p \in [1 .. BufferSize -> Bytes]
      /\ \A i \in 1 .. lengthSum : p[i] = pipeline[i]
      /\ \A i \in 1 .. length : p[lengthSum + i] = data[i]
  <2>1. p = [i \in 1 .. BufferSize |->
              IF i - lengthSum \in 1 .. length
              THEN data[i - lengthSum] ELSE pipeline[i]]
    BY DEF CopyToPipeline
  <2>2. \A i \in 1 .. length : (lengthSum + i) - lengthSum = i
    BY <1>1
  <2> QED BY <1>1, <1>2, <2>1, <2>2
<1> HIDE DEF p
<1>4. /\ Pending \in Seq(Bytes) /\ Len(Pending) = lengthSum
      /\ \A i \in 1 .. lengthSum : Pending[i] = pipeline[i]
  <2>1. \A i \in 1 .. lengthSum : pipeline[i] \in Bytes
    BY <1>1, <1>2
  <2>2. \A i \in 1 .. lengthSum : 1 + i - 1 = i
    BY <1>1
  <2> QED BY <1>1, <2>1, <2>2, SubSeqProperties DEF Pending
<1>5. /\ new \in Seq(Bytes) /\ Len(new) = length
      /\ \A i \in 1 .. length : new[i] = data[i]
  <2>1. \A i \in 1 .. length : data[i] \in Bytes
    BY <1>1
  <2>2. \A i \in 1 .. length : 1 + i - 1 = i
    BY <1>1
  <2> QED BY <1>1, <2>1, <2>2, SubSeqProperties
<1>6. /\ all \in Seq(Bytes) /\ Len(all) = lengthSum + length
      /\ \A i \in 1 .. lengthSum + length : all[i] = p[i]
  <2>1. \A i \in 1 .. lengthSum + length : p[i] \in Bytes
    BY <1>1, <1>3
  <2>2. \A i \in 1 .. lengthSum + length : 1 + i - 1 = i
    BY <1>1
  <2> QED BY <1>1, <2>1, <2>2, SubSeqProperties
<1> HIDE DEF new, all
<1>7. /\ Pending \o new \in Seq(Bytes)
      /\ Len(Pending \o new) = lengthSum + length
      /\ \A i \in 1 .. lengthSum + length :
           (Pending \o new)[i] = IF i <= lengthSum THEN Pending[i]
                                                   ELSE new[i - lengthSum]
  <2>1. /\ Pending \o new \in Seq(Bytes)
        /\ Len(Pending \o new) = Len(Pending) + Len(new)
        /\ \A i \in 1 .. Len(Pending) + Len(new) :
             (Pending \o new)[i] = IF i <= Len(Pending) THEN Pending[i]
                                                   ELSE new[i - Len(Pending)]
    BY <1>4, <1>5, ConcatProperties, Zenon
  <2> QED BY <2>1, <1>4, <1>5, Zenon
<1>8. \A i \in 1 .. lengthSum + length : all[i] = (Pending \o new)[i]
  <2> TAKE i \in 1 .. lengthSum + length
  <2>1. CASE i <= lengthSum
    <3>1. i \in 1 .. lengthSum
      BY <2>1, <1>1
    <3>2. all[i] = pipeline[i] /\ Pending[i] = pipeline[i]
      BY <3>1, <1>3, <1>4, <1>6
    <3> QED BY <2>1, <3>2, <1>7
  <2>2. CASE i > lengthSum
    <3>1. i - lengthSum \in 1 .. length /\ lengthSum + (i - lengthSum) = i
      BY <2>2, <1>1
    <3>2. all[i] = data[i - lengthSum] /\ new[i - lengthSum] = data[i - lengthSum]
      BY <3>1, <1>3, <1>5, <1>6
    <3>3. ~(i <= lengthSum)
      BY <2>2, <1>1
    <3>4. (Pending \o new)[i] = new[i - lengthSum]
      BY <3>3, <1>7, Zenon
    <3> QED BY <3>2, <3>4, Zenon
  <2>3. i <= lengthSum \/ i > lengthSum
    BY <1>1
  <2> QED BY <2>1, <2>2, <2>3, Zenon
<1>9. all = Pending \o new
  BY <1>6, <1>7, <1>8, SeqEqual
<1> QED BY <1>3, <1>4, <1>5, <1>9 DEF p, new, all

\* Whatever the buffer holds, handling it keeps the bookkeeping in range.
LEMMA HandleBufferType ==
  ASSUME TypeInv, NEW slot \in Slots, HandleBuffer(slot)
  PROVE  /\ input' \in [SlotIds -> Slots]
         /\ writer' \in SlotIds
         /\ lengthSum' \in Nat
         /\ lengthSum' <= writer' * BlockSize
         /\ pipeline' \in [1 .. BufferSize -> Bytes]
         /\ done' \in {0, DoneBit}
         /\ written' \in Seq(Bytes)
<1> DEFINE length == LengthField(slot.header)
<1>1. /\ length \in 0 .. BlockSize
      /\ slot.data \in [1 .. BlockSize -> Bytes]
  BY DEF Slots
<1>2. /\ lengthSum \in Nat /\ length \in Nat
      /\ writer \in Nat /\ writer * BlockSize \in Nat
      /\ BlockSize \in Nat /\ NumPackets \in Nat /\ BufferSize \in Nat
      /\ lengthSum + length <= writer * BlockSize + BlockSize
      /\ writer * BlockSize + BlockSize <= BufferSize
      /\ (writer + 1) * BlockSize = writer * BlockSize + BlockSize
  BY <1>1, ConstantFacts, SlotFits DEF TypeInv, SlotIds
<1>3. /\ pipeline' = CopyToPipeline(slot.data, length)
      /\ input' = [input EXCEPT ![writer] = slot]
      /\ done' = DoneField(slot.header)
  BY DEF HandleBuffer
<1> HIDE DEF length
<1>4. pipeline' \in [1 .. BufferSize -> Bytes]
  <2>1. \A i \in 1 .. length : slot.data[i] \in Bytes
    BY <1>1, <1>2
  <2>2. \A i \in 1 .. BufferSize : pipeline[i] \in Bytes
    BY DEF TypeInv
  <2> QED BY <1>3, <2>1, <2>2 DEF CopyToPipeline
<1>5. input' \in [SlotIds -> Slots] /\ done' \in {0, DoneBit}
  BY <1>3 DEF TypeInv, DoneField
<1>6. CASE /\ BatchReady(length, DoneField(slot.header))
           /\ written' = written \o SubSeq(pipeline', 1, lengthSum + length)
           /\ writer' = 0
           /\ lengthSum' = 0
  <2>1. \A i \in 1 .. lengthSum + length : pipeline'[i] \in Bytes
    BY <1>2, <1>4
  <2>2. SubSeq(pipeline', 1, lengthSum + length) \in Seq(Bytes)
    BY <2>1, <1>2, SubSeqProperties
  <2>3. written' \in Seq(Bytes)
    BY <1>6, <2>2, ConcatProperties DEF TypeInv
  <2>4. 0 \in SlotIds /\ 0 * BlockSize = 0
    BY ConstantFacts DEF SlotIds
  <2> QED BY <1>4, <1>5, <1>6, <2>3, <2>4
<1>7. CASE /\ ~BatchReady(length, DoneField(slot.header))
           /\ written' = written
           /\ writer' = writer + 1
           /\ lengthSum' = lengthSum + length
  <2>1. writer + 1 \in SlotIds
    BY <1>7, <1>2 DEF BatchReady, SlotIds, TypeInv
  <2> QED BY <2>1, <1>2, <1>4, <1>5, <1>7 DEF TypeInv
<1> QED BY <1>6, <1>7 DEF HandleBuffer, length

-----------------------------------------------------------------------------
(* The steps of the client, the network and the host keep the types *)

LEMMA InitType == Init => TypeInv
<1> SUFFICES ASSUME Init PROVE TypeInv
  OBVIOUS
<1>1. /\ 0 \in SlotIds /\ 0 * BlockSize = 0 /\ 0 \in 0 .. MaxFaults
      /\ <<>> \in Seq(Datagrams) /\ <<>> \in Seq(Bytes)
  BY ConstantFacts DEF SlotIds
<1>2. EmptySlot \in Slots
  BY ConstantFacts DEF EmptySlot, Slots, Headers, LengthField, Bytes
<1>3. /\ input \in [SlotIds -> Slots]
      /\ pipeline \in [1 .. BufferSize -> Bytes]
  BY <1>2 DEF Init, Bytes
<1> QED BY <1>1, <1>3 DEF Init, TypeInv

LEMMA SendType ==
  ASSUME TypeInv, NEW start \in Nat, NEW length \in 1 .. BlockSize,
         NEW last \in BOOLEAN, length < ClientBlock => last,
         Send(start, length, last), clientPc' \in {"loop", "rest", "gone"},
         clientPc' = "rest" => remainder # 0
  PROVE  TypeInv'
<1>1. Datagram(start, length, last) \in Datagrams
  BY DatagramType
<1>2. net' \in Seq(Datagrams)
  BY <1>1, AppendProperties DEF Send, TypeInv
<1> QED BY <1>2 DEF Send, TypeInv, hostVars, remainder

LEMMA ClientType == TypeInv /\ Client => TypeInv'
<1> SUFFICES ASSUME TypeInv, Client PROVE TypeInv'
  OBVIOUS
<1>1. /\ fileSize \in Nat /\ n \in Nat
      /\ ClientBlock \in Nat /\ ClientBlock \in 1 .. BlockSize
  BY TransferAssumption, ConstantFacts DEF TypeInv
<1>2. /\ n * ClientBlock \in Nat /\ loops * ClientBlock \in Nat
      /\ remainder \in 0 .. ClientBlock - 1
  BY <1>1, ConstantFacts, DivisionBounds DEF loops, remainder
<1>3. CASE SendBlock
  <2>1. /\ Send(n * ClientBlock, ClientBlock, FALSE)
        /\ clientPc' \in {"loop", "rest", "gone"}
        /\ clientPc' = "rest" => remainder # 0
    BY <1>3 DEF SendBlock
  <2>2. ClientBlock < ClientBlock => FALSE
    BY <1>1
  <2> QED BY <1>1, <1>2, <2>1, <2>2, SendType
<1>4. CASE SendLastBlock
  BY <1>1, <1>2, <1>4, SendType DEF SendLastBlock
<1>5. CASE SendBlockBeforeRest
  <2>1. /\ Send(n * ClientBlock, ClientBlock, FALSE)
        /\ clientPc' \in {"loop", "rest", "gone"}
        /\ clientPc' = "rest" => remainder # 0
    BY <1>5 DEF SendBlockBeforeRest
  <2>2. ClientBlock < ClientBlock => FALSE
    BY <1>1
  <2> QED BY <1>1, <1>2, <2>1, <2>2, SendType
<1>6. CASE SendRemainder
  <2>1. remainder \in 1 .. BlockSize
    BY <1>2, <1>6, ConstantFacts DEF SendRemainder, TypeInv
  <2> QED BY <1>2, <1>6, <2>1, SendType DEF SendRemainder
<1> QED BY <1>3, <1>4, <1>5, <1>6 DEF Client

LEMMA NetworkType == TypeInv /\ Network => TypeInv'
<1> SUFFICES ASSUME TypeInv, Network PROVE TypeInv'
  OBVIOUS
<1>1. net \in Seq(Datagrams) /\ Len(net) \in Nat /\ DOMAIN net = 1 .. Len(net)
  BY LenProperties DEF TypeInv
<1>2. \A k \in DOMAIN net : net[k] \in Datagrams
  BY <1>1, ElementOfSeq
<1>3. ASSUME NEW kind, Fault(kind) PROVE faults' \in 0 .. MaxFaults
  BY <1>3, ConstantFacts DEF Fault, TypeInv
<1>4. CASE Lose
  <2>1. PICK k \in DOMAIN net : /\ Fault("lose")
                                /\ net' = RemoveAt(net, k)
                                /\ UNCHANGED <<clientVars, hostVars>>
    BY <1>4 DEF Lose
  <2>2. /\ SubSeq(net, 1, k - 1) \in Seq(Datagrams)
        /\ SubSeq(net, k + 1, Len(net)) \in Seq(Datagrams)
    <3>1. \A i \in 1 .. k - 1 : net[i] \in Datagrams
      BY <1>1, <1>2
    <3>2. \A i \in k + 1 .. Len(net) : net[i] \in Datagrams
      BY <1>1, <1>2
    <3>3. k \in Int /\ k - 1 \in Int /\ k + 1 \in Int
      BY <1>1
    <3> QED BY <1>1, <3>1, <3>2, <3>3, SubSeqProperties
  <2>3. net' \in Seq(Datagrams)
    BY <2>1, <2>2, ConcatProperties DEF RemoveAt
  <2> QED BY <1>3, <2>1, <2>3 DEF TypeInv, clientVars, hostVars, remainder
<1>5. CASE Duplicate
  <2>1. net' \in Seq(Datagrams)
    BY <1>1, <1>2, <1>5, AppendProperties DEF Duplicate
  <2> QED BY <1>3, <1>5, <2>1
          DEF Duplicate, TypeInv, clientVars, hostVars, remainder
<1>6. CASE Reorder
  <2>1. net # <<>>
    BY <1>6 DEF Reorder
  <2>2. Head(net) \in Datagrams /\ Tail(net) \in Seq(Datagrams)
    BY <1>1, <2>1, HeadTailProperties
  <2>3. net' \in Seq(Datagrams)
    BY <1>6, <2>2, AppendProperties DEF Reorder
  <2> QED BY <1>3, <1>6, <2>3
          DEF Reorder, TypeInv, clientVars, hostVars, remainder
<1> QED BY <1>4, <1>5, <1>6 DEF Network

LEMMA HostType == TypeInv /\ Host => TypeInv'
<1> SUFFICES ASSUME TypeInv, Host PROVE TypeInv'
  OBVIOUS
<1>1. input[writer] \in Slots
  BY DEF TypeInv
<1>2. CASE Receive
  <2>1. Head(net) \in Datagrams /\ Tail(net) \in Seq(Datagrams)
    BY <1>2, HeadTailProperties DEF Receive, TypeInv
  <2>2. Filled(input[writer], Head(net)) \in Slots
    BY <1>1, <2>1, FilledType
  <2>3. Head(net).data \in Seq(Bytes)
    BY <2>1 DEF Datagrams
  <2>4. received' \in Seq(Bytes)
    BY <1>2, <2>3, ConcatProperties DEF Receive, TypeInv
  <2>5. HandleBuffer(Filled(input[writer], Head(net)))
    BY <1>2 DEF Receive
  <2> QED BY <1>2, <2>1, <2>2, <2>4, <2>5, HandleBufferType
          DEF Receive, TypeInv, clientVars, remainder
<1>3. CASE ReceiveError
  <2>1. faults' \in 0 .. MaxFaults
    BY <1>3, ConstantFacts DEF ReceiveError, Fault, TypeInv
  <2> QED BY <1>1, <1>3, <2>1, HandleBufferType
          DEF ReceiveError, TypeInv, clientVars, remainder
<1> QED BY <1>2, <1>3 DEF Host

LEMMA NextType == TypeInv /\ [Next]_vars => TypeInv'
<1>1. TypeInv /\ UNCHANGED vars => TypeInv'
  BY DEF TypeInv, vars, clientVars, hostVars, remainder
<1> QED BY <1>1, ClientType, NetworkType, HostType DEF Next, Finished

LEMMA TypeInvariant == Spec => []TypeInv
  BY InitType, NextType, PTL DEF Spec

\* The receive loop's slot, length and done flag stay in range, and headers
\* tell the lengths of their payloads, whatever the network and the socket do.
THEOREM TypeCorrect == Spec => []TypeOK
<1>1. TypeInv => TypeOK
  <2> SUFFICES ASSUME TypeInv PROVE TypeOK
    OBVIOUS
  <2>1. lengthSum \in 0 .. BufferSize
    BY SlotFits, ConstantFacts DEF TypeInv, SlotIds
  <2>2. \A k \in DOMAIN net : /\ net[k].header \in Headers
                              /\ Len(net[k].data) \in 1 .. BlockSize
                              /\ LengthField(net[k].header) = Len(net[k].data)
                              /\ \A i \in DOMAIN net[k].data : net[k].data[i] \in Bytes
    <3> TAKE k \in DOMAIN net
    <3>1. net[k] \in Datagrams
      BY LenProperties, ElementOfSeq DEF TypeInv
    <3> QED BY <3>1 DEF Datagrams
  <2> QED BY <2>1, <2>2 DEF TypeInv, TypeOK
<1> QED BY <1>1, TypeInvariant, PTL

-----------------------------------------------------------------------------
(* The stream: what was handed over and what waits is what arrived *)

\* ReceivedStream alone is not inductive: the next payload is copied to
\* writer * BlockSize, which is behind the pending bytes only when every slot
\* before writer is full.
StreamInv ==
  /\ lengthSum = writer * BlockSize
  /\ ReceivedStream

LEMMA InitStream == Init => StreamInv
<1> SUFFICES ASSUME Init PROVE StreamInv
  OBVIOUS
<1>1. 0 * BlockSize = 0 /\ Pending = <<>>
  BY ConstantFacts, SubSeqEmpty DEF Init, Pending
<1>2. <<>> \o <<>> = <<>>
  BY <<>> \in Seq(Bytes), ConcatEmptySeq
<1> QED BY <1>1, <1>2 DEF Init, StreamInv, ReceivedStream

LEMMA ReceiveStream ==
  ASSUME TypeInv, StreamInv, Receive PROVE StreamInv'
<1> DEFINE d == Head(net)
           slot == Filled(input[writer], d)
           length == LengthField(slot.header)
           batch == SubSeq(pipeline', 1, lengthSum + length)
<1>1. d \in Datagrams /\ input[writer] \in Slots
  BY HeadTailProperties DEF Receive, TypeInv
<1>2. /\ slot \in Slots
      /\ length = Len(d.data)
      /\ \A i \in 1 .. Len(d.data) : slot.data[i] = d.data[i]
  BY <1>1, FilledType
<1>3. /\ length \in 1 .. BlockSize /\ length \in Nat
      /\ d.data \in Seq(Bytes)
      /\ slot.data \in [1 .. BlockSize -> Bytes]
  BY <1>1, <1>2, ConstantFacts DEF Datagrams, Slots
<1>4. SubSeq(slot.data, 1, length) = d.data
  BY <1>1, FilledPayload
<1>5. /\ pipeline' = CopyToPipeline(slot.data, length)
      /\ received' = received \o d.data
      /\ HandleBuffer(slot)
  BY DEF Receive, HandleBuffer
<1>6. /\ lengthSum = writer * BlockSize
      /\ written \o Pending = received
      /\ written \in Seq(Bytes) /\ writer \in SlotIds /\ lengthSum \in Nat
  BY DEF StreamInv, ReceivedStream, TypeInv
<1> HIDE DEF d, slot, length
<1>7. batch = Pending \o d.data /\ Pending \in Seq(Bytes)
  <2>1. length \in 0 .. BlockSize
    BY <1>3, ConstantFacts
  <2>2. /\ SubSeq(CopyToPipeline(slot.data, length), 1, lengthSum + length)
             = Pending \o SubSeq(slot.data, 1, length)
        /\ Pending \in Seq(Bytes)
    BY <1>3, <1>6, <2>1, CopyAppends
  <2> QED BY <1>4, <1>5, <2>2
<1> HIDE DEF batch
<1>8. written \o batch = received' /\ batch \in Seq(Bytes)
  <2>1. Pending \o d.data \in Seq(Bytes)
    BY <1>3, <1>7, ConcatProperties
  <2>2. (written \o Pending) \o d.data = written \o (Pending \o d.data)
    <3>1. /\ written \in Seq(Bytes) /\ Pending \in Seq(Bytes)
          /\ d.data \in Seq(Bytes)
      BY <1>3, <1>6, <1>7
    <3>2. \A s, t, u \in Seq(Bytes) : (s \o t) \o u = s \o (t \o u)
      BY ConcatAssociative
    <3> QED BY <3>1, <3>2, Zenon
  <2> QED BY <1>5, <1>6, <1>7, <2>1, <2>2
<1>9. CASE /\ written' = written \o batch
           /\ writer' = 0
           /\ lengthSum' = 0
  <2>1. 0 * BlockSize = 0 /\ Pending' = <<>>
    BY <1>9, ConstantFacts, SubSeqEmpty DEF Pending
  <2>2. written' \in Seq(Bytes)
    BY <1>6, <1>8, <1>9, ConcatProperties
  <2>3. written' \o <<>> = written'
    BY <2>2, ConcatEmptySeq
  <2> QED BY <1>8, <1>9, <2>1, <2>3 DEF StreamInv, ReceivedStream
<1>10. CASE /\ ~BatchReady(length, DoneField(slot.header))
            /\ written' = written
            /\ writer' = writer + 1
            /\ lengthSum' = lengthSum + length
  <2>1. length = BlockSize
    BY <1>3, <1>10, ConstantFacts DEF BatchReady
  <2>2. (writer + 1) * BlockSize = writer * BlockSize + BlockSize
    BY <1>6, SlotFits
  <2>3. lengthSum' = writer' * BlockSize
    BY <1>6, <1>10, <2>1, <2>2
  <2>4. Pending' = batch
    BY <1>10 DEF Pending, batch
  <2> QED BY <1>8, <1>10, <2>3, <2>4 DEF StreamInv, ReceivedStream
<1> QED
  <2>1. \/ /\ written' = written \o batch
           /\ writer' = 0
           /\ lengthSum' = 0
        \/ /\ ~BatchReady(length, DoneField(slot.header))
           /\ written' = written
           /\ writer' = writer + 1
           /\ lengthSum' = lengthSum + length
    BY <1>5 DEF HandleBuffer, length, batch
  <2> QED BY <1>9, <1>10, <2>1

LEMMA NextStream ==
  ASSUME "recv_error" \notin Faults
  PROVE  TypeInv /\ StreamInv /\ [Next]_vars => StreamInv'
<1> SUFFICES ASSUME TypeInv, StreamInv, [Next]_vars PROVE StreamInv'
  OBVIOUS
<1>1. CASE UNCHANGED hostVars
  BY <1>1 DEF StreamInv, ReceivedStream, Pending, hostVars
<1>2. CASE Client
  BY <1>1, <1>2 DEF Client, SendBlock, SendLastBlock, SendBlockBeforeRest,
                    SendRemainder, Send
<1>3. CASE Network
  BY <1>1, <1>3 DEF Network, Lose, Duplicate, Reorder
<1>4. CASE Receive
  BY <1>4, ReceiveStream
<1>5. CASE ReceiveError
  BY <1>5 DEF ReceiveError, Fault
<1>6. CASE Finished \/ UNCHANGED vars
  BY <1>1, <1>6 DEF Finished, vars
<1> QED BY <1>2, <1>3, <1>4, <1>5, <1>6 DEF Next, Host

\* Loss, duplication and reordering change what arrives, but while recvfrom
\* does not fail the receive loop hands on exactly what arrived, in order.
THEOREM ReceivedStreamHolds ==
  ASSUME "recv_error" \notin Faults
  PROVE  Spec => []ReceivedStream
<1>1. StreamInv => ReceivedStream
  BY DEF StreamInv
<1> QED BY <1>1, InitStream, NextStream, TypeInvariant, PTL DEF Spec

\* A batch is short only when the packet that completes it is the last one.
THEOREM FullBatchesHold ==
  ASSUME "recv_error" \notin Faults, ClientBlock = BlockSize
  PROVE  Spec => FullBatches
<1> DEFINE Full == written' # written =>
                     \/ Len(written') - Len(written) = BufferSize
                     \/ done' # 0
<1>1. ASSUME TypeInv, StreamInv, [Next]_vars PROVE [Full]_vars
  <2> SUFFICES ASSUME written' # written PROVE Full
    OBVIOUS
  <2>1. Receive
    BY <1>1 DEF Next, vars, hostVars, clientVars, Client, SendBlock,
        SendLastBlock, SendBlockBeforeRest, SendRemainder, Send, Network, Lose,
        Duplicate, Reorder, Finished, Host, ReceiveError, Fault
  <2> DEFINE d == Head(net)
             slot == Filled(input[writer], d)
             length == LengthField(slot.header)
             batch == SubSeq(pipeline', 1, lengthSum + length)
  <2>2. d \in Datagrams /\ input[writer] \in Slots
    BY <1>1, <2>1, HeadTailProperties DEF Receive, TypeInv
  <2>3. /\ slot \in Slots
        /\ length = Len(d.data)
        /\ DoneField(slot.header) = DoneField(d.header)
    BY <2>2, FilledType
  <2>4. /\ length \in 1 .. BlockSize /\ length \in Nat
        /\ length < BlockSize => DoneField(d.header) # 0
        /\ slot.data \in [1 .. BlockSize -> Bytes]
    BY <2>2, <2>3, ConstantFacts DEF Datagrams, Slots
  <2>5. /\ BatchReady(length, DoneField(slot.header))
        /\ written' = written \o batch
        /\ done' = DoneField(slot.header)
    BY <2>1 DEF Receive, HandleBuffer
  <2>6. pipeline' \in [1 .. BufferSize -> Bytes]
    BY <1>1, <2>1, <2>3, HandleBufferType DEF Receive
  <2> HIDE DEF d, slot, length
  <2>7. CASE length < BlockSize
    BY <2>3, <2>4, <2>5, <2>7
  <2>8. CASE length = BlockSize
    <3>1. done' \in {0, DoneBit} /\ DoneBit # 1
      BY <2>5, ConstantFacts DEF DoneField
    <3>2. writer = NumPackets - 1
      BY <2>5, <2>8, <3>1, <2>4 DEF BatchReady
    <3>3. lengthSum + length = BufferSize /\ lengthSum + length \in Nat
      BY <1>1, <2>8, <3>2, SlotFits, ConstantFacts DEF StreamInv, TypeInv
    <3>4. \A i \in 1 .. BufferSize : pipeline'[i] \in Bytes
      BY <2>6
    <3>5. batch \in Seq(Bytes) /\ Len(batch) = BufferSize
      BY <3>3, <3>4, ConstantFacts, SubSeqProperties
    <3> HIDE DEF batch
    <3>6. Len(written') = Len(written) + BufferSize /\ Len(written) \in Nat
      BY <1>1, <2>5, <3>5, ConcatProperties, LenProperties DEF TypeInv
    <3> QED BY <3>6, ConstantFacts
  <2> QED BY <2>4, <2>7, <2>8, ConstantFacts
<1> QED BY <1>1, InitStream, NextStream, TypeInvariant, PTL
        DEF Spec, FullBatches

-----------------------------------------------------------------------------
(* Waiting for a datagram that will not come *)

\* A datagram with the done bit is among those under way.
LEMMA SentLast ==
  ASSUME TypeInv, NEW start \in Nat, NEW length \in 1 .. BlockSize,
         Send(start, length, TRUE)
  PROVE  ~WaitsForever'
<1> DEFINE d == Datagram(start, length, TRUE)
<1>1. DoneField(d.header) # 0
  <2>1. length \in Lengths
    BY ConstantFacts
  <2>2. DoneField(Header(length, TRUE)) = DoneBit
    BY <2>1, HeaderRoundTrip
  <2>3. DoneBit # 0
    BY ConstantFacts
  <2>4. d.header = Header(length, TRUE)
    BY DEF Datagram
  <2> HIDE DEF d
  <2> QED BY <2>2, <2>3, <2>4, Zenon
<1>2. d \in Datagrams
  BY DatagramType
<1>3. net' = Append(net, d) /\ net \in Seq(Datagrams)
  BY DEF Send, TypeInv
<1> HIDE DEF d
<1>4. Len(net) + 1 \in DOMAIN net' /\ net'[Len(net) + 1] = d
  BY <1>2, <1>3, AppendProperties, LenProperties
<1> QED BY <1>1, <1>4 DEF WaitsForever

LEMMA StillWaits ==
  ASSUME TypeInv, Duplicate \/ Reorder \/ Receive, WaitsForever'
  PROVE  WaitsForever
<1>1. net \in Seq(Datagrams) /\ Len(net) \in Nat /\ DOMAIN net = 1 .. Len(net)
  BY LenProperties DEF TypeInv
<1>2. CASE Duplicate
  <2>1. PICK j \in DOMAIN net : net' = Append(net, net[j])
    BY <1>2 DEF Duplicate
  <2>2. net[j] \in Datagrams
    BY <1>1, <2>1, ElementOfSeq
  <2>3. \A k \in DOMAIN net : k \in DOMAIN net' /\ net'[k] = net[k]
    BY <1>1, <2>1, <2>2, AppendProperties, LenProperties
  <2> QED BY <1>2, <2>3 DEF Duplicate, WaitsForever, clientVars, hostVars
<1>3. ASSUME net # <<>> PROVE
        /\ Head(net) \in Datagrams /\ Tail(net) \in Seq(Datagrams)
        /\ Head(net) = net[1] /\ Len(Tail(net)) = Len(net) - 1
        /\ \A k \in 1 .. Len(net) - 1 : Tail(net)[k] = net[k + 1]
  BY <1>1, <1>3, HeadTailProperties
<1>4. ASSUME net # <<>>, NEW D \in SUBSET Headers,
             Head(net).header \in D,
             \A k \in 1 .. Len(net) - 1 : Tail(net)[k].header \in D
      PROVE  \A k \in DOMAIN net : net[k].header \in D
  <2> SUFFICES ASSUME NEW k \in 1 .. Len(net) PROVE net[k].header \in D
    BY <1>1
  <2>1. CASE k = 1
    BY <1>3, <1>4, <2>1
  <2>2. CASE k # 1
    <3>1. k - 1 \in 1 .. Len(net) - 1 /\ (k - 1) + 1 = k
      BY <1>1, <2>2
    <3> QED BY <1>3, <1>4, <3>1
  <2> QED BY <2>1, <2>2
<1> DEFINE Open == {h \in Headers : DoneField(h) = 0}
<1>5. \A d \in Datagrams : d.header \in Headers
  BY DEF Datagrams
<1>6. CASE Reorder
  <2>1. net # <<>> /\ net' = Append(Tail(net), Head(net))
    BY <1>6, <1>1 DEF Reorder
  <2>2. /\ \A k \in 1 .. Len(Tail(net)) : k \in DOMAIN net' /\ net'[k] = Tail(net)[k]
        /\ Len(Tail(net)) + 1 \in DOMAIN net' /\ net'[Len(Tail(net)) + 1] = Head(net)
    BY <1>3, <2>1, AppendProperties, LenProperties
  <2>3. \A k \in 1 .. Len(net) - 1 : Tail(net)[k] \in Datagrams
    BY <1>3, <2>1, ElementOfSeq
  <2>4. Head(net).header \in Open /\ \A k \in 1 .. Len(net) - 1 : Tail(net)[k].header \in Open
    BY <1>3, <1>5, <2>1, <2>2, <2>3 DEF WaitsForever
  <2> HIDE DEF Open
  <2>5. \A k \in DOMAIN net : net[k].header \in Open
    BY <1>4, <2>1, <2>4, Open \in SUBSET Headers DEF Open
  <2> QED BY <1>6, <2>5 DEF Open, Reorder, WaitsForever, clientVars, hostVars
<1>7. CASE Receive
  <2>1. net # <<>> /\ net' = Tail(net) /\ done = 0 /\ clientPc' = clientPc
    BY <1>7 DEF Receive, clientVars
  <2>2. input[writer] \in Slots
    BY DEF TypeInv
  <2>3. done' = DoneField(Head(net).header)
    BY <1>3, <1>7, <2>1, <2>2, FilledType DEF Receive, HandleBuffer
  <2>4. \A k \in 1 .. Len(net) - 1 : k \in DOMAIN net' /\ Tail(net)[k] \in Datagrams
    BY <1>3, <2>1, ElementOfSeq, LenProperties
  <2>5. Head(net).header \in Open /\ \A k \in 1 .. Len(net) - 1 : Tail(net)[k].header \in Open
    BY <1>3, <1>5, <2>1, <2>3, <2>4 DEF WaitsForever
  <2> HIDE DEF Open
  <2>6. \A k \in DOMAIN net : net[k].header \in Open
    BY <1>4, <2>1, <2>5, Open \in SUBSET Headers DEF Open
  <2> QED BY <2>1, <2>6 DEF Open, WaitsForever
<1> QED BY <1>2, <1>6, <1>7

\* Nothing but the loss of a datagram leaves the host in recvfrom for good.
THEOREM OnlyLossStopsTheHost == Spec => WaitsOnlyForLost
<1>1. ASSUME TypeInv, [Next]_vars, WaitsForever', ~WaitsForever
      PROVE  Len(net') < Len(net) /\ faults' = faults + 1
  <2>1. /\ fileSize \in Nat /\ n \in Nat
        /\ ClientBlock \in Nat /\ ClientBlock \in 1 .. BlockSize
    BY <1>1, TransferAssumption, ConstantFacts DEF TypeInv
  <2>2. /\ n * ClientBlock \in Nat /\ loops * ClientBlock \in Nat
        /\ remainder \in 0 .. ClientBlock - 1
    BY <2>1, ConstantFacts, DivisionBounds DEF loops, remainder
  <2>3. CASE Client
    <3>1. CASE SendBlock \/ SendBlockBeforeRest
      BY <1>1, <3>1 DEF SendBlock, SendBlockBeforeRest, WaitsForever
    <3>2. CASE SendLastBlock
      BY <1>1, <2>1, <2>2, <3>2, SentLast DEF SendLastBlock
    <3>3. CASE SendRemainder
      <4>1. remainder \in 1 .. BlockSize
        BY <1>1, <2>2, <3>3, ConstantFacts DEF SendRemainder, TypeInv
      <4> QED BY <1>1, <2>2, <3>3, <4>1, SentLast DEF SendRemainder
    <3> QED BY <2>3, <3>1, <3>2, <3>3 DEF Client
  <2>4. CASE Lose
    <3>1. net \in Seq(Datagrams) /\ Len(net) \in Nat /\ DOMAIN net = 1 .. Len(net)
      BY <1>1, LenProperties DEF TypeInv
    <3>2. PICK k \in 1 .. Len(net) : net' = RemoveAt(net, k) /\ faults' = faults + 1
      BY <2>4, <3>1 DEF Lose, Fault
    <3>3. /\ \A i \in 1 .. k - 1 : net[i] \in Datagrams
          /\ \A i \in k + 1 .. Len(net) : net[i] \in Datagrams
          /\ k \in Int /\ k - 1 \in Int /\ k + 1 \in Int
      BY <3>1, <3>2, ElementOfSeq
    <3>4. /\ SubSeq(net, 1, k - 1) \in Seq(Datagrams) /\ Len(SubSeq(net, 1, k - 1)) = k - 1
          /\ SubSeq(net, k + 1, Len(net)) \in Seq(Datagrams)
          /\ Len(SubSeq(net, k + 1, Len(net))) = Len(net) - k
      BY <3>1, <3>2, <3>3, SubSeqProperties
    <3>5. Len(net') = (k - 1) + (Len(net) - k)
      <4> DEFINE front == SubSeq(net, 1, k - 1)
                 back == SubSeq(net, k + 1, Len(net))
      <4>1. front \in Seq(Datagrams) /\ back \in Seq(Datagrams)
        BY <3>4
      <4>2. net' = front \o back
        BY <3>2 DEF RemoveAt
      <4>3. Len(front \o back) = Len(front) + Len(back)
        BY <4>1, ConcatProperties
      <4>4. Len(front) = k - 1 /\ Len(back) = Len(net) - k
        BY <3>4
      <4> HIDE DEF front, back
      <4> QED BY <4>2, <4>3, <4>4, Zenon
    <3> QED BY <3>1, <3>2, <3>5
  <2>5. CASE Duplicate \/ Reorder \/ Receive
    BY <1>1, <2>5, StillWaits
  <2>6. CASE ReceiveError \/ Finished \/ UNCHANGED vars
    BY <1>1, <2>6 DEF ReceiveError, Finished, WaitsForever, vars, clientVars, hostVars
  <2> QED BY <1>1, <2>3, <2>4, <2>5, <2>6 DEF Next, Network, Host
<1> QED BY <1>1, TypeInvariant, PTL DEF Spec, WaitsOnlyForLost

-----------------------------------------------------------------------------
(* Without faults the file arrives in order *)

\* The datagrams the client sends: one or more blocks and the remainder.
Packets == BlocksSent + (IF remainder = 0 THEN 0 ELSE 1)

PacketOf(k) ==
  IF k < BlocksSent
  THEN Datagram(k * ClientBlock, ClientBlock, k = BlocksSent - 1 /\ remainder = 0)
  ELSE Datagram(loops * ClientBlock, remainder, TRUE)

\* The bytes they carry, counted from 1, and how many those are.
SentByte(i) ==
  IF loops # 0 THEN i - 1
  ELSE IF i > ClientBlock THEN i - ClientBlock - 1
  ELSE IF i <= fileSize THEN i - 1 ELSE Junk

SentSize == BlocksSent * ClientBlock + remainder

\* Where among these bytes the k-th datagram begins, counted from 0.
Position(k) == IF k <= BlocksSent THEN k * ClientBlock ELSE SentSize

\* What the host has made of the first k datagrams.
HasTaken(k) ==
  /\ Len(received) = Position(k)
  /\ \A i \in 1 .. Len(received) : received[i] = SentByte(i)
  /\ done # 0 <=> k = Packets
  /\ writer = IF ClientBlock = BlockSize /\ k <= BlocksSent THEN k % NumPackets
                                                           ELSE 0

\* The client's counter, the datagrams under way and what has arrived agree.
InOrder ==
  /\ clientPc = "loop" => n <= BlocksSent - 1
  /\ clientPc = "rest" => n = BlocksSent
  /\ clientPc = "gone" => n = Packets
  /\ Len(net) <= n
  /\ \A i \in 1 .. Len(net) : net[i] = PacketOf(n - Len(net) + i - 1)
  /\ HasTaken(n - Len(net))

OrderInv == faults = 0 => InOrder /\ StreamInv

LEMMA FileFacts ==
  ASSUME TypeInv
  PROVE  /\ fileSize \in Nat /\ loops \in Nat
         /\ BlocksSent \in Nat /\ BlocksSent >= 1
         /\ loops # 0 => BlocksSent = loops
         /\ loops = 0 => BlocksSent = 1
         /\ remainder \in 0 .. ClientBlock - 1
         /\ loops * ClientBlock \in Nat
         /\ BlocksSent * ClientBlock \in Nat
         /\ loops = 0 => loops * ClientBlock = 0 /\ BlocksSent * ClientBlock = ClientBlock
         /\ fileSize = loops * ClientBlock + remainder
         /\ SentSize \in Nat /\ SentSize = BlocksSent * ClientBlock + remainder
         /\ Packets \in Nat
         /\ Packets = IF remainder = 0 THEN BlocksSent ELSE BlocksSent + 1
<1>1. fileSize \in Nat /\ ClientBlock \in Nat /\ ClientBlock > 0
  BY TransferAssumption, ConstantFacts DEF TypeInv
<1>2. /\ loops \in Nat /\ remainder \in 0 .. ClientBlock - 1
      /\ fileSize = ClientBlock * loops + remainder
  BY <1>1, DivisionBounds DEF loops, remainder
<1>3. /\ BlocksSent \in Nat /\ BlocksSent >= 1
      /\ loops # 0 => BlocksSent = loops
      /\ loops = 0 => BlocksSent = 1
  BY <1>2 DEF BlocksSent
<1>4. ClientBlock * loops = loops * ClientBlock /\ loops * ClientBlock \in Nat
  BY <1>1, <1>2
<1>5. BlocksSent * ClientBlock \in Nat
  BY <1>1, <1>3
<1>6. loops = 0 => loops * ClientBlock = 0 /\ BlocksSent * ClientBlock = ClientBlock
  BY <1>1, <1>3, 0 * ClientBlock = 0, 1 * ClientBlock = ClientBlock
<1>7. Packets = IF remainder = 0 THEN BlocksSent ELSE BlocksSent + 1
  BY <1>2, <1>3 DEF Packets
<1>8. SentSize \in Nat /\ SentSize = BlocksSent * ClientBlock + remainder
  BY <1>2, <1>5 DEF SentSize
<1> QED BY <1>1, <1>2, <1>3, <1>4, <1>5, <1>6, <1>7, <1>8

LEMMA PacketFacts ==
  ASSUME TypeInv, NEW k \in 0 .. Packets - 1
  PROVE  /\ Position(k) \in Nat
         /\ Position(k + 1) = Position(k) + Len(PacketOf(k).data)
         /\ \A i \in 1 .. Len(PacketOf(k).data) :
              PacketOf(k).data[i] = SentByte(Position(k) + i)
         /\ DoneField(PacketOf(k).header) # 0 <=> k + 1 = Packets
         /\ Len(PacketOf(k).data)
              = IF k < BlocksSent THEN ClientBlock ELSE remainder
         /\ k >= BlocksSent => remainder # 0
<1>1. /\ fileSize \in Nat /\ loops \in Nat
      /\ BlocksSent \in Nat /\ BlocksSent >= 1
      /\ loops # 0 => BlocksSent = loops
      /\ loops = 0 => BlocksSent = 1
      /\ remainder \in 0 .. ClientBlock - 1
      /\ loops * ClientBlock \in Nat /\ BlocksSent * ClientBlock \in Nat
      /\ loops = 0 => loops * ClientBlock = 0 /\ BlocksSent * ClientBlock = ClientBlock
      /\ fileSize = loops * ClientBlock + remainder
      /\ SentSize = BlocksSent * ClientBlock + remainder
      /\ Packets = IF remainder = 0 THEN BlocksSent ELSE BlocksSent + 1
      /\ k \in Nat /\ k < Packets
  BY FileFacts
<1>2. ClientBlock \in Nat /\ ClientBlock > 0 /\ ClientBlock \in Lengths
      /\ remainder \in Lengths
  BY <1>1, ConstantFacts, RadixAssumption DEF Lengths
<1>3. DoneBit # 0
  BY ConstantFacts
<1>4. ASSUME NEW start \in Nat, NEW length \in Lengths, NEW last \in BOOLEAN
      PROVE  /\ Len(Datagram(start, length, last).data) = length
             /\ \A i \in 1 .. length :
                  Datagram(start, length, last).data[i]
                    = IF start + i <= fileSize THEN start + i - 1 ELSE Junk
             /\ DoneField(Datagram(start, length, last).header) # 0 <=> last
  <2>1. length \in Nat
    BY <1>4 DEF Lengths
  <2>2. /\ Datagram(start, length, last).data = Payload(start, length)
        /\ Datagram(start, length, last).header = Header(length, last)
    BY DEF Datagram
  <2>3. Len(Payload(start, length)) = length
    <3>1. Payload(start, length) \in Seq(Int)
      BY <1>1, <1>4, <2>1 DEF Payload, Junk
    <3> QED BY <2>1, <3>1, LenProperties DEF Payload
  <2>4. DoneField(Header(length, last)) = IF last THEN DoneBit ELSE 0
    BY HeaderRoundTrip
  <2>5. \A i \in 1 .. length :
          Payload(start, length)[i]
            = IF start + i <= fileSize THEN start + i - 1 ELSE Junk
    BY DEF Payload
  <2> QED BY <1>3, <2>2, <2>3, <2>4, <2>5
<1>5. CASE k < BlocksSent
  <2>1. /\ k * ClientBlock \in Nat
        /\ (k + 1) * ClientBlock = k * ClientBlock + ClientBlock
        /\ (k + 1) * ClientBlock = ClientBlock * (k + 1)
        /\ loops * ClientBlock = ClientBlock * loops
    BY <1>1, <1>2
  <2>2. loops # 0 => k * ClientBlock + ClientBlock <= fileSize
    <3>1. loops # 0 => ClientBlock * (k + 1) <= ClientBlock * loops
      BY <1>1, <1>2, <1>5, TimesMonotonic
    <3> QED BY <1>1, <1>2, <2>1, <3>1
  <2>3. loops = 0 => k * ClientBlock = 0
    <3>1. 0 * ClientBlock = 0
      BY <1>2
    <3> QED BY <1>1, <1>5, <3>1
  <2>4. /\ PacketOf(k) = Datagram(k * ClientBlock, ClientBlock,
                                  k = BlocksSent - 1 /\ remainder = 0)
        /\ Position(k) = k * ClientBlock
        /\ Position(k + 1) = (k + 1) * ClientBlock
    BY <1>1, <1>5 DEF PacketOf, Position
  <2>5. (k = BlocksSent - 1 /\ remainder = 0) <=> k + 1 = Packets
    BY <1>1, <1>5
  <2> DEFINE last == k = BlocksSent - 1 /\ remainder = 0
             d == Datagram(k * ClientBlock, ClientBlock, last)
             start == k * ClientBlock
  <2>6. last \in BOOLEAN
    BY Zenon
  <2>7. PacketOf(k) = d /\ (last <=> k + 1 = Packets)
    BY <2>4, <2>5, Zenon
  <2> HIDE DEF last
  <2>8. /\ Len(d.data) = ClientBlock
        /\ \A i \in 1 .. ClientBlock :
             d.data[i] = IF start + i <= fileSize THEN start + i - 1 ELSE Junk
        /\ DoneField(d.header) # 0 <=> last
    BY <1>2, <1>4, <2>1, <2>6
  <2> HIDE DEF d
  <2>9. /\ start \in Nat /\ Position(k) = start
        /\ Position(k + 1) = start + ClientBlock
        /\ ~(k >= BlocksSent)
        /\ loops # 0 => start + ClientBlock <= fileSize
        /\ loops = 0 => start = 0
    BY <1>1, <1>5, <2>1, <2>2, <2>3, <2>4
  <2> HIDE DEF start
  <2>10. ASSUME NEW i \in 1 .. ClientBlock PROVE d.data[i] = SentByte(start + i)
    <3>1. d.data[i] = IF start + i <= fileSize THEN start + i - 1 ELSE Junk
      BY <2>8
    <3>2. CASE loops # 0
      <4>1. start + i <= fileSize
        BY <1>1, <1>2, <2>9, <3>2
      <4>2. d.data[i] = start + i - 1
        BY <3>1, <4>1, Zenon
      <4>3. SentByte(start + i) = start + i - 1
        BY <1>2, <2>9, <3>2 DEF SentByte
      <4> QED BY <4>2, <4>3, Zenon
    <3>3. CASE loops = 0
      <4>1. start + i = i /\ ~(i > ClientBlock)
        BY <1>2, <2>9, <3>3
      <4>2. d.data[i] = IF i <= fileSize THEN i - 1 ELSE Junk
        BY <1>2, <2>9, <3>1, <3>3, <4>1
      <4>3. SentByte(i) = IF i <= fileSize THEN i - 1 ELSE Junk
        BY <3>3, <4>1, Zenon DEF SentByte
      <4> QED BY <4>1, <4>2, <4>3, Zenon
    <3> QED BY <3>2, <3>3
  <2> QED BY <1>5, <2>7, <2>8, <2>9, <2>10, Zenon
<1>6. CASE ~(k < BlocksSent)
  <2>1. k = BlocksSent /\ remainder # 0
    BY <1>1, <1>6
  <2> DEFINE start == loops * ClientBlock
             d == Datagram(start, remainder, TRUE)
  <2>2. /\ PacketOf(k) = d
        /\ Position(k) = BlocksSent * ClientBlock
        /\ Position(k + 1) = SentSize
    <3>1. PacketOf(k) = d
      BY <1>6, Zenon DEF PacketOf
    <3> QED BY <1>1, <2>1, <3>1 DEF Position
  <2>3. /\ Len(d.data) = remainder
        /\ \A i \in 1 .. remainder :
             d.data[i] = IF start + i <= fileSize THEN start + i - 1 ELSE Junk
        /\ DoneField(d.header) # 0
    <3>1. TRUE \in BOOLEAN
      BY Zenon
    <3> QED BY <1>1, <1>2, <1>4, <3>1, Zenon
  <2> HIDE DEF d
  <2>4. ASSUME NEW i \in 1 .. remainder
        PROVE  d.data[i] = SentByte(BlocksSent * ClientBlock + i)
    <3>1. /\ i \in Nat /\ i >= 1 /\ start \in Nat /\ start + i <= fileSize
      BY <1>1, <1>2
    <3>2. d.data[i] = start + i - 1
      BY <2>3, <3>1, Zenon
    <3>3. CASE loops # 0
      BY <1>1, <3>2, <3>3 DEF SentByte
    <3>4. CASE loops = 0
      <4>1. BlocksSent * ClientBlock + i = ClientBlock + i /\ start + i - 1 = i - 1
        BY <1>1, <3>1, <3>4
      <4>2. ClientBlock + i > ClientBlock /\ (ClientBlock + i) - ClientBlock - 1 = i - 1
        BY <1>2, <3>1
      <4> QED BY <3>2, <3>4, <4>1, <4>2, Zenon DEF SentByte
    <3> QED BY <3>3, <3>4
  <2> QED BY <1>1, <1>6, <2>1, <2>2, <2>3, <2>4
<1> QED BY <1>5, <1>6

\* Each of the client's steps puts the next datagram of the file on the net.
LEMMA ClientInOrder ==
  ASSUME TypeInv, InOrder, Client
  PROVE  InOrder'
<1>1. /\ BlocksSent \in Nat /\ BlocksSent >= 1 /\ n \in Nat
      /\ loops \in Nat
      /\ loops # 0 => BlocksSent = loops
      /\ loops = 0 => BlocksSent = 1
      /\ Packets = IF remainder = 0 THEN BlocksSent ELSE BlocksSent + 1
  BY FileFacts DEF TypeInv
<1> DEFINE last == n = BlocksSent - 1 /\ remainder = 0
<1>0. /\ n < BlocksSent /\ ~last => PacketOf(n) = Datagram(n * ClientBlock, ClientBlock, FALSE)
      /\ n < BlocksSent /\ last => PacketOf(n) = Datagram(n * ClientBlock, ClientBlock, TRUE)
      /\ ~(n < BlocksSent) => PacketOf(n) = Datagram(loops * ClientBlock, remainder, TRUE)
  <2>1. /\ n < BlocksSent => PacketOf(n) = Datagram(n * ClientBlock, ClientBlock, last)
        /\ ~(n < BlocksSent) => PacketOf(n) = Datagram(loops * ClientBlock, remainder, TRUE)
    BY Zenon DEF PacketOf
  <2>2. (last => last = TRUE) /\ (~last => last = FALSE)
    BY Zenon
  <2> HIDE DEF last
  <2> QED BY <2>1, <2>2, Zenon
<1>2. /\ net' = Append(net, PacketOf(n)) /\ n' = n + 1
      /\ UNCHANGED <<fileSize, hostVars>>
      /\ clientPc' = "loop" => n + 1 <= BlocksSent - 1
      /\ clientPc' = "rest" => n + 1 = BlocksSent
      /\ clientPc' = "gone" => n + 1 = Packets
  <2>1. CASE SendBlock
    <3>1. n < BlocksSent /\ ~last
      BY <1>1, <2>1 DEF SendBlock
    <3>2. Send(n * ClientBlock, ClientBlock, FALSE)
      BY <2>1 DEF SendBlock
    <3>3. net' = Append(net, PacketOf(n)) /\ n' = n + 1 /\ UNCHANGED <<fileSize, hostVars>>
      BY <1>0, <3>1, <3>2, Zenon DEF Send
    <3>4. /\ clientPc' = "loop" => n + 1 <= BlocksSent - 1
          /\ clientPc' = "rest" => n + 1 = BlocksSent
          /\ clientPc' = "gone" => n + 1 = Packets
      BY <1>1, <2>1 DEF SendBlock
    <3> QED BY <3>3, <3>4, Zenon
  <2>2. CASE SendLastBlock
    <3>1. n < BlocksSent /\ last
      BY <1>1, <2>2 DEF SendLastBlock, InOrder
    <3>2. Send(n * ClientBlock, ClientBlock, TRUE)
      BY <2>2 DEF SendLastBlock
    <3>3. net' = Append(net, PacketOf(n)) /\ n' = n + 1 /\ UNCHANGED <<fileSize, hostVars>>
      BY <1>0, <3>1, <3>2, Zenon DEF Send
    <3>4. /\ clientPc' = "loop" => n + 1 <= BlocksSent - 1
          /\ clientPc' = "rest" => n + 1 = BlocksSent
          /\ clientPc' = "gone" => n + 1 = Packets
      BY <1>1, <2>2 DEF SendLastBlock, InOrder
    <3> QED BY <3>3, <3>4, Zenon
  <2>3. CASE SendBlockBeforeRest
    <3>1. n < BlocksSent /\ ~last
      BY <1>1, <2>3 DEF SendBlockBeforeRest, InOrder
    <3>2. Send(n * ClientBlock, ClientBlock, FALSE)
      BY <2>3 DEF SendBlockBeforeRest
    <3>3. net' = Append(net, PacketOf(n)) /\ n' = n + 1 /\ UNCHANGED <<fileSize, hostVars>>
      BY <1>0, <3>1, <3>2, Zenon DEF Send
    <3>4. /\ clientPc' = "loop" => n + 1 <= BlocksSent - 1
          /\ clientPc' = "rest" => n + 1 = BlocksSent
          /\ clientPc' = "gone" => n + 1 = Packets
      BY <1>1, <2>3 DEF SendBlockBeforeRest, InOrder
    <3> QED BY <3>3, <3>4, Zenon
  <2>4. CASE SendRemainder
    <3>1. ~(n < BlocksSent)
      BY <1>1, <2>4 DEF SendRemainder, InOrder
    <3>2. Send(loops * ClientBlock, remainder, TRUE)
      BY <2>4 DEF SendRemainder
    <3>3. net' = Append(net, PacketOf(n)) /\ n' = n + 1 /\ UNCHANGED <<fileSize, hostVars>>
      BY <1>0, <3>1, <3>2, Zenon DEF Send
    <3>4. /\ clientPc' = "loop" => n + 1 <= BlocksSent - 1
          /\ clientPc' = "rest" => n + 1 = BlocksSent
          /\ clientPc' = "gone" => n + 1 = Packets
      BY <1>1, <2>4 DEF SendRemainder, InOrder, TypeInv
    <3> QED BY <3>3, <3>4, Zenon
  <2> QED BY <2>1, <2>2, <2>3, <2>4 DEF Client
<1>3. /\ loops' = loops /\ remainder' = remainder /\ Packets' = Packets
      /\ BlocksSent' = BlocksSent
      /\ \A k : PacketOf(k)' = PacketOf(k)
      /\ \A k : HasTaken(k)' <=> HasTaken(k)
  BY <1>2 DEF loops, remainder, BlocksSent, Packets, PacketOf, Datagram, Payload,
              HasTaken, Position, SentSize, SentByte, hostVars
<1>4. net \in Seq(Datagrams) /\ Len(net) \in Nat
  BY LenProperties DEF TypeInv
<1>5. PacketOf(n) \in Datagrams
  <2>1. TypeInv'
    BY ClientType
  <2> QED BY <1>2, <1>4, <2>1, AppendProperties DEF TypeInv
<1>6. /\ Len(net') = Len(net) + 1
      /\ \A i \in 1 .. Len(net) : net'[i] = net[i]
      /\ net'[Len(net) + 1] = PacketOf(n)
  BY <1>2, <1>4, <1>5, AppendProperties
<1>7. n' - Len(net') = n - Len(net) /\ Len(net) <= n
  BY <1>1, <1>2, <1>4, <1>6 DEF InOrder
<1>8. \A i \in 1 .. Len(net') : net'[i] = PacketOf(n' - Len(net') + i - 1)
  <2> TAKE i \in 1 .. Len(net')
  <2>1. CASE i = Len(net) + 1
    <3>1. n' - Len(net') + i - 1 = n
      BY <1>1, <1>4, <1>6, <1>7, <2>1
    <3> QED BY <1>6, <2>1, <3>1
  <2>2. CASE i # Len(net) + 1
    <3>1. i \in 1 .. Len(net)
      BY <1>4, <1>6, <2>2
    <3> QED BY <1>6, <1>7, <3>1 DEF InOrder
  <2> QED BY <2>1, <2>2
<1>9. HasTaken(n' - Len(net'))
  BY <1>7 DEF InOrder
<1> HIDE DEF Packets
<1>10. Len(net') <= n'
  BY <1>1, <1>2, <1>4, <1>6, <1>7
<1> QED
  BY <1>2, <1>3, <1>8, <1>9, <1>10 DEF InOrder

LEMMA RemainderIsUnique ==
  ASSUME NEW d \in Nat, d > 0, NEW q \in Nat, NEW r \in 0 .. d - 1
  PROVE  (d * q + r) % d = r
<1> DEFINE x == d * q + r
           p == x \div d
           s == x % d
<1>1. d * q \in Nat /\ x \in Nat /\ x = d * q + r
  BY SMT
<1> HIDE DEF x
<1>2. p \in Nat /\ s \in 0 .. d - 1 /\ x = d * p + s
  BY <1>1, DivisionBounds
<1> HIDE DEF p, s
<1>3. d * p \in Nat /\ d * (p + 1) = d * p + d /\ d * (q + 1) = d * q + d
  BY <1>2, SMT
<1>4. ~(p + 1 <= q)
  <2> SUFFICES ASSUME p + 1 <= q PROVE FALSE
    OBVIOUS
  <2>1. d * (p + 1) <= d * q
    BY <1>2, TimesMonotonic
  <2> QED BY <1>1, <1>2, <1>3, <2>1
<1>5. ~(q + 1 <= p)
  <2> SUFFICES ASSUME q + 1 <= p PROVE FALSE
    OBVIOUS
  <2>1. d * (q + 1) <= d * p
    BY <1>2, TimesMonotonic
  <2> QED BY <1>1, <1>2, <1>3, <2>1
<1>6. p = q
  BY <1>2, <1>4, <1>5
<1>7. s = r
  BY <1>1, <1>2, <1>6
<1> QED BY <1>7 DEF s, x

LEMMA RemainderAfterNext ==
  ASSUME NEW d \in Nat, d > 0, NEW k \in Nat
  PROVE  (k + 1) % d = IF k % d = d - 1 THEN 0 ELSE (k % d) + 1
<1> DEFINE q == k \div d
           r == k % d
<1>1. q \in Nat /\ r \in 0 .. d - 1 /\ k = d * q + r
  BY DivisionBounds
<1> HIDE DEF q, r
<1>2. d * q \in Nat /\ d * (q + 1) = d * q + d
  BY <1>1, SMT
<1>3. CASE r = d - 1
  <2>1. k + 1 = d * (q + 1) + 0 /\ q + 1 \in Nat /\ 0 \in 0 .. d - 1
    BY <1>1, <1>2, <1>3
  <2>2. (d * (q + 1) + 0) % d = 0
    BY <2>1, RemainderIsUnique
  <2> QED BY <1>3, <2>1, <2>2 DEF r
<1>4. CASE r # d - 1
  <2>1. k + 1 = d * q + (r + 1) /\ r + 1 \in 0 .. d - 1
    BY <1>1, <1>2, <1>4
  <2>2. (d * q + (r + 1)) % d = r + 1
    BY <1>1, <2>1, RemainderIsUnique
  <2> QED BY <1>4, <2>1, <2>2 DEF r
<1> QED BY <1>3, <1>4

\* The host takes the file's datagrams one after the other.
LEMMA ReceiveInOrder ==
  ASSUME TypeInv, InOrder, StreamInv, Receive
  PROVE  InOrder'
<1> DEFINE d == Head(net)
           slot == Filled(input[writer], d)
<1>1. /\ BlocksSent \in Nat /\ BlocksSent >= 1 /\ n \in Nat
      /\ Packets = IF remainder = 0 THEN BlocksSent ELSE BlocksSent + 1
      /\ remainder \in 0 .. ClientBlock - 1
  BY FileFacts DEF TypeInv
<1>2. /\ net \in Seq(Datagrams) /\ net # <<>> /\ Len(net) \in Nat
      /\ net' = Tail(net) /\ done = 0
      /\ received' = received \o d.data
      /\ UNCHANGED clientVars
      /\ HandleBuffer(slot)
  BY LenProperties DEF TypeInv, Receive
<1>3. /\ Len(net) >= 1
      /\ d \in Datagrams /\ d = net[1]
      /\ Len(net') = Len(net) - 1
      /\ \A i \in 1 .. Len(net) - 1 : net'[i] = net[i + 1]
  <2>1. Len(net) # 0
    BY <1>2, EmptySeq
  <2> QED BY <1>2, <2>1, HeadTailProperties
<1>4. n <= Packets /\ Len(net) <= n
  BY <1>1 DEF InOrder, TypeInv
<1>20. PICK k \in Int : k = n - Len(net)
  <2>1. n - Len(net) \in Int
    BY <1>1, <1>2
  <2> QED BY <2>1, Zenon
<1>5. /\ k \in 0 .. Packets - 1 /\ k \in Nat /\ n' - Len(net') = k + 1
      /\ Len(net') <= n'
  BY <1>1, <1>2, <1>3, <1>4, <1>20 DEF clientVars
<1>6. d = PacketOf(k)
  <2>1. 1 \in 1 .. Len(net) /\ k + 1 - 1 = k
    BY <1>2, <1>3, <1>5
  <2>2. net[1] = PacketOf(k + 1 - 1)
    BY <1>20, <2>1 DEF InOrder
  <2> QED BY <1>3, <2>1, <2>2
<1>7. HasTaken(k)
  BY <1>20 DEF InOrder
<1>8. \A i \in 1 .. Len(net') : net'[i] = PacketOf(n' - Len(net') + i - 1)
  <2> TAKE i \in 1 .. Len(net')
  <2>1. i \in 1 .. Len(net) - 1 /\ i + 1 \in 1 .. Len(net)
    BY <1>2, <1>3
  <2>2. net'[i] = PacketOf(k + (i + 1) - 1)
    BY <1>3, <1>20, <2>1 DEF InOrder
  <2>3. k + (i + 1) - 1 = n' - Len(net') + i - 1
    BY <1>5, <2>1
  <2> QED BY <2>2, <2>3
<1>9. /\ Position(k) \in Nat
      /\ Position(k + 1) = Position(k) + Len(d.data)
      /\ \A i \in 1 .. Len(d.data) : d.data[i] = SentByte(Position(k) + i)
      /\ DoneField(d.header) # 0 <=> k + 1 = Packets
      /\ Len(d.data) = IF k < BlocksSent THEN ClientBlock ELSE remainder
      /\ k >= BlocksSent => remainder # 0
  BY <1>5, <1>6, PacketFacts
<1>10. input[writer] \in Slots /\ writer \in SlotIds
  BY DEF TypeInv
<1>11. /\ LengthField(slot.header) = Len(d.data)
       /\ DoneField(slot.header) = DoneField(d.header)
  BY <1>3, <1>10, FilledType
<1>12. /\ \/ /\ BatchReady(Len(d.data), DoneField(d.header))
             /\ writer' = 0
          \/ /\ ~BatchReady(Len(d.data), DoneField(d.header))
             /\ writer' = writer + 1
       /\ done' = DoneField(d.header)
  BY <1>2, <1>11, Zenon DEF HandleBuffer
<1> HIDE DEF slot
<1>13. d.data \in Seq(Bytes) /\ Len(d.data) \in 1 .. BlockSize
  BY <1>3 DEF Datagrams
<1> HIDE DEF d
<1>14. /\ Len(received') = Position(k + 1)
       /\ \A i \in 1 .. Len(received') : received'[i] = SentByte(i)
  <2>1. received \in Seq(Bytes) /\ Len(received) = Position(k)
    BY <1>7 DEF TypeInv, HasTaken
  <2>2. /\ Len(received') = Position(k) + Len(d.data)
        /\ \A i \in 1 .. Position(k) + Len(d.data) :
             received'[i] = IF i <= Position(k) THEN received[i]
                                                ELSE d.data[i - Position(k)]
    <3>1. /\ Len(received \o d.data) = Len(received) + Len(d.data)
          /\ \A i \in 1 .. Len(received) + Len(d.data) :
               (received \o d.data)[i] = IF i <= Len(received) THEN received[i]
                                          ELSE d.data[i - Len(received)]
      BY <1>13, <2>1, ConcatProperties, Zenon
    <3> QED BY <1>2, <2>1, <3>1, Zenon
  <2>3. ASSUME NEW i \in 1 .. Position(k) + Len(d.data) PROVE received'[i] = SentByte(i)
    <3>1. CASE i <= Position(k)
      <4>1. i \in 1 .. Len(received)
        BY <1>9, <2>1, <3>1
      <4> QED BY <1>7, <2>2, <3>1, <4>1 DEF HasTaken
    <3>2. CASE ~(i <= Position(k))
      <4>1. i - Position(k) \in 1 .. Len(d.data)
        BY <1>9, <1>13, ConstantFacts, <3>2
      <4>2. received'[i] = d.data[i - Position(k)]
        BY <2>2, <3>2, Zenon
      <4>3. d.data[i - Position(k)] = SentByte(Position(k) + (i - Position(k)))
        BY <1>9, <4>1
      <4>4. Position(k) + (i - Position(k)) = i
        BY <1>9
      <4> QED BY <4>2, <4>3, <4>4
    <3> QED BY <3>1, <3>2
  <2> QED BY <1>9, <2>2, <2>3, Zenon
<1>15. writer' = IF ClientBlock = BlockSize /\ k + 1 <= BlocksSent
                 THEN (k + 1) % NumPackets ELSE 0
  <2>1. /\ ClientBlock \in Nat /\ ClientBlock > 0 /\ ClientBlock <= BlockSize
        /\ BlockSize \in Nat /\ NumPackets \in Nat /\ NumPackets > 0
    BY ConstantFacts
  <2>2. CASE ClientBlock = BlockSize /\ k < BlocksSent
    <3>1. /\ Len(d.data) = BlockSize
          /\ writer = k % NumPackets
      BY <1>1, <1>5, <1>7, <1>9, <2>2 DEF HasTaken
    <3>2. DoneField(d.header) # 1
      BY ConstantFacts DEF DoneField
    <3>3. writer' = IF writer = NumPackets - 1 THEN 0 ELSE writer + 1
      BY <1>12, <2>1, <3>1, <3>2 DEF BatchReady
    <3>4. (k + 1) % NumPackets = IF k % NumPackets = NumPackets - 1 THEN 0
                                 ELSE (k % NumPackets) + 1
      BY <1>5, <2>1, RemainderAfterNext
    <3>5. k + 1 <= BlocksSent
      BY <1>1, <1>5, <2>2
    <3> QED BY <2>2, <3>1, <3>3, <3>4, <3>5, Zenon
  <2>3. CASE ~(ClientBlock = BlockSize /\ k < BlocksSent)
    <3>1. Len(d.data) < BlockSize /\ Len(d.data) > 0
      BY <1>1, <1>5, <1>9, <1>13, <2>1, <2>3
    <3>2. writer' = 0
      BY <1>12, <3>1 DEF BatchReady
    <3>3. ~(ClientBlock = BlockSize /\ k + 1 <= BlocksSent)
      BY <1>1, <1>5, <2>3
    <3> QED BY <3>2, <3>3, Zenon
  <2> QED BY <2>2, <2>3
<1>16. fileSize' = fileSize /\ clientPc' = clientPc /\ n' = n
  BY <1>2 DEF clientVars
<1>17. /\ BlocksSent' = BlocksSent /\ Packets' = Packets
       /\ \A j : PacketOf(j)' = PacketOf(j)
       /\ \A j : SentByte(j)' = SentByte(j)
       /\ \A j : Position(j)' = Position(j)
  BY <1>16 DEF loops, remainder, BlocksSent, Packets, PacketOf, Datagram, Payload,
               Position, SentSize, SentByte
<1>18. HasTaken(k + 1)'
  BY <1>9, <1>12, <1>14, <1>15, <1>17 DEF HasTaken
<1>19. /\ clientPc' = "loop" => n' <= BlocksSent' - 1
       /\ clientPc' = "rest" => n' = BlocksSent'
       /\ clientPc' = "gone" => n' = Packets'
  BY <1>16, <1>17 DEF InOrder
<1> QED BY <1>5, <1>8, <1>17, <1>18, <1>19 DEF InOrder

LEMMA InitOrder == Init => OrderInv
<1> SUFFICES ASSUME Init PROVE InOrder /\ StreamInv
  BY DEF OrderInv
<1>1. TypeInv /\ StreamInv
  BY InitType, InitStream
<1>2. /\ BlocksSent \in Nat /\ BlocksSent >= 1
      /\ Packets = IF remainder = 0 THEN BlocksSent ELSE BlocksSent + 1
      /\ ClientBlock \in Nat /\ NumPackets \in Nat /\ NumPackets > 0
  BY <1>1, FileFacts, ConstantFacts
<1>3. n = 0 /\ Len(net) = 0 /\ clientPc = "loop"
  BY DEF Init
<1>4. Len(received) = 0 /\ done = 0 /\ writer = 0
  BY DEF Init
<1>5. Position(0) = 0
  BY <1>2 DEF Position
<1>6. 0 % NumPackets = 0
  BY <1>2
<1>7. HasTaken(0)
  BY <1>2, <1>4, <1>5, <1>6 DEF HasTaken
<1>8. n - Len(net) = 0
  BY <1>3
<1> QED BY <1>1, <1>2, <1>3, <1>7, <1>8 DEF InOrder

LEMMA NextOrder == TypeInv /\ OrderInv /\ [Next]_vars => OrderInv'
<1> SUFFICES ASSUME TypeInv, OrderInv, [Next]_vars,
                    faults' = 0
             PROVE  InOrder' /\ StreamInv'
  BY DEF OrderInv
<1>2. ASSUME NEW kind, Fault(kind) PROVE FALSE
  BY <1>2, ConstantFacts DEF Fault, TypeInv
<1>3. CASE UNCHANGED vars
  <2>1. InOrder /\ StreamInv
    BY <1>3 DEF OrderInv, vars
  <2>2. InOrder'
    BY <1>3, <2>1 DEF InOrder, HasTaken, Position, SentSize, SentByte, Packets,
        PacketOf, Datagram, Payload, BlocksSent, loops, remainder, vars, clientVars, hostVars
  <2>3. StreamInv'
    BY <1>3, <2>1 DEF StreamInv, ReceivedStream, Pending, vars, hostVars
  <2> QED BY <2>2, <2>3
<1>4. CASE Client
  <2>1. InOrder /\ StreamInv
    BY <1>4 DEF OrderInv, Client, SendBlock, SendLastBlock,
        SendBlockBeforeRest, SendRemainder, Send
  <2>2. StreamInv'
    BY <1>4, <2>1 DEF StreamInv, ReceivedStream, Pending, hostVars, Client,
        SendBlock, SendLastBlock, SendBlockBeforeRest, SendRemainder, Send
  <2> QED BY <1>4, <2>1, <2>2, ClientInOrder
<1>5. CASE Receive
  <2>1. InOrder /\ StreamInv
    BY <1>5 DEF OrderInv, Receive
  <2> QED BY <1>5, <2>1, ReceiveInOrder, ReceiveStream
<1>6. CASE Network \/ ReceiveError
  BY <1>2, <1>6 DEF Network, Lose, Duplicate, Reorder, ReceiveError
<1> QED BY <1>3, <1>4, <1>5, <1>6 DEF Next, Host, Finished

LEMMA SentFacts ==
  ASSUME TypeInv
  PROVE  /\ Sent \in Seq(Int) /\ Len(Sent) = SentSize
         /\ \A i \in 1 .. SentSize : Sent[i] = SentByte(i)
<1>1. /\ fileSize \in Nat /\ ClientBlock \in Nat
      /\ loops = 0 => BlocksSent * ClientBlock = ClientBlock
      /\ loops = 0 => loops * ClientBlock = 0
      /\ loops # 0 => BlocksSent = loops
      /\ remainder \in 0 .. ClientBlock - 1
      /\ fileSize = loops * ClientBlock + remainder
      /\ SentSize = BlocksSent * ClientBlock + remainder
  BY FileFacts, ConstantFacts
<1>2. /\ File \in Seq(Int) /\ Len(File) = fileSize
      /\ \A i \in 1 .. fileSize : File[i] = i - 1
  <2>1. File \in Seq(Int)
    BY <1>1 DEF File
  <2> QED BY <1>1, <2>1, LenProperties DEF File
<1>3. CASE loops # 0
  BY <1>1, <1>2, <1>3 DEF Sent, SentByte
<1>4. CASE loops = 0
  <2> DEFINE block == Payload(0, ClientBlock)
  <2>1. /\ block \in Seq(Int) /\ Len(block) = ClientBlock
        /\ \A i \in 1 .. ClientBlock :
             block[i] = IF i <= fileSize THEN i - 1 ELSE Junk
    <3>1. block \in Seq(Int)
      BY <1>1 DEF Payload, Junk
    <3>2. Len(block) = ClientBlock
      BY <1>1, <3>1, LenProperties DEF Payload
    <3>3. \A i \in 1 .. ClientBlock :
             block[i] = IF i <= fileSize THEN i - 1 ELSE Junk
      BY <1>1 DEF Payload
    <3> QED BY <3>1, <3>2, <3>3
  <2> HIDE DEF block
  <2>2. Sent = block \o File /\ SentSize = ClientBlock + fileSize
    <3>1. Sent = block \o File
      BY <1>4 DEF Sent, block
    <3> QED BY <1>1, <1>4, <3>1
  <2>3. /\ Sent \in Seq(Int) /\ Len(Sent) = SentSize
        /\ \A i \in 1 .. SentSize :
             Sent[i] = IF i <= ClientBlock THEN block[i] ELSE File[i - ClientBlock]
    BY <1>2, <2>1, <2>2, ConcatProperties
  <2>4. ASSUME NEW i \in 1 .. SentSize PROVE Sent[i] = SentByte(i)
    <3>1. CASE i <= ClientBlock
      <4>1. i \in 1 .. ClientBlock /\ ~(i > ClientBlock)
        BY <1>1, <2>2, <3>1
      <4> QED BY <1>4, <2>1, <2>3, <3>1, <4>1, Zenon DEF SentByte
    <3>2. CASE ~(i <= ClientBlock)
      <4>1. i - ClientBlock \in 1 .. fileSize /\ i > ClientBlock
        BY <1>1, <2>2, <3>2
      <4>2. Sent[i] = File[i - ClientBlock]
        BY <2>3, <3>2, Zenon
      <4>3. File[i - ClientBlock] = i - ClientBlock - 1
        BY <1>2, <4>1, Zenon
      <4> QED BY <1>4, <4>1, <4>2, <4>3, Zenon DEF SentByte
    <3> QED BY <3>1, <3>2
  <2> QED BY <2>3, <2>4
<1> QED BY <1>3, <1>4

\* Where the network and recvfrom behave, compression_pipeline has been given
\* the file when the host stops, byte for byte, but for the block too many of
\* a file shorter than a block and for the full blocks that "done == 1"
\* strands: for every file and all block sizes of the client and the host
\* (client.cpp and main of host.cpp).
THEOREM PipelineGetsFile == Spec => []WrittenWhenDone
<1>1. ASSUME TypeInv, OrderInv PROVE WrittenWhenDone
  <2> SUFFICES ASSUME done # 0, faults = 0
               PROVE  written = SubSeq(Sent, 1, Len(Sent) - Stranded)
    BY DEF WrittenWhenDone
  <2>1. InOrder /\ StreamInv
    BY <1>1 DEF OrderInv
  <2>2. /\ SentSize \in Nat /\ BlocksSent \in Nat
        /\ remainder \in 0 .. ClientBlock - 1
        /\ SentSize = BlocksSent * ClientBlock + remainder
        /\ Packets = IF remainder = 0 THEN BlocksSent ELSE BlocksSent + 1
        /\ BlocksSent * ClientBlock \in Nat
    BY <1>1, FileFacts
  <2>3. HasTaken(Packets)
    BY <2>1 DEF InOrder, HasTaken
  <2>4. Position(Packets) = SentSize
    BY <2>2 DEF Position
  <2>5. /\ received \in Seq(Bytes) /\ written \in Seq(Bytes)
        /\ Len(received) = SentSize
        /\ \A i \in 1 .. SentSize : received[i] = SentByte(i)
    BY <1>1, <2>3, <2>4 DEF HasTaken, TypeInv
  <2>6. lengthSum = Stranded
    <3>1. CASE remainder = 0 /\ ClientBlock = BlockSize
      <4>1. writer = BlocksSent % NumPackets
        BY <2>2, <2>3, <3>1 DEF HasTaken
      <4> QED BY <2>1, <3>1, <4>1 DEF StreamInv, Stranded
    <3>2. CASE ~(remainder = 0 /\ ClientBlock = BlockSize)
      <4>1. writer = 0
        BY <2>2, <2>3, <3>2 DEF HasTaken
      <4>2. 0 * BlockSize = 0
        BY ConstantFacts
      <4>3. lengthSum = 0
        BY <2>1, <4>1, <4>2 DEF StreamInv
      <4> QED BY <3>2, <4>3, Zenon DEF Stranded
    <3> QED BY <3>1, <3>2
  <2>7. /\ lengthSum \in Nat /\ lengthSum <= BufferSize /\ BufferSize \in Nat
        /\ pipeline \in [1 .. BufferSize -> Bytes]
    BY <1>1, SlotFits, ConstantFacts DEF TypeInv
  <2>8. Pending \in Seq(Bytes) /\ Len(Pending) = lengthSum
    <3>1. \A i \in 1 .. lengthSum : pipeline[i] \in Bytes
      BY <2>7
    <3> QED BY <2>7, <3>1, SubSeqProperties DEF Pending
  <2> DEFINE m == Len(written)
  <2>9. /\ m \in Nat /\ SentSize = m + lengthSum
        /\ \A i \in 1 .. m : written[i] = received[i]
    <3>1. received = written \o Pending
      BY <2>1 DEF StreamInv, ReceivedStream
    <3>2. /\ Len(written \o Pending) = Len(written) + Len(Pending)
          /\ \A i \in 1 .. Len(written) + Len(Pending) :
               (written \o Pending)[i] = IF i <= Len(written) THEN written[i]
                                         ELSE Pending[i - Len(written)]
      BY <2>5, <2>8, ConcatProperties, Zenon
    <3>3. m \in Nat
      BY <2>5, LenProperties
    <3> QED BY <2>5, <2>7, <2>8, <3>1, <3>2, <3>3
  <2> HIDE DEF m
  <2>10. SentSize - Stranded = m /\ m <= SentSize
    BY <2>6, <2>7, <2>9
  <2>11. /\ SubSeq(Sent, 1, m) \in Seq(Int) /\ Len(SubSeq(Sent, 1, m)) = m
         /\ \A i \in 1 .. m : SubSeq(Sent, 1, m)[i] = SentByte(i)
    <3>1. \A i \in 1 .. m : Sent[i] = SentByte(i) /\ Sent[i] \in Int
      BY <1>1, <2>2, <2>9, <2>10, SentFacts, ElementOfSeq
    <3>2. \A i \in 1 .. m : 1 + i - 1 = i
      BY <2>9
    <3> QED BY <2>9, <3>1, <3>2, SubSeqProperties
  <2>12. \A i \in 1 .. m : written[i] = SentByte(i)
    BY <2>2, <2>5, <2>9, <2>10
  <2>13. written \in Seq(Int)
    BY <2>5 DEF Bytes, Junk, Zero
  <2>14. written = SubSeq(Sent, 1, m)
    BY <2>11, <2>12, <2>13, SeqEqual DEF m
  <2> QED BY <1>1, <2>10, <2>14, SentFacts
<1> QED BY <1>1, InitOrder, NextOrder, TypeInvariant, PTL DEF Spec

-----------------------------------------------------------------------------
(* The example receiver: what it writes is what the host is given. *)

RingIds == 0 .. RingSlots - 1

\* The ring's slots are buffers as recvfrom leaves them, and nothing is
\* written to the file before the last packet has come.
RingInv ==
  /\ ring \in [RingIds -> Slots]
  /\ ringWriter \in -1 .. RingSlots
  /\ ringDone = done
  /\ file = received
  /\ outfile # <<>> => outfile = file /\ ringDone # 0

LEMMA RingFacts ==
  /\ RingSlots \in Nat /\ RingSlots > 0
  /\ PipeDepth \in RingIds
  /\ "recv_error" \notin Faults
  BY ReceiverAssumption DEF RingIds

LEMMA NextSlotInRing == RingInv => NextSlot \in RingIds
<1> SUFFICES ASSUME RingInv PROVE NextSlot \in RingIds
  OBVIOUS
<1>1. ringWriter \in -1 .. RingSlots /\ RingSlots \in Nat /\ RingSlots > 0
  BY RingFacts DEF RingInv
<1>2. CASE ringWriter = -1
  BY <1>2, RingFacts DEF NextSlot
<1>3. CASE ringWriter # -1
  BY <1>1, <1>3 DEF NextSlot, RingIds
<1> QED BY <1>2, <1>3

LEMMA InitRing == BothInit => RingInv
<1> SUFFICES ASSUME BothInit PROVE RingInv
  OBVIOUS
<1>1. EmptySlot \in Slots
  BY ConstantFacts DEF EmptySlot, Slots, Headers, LengthField, Bytes
<1>2. ring \in [RingIds -> Slots]
  BY <1>1 DEF BothInit, ReceiverInit, RingIds
<1> QED BY <1>2, RingFacts DEF BothInit, Init, ReceiverInit, RingInv

\* A step of both programs is a step of the host, or of the receiver alone.
LEMMA BothSteps == [BothNext]_bothVars => [Next]_vars
  BY DEF BothNext, BothReceive, WriteFile, bothVars, vars, Next, Host

\* The receiver takes the payload and the done bit the host takes.
LEMMA ReceiveRing ==
  ASSUME TypeInv, RingInv, BothReceive PROVE RingInv'
<1> DEFINE d == Head(net)
           slot == Filled(ring[NextSlot], d)
           hostSlot == Filled(input[writer], d)
<1>1. /\ d \in Datagrams
      /\ input[writer] \in Slots
  BY HeadTailProperties DEF BothReceive, Receive, TypeInv
<1>2. NextSlot \in RingIds /\ ring[NextSlot] \in Slots
  BY NextSlotInRing DEF RingInv
<1>3. /\ slot \in Slots
      /\ DoneField(slot.header) = DoneField(d.header)
      /\ SubSeq(slot.data, 1, LengthField(slot.header)) = d.data
  BY <1>1, <1>2, FilledType, FilledPayload
<1>4. DoneField(hostSlot.header) = DoneField(d.header)
  BY <1>1, FilledType
<1>5. /\ ring' = [ring EXCEPT ![NextSlot] = slot]
      /\ ringWriter' = NextSlot + 1
      /\ ringDone' = DoneField(slot.header)
      /\ file' = file \o SubSeq(slot.data, 1, LengthField(slot.header))
      /\ outfile' = outfile /\ ringDone = 0
  BY DEF BothReceive, ReceiveToFile, Store
<1>6. /\ done' = DoneField(hostSlot.header)
      /\ received' = received \o d.data
  BY DEF BothReceive, Receive, HandleBuffer
<1> HIDE DEF d, slot, hostSlot
<1>7. ring' \in [RingIds -> Slots]
  BY <1>2, <1>3, <1>5 DEF RingInv
<1>8. ringWriter' \in -1 .. RingSlots
  BY <1>2, <1>5, RingFacts DEF RingIds
<1>9. ringDone' = done'
  BY <1>3, <1>4, <1>5, <1>6, Zenon
<1>10. file' = received'
  BY <1>3, <1>5, <1>6, Zenon DEF RingInv
<1>11. outfile' = <<>>
  BY <1>5 DEF RingInv
<1> QED BY <1>7, <1>8, <1>9, <1>10, <1>11 DEF RingInv

LEMMA NextRing == TypeInv /\ RingInv /\ [BothNext]_bothVars => RingInv'
<1> SUFFICES ASSUME TypeInv, RingInv, [BothNext]_bothVars PROVE RingInv'
  OBVIOUS
<1>1. CASE (Client \/ Network \/ Finished) /\ UNCHANGED receiverVars
  <2>1. UNCHANGED <<done, received>>
    BY <1>1 DEF Client, SendBlock, SendLastBlock, SendBlockBeforeRest,
        SendRemainder, Send, Network, Lose, Duplicate, Reorder, Finished,
        vars, hostVars
  <2> QED BY <1>1, <2>1 DEF RingInv, receiverVars
<1>2. CASE BothReceive
  BY <1>2, ReceiveRing
<1>3. CASE WriteFile
  BY <1>3 DEF WriteFile, RingInv, vars, hostVars
<1>4. CASE UNCHANGED bothVars
  BY <1>4 DEF bothVars, receiverVars, vars, hostVars, RingInv
<1> QED BY <1>1, <1>2, <1>3, <1>4 DEF BothNext

\* The example receiver and the host make the same of the same datagrams,
\* whatever the network does to them and whatever ring they are gathered in:
\* the file written is what was handed to the pipeline and what waits for it.
THEOREM ReceiversAgree == BothSpec => []SameBytes
<1>1. BothInit => Init
  BY DEF BothInit
<1>2. BothSpec => []TypeInv /\ []StreamInv
  BY <1>1, BothSteps, InitType, NextType, InitStream, NextStream, RingFacts, PTL
     DEF BothSpec
<1>3. StreamInv /\ RingInv => SameBytes
  BY DEF StreamInv, ReceivedStream, RingInv, SameBytes
<1> QED BY <1>2, <1>3, InitRing, NextRing, PTL DEF BothSpec
=============================================================================
