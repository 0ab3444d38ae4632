---------------------------- MODULE CodingProofs ----------------------------
(***************************************************************************)
(* Two pure algorithms.  What create_packet packs, Read_code reads: each   *)
(* round of the packing puts the parts of a code into bytes that later     *)
(* rounds leave alone, and the reader's bits, taken together, are the      *)
(* parts again; for the cases of 13 bits and those of 12, and for every    *)
(* sequence of codes.  And the reference encoding, whose dictionary has    *)
(* words for keys, goes in step with a coder whose keys are the code of a  *)
(* word and a byte (Radix is the reference encoding's only).               *)
(***************************************************************************)
EXTENDS BitPacking, GoldenLZW, SequenceTheorems, WellFoundedInduction, TLAPS

-----------------------------------------------------------------------------
(* Powers of two and remainders *)

LEMMA NumbersInSet ==
  ASSUME NEW T, 0 \in T, \A n \in Nat : n \in T => n + 1 \in T
  PROVE  \A n \in Nat : n \in T
<1> DEFINE S == {n \in Nat : n \notin T}
<1>1. SUFFICES ASSUME S # {} PROVE FALSE
  OBVIOUS
<1>2. PICK x \in S : \A y \in S : ~(<<y, x>> \in OpToRel(<, Nat))
  BY <1>1, NatLessThanWellFounded, WFMin, S \subseteq Nat
<1>3. x \in Nat /\ x \notin T /\ x # 0
  OBVIOUS
<1>4. x - 1 \in Nat /\ (x - 1) + 1 = x
  BY <1>3
<1>5. x - 1 \in T
  <2> SUFFICES ASSUME x - 1 \notin T PROVE FALSE
    OBVIOUS
  <2>1. x - 1 \in S
    BY <1>4
  <2>2. <<x - 1, x>> \in OpToRel(<, Nat)
    BY <1>3, <1>4 DEF OpToRel
  <2> QED BY <1>2, <2>1, <2>2
<1> QED BY <1>3, <1>4, <1>5

\* The powers that the shifts of 13-bit codes need.
Pow(n) == 2 ^ n

LEMMA Powers ==
  /\ Pow(0) = 1 /\ Pow(8) = 256
  /\ \A n \in 0 .. 13 : Pow(n) \in Nat /\ Pow(n) > 0
  /\ \A n \in 0 .. 12 : Pow(n + 1) = 2 * Pow(n)
BY SMT DEF Pow

LEMMA PowerOfSum ==
  ASSUME NEW a \in Nat, NEW b \in Nat, a + b <= 13
  PROVE  Pow(a + b) = Pow(a) * Pow(b)
<1> DEFINE T == {n \in Nat : a + n <= 13 => Pow(a + n) = Pow(a) * Pow(n)}
<1>1. 0 \in T
  <2> SUFFICES ASSUME a + 0 <= 13 PROVE Pow(a + 0) = Pow(a) * Pow(0)
    OBVIOUS
  <2> QED BY Powers
<1>2. ASSUME NEW n \in Nat, n \in T PROVE n + 1 \in T
  <2> SUFFICES ASSUME a + (n + 1) <= 13 PROVE Pow(a + (n + 1)) = Pow(a) * Pow(n + 1)
    OBVIOUS
  <2>1. a + n \in 0 .. 12 /\ n \in 0 .. 12 /\ a \in 0 .. 13
    OBVIOUS
  <2>2. /\ Pow((a + n) + 1) = 2 * Pow(a + n) /\ Pow(n + 1) = 2 * Pow(n)
        /\ Pow(a + n) = Pow(a) * Pow(n)
    BY <2>1, <1>2, Powers
  <2>3. Pow(a) \in Nat /\ Pow(n) \in Nat /\ (a + n) + 1 = a + (n + 1)
    BY <2>1, Powers
  <2>4. \A x, y \in Nat : x * (2 * y) = 2 * (x * y)
    BY SMT
  <2> QED BY <2>2, <2>3, <2>4
<1> HIDE DEF T
<1>3. \A n \in Nat : n \in T
  BY <1>1, <1>2, NumbersInSet
<1> QED BY <1>3 DEF T

LEMMA DivisionUnique ==
  ASSUME NEW b \in Nat, b > 0, NEW q \in Int, NEW r \in 0 .. b - 1
  PROVE  (b * q + r) \div b = q /\ (b * q + r) % b = r
<1> DEFINE p == (b * q + r) \div b
           s == (b * q + r) % b
<1>1. b * q \in Int /\ b * q + r \in Int
  BY SMT
<1>2. p \in Int /\ s \in 0 .. b - 1 /\ b * q + r = b * p + s
  BY <1>1, SMT
<1> HIDE DEF p, s
<1>3. ~(p > q)
  <2> SUFFICES ASSUME p > q PROVE FALSE
    OBVIOUS
  <2>1. b * p >= b * q + b
    BY <1>2, SMT
  <2> QED BY <2>1, <1>1, <1>2
<1>4. ~(q > p)
  <2> SUFFICES ASSUME q > p PROVE FALSE
    OBVIOUS
  <2>1. b * q >= b * p + b
    BY <1>2, SMT
  <2> QED BY <2>1, <1>1, <1>2
<1>5. p = q
  BY <1>2, <1>3, <1>4
<1>6. s = r
  BY <1>1, <1>2, <1>5
<1> QED BY <1>5, <1>6 DEF p, s

LEMMA DivisionBounds ==
  ASSUME NEW v \in Nat, NEW b \in Nat, b > 0
  PROVE  /\ v \div b \in Nat /\ v % b \in 0 .. b - 1 /\ v = b * (v \div b) + (v % b)
         /\ b * (v \div b) \in Nat
<1>1. v \div b \in Int /\ v % b \in 0 .. b - 1 /\ v = b * (v \div b) + (v % b)
  BY SMT
<1>2. v \div b >= 0
  <2> DEFINE q == v \div b
             r == v % b
  <2>1. q \in Int /\ r \in 0 .. b - 1 /\ v = b * q + r
    BY <1>1
  <2> HIDE DEF q, r
  <2>2. q >= 0
    <3> SUFFICES ASSUME q < 0 PROVE FALSE
      BY <2>1
    <3>1. b * q + b <= 0
      BY <2>1, SMT
    <3>2. b * q \in Int
      BY <2>1, SMT
    <3> QED BY <2>1, <3>1, <3>2
  <2> QED BY <2>2 DEF q
<1>3. v \div b \in Nat
  BY <1>1, <1>2
<1> DEFINE q == v \div b
<1> HIDE DEF q
<1>4. q \in Nat => b * q \in Nat
  BY SMT
<1> QED BY <1>1, <1>3, <1>4 DEF q

\* Dividing twice, and the remainder of a quotient.
LEMMA DivideTwice ==
  ASSUME NEW v \in Nat, NEW a \in Nat, a > 0, NEW b \in Nat, b > 0
  PROVE  v \div (a * b) = (v \div a) \div b
<1> DEFINE q == v \div a
           r == v % a
           p == q \div b
           s == q % b
<1>1. q \in Nat /\ r \in 0 .. a - 1 /\ v = a * q + r
  BY DivisionBounds
<1> HIDE DEF q, r
<1>2. p \in Nat /\ s \in 0 .. b - 1 /\ q = b * p + s
  BY <1>1, DivisionBounds
<1> HIDE DEF p, s
<1>3. a * b \in Nat /\ a * b > 0
  BY SMT
<1>4. v = (a * b) * p + (a * s + r)
  BY <1>1, <1>2, SMT
<1>5. a * s + r \in 0 .. a * b - 1
  <2>1. a * s + a <= a * b /\ a * s \in Nat
    BY <1>2, SMT
  <2> QED BY <2>1, <1>1, <1>3
<1> DEFINE m == a * b
           t == a * s + r
<1>6. m \in Nat /\ m > 0 /\ t \in 0 .. m - 1 /\ v = m * p + t
  BY <1>3, <1>4, <1>5
<1> HIDE DEF m, t
<1>7. v \div m = p
  BY <1>2, <1>6, DivisionUnique
<1> QED BY <1>7 DEF p, q, m

\* One bit more of a number.
LEMMA OneBitMore ==
  ASSUME NEW z \in Nat, NEW e \in Nat, e > 0
  PROVE  z % (2 * e) = 2 * ((z \div 2) % e) + (z % 2)
<1> DEFINE q == z \div 2
           b == z % 2
           p == q \div e
           s == q % e
<1>1. q \in Nat /\ b \in 0 .. 1 /\ z = 2 * q + b
  BY SMT
<1> HIDE DEF q, b
<1>2. p \in Nat /\ s \in 0 .. e - 1 /\ q = e * p + s /\ e * p \in Nat
  BY <1>1, DivisionBounds
<1> HIDE DEF p, s
<1>3. z = (2 * e) * p + (2 * s + b)
  <2>1. (2 * e) * p = 2 * (e * p)
    BY <1>2, SMT
  <2> QED BY <2>1, <1>1, <1>2
<1>4. 2 * s + b \in 0 .. 2 * e - 1 /\ 2 * e \in Nat /\ 2 * e > 0
  BY <1>1, <1>2
<1> DEFINE m == 2 * e
           t == 2 * s + b
<1>5. m \in Nat /\ m > 0 /\ t \in 0 .. m - 1 /\ z = m * p + t /\ p \in Int
  BY <1>2, <1>3, <1>4
<1> HIDE DEF m, t
<1>6. z % m = t
  BY <1>5, DivisionUnique
<1> QED BY <1>6 DEF b, q, s, m, t

-----------------------------------------------------------------------------
(* How the cases cut a code *)

Octet == 0 .. 255

\* The parts p cut a code of so many bits, from the highest down to the
\* lowest: the first fills the l bits that are left, or a byte, the others
\* begin bytes, and all but the last fill them.
CutFor(p, left, l, width) ==
  /\ Len(p) \in 2 .. 3
  /\ \A t \in 1 .. Len(p) : p[t].shift \in 0 .. 12 /\ p[t].bits \in 1 .. 8 /\ p[t].up \in 0 .. 7
  /\ p[1].bits = (IF l = 0 THEN 8 ELSE l) /\ p[1].shift + p[1].bits = width
  /\ \A t \in 2 .. Len(p) :
       p[t].up + p[t].bits = 8 /\ p[t].shift + p[t].bits = p[t - 1].shift
  /\ \A t \in 1 .. Len(p) - 1 : p[t].up = 0
  /\ p[Len(p)].up = left /\ p[Len(p)].shift = 0
  /\ width = 8 * (Len(p) - 1) + p[1].bits - left

WellCut(cases, width, lefts) ==
  /\ width \in 8 .. 13 /\ lefts \subseteq 0 .. 7 /\ 0 \in lefts
  /\ \A l \in lefts : cases[l + 1].left \in lefts
                        /\ CutFor(cases[l + 1].parts, cases[l + 1].left, l, width)

LEMMA CutInTwo ==
  ASSUME NEW b \in 1 .. 8, NEW c \in 1 .. 8, NEW l \in 0 .. 7, b = (IF l = 0 THEN 8 ELSE l),
         NEW u \in 0 .. 7, u + c = 8
  PROVE  CutFor(<<Part(c, b, 0), Part(0, c, u)>>, u, l, b + c)
<1> DEFINE p == <<Part(c, b, 0), Part(0, c, u)>>
<1>1. /\ Len(p) = 2 /\ p[1].shift = c /\ p[1].bits = b /\ p[1].up = 0
      /\ p[2].shift = 0 /\ p[2].bits = c /\ p[2].up = u
  BY DEF Part
<1> HIDE DEF p
<1>2. CutFor(p, u, l, b + c)
  BY <1>1 DEF CutFor
<1> QED BY <1>2 DEF p

LEMMA CutInThree ==
  ASSUME NEW b \in 1 .. 8, NEW c \in 1 .. 4, NEW l \in 1 .. 7, b = l,
         NEW u \in 0 .. 7, u + c = 8
  PROVE  CutFor(<<Part(8 + c, b, 0), Part(c, 8, 0), Part(0, c, u)>>, u, l, b + 8 + c)
<1> DEFINE p == <<Part(8 + c, b, 0), Part(c, 8, 0), Part(0, c, u)>>
<1>1. /\ Len(p) = 3 /\ p[1].shift = 8 + c /\ p[1].bits = b /\ p[1].up = 0
      /\ p[2].shift = c /\ p[2].bits = 8 /\ p[2].up = 0
      /\ p[3].shift = 0 /\ p[3].bits = c /\ p[3].up = u
  BY DEF Part
<1> HIDE DEF p
<1>2. CutFor(p, u, l, b + 8 + c)
  BY <1>1 DEF CutFor
<1> QED BY <1>2 DEF p

\* The eight cases of host.cpp cut a code of 13 bits.
LEMMA Cut13 == WellCut(Cases13, 13, 0 .. 7)
<1> SUFFICES ASSUME NEW l \in 0 .. 7
             PROVE  /\ Cases13[l + 1].left \in 0 .. 7
                    /\ CutFor(Cases13[l + 1].parts, Cases13[l + 1].left, l, 13)
  BY DEF WellCut
<1>1. CASE l = 0
  <2>1. Cases13[1] = [parts |-> <<Part(5, 8, 0), Part(0, 5, 3)>>,
                         left |-> 3]
    BY DEF Cases13
  <2>2. CutFor(<<Part(5, 8, 0), Part(0, 5, 3)>>, 3, 0, 13)
    BY CutInTwo
  <2> QED BY <1>1, <2>1, <2>2
<1>2. CASE l = 1
  <2>1. Cases13[2] = [parts |-> <<Part(12, 1, 0), Part(4, 8, 0), Part(0, 4, 4)>>,
                         left |-> 4]
    BY DEF Cases13
  <2>2. CutFor(<<Part(12, 1, 0), Part(4, 8, 0), Part(0, 4, 4)>>, 4, 1, 13)
    BY CutInThree
  <2> QED BY <1>2, <2>1, <2>2
<1>3. CASE l = 2
  <2>1. Cases13[3] = [parts |-> <<Part(11, 2, 0), Part(3, 8, 0), Part(0, 3, 5)>>,
                         left |-> 5]
    BY DEF Cases13
  <2>2. CutFor(<<Part(11, 2, 0), Part(3, 8, 0), Part(0, 3, 5)>>, 5, 2, 13)
    BY CutInThree
  <2> QED BY <1>3, <2>1, <2>2
<1>4. CASE l = 3
  <2>1. Cases13[4] = [parts |-> <<Part(10, 3, 0), Part(2, 8, 0), Part(0, 2, 6)>>,
                         left |-> 6]
    BY DEF Cases13
  <2>2. CutFor(<<Part(10, 3, 0), Part(2, 8, 0), Part(0, 2, 6)>>, 6, 3, 13)
    BY CutInThree
  <2> QED BY <1>4, <2>1, <2>2
<1>5. CASE l = 4
  <2>1. Cases13[5] = [parts |-> <<Part(9, 4, 0), Part(1, 8, 0), Part(0, 1, 7)>>,
                         left |-> 7]
    BY DEF Cases13
  <2>2. CutFor(<<Part(9, 4, 0), Part(1, 8, 0), Part(0, 1, 7)>>, 7, 4, 13)
    BY CutInThree
  <2> QED BY <1>5, <2>1, <2>2
<1>6. CASE l = 5
  <2>1. Cases13[6] = [parts |-> <<Part(8, 5, 0), Part(0, 8, 0)>>,
                         left |-> 0]
    BY DEF Cases13
  <2>2. CutFor(<<Part(8, 5, 0), Part(0, 8, 0)>>, 0, 5, 13)
    BY CutInTwo
  <2> QED BY <1>6, <2>1, <2>2
<1>7. CASE l = 6
  <2>1. Cases13[7] = [parts |-> <<Part(7, 6, 0), Part(0, 7, 1)>>,
                         left |-> 1]
    BY DEF Cases13
  <2>2. CutFor(<<Part(7, 6, 0), Part(0, 7, 1)>>, 1, 6, 13)
    BY CutInTwo
  <2> QED BY <1>7, <2>1, <2>2
<1>8. CASE l = 7
  <2>1. Cases13[8] = [parts |-> <<Part(6, 7, 0), Part(0, 6, 2)>>,
                         left |-> 2]
    BY DEF Cases13
  <2>2. CutFor(<<Part(6, 7, 0), Part(0, 6, 2)>>, 2, 7, 13)
    BY CutInTwo
  <2> QED BY <1>8, <2>1, <2>2
<1> QED BY <1>1, <1>2, <1>3, <1>4, <1>5, <1>6, <1>7, <1>8

\* The two cases of main.cpp cut a code of 12 bits.
LEMMA Cut12 == WellCut(Cases12, 12, {0, 4})
<1> SUFFICES ASSUME NEW l \in {0, 4}
             PROVE  /\ Cases12[l + 1].left \in {0, 4}
                    /\ CutFor(Cases12[l + 1].parts, Cases12[l + 1].left, l, 12)
  BY DEF WellCut
<1>1. CASE l = 0
  <2>1. Cases12[1] = [parts |-> <<Part(4, 8, 0), Part(0, 4, 4)>>,
                         left |-> 4]
    BY DEF Cases12
  <2>2. CutFor(<<Part(4, 8, 0), Part(0, 4, 4)>>, 4, 0, 12)
    BY CutInTwo
  <2> QED BY <1>1, <2>1, <2>2
<1>2. CASE l = 4
  <2>1. Cases12[5] = [parts |-> <<Part(8, 4, 0), Part(0, 8, 0)>>,
                         left |-> 0]
    BY DEF Cases12
  <2>2. CutFor(<<Part(8, 4, 0), Part(0, 8, 0)>>, 0, 4, 12)
    BY CutInTwo
  <2> QED BY <1>2, <2>1, <2>2
<1> QED BY <1>1, <1>2

-----------------------------------------------------------------------------
(* Writing a code *)

\* What a part leaves in its byte.
LEMMA PartFacts ==
  ASSUME NEW v \in Nat, NEW a, a.shift \in 0 .. 12, a.bits \in 1 .. 8, a.up \in 0 .. 7,
         a.up + a.bits <= 8
  PROVE  /\ PartOf(v, a) \in Octet
         /\ (PartOf(v, a) \div Pow(a.up)) % Pow(a.bits) = (v \div Pow(a.shift)) % Pow(a.bits)
         /\ PartOf(v, a) % Pow(a.up) = 0
         /\ a.up = 0 => PartOf(v, a) \in 0 .. Pow(a.bits) - 1
                          /\ PartOf(v, a) = (v \div Pow(a.shift)) % Pow(a.bits)
<1> DEFINE A == Pow(a.shift)
           B == Pow(a.bits)
           U == Pow(a.up)
           m == (v \div A) % B
<1>1. A \in Nat /\ A > 0 /\ B \in Nat /\ B > 0 /\ U \in Nat /\ U > 0
  BY Powers
<1>2. U * B <= 256
  <2>1. Pow(a.up + a.bits) = U * B
    BY PowerOfSum
  <2>2. \A n \in 0 .. 8 : Pow(n) <= 256
    <3> TAKE n \in 0 .. 8
    <3>1. n + (8 - n) = 8 /\ Pow(n + (8 - n)) = Pow(n) * Pow(8 - n)
      BY PowerOfSum
    <3>2. Pow(n) \in Nat /\ Pow(8 - n) \in Nat /\ Pow(8 - n) > 0
      BY Powers
    <3>3. \A x, y \in Nat : y > 0 => x * y >= x
      BY SMT
    <3> QED BY <3>1, <3>2, <3>3, Powers
  <2>3. a.up + a.bits \in 0 .. 8
    OBVIOUS
  <2> QED BY <2>1, <2>2, <2>3
<1>3. a.up = 0 => U = 1
  BY Powers
<1>4. PartOf(v, a) = m * U
  BY Zenon DEF PartOf, Pow
<1> HIDE DEF A, B, U
<1>5. v \div A \in Nat
  BY <1>1, DivisionBounds
<1>6. m \in 0 .. B - 1
  BY <1>1, <1>5, DivisionBounds
<1> HIDE DEF m
<1>7. m * U \in Nat /\ m * U + U <= U * B /\ m * U = U * m + 0
  BY <1>1, <1>6, SMT
<1>8. (U * m + 0) \div U = m /\ (U * m + 0) % U = 0
  <2>1. m \in Int /\ 0 \in 0 .. U - 1
    BY <1>1, <1>6
  <2> QED BY <1>1, <2>1, DivisionUnique
<1>9. m % B = m
  BY <1>1, <1>6
<1>10. m * U \in Octet
  BY <1>1, <1>2, <1>7 DEF Octet
<1>11. a.up = 0 => m * U = m
  BY <1>3, <1>6
<1> QED BY <1>4, <1>6, <1>7, <1>8, <1>9, <1>10, <1>11, Zenon DEF m, A, B, U

\* Adding to a byte whose low bits are free.
LEMMA FreeBits ==
  ASSUME NEW l \in 0 .. 7, NEW b \in Octet, b % Pow(l) = 0, NEW e \in 0 .. Pow(l) - 1
  PROVE  /\ b + e \in Octet /\ (b + e) \div Pow(l) = b \div Pow(l) /\ (b + e) % Pow(l) = e
<1> DEFINE D == Pow(l)
           C == Pow(8 - l)
           m == b \div D
<1>1. D \in Nat /\ D > 0 /\ C \in Nat /\ C > 0
  BY Powers
<1>2. D * C = 256
  <2>1. Pow(l + (8 - l)) = D * C
    BY PowerOfSum
  <2>2. l + (8 - l) = 8 /\ Pow(8) = 256
    BY Powers
  <2> QED BY <2>1, <2>2
<1>3. b % D = 0 /\ e \in 0 .. D - 1
  OBVIOUS
<1> HIDE DEF D, C
<1>4. m \in Nat /\ b = D * m
  <2>1. b \in Nat
    BY DEF Octet
  <2>2. b \div D \in Nat /\ b = D * (b \div D) + (b % D)
    BY <1>1, <2>1, DivisionBounds
  <2> QED BY <1>3, <2>2, <1>1
<1> HIDE DEF m
<1>5. m < C
  <2> SUFFICES ASSUME m >= C PROVE FALSE
    BY <1>1, <1>4
  <2>1. D * m >= D * C
    BY <1>1, <1>4, SMT
  <2> QED BY <2>1, <1>2, <1>4 DEF Octet
<1>6. D * m + D <= D * C /\ D * m \in Nat
  BY <1>1, <1>4, <1>5, SMT
<1>7. b + e \in Octet
  BY <1>1, <1>2, <1>3, <1>4, <1>6 DEF Octet
<1>8. (D * m + e) \div D = m /\ (D * m + e) % D = e
  BY <1>1, <1>3, <1>4, DivisionUnique
<1> QED BY <1>4, <1>7, <1>8 DEF m, D

\* The bytes from the one that holds bit x of the data have the parts of v.
Carries(data, x, p, v) ==
  \A t \in 1 .. Len(p) :
    /\ (x \div 8) + t \in 1 .. Len(data)
    /\ (data[(x \div 8) + t] \div Pow(p[t].up)) % Pow(p[t].bits)
         = (v \div Pow(p[t].shift)) % Pow(p[t].bits)

\* The data is x bits, behind which l bits of the last byte are free.
Filled(data, l, x) ==
  /\ data \in Seq(Octet) /\ 8 * Len(data) - l = x
  /\ l # 0 => Len(data) >= 1 /\ data[Len(data)] % Pow(l) = 0

\* The bits of a are also in b.
Keeps(a, b, l) ==
  /\ Len(a) <= Len(b)
  /\ \A n \in 1 .. Len(a) : n < Len(a) => b[n] = a[n]
  /\ Len(a) >= 1 => b[Len(a)] \div Pow(l) = a[Len(a)] \div Pow(l)

\* A round of create_packet's loop.
LEMMA PutStep ==
  ASSUME NEW cases, NEW width, NEW lefts, WellCut(cases, width, lefts),
         NEW l \in lefts, NEW data, NEW x \in Nat, Filled(data, l, x), NEW v \in Nat,
         NEW s, s = Put(cases, [data |-> data, left |-> l], v)
  PROVE  /\ s = [data |-> s.data, left |-> s.left] /\ s.left \in lefts
         /\ Filled(s.data, s.left, x + width) /\ Keeps(data, s.data, l)
         /\ Carries(s.data, x, cases[l + 1].parts, v)
         /\ (x \div 8) + Len(cases[l + 1].parts) = Len(s.data)
         /\ cases[l + 1].parts[Len(cases[l + 1].parts)].up = s.left
<1> DEFINE p == cases[l + 1].parts
           left == cases[l + 1].left
           n == Len(p)
           size == Len(data)
           e(t) == PartOf(v, p[t])
           joined == IF l = 0 THEN Append(data, e(1)) ELSE [data EXCEPT ![size] = @ + e(1)]
           rest == [t \in 1 .. n - 1 |-> e(t + 1)]
           q == (x \div 8) + 1
<1>1. /\ l \in 0 .. 7 /\ left \in lefts /\ left \in 0 .. 7 /\ width \in 8 .. 13
      /\ CutFor(p, left, l, width)
  BY DEF WellCut
<1>2. /\ n \in 2 .. 3 /\ p[1].bits = (IF l = 0 THEN 8 ELSE l)
      /\ p[n].up = left /\ width = 8 * (n - 1) + p[1].bits - left
      /\ \A t \in 1 .. n : /\ p[t].shift \in 0 .. 12 /\ p[t].bits \in 1 .. 8
                             /\ p[t].up \in 0 .. 7 /\ p[t].up + p[t].bits <= 8
      /\ p[1].up = 0
  <2>0. n \in 2 .. 3
    BY <1>1, Zenon DEF CutFor
  <2>1. n \in 2 .. 3 /\ 1 \in 1 .. n - 1 /\ 1 \in 1 .. n
    <3> HIDE DEF n
    <3> QED BY <2>0
  <2>2. ASSUME NEW t \in 1 .. n
        PROVE  /\ p[t].shift \in 0 .. 12 /\ p[t].bits \in 1 .. 8
               /\ p[t].up \in 0 .. 7 /\ p[t].up + p[t].bits <= 8
    <3>1. p[t].shift \in 0 .. 12 /\ p[t].bits \in 1 .. 8 /\ p[t].up \in 0 .. 7
      BY <1>1 DEF CutFor
    <3>2. CASE t = 1
      <4>1. p[1].up = 0
        BY <1>1, <2>1 DEF CutFor
      <4> QED BY <3>1, <3>2, <4>1
    <3>3. CASE t # 1
      <4>1. t \in 2 .. n
        BY <3>3
      <4>2. p[t].up + p[t].bits = 8
        BY <1>1, <4>1 DEF CutFor
      <4> QED BY <3>1, <4>2
    <3> QED BY <3>2, <3>3
  <2> QED BY <1>1, <2>1, <2>2 DEF CutFor
<1> HIDE DEF p, left
<1>3. /\ data \in Seq(Octet) /\ size \in Nat /\ 8 * size - l = x
      /\ l # 0 => size >= 1 /\ data[size] % Pow(l) = 0
  BY LenProperties DEF Filled
<1>4. \A t \in 1 .. n :
        /\ e(t) \in Octet
        /\ (e(t) \div Pow(p[t].up)) % Pow(p[t].bits)
             = (v \div Pow(p[t].shift)) % Pow(p[t].bits)
        /\ e(t) % Pow(p[t].up) = 0
        /\ p[t].up = 0 => e(t) \in 0 .. Pow(p[t].bits) - 1
                            /\ e(t) = (v \div Pow(p[t].shift)) % Pow(p[t].bits)
  BY <1>2, PartFacts
<1>5. s = [data |-> joined \o rest, left |-> left]
  BY Zenon DEF Put, p, left
<1>6. 1 \in 1 .. n /\ n \in 1 .. n /\ n \in Nat
  BY <1>2
<1> HIDE DEF n, size
<1>7. /\ q \in Nat /\ q >= 1 /\ size <= q /\ q <= size + 1 /\ 8 * q = x + p[1].bits
      /\ (l = 0 => q = size + 1) /\ (l # 0 => q = size)
  <2> DEFINE b == p[1].bits
             y == x \div 8
  <2>1. b = (IF l = 0 THEN 8 ELSE l)
    BY <1>2
  <2>2. /\ l = 0 => y = size
        /\ l # 0 => y = size - 1
    BY <1>1, <1>3, SMT
  <2> HIDE DEF b, y
  <2>3. /\ y + 1 \in Nat /\ y + 1 >= 1 /\ size <= y + 1 /\ y + 1 <= size + 1
        /\ 8 * (y + 1) = x + b
        /\ (l = 0 => y + 1 = size + 1) /\ (l # 0 => y + 1 = size)
    BY <2>1, <2>2, <1>1, <1>3
  <2> QED BY <2>3 DEF b, y
<1> HIDE DEF e, joined, q
<1>8. /\ joined \in Seq(Octet) /\ Len(joined) = q
      /\ \A b \in 1 .. size : b < size => joined[b] = data[b]
      /\ size >= 1 => joined[size] \div Pow(l) = data[size] \div Pow(l)
      /\ joined[q] % Pow(p[1].bits) = e(1)
  <2>1. CASE l = 0
    <3>1. joined = Append(data, e(1)) /\ e(1) \in Octet
      BY <2>1, <1>4, <1>6 DEF joined
    <3>2. /\ joined \in Seq(Octet) /\ Len(joined) = size + 1 /\ joined[size + 1] = e(1)
          /\ \A b \in 1 .. size : joined[b] = data[b]
      BY <3>1, <1>3, AppendProperties DEF size
    <3>3. e(1) % Pow(p[1].bits) = e(1)
      <4>1. e(1) \in 0 .. Pow(p[1].bits) - 1
        BY <1>2, <1>4, <1>6
      <4>2. Pow(p[1].bits) \in Nat /\ Pow(p[1].bits) > 0
        BY <2>1, <1>2, Powers
      <4> QED BY <4>1, <4>2
    <3>4. size >= 1 => size \in 1 .. size
      BY <1>3
    <3> QED BY <2>1, <3>2, <3>3, <3>4, <1>7
  <2>2. CASE l # 0
    <3>1. joined = [data EXCEPT ![size] = data[size] + e(1)] /\ size \in 1 .. size
      BY <2>2, <1>3 DEF joined
    <3>2. data[size] \in Octet
      BY <3>1, <1>3, ElementOfSeq DEF size
    <3>3. e(1) \in 0 .. Pow(l) - 1 /\ p[1].bits = l
      BY <2>2, <1>2, <1>4, <1>6
    <3>4. /\ data[size] + e(1) \in Octet
          /\ (data[size] + e(1)) \div Pow(l) = data[size] \div Pow(l)
          /\ (data[size] + e(1)) % Pow(l) = e(1)
      BY <2>2, <3>2, <3>3, <1>1, <1>3, FreeBits
    <3>5. /\ joined \in Seq(Octet) /\ Len(joined) = size
          /\ joined[size] = data[size] + e(1)
          /\ \A b \in 1 .. size : b # size => joined[b] = data[b]
      BY <3>1, <3>4, <1>3, ExceptSeq DEF size
    <3> QED BY <2>2, <3>3, <3>4, <3>5, <1>3, <1>7
  <2> QED BY <2>1, <2>2
<1>9. /\ rest \in Seq(Octet) /\ Len(rest) = n - 1
      /\ \A t \in 1 .. n - 1 : rest[t] = e(t + 1)
  <2>1. \A t \in 1 .. n - 1 : t + 1 \in 1 .. n
    BY <1>6
  <2>2. \A t \in 1 .. n - 1 : e(t + 1) \in Octet
    BY <2>1, <1>4
  <2>3. n - 1 \in Nat
    BY <1>6
  <2> QED BY <2>2, <2>3
<1> HIDE DEF rest
<1> DEFINE d == joined \o rest
<1>10. /\ d \in Seq(Octet) /\ Len(d) = q + (n - 1)
       /\ \A b \in 1 .. q + (n - 1) : d[b] = IF b <= q THEN joined[b] ELSE rest[b - q]
  <2>1. /\ joined \o rest \in Seq(Octet) /\ Len(joined \o rest) = Len(joined) + Len(rest)
        /\ \A b \in 1 .. Len(joined) + Len(rest) :
             (joined \o rest)[b] = IF b <= Len(joined) THEN joined[b] ELSE rest[b - Len(joined)]
    BY <1>8, <1>9, ConcatProperties
  <2>2. Len(joined) = q /\ Len(rest) = n - 1
    BY <1>8, <1>9
  <2> QED BY <2>1, <2>2, Zenon
<1> HIDE DEF d
<1>11. Keeps(data, d, l)
  <2>1. \A b \in 1 .. size : b \in 1 .. q + (n - 1) /\ b <= q
    BY <1>3, <1>6, <1>7
  <2>2. \A b \in 1 .. size : d[b] = joined[b]
    BY <2>1, <1>10
  <2>3. size <= Len(d) /\ (size >= 1 => size \in 1 .. size)
    BY <1>3, <1>6, <1>7, <1>10
  <2> QED BY <2>2, <2>3, <1>8 DEF Keeps, size
<1>12. /\ d[q] = joined[q]
       /\ \A t \in 2 .. n : d[q + (t - 1)] = e(t)
  <2>1. q \in 1 .. q + (n - 1)
    BY <1>6, <1>7
  <2>2. ASSUME NEW t \in 2 .. n PROVE d[q + (t - 1)] = e(t)
    <3>1. /\ q + (t - 1) \in 1 .. q + (n - 1) /\ ~(q + (t - 1) <= q)
          /\ (q + (t - 1)) - q = t - 1 /\ t - 1 \in 1 .. n - 1 /\ (t - 1) + 1 = t
      BY <1>6, <1>7
    <3> QED BY <3>1, <1>9, <1>10
  <2> QED BY <2>1, <2>2, <1>7, <1>10
<1>13. Filled(d, left, x + width)
  <2>1. 8 * Len(d) - left = x + width /\ Len(d) >= 1
    <3> DEFINE b == p[1].bits
               z == Len(d)
    <3>1. /\ n \in 2 .. 3 /\ width = 8 * (n - 1) + b - left /\ 8 * q = x + b /\ z = q + (n - 1)
          /\ b \in 1 .. 8 /\ q \in Nat /\ q >= 1
      BY <1>2, <1>6, <1>7, <1>10
    <3> HIDE DEF b, z
    <3> QED BY <3>1, <1>1 DEF z
  <2>2. d[Len(d)] % Pow(left) = 0
    <3>1. n \in 2 .. n /\ q + (n - 1) = Len(d)
      BY <1>2, <1>10
    <3>2. d[Len(d)] = e(n)
      BY <3>1, <1>12
    <3>3. p[n].up = left
      BY <1>2
    <3> QED BY <3>2, <3>3, <1>4, <1>6
  <2> QED BY <2>1, <2>2, <1>10 DEF Filled
<1>14. Carries(d, x, p, v)
  <2> SUFFICES ASSUME NEW t \in 1 .. n
               PROVE  /\ (x \div 8) + t \in 1 .. Len(d)
                      /\ (d[(x \div 8) + t] \div Pow(p[t].up)) % Pow(p[t].bits)
                           = (v \div Pow(p[t].shift)) % Pow(p[t].bits)
    BY DEF Carries, n
  <2>1. (x \div 8) + t = q + (t - 1) /\ (x \div 8) + t \in 1 .. Len(d)
    BY <1>6, <1>7, <1>10 DEF q
  <2>2. CASE t = 1
    <3>1. d[(x \div 8) + t] = joined[q] /\ p[t].up = 0
      BY <2>1, <2>2, <1>2, <1>7, <1>12
    <3>2. joined[q] \div Pow(p[t].up) = joined[q]
      <4>1. joined[q] \in Octet
        BY <1>7, <1>8, ElementOfSeq
      <4> QED BY <3>1, <4>1, Powers DEF Octet
    <3>3. joined[q] % Pow(p[t].bits) = (v \div Pow(p[t].shift)) % Pow(p[t].bits)
      BY <2>2, <1>2, <1>4, <1>6, <1>8
    <3> QED BY <2>1, <3>1, <3>2, <3>3
  <2>3. CASE t # 1
    <3>1. t \in 2 .. n
      BY <2>3, <1>6
    <3>2. d[(x \div 8) + t] = e(t)
      BY <2>1, <3>1, <1>12
    <3> QED BY <2>1, <3>2, <1>4
  <2> QED BY <2>2, <2>3
<1>15. (x \div 8) + n = Len(d)
  BY <1>6, <1>7, <1>10 DEF q
<1>16. s = [data |-> d, left |-> left]
  BY <1>5 DEF d
<1>17. s.data = d /\ s.left = left /\ s = [data |-> s.data, left |-> s.left]
  BY <1>16
<1>18. left \in lefts /\ p[n].up = left
  BY <1>1, <1>2
<1> QED BY <1>11, <1>13, <1>14, <1>15, <1>17, <1>18, Zenon DEF p, n

-----------------------------------------------------------------------------
(* Reading a code *)

LEMMA PowPositive == \A n \in 0 .. 13 : Pow(n) \in Nat /\ Pow(n) > 0
BY Powers

LEMMA PowNext == \A n \in 0 .. 12 : Pow(n + 1) = 2 * Pow(n)
BY Powers

LEMMA OctetIsNumber == \A b \in Octet : b \in Nat
BY DEF Octet

LEMMA BitAt ==
  ASSUME NEW data, NEW q \in 1 .. Len(data), NEW o \in 0 .. 7, Len(data) \in Nat
  PROVE  Bit(data, 8 * (q - 1) + o) = (data[q] \div Pow(7 - o)) % 2
<1> DEFINE x == 8 * (q - 1) + o
<1>1. (x \div 8) + 1 = q /\ x % 8 = o
  BY SMT
<1> HIDE DEF x
<1>2. Bit(data, x) = (data[q] \div 2 ^ (7 - o)) % 2
  <2>1. q <= Len(data)
    OBVIOUS
  <2> QED BY <1>1, <2>1, Zenon DEF Bit
<1> QED BY <1>2 DEF x, Pow

\* c[b] is the number that the b bits from x on make.
Reads(c, data, x, width) ==
  /\ c[0] = 0
  /\ \A b \in 0 .. width - 1 : c[b + 1] = 2 * c[b] + Bit(data, x + b)

\* Reading n bits of the q-th byte, above the lowest up ones.
ReadsAt(c, data, x, width, q, n, up, b) ==
  /\ Reads(c, data, x, width) /\ x \in Nat /\ width \in Nat
  /\ Len(data) \in Nat /\ q \in 1 .. Len(data) /\ data[q] \in Octet
  /\ n \in 1 .. 8 /\ up \in 0 .. 7 /\ up + n <= 8
  /\ b \in Nat /\ b + n <= width /\ c[b] \in Nat
  /\ x + b = 8 * (q - 1) + (8 - (up + n))

LEMMA ReadBits ==
  ASSUME NEW c, NEW data, NEW x, NEW width, NEW q, NEW n, NEW up, NEW b,
         ReadsAt(c, data, x, width, q, n, up, b)
  PROVE  c[b + n] = c[b] * Pow(n) + ((data[q] \div Pow(up)) % Pow(n))
<1> DEFINE B == data[q]
           R(m) == (B \div Pow((up + n) - m)) % Pow(m)
           T == {m \in Nat : m <= n => c[b + m] = c[b] * Pow(m) + R(m)}
<1>0. /\ Reads(c, data, x, width) /\ x \in Nat /\ width \in Nat
      /\ Len(data) \in Nat /\ q \in 1 .. Len(data) /\ data[q] \in Octet
      /\ n \in 1 .. 8 /\ up \in 0 .. 7 /\ up + n <= 8
      /\ b \in Nat /\ b + n <= width /\ c[b] \in Nat
      /\ x + b = 8 * (q - 1) + (8 - (up + n))
  BY DEF ReadsAt
<1> USE <1>0
<1>1. B \in Nat
  BY OctetIsNumber, Zenon
<1>2. 0 \in T
  <2>0. up + n \in 0 .. 13 /\ (up + n) - 0 = up + n
    OBVIOUS
  <2>1. Pow(0) = 1 /\ Pow(up + n) \in Nat /\ Pow(up + n) > 0 /\ (up + n) - 0 = up + n
    BY <2>0, Powers, PowPositive, Zenon
  <2> DEFINE z == B \div Pow(up + n)
  <2>2. z \in Nat
    BY <1>1, <2>1, DivisionBounds
  <2> HIDE DEF z
  <2>3. z % 1 = 0 /\ c[b] * 1 = c[b] /\ b + 0 = b
    BY <2>2
  <2>4. R(0) = 0
    BY <2>1, <2>3 DEF z
  <2> HIDE DEF R
  <2> QED BY <2>1, <2>3, <2>4
<1>3. ASSUME NEW m \in Nat, m \in T PROVE m + 1 \in T
  <2> SUFFICES ASSUME m + 1 <= n PROVE c[b + (m + 1)] = c[b] * Pow(m + 1) + R(m + 1)
    OBVIOUS
  <2>1. m <= n /\ c[b + m] = c[b] * Pow(m) + R(m)
    BY <1>3
  <2> DEFINE j == (up + n) - (m + 1)
             D == Pow(j)
             E == Pow(m)
             z == B \div D
  <2>2. j \in 0 .. 7 /\ j + 1 = (up + n) - m /\ m \in 0 .. 7
    OBVIOUS
  <2>3. /\ D \in Nat /\ D > 0 /\ E \in Nat /\ E > 0
        /\ Pow((up + n) - m) = 2 * D /\ Pow(m + 1) = 2 * E
    <3>1. j \in 0 .. 12 /\ m \in 0 .. 12 /\ j \in 0 .. 13 /\ m \in 0 .. 13
      BY <2>2
    <3> HIDE DEF j
    <3>2. Pow(j + 1) = 2 * Pow(j) /\ Pow(m + 1) = 2 * Pow(m)
      BY <3>1, PowNext, Zenon
    <3>3. Pow(j) \in Nat /\ Pow(j) > 0 /\ Pow(m) \in Nat /\ Pow(m) > 0
      BY <3>1, PowPositive, Zenon
    <3> QED BY <2>2, <3>2, <3>3, Zenon
  <2>4. Bit(data, x + (b + m)) = z % 2
    <3> DEFINE o == 7 - j
    <3>1. o \in 0 .. 7 /\ 7 - o = j /\ x + (b + m) = 8 * (q - 1) + o
      BY <2>2
    <3> HIDE DEF o, j
    <3>2. Bit(data, 8 * (q - 1) + o) = (data[q] \div Pow(7 - o)) % 2
      BY <3>1, BitAt
    <3> QED BY <3>1, <3>2
  <2>5. c[b + (m + 1)] = 2 * c[b + m] + Bit(data, x + (b + m))
    <3>1. b + m \in 0 .. width - 1 /\ (b + m) + 1 = b + (m + 1)
      OBVIOUS
    <3> QED BY <3>1 DEF Reads
  <2> HIDE DEF j
  <2>6. R(m + 1) = z % (2 * E)
    BY <2>3 DEF j
  <2>7. R(m) = (z \div 2) % E
    <3>1. B \div (D * 2) = z \div 2
      <4> HIDE DEF B, D, R
      <4>1. D \in Nat /\ D > 0 /\ B \in Nat
        BY <1>1, <2>3
      <4>2. B \div (D * 2) = (B \div D) \div 2
        BY ONLY <4>1, DivideTwice
      <4> QED BY <4>2
    <3>2. D * 2 = 2 * D
      BY <2>3
    <3> QED BY <2>3, <3>1, <3>2
  <2> HIDE DEF R, D, E, B
  <2>8. z \in Nat
    BY <1>1, <2>3, DivisionBounds
  <2> HIDE DEF z
  <2>9. z % (2 * E) = 2 * ((z \div 2) % E) + (z % 2)
    BY <2>3, <2>8, OneBitMore
  <2> DEFINE r == (z \div 2) % E
             y == z % 2
  <2>10. r \in Nat /\ y \in Nat
    BY <2>3, <2>8, SMT
  <2> HIDE DEF r, y
  <2>11. c[b + (m + 1)] = 2 * (c[b] * E + r) + y /\ R(m + 1) = 2 * r + y
    BY <2>1, <2>4, <2>5, <2>6, <2>7, <2>9 DEF r, y, E
  <2>12. c[b] * (2 * E) = 2 * (c[b] * E) /\ c[b] * E \in Nat
    BY <2>3, SMT
  <2> DEFINE k == c[b] * E
             kk == c[b] * (2 * E)
  <2>13. k \in Nat /\ kk = 2 * k
    BY <2>12
  <2>14. c[b + (m + 1)] = 2 * (k + r) + y
    BY <2>11
  <2> HIDE DEF k, kk
  <2>15. c[b + (m + 1)] = kk + R(m + 1)
    BY <2>10, <2>11, <2>13, <2>14
  <2> QED BY <2>3, <2>15 DEF kk
<1> HIDE DEF T
<1>4. \A m \in Nat : m \in T
  BY <1>2, <1>3, NumbersInSet
<1>5. n \in T /\ (up + n) - n = up
  BY <1>4
<1> QED BY <1>5 DEF T

\* Reading a part of a code, when what is above it has been read.
PartAt(c, data, x, width, q, n, up, shift, v) ==
  /\ Reads(c, data, x, width) /\ x \in Nat /\ width \in 0 .. 13
  /\ Len(data) \in Nat /\ q \in 1 .. Len(data) /\ data[q] \in Octet
  /\ n \in 1 .. 8 /\ up \in 0 .. 7 /\ up + n <= 8
  /\ shift \in Nat /\ shift + n <= width
  /\ x + (width - (shift + n)) = 8 * (q - 1) + (8 - (up + n))
  /\ v \in Nat
  /\ (data[q] \div Pow(up)) % Pow(n) = (v \div Pow(shift)) % Pow(n)
  /\ c[width - (shift + n)] = v \div Pow(shift + n)

LEMMA ReadPart ==
  ASSUME NEW c, NEW data, NEW x, NEW width, NEW q, NEW n, NEW up, NEW shift, NEW v,
         PartAt(c, data, x, width, q, n, up, shift, v)
  PROVE  c[width - shift] = v \div Pow(shift)
<1> DEFINE A == Pow(shift)
           N == Pow(n)
           b == width - (shift + n)
           z == v \div A
<1>0. /\ Reads(c, data, x, width) /\ x \in Nat /\ width \in 0 .. 13
      /\ Len(data) \in Nat /\ q \in 1 .. Len(data) /\ data[q] \in Octet
      /\ n \in 1 .. 8 /\ up \in 0 .. 7 /\ up + n <= 8
      /\ shift \in Nat /\ shift + n <= width
      /\ x + (width - (shift + n)) = 8 * (q - 1) + (8 - (up + n))
      /\ v \in Nat
      /\ (data[q] \div Pow(up)) % Pow(n) = (v \div Pow(shift)) % Pow(n)
      /\ c[width - (shift + n)] = v \div Pow(shift + n)
  BY DEF PartAt
<1> USE <1>0
<1>1. A \in Nat /\ A > 0 /\ N \in Nat /\ N > 0 /\ Pow(shift + n) = A * N
  <2>1. shift \in 0 .. 13 /\ n \in 0 .. 13 /\ n \in Nat /\ shift + n <= 13
    OBVIOUS
  <2>2. Pow(shift + n) = A * N
    BY <2>1, PowerOfSum
  <2> QED BY <2>1, <2>2, PowPositive, Zenon
<1>2. c[b] = z \div N
  <2> HIDE DEF A, N
  <2>1. v \div (A * N) = (v \div A) \div N
    BY <1>1, DivideTwice
  <2> QED BY <1>1, <2>1
<1>3. z \in Nat
  BY <1>1, DivisionBounds
<1>4. b \in Nat /\ b + n <= width /\ b + n = width - shift
  OBVIOUS
<1>5. z \div N \in Nat /\ z = N * (z \div N) + (z % N)
  BY <1>1, <1>3, DivisionBounds
<1> HIDE DEF b
<1>6. c[b + n] = c[b] * N + ((data[q] \div Pow(up)) % N)
  <2>1. c[b] \in Nat /\ x + b = 8 * (q - 1) + (8 - (up + n)) /\ width \in Nat
    BY <1>2, <1>5 DEF b
  <2>2. ReadsAt(c, data, x, width, q, n, up, b)
    BY <1>4, <2>1 DEF ReadsAt
  <2>3. c[b + n] = c[b] * Pow(n) + ((data[q] \div Pow(up)) % Pow(n))
    BY <2>2, ReadBits
  <2> QED BY <2>3 DEF N
<1>7. c[b + n] = (z \div N) * N + (z % N)
  BY <1>2, <1>6
<1> HIDE DEF z, N
<1>8. (z \div N) * N = N * (z \div N)
  BY <1>1, <1>5
<1> QED BY <1>4, <1>5, <1>7, <1>8 DEF z

\* Where the second and the third part of a code begin.
LEMMA Places ==
  ASSUME NEW width \in Nat, NEW x \in Nat, NEW y \in Nat,
         NEW s1 \in Nat, NEW b1 \in Nat, NEW s2 \in Nat, NEW b2 \in Nat,
         s1 + b1 = width, s2 + b2 = s1, x = 8 * y + (8 - b1)
  PROVE  /\ s1 <= width /\ s2 + b2 <= width /\ s2 <= width
         /\ x + (width - s1) = 8 * ((y + 2) - 1) + (8 - 8)
         /\ b2 = 8 => x + (width - s2) = 8 * ((y + 3) - 1) + (8 - 8)
OBVIOUS

\* A code that stands in the data at bit x is what is read there.
LEMMA ReadHeld ==
  ASSUME NEW cases, NEW width, NEW lefts, WellCut(cases, width, lefts), NEW l \in lefts,
         NEW x \in Nat, (x + l) % 8 = 0, NEW v \in 0 .. Pow(width) - 1,
         NEW data \in Seq(Octet), Carries(data, x, cases[l + 1].parts, v),
         NEW c, Reads(c, data, x, width)
  PROVE  c[width] = v
<1> DEFINE p == cases[l + 1].parts
           n == Len(p)
           y == x \div 8
           e(t) == width - p[t].shift
<1>1. /\ CutFor(p, cases[l + 1].left, l, width) /\ width \in 8 .. 13 /\ l \in 0 .. 7
      /\ Len(data) \in Nat /\ v \in Nat
  <2>1. Len(data) \in Nat
    BY LenProperties
  <2>2. width \in 8 .. 13 /\ l \in 0 .. 7 /\ CutFor(p, cases[l + 1].left, l, width)
    BY DEF WellCut
  <2> QED BY <2>1, <2>2
<1> HIDE DEF p
<1>2. n \in 2 .. 3
  BY <1>1, Zenon DEF CutFor
<1> HIDE DEF n
<1>3. ASSUME NEW t \in 1 .. n
      PROVE  /\ p[t].shift \in 0 .. 12 /\ p[t].bits \in 1 .. 8 /\ p[t].up \in 0 .. 7
             /\ t # n => p[t].up = 0
             /\ t # 1 => /\ p[t].up + p[t].bits = 8
                         /\ p[t].shift + p[t].bits = p[t - 1].shift
  <2>1. t # n => t \in 1 .. n - 1
    BY <1>2
  <2>2. t # 1 => t \in 2 .. n
    OBVIOUS
  <2> QED BY <1>1, <2>1, <2>2 DEF CutFor, n
<1>4. p[1].bits = (IF l = 0 THEN 8 ELSE l) /\ p[1].shift + p[1].bits = width
  BY <1>1, Zenon DEF CutFor
<1>5. p[n].shift = 0
  BY <1>1 DEF CutFor, n
<1>6. ASSUME NEW t \in 1 .. n, p[t].shift + p[t].bits <= width, p[t].up + p[t].bits <= 8,
             x + (width - (p[t].shift + p[t].bits)) = 8 * ((y + t) - 1) + (8 - (p[t].up + p[t].bits)),
             c[width - (p[t].shift + p[t].bits)] = v \div Pow(p[t].shift + p[t].bits)
      PROVE  c[e(t)] = v \div Pow(p[t].shift)
  <2>1. /\ y + t \in 1 .. Len(data)
        /\ (data[y + t] \div Pow(p[t].up)) % Pow(p[t].bits)
             = (v \div Pow(p[t].shift)) % Pow(p[t].bits)
    BY DEF Carries, p, n
  <2>2. data[y + t] \in Octet
    BY <2>1, ElementOfSeq
  <2> DEFINE s == p[t].shift
             m == p[t].bits
             u == p[t].up
             q == y + t
  <2>3. /\ s \in 0 .. 12 /\ m \in 1 .. 8 /\ u \in 0 .. 7
    BY <1>3
  <2>4. /\ s + m <= width /\ u + m <= 8
        /\ x + (width - (s + m)) = 8 * (q - 1) + (8 - (u + m))
        /\ c[width - (s + m)] = v \div Pow(s + m)
        /\ (data[q] \div Pow(u)) % Pow(m) = (v \div Pow(s)) % Pow(m)
        /\ q \in 1 .. Len(data) /\ data[q] \in Octet /\ width \in 0 .. 13
    BY <1>1, <1>6, <2>1, <2>2
  <2> HIDE DEF s, m, u, q, y
  <2>5. s \in Nat /\ Len(data) \in Nat /\ v \in Nat
    BY <1>1, <2>3
  <2>7. PartAt(c, data, x, width, q, m, u, s, v)
    BY <2>3, <2>4, <2>5 DEF PartAt
  <2>6. c[width - s] = v \div Pow(s)
    BY <2>7, ReadPart
  <2> QED BY <2>6 DEF s
<1>7. c[width - width] = v \div Pow(width)
  <2>0. width \in 0 .. 13
    BY <1>1
  <2>1. Pow(width) \in Nat /\ Pow(width) > 0
    BY <2>0, PowPositive, Zenon
  <2> DEFINE D == Pow(width)
  <2>2. D \in Nat /\ v \in 0 .. D - 1
    BY <2>1
  <2> HIDE DEF D
  <2>3. v \div D = 0
    BY <2>2
  <2>4. width - width = 0
    BY <1>1
  <2> QED BY <2>3, <2>4 DEF Reads, D
<1>8. /\ 1 \in 1 .. n /\ 2 \in 1 .. n /\ y \in Nat /\ 8 * y <= x /\ x < 8 * y + 8
      /\ x = 8 * y + (8 - p[1].bits)
  <2>1. y \in Nat /\ 8 * y <= x /\ x < 8 * y + 8
    BY SMT
  <2> HIDE DEF y
  <2>2. x = 8 * y + (IF l = 0 THEN 0 ELSE 8 - l)
    BY <2>1, <1>1, SMT
  <2>3. p[1].bits = (IF l = 0 THEN 8 ELSE l)
    BY <1>4
  <2> QED BY <1>1, <1>2, <2>1, <2>2, <2>3
<1> HIDE DEF y
<1>places. ASSUME NEW s1 \in 0 .. 12, NEW b1 \in 1 .. 8, NEW s2 \in 0 .. 12, NEW b2 \in 1 .. 8,
                  s1 + b1 = width, s2 + b2 = s1, x = 8 * y + (8 - b1)
           PROVE  /\ s2 + b2 <= width /\ s2 <= width
                  /\ x + (width - s1) = 8 * ((y + 2) - 1) + (8 - 8)
                  /\ b2 = 8 => x + (width - s2) = 8 * ((y + 3) - 1) + (8 - 8)
  <2>1. /\ width \in Nat /\ x \in Nat /\ y \in Nat
        /\ s1 \in Nat /\ b1 \in Nat /\ s2 \in Nat /\ b2 \in Nat
    <3>1. \A z \in 0 .. 13 : z \in Nat
      OBVIOUS
    <3>2. \A z \in 1 .. 8 : z \in Nat
      OBVIOUS
    <3>3. \A z \in 0 .. 12 : z \in Nat
      OBVIOUS
    <3>4. \A z \in 8 .. 13 : z \in Nat
      OBVIOUS
    <3> QED BY <3>2, <3>3, <3>4, <1>1, <1>8, Zenon
  <2> QED BY ONLY <2>1, <1>places, Places, SMT
<1>9. c[e(1)] = v \div Pow(p[1].shift)
  <2>1. p[1].up = 0 /\ p[1].bits \in 1 .. 8
    BY <1>2, <1>3, <1>8
  <2>2. x + (width - (p[1].shift + p[1].bits)) = 8 * ((y + 1) - 1) + (8 - (p[1].up + p[1].bits))
    BY <1>1, <1>4, <1>8, <2>1
  <2>3. p[1].shift + p[1].bits <= width /\ p[1].up + p[1].bits <= 8
    <3> DEFINE w == p[1].shift + p[1].bits
               u == p[1].up
               b == p[1].bits
    <3>1. w = width /\ width \in Nat /\ u = 0 /\ b \in 1 .. 8
      BY <1>1, <1>4, <2>1
    <3> HIDE DEF w, u, b
    <3>2. w <= width /\ u + b <= 8
      BY ONLY <3>1
    <3> QED BY <3>2 DEF w, u, b
  <2>4. c[width - (p[1].shift + p[1].bits)] = v \div Pow(p[1].shift + p[1].bits)
    BY <1>4, <1>7
  <2> QED BY <1>6, <1>8, <2>2, <2>3, <2>4
<1>10. c[e(2)] = v \div Pow(p[2].shift)
  <2>1. /\ p[2].up + p[2].bits = 8 /\ p[2].shift + p[2].bits = p[1].shift
        /\ p[1].shift \in 0 .. 12 /\ p[1].bits \in 1 .. 8
    <3>1. 2 # 1 /\ 2 - 1 = 1
      OBVIOUS
    <3> QED BY <3>1, <1>3, <1>8
  <2>4. p[2].shift \in 0 .. 12 /\ p[2].bits \in 1 .. 8
    BY <1>3, <1>8
  <2>2. /\ x + (width - p[1].shift) = 8 * ((y + 2) - 1) + (8 - 8)
        /\ p[2].shift + p[2].bits <= width
    BY <1>4, <1>8, <2>1, <2>4, <1>places
  <2> QED BY <1>6, <1>8, <1>9, <2>1, <2>2
<1>end. width - 0 = width /\ v \div Pow(0) = v
  BY <1>1, Powers
<1>11. CASE n = 2
  BY <1>end, <1>5, <1>10, <1>11
<1>12. CASE n = 3
  <2>1. 3 \in 1 .. n /\ 2 # n
    BY <1>12
  <2>2. /\ p[3].up + p[3].bits = 8 /\ p[3].shift + p[3].bits = p[2].shift
        /\ p[2].up + p[2].bits = 8 /\ p[2].shift + p[2].bits = p[1].shift
        /\ p[2].up = 0 /\ p[1].shift \in 0 .. 12 /\ p[2].shift \in 0 .. 12
        /\ p[1].bits \in 1 .. 8 /\ p[2].bits \in 1 .. 8
    <3>1. 3 # 1 /\ 3 - 1 = 2 /\ 2 # 1 /\ 2 - 1 = 1
      OBVIOUS
    <3> QED BY <2>1, <3>1, <1>3, <1>8
  <2>6. p[2].bits = 8
    BY <2>2
  <2>3. /\ x + (width - p[2].shift) = 8 * ((y + 3) - 1) + (8 - 8)
        /\ p[2].shift <= width
    BY <1>4, <1>8, <2>2, <2>6, <1>places
  <2>4. p[3].shift + p[3].bits <= width
    BY <2>2, <2>3
  <2>5. c[e(3)] = v \div Pow(p[3].shift)
    BY <1>6, <1>10, <2>1, <2>2, <2>3, <2>4
  <2> QED BY <1>end, <1>5, <1>12, <2>5
<1> QED BY <1>2, <1>11, <1>12

-----------------------------------------------------------------------------
(* All the codes of a packet *)

\* The last part of a code in the data: nothing but the free bits is behind
\* it in its byte when the byte is the data's last.
Within(data, l, x, p) ==
  \/ (x \div 8) + Len(p) < Len(data)
  \/ (x \div 8) + Len(p) = Len(data) /\ p[Len(p)].up = l

\* The i-th code stands in the data.
Stands(cases, width, lefts, data, l, i, v) ==
  \E m \in lefts :
    /\ (width * (i - 1) + m) % 8 = 0
    /\ Carries(data, width * (i - 1), cases[m + 1].parts, v)
    /\ Within(data, l, width * (i - 1), cases[m + 1].parts)

\* What stands in the data still does when bits are put behind it.
LEMMA StandsOn ==
  ASSUME NEW cases, NEW width, NEW lefts, WellCut(cases, width, lefts),
         NEW a \in Seq(Octet), NEW b \in Seq(Octet), NEW l, NEW left,
         Keeps(a, b, l), Len(a) < Len(b), NEW i \in Nat, NEW v,
         Stands(cases, width, lefts, a, l, i, v)
  PROVE  Stands(cases, width, lefts, b, left, i, v)
<1> DEFINE x == width * (i - 1)
<1>1. PICK m \in lefts : /\ (x + m) % 8 = 0
                         /\ Carries(a, x, cases[m + 1].parts, v)
                         /\ Within(a, l, x, cases[m + 1].parts)
  BY DEF Stands
<1> DEFINE p == cases[m + 1].parts
           n == Len(p)
           y == x \div 8
           la == Len(a)
           lb == Len(b)
<1>2. CutFor(p, cases[m + 1].left, m, width)
  BY DEF WellCut
<1> HIDE DEF p
<1>3. n \in 2 .. 3
  BY <1>2, Zenon DEF CutFor
<1> HIDE DEF n
<1>4. \A t \in 1 .. n - 1 : p[t].up = 0
  BY <1>2 DEF CutFor, n
<1>5. la \in Nat /\ lb \in Nat /\ la < lb
  BY LenProperties
<1>6. \A t \in 1 .. n : /\ y + t \in 1 .. la
                        /\ (a[y + t] \div Pow(p[t].up)) % Pow(p[t].bits)
                             = (v \div Pow(p[t].shift)) % Pow(p[t].bits)
  BY <1>1 DEF Carries, p, n
<1>7. y + n < la \/ (y + n = la /\ p[n].up = l)
  BY <1>1 DEF Within, p, n
<1>8. /\ \A k \in 1 .. la : k < la => b[k] = a[k]
      /\ la >= 1 => b[la] \div Pow(l) = a[la] \div Pow(l)
  BY Zenon DEF Keeps
<1> HIDE DEF y, la, lb
<1>9. n \in 1 .. n /\ y + n \in 1 .. la
  <2>1. n \in 1 .. n
    BY <1>3
  <2> QED BY <2>1, <1>6
<1>10. y \in Int
  <2>1. y + 1 \in 1 .. la /\ 1 \in 1 .. n
    BY <1>3, <1>6
  <2>2. width \in Nat
    BY DEF WellCut
  <2>3. x \in Int
    BY <2>2
  <2> HIDE DEF x
  <2> QED BY <2>3 DEF y
<1>11. ASSUME NEW t \in 1 .. n
       PROVE  /\ y + t \in 1 .. lb
              /\ b[y + t] \div Pow(p[t].up) = a[y + t] \div Pow(p[t].up)
  <2>1. y + t \in 1 .. la
    BY <1>6
  <2>2. y + t \in 1 .. lb
    BY <2>1, <1>5
  <2>3. CASE y + t < la
    BY <2>1, <2>2, <2>3, <1>8
  <2>4. CASE ~(y + t < la)
    <3>1. y + t = la /\ t = n /\ y + n = la
      <4>1. y + t <= la /\ y + n <= la /\ t <= n
        BY <2>1, <1>9
      <4> QED BY <4>1, <2>4, <1>3, <1>5, <1>10
    <3>2. p[n].up = l
      BY <3>1, <1>5, <1>7
    <3>3. la >= 1
      BY <3>1, <2>1
    <3> QED BY <2>2, <3>1, <3>2, <3>3, <1>8
  <2> QED BY <2>3, <2>4
<1>12. Carries(b, x, p, v)
  BY <1>6, <1>11 DEF Carries, n, y, lb
<1>13. Within(b, left, x, p)
  <2>1. y + n < lb
    BY <1>5, <1>9
  <2> QED BY <2>1 DEF Within, n, y, lb
<1> QED BY <1>1, <1>12, <1>13 DEF Stands, p

\* The state of create_packet after k rounds.
Packed(cases, width, lefts, codes, k, s) ==
  /\ s = [data |-> s.data, left |-> s.left] /\ s.left \in lefts
  /\ Filled(s.data, s.left, width * k)
  /\ \A i \in 1 .. k : Stands(cases, width, lefts, s.data, s.left, i, codes[i])

Codeword(width) == 0 .. Pow(width) - 1

LEMMA PackedFirst ==
  ASSUME NEW cases, NEW width, NEW lefts, WellCut(cases, width, lefts), NEW codes
  PROVE  Packed(cases, width, lefts, codes, 0, [data |-> <<>>, left |-> 0])
<1> DEFINE none == <<>>
           s == [data |-> none, left |-> 0]
<1>1. none \in Seq(Octet) /\ Len(none) = 0
  BY EmptySeq
<1>2. s.data = none /\ s.left = 0 /\ s = [data |-> s.data, left |-> s.left]
  OBVIOUS
<1> HIDE DEF none, s
<1>3. width \in Nat /\ 0 \in lefts
  BY DEF WellCut
<1>4. width * 0 = 0 /\ 8 * 0 - 0 = 0
  BY <1>3
<1>5. Filled(none, 0, width * 0)
  BY <1>1, <1>4 DEF Filled
<1>6. Packed(cases, width, lefts, codes, 0, s)
  BY <1>2, <1>3, <1>5 DEF Packed
<1> QED BY <1>6 DEF s, none

LEMMA PackedNext ==
  ASSUME NEW cases, NEW width, NEW lefts, WellCut(cases, width, lefts),
         NEW codes, NEW k \in Nat, NEW s, Packed(cases, width, lefts, codes, k, s),
         codes[k + 1] \in Codeword(width)
  PROVE  Packed(cases, width, lefts, codes, k + 1, Put(cases, s, codes[k + 1]))
<1> DEFINE v == codes[k + 1]
           r == Put(cases, s, v)
           d == s.data
           l == s.left
           x == width * k
           p == cases[l + 1].parts
<1>1. s = [data |-> d, left |-> l] /\ l \in lefts /\ Filled(d, l, x)
  BY DEF Packed
<1>2. width \in 8 .. 13 /\ lefts \subseteq 0 .. 7
  BY DEF WellCut
<1>3. x \in Nat /\ width * (k + 1) = x + width /\ width * ((k + 1) - 1) = x
  <2>1. width \in Nat
    BY <1>2
  <2>2. (k + 1) - 1 = k
    OBVIOUS
  <2> QED BY <2>1, <2>2, SMT
<1>4. v \in Nat
  <2> DEFINE top == Pow(width)
  <2>1. top \in Nat
    BY <1>2, Powers
  <2>2. v \in 0 .. top - 1
    BY DEF Codeword
  <2> HIDE DEF top, v
  <2> QED BY <2>1, <2>2
<1>5. r = Put(cases, [data |-> d, left |-> l], v)
  BY <1>1
<1> HIDE DEF r, v, d, l, x
<1>6. /\ r = [data |-> r.data, left |-> r.left] /\ r.left \in lefts
      /\ Filled(r.data, r.left, x + width) /\ Keeps(d, r.data, l)
      /\ Carries(r.data, x, p, v)
      /\ (x \div 8) + Len(p) = Len(r.data)
      /\ p[Len(p)].up = r.left
  BY <1>1, <1>3, <1>4, <1>5, PutStep
<1>7. CutFor(p, cases[l + 1].left, l, width)
  BY <1>1 DEF WellCut
<1> HIDE DEF p
<1>8. Len(p) \in 2 .. 3
  BY <1>7, Zenon DEF CutFor
<1>9. d \in Seq(Octet) /\ r.data \in Seq(Octet) /\ 8 * Len(d) - l = x
  BY <1>1, <1>6 DEF Filled
<1>10. Len(d) < Len(r.data) /\ (x + l) % 8 = 0
  <2> DEFINE la == Len(d)
             y == x \div 8
             n == Len(p)
  <2>1. la \in Nat /\ l \in 0 .. 7 /\ 8 * la - l = x
    BY <1>1, <1>2, <1>9, LenProperties
  <2>2. n \in 2 .. 3
    BY <1>8
  <2>3. y + n = Len(r.data)
    BY <1>6
  <2> HIDE DEF la, n
  <2>4. y \in Int /\ la < y + 2
    BY <2>1, <1>3
  <2>5. (x + l) % 8 = 0
    BY <2>1, <1>3
  <2> HIDE DEF y
  <2>6. la < y + n
    BY <2>1, <2>2, <2>4
  <2> QED BY <2>3, <2>5, <2>6 DEF la
<1>11. ASSUME NEW i \in 1 .. k + 1
       PROVE  Stands(cases, width, lefts, r.data, r.left, i, codes[i])
  <2>1. CASE i = k + 1
    <3>1. Within(r.data, r.left, x, p)
      BY <1>6 DEF Within
    <3>2. width * (i - 1) = x
      BY <2>1, <1>3
    <3> QED BY <2>1, <3>1, <3>2, <1>1, <1>6, <1>10, Zenon DEF Stands, v, p
  <2>2. CASE i # k + 1
    <3>1. i \in 1 .. k /\ i \in Nat
      BY <2>2
    <3>2. Stands(cases, width, lefts, d, l, i, codes[i])
      BY <3>1 DEF Packed, d, l
    <3> QED BY <3>1, <3>2, <1>6, <1>9, <1>10, StandsOn
  <2> QED BY <2>1, <2>2
<1>12. Packed(cases, width, lefts, codes, k + 1, r)
  BY <1>3, <1>6, <1>11 DEF Packed
<1> QED BY <1>12 DEF r, v

\* create_packet's rounds as a function of their number.
Rounds(cases, codes, n, f) ==
  f = [k \in 0 .. n |-> IF k = 0 THEN [data |-> <<>>, left |-> 0]
                        ELSE Put(cases, f[k - 1], codes[k])]

LEMMA RoundsExist ==
  ASSUME NEW cases, NEW codes
  PROVE  \A n \in Nat : \E f : Rounds(cases, codes, n, f)
<1> DEFINE T == {n \in Nat : \E f : Rounds(cases, codes, n, f)}
           none == [data |-> <<>>, left |-> 0]
<1>1. 0 \in T
  <2> DEFINE f == [k \in 0 .. 0 |-> none]
  <2>1. f = [k \in 0 .. 0 |-> IF k = 0 THEN none ELSE Put(cases, f[k - 1], codes[k])]
    <3> HIDE DEF none
    <3>1. \A k \in 0 .. 0 : k = 0
      OBVIOUS
    <3> QED BY <3>1
  <2>2. Rounds(cases, codes, 0, f)
    BY <2>1, Zenon DEF Rounds
  <2> QED BY <2>2
<1>2. ASSUME NEW n \in Nat, n \in T PROVE n + 1 \in T
  <2>1. PICK f : Rounds(cases, codes, n, f)
    BY <1>2
  <2> DEFINE g == [k \in 0 .. n + 1 |-> IF k <= n THEN f[k] ELSE Put(cases, f[n], codes[k])]
             h == [k \in 0 .. n + 1 |-> IF k = 0 THEN none ELSE Put(cases, g[k - 1], codes[k])]
  <2>2. ASSUME NEW k \in 0 .. n
        PROVE  f[k] = IF k = 0 THEN none ELSE Put(cases, f[k - 1], codes[k])
    BY <2>1, Zenon DEF Rounds
  <2> HIDE DEF none
  <2>3. ASSUME NEW k \in 0 .. n + 1
        PROVE  g[k] = IF k = 0 THEN none ELSE Put(cases, g[k - 1], codes[k])
    <3>1. CASE k = 0
      <4>1. 0 \in 0 .. n + 1 /\ 0 \in 0 .. n /\ 0 <= n
        OBVIOUS
      <4>2. g[0] = f[0] /\ f[0] = none
        BY <4>1, <2>2
      <4> QED BY <3>1, <4>2
    <3>2. CASE k \in 1 .. n
      <4>1. k \in 0 .. n /\ k <= n /\ k # 0 /\ k - 1 \in 0 .. n + 1 /\ k - 1 <= n
        BY <3>2
      <4>2. g[k] = f[k] /\ g[k - 1] = f[k - 1]
        BY <4>1
      <4>3. f[k] = Put(cases, f[k - 1], codes[k])
        BY <4>1, <2>2
      <4> HIDE DEF g
      <4> QED BY <4>1, <4>2, <4>3
    <3>3. CASE k = n + 1
      <4>1. ~(k <= n) /\ k # 0 /\ k - 1 = n /\ n \in 0 .. n + 1 /\ n <= n
        BY <3>3
      <4>2. g[k] = Put(cases, f[n], codes[k]) /\ g[n] = f[n]
        BY <4>1
      <4> HIDE DEF g
      <4> QED BY <4>1, <4>2
    <3> QED BY <3>1, <3>2, <3>3
  <2>4. g = h
    <3>1. \A k \in 0 .. n + 1 : g[k] = h[k]
      BY <2>3
    <3> QED BY <3>1
  <2>5. Rounds(cases, codes, n + 1, g)
    <3> HIDE DEF g
    <3> QED BY <2>4, Zenon DEF Rounds, none
  <2>6. \E ff : Rounds(cases, codes, n + 1, ff)
    BY <2>5, Zenon
  <2> QED BY <2>6
<1> HIDE DEF T
<1>3. \A n \in Nat : n \in T
  BY <1>1, <1>2, NumbersInSet
<1> QED BY <1>3 DEF T

LEMMA RoundsPack ==
  ASSUME NEW cases, NEW width, NEW lefts, WellCut(cases, width, lefts),
         NEW codes \in Seq(Codeword(width)), NEW f, Rounds(cases, codes, Len(codes), f)
  PROVE  Packed(cases, width, lefts, codes, Len(codes), f[Len(codes)])
<1> DEFINE n == Len(codes)
           T == {k \in Nat : k <= n => Packed(cases, width, lefts, codes, k, f[k])}
<1>1. n \in Nat
  BY LenProperties
<1>2. ASSUME NEW k \in 0 .. n
      PROVE  f[k] = IF k = 0 THEN [data |-> <<>>, left |-> 0]
                    ELSE Put(cases, f[k - 1], codes[k])
  BY Zenon DEF Rounds
<1>3. 0 \in T
  <2>1. 0 \in 0 .. n
    BY <1>1
  <2>2. f[0] = [data |-> <<>>, left |-> 0]
    BY <2>1, <1>2, Zenon
  <2>3. Packed(cases, width, lefts, codes, 0, f[0])
    BY <2>2, PackedFirst
  <2> QED BY <2>3
<1>4. ASSUME NEW k \in Nat, k \in T PROVE k + 1 \in T
  <2> SUFFICES ASSUME k + 1 <= n PROVE Packed(cases, width, lefts, codes, k + 1, f[k + 1])
    OBVIOUS
  <2>1. k + 1 \in 0 .. n /\ k + 1 # 0 /\ (k + 1) - 1 = k /\ k + 1 \in 1 .. n /\ k <= n
    BY <1>1
  <2>2. f[k + 1] = Put(cases, f[k], codes[k + 1])
    BY <2>1, <1>2
  <2>3. codes[k + 1] \in Codeword(width)
    BY <2>1, ElementOfSeq
  <2>4. Packed(cases, width, lefts, codes, k, f[k])
    BY <2>1, <1>4
  <2> QED BY <2>2, <2>3, <2>4, PackedNext
<1> HIDE DEF T
<1>5. \A k \in Nat : k \in T
  BY <1>3, <1>4, NumbersInSet
<1> QED BY <1>1, <1>5 DEF T

-----------------------------------------------------------------------------
(* Packing and reading back *)

\* The packet holds the data and zeros behind it.
LEMMA PacketHolds ==
  ASSUME NEW cases, NEW width, NEW lefts, WellCut(cases, width, lefts),
         NEW codes \in Seq(Codeword(width)), NEW packetLen \in Nat,
         8 * packetLen >= width * Len(codes)
  PROVE  /\ CreatePacket(cases, codes, packetLen) \in Seq(Octet)
         /\ Len(CreatePacket(cases, codes, packetLen)) = packetLen
         /\ \A i \in 1 .. Len(codes) : \E m \in lefts :
              /\ (width * (i - 1) + m) % 8 = 0
              /\ Carries(CreatePacket(cases, codes, packetLen), width * (i - 1),
                       cases[m + 1].parts, codes[i])
<1> DEFINE n == Len(codes)
           h == CHOOSE f : Rounds(cases, codes, n, f)
           d == h[n].data
           l == h[n].left
           packet == [b \in 1 .. packetLen |-> IF b <= Len(d) THEN d[b] ELSE 0]
<1>1. CreatePacket(cases, codes, packetLen) = packet
  BY Zenon DEF CreatePacket, Rounds
<1>2. Rounds(cases, codes, n, h)
  <2>1. n \in Nat
    BY LenProperties
  <2>2. \E f : Rounds(cases, codes, n, f)
    BY <2>1, RoundsExist
  <2> QED BY <2>2, Zenon
<1> HIDE DEF h
<1>3. Packed(cases, width, lefts, codes, n, h[n])
  BY <1>2, RoundsPack
<1>4. l \in lefts /\ Filled(d, l, width * n)
  BY <1>3 DEF Packed
<1> HIDE DEF d, l
<1>5. /\ d \in Seq(Octet) /\ 8 * Len(d) - l = width * n /\ Len(d) \in Nat
      /\ l \in 0 .. 7
  <2>1. d \in Seq(Octet) /\ 8 * Len(d) - l = width * n
    BY <1>4 DEF Filled
  <2>2. Len(d) \in Nat
    BY <2>1, LenProperties
  <2>3. l \in 0 .. 7
    BY <1>4 DEF WellCut
  <2> QED BY <2>1, <2>2, <2>3
<1>6. Len(d) <= packetLen
  <2> DEFINE ld == Len(d)
             z == width * n
  <2>1. 8 * ld - l = z /\ ld \in Nat /\ l \in 0 .. 7 /\ 8 * packetLen >= z
    BY <1>5
  <2> HIDE DEF ld, z
  <2>2. ld <= packetLen
    BY <2>1
  <2> QED BY <2>2 DEF ld
<1>7. /\ packet \in Seq(Octet) /\ Len(packet) = packetLen
      /\ \A b \in 1 .. Len(d) : packet[b] = d[b]
  <2>1. \A b \in 1 .. Len(d) : b \in 1 .. packetLen /\ b <= Len(d)
    BY <1>5, <1>6
  <2>2. \A b \in 1 .. packetLen : b <= Len(d) => b \in 1 .. Len(d)
    BY <1>5
  <2>3. \A b \in 1 .. Len(d) : d[b] \in Octet
    BY <1>5, ElementOfSeq
  <2>4. 0 \in Octet
    BY DEF Octet
  <2>5. packet \in [1 .. packetLen -> Octet]
    BY <2>2, <2>3, <2>4
  <2>6. packet \in Seq(Octet) /\ Len(packet) = packetLen
    <3> HIDE DEF packet
    <3> QED BY <2>5
  <2> QED BY <2>1, <2>6
<1> HIDE DEF packet
<1>8. ASSUME NEW x, NEW p, NEW v, Carries(d, x, p, v) PROVE Carries(packet, x, p, v)
  <2>1. ASSUME NEW t \in 1 .. Len(p)
        PROVE  /\ (x \div 8) + t \in 1 .. Len(packet)
               /\ packet[(x \div 8) + t] = d[(x \div 8) + t]
    <3> DEFINE b == (x \div 8) + t
    <3>1. b \in 1 .. Len(d)
      BY <1>8 DEF Carries
    <3> HIDE DEF b
    <3>2. b \in 1 .. Len(packet)
      BY <3>1, <1>5, <1>6, <1>7
    <3> QED BY <3>1, <3>2, <1>7 DEF b
  <2> QED BY <1>8, <2>1, Zenon DEF Carries
<1>9. ASSUME NEW i \in 1 .. n
      PROVE  \E m \in lefts : /\ (width * (i - 1) + m) % 8 = 0
                              /\ Carries(packet, width * (i - 1), cases[m + 1].parts, codes[i])
  <2>1. Stands(cases, width, lefts, d, l, i, codes[i])
    BY <1>3 DEF Packed, d, l
  <2>2. PICK m \in lefts : /\ (width * (i - 1) + m) % 8 = 0
                           /\ Carries(d, width * (i - 1), cases[m + 1].parts, codes[i])
    BY <2>1, Zenon DEF Stands
  <2>3. Carries(packet, width * (i - 1), cases[m + 1].parts, codes[i])
    BY <2>2, <1>8, Zenon
  <2> QED BY <2>2, <2>3, Zenon
<1> QED BY <1>1, <1>7, <1>9

\* Read_code's bits as a function of their number.
BitsRead(data, x, width, f) ==
  f = [b \in 0 .. width |-> IF b = 0 THEN 0 ELSE 2 * f[b - 1] + Bit(data, x + b - 1)]

LEMMA BitsReadExist ==
  ASSUME NEW data, NEW x
  PROVE  \A width \in Nat : \E f : BitsRead(data, x, width, f)
<1> DEFINE T == {width \in Nat : \E f : BitsRead(data, x, width, f)}
           e(b) == Bit(data, x + b - 1)
<1>1. 0 \in T
  <2> DEFINE f == [b \in 0 .. 0 |-> 0]
  <2>1. f = [b \in 0 .. 0 |-> IF b = 0 THEN 0 ELSE 2 * f[b - 1] + e(b)]
    <3> HIDE DEF e
    <3>1. \A b \in 0 .. 0 : b = 0
      OBVIOUS
    <3> QED BY <3>1
  <2>2. BitsRead(data, x, 0, f)
    BY <2>1, Zenon DEF BitsRead
  <2> QED BY <2>2
<1>2. ASSUME NEW n \in Nat, n \in T PROVE n + 1 \in T
  <2>1. PICK f : BitsRead(data, x, n, f)
    BY <1>2
  <2> DEFINE g == [b \in 0 .. n + 1 |-> IF b <= n THEN f[b] ELSE 2 * f[n] + e(b)]
             h == [b \in 0 .. n + 1 |-> IF b = 0 THEN 0 ELSE 2 * g[b - 1] + e(b)]
  <2>2. ASSUME NEW b \in 0 .. n
        PROVE  f[b] = IF b = 0 THEN 0 ELSE 2 * f[b - 1] + e(b)
    BY <2>1, Zenon DEF BitsRead
  <2> HIDE DEF e
  <2>3. ASSUME NEW b \in 0 .. n + 1
        PROVE  g[b] = IF b = 0 THEN 0 ELSE 2 * g[b - 1] + e(b)
    <3>1. CASE b = 0
      <4>1. 0 \in 0 .. n + 1 /\ 0 \in 0 .. n /\ 0 <= n
        OBVIOUS
      <4>2. g[0] = f[0] /\ f[0] = 0
        BY <4>1, <2>2
      <4> QED BY <3>1, <4>2
    <3>2. CASE b \in 1 .. n
      <4>1. b \in 0 .. n /\ b <= n /\ b # 0 /\ b - 1 \in 0 .. n + 1 /\ b - 1 <= n
        BY <3>2
      <4>2. g[b] = f[b] /\ g[b - 1] = f[b - 1]
        BY <4>1
      <4>3. f[b] = 2 * f[b - 1] + e(b)
        BY <4>1, <2>2
      <4> HIDE DEF g
      <4> QED BY <4>1, <4>2, <4>3
    <3>3. CASE b = n + 1
      <4>1. ~(b <= n) /\ b # 0 /\ b - 1 = n /\ n \in 0 .. n + 1 /\ n <= n
        BY <3>3
      <4>2. g[b] = 2 * f[n] + e(b) /\ g[n] = f[n]
        BY <4>1
      <4> HIDE DEF g
      <4> QED BY <4>1, <4>2
    <3> QED BY <3>1, <3>2, <3>3
  <2>4. g = h
    <3>1. \A b \in 0 .. n + 1 : g[b] = h[b]
      BY <2>3
    <3> QED BY <3>1
  <2>5. BitsRead(data, x, n + 1, g)
    <3> HIDE DEF g
    <3> QED BY <2>4, Zenon DEF BitsRead, e
  <2>6. \E ff : BitsRead(data, x, n + 1, ff)
    BY <2>5, Zenon
  <2> QED BY <2>6
<1> HIDE DEF T
<1>3. \A width \in Nat : width \in T
  BY <1>1, <1>2, NumbersInSet
<1> QED BY <1>3 DEF T

LEMMA ReadCodeReads ==
  ASSUME NEW data, NEW x \in Nat, NEW width \in Nat
  PROVE  \E c : Reads(c, data, x, width) /\ ReadCode(data, x, width) = c[width]
<1> DEFINE c == CHOOSE f : BitsRead(data, x, width, f)
<1>1. ReadCode(data, x, width) = c[width]
  BY Zenon DEF ReadCode, BitsRead
<1>2. BitsRead(data, x, width, c)
  <2>1. \E f : BitsRead(data, x, width, f)
    BY BitsReadExist
  <2> QED BY <2>1, Zenon
<1> HIDE DEF c
<1>3. ASSUME NEW b \in 0 .. width
      PROVE  c[b] = IF b = 0 THEN 0 ELSE 2 * c[b - 1] + Bit(data, x + b - 1)
  BY <1>2, Zenon DEF BitsRead
<1>4. c[0] = 0
  <2>1. 0 \in 0 .. width
    OBVIOUS
  <2> QED BY <2>1, <1>3, Zenon
<1>5. ASSUME NEW b \in 0 .. width - 1
      PROVE  c[b + 1] = 2 * c[b] + Bit(data, x + b)
  <2>1. b + 1 \in 0 .. width /\ b + 1 # 0 /\ (b + 1) - 1 = b /\ x + (b + 1) - 1 = x + b
    OBVIOUS
  <2>2. c[b + 1] = 2 * c[(b + 1) - 1] + Bit(data, x + (b + 1) - 1)
    BY <2>1, <1>3, Zenon
  <2> QED BY <2>1, <2>2, Zenon
<1>6. Reads(c, data, x, width)
  BY <1>4, <1>5 DEF Reads
<1> QED BY <1>1, <1>6

\* What create_packet packs, Read_code reads: for every sequence of codes that
\* fit the width, when the packet is long enough for them.
THEOREM CodesReadBack ==
  ASSUME NEW cases, NEW width, NEW lefts, WellCut(cases, width, lefts),
         NEW codes \in Seq(Codeword(width)), NEW packetLen \in Nat,
         8 * packetLen >= width * Len(codes)
  PROVE  ReadCodes(CreatePacket(cases, codes, packetLen), Len(codes), width) = codes
<1> DEFINE packet == CreatePacket(cases, codes, packetLen)
           n == Len(codes)
<1>1. /\ packet \in Seq(Octet)
      /\ \A i \in 1 .. n : \E m \in lefts :
           /\ (width * (i - 1) + m) % 8 = 0
           /\ Carries(packet, width * (i - 1), cases[m + 1].parts, codes[i])
  BY PacketHolds
<1> HIDE DEF packet
<1>2. width \in 8 .. 13
  BY DEF WellCut
<1>3. ASSUME NEW i \in 1 .. n
      PROVE  ReadCode(packet, (i - 1) * width, width) = codes[i]
  <2> DEFINE x == width * (i - 1)
  <2>1. PICK m \in lefts : /\ (x + m) % 8 = 0
                           /\ Carries(packet, x, cases[m + 1].parts, codes[i])
    BY <1>1
  <2>2. codes[i] \in 0 .. Pow(width) - 1
    <3>1. codes[i] \in Codeword(width)
      BY ElementOfSeq
    <3> QED BY <3>1 DEF Codeword
  <2>3. x \in Nat /\ width \in Nat /\ (i - 1) * width = x
    <3>1. i - 1 \in Nat /\ width \in Nat
      BY <1>2
    <3> DEFINE j == i - 1
    <3> HIDE DEF j
    <3>2. width * j \in Nat /\ j * width = width * j
      BY <3>1, SMT DEF j
    <3> QED BY <3>1, <3>2 DEF j
  <2> HIDE DEF x
  <2>4. PICK c : Reads(c, packet, x, width) /\ ReadCode(packet, x, width) = c[width]
    BY <2>3, ReadCodeReads
  <2>5. c[width] = codes[i]
    BY <1>1, <2>1, <2>2, <2>3, <2>4, ReadHeld
  <2> QED BY <2>3, <2>4, <2>5
<1> DEFINE r == [k \in 1 .. n |-> ReadCode(packet, (k - 1) * width, width)]
<1>4. ReadCodes(packet, n, width) = r
  BY Zenon DEF ReadCodes
<1>5. codes \in [1 .. n -> Codeword(width)] /\ n \in Nat
  BY LenProperties, Zenon
<1>6. r = codes
  <2>1. codes = [k \in 1 .. n |-> codes[k]]
    BY <1>5
  <2>2. \A k \in 1 .. n : ReadCode(packet, (k - 1) * width, width) = codes[k]
    BY <1>3
  <2> HIDE DEF n
  <2> QED BY <2>1, <2>2, Zenon
<1> QED BY <1>4, <1>6 DEF packet

\* The codes of host.cpp, of 13 bits.
COROLLARY Codes13ReadBack ==
  ASSUME NEW codes \in Seq(0 .. 8191), NEW packetLen \in Nat, 8 * packetLen >= 13 * Len(codes)
  PROVE  ReadCodes(CreatePacket(Cases13, codes, packetLen), Len(codes), 13) = codes
<1> DEFINE Words == 0 .. 8191
<1>1. codes \in Seq(Words) /\ Words = Codeword(13)
  BY SMT DEF Codeword, Pow
<1> HIDE DEF Words
<1>2. codes \in Seq(Codeword(13))
  BY <1>1
<1>3. WellCut(Cases13, 13, 0 .. 7)
  BY Cut13
<1> QED BY <1>2, <1>3, CodesReadBack

\* The codes of main.cpp, of 12 bits.
COROLLARY Codes12ReadBack ==
  ASSUME NEW codes \in Seq(0 .. 4095), NEW packetLen \in Nat, 8 * packetLen >= 12 * Len(codes)
  PROVE  ReadCodes(CreatePacket(Cases12, codes, packetLen), Len(codes), 12) = codes
<1> DEFINE Words == 0 .. 4095
<1>1. codes \in Seq(Words) /\ Words = Codeword(12)
  BY SMT DEF Codeword, Pow
<1> HIDE DEF Words
<1>2. codes \in Seq(Codeword(12))
  BY <1>1
<1>3. WellCut(Cases12, 12, {0, 4})
  BY Cut12
<1> QED BY <1>2, <1>3, CodesReadBack

-----------------------------------------------------------------------------
(* The reference encoding *)

Byte == 0 .. Radix - 1

\* The states of the reference encoding of s, up to the m-th.
GoldenFrom(s, g, n) == GoldenStep(g, IF n < Len(s) THEN <<s[n + 1]>> ELSE <<>>)

GoldenStates(s, m, f) ==
  f = [n \in 0 .. m |-> IF n = 0 THEN GoldenStart(s) ELSE GoldenFrom(s, f[n - 1], n)]

LEMMA GoldenStatesExist ==
  ASSUME NEW s
  PROVE  \A m \in Nat : \E f : GoldenStates(s, m, f)
<1> DEFINE T == {m \in Nat : \E f : GoldenStates(s, m, f)}
<1>1. 0 \in T
  <2> DEFINE f == [n \in 0 .. 0 |-> GoldenStart(s)]
  <2>1. f = [n \in 0 .. 0 |-> IF n = 0 THEN GoldenStart(s) ELSE GoldenFrom(s, f[n - 1], n)]
    OBVIOUS
  <2> QED BY <2>1 DEF GoldenStates
<1>2. ASSUME NEW m \in Nat, m \in T PROVE m + 1 \in T
  <2>1. PICK f : GoldenStates(s, m, f)
    BY <1>2
  <2> DEFINE g == [n \in 0 .. m + 1 |-> IF n = m + 1 THEN GoldenFrom(s, f[m], m + 1)
                                        ELSE f[n]]
  <2>2. ASSUME NEW n \in 0 .. m + 1
        PROVE  g[n] = IF n = 0 THEN GoldenStart(s) ELSE GoldenFrom(s, g[n - 1], n)
    <3>1. \A k \in 0 .. m : f[k] = IF k = 0 THEN GoldenStart(s)
                                   ELSE GoldenFrom(s, f[k - 1], k)
      BY <2>1 DEF GoldenStates
    <3>2. CASE n = m + 1
      <4>1. g[n - 1] = f[m] /\ n # 0 /\ g[n] = GoldenFrom(s, f[m], n)
        BY <3>2
      <4> QED BY <4>1
    <3>3. CASE n \in 0 .. m
      <4>1. g[n] = f[n] /\ (n # 0 => g[n - 1] = f[n - 1])
        BY <3>3
      <4> QED BY <3>1, <3>3, <4>1
    <3> QED BY <3>2, <3>3
  <2> HIDE DEF g
  <2>3. DOMAIN g = 0 .. m + 1 /\ g = [n \in 0 .. m + 1 |-> g[n]]
    BY DEF g
  <2>4. GoldenStates(s, m + 1, g)
    BY <2>2, <2>3 DEF GoldenStates
  <2> QED BY <2>4
<1> HIDE DEF T
<1>3. \A m \in Nat : m \in T
  BY <1>1, <1>2, NumbersInSet
<1> QED BY <1>3 DEF T

LEMMA GoldenStateStep ==
  ASSUME NEW s, NEW m \in Nat, NEW f, GoldenStates(s, m, f)
  PROVE  /\ f[0] = GoldenStart(s)
         /\ \A n \in 1 .. m : f[n] = GoldenFrom(s, f[n - 1], n)
<1>1. \A n \in 0 .. m : f[n] = IF n = 0 THEN GoldenStart(s) ELSE GoldenFrom(s, f[n - 1], n)
  BY DEF GoldenStates
<1> QED BY <1>1

LEMMA GoldenEnd ==
  ASSUME NEW s, Len(s) \in Nat
  PROVE  \E f : /\ GoldenStates(s, Len(s), f)
                /\ Golden(s) = Append(f[Len(s)].output, f[Len(s)].table[f[Len(s)].p])
<1> DEFINE Rec(f) ==
      f = [n \in 0 .. Len(s) |->
             IF n = 0 THEN GoldenStart(s)
             ELSE GoldenStep(f[n - 1], IF n < Len(s) THEN <<s[n + 1]>> ELSE <<>>)]
           h == CHOOSE f : Rec(f)
<1>1. \E f : Rec(f)
  BY GoldenStatesExist DEF GoldenStates, GoldenFrom
<1>2. Rec(h)
  BY <1>1, Zenon
<1>3. Golden(s) = Append(h[Len(s)].output, h[Len(s)].table[h[Len(s)].p])
  BY DEF Golden
<1> HIDE DEF h
<1>4. GoldenStates(s, Len(s), h)
  BY <1>2 DEF GoldenStates, GoldenFrom
<1> QED BY <1>3, <1>4

-----------------------------------------------------------------------------
(* The reference encoding and a coder with keys of a code and a byte *)

Words == Seq(Byte) \ {<<>>}

LEMMA WordFacts ==
  /\ \A w \in Words, c \in Byte : w \o <<c>> \in Words
  /\ \A w \in Words : w \o <<>> = w
  /\ \A w \in Words, c, b \in Byte : w \o <<c>> # <<b>>
  /\ \A v, w \in Words, c, b \in Byte : v \o <<c>> = w \o <<b>> => v = w /\ c = b
<1>1. ASSUME NEW w \in Words, NEW c \in Byte
      PROVE  /\ w \o <<c>> \in Seq(Byte) /\ Len(w) \in Nat /\ Len(w) > 0
             /\ Len(w \o <<c>>) = Len(w) + 1 /\ w \o <<c>> = Append(w, c)
  <2>1. w \in Seq(Byte) /\ w # <<>> /\ <<c>> \in Seq(Byte) /\ Len(<<c>>) = 1
    BY DEF Words
  <2>2. /\ w \o <<c>> \in Seq(Byte) /\ Len(w \o <<c>>) = Len(w) + Len(<<c>>)
    BY <2>1, ConcatProperties
  <2>3. Len(w) \in Nat /\ Len(w) # 0
    BY <2>1, LenProperties, EmptySeq
  <2>4. Append(w, c) = w \o <<c>>
    BY <2>1, AppendIsConcat
  <2> QED BY <2>1, <2>2, <2>3, <2>4
<1>2. \A w \in Words, c \in Byte : w \o <<c>> \in Words
  <2> SUFFICES ASSUME NEW w \in Words, NEW c \in Byte PROVE w \o <<c>> \in Words
    OBVIOUS
  <2>1. w \o <<c>> \in Seq(Byte) /\ Len(w \o <<c>>) # 0
    BY <1>1
  <2>2. Len(<<>>) = 0
    OBVIOUS
  <2> HIDE DEF Byte
  <2> QED BY <2>1, <2>2, Zenon DEF Words
<1>3. \A w \in Words : w \o <<>> = w
  BY ConcatEmptySeq DEF Words
<1>4. \A w \in Words, c, b \in Byte : w \o <<c>> # <<b>>
  <2> SUFFICES ASSUME NEW w \in Words, NEW c \in Byte, NEW b \in Byte, w \o <<c>> = <<b>>
               PROVE  FALSE
    OBVIOUS
  <2>1. Len(w \o <<c>>) = Len(w) + 1 /\ Len(w) > 0 /\ Len(w) \in Nat
    BY <1>1
  <2>2. Len(<<b>>) = 1
    OBVIOUS
  <2>3. Len(w) + 1 = 1
    BY <2>1, <2>2, Zenon
  <2> QED BY <2>1, <2>3, SMT
<1>5. \A v, w \in Words, c, b \in Byte : v \o <<c>> = w \o <<b>> => v = w /\ c = b
  <2>1. \A s, t \in Seq(Byte), e, f \in Byte : Append(s, e) = Append(t, f) => s = t /\ e = f
    BY AppendInjective
  <2>2. \A w \in Words : w \in Seq(Byte)
    BY DEF Words
  <2> SUFFICES ASSUME NEW v \in Words, NEW w \in Words, NEW c \in Byte, NEW b \in Byte,
                      v \o <<c>> = w \o <<b>>
               PROVE  v = w /\ c = b
    OBVIOUS
  <2>3. Append(v, c) = Append(w, b)
    BY <1>1, Zenon
  <2>4. v \in Seq(Byte) /\ w \in Seq(Byte)
    BY <2>2
  <2> HIDE DEF Byte
  <2> QED BY <2>1, <2>3, <2>4, SMT
<1> QED BY <1>2, <1>3, <1>4, <1>5, Zenon

\* The table of words t and the dictionary d of codes and bytes have the same
\* entries; n is the next code of both.
SameEntries(t, d, n) ==
  /\ DOMAIN t \subseteq Words
  /\ \A c \in Byte : <<c>> \in DOMAIN t /\ t[<<c>>] = c
  /\ \A w \in DOMAIN t : t[w] \in 0 .. n - 1
  /\ \A v, w \in DOMAIN t : t[v] = t[w] => v = w
  /\ \A w \in Words, c \in Byte :
       w \o <<c>> \in DOMAIN t <=> w \in DOMAIN t /\ <<t[w], c>> \in DOMAIN d
  /\ \A w \in DOMAIN t, c \in Byte :
       w \o <<c>> \in DOMAIN t => t[w \o <<c>>] = d[<<t[w], c>>]
  /\ \A m, c : <<m, c>> \in DOMAIN d => m \in 0 .. n - 1

\* A state g of the reference encoding and what the coder has in its place.
Agrees(g, d, n, pre, given) ==
  /\ g = [table |-> g.table, p |-> g.p, code |-> n, output |-> given]
  /\ SameEntries(g.table, d, n)
  /\ g.p \in DOMAIN g.table /\ g.table[g.p] = pre

LEMMA AgreeHit ==
  ASSUME NEW g, NEW d, NEW n, NEW pre, NEW given, Agrees(g, d, n, pre, given),
         NEW c \in Byte, <<pre, c>> \in DOMAIN d
  PROVE  Agrees(GoldenStep(g, <<c>>), d, n, d[<<pre, c>>], given)
<1> DEFINE word == g.p \o <<c>>
           t == g.table
<1>1. g.p \in Words /\ SameEntries(t, d, n)
  BY DEF Agrees, SameEntries
<1>2. word \in DOMAIN t /\ t[word] = d[<<pre, c>>]
  BY <1>1 DEF Agrees, SameEntries
<1>3. GoldenStep(g, <<c>>) = [g EXCEPT !.p = word]
  BY <1>2 DEF GoldenStep
<1>4. [g EXCEPT !.p = word] = [table |-> t, p |-> word, code |-> n, output |-> given]
  <2>1. g = [table |-> t, p |-> g.p, code |-> n, output |-> given]
    BY DEF Agrees
  <2> HIDE DEF word, t
  <2> QED BY <2>1
<1> HIDE DEF word, t
<1> QED BY <1>1, <1>2, <1>3, <1>4 DEF Agrees

LEMMA AgreeFlush ==
  ASSUME NEW g, NEW d, NEW n, NEW pre, NEW given, Agrees(g, d, n, pre, given)
  PROVE  GoldenStep(g, <<>>) = g
<1>1. g.p \o <<>> = g.p /\ g.p \in DOMAIN g.table
  BY WordFacts DEF Agrees, SameEntries
<1>2. GoldenStep(g, <<>>) = [g EXCEPT !.p = g.p]
  BY <1>1 DEF GoldenStep
<1>3. [g EXCEPT !.p = g.p] = g
  BY DEF Agrees
<1> QED BY <1>2, <1>3

LEMMA AgreeMiss ==
  ASSUME NEW g, NEW d, NEW n \in Nat, NEW pre, NEW given, Agrees(g, d, n, pre, given),
         n >= Radix, NEW c \in Byte, <<pre, c>> \notin DOMAIN d
  PROVE  Agrees(GoldenStep(g, <<c>>),
                [k \in DOMAIN d \cup {<<pre, c>>} |-> IF k = <<pre, c>> THEN n ELSE d[k]],
                n + 1, c, Append(given, pre))
<1> DEFINE word == g.p \o <<c>>
           t == g.table
           u == [w \in DOMAIN t \cup {word} |-> IF w = word THEN n ELSE t[w]]
           e == [k \in DOMAIN d \cup {<<pre, c>>} |-> IF k = <<pre, c>> THEN n ELSE d[k]]
<1>1. /\ g.p \in Words /\ g.p \in DOMAIN t /\ t[g.p] = pre /\ SameEntries(t, d, n)
      /\ g.code = n /\ g.output = given
  BY DEF Agrees, SameEntries
<1>2. word \notin DOMAIN t /\ word \in Words
  BY <1>1, WordFacts DEF SameEntries
<1>3. GoldenStep(g, <<c>>) = [table |-> u, p |-> <<c>>, code |-> n + 1,
                              output |-> Append(given, pre)]
  BY <1>1, <1>2 DEF GoldenStep
<1>4. pre \in 0 .. n - 1
  BY <1>1 DEF SameEntries
<1>5. /\ DOMAIN u = DOMAIN t \cup {word} /\ u[word] = n
      /\ \A w \in DOMAIN t : w # word /\ u[w] = t[w]
      /\ DOMAIN e = DOMAIN d \cup {<<pre, c>>} /\ e[<<pre, c>>] = n
      /\ \A k \in DOMAIN d : k # <<pre, c>> /\ e[k] = d[k]
  BY <1>2
<1>6. /\ \A b \in Byte : word # <<b>>
      /\ \A w \in Words, b \in Byte : w \o <<b>> = word => w = g.p /\ b = c
      /\ \A w \in Words, b \in Byte : w \o <<b>> \in Words
  <2>1. \A w \in Words, a, b \in Byte : w \o <<a>> # <<b>>
    BY WordFacts, Zenon
  <2>2. \A v, w \in Words, a, b \in Byte : v \o <<a>> = w \o <<b>> => v = w /\ a = b
    BY WordFacts, Zenon
  <2>3. \A w \in Words, b \in Byte : w \o <<b>> \in Words
    BY WordFacts, Zenon
  <2>4. \A b \in Byte : word # <<b>>
    BY <1>1, <2>1
  <2>5. \A w \in Words, b \in Byte : w \o <<b>> = word => w = g.p /\ b = c
    BY <1>1, <2>2
  <2> QED BY <2>3, <2>4, <2>5, Zenon
<1>7. word = g.p \o <<c>>
  OBVIOUS
<1> HIDE DEF word, t, u, e
<1>8. DOMAIN u \subseteq Words
  BY <1>1, <1>2, <1>5 DEF SameEntries
<1>9. \A b \in Byte : <<b>> \in DOMAIN u /\ u[<<b>>] = b
  BY <1>1, <1>5, <1>6 DEF SameEntries
<1>10. \A w \in DOMAIN t : t[w] \in 0 .. n - 1 /\ t[w] # n
  BY <1>1 DEF SameEntries
<1>11. \A w \in DOMAIN u : u[w] \in 0 .. (n + 1) - 1
  BY <1>5, <1>10
<1>12. \A v, w \in DOMAIN u : u[v] = u[w] => v = w
  <2> SUFFICES ASSUME NEW v \in DOMAIN u, NEW w \in DOMAIN u, u[v] = u[w]
               PROVE  v = w
    OBVIOUS
  <2>1. \A x, y \in DOMAIN t : t[x] = t[y] => x = y
    BY <1>1 DEF SameEntries
  <2> QED BY <2>1, <1>5, <1>10
<1>13. \A m, b : <<m, b>> \in DOMAIN d => m \in 0 .. n - 1 /\ m # n
  BY <1>1 DEF SameEntries
<1>14. \A m, b : <<m, b>> \in DOMAIN e => m \in 0 .. (n + 1) - 1
  BY <1>4, <1>5, <1>13
<1>15. \A w \in Words, b \in Byte :
         w \o <<b>> \in DOMAIN t <=> w \in DOMAIN t /\ <<t[w], b>> \in DOMAIN d
  BY <1>1 DEF SameEntries
<1>16. ASSUME NEW w \in Words, NEW b \in Byte
       PROVE  w \o <<b>> \in DOMAIN u <=> w \in DOMAIN u /\ <<u[w], b>> \in DOMAIN e
  <2>1. ASSUME w \o <<b>> \in DOMAIN u
        PROVE  w \in DOMAIN u /\ <<u[w], b>> \in DOMAIN e
    <3>1. CASE w \o <<b>> = word
      <4>1. w = g.p /\ b = c
        BY <3>1, <1>6
      <4> QED BY <4>1, <1>1, <1>5
    <3>2. CASE w \o <<b>> \in DOMAIN t
      BY <3>2, <1>5, <1>15
    <3> QED BY <2>1, <3>1, <3>2, <1>5
  <2>2. ASSUME w \in DOMAIN u, <<u[w], b>> \in DOMAIN e
        PROVE  w \o <<b>> \in DOMAIN u
    <3>1. CASE w = word
      <4>1. u[w] = n /\ n # pre
        BY <3>1, <1>4, <1>5
      <4>2. <<n, b>> \in DOMAIN d
        BY <2>2, <4>1, <1>5
      <4> QED BY <4>2, <1>13
    <3>2. CASE w \in DOMAIN t /\ <<t[w], b>> \in DOMAIN d
      BY <3>2, <1>5, <1>15
    <3>3. CASE w \in DOMAIN t /\ <<t[w], b>> = <<pre, c>>
      <4>1. w = g.p /\ b = c
        BY <3>3, <1>1 DEF SameEntries
      <4> QED BY <4>1, <1>5, <1>7
    <3> QED BY <2>2, <3>1, <3>2, <3>3, <1>5
  <2> QED BY <2>1, <2>2
<1>17. ASSUME NEW w \in DOMAIN u, NEW b \in Byte, w \o <<b>> \in DOMAIN u
       PROVE  u[w \o <<b>>] = e[<<u[w], b>>]
  <2>0. w \in Words
    BY <1>8
  <2>1. CASE w \o <<b>> = word
    <3>1. w = g.p /\ b = c
      BY <2>0, <2>1, <1>6
    <3> QED BY <2>1, <3>1, <1>1, <1>5
  <2>2. CASE w \o <<b>> \in DOMAIN t
    <3>1. w \in DOMAIN t /\ <<t[w], b>> \in DOMAIN d
      BY <2>0, <2>2, <1>15
    <3>2. t[w \o <<b>>] = d[<<t[w], b>>]
      BY <2>2, <3>1, <1>1 DEF SameEntries
    <3> QED BY <2>2, <3>1, <3>2, <1>5
  <2> QED BY <2>1, <2>2, <1>5, <1>17
<1>18. SameEntries(u, e, n + 1)
  BY <1>8, <1>9, <1>11, <1>12, <1>14, <1>16, <1>17 DEF SameEntries
<1>19. Agrees([table |-> u, p |-> <<c>>, code |-> n + 1, output |-> Append(given, pre)],
              e, n + 1, c, Append(given, pre))
  BY <1>9, <1>18 DEF Agrees
<1> QED BY <1>3, <1>19 DEF e

LEMMA AgreeStart ==
  ASSUME NEW s, s[1] \in Byte, NEW d, DOMAIN d = {}
  PROVE  Agrees(GoldenStart(s), d, Radix, s[1], <<>>)
<1> DEFINE t == [w \in {<<v>> : v \in 0 .. Radix - 1} |-> w[1]]
<1>1. GoldenStart(s) = [table |-> t, p |-> <<s[1]>>, code |-> Radix, output |-> <<>>]
  BY DEF GoldenStart
<1>2. DOMAIN t = {<<v>> : v \in Byte} /\ \A v \in Byte : <<v>> \in DOMAIN t /\ t[<<v>>] = v
  BY DEF Byte
<1>3. DOMAIN d = {}
  OBVIOUS
<1>4. DOMAIN t \subseteq Words
  <2>1. \A v \in Byte : <<v>> \in Seq(Byte) /\ <<v>> # <<>>
    OBVIOUS
  <2> HIDE DEF t
  <2> QED BY <1>2, <2>1, Zenon DEF Words
<1> HIDE DEF t
<1>5. \A w \in DOMAIN t : t[w] \in 0 .. Radix - 1
  BY <1>2 DEF Byte
<1>6. \A v, w \in DOMAIN t : t[v] = t[w] => v = w
  BY <1>2
<1>7. \A w \in Words, c \in Byte : w \o <<c>> \notin DOMAIN t
  <2>1. \A w \in Words, a, b \in Byte : w \o <<a>> # <<b>>
    BY WordFacts, Zenon
  <2>2. \A x \in DOMAIN t : \E b \in Byte : x = <<b>>
    BY <1>2
  <2> QED BY <2>1, <2>2, Zenon
<1>8. SameEntries(t, d, Radix)
  BY <1>2, <1>3, <1>4, <1>5, <1>6, <1>7 DEF SameEntries
<1> QED BY <1>1, <1>2, <1>8 DEF Agrees
=============================================================================
