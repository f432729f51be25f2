---------------------------- MODULE Library_proofs ----------------------------
(***************************************************************************)
(* Theorems about the calls of Library, for every message a hart or the    *)
(* memory controller can send and every sequence of bytes that can arrive. *)
(***************************************************************************)
EXTENDS LibraryLaws, Fold_proofs, SequenceTheorems

-------------------------------------------------------------------------------
(***************************************************************************)
(* Quotients.                                                              *)
(***************************************************************************)
\* A number is made of its quotient and its remainder in one way.
LEMMA OneQuotient ==
  ASSUME NEW c \in Nat \ {0}, NEW q \in Nat, NEW r \in 0 .. c - 1
  PROVE  (r + c * q) \div c = q /\ (r + c * q) % c = r
<1> DEFINE n == r + c * q
           p == n \div c
           t == n % c
<1>1. n \in Nat
  OBVIOUS
<1> HIDE DEF n
<1>2. p \in Int /\ t \in 0 .. c - 1 /\ n = c * p + t
  BY <1>1
<1> HIDE DEF p, t
<1>3. c * (p - q) = r - t
  BY <1>2 DEF n
<1>4. CASE p = q
  BY <1>2, <1>3, <1>4 DEF n, p, t
<1>5. CASE p > q
  <2>1. c * (p - q) >= c
    BY <1>2, <1>5
  <2>2. QED
    BY <1>2, <1>3, <2>1
<1>6. CASE p < q
  <2>1. c * (q - p) >= c
    BY <1>2, <1>6
  <2>2. c * (q - p) = t - r
    BY <1>2, <1>3
  <2>3. QED
    BY <1>2, <2>1, <2>2
<1>7. QED
  BY <1>2, <1>4, <1>5, <1>6

\* Dividing twice is dividing by the product.
LEMMA QuotientTwice ==
  ASSUME NEW v \in Nat, NEW a \in Nat \ {0}, NEW b \in Nat \ {0}
  PROVE  /\ (v \div a) \div b = v \div (b * a)
         /\ v \div a = ((v \div a) % b) + b * (v \div (b * a))
<1> DEFINE q == v \div a
           r == v % a
           s == q \div b
           t == q % b
<1>1. q \in Nat /\ r \in 0 .. a - 1 /\ v = a * q + r
  OBVIOUS
<1> HIDE DEF q, r
<1>2. s \in Nat /\ t \in 0 .. b - 1 /\ q = b * s + t
  BY <1>1
<1> HIDE DEF s, t
<1> DEFINE u == a * t + r
<1>3. u \in 0 .. b * a - 1 /\ b * a \in Nat \ {0}
  <2>1. a * t \in Nat /\ a * t <= a * (b - 1) /\ b * a \in Nat \ {0}
    BY <1>2
  <2>2. a * (b - 1) = b * a - a
    OBVIOUS
  <2>3. QED
    BY <1>1, <2>1, <2>2
<1>4. v = u + (b * a) * s
  BY <1>1, <1>2
<1> HIDE DEF u
<1>5. v \div (b * a) = s
  BY <1>2, <1>3, <1>4, OneQuotient
<1>6. QED
  BY <1>2, <1>5 DEF q, s, t

\* The numbers of so many bytes.
Radix == 2 ^ ByteBits
Power(k) == 2 ^ (k * ByteBits)

\* Each byte more multiplies them.
LEMMA Powers ==
  /\ Radix \in Nat \ {0, 1} /\ Power(0) = 1
  /\ \A k \in 0 .. 8 : Power(k) \in Nat \ {0}
  /\ \A k \in 0 .. 7 : Power(k + 1) = Radix * Power(k)
<1>1. Radix \in Nat \ {0, 1}
  <2>1. 2 ^ 1 \in Nat \ {0, 1} /\ 2 ^ 2 \in Nat \ {0, 1} /\ 2 ^ 3 \in Nat \ {0, 1}
    BY SMT
  <2>2. 2 ^ 4 \in Nat \ {0, 1} /\ 2 ^ 5 \in Nat \ {0, 1} /\ 2 ^ 6 \in Nat \ {0, 1}
    BY SMT
  <2>3. 2 ^ 7 \in Nat \ {0, 1} /\ 2 ^ 8 \in Nat \ {0, 1}
    BY SMT
  <2>4. \/ ByteBits = 1 \/ ByteBits = 2 \/ ByteBits = 3 \/ ByteBits = 4
        \/ ByteBits = 5 \/ ByteBits = 6 \/ ByteBits = 7 \/ ByteBits = 8
    BY CallsAssumption
  <2>5. QED
    BY <2>1, <2>2, <2>3, <2>4, Zenon DEF Radix
<1>2. Power(0) = 1
  <2>1. 0 * ByteBits = 0
    BY CallsAssumption
  <2>2. 2 ^ 0 = 1
    BY SMT
  <2>3. QED
    BY <2>1, <2>2, Zenon DEF Power
<1>3. \A k \in 0 .. 7 : Power(k + 1) = Radix * Power(k)
  BY PowersAssumption DEF Power, Radix
<1> DEFINE N == {k \in Nat : k <= 8 => Power(k) \in Nat \ {0}}
<1>4. 0 \in N
  BY <1>2
<1>5. ASSUME NEW k \in N PROVE k + 1 \in N
  <2> SUFFICES ASSUME k + 1 <= 8 PROVE Power(k + 1) \in Nat \ {0}
    OBVIOUS
  <2>1. k \in 0 .. 7 /\ Power(k) \in Nat \ {0}
    OBVIOUS
  <2>2. \A p \in Nat \ {0} : Radix * p \in Nat \ {0}
    BY <1>1
  <2>3. QED
    BY <1>3, <2>1, <2>2
<1>6. N = Nat
  <2> HIDE DEF N
  <2>1. N \in SUBSET Nat
    BY DEF N
  <2>2. QED
    BY <1>4, <1>5, <2>1, AllNumbers
<1>7. \A k \in 0 .. 8 : Power(k) \in Nat \ {0}
  <2>1. \A k \in 0 .. 8 : k \in N
    BY <1>6
  <2>2. QED
    BY <2>1
<1>8. QED
  BY <1>1, <1>2, <1>3, <1>7

-------------------------------------------------------------------------------
(***************************************************************************)
(* Numbers as bytes.                                                       *)
(***************************************************************************)
ReadAs(d) == FoldRight(LAMBDA byte, high : byte + 2 ^ ByteBits * high, d, 0)
Field(n) == 0 .. Power(n) - 1

\* A byte.
LEMMA ByteFacts == Bytes!Byte = 0 .. Radix - 1 /\ Bytes!Byte \subseteq Nat
BY Powers DEF Bytes!Byte, Bytes!Word, Radix

\* The bytes of a number.
LEMMA AppendFacts ==
  ASSUME NEW v \in Nat, NEW n \in 0 .. 8
  PROVE  /\ Bytes!append_le(v, n) \in Seq(Bytes!Byte) /\ Len(Bytes!append_le(v, n)) = n
         /\ \A i \in 1 .. n :
              Bytes!append_le(v, n)[i] = (v \div Power(i - 1)) % Radix
<1> DEFINE d == Bytes!append_le(v, n)
<1>1. ASSUME NEW i \in 1 .. n
      PROVE  Bytes!Extract(v, i * ByteBits - 1, (i - 1) * ByteBits) = (v \div Power(i - 1)) % Radix
  <2>1. (i * ByteBits - 1) - (i - 1) * ByteBits + 1 = ByteBits
    BY CallsAssumption
  <2>2. QED
    BY <2>1, Zenon DEF Bytes!Extract, Power, Radix
<1>2. d = [i \in 1 .. n |-> Bytes!Extract(v, i * ByteBits - 1, (i - 1) * ByteBits)]
  BY DEF Bytes!append_le
<1>3. d = [i \in 1 .. n |-> (v \div Power(i - 1)) % Radix]
  BY <1>1, <1>2, Zenon
<1> HIDE DEF d
<1>4. \A i \in 1 .. n : (v \div Power(i - 1)) % Radix \in Bytes!Byte
  <2>1. \A p \in Nat \ {0} : (v \div p) % Radix \in 0 .. Radix - 1
    BY Powers
  <2>2. \A i \in 1 .. n : i - 1 \in 0 .. 8
    OBVIOUS
  <2>3. QED
    BY <2>1, <2>2, Powers, ByteFacts
<1>5. n \in Nat /\ d \in [1 .. n -> Bytes!Byte]
  BY <1>3, <1>4
<1>6. d \in Seq(Bytes!Byte) /\ Len(d) = n
  BY <1>5
<1>7. QED
  BY <1>3, <1>6 DEF d

\* What the bytes of a number are read as.
LEMMA ReadsNumber ==
  ASSUME NEW n \in 0 .. 8, NEW v \in Field(n)
  PROVE  ReadAs(Bytes!append_le(v, n)) = v
<1> DEFINE d == Bytes!append_le(v, n)
<1>1. v \in Nat /\ n \in Nat /\ v < Power(n) /\ Power(n) \in Nat \ {0}
  BY Powers DEF Field
<1>2. d \in Seq(Nat) /\ Len(d) = n /\ \A i \in 1 .. n : d[i] = (v \div Power(i - 1)) % Radix
  <2>1. /\ d \in Seq(Bytes!Byte) /\ Len(d) = n
        /\ \A i \in 1 .. n : d[i] = (v \div Power(i - 1)) % Radix
    BY <1>1, AppendFacts
  <2> HIDE DEF d
  <2>2. d \in Seq(Nat)
    BY <2>1, ByteFacts, SeqMonotonic
  <2>3. QED
    BY <2>1, <2>2
<1> HIDE DEF d
<1>3. PICK w \in [1 .. n + 1 -> Nat] :
        ReadAs(d) = w[1] /\ w[n + 1] = 0 /\ \A i \in 1 .. n : w[i] = d[i] + Radix * w[i + 1]
  <2>1. 2 ^ ByteBits \in Nat
    BY Powers DEF Radix
  <2>2. QED
    BY <1>2, <2>1, LittleEndian DEF ReadAs, Radix
<1> DEFINE Rest(i) == v \div Power(i - 1)
           N == {k \in Nat : k <= n => w[n + 1 - k] = Rest(n + 1 - k)}
<1>4. 0 \in N
  <2>1. v \div Power(n) = 0
    <3>1. v \in 0 .. Power(n) - 1 /\ v + Power(n) * 0 = v
      BY <1>1
    <3>2. (v + Power(n) * 0) \div Power(n) = 0
      BY <1>1, <3>1, OneQuotient
    <3>3. QED
      BY <3>1, <3>2
  <2>2. QED
    BY <1>1, <1>3, <2>1
<1>5. ASSUME NEW k \in N PROVE k + 1 \in N
  <2> SUFFICES ASSUME k + 1 <= n PROVE w[n + 1 - (k + 1)] = Rest(n + 1 - (k + 1))
    OBVIOUS
  <2> DEFINE i == n - k
  <2>1. /\ i \in 1 .. n /\ n + 1 - (k + 1) = i /\ n + 1 - k = i + 1 /\ k <= n
        /\ i - 1 \in 0 .. 7 /\ i - 1 \in 0 .. 8 /\ (i - 1) + 1 = i /\ (i + 1) - 1 = i
    BY <1>1
  <2> HIDE DEF i
  <2>2. w[i] = d[i] + Radix * Rest(i + 1) /\ d[i] = Rest(i) % Radix
    BY <1>2, <1>3, <2>1
  <2>3. Power(i) = Radix * Power(i - 1) /\ Power(i - 1) \in Nat \ {0} /\ Radix \in Nat \ {0}
    <3>1. Power(i - 1) \in Nat \ {0}
      BY <2>1, Powers
    <3>2. Power((i - 1) + 1) = Radix * Power(i - 1)
      BY <2>1, Powers
    <3>3. QED
      BY <2>1, <3>1, <3>2, Powers
  <2>4. Rest(i) = (Rest(i) % Radix) + Radix * (v \div (Radix * Power(i - 1)))
    BY <1>1, <2>3, QuotientTwice
  <2>5. Rest(i + 1) = v \div (Radix * Power(i - 1))
    BY <2>1, <2>3
  <2> HIDE DEF Rest
  <2>6. QED
    BY <2>1, <2>2, <2>4, <2>5
<1>6. N = Nat
  <2> HIDE DEF N
  <2>1. N \in SUBSET Nat
    BY DEF N
  <2>2. QED
    BY <1>4, <1>5, <2>1, AllNumbers
<1>7. n \in N
  BY <1>1, <1>6
<1>8. w[1] = v
  <2>1. w[1] = v \div Power(0)
    <3>1. n + 1 - n = 1 /\ 1 - 1 = 0
      BY <1>1
    <3>2. QED
      BY <1>7, <3>1
  <2>2. v \div 1 = v
    BY <1>1
  <2>3. QED
    BY <2>1, <2>2, Powers
<1>9. QED
  BY <1>3, <1>8 DEF d

\* What is read of bytes has these bytes.
LEMMA WritesBytes ==
  ASSUME NEW d \in Seq(Bytes!Byte), Len(d) <= 8
  PROVE  ReadAs(d) \in Nat /\ Bytes!append_le(ReadAs(d), Len(d)) = d
<1> DEFINE n == Len(d)
<1>1. n \in 0 .. 8 /\ d \in Seq(Nat) /\ \A i \in 1 .. n : d[i] \in 0 .. Radix - 1
  <2>1. n \in 0 .. 8
    <3>1. Len(d) \in Nat
      OBVIOUS
    <3>2. \A k \in Nat : k <= 8 => k \in 0 .. 8
      BY SMT
    <3>3. QED
      BY <3>1, <3>2
  <2>2. d \in Seq(Nat)
    BY ByteFacts, SeqMonotonic
  <2>3. \A i \in 1 .. n : d[i] \in Bytes!Byte
    BY ElementOfSeq
  <2>4. QED
    BY <2>1, <2>2, <2>3, ByteFacts
<1> HIDE DEF n
<1>2. PICK w \in [1 .. n + 1 -> Nat] :
        ReadAs(d) = w[1] /\ \A i \in 1 .. n : w[i] = d[i] + Radix * w[i + 1]
  <2>1. 2 ^ ByteBits \in Nat
    BY Powers DEF Radix
  <2>2. QED
    BY <1>1, <2>1, LittleEndian DEF ReadAs, Radix, n
<1>3. ReadAs(d) \in Nat
  BY <1>1, <1>2
<1> DEFINE v == ReadAs(d)
<1> HIDE DEF v
<1>4. ASSUME NEW i \in 1 .. n PROVE w[i] \div Radix = w[i + 1] /\ w[i] % Radix = d[i]
  <2>1. w[i + 1] \in Nat /\ w[i] = d[i] + Radix * w[i + 1] /\ d[i] \in 0 .. Radix - 1
    BY <1>1, <1>2
  <2>2. QED
    BY <2>1, Powers, OneQuotient
<1> DEFINE N == {k \in Nat : k <= n => v \div Power(k) = w[k + 1]}
<1>5. 0 \in N
  <2>1. v \div 1 = v
    BY <1>3 DEF v
  <2>2. v \div Power(0) = w[0 + 1]
    BY <1>2, <2>1, Powers DEF v
  <2>3. QED
    BY <2>2
<1>6. ASSUME NEW k \in N PROVE k + 1 \in N
  <2> SUFFICES ASSUME k + 1 <= n PROVE v \div Power(k + 1) = w[(k + 1) + 1]
    OBVIOUS
  <2>1. k \in 0 .. 7 /\ k \in 0 .. 8 /\ k + 1 \in 1 .. n /\ v \div Power(k) = w[k + 1]
    BY <1>1
  <2>2. Power(k + 1) = Radix * Power(k) /\ Power(k) \in Nat \ {0} /\ Radix \in Nat \ {0}
    BY <2>1, Powers
  <2>3. (v \div Power(k)) \div Radix = v \div (Radix * Power(k))
    BY <1>3, <2>2, QuotientTwice DEF v
  <2>4. QED
    BY <1>4, <2>1, <2>2, <2>3
<1>7. N = Nat
  <2> HIDE DEF N
  <2>1. N \in SUBSET Nat
    BY DEF N
  <2>2. QED
    BY <1>5, <1>6, <2>1, AllNumbers
<1>8. ASSUME NEW i \in 1 .. n PROVE (v \div Power(i - 1)) % Radix = d[i]
  <2>1. i - 1 \in N /\ i - 1 <= n /\ (i - 1) + 1 = i
    <3>1. i - 1 \in Nat /\ i - 1 <= n /\ (i - 1) + 1 = i
      BY <1>1
    <3> HIDE DEF N
    <3>2. QED
      BY <1>7, <3>1
  <2>2. v \div Power(i - 1) = w[i]
    BY <2>1
  <2>3. QED
    BY <1>4, <2>2
<1> DEFINE e == Bytes!append_le(v, n)
<1>9. e \in Seq(Bytes!Byte) /\ Len(e) = n /\ \A i \in 1 .. n : e[i] = d[i]
  <2>1. v \in Nat
    BY <1>3 DEF v
  <2>2. QED
    BY <1>1, <1>8, <2>1, AppendFacts
<1> HIDE DEF e
<1>10. e = d
  <2>1. Len(e) = Len(d)
    BY <1>9 DEF n
  <2>2. QED
    BY <1>1, <1>9, <2>1, SeqEqual
<1>11. QED
  BY <1>3, <1>10 DEF e, v, n

-------------------------------------------------------------------------------
(***************************************************************************)
(* Parts of sequences.                                                     *)
(***************************************************************************)
\* A part of a concatenation that is in the first sequence, and the second one.
LEMMA PartsOfConcat ==
  ASSUME NEW S, NEW x \in Seq(S), NEW y \in Seq(S)
  PROVE  /\ x \o y \in Seq(S) /\ Len(x \o y) = Len(x) + Len(y)
         /\ \A m \in 1 .. Len(x) + 1, k \in 0 .. Len(x) : SubSeq(x \o y, m, k) = SubSeq(x, m, k)
         /\ \A i \in 1 .. Len(x) : (x \o y)[i] = x[i]
         /\ SubSeq(x \o y, Len(x) + 1, Len(x) + Len(y)) = y
<1> DEFINE z == x \o y
<1>1. /\ z \in Seq(S) /\ Len(z) = Len(x) + Len(y) /\ Len(x) \in Nat /\ Len(y) \in Nat
      /\ \A i \in 1 .. Len(x) : z[i] = x[i] /\ x[i] \in S
      /\ \A i \in 1 .. Len(y) : z[Len(x) + i] = y[i] /\ y[i] \in S
  OBVIOUS
<1> HIDE DEF z
<1>2. ASSUME NEW m \in 1 .. Len(x) + 1, NEW k \in 0 .. Len(x)
      PROVE  SubSeq(z, m, k) = SubSeq(x, m, k)
  <2>1. /\ m \in Int /\ k \in Int
        /\ \A i \in m .. k : z[i] \in S /\ x[i] \in S /\ z[i] = x[i]
    <3>1. m \in Int /\ k \in Int /\ \A i \in m .. k : i \in 1 .. Len(x)
      BY <1>1
    <3>2. QED
      BY <1>1, <3>1
  <2> DEFINE a == SubSeq(z, m, k)
             b == SubSeq(x, m, k)
  <2>2. /\ a \in Seq(S) /\ Len(a) = IF m <= k THEN k - m + 1 ELSE 0
        /\ \A i \in 1 .. k - m + 1 : a[i] = z[m + i - 1]
    BY <2>1, SubSeqProperties
  <2>3. /\ b \in Seq(S) /\ Len(b) = IF m <= k THEN k - m + 1 ELSE 0
        /\ \A i \in 1 .. k - m + 1 : b[i] = x[m + i - 1]
    BY <2>1, SubSeqProperties
  <2> HIDE DEF a, b
  <2>4. Len(a) = Len(b) /\ \A i \in 1 .. Len(a) : i \in 1 .. k - m + 1 /\ m + i - 1 \in m .. k
    BY <2>1, <2>2, <2>3
  <2>5. \A i \in 1 .. Len(a) : a[i] = b[i]
    BY <2>1, <2>2, <2>3, <2>4
  <2>6. a = b
    BY <2>2, <2>3, <2>4, <2>5, SeqEqual
  <2>7. QED
    BY <2>6 DEF a, b
<1>3. SubSeq(z, Len(x) + 1, Len(x) + Len(y)) = y
  <2> DEFINE m == Len(x) + 1
             k == Len(x) + Len(y)
             a == SubSeq(z, m, k)
  <2>1. m \in Int /\ k \in Int /\ k - m + 1 = Len(y) /\ \A i \in m .. k : z[i] \in S
    BY <1>1
  <2>2. /\ a \in Seq(S) /\ Len(a) = IF m <= k THEN k - m + 1 ELSE 0
        /\ \A i \in 1 .. k - m + 1 : a[i] = z[m + i - 1]
    <3> HIDE DEF m, k
    <3>1. QED
      BY <2>1, SubSeqProperties
  <2> HIDE DEF a
  <2>3. Len(a) = Len(y)
    BY <1>1, <2>1, <2>2
  <2>4. ASSUME NEW i \in 1 .. Len(a) PROVE a[i] = y[i]
    <3>1. i \in 1 .. Len(y) /\ i \in 1 .. k - m + 1 /\ m + i - 1 = Len(x) + i
      BY <1>1, <2>1, <2>3
    <3>2. QED
      BY <1>1, <2>2, <3>1
  <2>5. a = y
    BY <2>2, <2>3, <2>4, SeqEqual
  <2>6. QED
    BY <2>5 DEF a, m, k
<1>4. QED
  BY <1>1, <1>2, <1>3 DEF z

\* Two parts that meet.
LEMMA PartsJoin ==
  ASSUME NEW S, NEW x \in Seq(S), NEW m \in 0 .. Len(x), NEW k \in m .. Len(x)
  PROVE  SubSeq(x, 1, m) \o SubSeq(x, m + 1, k) = SubSeq(x, 1, k)
<1> DEFINE a == SubSeq(x, 1, m)
           b == SubSeq(x, m + 1, k)
           c == SubSeq(x, 1, k)
<1>1. Len(x) \in Nat /\ m \in Nat /\ k \in Nat /\ m <= k /\ \A i \in 1 .. Len(x) : x[i] \in S
  OBVIOUS
<1>2. a \in Seq(S) /\ Len(a) = m /\ \A i \in 1 .. m : a[i] = x[i]
  <2>1. \A i \in 1 .. m : x[i] \in S
    BY <1>1
  <2>2. /\ a \in Seq(S) /\ Len(a) = IF 1 <= m THEN m - 1 + 1 ELSE 0
        /\ \A i \in 1 .. m - 1 + 1 : a[i] = x[1 + i - 1]
    BY <1>1, <2>1, SubSeqProperties
  <2> HIDE DEF a
  <2>3. QED
    BY <1>1, <2>2
<1>3. b \in Seq(S) /\ Len(b) = k - m /\ \A i \in 1 .. k - m : b[i] = x[m + i]
  <2>1. \A i \in m + 1 .. k : x[i] \in S
    BY <1>1
  <2>2. /\ b \in Seq(S) /\ Len(b) = IF m + 1 <= k THEN k - (m + 1) + 1 ELSE 0
        /\ \A i \in 1 .. k - (m + 1) + 1 : b[i] = x[(m + 1) + i - 1]
    BY <1>1, <2>1, SubSeqProperties
  <2> HIDE DEF b
  <2>3. QED
    BY <1>1, <2>2
<1>4. c \in Seq(S) /\ Len(c) = k /\ \A i \in 1 .. k : c[i] = x[i]
  <2>1. \A i \in 1 .. k : x[i] \in S
    BY <1>1
  <2>2. /\ c \in Seq(S) /\ Len(c) = IF 1 <= k THEN k - 1 + 1 ELSE 0
        /\ \A i \in 1 .. k - 1 + 1 : c[i] = x[1 + i - 1]
    BY <1>1, <2>1, SubSeqProperties
  <2> HIDE DEF c
  <2>3. QED
    BY <1>1, <2>2
<1> HIDE DEF a, b, c
<1> DEFINE z == a \o b
<1>5. /\ z \in Seq(S) /\ Len(z) = k
      /\ \A i \in 1 .. k : z[i] = IF i <= m THEN a[i] ELSE b[i - m]
  <2>1. /\ z \in Seq(S) /\ Len(z) = Len(a) + Len(b)
        /\ \A i \in 1 .. Len(a) + Len(b) : z[i] = IF i <= Len(a) THEN a[i] ELSE b[i - Len(a)]
    BY <1>2, <1>3, ConcatProperties
  <2> HIDE DEF z
  <2>2. QED
    BY <1>1, <1>2, <1>3, <2>1
<1> HIDE DEF z
<1>6. \A i \in 1 .. k : z[i] = c[i]
  <2>1. \A i \in 1 .. k : i <= m => i \in 1 .. m
    BY <1>1
  <2>2. \A i \in 1 .. k : ~(i <= m) => i - m \in 1 .. k - m /\ m + (i - m) = i
    BY <1>1
  <2>3. QED
    BY <1>2, <1>3, <1>4, <1>5, <2>1, <2>2
<1>7. z = c
  BY <1>4, <1>5, <1>6, SeqEqual
<1>8. QED
  BY <1>7 DEF a, b, c, z

\* A part of a beginning.
LEMMA PartOfBeginning ==
  ASSUME NEW S, NEW x \in Seq(S), NEW n \in 0 .. Len(x)
  PROVE  /\ SubSeq(x, 1, n) \in Seq(S) /\ Len(SubSeq(x, 1, n)) = n
         /\ \A i \in 1 .. n : SubSeq(x, 1, n)[i] = x[i]
         /\ \A m \in 1 .. n + 1, k \in 0 .. n : SubSeq(SubSeq(x, 1, n), m, k) = SubSeq(x, m, k)
<1> DEFINE a == SubSeq(x, 1, n)
           b == SubSeq(x, n + 1, Len(x))
<1>1. Len(x) \in Nat /\ n \in Nat /\ n <= Len(x) /\ \A i \in 1 .. Len(x) : x[i] \in S
  OBVIOUS
<1>2. a \in Seq(S) /\ Len(a) = n /\ \A i \in 1 .. n : a[i] = x[i]
  <2>1. \A i \in 1 .. n : x[i] \in S
    BY <1>1
  <2>2. /\ a \in Seq(S) /\ Len(a) = IF 1 <= n THEN n - 1 + 1 ELSE 0
        /\ \A i \in 1 .. n - 1 + 1 : a[i] = x[1 + i - 1]
    BY <1>1, <2>1, SubSeqProperties
  <2> HIDE DEF a
  <2>3. QED
    BY <1>1, <2>2
<1>3. b \in Seq(S)
  <2>1. \A i \in n + 1 .. Len(x) : x[i] \in S
    BY <1>1
  <2>2. QED
    BY <1>1, <2>1, SubSeqProperties
<1>4. a \o b = x
  <2>1. SubSeq(x, 1, n) \o SubSeq(x, n + 1, Len(x)) = SubSeq(x, 1, Len(x))
    <3>1. n \in 0 .. Len(x) /\ Len(x) \in n .. Len(x)
      BY <1>1
    <3>2. QED
      BY <3>1, PartsJoin
  <2>2. SubSeq(x, 1, Len(x)) = x
    BY SubSeqFull
  <2>3. QED
    BY <2>1, <2>2
<1> HIDE DEF a, b
<1>5. \A m \in 1 .. n + 1, k \in 0 .. n : SubSeq(a \o b, m, k) = SubSeq(a, m, k)
  BY <1>2, <1>3, PartsOfConcat
<1>6. QED
  BY <1>2, <1>4, <1>5 DEF a

-------------------------------------------------------------------------------
(***************************************************************************)
(* Requests.                                                               *)
(***************************************************************************)
\* What the places of a message hold.
Mark == Bytes!Byte \cup {kProtocolVersion, kRequestTag, kResponseTag, 0, 1, 2}

\* What is read at a place.
LEMMA TakeFacts ==
  ASSUME NEW b, NEW pos, NEW n
  PROVE  Bytes!take_le(b, pos, n) = ReadAs(SubSeq(b, pos + 1, pos + n))
BY DEF Bytes!take_le, ReadAs, Bytes!FoldRight, Bytes!MapThenFoldSet, FoldRight, MapThenFoldSet,
       Bytes!Min, Min

\* The bytes of a field are marks.
LEMMA FieldMarks ==
  ASSUME NEW v \in Nat, NEW n \in 0 .. 8
  PROVE  Bytes!append_le(v, n) \in Seq(Mark) /\ Len(Bytes!append_le(v, n)) = n
<1> DEFINE d == Bytes!append_le(v, n)
<1>1. d \in Seq(Bytes!Byte) /\ Len(d) = n
  BY AppendFacts
<1> HIDE DEF d
<1>2. Bytes!Byte \subseteq Mark
  BY DEF Mark
<1>3. d \in Seq(Mark)
  BY <1>1, <1>2, SeqMonotonic
<1>4. QED
  BY <1>1, <1>3 DEF d

\* A message of which a field of n marks follows the first k.
Longer(x, k, d, n, y) ==
  /\ y \in Seq(Mark) /\ Len(y) = k + n /\ SubSeq(y, k + 1, k + n) = d
  /\ \A i \in 1 .. k : y[i] = x[i]
  /\ \A m \in 1 .. k + 1, j \in 0 .. k : SubSeq(y, m, j) = SubSeq(x, m, j)

LEMMA Extends ==
  ASSUME NEW x \in Seq(Mark), NEW d \in Seq(Mark), NEW k, NEW n, Len(x) = k, Len(d) = n
  PROVE  Longer(x, k, d, n, x \o d)
<1> DEFINE y == x \o d
<1>1. /\ y \in Seq(Mark) /\ Len(y) = Len(x) + Len(d)
      /\ \A m \in 1 .. Len(x) + 1, j \in 0 .. Len(x) : SubSeq(y, m, j) = SubSeq(x, m, j)
      /\ \A i \in 1 .. Len(x) : y[i] = x[i]
      /\ SubSeq(y, Len(x) + 1, Len(x) + Len(d)) = d
  BY PartsOfConcat
<1> HIDE DEF y
<1>2. Longer(x, k, d, n, y)
  BY <1>1, Zenon DEF Longer
<1>3. QED
  BY <1>2 DEF y

\* A message, and one of which two fields follow.
Keeps(x, k, y) ==
  /\ \A i \in 1 .. k : y[i] = x[i]
  /\ \A m \in 1 .. k + 1, j \in 0 .. k : SubSeq(y, m, j) = SubSeq(x, m, j)

LEMMA KeepsOn ==
  ASSUME NEW k \in Nat, NEW n \in Nat, NEW x, NEW y, NEW z, NEW d, NEW l,
         Keeps(x, k, y), Longer(y, k + n, d, l, z)
  PROVE  Keeps(x, k, z)
<1>1. ASSUME NEW i \in 1 .. k PROVE z[i] = x[i]
  <2>1. i \in 1 .. k + n
    OBVIOUS
  <2>2. QED
    BY <2>1 DEF Keeps, Longer
<1>2. ASSUME NEW m \in 1 .. k + 1, NEW j \in 0 .. k PROVE SubSeq(z, m, j) = SubSeq(x, m, j)
  <2>1. m \in 1 .. (k + n) + 1 /\ j \in 0 .. k + n
    OBVIOUS
  <2>2. QED
    BY <2>1 DEF Keeps, Longer
<1>3. QED
  BY <1>1, <1>2 DEF Keeps

\* Where the fields of a request are.
LEMMA FieldsStay ==
  ASSUME NEW h, NEW x1, NEW x2, NEW x3, NEW x4, NEW e, NEW d1, NEW d2, NEW d3, NEW d4, NEW d5,
         Len(d5) \in Nat,
         Longer(h, 3, d1, 4, x1), Longer(x1, 7, d2, 4, x2), Longer(x2, 11, d3, 8, x3),
         Longer(x3, 19, d4, 2, x4), Longer(x4, 21, d5, Len(d5), e)
  PROVE  /\ e \in Seq(Mark) /\ Len(e) = 21 + Len(d5)
         /\ e[1] = h[1] /\ e[2] = h[2] /\ e[3] = h[3]
         /\ SubSeq(e, 4, 7) = d1 /\ SubSeq(e, 8, 11) = d2 /\ SubSeq(e, 12, 19) = d3
         /\ SubSeq(e, 20, 21) = d4 /\ SubSeq(e, 22, Len(e)) = d5
<1>1. /\ e \in Seq(Mark) /\ Len(e) = 21 + Len(d5) /\ SubSeq(e, 22, Len(e)) = d5
      /\ SubSeq(x4, 20, 21) = d4 /\ SubSeq(x3, 12, 19) = d3 /\ SubSeq(x2, 8, 11) = d2
      /\ SubSeq(x1, 4, 7) = d1
  <2>1. 3 + 1 = 4 /\ 3 + 4 = 7 /\ 7 + 1 = 8 /\ 7 + 4 = 11 /\ 11 + 1 = 12 /\ 11 + 8 = 19
    OBVIOUS
  <2>2. 19 + 1 = 20 /\ 19 + 2 = 21 /\ 21 + 1 = 22
    OBVIOUS
  <2>3. e \in Seq(Mark) /\ Len(e) = 21 + Len(d5) /\ SubSeq(e, 21 + 1, 21 + Len(d5)) = d5
    BY Zenon DEF Longer
  <2>4. SubSeq(x4, 19 + 1, 19 + 2) = d4 /\ SubSeq(x3, 11 + 1, 11 + 8) = d3
    BY Zenon DEF Longer
  <2>5. SubSeq(x2, 7 + 1, 7 + 4) = d2 /\ SubSeq(x1, 3 + 1, 3 + 4) = d1
    BY Zenon DEF Longer
  <2>6. SubSeq(e, 22, Len(e)) = d5
    BY <2>2, <2>3, Zenon
  <2>7. SubSeq(x4, 20, 21) = d4 /\ SubSeq(x3, 12, 19) = d3
    BY <2>1, <2>2, <2>4, Zenon
  <2>8. SubSeq(x2, 8, 11) = d2 /\ SubSeq(x1, 4, 7) = d1
    BY <2>1, <2>5, Zenon
  <2>9. QED
    BY <2>3, <2>6, <2>7, <2>8
<1>2. Keeps(h, 3, x1) /\ Keeps(x1, 7, x2) /\ Keeps(x2, 11, x3) /\ Keeps(x3, 19, x4) /\ Keeps(x4, 21, e)
  BY DEF Keeps, Longer
<1>3. Longer(x1, 3 + 4, d2, 4, x2) /\ Longer(x2, 7 + 4, d3, 8, x3) /\ Longer(x3, 11 + 8, d4, 2, x4)
      /\ Longer(x4, 19 + 2, d5, Len(d5), e)
  OBVIOUS
<1>4. Longer(x2, 3 + 8, d3, 8, x3) /\ Longer(x3, 3 + 16, d4, 2, x4) /\ Longer(x4, 3 + 18, d5, Len(d5), e)
  OBVIOUS
<1>5. Longer(x3, 7 + 12, d4, 2, x4) /\ Longer(x4, 7 + 14, d5, Len(d5), e) /\ Longer(x4, 11 + 10, d5, Len(d5), e)
  OBVIOUS
<1>6. Keeps(x3, 19, e)
  BY <1>2, <1>3, KeepsOn
<1>7. Keeps(x2, 11, e)
  <2>1. Keeps(x2, 11, x4)
    BY <1>2, <1>3, KeepsOn
  <2>2. QED
    BY <1>5, <2>1, KeepsOn
<1>8. Keeps(x1, 7, e)
  <2>1. Keeps(x1, 7, x3)
    BY <1>2, <1>3, KeepsOn
  <2>2. Keeps(x1, 7, x4)
    BY <1>5, <2>1, KeepsOn
  <2>3. QED
    BY <1>5, <2>2, KeepsOn
<1>9. Keeps(h, 3, e)
  <2>1. Keeps(h, 3, x2)
    BY <1>2, <1>3, KeepsOn
  <2>2. Keeps(h, 3, x3)
    BY <1>4, <2>1, KeepsOn
  <2>3. Keeps(h, 3, x4)
    BY <1>4, <2>2, KeepsOn
  <2>4. QED
    BY <1>4, <2>3, KeepsOn
<1>10. SubSeq(e, 20, 21) = d4 /\ SubSeq(e, 12, 19) = d3 /\ SubSeq(e, 8, 11) = d2 /\ SubSeq(e, 4, 7) = d1
  <2>1. Keeps(x4, 21, e)
    BY <1>2
  <2>2. /\ 20 \in 1 .. 21 + 1 /\ 21 \in 0 .. 21 /\ 12 \in 1 .. 19 + 1 /\ 19 \in 0 .. 19
        /\ 8 \in 1 .. 11 + 1 /\ 11 \in 0 .. 11 /\ 4 \in 1 .. 7 + 1 /\ 7 \in 0 .. 7
    OBVIOUS
  <2>3. SubSeq(e, 20, 21) = SubSeq(x4, 20, 21) /\ SubSeq(e, 12, 19) = SubSeq(x3, 12, 19)
    BY <1>6, <2>1, <2>2, Zenon DEF Keeps
  <2>4. SubSeq(e, 8, 11) = SubSeq(x2, 8, 11) /\ SubSeq(e, 4, 7) = SubSeq(x1, 4, 7)
    BY <1>7, <1>8, <2>2, Zenon DEF Keeps
  <2>5. QED
    BY <1>1, <2>3, <2>4
<1>11. e[1] = h[1] /\ e[2] = h[2] /\ e[3] = h[3]
  BY <1>9 DEF Keeps
<1>12. QED
  BY <1>1, <1>10, <1>11

\* The bytes of a request, and what they are.
RequestBytes(r) ==
  <<kProtocolVersion, kRequestTag, r.op>> \o Bytes!append_le(r.hart_id, 4)
    \o Bytes!append_le(r.transaction_id, 4) \o Bytes!append_le(r.address, 8)
    \o Bytes!append_le(r.size, 2) \o r.data
RequestIn(e, r) ==
  /\ e \in Seq(Mark) /\ Len(r.data) \in Nat /\ Len(e) = 21 + Len(r.data)
  /\ e[1] = kProtocolVersion /\ e[2] = kRequestTag /\ e[3] = r.op
  /\ SubSeq(e, 4, 7) = Bytes!append_le(r.hart_id, 4)
  /\ SubSeq(e, 8, 11) = Bytes!append_le(r.transaction_id, 4)
  /\ SubSeq(e, 12, 19) = Bytes!append_le(r.address, 8)
  /\ SubSeq(e, 20, 21) = Bytes!append_le(r.size, 2)
  /\ SubSeq(e, 22, Len(e)) = r.data

LEMMA RequestLayout ==
  ASSUME NEW r \in Bytes!MemoryRequest
  PROVE  RequestIn(RequestBytes(r), r)
<1> DEFINE e == RequestBytes(r)
           h == <<kProtocolVersion, kRequestTag, r.op>>
           d1 == Bytes!append_le(r.hart_id, 4)
           d2 == Bytes!append_le(r.transaction_id, 4)
           d3 == Bytes!append_le(r.address, 8)
           d4 == Bytes!append_le(r.size, 2)
           d5 == r.data
           x1 == h \o d1
           x2 == x1 \o d2
           x3 == x2 \o d3
           x4 == x3 \o d4
<1>1. /\ r.op \in {1, 2} /\ r.hart_id \in Nat /\ r.transaction_id \in Nat /\ r.address \in Nat
      /\ r.size \in Nat /\ r.data \in Seq(Bytes!Byte)
  BY DEF Bytes!MemoryRequest, Bytes!Word, Bytes!ReadOp, Bytes!WriteOp
<1>2. h \in Seq(Mark) /\ Len(h) = 3 /\ h[1] = kProtocolVersion /\ h[2] = kRequestTag /\ h[3] = r.op
  <2>1. kProtocolVersion \in Mark /\ kRequestTag \in Mark /\ r.op \in Mark
    BY <1>1 DEF Mark
  <2>2. QED
    BY <2>1
<1>3. d1 \in Seq(Mark) /\ Len(d1) = 4 /\ d2 \in Seq(Mark) /\ Len(d2) = 4
  <2>1. 4 \in 0 .. 8
    OBVIOUS
  <2>2. QED
    BY <1>1, <2>1, FieldMarks
<1>4. d3 \in Seq(Mark) /\ Len(d3) = 8 /\ d4 \in Seq(Mark) /\ Len(d4) = 2
  <2>1. 8 \in 0 .. 8 /\ 2 \in 0 .. 8
    OBVIOUS
  <2>2. QED
    BY <1>1, <2>1, FieldMarks
<1>5. d5 \in Seq(Mark) /\ Len(d5) \in Nat
  <2>1. Bytes!Byte \subseteq Mark
    BY DEF Mark
  <2>2. QED
    BY <1>1, <2>1, SeqMonotonic
<1>6. e = x4 \o d5
  BY DEF RequestBytes
<1> HIDE DEF e, h, d1, d2, d3, d4, d5
<1>7. Longer(h, 3, d1, 4, x1)
  BY <1>2, <1>3, Extends
<1>8. x1 \in Seq(Mark) /\ Len(x1) = 7
  BY <1>7 DEF Longer
<1> HIDE DEF x1
<1>9. Longer(x1, 7, d2, 4, x2)
  BY <1>3, <1>8, Extends
<1>10. x2 \in Seq(Mark) /\ Len(x2) = 11
  BY <1>9 DEF Longer
<1> HIDE DEF x2
<1>11. Longer(x2, 11, d3, 8, x3)
  BY <1>4, <1>10, Extends
<1> HIDE DEF x3
<1>12. x3 \in Seq(Mark) /\ Len(x3) = 19
  BY <1>11 DEF Longer
<1>13. Longer(x3, 19, d4, 2, x4)
  BY <1>4, <1>12, Extends
<1> HIDE DEF x4
<1>14. x4 \in Seq(Mark) /\ Len(x4) = 21
  BY <1>13 DEF Longer
<1>15. Longer(x4, 21, d5, Len(d5), x4 \o d5)
  BY <1>5, <1>14, Extends
<1>16. Longer(x4, 21, d5, Len(d5), e)
  BY <1>6, <1>15, Zenon
<1>17. /\ e \in Seq(Mark) /\ Len(e) = 21 + Len(d5)
       /\ e[1] = h[1] /\ e[2] = h[2] /\ e[3] = h[3]
       /\ SubSeq(e, 4, 7) = d1 /\ SubSeq(e, 8, 11) = d2 /\ SubSeq(e, 12, 19) = d3
       /\ SubSeq(e, 20, 21) = d4 /\ SubSeq(e, 22, Len(e)) = d5
  BY <1>5, <1>7, <1>9, <1>11, <1>13, <1>16, FieldsStay
<1>18. QED
  BY <1>2, <1>5, <1>17, Zenon DEF RequestIn, d1, d2, d3, d4, d5, e
-------------------------------------------------------------------------------
(***************************************************************************)
(* Reading a request.                                                      *)
(***************************************************************************)
\* A field of so many bytes in a message.
LEMMA FieldRead ==
  ASSUME NEW b, NEW n \in 0 .. 8, NEW v \in Field(n), NEW pos,
         SubSeq(b, pos + 1, pos + n) = Bytes!append_le(v, n)
  PROVE  Bytes!take_le(b, pos, n) = v
BY TakeFacts, ReadsNumber, Zenon

\* The types of the fields.
LEMMA FieldTypes ==
  /\ Bytes!Word(2 * ByteBits) = Field(2) /\ Bytes!Word(4 * ByteBits) = Field(4)
  /\ Bytes!Word(8 * ByteBits) = Field(8) /\ 2 ^ (2 * ByteBits) = Power(2)
BY DEF Bytes!Word, Field, Power

LEMMA RequestTypes ==
  ASSUME NEW r \in Bytes!MemoryRequest
  PROVE  /\ r = [op |-> r.op, hart_id |-> r.hart_id, transaction_id |-> r.transaction_id,
                 address |-> r.address, size |-> r.size, data |-> r.data]
         /\ r.op \in {1, 2} /\ r.hart_id \in Field(4) /\ r.transaction_id \in Field(4)
         /\ r.address \in Field(8) /\ r.size \in Field(2) /\ r.data \in Seq(Bytes!Byte)
BY FieldTypes DEF Bytes!MemoryRequest, Bytes!ReadOp, Bytes!WriteOp

\* A beginning of a request that has the header.
LEMMA RequestPart ==
  ASSUME NEW r \in Bytes!MemoryRequest, NEW e, RequestIn(e, r), NEW n \in 21 .. Len(e)
  PROVE  LET b == SubSeq(e, 1, n)
         IN /\ Len(b) = n /\ b[1] = kProtocolVersion /\ b[2] = kRequestTag
            /\ Bytes!ParsedRequest(b) =
                 [op |-> r.op, hart_id |-> r.hart_id, transaction_id |-> r.transaction_id,
                  address |-> r.address, size |-> r.size, data |-> SubSeq(e, 22, n)]
            /\ Len(SubSeq(e, 22, n)) = n - 21
<1> DEFINE b == SubSeq(e, 1, n)
<1>1. e \in Seq(Mark) /\ Len(e) \in Nat /\ n \in Nat /\ n >= 21 /\ n <= Len(e) /\ n \in 0 .. Len(e)
  <2>1. e \in Seq(Mark)
    BY DEF RequestIn
  <2>2. QED
    BY <2>1
<1>2. /\ b \in Seq(Mark) /\ Len(b) = n /\ \A i \in 1 .. n : b[i] = e[i]
      /\ \A m \in 1 .. n + 1, k \in 0 .. n : SubSeq(b, m, k) = SubSeq(e, m, k)
  BY <1>1, PartOfBeginning
<1> HIDE DEF b
<1>3. b[1] = kProtocolVersion /\ b[2] = kRequestTag /\ b[3] = r.op
  <2>1. 1 \in 1 .. n /\ 2 \in 1 .. n /\ 3 \in 1 .. n
    BY <1>1
  <2>2. QED
    BY <1>2, <2>1, Zenon DEF RequestIn
<1>4. /\ SubSeq(b, 3 + 1, 3 + 4) = Bytes!append_le(r.hart_id, 4)
      /\ SubSeq(b, 7 + 1, 7 + 4) = Bytes!append_le(r.transaction_id, 4)
      /\ SubSeq(b, 11 + 1, 11 + 8) = Bytes!append_le(r.address, 8)
      /\ SubSeq(b, 19 + 1, 19 + 2) = Bytes!append_le(r.size, 2)
      /\ SubSeq(b, 21 + 1, Len(b)) = SubSeq(e, 22, n)
  <2>1. /\ 4 \in 1 .. n + 1 /\ 7 \in 0 .. n /\ 8 \in 1 .. n + 1 /\ 11 \in 0 .. n
        /\ 12 \in 1 .. n + 1 /\ 19 \in 0 .. n /\ 20 \in 1 .. n + 1 /\ 21 \in 0 .. n
        /\ 22 \in 1 .. n + 1 /\ n \in 0 .. n
    BY <1>1
  <2>2. 3 + 1 = 4 /\ 3 + 4 = 7 /\ 7 + 1 = 8 /\ 7 + 4 = 11 /\ 11 + 1 = 12 /\ 11 + 8 = 19
    OBVIOUS
  <2>3. 19 + 1 = 20 /\ 19 + 2 = 21 /\ 21 + 1 = 22
    OBVIOUS
  <2>4. SubSeq(b, 4, 7) = SubSeq(e, 4, 7) /\ SubSeq(b, 8, 11) = SubSeq(e, 8, 11)
    BY <1>2, <2>1, Zenon
  <2>5. SubSeq(b, 12, 19) = SubSeq(e, 12, 19) /\ SubSeq(b, 20, 21) = SubSeq(e, 20, 21)
    BY <1>2, <2>1, Zenon
  <2>6. SubSeq(b, 22, Len(b)) = SubSeq(e, 22, n)
    BY <1>2, <2>1, Zenon
  <2>7. QED
    BY <2>2, <2>3, <2>4, <2>5, <2>6, Zenon DEF RequestIn
<1>5. /\ Bytes!take_le(b, 3, 4) = r.hart_id /\ Bytes!take_le(b, 7, 4) = r.transaction_id
      /\ Bytes!take_le(b, 11, 8) = r.address /\ Bytes!take_le(b, 19, 2) = r.size
  <2>1. 2 \in 0 .. 8 /\ 4 \in 0 .. 8 /\ 8 \in 0 .. 8
    OBVIOUS
  <2>2. /\ r.hart_id \in Field(4) /\ r.transaction_id \in Field(4)
        /\ r.address \in Field(8) /\ r.size \in Field(2)
    BY RequestTypes
  <2>3. QED
    BY <1>4, <2>1, <2>2, FieldRead, Zenon
<1>6. Bytes!Payload(b, Bytes!RequestHeader) = SubSeq(e, 22, n)
  BY <1>4, Zenon DEF Bytes!Payload, Bytes!RequestHeader
<1>7. Bytes!ParsedRequest(b) =
        [op |-> r.op, hart_id |-> r.hart_id, transaction_id |-> r.transaction_id,
         address |-> r.address, size |-> r.size, data |-> SubSeq(e, 22, n)]
  BY <1>3, <1>5, <1>6, Zenon DEF Bytes!ParsedRequest
<1>8. Len(SubSeq(e, 22, n)) = n - 21
  <2>1. \A i \in 22 .. n : e[i] \in Mark
    BY <1>1, ElementOfSeq
  <2>2. Len(SubSeq(e, 22, n)) = IF 22 <= n THEN n - 22 + 1 ELSE 0
    BY <1>1, <2>1, SubSeqProperties
  <2> DEFINE l == Len(SubSeq(e, 22, n))
  <2> HIDE DEF l
  <2>3. l = n - 21
    BY <1>1, <2>2 DEF l
  <2>4. QED
    BY <2>3 DEF l
<1>9. QED
  BY <1>2, <1>3, <1>7, <1>8, Zenon DEF b

\* What a request that is sent is read as, and that no part of it is read.
LEMMA RequestRead ==
  ASSUME NEW r \in Bytes!MemoryRequest, NEW e, RequestIn(e, r),
         r.size # 0, r.op = 2 => Len(r.data) = r.size
  PROVE  /\ Bytes!decode_request(e) = IF r.op = 1 => r.data = <<>> THEN r ELSE Illegal
         /\ (r.op = 1 => r.data = <<>>) =>
              \A n \in 0 .. Len(e) - 1 : Bytes!decode_request(SubSeq(e, 1, n)) = Illegal
<1> DEFINE Part(d) == [op |-> r.op, hart_id |-> r.hart_id, transaction_id |-> r.transaction_id,
                       address |-> r.address, size |-> r.size, data |-> d]
<1>1. e \in Seq(Mark) /\ Len(e) \in Nat /\ Len(r.data) \in Nat /\ Len(e) = 21 + Len(r.data)
  BY DEF RequestIn
<1>2. r = Part(r.data) /\ r.op \in {1, 2} /\ r.size \in Nat /\ r.data \in Seq(Bytes!Byte)
  <2>1. Field(2) \subseteq Nat
    BY DEF Field
  <2>2. QED
    BY <2>1, RequestTypes
<1>3. ASSUME NEW d PROVE Bytes!WellFormed(Part(d)) <=> (r.op = 1 /\ d = <<>>) \/ (r.op = 2 /\ Len(d) = r.size)
  BY DEF Bytes!WellFormed, Bytes!ReadOp, Bytes!WriteOp
<1>4. ASSUME NEW n \in 21 .. Len(e)
      PROVE  Bytes!decode_request(SubSeq(e, 1, n)) =
               IF Bytes!WellFormed(Part(SubSeq(e, 22, n))) THEN Part(SubSeq(e, 22, n)) ELSE Illegal
  <2> DEFINE b == SubSeq(e, 1, n)
  <2>1. Len(b) = n /\ b[1] = kProtocolVersion /\ b[2] = kRequestTag
        /\ Bytes!ParsedRequest(b) = Part(SubSeq(e, 22, n))
    BY RequestPart
  <2> HIDE DEF b, Part
  <2>2. Len(b) >= 21
    BY <1>1, <2>1
  <2>3. Bytes!HasHeader(b, kRequestTag, Bytes!RequestHeader)
    BY <2>1, <2>2, Zenon DEF Bytes!HasHeader, Bytes!RequestHeader
  <2>4. QED
    BY <2>1, <2>3, Zenon DEF Bytes!decode_request, b
<1> DEFINE Readable == r.op = 1 => r.data = <<>>
<1>5. Bytes!decode_request(e) = IF Readable THEN r ELSE Illegal
  <2>1. Len(e) \in 21 .. Len(e) /\ SubSeq(e, 1, Len(e)) = e /\ SubSeq(e, 22, Len(e)) = r.data
    <3>1. Len(e) \in 21 .. Len(e)
      BY <1>1
    <3>2. SubSeq(e, 1, Len(e)) = e
      BY <1>1, SubSeqFull
    <3>3. QED
      BY <3>1, <3>2 DEF RequestIn
  <2>2. Bytes!decode_request(e) = IF Bytes!WellFormed(Part(r.data)) THEN Part(r.data) ELSE Illegal
    <3> HIDE DEF Part
    <3>1. QED
      BY <1>4, <2>1, Zenon
  <2>3. Bytes!WellFormed(Part(r.data)) <=> Readable
    <3> HIDE DEF Part
    <3>1. Bytes!WellFormed(Part(r.data))
            <=> (r.op = 1 /\ r.data = <<>>) \/ (r.op = 2 /\ Len(r.data) = r.size)
      BY <1>3
    <3>2. QED
      BY <1>2, <3>1
  <2> HIDE DEF Part, Readable
  <2>4. QED
    BY <1>2, <2>2, <2>3, Zenon
<1>6. ASSUME Readable, NEW n \in 0 .. Len(e) - 1
      PROVE  Bytes!decode_request(SubSeq(e, 1, n)) = Illegal
  <2>1. CASE n < 21
    <3> DEFINE b == SubSeq(e, 1, n)
    <3>1. n \in 0 .. Len(e)
      BY <1>1
    <3>2. Len(b) = n
      BY <1>1, <3>1, PartOfBeginning
    <3> HIDE DEF b
    <3>3. ~(Len(b) >= 21)
      BY <1>1, <2>1, <3>2
    <3>4. QED
      BY <3>3, Zenon DEF Bytes!decode_request, Bytes!HasHeader, Bytes!RequestHeader, b
  <2>2. CASE ~(n < 21)
    <3>1. n \in 21 .. Len(e) /\ Len(e) # 21
      BY <1>1, <2>2
    <3>2. r.op = 2 /\ Len(r.data) = r.size
      <4>1. Len(r.data) # 0
        BY <1>1, <3>1
      <4>2. r.data # <<>>
        BY <4>1
      <4>3. QED
        BY <1>2, <1>6, <4>2
    <3> DEFINE d == SubSeq(e, 22, n)
    <3>3. Len(d) = n - 21
      BY <3>1, RequestPart
    <3> HIDE DEF d
    <3>4. Len(d) # r.size
      BY <1>1, <3>1, <3>2, <3>3
    <3>5. ~Bytes!WellFormed(Part(d))
      <4> HIDE DEF Part
      <4>1. Bytes!WellFormed(Part(d)) <=> (r.op = 1 /\ d = <<>>) \/ (r.op = 2 /\ Len(d) = r.size)
        BY <1>3
      <4>2. QED
        BY <3>2, <3>4, <4>1
    <3>6. QED
      <4> HIDE DEF Part
      <4>1. QED
        BY <1>4, <3>1, <3>5, Zenon DEF d
  <2>3. QED
    BY <2>1, <2>2
<1>7. QED
  BY <1>5, <1>6
-------------------------------------------------------------------------------
(***************************************************************************)
(* Responses.                                                              *)
(***************************************************************************)
\* So many bytes are read as a number of so many bytes.
LEMMA ReadBounds ==
  ASSUME NEW d \in Seq(Nat), Len(d) \in 0 .. 8, \A i \in 1 .. Len(d) : d[i] \in 0 .. Radix - 1
  PROVE  ReadAs(d) \in Field(Len(d))
<1> DEFINE n == Len(d)
<1>1. n \in 0 .. 8 /\ n \in Nat /\ n <= 8
  <2>1. \A k \in 0 .. 8 : k \in Nat /\ k <= 8
    BY SMT
  <2>2. QED
    BY <2>1, Zenon
<1>2. PICK w \in [1 .. n + 1 -> Nat] :
        ReadAs(d) = w[1] /\ w[n + 1] = 0 /\ \A i \in 1 .. n : w[i] = d[i] + Radix * w[i + 1]
  <2>1. 2 ^ ByteBits \in Nat
    BY Powers DEF Radix
  <2>2. QED
    BY <2>1, LittleEndian DEF ReadAs, Radix
<1>3. \A i \in 1 .. n : d[i] \in 0 .. Radix - 1
  OBVIOUS
<1> HIDE DEF n
<1> DEFINE N == {k \in Nat : k <= n => w[n + 1 - k] \in 0 .. Power(k) - 1}
<1>4. 0 \in N
  BY <1>1, <1>2, Powers
<1>5. ASSUME NEW k \in N PROVE k + 1 \in N
  <2> SUFFICES ASSUME k + 1 <= n PROVE w[n + 1 - (k + 1)] \in 0 .. Power(k + 1) - 1
    OBVIOUS
  <2> DEFINE i == n - k
  <2>1. /\ i \in 1 .. n /\ n + 1 - (k + 1) = i /\ n + 1 - k = i + 1 /\ k <= n /\ k \in 0 .. 7
        /\ k \in 0 .. 8
    BY <1>1
  <2>2. w[i + 1] \in 0 .. Power(k) - 1
    BY <2>1
  <2> HIDE DEF i
  <2>3. w[i] = d[i] + Radix * w[i + 1] /\ d[i] \in 0 .. Radix - 1
    BY <1>2, <1>3, <2>1
  <2>4. Radix * w[i + 1] \in 0 .. Radix * (Power(k) - 1)
    <3>1. \A a, p \in Nat \ {0} : \A x \in 0 .. p - 1 : a * x \in 0 .. a * (p - 1)
      OBVIOUS
    <3>2. QED
      BY <2>1, <2>2, <3>1, Powers
  <2>5. Radix * (Power(k) - 1) = Power(k + 1) - Radix
    <3>1. \A a, p \in Nat \ {0} : a * (p - 1) = a * p - a
      OBVIOUS
    <3>2. QED
      BY <2>1, <3>1, Powers
  <2>6. Power(k + 1) \in Nat /\ Radix \in Nat
    <3>1. k + 1 \in 0 .. 8
      BY <2>1
    <3>2. QED
      BY <3>1, Powers
  <2>7. \A a, p \in Nat : \A x \in 0 .. a - 1, y \in 0 .. p - a : x + y \in 0 .. p - 1
    BY SMT
  <2>8. d[i] + Radix * w[i + 1] \in 0 .. Power(k + 1) - 1
    BY <2>3, <2>4, <2>5, <2>6, <2>7, Zenon
  <2>9. QED
    BY <2>1, <2>3, <2>8, Zenon
<1>6. N = Nat
  <2> HIDE DEF N
  <2>1. N \in SUBSET Nat
    BY DEF N
  <2>2. QED
    BY <1>4, <1>5, <2>1, AllNumbers
<1>7. w[1] \in 0 .. Power(n) - 1
  <2>1. n \in N /\ n + 1 - n = 1
    BY <1>1, <1>6
  <2>2. QED
    BY <2>1
<1>8. QED
  BY <1>2, <1>7 DEF Field, n

\* The bytes of a response, and what they are.
ResponseBytes(r) ==
  <<kProtocolVersion, kResponseTag, r.status>> \o Bytes!append_le(r.hart_id, 4)
    \o Bytes!append_le(r.transaction_id, 4) \o Bytes!append_le(Len(r.data), 2) \o r.data
ResponseIn(e, r) ==
  /\ e \in Seq(Mark) /\ Len(r.data) \in Nat /\ Len(e) = 13 + Len(r.data)
  /\ e[1] = kProtocolVersion /\ e[2] = kResponseTag /\ e[3] = r.status
  /\ SubSeq(e, 4, 7) = Bytes!append_le(r.hart_id, 4)
  /\ SubSeq(e, 8, 11) = Bytes!append_le(r.transaction_id, 4)
  /\ SubSeq(e, 12, 13) = Bytes!append_le(Len(r.data), 2)
  /\ SubSeq(e, 14, Len(e)) = r.data

LEMMA ResponseTypes ==
  ASSUME NEW r \in Bytes!MemoryResponse
  PROVE  /\ r = [status |-> r.status, hart_id |-> r.hart_id,
                 transaction_id |-> r.transaction_id, data |-> r.data]
         /\ r.status \in {0, 1} /\ r.hart_id \in Field(4) /\ r.transaction_id \in Field(4)
         /\ r.data \in Seq(Bytes!Byte) /\ Len(r.data) \in Nat
BY FieldTypes DEF Bytes!MemoryResponse

\* Where the fields of a response are.
LEMMA AnswersStay ==
  ASSUME NEW h, NEW x1, NEW x2, NEW x3, NEW e, NEW d1, NEW d2, NEW d3, NEW d4, Len(d4) \in Nat,
         Longer(h, 3, d1, 4, x1), Longer(x1, 7, d2, 4, x2), Longer(x2, 11, d3, 2, x3),
         Longer(x3, 13, d4, Len(d4), e)
  PROVE  /\ e \in Seq(Mark) /\ Len(e) = 13 + Len(d4)
         /\ e[1] = h[1] /\ e[2] = h[2] /\ e[3] = h[3]
         /\ SubSeq(e, 4, 7) = d1 /\ SubSeq(e, 8, 11) = d2 /\ SubSeq(e, 12, 13) = d3
         /\ SubSeq(e, 14, Len(e)) = d4
<1>1. /\ e \in Seq(Mark) /\ Len(e) = 13 + Len(d4) /\ SubSeq(e, 14, Len(e)) = d4
      /\ SubSeq(x3, 12, 13) = d3 /\ SubSeq(x2, 8, 11) = d2 /\ SubSeq(x1, 4, 7) = d1
  <2>1. 3 + 1 = 4 /\ 3 + 4 = 7 /\ 7 + 1 = 8 /\ 7 + 4 = 11 /\ 11 + 1 = 12 /\ 11 + 2 = 13
    OBVIOUS
  <2>2. 13 + 1 = 14
    OBVIOUS
  <2>3. e \in Seq(Mark) /\ Len(e) = 13 + Len(d4) /\ SubSeq(e, 13 + 1, 13 + Len(d4)) = d4
    BY Zenon DEF Longer
  <2>4. SubSeq(x3, 11 + 1, 11 + 2) = d3
    BY Zenon DEF Longer
  <2>5. SubSeq(x2, 7 + 1, 7 + 4) = d2 /\ SubSeq(x1, 3 + 1, 3 + 4) = d1
    BY Zenon DEF Longer
  <2>6. SubSeq(e, 14, Len(e)) = d4 /\ SubSeq(x3, 12, 13) = d3
    BY <2>1, <2>2, <2>3, <2>4, Zenon
  <2>7. SubSeq(x2, 8, 11) = d2 /\ SubSeq(x1, 4, 7) = d1
    BY <2>1, <2>5, Zenon
  <2>8. QED
    BY <2>3, <2>6, <2>7
<1>2. Keeps(h, 3, x1) /\ Keeps(x1, 7, x2) /\ Keeps(x2, 11, x3) /\ Keeps(x3, 13, e)
  BY DEF Keeps, Longer
<1>3. Longer(x1, 3 + 4, d2, 4, x2) /\ Longer(x2, 7 + 4, d3, 2, x3) /\ Longer(x3, 11 + 2, d4, Len(d4), e)
  OBVIOUS
<1>4. Longer(x2, 3 + 8, d3, 2, x3) /\ Longer(x3, 3 + 10, d4, Len(d4), e) /\ Longer(x3, 7 + 6, d4, Len(d4), e)
  OBVIOUS
<1>5. Keeps(x2, 11, e)
  BY <1>2, <1>3, KeepsOn
<1>6. Keeps(x1, 7, e)
  <2>1. Keeps(x1, 7, x3)
    BY <1>2, <1>3, KeepsOn
  <2>2. QED
    BY <1>4, <2>1, KeepsOn
<1>7. Keeps(h, 3, e)
  <2>1. Keeps(h, 3, x2)
    BY <1>2, <1>3, KeepsOn
  <2>2. Keeps(h, 3, x3)
    BY <1>4, <2>1, KeepsOn
  <2>3. QED
    BY <1>4, <2>2, KeepsOn
<1>8. SubSeq(e, 12, 13) = d3 /\ SubSeq(e, 8, 11) = d2 /\ SubSeq(e, 4, 7) = d1
  <2>1. /\ 12 \in 1 .. 13 + 1 /\ 13 \in 0 .. 13
        /\ 8 \in 1 .. 11 + 1 /\ 11 \in 0 .. 11 /\ 4 \in 1 .. 7 + 1 /\ 7 \in 0 .. 7
    OBVIOUS
  <2>2. SubSeq(e, 12, 13) = SubSeq(x3, 12, 13) /\ SubSeq(e, 8, 11) = SubSeq(x2, 8, 11)
    BY <1>2, <1>5, <2>1, Zenon DEF Keeps
  <2>3. SubSeq(e, 4, 7) = SubSeq(x1, 4, 7)
    BY <1>6, <2>1, Zenon DEF Keeps
  <2>4. QED
    BY <1>1, <2>2, <2>3
<1>9. e[1] = h[1] /\ e[2] = h[2] /\ e[3] = h[3]
  BY <1>7 DEF Keeps
<1>10. QED
  BY <1>1, <1>8, <1>9

LEMMA ResponseLayout ==
  ASSUME NEW r \in Bytes!MemoryResponse
  PROVE  ResponseIn(ResponseBytes(r), r)
<1> DEFINE e == ResponseBytes(r)
           h == <<kProtocolVersion, kResponseTag, r.status>>
           d1 == Bytes!append_le(r.hart_id, 4)
           d2 == Bytes!append_le(r.transaction_id, 4)
           d3 == Bytes!append_le(Len(r.data), 2)
           d4 == r.data
           x1 == h \o d1
           x2 == x1 \o d2
           x3 == x2 \o d3
<1>1. /\ r.status \in {0, 1} /\ r.hart_id \in Nat /\ r.transaction_id \in Nat
      /\ r.data \in Seq(Bytes!Byte) /\ Len(r.data) \in Nat
  BY ResponseTypes DEF Field
<1>2. h \in Seq(Mark) /\ Len(h) = 3 /\ h[1] = kProtocolVersion /\ h[2] = kResponseTag /\ h[3] = r.status
  <2>1. kProtocolVersion \in Mark /\ kResponseTag \in Mark /\ r.status \in Mark
    BY <1>1 DEF Mark
  <2>2. QED
    BY <2>1
<1>3. d1 \in Seq(Mark) /\ Len(d1) = 4 /\ d2 \in Seq(Mark) /\ Len(d2) = 4
  <2>1. 4 \in 0 .. 8
    OBVIOUS
  <2>2. QED
    BY <1>1, <2>1, FieldMarks
<1>4. d3 \in Seq(Mark) /\ Len(d3) = 2
  <2>1. 2 \in 0 .. 8
    OBVIOUS
  <2>2. QED
    BY <1>1, <2>1, FieldMarks
<1>5. d4 \in Seq(Mark) /\ Len(d4) \in Nat
  <2>1. Bytes!Byte \subseteq Mark
    BY DEF Mark
  <2>2. QED
    BY <1>1, <2>1, SeqMonotonic
<1>6. e = x3 \o d4
  BY DEF ResponseBytes
<1> HIDE DEF e, h, d1, d2, d3, d4
<1>7. Longer(h, 3, d1, 4, x1)
  BY <1>2, <1>3, Extends
<1> HIDE DEF x1
<1>8. x1 \in Seq(Mark) /\ Len(x1) = 7
  BY <1>7 DEF Longer
<1>9. Longer(x1, 7, d2, 4, x2)
  BY <1>3, <1>8, Extends
<1> HIDE DEF x2
<1>10. x2 \in Seq(Mark) /\ Len(x2) = 11
  BY <1>9 DEF Longer
<1>11. Longer(x2, 11, d3, 2, x3)
  BY <1>4, <1>10, Extends
<1> HIDE DEF x3
<1>12. x3 \in Seq(Mark) /\ Len(x3) = 13
  BY <1>11 DEF Longer
<1>13. Longer(x3, 13, d4, Len(d4), x3 \o d4)
  BY <1>5, <1>12, Extends
<1>14. Longer(x3, 13, d4, Len(d4), e)
  BY <1>6, <1>13, Zenon
<1>15. /\ e \in Seq(Mark) /\ Len(e) = 13 + Len(d4)
       /\ e[1] = h[1] /\ e[2] = h[2] /\ e[3] = h[3]
       /\ SubSeq(e, 4, 7) = d1 /\ SubSeq(e, 8, 11) = d2 /\ SubSeq(e, 12, 13) = d3
       /\ SubSeq(e, 14, Len(e)) = d4
  BY <1>5, <1>7, <1>9, <1>11, <1>14, AnswersStay
<1>16. QED
  BY <1>2, <1>5, <1>15, Zenon DEF ResponseIn, d1, d2, d3, d4, e
\* A beginning of a response that has the header.
LEMMA ResponsePart ==
  ASSUME NEW r \in Bytes!MemoryResponse, NEW e, ResponseIn(e, r), NEW n \in 13 .. Len(e)
  PROVE  LET b == SubSeq(e, 1, n)
         IN /\ Len(b) = n /\ b[1] = kProtocolVersion /\ b[2] = kResponseTag /\ b[3] = r.status
            /\ Bytes!take_le(b, 3, 4) = r.hart_id /\ Bytes!take_le(b, 7, 4) = r.transaction_id
            /\ SubSeq(b, 11 + 1, 11 + 2) = Bytes!append_le(Len(r.data), 2)
            /\ Bytes!Payload(b, Bytes!ResponseHeader) = SubSeq(e, 14, n)
<1> DEFINE b == SubSeq(e, 1, n)
<1>1. e \in Seq(Mark) /\ Len(e) \in Nat /\ n \in Nat /\ n >= 13 /\ n <= Len(e) /\ n \in 0 .. Len(e)
  <2>1. e \in Seq(Mark)
    BY DEF ResponseIn
  <2>2. QED
    BY <2>1
<1>2. /\ b \in Seq(Mark) /\ Len(b) = n /\ \A i \in 1 .. n : b[i] = e[i]
      /\ \A m \in 1 .. n + 1, k \in 0 .. n : SubSeq(b, m, k) = SubSeq(e, m, k)
  BY <1>1, PartOfBeginning
<1> HIDE DEF b
<1>3. b[1] = kProtocolVersion /\ b[2] = kResponseTag /\ b[3] = r.status
  <2>1. 1 \in 1 .. n /\ 2 \in 1 .. n /\ 3 \in 1 .. n
    BY <1>1
  <2>2. QED
    BY <1>2, <2>1, Zenon DEF ResponseIn
<1>4. /\ SubSeq(b, 3 + 1, 3 + 4) = Bytes!append_le(r.hart_id, 4)
      /\ SubSeq(b, 7 + 1, 7 + 4) = Bytes!append_le(r.transaction_id, 4)
      /\ SubSeq(b, 11 + 1, 11 + 2) = Bytes!append_le(Len(r.data), 2)
      /\ SubSeq(b, 13 + 1, Len(b)) = SubSeq(e, 14, n)
  <2>1. /\ 4 \in 1 .. n + 1 /\ 7 \in 0 .. n /\ 8 \in 1 .. n + 1 /\ 11 \in 0 .. n
        /\ 12 \in 1 .. n + 1 /\ 13 \in 0 .. n /\ 14 \in 1 .. n + 1 /\ n \in 0 .. n
    BY <1>1
  <2>2. 3 + 1 = 4 /\ 3 + 4 = 7 /\ 7 + 1 = 8 /\ 7 + 4 = 11 /\ 11 + 1 = 12 /\ 11 + 2 = 13
    OBVIOUS
  <2>3. 13 + 1 = 14
    OBVIOUS
  <2>4. SubSeq(b, 4, 7) = SubSeq(e, 4, 7) /\ SubSeq(b, 8, 11) = SubSeq(e, 8, 11)
    BY <1>2, <2>1, Zenon
  <2>5. SubSeq(b, 12, 13) = SubSeq(e, 12, 13) /\ SubSeq(b, 14, Len(b)) = SubSeq(e, 14, n)
    BY <1>2, <2>1, Zenon
  <2>6. QED
    BY <2>2, <2>3, <2>4, <2>5, Zenon DEF ResponseIn
<1>5. Bytes!take_le(b, 3, 4) = r.hart_id /\ Bytes!take_le(b, 7, 4) = r.transaction_id
  <2>1. 4 \in 0 .. 8
    OBVIOUS
  <2>2. r.hart_id \in Field(4) /\ r.transaction_id \in Field(4)
    BY ResponseTypes
  <2>3. QED
    BY <1>4, <2>1, <2>2, FieldRead, Zenon
<1>6. Bytes!Payload(b, Bytes!ResponseHeader) = SubSeq(e, 14, n)
  BY <1>4, Zenon DEF Bytes!Payload, Bytes!ResponseHeader
<1>7. QED
  BY <1>2, <1>3, <1>4, <1>5, <1>6, Zenon DEF b

\* What a response that is sent is read as, and that no part of it is read.
LEMMA ResponseRead ==
  ASSUME NEW r \in Bytes!MemoryResponse, NEW e, ResponseIn(e, r)
  PROVE  /\ Bytes!decode_response(e) = IF Len(r.data) < Power(2) THEN r ELSE Illegal
         /\ Len(r.data) < Power(2) =>
              \A n \in 0 .. Len(e) - 1 : Bytes!decode_response(SubSeq(e, 1, n)) = Illegal
<1> DEFINE l == Len(r.data)
<1>1. e \in Seq(Mark) /\ Len(e) \in Nat /\ l \in Nat /\ Len(e) = 13 + l
  BY DEF ResponseIn
<1>2. Power(2) \in Nat \ {0}
  BY Powers
<1> HIDE DEF l
<1>3. ASSUME NEW b, SubSeq(b, 11 + 1, 11 + 2) = Bytes!append_le(l, 2)
      PROVE  Bytes!take_le(b, 11, 2) = l <=> l < Power(2)
  <2>1. CASE l < Power(2)
    <3>1. l \in Field(2)
      BY <1>1, <1>2, <2>1 DEF Field
    <3>2. 2 \in 0 .. 8
      OBVIOUS
    <3>3. Bytes!take_le(b, 11, 2) = l
      BY <1>3, <3>1, <3>2, FieldRead, Zenon
    <3>4. QED
      BY <2>1, <3>3
  <2>2. CASE ~(l < Power(2))
    <3> DEFINE d == Bytes!append_le(l, 2)
    <3>1. 2 \in 0 .. 8
      OBVIOUS
    <3>2. d \in Seq(Bytes!Byte) /\ Len(d) = 2
      BY <1>1, <3>1, AppendFacts
    <3> HIDE DEF d
    <3>3. d \in Seq(Nat) /\ Len(d) \in 0 .. 8 /\ \A i \in 1 .. Len(d) : d[i] \in 0 .. Radix - 1
      <4>1. d \in Seq(Nat)
        BY <3>2, ByteFacts, SeqMonotonic
      <4>2. \A i \in 1 .. Len(d) : d[i] \in Bytes!Byte
        BY <3>2, ElementOfSeq
      <4>3. QED
        BY <3>1, <3>2, <4>1, <4>2, ByteFacts, Zenon
    <3>4. ReadAs(d) \in Field(2)
      BY <3>2, <3>3, ReadBounds
    <3>5. Bytes!take_le(b, 11, 2) = ReadAs(d)
      BY <1>3, TakeFacts, Zenon DEF d
    <3>6. ReadAs(d) # l
      BY <1>1, <1>2, <2>2, <3>4 DEF Field
    <3>7. QED
      BY <2>2, <3>5, <3>6
  <2>3. QED
    BY <2>1, <2>2
<1>4. ASSUME NEW n \in 13 .. Len(e)
      PROVE  Bytes!decode_response(SubSeq(e, 1, n)) =
               IF n - 13 = Bytes!take_le(SubSeq(e, 1, n), 11, 2)
               THEN [status |-> r.status, hart_id |-> r.hart_id,
                     transaction_id |-> r.transaction_id, data |-> SubSeq(e, 14, n)]
               ELSE Illegal
  <2> DEFINE b == SubSeq(e, 1, n)
  <2>1. /\ Len(b) = n /\ b[1] = kProtocolVersion /\ b[2] = kResponseTag /\ b[3] = r.status
        /\ Bytes!take_le(b, 3, 4) = r.hart_id /\ Bytes!take_le(b, 7, 4) = r.transaction_id
        /\ Bytes!Payload(b, Bytes!ResponseHeader) = SubSeq(e, 14, n)
    BY ResponsePart, Zenon
  <2> HIDE DEF b
  <2>2. Len(b) >= 13
    BY <1>1, <2>1
  <2>3. Bytes!HasHeader(b, kResponseTag, Bytes!ResponseHeader)
    BY <2>1, <2>2, Zenon DEF Bytes!HasHeader, Bytes!ResponseHeader
  <2>4. Bytes!ResponseHeader = 13
    BY DEF Bytes!ResponseHeader
  <2>5. QED
    BY <2>1, <2>3, <2>4, Zenon DEF Bytes!decode_response, b
<1>5. ASSUME NEW n \in 13 .. Len(e)
      PROVE  SubSeq(SubSeq(e, 1, n), 11 + 1, 11 + 2) = Bytes!append_le(l, 2)
  BY ResponsePart, Zenon DEF l
<1>6. Bytes!decode_response(e) = IF l < Power(2) THEN r ELSE Illegal
  <2>1. Len(e) \in 13 .. Len(e) /\ SubSeq(e, 1, Len(e)) = e /\ SubSeq(e, 14, Len(e)) = r.data
    <3>1. Len(e) \in 13 .. Len(e)
      BY <1>1
    <3>2. SubSeq(e, 1, Len(e)) = e
      BY <1>1, SubSeqFull
    <3>3. QED
      BY <3>1, <3>2 DEF ResponseIn
  <2>2. Bytes!take_le(e, 11, 2) = l <=> l < Power(2)
    BY <1>3, <1>5, <2>1, Zenon
  <2>3. Len(e) - 13 = l
    BY <1>1
  <2>4. r = [status |-> r.status, hart_id |-> r.hart_id,
             transaction_id |-> r.transaction_id, data |-> r.data]
    BY ResponseTypes
  <2>5. Bytes!decode_response(e) =
          IF l = Bytes!take_le(e, 11, 2)
          THEN [status |-> r.status, hart_id |-> r.hart_id,
                transaction_id |-> r.transaction_id, data |-> r.data]
          ELSE Illegal
    BY <1>4, <2>1, <2>3, Zenon
  <2>6. QED
    BY <2>2, <2>4, <2>5, Zenon
<1>7. ASSUME l < Power(2), NEW n \in 0 .. Len(e) - 1
      PROVE  Bytes!decode_response(SubSeq(e, 1, n)) = Illegal
  <2>1. CASE n < 13
    <3> DEFINE b == SubSeq(e, 1, n)
    <3>1. n \in 0 .. Len(e)
      BY <1>1
    <3>2. Len(b) = n
      BY <1>1, <3>1, PartOfBeginning
    <3> HIDE DEF b
    <3>3. ~(Len(b) >= 13)
      BY <1>1, <2>1, <3>2
    <3>4. QED
      BY <3>3, Zenon DEF Bytes!decode_response, Bytes!HasHeader, Bytes!ResponseHeader, b
  <2>2. CASE ~(n < 13)
    <3>1. n \in 13 .. Len(e) /\ n - 13 # l
      BY <1>1, <2>2
    <3>2. Bytes!take_le(SubSeq(e, 1, n), 11, 2) = l
      BY <1>3, <1>5, <1>7, <3>1, Zenon
    <3>3. QED
      BY <1>4, <3>1, <3>2, Zenon
  <2>3. QED
    BY <2>1, <2>2
<1>8. QED
  BY <1>6, <1>7 DEF l

\* No message is read as one of the other direction.
LEMMA OtherTag ==
  /\ \A e : e[2] = kRequestTag => Bytes!decode_response(e) = Illegal
  /\ \A e : e[2] = kResponseTag => Bytes!decode_request(e) = Illegal
<1>1. kRequestTag # kResponseTag
  BY CallsAssumption
<1>2. ASSUME NEW e, e[2] = kRequestTag PROVE Bytes!decode_response(e) = Illegal
  <2>1. ~Bytes!HasHeader(e, kResponseTag, Bytes!ResponseHeader)
    BY <1>1, <1>2 DEF Bytes!HasHeader
  <2>2. QED
    BY <2>1, Zenon DEF Bytes!decode_response
<1>3. ASSUME NEW e, e[2] = kResponseTag PROVE Bytes!decode_request(e) = Illegal
  <2>1. ~Bytes!HasHeader(e, kRequestTag, Bytes!RequestHeader)
    BY <1>1, <1>3 DEF Bytes!HasHeader
  <2>2. QED
    BY <2>1, Zenon DEF Bytes!decode_request
<1>4. QED
  BY <1>2, <1>3
-------------------------------------------------------------------------------
(***************************************************************************)
(* Writing what was read.                                                  *)
(***************************************************************************)
\* The bytes of a message that are read as a field are those it is written as.
LEMMA FieldWritten ==
  ASSUME NEW b \in Seq(Bytes!Byte), NEW pos \in Nat, NEW n \in 0 .. 8, pos + n <= Len(b),
         NEW v, v = Bytes!take_le(b, pos, n)
  PROVE  SubSeq(b, 1, pos) \o Bytes!append_le(v, n) = SubSeq(b, 1, pos + n)
<1> DEFINE d == SubSeq(b, pos + 1, pos + n)
<1>1. Len(b) \in Nat /\ n \in Nat
  OBVIOUS
<1>2. d \in Seq(Bytes!Byte) /\ Len(d) = n
  <2>1. \A i \in pos + 1 .. pos + n : b[i] \in Bytes!Byte
    <3>1. \A i \in pos + 1 .. pos + n : i \in 1 .. Len(b)
      BY <1>1
    <3>2. QED
      BY <3>1, ElementOfSeq
  <2>2. /\ d \in Seq(Bytes!Byte)
        /\ Len(d) = IF pos + 1 <= pos + n THEN (pos + n) - (pos + 1) + 1 ELSE 0
    <3>1. pos + 1 \in Int /\ pos + n \in Int
      BY <1>1
    <3>2. QED
      BY <2>1, <3>1, SubSeqProperties
  <2> HIDE DEF d
  <2>3. QED
    BY <1>1, <2>2
<1>3. v = ReadAs(d)
  BY TakeFacts, Zenon
<1> HIDE DEF d
<1>4. Bytes!append_le(v, n) = d
  <2>1. Len(d) <= 8
    BY <1>2
  <2>2. Bytes!append_le(ReadAs(d), Len(d)) = d
    BY <1>2, <2>1, WritesBytes
  <2>3. QED
    BY <1>2, <1>3, <2>2, Zenon
<1>5. SubSeq(b, 1, pos) \o SubSeq(b, pos + 1, pos + n) = SubSeq(b, 1, pos + n)
  <2>1. pos \in 0 .. Len(b) /\ pos + n \in pos .. Len(b)
    BY <1>1
  <2>2. QED
    BY <2>1, PartsJoin
<1>6. QED
  BY <1>4, <1>5, Zenon DEF d

\* The three bytes a message begins with, and the data it ends with.
LEMMA WholeMessage ==
  ASSUME NEW b \in Seq(Bytes!Byte), NEW k \in 3 .. Len(b)
  PROVE  /\ <<b[1], b[2], b[3]>> = SubSeq(b, 1, 3)
         /\ SubSeq(b, 1, k) \o SubSeq(b, k + 1, Len(b)) = b
         /\ SubSeq(b, k + 1, Len(b)) \in Seq(Bytes!Byte) /\ Len(SubSeq(b, k + 1, Len(b))) = Len(b) - k
<1>1. Len(b) \in Nat /\ k \in Nat /\ k <= Len(b) /\ 3 \in 0 .. Len(b)
  OBVIOUS
<1>2. <<b[1], b[2], b[3]>> = SubSeq(b, 1, 3)
  <2> DEFINE a == SubSeq(b, 1, 3)
  <2>1. a \in Seq(Bytes!Byte) /\ Len(a) = 3 /\ \A i \in 1 .. 3 : a[i] = b[i]
    BY <1>1, PartOfBeginning
  <2> HIDE DEF a
  <2>2. a = <<a[1], a[2], a[3]>>
    BY <2>1
  <2>3. a[1] = b[1] /\ a[2] = b[2] /\ a[3] = b[3]
    BY <2>1
  <2>4. QED
    BY <2>2, <2>3, Zenon DEF a
<1>3. SubSeq(b, 1, k) \o SubSeq(b, k + 1, Len(b)) = b
  <2>1. k \in 0 .. Len(b) /\ Len(b) \in k .. Len(b)
    BY <1>1
  <2>2. SubSeq(b, 1, k) \o SubSeq(b, k + 1, Len(b)) = SubSeq(b, 1, Len(b))
    BY <2>1, PartsJoin
  <2>3. QED
    BY <2>2, SubSeqFull
<1>4. SubSeq(b, k + 1, Len(b)) \in Seq(Bytes!Byte) /\ Len(SubSeq(b, k + 1, Len(b))) = Len(b) - k
  <2> DEFINE d == SubSeq(b, k + 1, Len(b))
  <2>1. \A i \in k + 1 .. Len(b) : b[i] \in Bytes!Byte
    <3>1. \A i \in k + 1 .. Len(b) : i \in 1 .. Len(b)
      BY <1>1
    <3>2. QED
      BY <3>1, ElementOfSeq
  <2>2. d \in Seq(Bytes!Byte) /\ Len(d) = IF k + 1 <= Len(b) THEN Len(b) - (k + 1) + 1 ELSE 0
    <3>1. k + 1 \in Int /\ Len(b) \in Int
      BY <1>1
    <3>2. QED
      BY <2>1, <3>1, SubSeqProperties
  <2> HIDE DEF d
  <2>3. d \in Seq(Bytes!Byte) /\ Len(d) = Len(b) - k
    BY <1>1, <2>2
  <2>4. QED
    BY <2>3 DEF d
<1>5. QED
  BY <1>2, <1>3, <1>4

LEMMA RequestRestored ==
  ASSUME NEW b \in Seq(Bytes!Byte), Bytes!decode_request(b) # Illegal
  PROVE  Bytes!encode_request(Bytes!decode_request(b)) = b
<1> DEFINE p == Bytes!ParsedRequest(b)
<1>1. /\ Bytes!HasHeader(b, kRequestTag, Bytes!RequestHeader) /\ Bytes!WellFormed(p)
      /\ Bytes!decode_request(b) = p
  BY Zenon DEF Bytes!decode_request
<1>2. b[1] = kProtocolVersion /\ b[2] = kRequestTag /\ Len(b) >= 21
  BY <1>1, Zenon DEF Bytes!HasHeader, Bytes!RequestHeader
<1>3. /\ p.op = b[3] /\ p.hart_id = Bytes!take_le(b, 3, 4)
      /\ p.transaction_id = Bytes!take_le(b, 7, 4) /\ p.address = Bytes!take_le(b, 11, 8)
      /\ p.size = Bytes!take_le(b, 19, 2) /\ p.data = SubSeq(b, 22, Len(b))
  <2>1. 21 + 1 = 22
    OBVIOUS
  <2>2. QED
    BY <2>1 DEF Bytes!ParsedRequest, Bytes!Payload, Bytes!RequestHeader
<1>4. p.size # 0 /\ (p.op = 2 => Len(p.data) = p.size)
  <2> HIDE DEF p
  <2>1. QED
    BY <1>1 DEF Bytes!WellFormed, Bytes!ReadOp, Bytes!WriteOp
<1> HIDE DEF p
<1>5. Bytes!encode_request(p) = RequestBytes(p)
  <2>1. ~(p.size = 0 \/ (p.op = 2 /\ Len(p.data) # p.size))
    BY <1>4
  <2>2. QED
    BY <2>1, Zenon DEF Bytes!encode_request, Bytes!WriteOp, RequestBytes
<1>6. <<kProtocolVersion, kRequestTag, p.op>> = SubSeq(b, 1, 3)
      /\ SubSeq(b, 1, 21) \o p.data = b
  <2>1. 21 \in 3 .. Len(b) /\ 21 + 1 = 22
    BY <1>2
  <2>2. <<b[1], b[2], b[3]>> = SubSeq(b, 1, 3) /\ SubSeq(b, 1, 21) \o SubSeq(b, 21 + 1, Len(b)) = b
    BY <2>1, WholeMessage
  <2>3. QED
    BY <1>2, <1>3, <2>1, <2>2, Zenon
<1>7. /\ SubSeq(b, 1, 3) \o Bytes!append_le(p.hart_id, 4) = SubSeq(b, 1, 7)
      /\ SubSeq(b, 1, 7) \o Bytes!append_le(p.transaction_id, 4) = SubSeq(b, 1, 11)
      /\ SubSeq(b, 1, 11) \o Bytes!append_le(p.address, 8) = SubSeq(b, 1, 19)
      /\ SubSeq(b, 1, 19) \o Bytes!append_le(p.size, 2) = SubSeq(b, 1, 21)
  <2>1. /\ 3 + 4 <= Len(b) /\ 7 + 4 <= Len(b) /\ 11 + 8 <= Len(b) /\ 19 + 2 <= Len(b)
    BY <1>2
  <2>2. 3 + 4 = 7 /\ 7 + 4 = 11 /\ 11 + 8 = 19 /\ 19 + 2 = 21
    OBVIOUS
  <2>3. /\ 2 \in 0 .. 8 /\ 4 \in 0 .. 8 /\ 8 \in 0 .. 8
        /\ 3 \in Nat /\ 7 \in Nat /\ 11 \in Nat /\ 19 \in Nat
    OBVIOUS
  <2>4. /\ SubSeq(b, 1, 3) \o Bytes!append_le(p.hart_id, 4) = SubSeq(b, 1, 3 + 4)
        /\ SubSeq(b, 1, 7) \o Bytes!append_le(p.transaction_id, 4) = SubSeq(b, 1, 7 + 4)
    BY <1>3, <2>1, <2>3, FieldWritten, Zenon
  <2>5. /\ SubSeq(b, 1, 11) \o Bytes!append_le(p.address, 8) = SubSeq(b, 1, 11 + 8)
        /\ SubSeq(b, 1, 19) \o Bytes!append_le(p.size, 2) = SubSeq(b, 1, 19 + 2)
    BY <1>3, <2>1, <2>3, FieldWritten, Zenon
  <2>6. QED
    BY <2>2, <2>4, <2>5, Zenon
<1>8. RequestBytes(p) = b
  BY <1>6, <1>7, Zenon DEF RequestBytes
<1>9. QED
  BY <1>1, <1>5, <1>8, Zenon

LEMMA ResponseRestored ==
  ASSUME NEW b \in Seq(Bytes!Byte), Bytes!decode_response(b) # Illegal
  PROVE  Bytes!encode_response(Bytes!decode_response(b)) = b
<1> DEFINE p == [status |-> b[3], hart_id |-> Bytes!take_le(b, 3, 4),
                 transaction_id |-> Bytes!take_le(b, 7, 4),
                 data |-> Bytes!Payload(b, Bytes!ResponseHeader)]
<1>1. /\ Bytes!HasHeader(b, kResponseTag, Bytes!ResponseHeader)
      /\ Len(b) - Bytes!ResponseHeader = Bytes!take_le(b, 11, 2)
      /\ Bytes!decode_response(b) = p
  BY Zenon DEF Bytes!decode_response
<1>2. /\ b[1] = kProtocolVersion /\ b[2] = kResponseTag /\ Len(b) >= 13
      /\ Len(b) - 13 = Bytes!take_le(b, 11, 2)
  BY <1>1, Zenon DEF Bytes!HasHeader, Bytes!ResponseHeader
<1>3. /\ p.status = b[3] /\ p.hart_id = Bytes!take_le(b, 3, 4)
      /\ p.transaction_id = Bytes!take_le(b, 7, 4) /\ p.data = SubSeq(b, 14, Len(b))
  <2>1. 13 + 1 = 14
    OBVIOUS
  <2>2. QED
    BY <2>1 DEF Bytes!Payload, Bytes!ResponseHeader
<1> HIDE DEF p
<1>4. Bytes!encode_response(p) = ResponseBytes(p)
  BY Zenon DEF Bytes!encode_response, Bytes!SizeField, ResponseBytes
<1>5. /\ <<kProtocolVersion, kResponseTag, p.status>> = SubSeq(b, 1, 3)
      /\ SubSeq(b, 1, 13) \o p.data = b /\ Len(p.data) = Bytes!take_le(b, 11, 2)
  <2>1. 13 \in 3 .. Len(b) /\ 13 + 1 = 14
    BY <1>2
  <2>2. /\ <<b[1], b[2], b[3]>> = SubSeq(b, 1, 3)
        /\ SubSeq(b, 1, 13) \o SubSeq(b, 13 + 1, Len(b)) = b
        /\ Len(SubSeq(b, 13 + 1, Len(b))) = Len(b) - 13
    BY <2>1, WholeMessage
  <2>3. QED
    BY <1>2, <1>3, <2>1, <2>2, Zenon
<1>6. /\ SubSeq(b, 1, 3) \o Bytes!append_le(p.hart_id, 4) = SubSeq(b, 1, 7)
      /\ SubSeq(b, 1, 7) \o Bytes!append_le(p.transaction_id, 4) = SubSeq(b, 1, 11)
      /\ SubSeq(b, 1, 11) \o Bytes!append_le(Len(p.data), 2) = SubSeq(b, 1, 13)
  <2>1. /\ 3 + 4 <= Len(b) /\ 7 + 4 <= Len(b) /\ 11 + 2 <= Len(b)
    BY <1>2
  <2>2. 3 + 4 = 7 /\ 7 + 4 = 11 /\ 11 + 2 = 13
    OBVIOUS
  <2>3. 2 \in 0 .. 8 /\ 4 \in 0 .. 8 /\ 3 \in Nat /\ 7 \in Nat /\ 11 \in Nat
    OBVIOUS
  <2>4. /\ SubSeq(b, 1, 3) \o Bytes!append_le(p.hart_id, 4) = SubSeq(b, 1, 3 + 4)
        /\ SubSeq(b, 1, 7) \o Bytes!append_le(p.transaction_id, 4) = SubSeq(b, 1, 7 + 4)
    BY <1>3, <2>1, <2>3, FieldWritten, Zenon
  <2>5. SubSeq(b, 1, 11) \o Bytes!append_le(Len(p.data), 2) = SubSeq(b, 1, 11 + 2)
    BY <1>5, <2>1, <2>3, FieldWritten, Zenon
  <2>6. QED
    BY <2>2, <2>4, <2>5, Zenon
<1>7. ResponseBytes(p) = b
  BY <1>5, <1>6, Zenon DEF ResponseBytes
<1>8. QED
  BY <1>1, <1>4, <1>7, Zenon
-------------------------------------------------------------------------------
(***************************************************************************)
(* Every call.                                                             *)
(***************************************************************************)
LEMMA RequestsExact ==
  ASSUME NEW r \in Bytes!MemoryRequest, result = Bytes!encode_request(r), result # Illegal
  PROVE  /\ Bytes!decode_request(result) =
              (IF r.op = Bytes!ReadOp => r.data = <<>> THEN r ELSE Illegal)
         /\ Bytes!decode_response(result) = Illegal
         /\ (r.op = Bytes!ReadOp => r.data = <<>>) =>
              \A n \in 0 .. Len(result) - 1 : Bytes!decode_request(SubSeq(result, 1, n)) = Illegal
<1>1. r.size # 0 /\ (r.op = 2 => Len(r.data) = r.size) /\ result = RequestBytes(r)
  <2>1. ~(r.size = 0 \/ (r.op = 2 /\ Len(r.data) # r.size))
    BY Zenon DEF Bytes!encode_request, Bytes!WriteOp
  <2>2. result = RequestBytes(r)
    BY <2>1, Zenon DEF Bytes!encode_request, Bytes!WriteOp, RequestBytes
  <2>3. QED
    BY <2>1, <2>2, Zenon
<1>2. RequestIn(result, r)
  BY <1>1, RequestLayout, Zenon
<1>3. result[2] = kRequestTag
  BY <1>2, Zenon DEF RequestIn
<1>4. Bytes!ReadOp = 1
  BY DEF Bytes!ReadOp
<1>5. QED
  BY <1>1, <1>2, <1>3, <1>4, RequestRead, OtherTag, Zenon

LEMMA ResponsesExact ==
  ASSUME NEW r \in Bytes!MemoryResponse, result = Bytes!encode_response(r)
  PROVE  /\ Bytes!decode_response(result) =
              (IF Len(r.data) < 2 ^ (2 * ByteBits) THEN r ELSE Illegal)
         /\ Bytes!decode_request(result) = Illegal
         /\ Len(r.data) < 2 ^ (2 * ByteBits) =>
              \A n \in 0 .. Len(result) - 1 : Bytes!decode_response(SubSeq(result, 1, n)) = Illegal
<1>1. result = ResponseBytes(r)
  BY Zenon DEF Bytes!encode_response, Bytes!SizeField, ResponseBytes
<1>2. ResponseIn(result, r)
  BY <1>1, ResponseLayout, Zenon
<1>3. result[2] = kResponseTag
  BY <1>2, Zenon DEF ResponseIn
<1>4. 2 ^ (2 * ByteBits) = Power(2)
  BY Zenon DEF Power
<1>5. QED
  BY <1>2, <1>3, <1>4, ResponseRead, OtherTag, Zenon

\* A call with a message is one of MessageCalls and has not returned, or has
\* returned what the function it names computes.
Function(m, value) ==
  \/ m.name = "encode_request" /\ value = Bytes!encode_request(m.of)
  \/ m.name = "encode_response" /\ value = Bytes!encode_response(m.of)
  \/ m.name = "decode_request" /\ value = Bytes!decode_request(m.of)
  \/ m.name = "decode_response" /\ value = Bytes!decode_response(m.of)
MInv ==
  call.unit = "message" =>
    call.message \in MessageCalls /\ (result = Pending \/ Function(call.message, result))

LEMMA MInvInit == Init => MInv
<1> SUFFICES ASSUME Init, call.unit = "message" PROVE call.message \in MessageCalls
  BY DEF Init, MInv
<1>1. CASE call \in IntegerCalls
  <2>1. call.unit \in {"branch", "op", "opimm", "op32", "opimm32", "csr", "amo"}
    BY <1>1, CallsAssumption
  <2>2. QED
    BY <2>1
<1>2. CASE \E c \in MessageCalls : call = [unit |-> "message", message |-> c]
  BY <1>2
<1>3. CASE ~(call \in IntegerCalls) /\ ~(\E c \in MessageCalls : call = [unit |-> "message", message |-> c])
  <2>1. \/ \E w \in Halves : call = [unit |-> "half", bits |-> w]
        \/ \E w \in Words32 : call = [unit |-> "word", fields |-> w]
        \/ \E c \in SoftCalls : call = [unit |-> "soft", function |-> c]
        \/ \E c \in HalfCalls : call = [unit |-> "half float", function |-> c]
        \/ \E c \in FloatCalls : call = [unit |-> "float", instruction |-> c]
        \/ \E c \in VectorCalls : call = [unit |-> "vector", operation |-> c]
        \/ \E c \in AccessCalls : call = [unit |-> "access", request |-> c]
        \/ \E c \in HartCalls : call = [unit |-> "hart", step |-> c]
    BY <1>3 DEF Init
  <2>2. ASSUME NEW w
        PROVE  /\ [unit |-> "half", bits |-> w].unit # "message"
               /\ [unit |-> "word", fields |-> w].unit # "message"
               /\ [unit |-> "soft", function |-> w].unit # "message"
               /\ [unit |-> "half float", function |-> w].unit # "message"
    OBVIOUS
  <2>3. ASSUME NEW w
        PROVE  /\ [unit |-> "float", instruction |-> w].unit # "message"
               /\ [unit |-> "vector", operation |-> w].unit # "message"
               /\ [unit |-> "access", request |-> w].unit # "message"
               /\ [unit |-> "hart", step |-> w].unit # "message"
    OBVIOUS
  <2>4. call.unit # "message"
    BY <2>1, <2>2, <2>3, Zenon
  <2>5. QED
    BY <2>4
<1>4. QED
  BY <1>1, <1>2, <1>3

LEMMA MInvNext == MInv /\ [Next]_vars => MInv'
<1> SUFFICES ASSUME MInv, [Next]_vars, call'.unit = "message"
             PROVE  (call.message \in MessageCalls /\ (result = Pending \/ Function(call.message, result)))'
  BY DEF MInv
<1>1. CASE UNCHANGED vars
  BY <1>1 DEF MInv, vars, Function
<1>2. CASE Message
  <2>1. call' = call /\ Function(call.message, result') /\ call.unit = "message"
    BY <1>2, Zenon DEF Message, Return, Function
  <2>2. call'.message \in MessageCalls
    BY <2>1, Zenon DEF MInv
  <2>3. QED
    BY <2>1, <2>2 DEF Function
<1>3. CASE Next /\ ~Message
  <2>1. \E unit \in {"half", "word", "branch", "op", "opimm", "op32", "opimm32", "csr", "amo",
                     "soft", "half float", "float", "vector", "access", "hart"} :
          call.unit = unit /\ call' = call
    <3>1. \/ DecodeHalf \/ DecodeFull \/ Branch \/ Op \/ OpImm \/ Op32 \/ OpImm32 \/ Csr \/ Amo
          \/ Soft \/ SoftHalf \/ Float \/ Vector \/ Access \/ Step
      BY <1>3, Zenon DEF Next
    <3>2. CASE DecodeHalf \/ DecodeFull \/ Branch \/ Op \/ OpImm
      BY <3>2, Zenon DEF DecodeHalf, DecodeFull, Branch, Op, OpImm, Return
    <3>3. CASE Op32 \/ OpImm32 \/ Csr \/ Amo \/ Soft
      BY <3>3, Zenon DEF Op32, OpImm32, Csr, Amo, Soft, Return
    <3>4. CASE SoftHalf \/ Float \/ Vector \/ Access \/ Step
      BY <3>4, Zenon DEF SoftHalf, Float, Vector, Access, Step, Return
    <3>5. QED
      BY <3>1, <3>2, <3>3, <3>4, Zenon
  <2>2. call'.unit # "message"
    BY <2>1
  <2>3. QED
    BY <2>2
<1>4. QED
  BY <1>1, <1>2, <1>3, Zenon

LEMMA MInvReads == MInv => MessagesReadBack
<1> SUFFICES ASSUME MInv, Returned("message") PROVE MessagesReadBack
  BY Zenon DEF MessagesReadBack
<1> DEFINE m == call.message
<1>1. m \in MessageCalls /\ Function(m, result)
  BY Zenon DEF MInv, Returned
<1>2. CASE m.name = "encode_request"
  <2>1. result = Bytes!encode_request(m.of) /\ m.of \in Bytes!MemoryRequest
    BY <1>1, <1>2, CallsAssumption DEF Function
  <2>2. QED
    BY <1>2, <2>1, RequestsExact DEF MessagesReadBack, Encoded
<1>3. CASE m.name = "encode_response"
  <2>1. result = Bytes!encode_response(m.of) /\ m.of \in Bytes!MemoryResponse
    BY <1>1, <1>3, CallsAssumption DEF Function
  <2>2. QED
    BY <1>3, <2>1, ResponsesExact DEF MessagesReadBack, Encoded
<1>4. CASE m.name = "decode_request"
  <2>1. result = Bytes!decode_request(m.of) /\ m.of \in Seq(Bytes!Byte)
    BY <1>1, <1>4, CallsAssumption DEF Function
  <2>2. result # Illegal => Bytes!encode_request(result) = m.of
    BY <2>1, RequestRestored, Zenon
  <2>3. QED
    BY <1>4, <2>2 DEF MessagesReadBack
<1>5. CASE m.name = "decode_response"
  <2>1. result = Bytes!decode_response(m.of) /\ m.of \in Seq(Bytes!Byte)
    BY <1>1, <1>5, CallsAssumption DEF Function
  <2>2. result # Illegal => Bytes!encode_response(result) = m.of
    BY <2>1, ResponseRestored, Zenon
  <2>3. QED
    BY <1>5, <2>2 DEF MessagesReadBack
<1>6. QED
  BY <1>1, <1>2, <1>3, <1>4, <1>5, Zenon DEF Function

\* Decoding restores what was encoded, whole or not at all, and encoding
\* restores the bytes that were decoded (encode_request, decode_request,
\* encode_response and decode_response of memory_protocol.cpp), whatever the
\* message and whatever the bytes.
THEOREM MessagesExact == Spec => []MessagesReadBack
<1>1. Init => MInv
  BY MInvInit
<1>2. MInv /\ [Next]_vars => MInv'
  BY MInvNext
<1>3. MInv => MessagesReadBack
  BY MInvReads
<1>4. QED
  BY <1>1, <1>2, <1>3, PTL DEF Spec
===============================================================================
