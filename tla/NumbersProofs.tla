----------------------------- MODULE NumbersProofs -----------------------------
(***************************************************************************)
(* What the conversions and the arithmetic of Numbers make, for numbers    *)
(* and byte arrays of every size.                                          *)
(***************************************************************************)
EXTENDS Numbers, SequenceTheorems, WellFoundedInduction, TLAPS

\* Induction over the naturals, for a set and not for a predicate: the provers do
\* not instantiate theorems about operators.
LEMMA Least ==
  ASSUME NEW T \in SUBSET Nat, T # {}
  PROVE  \E x \in T : \A y \in T : x <= y
<1> DEFINE R == OpToRel(<, Nat)
<1>1. IsWellFoundedOn(R, Nat)
  BY NatLessThanWellFounded
<1>2. \A x, y \in Nat : <<y, x>> \in R <=> y < x
  BY DEF OpToRel
<1> HIDE DEF R
<1>3. PICK x \in T : \A y \in T : ~(<<y, x>> \in R)
  BY <1>1, WFMin
<1>4. ASSUME NEW y \in T PROVE x <= y
  <2>1. ~(y < x) /\ x \in Nat /\ y \in Nat
    BY <1>2, <1>3
  <2> QED BY <2>1
<1> QED BY <1>4

LEMMA Everything ==
  ASSUME NEW T \in SUBSET Nat, \A n \in Nat : (\A m \in 0..(n - 1) : m \in T) => n \in T
  PROVE  T = Nat
<1> SUFFICES ASSUME Nat \ T # {} PROVE FALSE
  OBVIOUS
<1>1. PICK x \in Nat \ T : \A y \in Nat \ T : x <= y
  BY Least
<1>2. ASSUME NEW m \in 0..(x - 1) PROVE m \in T
  BY <1>1
<1> QED BY <1>1, <1>2

-----------------------------------------------------------------------------
(* From bytes to a number                                                  *)

\* f has the number that the bytes from each on make.
Sums(data, f) ==
  f = [i \in DOMAIN data |->
         IF i < Len(data) THEN data[i] + 256 * f[i + 1]
         ELSE IF data[i] < 128 THEN data[i] ELSE data[i] - 256]

LEMMA SumsExist ==
  ASSUME NEW data \in Seq(Byte), data # <<>>
  PROVE  \E f : Sums(data, f)
<1> DEFINE n == Len(data)
           Step(f, i) == IF i < n THEN data[i] + 256 * f[i + 1]
                         ELSE IF data[i] < 128 THEN data[i] ELSE data[i] - 256
           Has(j) == \E f : f = [i \in (n - j)..n |-> Step(f, i)]
           T == {j \in Nat : j < n => Has(j)}
<1>1. n \in Nat \ {0} /\ DOMAIN data = 1..n
  OBVIOUS
<1> HIDE DEF n
<1>2. ASSUME NEW j \in Nat, \A m \in 0..(j - 1) : m \in T PROVE j \in T
  <2> SUFFICES ASSUME j < n PROVE Has(j)
    OBVIOUS
  <2>1. CASE j = 0
    <3> DEFINE f == [i \in (n - j)..n |-> IF data[i] < 128 THEN data[i] ELSE data[i] - 256]
    <3>1. \A i \in (n - j)..n : ~(i < n)
      BY <1>1, <2>1
    <3>2. f = [i \in (n - j)..n |-> Step(f, i)]
      BY <3>1
    <3> QED BY <3>2
  <2>2. CASE j > 0
    <3>1. j - 1 \in 0..(j - 1) /\ j - 1 < n
      BY <1>1, <2>2
    <3>2. PICK g : g = [i \in (n - (j - 1))..n |-> Step(g, i)]
      BY <1>2, <3>1
    <3> DEFINE f == [i \in (n - j)..n |-> IF i = n - j THEN Step(g, i) ELSE g[i]]
    <3>3. ASSUME NEW i \in (n - j)..n PROVE f[i] = Step(f, i)
      <4>1. CASE i = n - j
        <5>1. i < n /\ i + 1 \in (n - j)..n /\ i + 1 # n - j
          BY <1>1, <2>2, <4>1
        <5>2. f[i + 1] = g[i + 1]
          BY <5>1
        <5> QED BY <4>1, <5>1, <5>2
      <4>2. CASE i # n - j
        <5>1. i \in (n - (j - 1))..n
          BY <1>1, <4>2
        <5>2. g[i] = Step(g, i)
          BY <3>2, <5>1
        <5>3. i < n => i + 1 \in (n - j)..n /\ i + 1 # n - j
          BY <1>1, <5>1
        <5>4. i < n => f[i + 1] = g[i + 1]
          BY <5>3
        <5> QED BY <4>2, <5>2, <5>4
      <4> QED BY <4>1, <4>2
    <3>4. f = [i \in (n - j)..n |-> Step(f, i)]
      <4> DEFINE h == [i \in (n - j)..n |-> Step(f, i)]
      <4>1. \A i \in (n - j)..n : f[i] = h[i]
        BY <3>3
      <4> QED BY <4>1
    <3> QED BY <3>4
  <2> QED BY <2>1, <2>2
<1>3. T = Nat
  <2> HIDE DEF T
  <2>1. T \in SUBSET Nat
    BY DEF T
  <2> QED BY <1>2, <2>1, Everything
<1>4. Has(n - 1)
  <2>1. n - 1 \in Nat /\ n - 1 < n
    BY <1>1
  <2> HIDE DEF Has
  <2> QED BY <1>3, <2>1
<1>5. n - (n - 1) = 1
  BY <1>1
<1> QED BY <1>1, <1>4, <1>5 DEF Sums, n

LEMMA SumsAt ==
  ASSUME NEW data \in Seq(Byte), NEW f, Sums(data, f)
  PROVE  \A i \in 1..Len(data) :
           f[i] = IF i < Len(data) THEN data[i] + 256 * f[i + 1]
                  ELSE IF data[i] < 128 THEN data[i] ELSE data[i] - 256
<1>1. DOMAIN data = 1..Len(data)
  OBVIOUS
<1> QED BY <1>1 DEF Sums

LEMMA SumsAreNumbers ==
  ASSUME NEW data \in Seq(Byte), data # <<>>, NEW f, Sums(data, f)
  PROVE  \A i \in DOMAIN data : f[i] \in Int
<1> DEFINE n == Len(data)
           T == {j \in Nat : j < n => f[n - j] \in Int}
<1>1. n \in Nat \ {0} /\ DOMAIN data = 1..n
  OBVIOUS
<1>2. \A i \in 1..n : f[i] = IF i < n THEN data[i] + 256 * f[i + 1]
                             ELSE IF data[i] < 128 THEN data[i] ELSE data[i] - 256
  BY SumsAt
<1>3. \A i \in 1..n : data[i] \in Int
  <2>1. \A i \in 1..n : data[i] \in Byte
    BY <1>1
  <2>2. \A x \in Byte : x \in Int
    BY DEF Byte
  <2> QED BY <2>1, <2>2
<1> HIDE DEF n
<1>4. ASSUME NEW j \in Nat, \A m \in 0..(j - 1) : m \in T PROVE j \in T
  <2> SUFFICES ASSUME j < n PROVE f[n - j] \in Int
    OBVIOUS
  <2>1. n - j \in 1..n
    BY <1>1
  <2>2. CASE j = 0
    BY <1>1, <1>2, <1>3, <2>1, <2>2
  <2>3. CASE j > 0
    <3>1. j - 1 \in 0..(j - 1) /\ j - 1 < n /\ n - (j - 1) = n - j + 1 /\ n - j < n
      BY <1>1, <2>3
    <3>2. f[n - (j - 1)] \in Int
      BY <1>4, <3>1
    <3> QED BY <1>2, <1>3, <2>1, <3>1, <3>2
  <2> QED BY <2>2, <2>3
<1>5. T = Nat
  <2> HIDE DEF T
  <2>1. T \in SUBSET Nat
    BY DEF T
  <2> QED BY <1>4, <2>1, Everything
<1>6. ASSUME NEW i \in 1..n PROVE f[i] \in Int
  <2>1. n - i \in Nat /\ n - i < n /\ n - (n - i) = i
    BY <1>1
  <2>2. f[n - (n - i)] \in Int
    BY <1>5, <2>1
  <2> QED BY <2>1, <2>2
<1> QED BY <1>1, <1>6

LEMMA SameSums ==
  ASSUME NEW data \in Seq(Byte), data # <<>>, NEW f, Sums(data, f), NEW g, Sums(data, g)
  PROVE  f = g
<1> DEFINE n == Len(data)
           T == {j \in Nat : j < n => f[n - j] = g[n - j]}
<1>1. n \in Nat \ {0} /\ DOMAIN data = 1..n
  OBVIOUS
<1>2. \A i \in 1..n : f[i] = IF i < n THEN data[i] + 256 * f[i + 1]
                             ELSE IF data[i] < 128 THEN data[i] ELSE data[i] - 256
  BY SumsAt
<1>3. \A i \in 1..n : g[i] = IF i < n THEN data[i] + 256 * g[i + 1]
                             ELSE IF data[i] < 128 THEN data[i] ELSE data[i] - 256
  BY SumsAt
<1> HIDE DEF n
<1>4. ASSUME NEW j \in Nat, \A m \in 0..(j - 1) : m \in T PROVE j \in T
  <2> SUFFICES ASSUME j < n PROVE f[n - j] = g[n - j]
    OBVIOUS
  <2>1. n - j \in 1..n
    BY <1>1
  <2>2. CASE j = 0
    <3>1. ~(n - j < n)
      BY <1>1, <2>2
    <3> QED BY <1>2, <1>3, <2>1, <3>1
  <2>3. CASE j > 0
    <3>1. j - 1 \in 0..(j - 1) /\ j - 1 < n /\ n - (j - 1) = n - j + 1 /\ n - j < n
      BY <1>1, <2>3
    <3>2. f[n - (j - 1)] = g[n - (j - 1)]
      BY <1>4, <3>1
    <3>3. f[n - j + 1] = g[n - j + 1]
      BY <3>1, <3>2
    <3> QED BY <1>2, <1>3, <2>1, <3>1, <3>3
  <2> QED BY <2>2, <2>3
<1>5. T = Nat
  <2> HIDE DEF T
  <2>1. T \in SUBSET Nat
    BY DEF T
  <2> QED BY <1>4, <2>1, Everything
<1>6. ASSUME NEW i \in 1..n PROVE f[i] = g[i]
  <2>1. n - i \in Nat /\ n - i < n /\ n - (n - i) = i
    BY <1>1
  <2>2. f[n - (n - i)] = g[n - (n - i)]
    BY <1>5, <2>1
  <2> QED BY <2>1, <2>2
<1> QED BY <1>1, <1>6 DEF Sums

LEMMA BytesToIntSums ==
  ASSUME NEW data \in Seq(Byte), data # <<>>
  PROVE  \E f : Sums(data, f) /\ BytesToInt(data) = f[1]
<1> DEFINE f == CHOOSE g : Sums(data, g)
<1>1. Sums(data, f)
  BY SumsExist
<1>2. BytesToInt(data) = f[1]
  BY DEF BytesToInt, Sums
<1> QED BY <1>1, <1>2

\* What bytes make is a number.
LEMMA BytesToIntType ==
  ASSUME NEW data \in Seq(Byte)
  PROVE  BytesToInt(data) \in Int
<1>1. CASE data = <<>>
  BY <1>1 DEF BytesToInt
<1>2. CASE data # <<>>
  <2>1. PICK f : Sums(data, f) /\ BytesToInt(data) = f[1]
    BY <1>2, BytesToIntSums
  <2>2. 1 \in DOMAIN data
    BY <1>2
  <2>3. f[1] \in Int
    BY <1>2, <2>1, <2>2, SumsAreNumbers
  <2> QED BY <2>1, <2>3
<1> QED BY <1>1, <1>2

LEMMA OneByte ==
  ASSUME NEW b \in Byte
  PROVE  BytesToInt(<<b>>) = IF b < 128 THEN b ELSE b - 256
<1>1. <<b>> \in Seq(Byte) /\ <<b>> # <<>> /\ Len(<<b>>) = 1 /\ DOMAIN <<b>> = 1..1 /\ <<b>>[1] = b
  OBVIOUS
<1>2. PICK f : Sums(<<b>>, f) /\ BytesToInt(<<b>>) = f[1]
  BY <1>1, BytesToIntSums
<1>3. 1 \in DOMAIN <<b>> /\ ~(1 < Len(<<b>>))
  BY <1>1
<1>4. f[1] = IF b < 128 THEN b ELSE b - 256
  BY <1>1, <1>2, <1>3 DEF Sums
<1> QED BY <1>2, <1>4

\* The first byte is the lowest.
LEMMA FirstByte ==
  ASSUME NEW b \in Byte, NEW rest \in Seq(Byte), rest # <<>>
  PROVE  /\ <<b>> \o rest \in Seq(Byte) /\ <<b>> \o rest # <<>>
         /\ BytesToInt(<<b>> \o rest) = b + 256 * BytesToInt(rest)
<1> DEFINE data == <<b>> \o rest
           n == Len(rest)
<1>1. <<b>> \in Seq(Byte) /\ Len(<<b>>) = 1 /\ <<b>>[1] = b
  OBVIOUS
<1>2. /\ data \in Seq(Byte) /\ Len(data) = 1 + n
      /\ \A i \in 1..(1 + n) : data[i] = IF i <= 1 THEN <<b>>[i] ELSE rest[i - 1]
  BY <1>1, ConcatProperties
<1>3. n \in Nat \ {0} /\ DOMAIN rest = 1..n /\ DOMAIN data = 1..(1 + n) /\ data # <<>>
  BY <1>2
<1>4. PICK f : Sums(data, f) /\ BytesToInt(data) = f[1]
  BY <1>2, <1>3, BytesToIntSums
<1>5. PICK g : Sums(rest, g) /\ BytesToInt(rest) = g[1]
  BY BytesToIntSums
<1> HIDE DEF data, n
<1>6. \A i \in 1..(1 + n) : f[i] = IF i < 1 + n THEN data[i] + 256 * f[i + 1]
                                   ELSE IF data[i] < 128 THEN data[i] ELSE data[i] - 256
  <2>1. \A i \in 1..Len(data) : f[i] = IF i < Len(data) THEN data[i] + 256 * f[i + 1]
                                       ELSE IF data[i] < 128 THEN data[i] ELSE data[i] - 256
    BY <1>2, <1>4, SumsAt
  <2> QED BY <1>2, <2>1
<1> DEFINE h == [i \in 1..n |-> f[i + 1]]
<1>7. Sums(rest, h)
  <2>1. ASSUME NEW i \in 1..n
        PROVE  h[i] = IF i < n THEN rest[i] + 256 * h[i + 1]
                      ELSE IF rest[i] < 128 THEN rest[i] ELSE rest[i] - 256
    <3>1. i + 1 \in 1..(1 + n) /\ (i + 1 < 1 + n <=> i < n) /\ ~(i + 1 <= 1) /\ i + 1 - 1 = i
      BY <1>3
    <3>2. data[i + 1] = rest[i]
      BY <1>2, <3>1
    <3>3. i < n => h[i + 1] = f[i + 1 + 1]
      BY <1>3
    <3> QED BY <1>6, <3>1, <3>2, <3>3
  <2>2. n = Len(rest)
    BY DEF n
  <2> QED BY <1>3, <2>1, <2>2 DEF Sums
<1>8. h = g
  BY <1>5, <1>7, SameSums
<1>9. f[1 + 1] = g[1]
  BY <1>3, <1>8
<1>10. data[1] = b /\ 1 < 1 + n /\ 1 \in 1..(1 + n)
  BY <1>1, <1>2, <1>3
<1>11. f[1] = b + 256 * g[1]
  BY <1>6, <1>9, <1>10
<1> QED BY <1>2, <1>3, <1>4, <1>5, <1>11 DEF data

-----------------------------------------------------------------------------
(* From a number to bytes, and back                                        *)

\* f has the bytes of each number of a span.
Writes(k, f) ==
  f = [m \in Span(k) |->
         IF m \in -128..127 THEN <<m % 256>> ELSE <<m % 256>> \o f[m \div 256]]

LEMMA InSpan ==
  ASSUME NEW n \in Int
  PROVE  Extent(n) \in Nat /\ n \in Span(Extent(n))
BY DEF Extent, Span, Not

\* What is left of a number of several bytes is nearer to 0.
LEMMA RestInSpan ==
  ASSUME NEW k \in Nat, NEW m \in Span(k), m \notin -128..127
  PROVE  k > 0 /\ m \div 256 \in Span(k - 1)
BY DEF Span, Not

LEMMA WritesExist ==
  ASSUME NEW k \in Nat
  PROVE  \E f : Writes(k, f)
<1> DEFINE T == {j \in Nat : \E f : Writes(j, f)}
           Step(f, m) == IF m \in -128..127 THEN <<m % 256>> ELSE <<m % 256>> \o f[m \div 256]
<1>1. ASSUME NEW j \in Nat, \A i \in 0..(j - 1) : i \in T PROVE j \in T
  <2>1. CASE j = 0
    <3> DEFINE f == [m \in Span(j) |-> <<m % 256>>]
    <3>1. ASSUME NEW m \in Span(j) PROVE f[m] = Step(f, m)
      <4>1. m \in -128..127
        BY <2>1, RestInSpan
      <4> QED BY <4>1
    <3>2. Writes(j, f)
      BY <3>1 DEF Writes
    <3> QED BY <3>2
  <2>2. CASE j > 0
    <3>1. j - 1 \in 0..(j - 1)
      BY <2>2
    <3>2. PICK g : Writes(j - 1, g)
      BY <1>1, <3>1
    <3> DEFINE f == [m \in Span(j) |-> IF m \in Span(j - 1) THEN g[m] ELSE Step(g, m)]
    <3>3. ASSUME NEW m \in Span(j - 1) PROVE m \in Span(j) /\ g[m] = Step(g, m)
      <4>1. m \in Span(j)
        BY <2>2 DEF Span, Not
      <4> QED BY <3>2, <4>1 DEF Writes
    <3>4. ASSUME NEW m \in Span(j) PROVE f[m] = Step(f, m)
      <4>1. f[m] = Step(g, m)
        BY <3>3
      <4>2. CASE m \in -128..127
        BY <4>1, <4>2
      <4>3. CASE m \notin -128..127
        <5>1. m \div 256 \in Span(j - 1)
          BY <4>3, RestInSpan
        <5>2. f[m \div 256] = g[m \div 256]
          BY <3>3, <5>1
        <5> QED BY <4>1, <4>3, <5>2
      <4> QED BY <4>2, <4>3
    <3> HIDE DEF f
    <3>5. f = [m \in Span(j) |-> f[m]]
      BY DEF f
    <3>6. Writes(j, f)
      BY <3>4, <3>5 DEF Writes
    <3> QED BY <3>6
  <2> QED BY <2>1, <2>2
<1>2. T = Nat
  <2> HIDE DEF T
  <2>1. T \in SUBSET Nat
    BY DEF T
  <2> QED BY <1>1, <2>1, Everything
<1> QED BY <1>2

\* Every number is read back from what is written of it.
LEMMA WritesReadBack ==
  ASSUME NEW k \in Nat, NEW f, Writes(k, f)
  PROVE  \A m \in Span(k) : f[m] \in Seq(Byte) /\ f[m] # <<>> /\ BytesToInt(f[m]) = m
<1> DEFINE Good(m) == f[m] \in Seq(Byte) /\ f[m] # <<>> /\ BytesToInt(f[m]) = m
           T == {j \in Nat : j <= k => \A m \in Span(j) : Good(m)}
<1>1. ASSUME NEW j \in Nat, \A i \in 0..(j - 1) : i \in T PROVE j \in T
  <2> SUFFICES ASSUME j <= k, NEW m \in Span(j) PROVE Good(m)
    OBVIOUS
  <2>1. m \in Span(k) /\ m \in Int
    BY DEF Span, Not
  <2>2. m % 256 \in Byte
    BY <2>1 DEF Byte
  <2>3. f[m] = IF m \in -128..127 THEN <<m % 256>> ELSE <<m % 256>> \o f[m \div 256]
    BY <2>1 DEF Writes
  <2>4. CASE m \in -128..127
    <3>1. f[m] = <<m % 256>>
      BY <2>3, <2>4
    <3>2. BytesToInt(<<m % 256>>) = IF m % 256 < 128 THEN m % 256 ELSE (m % 256) - 256
      BY <2>2, OneByte
    <3>3. (IF m % 256 < 128 THEN m % 256 ELSE (m % 256) - 256) = m
      BY <2>1, <2>4
    <3>4. <<m % 256>> \in Seq(Byte) /\ <<m % 256>> # <<>>
      BY <2>2
    <3> QED BY <3>1, <3>2, <3>3, <3>4
  <2>5. CASE m \notin -128..127
    <3>1. j > 0 /\ m \div 256 \in Span(j - 1)
      BY <2>5, RestInSpan
    <3>2. j - 1 \in 0..(j - 1) /\ j - 1 <= k
      BY <3>1
    <3>3. Good(m \div 256)
      <4>1. j - 1 \in T
        BY <1>1, <3>2
      <4> HIDE DEF Good
      <4> QED BY <3>1, <3>2, <4>1
    <3>4. f[m] = <<m % 256>> \o f[m \div 256]
      BY <2>3, <2>5
    <3>5. /\ f[m] \in Seq(Byte) /\ f[m] # <<>>
          /\ BytesToInt(f[m]) = (m % 256) + 256 * BytesToInt(f[m \div 256])
      BY <2>2, <3>3, <3>4, FirstByte
    <3>6. (m % 256) + 256 * (m \div 256) = m
      BY <2>1
    <3> QED BY <3>3, <3>5, <3>6
  <2> QED BY <2>4, <2>5
<1>2. T = Nat
  <2> HIDE DEF T
  <2>1. T \in SUBSET Nat
    BY DEF T
  <2> QED BY <1>1, <2>1, Everything
<1>3. k \in T /\ k <= k
  BY <1>2
<1> QED BY <1>3

\* IntToBytes and BytesToInt (pkg/vm/emit/bigint.go) undo each other: whatever
\* number is made bytes of, positive or negative and of any size, one byte at
\* least is made of it, and the bytes make that number again.
THEOREM NumbersReadBack ==
  ASSUME NEW n \in Int
  PROVE  /\ IntToBytes(n) \in Seq(Byte) /\ IntToBytes(n) # <<>>
         /\ BytesToInt(IntToBytes(n)) = n
<1> DEFINE k == Extent(n)
           f == CHOOSE g : Writes(k, g)
<1>1. k \in Nat /\ n \in Span(k)
  BY InSpan
<1>2. IntToBytes(n) = f[n]
  BY DEF IntToBytes, Writes
<1> HIDE DEF k
<1>3. Writes(k, f)
  BY <1>1, WritesExist
<1> HIDE DEF f
<1> QED BY <1>1, <1>2, <1>3, WritesReadBack

-----------------------------------------------------------------------------
(* Bit by bit                                                              *)

\* f has what is made of each two numbers of a span.
Makes(op, k, f) ==
  f = [p \in Span(k) \X Span(k) |->
         IF p[1] \in -1..0 /\ p[2] \in -1..0 THEN -BitOf(op, -p[1], -p[2])
         ELSE BitOf(op, p[1] % 2, p[2] % 2) + 2 * f[<<p[1] \div 2, p[2] \div 2>>]]

LEMMA Halves ==
  ASSUME NEW k \in Nat, NEW a \in Span(k), NEW b \in Span(k), ~(a \in -1..0 /\ b \in -1..0)
  PROVE  k > 0 /\ a \div 2 \in Span(k - 1) /\ b \div 2 \in Span(k - 1)
BY DEF Span, Not

LEMMA OneBit ==
  ASSUME NEW op \in Bitwise2, NEW x \in 0..1, NEW y \in 0..1
  PROVE  BitOf(op, x, y) \in 0..1
<1>1. op \in {"AND", "OR", "XOR"} /\ (x = 0 \/ x = 1) /\ (y = 0 \/ y = 1)
  BY DEF Bitwise2
<1>2. CASE op = "AND"
  BY <1>1, <1>2 DEF BitOf
<1>3. CASE op = "OR"
  BY <1>1, <1>3 DEF BitOf
<1>4. CASE op = "XOR"
  BY <1>1, <1>4 DEF BitOf
<1> QED BY <1>1, <1>2, <1>3, <1>4

LEMMA MakesExist ==
  ASSUME NEW op, NEW k \in Nat
  PROVE  \E f : Makes(op, k, f)
<1> DEFINE T == {j \in Nat : \E f : Makes(op, j, f)}
           Step(f, p) == IF p[1] \in -1..0 /\ p[2] \in -1..0 THEN -BitOf(op, -p[1], -p[2])
                         ELSE BitOf(op, p[1] % 2, p[2] % 2) + 2 * f[<<p[1] \div 2, p[2] \div 2>>]
           D(j) == Span(j) \X Span(j)
<1>1. ASSUME NEW j \in Nat, \A i \in 0..(j - 1) : i \in T PROVE j \in T
  <2>1. CASE j = 0
    <3> DEFINE f == [p \in D(j) |-> -BitOf(op, -p[1], -p[2])]
    <3>1. ASSUME NEW p \in D(j) PROVE f[p] = Step(f, p)
      <4>1. p[1] \in -1..0 /\ p[2] \in -1..0
        BY <2>1, Halves
      <4> QED BY <4>1
    <3> HIDE DEF f
    <3>2. f = [p \in D(j) |-> f[p]]
      BY DEF f
    <3>3. Makes(op, j, f)
      BY <3>1, <3>2 DEF Makes
    <3> QED BY <3>3
  <2>2. CASE j > 0
    <3>1. j - 1 \in 0..(j - 1)
      BY <2>2
    <3>2. PICK g : Makes(op, j - 1, g)
      BY <1>1, <3>1
    <3> DEFINE f == [p \in D(j) |-> IF p \in D(j - 1) THEN g[p] ELSE Step(g, p)]
    <3>3. ASSUME NEW p \in D(j - 1) PROVE p \in D(j) /\ g[p] = Step(g, p)
      <4>1. Span(j - 1) \subseteq Span(j)
        BY <2>2 DEF Span, Not
      <4> QED BY <3>2, <4>1 DEF Makes
    <3>4. ASSUME NEW p \in D(j) PROVE f[p] = Step(f, p)
      <4>1. f[p] = Step(g, p)
        BY <3>3
      <4>2. CASE p[1] \in -1..0 /\ p[2] \in -1..0
        BY <4>1, <4>2
      <4>3. CASE ~(p[1] \in -1..0 /\ p[2] \in -1..0)
        <5>1. p[1] \in Span(j) /\ p[2] \in Span(j)
          OBVIOUS
        <5>2. p[1] \div 2 \in Span(j - 1) /\ p[2] \div 2 \in Span(j - 1)
          BY <4>3, <5>1, Halves
        <5>3. <<p[1] \div 2, p[2] \div 2>> \in D(j - 1)
          BY <5>2
        <5>4. f[<<p[1] \div 2, p[2] \div 2>>] = g[<<p[1] \div 2, p[2] \div 2>>]
          BY <3>3, <5>3
        <5> QED BY <4>1, <4>3, <5>4
      <4> QED BY <4>2, <4>3
    <3> HIDE DEF f
    <3>5. f = [p \in D(j) |-> f[p]]
      BY DEF f
    <3>6. Makes(op, j, f)
      BY <3>4, <3>5 DEF Makes
    <3> QED BY <3>6
  <2> QED BY <2>1, <2>2
<1>2. T = Nat
  <2> HIDE DEF T
  <2>1. T \in SUBSET Nat
    BY DEF T
  <2> QED BY <1>1, <2>1, Everything
<1> QED BY <1>2

Made(op, f, a, b) ==
  IF a \in -1..0 /\ b \in -1..0 THEN -BitOf(op, -a, -b)
  ELSE BitOf(op, a % 2, b % 2) + 2 * f[<<a \div 2, b \div 2>>]

LEMMA MakesAt ==
  ASSUME NEW op, NEW k \in Nat, NEW f, Makes(op, k, f), NEW a \in Span(k), NEW b \in Span(k)
  PROVE  f[<<a, b>>] = Made(op, f, a, b)
<1>1. <<a, b>> \in Span(k) \X Span(k)
  OBVIOUS
<1> QED BY <1>1 DEF Makes, Made

\* What is made of two numbers is a number, however wide the span.
LEMMA MakesNumbers ==
  ASSUME NEW op \in Bitwise2, NEW k \in Nat, NEW f, Makes(op, k, f),
         NEW l \in Nat, NEW g, Makes(op, l, g), k <= l
  PROVE  \A a, b \in Span(k) : f[<<a, b>>] \in Int /\ f[<<a, b>>] = g[<<a, b>>]
<1> DEFINE Good(a, b) == f[<<a, b>>] \in Int /\ f[<<a, b>>] = g[<<a, b>>]
           T == {j \in Nat : j <= k => \A a, b \in Span(j) : Good(a, b)}
<1>1. ASSUME NEW j \in Nat, \A i \in 0..(j - 1) : i \in T PROVE j \in T
  <2> SUFFICES ASSUME j <= k, NEW a \in Span(j), NEW b \in Span(j) PROVE Good(a, b)
    OBVIOUS
  <2>1. /\ a \in Span(k) /\ b \in Span(k) /\ a \in Span(l) /\ b \in Span(l)
        /\ a \in Int /\ b \in Int
    BY DEF Span, Not
  <2>2. f[<<a, b>>] = IF a \in -1..0 /\ b \in -1..0 THEN -BitOf(op, -a, -b)
                      ELSE BitOf(op, a % 2, b % 2) + 2 * f[<<a \div 2, b \div 2>>]
    <3>1. f[<<a, b>>] = Made(op, f, a, b)
      BY <2>1, MakesAt
    <3> QED BY <3>1 DEF Made
  <2>3. g[<<a, b>>] = IF a \in -1..0 /\ b \in -1..0 THEN -BitOf(op, -a, -b)
                      ELSE BitOf(op, a % 2, b % 2) + 2 * g[<<a \div 2, b \div 2>>]
    <3>1. g[<<a, b>>] = Made(op, g, a, b)
      BY <2>1, MakesAt
    <3> QED BY <3>1 DEF Made
  <2>4. CASE a \in -1..0 /\ b \in -1..0
    <3>1. -a \in 0..1 /\ -b \in 0..1
      BY <2>4
    <3>2. BitOf(op, -a, -b) \in 0..1
      BY <3>1, OneBit
    <3> QED BY <2>2, <2>3, <2>4, <3>2
  <2>5. CASE ~(a \in -1..0 /\ b \in -1..0)
    <3>1. j > 0 /\ a \div 2 \in Span(j - 1) /\ b \div 2 \in Span(j - 1)
      BY <2>5, Halves
    <3>2. j - 1 \in T /\ j - 1 <= k
      BY <1>1, <3>1
    <3>3. Good(a \div 2, b \div 2)
      <4> HIDE DEF Good
      <4> QED BY <3>1, <3>2
    <3>4. a % 2 \in 0..1 /\ b % 2 \in 0..1
      BY <2>1
    <3>5. BitOf(op, a % 2, b % 2) \in 0..1
      BY <3>4, OneBit
    <3> QED BY <2>2, <2>3, <2>5, <3>3, <3>5
  <2> QED BY <2>4, <2>5
<1>2. T = Nat
  <2> HIDE DEF T
  <2>1. T \in SUBSET Nat
    BY DEF T
  <2> QED BY <1>1, <2>1, Everything
<1>3. k \in T /\ k <= k
  BY <1>2
<1> QED BY <1>3

LEMMA BitByBitMakes ==
  ASSUME NEW op, NEW a \in Int, NEW b \in Int
  PROVE  \E k \in Nat : \E f : /\ a \in Span(k) /\ b \in Span(k) /\ Makes(op, k, f)
                               /\ BitByBit(op, a, b) = f[<<a, b>>]
<1> DEFINE k == IF Extent(a) < Extent(b) THEN Extent(b) ELSE Extent(a)
           f == CHOOSE g : Makes(op, k, g)
<1>1. k \in Nat /\ a \in Span(k) /\ b \in Span(k)
  BY DEF Extent, Span, Not
<1>2. BitByBit(op, a, b) = f[<<a, b>>]
  BY DEF BitByBit, Makes
<1> HIDE DEF k
<1>3. Makes(op, k, f)
  BY <1>1, MakesExist
<1> QED BY <1>1, <1>2, <1>3

\* AND, OR and XOR (vm.go) of numbers of any size and sign are what their bits
\* make: the lowest bits make the lowest, the halves make the half.
THEOREM BitsMakeBits ==
  ASSUME NEW op \in Bitwise2, NEW a \in Int, NEW b \in Int
  PROVE  /\ BitByBit(op, a, b) \in Int
         /\ BitByBit(op, a, b) % 2 = BitOf(op, a % 2, b % 2)
         /\ BitByBit(op, a, b) \div 2 = BitByBit(op, a \div 2, b \div 2)
<1> DEFINE r == BitByBit(op, a, b)
           h == BitByBit(op, a \div 2, b \div 2)
<1>1. PICK k \in Nat : \E f : a \in Span(k) /\ b \in Span(k) /\ Makes(op, k, f) /\ r = f[<<a, b>>]
  BY BitByBitMakes
<1>2. PICK f : a \in Span(k) /\ b \in Span(k) /\ Makes(op, k, f) /\ r = f[<<a, b>>]
  BY <1>1
<1>3. a \div 2 \in Int /\ b \div 2 \in Int /\ a % 2 \in 0..1 /\ b % 2 \in 0..1
  OBVIOUS
<1>4. PICK l \in Nat : \E g : /\ a \div 2 \in Span(l) /\ b \div 2 \in Span(l)
                              /\ Makes(op, l, g) /\ h = g[<<a \div 2, b \div 2>>]
  BY <1>3, BitByBitMakes
<1>5. PICK g : /\ a \div 2 \in Span(l) /\ b \div 2 \in Span(l)
               /\ Makes(op, l, g) /\ h = g[<<a \div 2, b \div 2>>]
  BY <1>4
<1>6. a \div 2 \in Span(k) /\ b \div 2 \in Span(k)
  BY <1>2 DEF Span, Not
<1>7. f[<<a \div 2, b \div 2>>] = h
  <2>1. CASE k <= l
    BY <1>2, <1>5, <1>6, <2>1, MakesNumbers
  <2>2. CASE l <= k
    BY <1>2, <1>5, <1>6, <2>2, MakesNumbers
  <2> QED BY <2>1, <2>2
<1>8. r \in Int /\ h \in Int
  BY <1>2, <1>5, MakesNumbers
<1>9. r = IF a \in -1..0 /\ b \in -1..0 THEN -BitOf(op, -a, -b) ELSE BitOf(op, a % 2, b % 2) + 2 * h
  <2>1. f[<<a, b>>] = IF a \in -1..0 /\ b \in -1..0 THEN -BitOf(op, -a, -b)
                      ELSE BitOf(op, a % 2, b % 2) + 2 * f[<<a \div 2, b \div 2>>]
    <3>1. f[<<a, b>>] = Made(op, f, a, b)
      BY <1>2, MakesAt
    <3> QED BY <3>1 DEF Made
  <2> HIDE DEF r, h
  <2> QED BY <1>2, <1>7, <2>1
<1>10. BitOf(op, a % 2, b % 2) \in 0..1
  BY <1>3, OneBit
<1>11. CASE a \in -1..0 /\ b \in -1..0
  <2>1. a \div 2 = a /\ b \div 2 = b /\ a % 2 = -a /\ b % 2 = -b
    BY <1>11
  <2>2. h = r
    BY <2>1
  <2>3. r = -BitOf(op, a % 2, b % 2)
    BY <1>9, <1>11, <2>1
  <2> HIDE DEF r, h
  <2>4. r % 2 = BitOf(op, a % 2, b % 2) /\ r \div 2 = r
    BY <1>10, <2>3
  <2> QED BY <1>8, <2>2, <2>4 DEF r, h
<1>12. CASE ~(a \in -1..0 /\ b \in -1..0)
  <2>1. r = BitOf(op, a % 2, b % 2) + 2 * h
    BY <1>9, <1>12
  <2> HIDE DEF r, h
  <2>2. r % 2 = BitOf(op, a % 2, b % 2) /\ r \div 2 = h
    BY <1>8, <1>10, <2>1
  <2> QED BY <1>8, <2>2 DEF r, h
<1> QED BY <1>11, <1>12

-----------------------------------------------------------------------------
(* Shifts and divisions                                                    *)

\* f has what each number of bits shifted makes of a.
ShiftsBy(left, a, n, f) ==
  f = [i \in 0..n |-> IF i = 0 THEN a ELSE IF left THEN 2 * f[i - 1] ELSE f[i - 1] \div 2]

LEMMA ShiftsExist ==
  ASSUME NEW left \in BOOLEAN, NEW a, NEW n \in Nat
  PROVE  \E f : ShiftsBy(left, a, n, f)
<1> DEFINE T == {j \in Nat : \E f : ShiftsBy(left, a, j, f)}
           Step(f, i) == IF i = 0 THEN a ELSE IF left THEN 2 * f[i - 1] ELSE f[i - 1] \div 2
<1>1. ASSUME NEW j \in Nat, \A i \in 0..(j - 1) : i \in T PROVE j \in T
  <2>1. CASE j = 0
    <3> DEFINE f == [i \in 0..j |-> a]
    <3>1. ASSUME NEW i \in 0..j PROVE f[i] = Step(f, i)
      BY <2>1
    <3> HIDE DEF f
    <3>2. f = [i \in 0..j |-> f[i]]
      BY DEF f
    <3>3. ShiftsBy(left, a, j, f)
      BY <3>1, <3>2 DEF ShiftsBy
    <3> QED BY <3>3
  <2>2. CASE j > 0
    <3>1. j - 1 \in 0..(j - 1)
      BY <2>2
    <3>2. PICK g : ShiftsBy(left, a, j - 1, g)
      BY <1>1, <3>1
    <3> DEFINE f == [i \in 0..j |-> IF i < j THEN g[i] ELSE Step(g, i)]
    <3>3. ASSUME NEW i \in 0..(j - 1) PROVE g[i] = Step(g, i)
      BY <3>2 DEF ShiftsBy
    <3>4. ASSUME NEW i \in 0..j PROVE f[i] = Step(f, i)
      <4>1. f[i] = Step(g, i)
        BY <3>3
      <4>2. CASE i = 0
        BY <4>1, <4>2
      <4>3. CASE i # 0
        <5>1. i - 1 \in 0..j /\ i - 1 < j
          BY <4>3
        <5>2. f[i - 1] = g[i - 1]
          BY <5>1
        <5> QED BY <4>1, <4>3, <5>2
      <4> QED BY <4>2, <4>3
    <3> HIDE DEF f
    <3>5. f = [i \in 0..j |-> f[i]]
      BY DEF f
    <3>6. ShiftsBy(left, a, j, f)
      BY <3>4, <3>5 DEF ShiftsBy
    <3> QED BY <3>6
  <2> QED BY <2>1, <2>2
<1>2. T = Nat
  <2> HIDE DEF T
  <2>1. T \in SUBSET Nat
    BY DEF T
  <2> QED BY <1>1, <2>1, Everything
<1> QED BY <1>2

LEMMA ShiftsNumbers ==
  ASSUME NEW left \in BOOLEAN, NEW a \in Int, NEW n \in Nat, NEW f, ShiftsBy(left, a, n, f)
  PROVE  \A i \in 0..n : f[i] \in Int
<1> DEFINE T == {j \in Nat : j <= n => f[j] \in Int}
<1>1. ASSUME NEW j \in Nat, \A i \in 0..(j - 1) : i \in T PROVE j \in T
  <2> SUFFICES ASSUME j <= n PROVE f[j] \in Int
    OBVIOUS
  <2>1. f[j] = IF j = 0 THEN a ELSE IF left THEN 2 * f[j - 1] ELSE f[j - 1] \div 2
    BY DEF ShiftsBy
  <2>2. j > 0 => f[j - 1] \in Int
    <3>1. j > 0 => j - 1 \in 0..(j - 1) /\ j - 1 <= n
      OBVIOUS
    <3> QED BY <1>1, <3>1
  <2> QED BY <2>1, <2>2
<1>2. T = Nat
  <2> HIDE DEF T
  <2>1. T \in SUBSET Nat
    BY DEF T
  <2> QED BY <1>1, <2>1, Everything
<1> QED BY <1>2

LEMMA ShiftedType ==
  ASSUME NEW op, NEW a \in Int, NEW b \in Int
  PROVE  Shifted(op, a, b) \in Int
<1> DEFINE left == (op = "SHL") = (b > 0)
           n == Magnitude(b)
           f == CHOOSE g : ShiftsBy(left, a, n, g)
<1>1. n \in Nat
  BY DEF Magnitude
<1>2. Shifted(op, a, b) = f[n]
  BY DEF Shifted, ShiftsBy
<1>3. left \in BOOLEAN
  OBVIOUS
<1> HIDE DEF n, left
<1>4. ShiftsBy(left, a, n, f)
  BY <1>1, <1>3, ShiftsExist
<1> HIDE DEF f
<1>5. n \in 0..n
  BY <1>1
<1> QED BY <1>1, <1>2, <1>3, <1>4, <1>5, ShiftsNumbers

\* DIV and MOD (vm.go) of numbers of any size and sign belong together: quotient
\* and remainder make the dividend again, and the remainder, which is smaller than
\* the divisor, is on the same side of 0 as the dividend.
THEOREM QuotientAndRemainder ==
  ASSUME NEW a \in Int, NEW b \in Int \ {0}
  PROVE  /\ Quo(a, b) \in Int /\ Rem(a, b) \in Int
         /\ a = b * Quo(a, b) + Rem(a, b)
         /\ Magnitude(Rem(a, b)) < Magnitude(b)
         /\ Rem(a, b) = 0 \/ (Rem(a, b) < 0 <=> a < 0)
<1> DEFINE x == Magnitude(a)
           y == Magnitude(b)
           q == x \div y
           r == x % y
<1>1. x \in Nat /\ y \in Nat \ {0} /\ x = (IF a < 0 THEN -a ELSE a) /\ y = (IF b < 0 THEN -b ELSE b)
  BY DEF Magnitude
<1> HIDE DEF x, y
<1>2. q \in Int /\ r \in 0..(y - 1) /\ x = y * q + r
  <2>1. \A m \in Nat, n \in Nat \ {0} :
          m \div n \in Int /\ m % n \in 0..(n - 1) /\ m = n * (m \div n) + (m % n)
    OBVIOUS
  <2>2. x \in Nat /\ y \in Nat \ {0}
    BY <1>1
  <2> QED BY <2>1, <2>2, Zenon
<1>3. Quo(a, b) = IF (a < 0) = (b < 0) THEN q ELSE -q
  BY DEF Quo, x, y
<1>4. Rem(a, b) = a - b * Quo(a, b)
  BY DEF Rem
<1> HIDE DEF q, r
<1>5. b * Quo(a, b) = IF a < 0 THEN -(y * q) ELSE y * q
  BY <1>1, <1>2, <1>3
<1>6. Rem(a, b) = IF a < 0 THEN -r ELSE r
  <2> DEFINE p == y * q
             t == b * Quo(a, b)
  <2>1. p \in Int /\ t = (IF a < 0 THEN -p ELSE p) /\ x = p + r /\ Rem(a, b) = a - t
    BY <1>1, <1>2, <1>4, <1>5
  <2> HIDE DEF p, t
  <2> QED BY <1>1, <1>2, <2>1
<1>7. Quo(a, b) \in Int /\ Rem(a, b) \in Int
  BY <1>1, <1>2, <1>3, <1>6
<1>8. a = b * Quo(a, b) + Rem(a, b)
  <2> DEFINE t == b * Quo(a, b)
  <2>1. t \in Int /\ Rem(a, b) = a - t
    BY <1>4, <1>7
  <2> HIDE DEF t
  <2>2. a = t + Rem(a, b)
    BY <1>7, <2>1
  <2> QED BY <2>2 DEF t
<1>9. Magnitude(Rem(a, b)) = r /\ Magnitude(b) = y
  BY <1>1, <1>2, <1>6 DEF Magnitude
<1> QED BY <1>1, <1>2, <1>6, <1>7, <1>8, <1>9

\* What an instruction computes of numbers, if it computes, is a number.
LEMMA ComputedType ==
  ASSUME NEW op \in Bitwise2 \union Arithmetic2 \union Shifts, NEW a \in Int, NEW b \in Int,
         Computes(op, a, b)
  PROVE  Computed(op, a, b) \in Int
<1>1. CASE op \in {"AND", "OR", "XOR"}
  <2>1. BitByBit(op, a, b) \in Int
    BY <1>1, BitsMakeBits DEF Bitwise2
  <2> QED BY <1>1, <2>1 DEF Computed, Bitwise2, Shifts
<1>2. CASE op = "ADD"
  BY <1>2 DEF Computed, Bitwise2, Shifts
<1>3. CASE op = "SUB"
  BY <1>3 DEF Computed, Bitwise2, Shifts
<1>4. CASE op = "MUL"
  BY <1>4 DEF Computed, Bitwise2, Shifts
<1>5. CASE op \in {"DIV", "MOD"}
  <2>1. b # 0
    BY <1>5 DEF Computes, Bitwise2, Shifts
  <2>2. Quo(a, b) \in Int /\ Rem(a, b) \in Int
    BY <2>1, QuotientAndRemainder
  <2> QED BY <1>5, <2>2 DEF Computed, Bitwise2, Shifts
<1>6. CASE op \in {"SHL", "SHR"}
  <2>1. Shifted(op, a, b) \in Int
    BY ShiftedType
  <2> QED BY <1>6, <2>1 DEF Computed, Bitwise2, Shifts
<1> QED BY <1>1, <1>2, <1>3, <1>4, <1>5, <1>6 DEF Bitwise2, Arithmetic2, Shifts
=============================================================================
