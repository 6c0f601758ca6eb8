---------------------------- MODULE BinaryIOProofs ----------------------------
(***************************************************************************)
(* What is written by package io is read back, for every length and value, *)
(* and what follows it on the wire is left alone.                          *)
(***************************************************************************)
EXTENDS BinaryIO, SequenceTheorems, TLAPS

\* A reader that has had the error e (none in what follows: e is FALSE, and a
\* variable only because the provers do not mix truth values with fields).
At(units, e, v) == [in |-> units, err |-> e, v |-> v]

LEMMA AtFields ==
  ASSUME NEW units, NEW e, NEW v
  PROVE  At(units, e, v).in = units /\ At(units, e, v).err = e /\ At(units, e, v).v = v
BY DEF At

LEMMA AtNewValue ==
  ASSUME NEW units, NEW e, NEW v, NEW v2
  PROVE  [At(units, e, v) EXCEPT !.v = v2] = At(units, e, v2)
BY DEF At

-----------------------------------------------------------------------------
(* One unit                                                                *)

LEMMA FirstOf ==
  ASSUME NEW S, NEW u \in S, NEW rest \in Seq(S)
  PROVE  /\ <<u>> \o rest \in Seq(S)
         /\ <<u>> \o rest # <<>>
         /\ Head(<<u>> \o rest) = u
         /\ Tail(<<u>> \o rest) = rest
<1> DEFINE s == <<u>> \o rest
<1>1. <<u>> \in Seq(S) /\ Len(<<u>>) = 1 /\ <<u>>[1] = u
  OBVIOUS
<1>2. /\ s \in Seq(S) /\ Len(s) = 1 + Len(rest)
      /\ \A i \in 1..(1 + Len(rest)) : s[i] = IF i <= 1 THEN <<u>>[i] ELSE rest[i - 1]
  BY <1>1, ConcatProperties
<1>3. Len(rest) \in Nat
  BY LenProperties
<1>4. s # <<>> /\ s[1] = u
  BY <1>1, <1>2, <1>3
<1>5. Head(s) = u
  BY <1>2, <1>4
<1>6. /\ Tail(s) \in Seq(S) /\ Len(Tail(s)) = Len(s) - 1
      /\ \A i \in 1..Len(Tail(s)) : Tail(s)[i] = s[i + 1]
  BY <1>2, <1>4, HeadTailProperties
<1>7. Len(Tail(s)) = Len(rest)
  BY <1>2, <1>3, <1>6
<1>8. ASSUME NEW i \in 1..Len(rest) PROVE Tail(s)[i] = rest[i]
  <2>1. Tail(s)[i] = s[i + 1]
    BY <1>6, <1>7
  <2>2. i + 1 \in 1..(1 + Len(rest)) /\ ~(i + 1 <= 1) /\ i + 1 - 1 = i
    BY <1>3
  <2> QED BY <1>2, <2>1, <2>2
<1>9. Tail(s) = rest
  BY <1>6, <1>7, <1>8, SeqEqual
<1> QED BY <1>2, <1>4, <1>5, <1>9

LEMMA TwoThenRest ==
  ASSUME NEW S, NEW a \in S, NEW b \in S, NEW rest \in Seq(S)
  PROVE  <<a, b>> \o rest = <<a>> \o (<<b>> \o rest)
<1>1. <<a>> \in Seq(S) /\ <<b>> \in Seq(S)
  OBVIOUS
<1>2. <<a, b>> = <<a>> \o <<b>>
  <2>1. /\ <<a>> \o <<b>> \in Seq(S) /\ Len(<<a>> \o <<b>>) = 2
        /\ \A i \in 1..2 : (<<a>> \o <<b>>)[i] = IF i <= 1 THEN <<a>>[i] ELSE <<b>>[i - 1]
    BY <1>1, ConcatProperties
  <2>2. <<a, b>> \in Seq(S) /\ Len(<<a, b>>) = 2
    OBVIOUS
  <2>3. (<<a>> \o <<b>>)[1] = <<a, b>>[1] /\ (<<a>> \o <<b>>)[2] = <<a, b>>[2]
    BY <2>1
  <2>4. \A i \in 1..Len(<<a, b>>) : <<a, b>>[i] = (<<a>> \o <<b>>)[i]
    BY <2>2, <2>3
  <2> QED BY <2>1, <2>2, <2>4, SeqEqual
<1> QED BY <1>1, <1>2, ConcatAssociative

\* A unit is taken by a read of as many bytes as it has.
LEMMA ReadsUnit ==
  ASSUME NEW S, NEW n \in Nat \ {0}, NEW x, Unit(n, x) \in S, NEW rest \in Seq(S),
         NEW e \in BOOLEAN, ~e, NEW y
  PROVE  /\ ReadBytes(At(<<Unit(n, x)>> \o rest, e, y), n) = At(rest, e, Unit(n, x))
         /\ ReadUint(At(<<Unit(n, x)>> \o rest, e, y), n) = At(rest, e, x)
<1> DEFINE wire == <<Unit(n, x)>> \o rest
           r == At(wire, e, y)
           b == ReadBytes(r, n)
<1>1. wire # <<>> /\ Head(wire) = Unit(n, x) /\ Tail(wire) = rest
  BY FirstOf
<1>2. Unit(n, x).n = n /\ Unit(n, x).v = x
  BY DEF Unit
<1> HIDE DEF wire
<1>3. b = At(rest, e, Unit(n, x))
  <2>1. ~r.err /\ n > 0 /\ r.in # <<>> /\ Head(r.in).n = n
    BY <1>1, <1>2, AtFields
  <2>2. b = [in |-> Tail(r.in), err |-> r.err, v |-> Head(r.in)]
    BY <2>1 DEF ReadBytes
  <2>3. b = [in |-> rest, err |-> e, v |-> Unit(n, x)]
    <3>1. Tail(r.in) = rest /\ r.err = e /\ Head(r.in) = Unit(n, x)
      BY <1>1, AtFields
    <3> HIDE DEF b
    <3> QED BY <2>2, <3>1
  <2> QED BY <2>3 DEF At
<1>4. ReadUint(r, n) = At(rest, e, x)
  <2>1. ReadUint(r, n) = [b EXCEPT !.v = IF b.err THEN 0 ELSE b.v.v]
    BY DEF ReadUint
  <2>2. ~b.err /\ b.v.v = x
    BY <1>2, <1>3, AtFields
  <2>3. ReadUint(r, n) = [b EXCEPT !.v = x]
    BY <2>1, <2>2
  <2> QED BY <1>3, <2>3, AtNewValue
<1> QED BY <1>3, <1>4 DEF wire

-----------------------------------------------------------------------------
(* Variable-length integers                                                *)

\* The units VarUint is made of: a first one that tells how many bytes follow.
LEMMA VarUintForms ==
  ASSUME NEW v \in 0..MaxU64
  PROVE  \/ v < Escape /\ VarUint(v) = <<Unit(1, v)>>
         \/ VarUint(v) = <<Unit(1, Escape + 0), Unit(2, v)>>
         \/ VarUint(v) = <<Unit(1, Escape + 1), Unit(4, v)>>
         \/ VarUint(v) = <<Unit(1, Escape + 2), Unit(8, v)>>
<1>1. v \in Nat /\ Escape \in Nat /\ Escape + 0 = Escape
  BY WidthsAssumption DEF Escape
<1>2. CASE v < Escape
  BY <1>1, <1>2, WidthsAssumption DEF VarUint, Escape
<1>3. CASE ~(v < Escape) /\ v < Max16
  BY <1>1, <1>3, WidthsAssumption DEF VarUint
<1>4. CASE ~(v < Max16) /\ v < Max32
  BY <1>1, <1>4, WidthsAssumption DEF VarUint, Escape
<1>5. CASE ~(v < Max32)
  BY <1>1, <1>5, WidthsAssumption DEF VarUint, Escape
<1>6. v < Escape \/ (~(v < Escape) /\ v < Max16) \/ (~(v < Max16) /\ v < Max32) \/ ~(v < Max32)
  BY <1>1, WidthsAssumption
<1> QED BY <1>2, <1>3, <1>4, <1>5, <1>6

\* A first unit that is an escape is followed by the value.
LEMMA ReadsLong ==
  ASSUME NEW S, NEW rest \in Seq(S), NEW v, NEW e \in BOOLEAN, ~e, NEW y,
         NEW k \in 0..2, NEW n \in Nat \ {0}, n = IF k = 0 THEN 2 ELSE IF k = 1 THEN 4 ELSE 8
  PROVE  ReadVarUint(At(<<Unit(1, Escape + k), Unit(n, v)>> \o rest, e, y)) = At(rest, e, v)
<1> DEFINE T == S \union {Unit(1, Escape + k), Unit(n, v)}
           after == <<Unit(n, v)>> \o rest
           r == At(<<Unit(1, Escape + k), Unit(n, v)>> \o rest, e, y)
           b == ReadUint(r, 1)
<1>1. rest \in Seq(T) /\ Unit(1, Escape + k) \in T /\ Unit(n, v) \in T
  BY SeqMonotonic
<1>2. after \in Seq(T)
  BY <1>1, FirstOf
<1>3. b = At(after, e, Escape + k)
  <2>1. <<Unit(1, Escape + k), Unit(n, v)>> \o rest = <<Unit(1, Escape + k)>> \o after
    BY <1>1, TwoThenRest
  <2> HIDE DEF after, T
  <2>2. ReadUint(At(<<Unit(1, Escape + k)>> \o after, e, y), 1) = At(after, e, Escape + k)
    <3>1. 1 \in Nat \ {0}
      OBVIOUS
    <3> QED BY <1>1, <1>2, <3>1, ReadsUnit
  <2> QED BY <2>1, <2>2
<1>4. ReadUint(b, n) = At(rest, e, v)
  <2>1. ReadUint(At(after, e, Escape + k), n) = At(rest, e, v)
    BY <1>1, ReadsUnit
  <2> QED BY <1>3, <2>1
<1>5. b.v = Escape + k
  BY <1>3, AtFields
<1> HIDE DEF b
<1>6. ReadVarUint(r) = ReadUint(b, n)
  <2>1. CASE k = 0
    BY <1>5, <2>1 DEF ReadVarUint, Escape, b
  <2>2. CASE k = 1
    BY <1>5, <2>2 DEF ReadVarUint, Escape, b
  <2>3. CASE k = 2
    BY <1>5, <2>3 DEF ReadVarUint, Escape, b
  <2> QED BY <2>1, <2>2, <2>3
<1> QED BY <1>4, <1>6

\* An integer that was written as one of variable length is read back, and the
\* reader is left at what follows it (binaryReader.go:149 against
\* binaryWriter.go:104).
THEOREM VarUintRoundTrip ==
  ASSUME NEW S, NEW rest \in Seq(S), NEW v \in 0..MaxU64, NEW e \in BOOLEAN, ~e, NEW y
  PROVE  ReadVarUint(At(VarUint(v) \o rest, e, y)) = At(rest, e, v)
<1>1. CASE v < Escape /\ VarUint(v) = <<Unit(1, v)>>
  <2> DEFINE r == At(<<Unit(1, v)>> \o rest, e, y)
             b == ReadUint(r, 1)
  <2>1. b = At(rest, e, v)
    <3> DEFINE T == S \union {Unit(1, v)}
    <3>1. rest \in Seq(T) /\ Unit(1, v) \in T /\ 1 \in Nat \ {0}
      BY SeqMonotonic
    <3> HIDE DEF T
    <3> QED BY <3>1, ReadsUnit
  <2>2. b.v = v
    BY <2>1, AtFields
  <2> HIDE DEF b
  <2>3. b.v # Escape /\ b.v # Escape + 1 /\ b.v # Escape + 2
    BY <1>1, <2>2 DEF Escape
  <2>4. ReadVarUint(r) = b
    BY <2>3 DEF ReadVarUint, b
  <2> QED BY <1>1, <2>1, <2>4
<1>2. CASE VarUint(v) = <<Unit(1, Escape + 0), Unit(2, v)>>
  BY <1>2, ReadsLong
<1>3. CASE VarUint(v) = <<Unit(1, Escape + 1), Unit(4, v)>>
  BY <1>3, ReadsLong
<1>4. CASE VarUint(v) = <<Unit(1, Escape + 2), Unit(8, v)>>
  BY <1>4, ReadsLong
<1> QED BY <1>1, <1>2, <1>3, <1>4, VarUintForms

-----------------------------------------------------------------------------
(* Runs of bytes                                                           *)

\* Bytes that were written after their length are read back, if they are not
\* more than a reader accepts (binaryReader.go:171 against
\* binaryWriter.go:138).
THEOREM VarBytesRoundTrip ==
  ASSUME NEW S, NEW rest \in Seq(S), NEW n \in 1..MaxU64, n <= MaxArraySize, NEW x,
         NEW e \in BOOLEAN, ~e, NEW y
  PROVE  ReadVarBytes(At(VarUint(n) \o (<<Unit(n, x)>> \o rest), e, y)) = At(rest, e, Unit(n, x))
<1> DEFINE T == S \union {Unit(n, x)}
           data == <<Unit(n, x)>> \o rest
           r == At(VarUint(n) \o data, e, y)
           l == ReadVarUint(r)
<1>1. rest \in Seq(T) /\ Unit(n, x) \in T
  BY SeqMonotonic
<1>2. data \in Seq(T)
  BY <1>1, FirstOf
<1>3. n \in 0..MaxU64 /\ n \in Nat \ {0} /\ ~(n > MaxArraySize)
  BY WidthsAssumption, MaxArraySizeAssumption
<1>4. l = At(data, e, n)
  <2> HIDE DEF data, T
  <2> QED BY <1>2, <1>3, VarUintRoundTrip
<1>5. l.v = n
  BY <1>4, AtFields
<1>6. ReadBytes(l, n) = At(rest, e, Unit(n, x))
  <2>1. ReadBytes(At(data, e, n), n) = At(rest, e, Unit(n, x))
    BY <1>1, <1>3, ReadsUnit
  <2> QED BY <1>4, <2>1
<1> HIDE DEF l
<1>7. ReadVarBytes(r) = ReadBytes(l, n)
  BY <1>3, <1>5 DEF ReadVarBytes, l
<1> QED BY <1>6, <1>7

-----------------------------------------------------------------------------
(* Errors                                                                  *)

LEMMA ReadBytesFails ==
  ASSUME NEW r, NEW n \in Nat \ {0}, \/ r.err
                                     \/ r.in = <<>>
  PROVE  ReadBytes(r, n).err /\ ReadBytes(r, n).in = r.in
<1>1. ~(~r.err /\ n > 0 /\ r.in # <<>> /\ Head(r.in).n = n) /\ n > 0
  OBVIOUS
<1>2. ReadBytes(r, n) = [in |-> r.in, err |-> r.err \/ n > 0, v |-> Unit(n, <<>>)]
  BY <1>1 DEF ReadBytes
<1>3. [in |-> r.in, err |-> r.err \/ n > 0, v |-> Unit(n, <<>>)].err
  BY <1>1
<1>4. [in |-> r.in, err |-> r.err \/ n > 0, v |-> Unit(n, <<>>)].in = r.in
  OBVIOUS
<1> QED BY <1>2, <1>3, <1>4

LEMMA ReadUintFails ==
  ASSUME NEW r, NEW n \in Nat \ {0}, \/ r.err
                                     \/ r.in = <<>>
  PROVE  ReadUint(r, n).err /\ ReadUint(r, n).in = r.in /\ ReadUint(r, n).v = 0
<1> DEFINE b == ReadBytes(r, n)
<1>1. b.err /\ b.in = r.in
  BY ReadBytesFails
<1>2. \E i, d, w : b = [in |-> i, err |-> d, v |-> w]
  BY DEF ReadBytes
<1> HIDE DEF b
<1>3. ReadUint(r, n) = [b EXCEPT !.v = 0]
  BY <1>1 DEF ReadUint, b
<1>4. ReadUint(r, n) = [in |-> b.in, err |-> b.err, v |-> 0]
  BY <1>2, <1>3
<1> QED BY <1>1, <1>4

\* The error of a reader sticks: nothing is read after it, and nothing is
\* mistaken for a value (binaryReader.go:83, binaryReader.go:187).
THEOREM ReadErrorSticks ==
  ASSUME NEW r, r.err
  PROVE  ReadVarUint(r).err /\ ReadVarUint(r).in = r.in /\ ReadVarUint(r).v = 0
<1> DEFINE b == ReadUint(r, 1)
<1>1. 1 \in Nat \ {0}
  OBVIOUS
<1>2. b.err /\ b.in = r.in /\ b.v = 0
  BY <1>1, ReadUintFails
<1> HIDE DEF b
<1>3. ReadVarUint(r) = b
  BY <1>2 DEF ReadVarUint, Escape, b
<1> QED BY <1>2, <1>3

LEMMA FirstOfTwo ==
  ASSUME NEW a, NEW b
  PROVE  SubSeq(<<a, b>>, 1, 1) = <<a>>
<1>1. <<a, b>> \in Seq({a, b}) /\ Len(<<a, b>>) = 2 /\ <<a, b>>[1] = a
  OBVIOUS
<1>2. /\ SubSeq(<<a, b>>, 1, 1) \in Seq({a, b})
      /\ Len(SubSeq(<<a, b>>, 1, 1)) = 1
      /\ SubSeq(<<a, b>>, 1, 1)[1] = a
  BY <1>1, SubSeqProperties
<1>3. <<a>> \in Seq({a, b}) /\ Len(<<a>>) = 1 /\ <<a>>[1] = a
  OBVIOUS
<1>4. \A i \in 1..Len(<<a>>) : <<a>>[i] = SubSeq(<<a, b>>, 1, 1)[i]
  BY <1>2, <1>3
<1> QED BY <1>2, <1>3, <1>4, SeqEqual

\* An escape at the end of the data.
LEMMA LoneEscape ==
  ASSUME NEW j \in 0..2, NEW e \in BOOLEAN, ~e, NEW y
  PROVE  ReadVarUint(At(<<Unit(1, Escape + j)>>, e, y)).err
<1> DEFINE u == Unit(1, Escape + j)
           r == At(<<u>>, e, y)
           b == ReadUint(r, 1)
<1>1. b = At(<<>>, e, Escape + j)
  <2> DEFINE T == {u}
  <2>1. <<>> \in Seq(T) /\ u \in T /\ 1 \in Nat \ {0}
    OBVIOUS
  <2> HIDE DEF T
  <2>2. ReadUint(At(<<u>> \o <<>>, e, y), 1) = At(<<>>, e, Escape + j)
    <3> DEFINE none == <<>>
    <3>1. none \in Seq(T)
      BY <2>1
    <3> HIDE DEF none
    <3>2. ReadUint(At(<<u>> \o none, e, y), 1) = At(none, e, Escape + j)
      BY <2>1, <3>1, ReadsUnit
    <3> QED BY <3>2 DEF none
  <2>3. <<u>> \o <<>> = <<u>>
    <3> HIDE DEF u
    <3>1. <<u>> \in Seq({u})
      OBVIOUS
    <3> QED BY <3>1, ConcatEmptySeq
  <2> QED BY <2>2, <2>3
<1>2. b.in = <<>> /\ b.v = Escape + j
  BY <1>1, AtFields
<1>3. ASSUME NEW n \in Nat \ {0} PROVE ReadUint(b, n).err
  BY <1>2, ReadUintFails
<1> HIDE DEF b
<1>4. CASE j = 0
  <2>1. ReadVarUint(r) = ReadUint(b, 2)
    BY <1>2, <1>4 DEF ReadVarUint, Escape, b
  <2> QED BY <1>3, <2>1
<1>5. CASE j = 1
  <2>1. ReadVarUint(r) = ReadUint(b, 4)
    BY <1>2, <1>5 DEF ReadVarUint, Escape, b
  <2> QED BY <1>3, <2>1
<1>6. CASE j = 2
  <2>1. ReadVarUint(r) = ReadUint(b, 8)
    BY <1>2, <1>6 DEF ReadVarUint, Escape, b
  <2> QED BY <1>3, <2>1
<1> QED BY <1>4, <1>5, <1>6

\* An integer of variable length that lost its end is an error, never another
\* integer: there is no prefix of one that is one (binaryReader.go:149).
THEOREM CutVarUintIsNoticed ==
  ASSUME NEW v \in 0..MaxU64, NEW k \in 0..(Len(VarUint(v)) - 1),
         NEW e \in BOOLEAN, ~e, NEW y
  PROVE  ReadVarUint(At(SubSeq(VarUint(v), 1, k), e, y)).err
<1>1. CASE k = 0
  <2> DEFINE r == At(<<>>, e, y)
             b == ReadUint(r, 1)
  <2>1. b.err /\ b.v = 0
    <3>1. r.in = <<>> /\ 1 \in Nat \ {0}
      BY AtFields
    <3> QED BY <3>1, ReadUintFails
  <2> HIDE DEF b
  <2>2. ReadVarUint(r) = b
    BY <2>1 DEF ReadVarUint, Escape, b
  <2>3. SubSeq(VarUint(v), 1, 0) = <<>>
    BY VarUintForms
  <2> QED BY <1>1, <2>1, <2>2, <2>3
<1>2. ASSUME NEW j \in 0..2, NEW u, VarUint(v) = <<Unit(1, Escape + j), u>>, k # 0
      PROVE  ReadVarUint(At(SubSeq(VarUint(v), 1, k), e, y)).err
  <2>1. k = 1
    <3>1. Len(VarUint(v)) = 2
      BY <1>2
    <3> QED BY <1>2, <3>1
  <2>2. SubSeq(VarUint(v), 1, k) = <<Unit(1, Escape + j)>>
    BY <1>2, <2>1, FirstOfTwo
  <2> QED BY <2>2, LoneEscape
<1>3. CASE k # 0
  <2>2. ASSUME VarUint(v) = <<Unit(1, v)>> PROVE FALSE
    <3>1. Len(VarUint(v)) = 1
      BY <2>2
    <3>2. k \in 0..0
      BY <3>1
    <3> QED BY <1>3, <3>2
  <2>3. CASE VarUint(v) = <<Unit(1, Escape + 0), Unit(2, v)>>
    BY <1>2, <1>3, <2>3
  <2>4. CASE VarUint(v) = <<Unit(1, Escape + 1), Unit(4, v)>>
    BY <1>2, <1>3, <2>4
  <2>5. CASE VarUint(v) = <<Unit(1, Escape + 2), Unit(8, v)>>
    BY <1>2, <1>3, <2>5
  <2> QED BY <2>2, <2>3, <2>4, <2>5, VarUintForms
<1> QED BY <1>1, <1>3
=============================================================================
