----------------------------- MODULE ItemHeapProofs -----------------------------
(***************************************************************************)
(* Whatever instructions a script is made of: the traversals of stack.go   *)
(* keep exact count of what hangs together with the stacks, and end, and   *)
(* no struct contains itself, for any number of containers of any size.    *)
(***************************************************************************)
EXTENDS ItemHeap, FiniteSetTheorems, SequenceTheorems, WellFoundedInduction, TLAPS

\* A machine with one field changed.
WithHeap(m, a) == [m EXCEPT !.heap = a]
WithStack(m, a) == [m EXCEPT !.estack = a]
WithCount(m, a) == [m EXCEPT !.count = a]
WithSize(m, a) == [m EXCEPT !.size = a]
WithTodo(m, a) == [m EXCEPT !.todo = a]
WithEndless(m, a) == [m EXCEPT !.endless = a]

-----------------------------------------------------------------------------
(* Traversals, visit by visit                                              *)

LEMMA VisitsNat == MaxVisits \in Nat
BY BoundsAssumption

\* Induction over the visits, for a set and not for a predicate.
LEMMA EveryVisit ==
  ASSUME NEW T, 0 \in T, \A n \in 1..MaxVisits : n - 1 \in T => n \in T
  PROVE  \A n \in 0..MaxVisits : n \in T
<1> DEFINE R == OpToRel(<, Nat)
           bad == {n \in 0..MaxVisits : n \notin T}
<1> SUFFICES ASSUME bad # {} PROVE FALSE
  OBVIOUS
<1>1. IsWellFoundedOn(R, Nat)
  BY NatLessThanWellFounded
<1>2. \A x, y \in Nat : <<y, x>> \in R <=> y < x
  BY DEF OpToRel
<1>3. bad \in SUBSET Nat
  OBVIOUS
<1> HIDE DEF R
<1>4. PICK x \in bad : \A y \in bad : ~(<<y, x>> \in R)
  <2> HIDE DEF bad
  <2> QED BY <1>1, <1>3, WFMin
<1>5. x \in 0..MaxVisits /\ x \notin T
  BY <1>4
<1>6. x \in 1..MaxVisits /\ x - 1 \in 0..MaxVisits /\ x - 1 < x /\ x - 1 \in Nat /\ x \in Nat
  BY <1>5, VisitsNat
<1>7. <<x - 1, x>> \in R
  BY <1>2, <1>6
<1>8. x - 1 \in T
  BY <1>4, <1>6, <1>7
<1> QED BY <1>5, <1>6, <1>8

\* f is what the machine is after each visit.
Walk(how, x, f) ==
  f = [n \in 0..MaxVisits |-> IF n = 0 THEN x ELSE Visiting(how, f[n - 1])]

LEMMA WalkExists ==
  ASSUME NEW how, NEW x
  PROVE  \E f : Walk(how, x, f)
<1> DEFINE Step(f, n) == IF n = 0 THEN x ELSE Visiting(how, f[n - 1])
           Has(k) == \E f : f = [n \in 0..k |-> Step(f, n)]
           T == {k \in 0..MaxVisits : Has(k)}
<1> USE VisitsNat
<1>1. 0 \in T
  <2> DEFINE f == [n \in 0..0 |-> x]
  <2>1. \A n \in 0..0 : f[n] = Step(f, n)
    OBVIOUS
  <2>2. f = [n \in 0..0 |-> Step(f, n)]
    <3> DEFINE h == [n \in 0..0 |-> Step(f, n)]
    <3>1. \A n \in 0..0 : f[n] = h[n]
      BY <2>1
    <3> QED BY <3>1
  <2>3. Has(0)
    BY <2>2
  <2> QED BY <2>3
<1>2. ASSUME NEW k \in 1..MaxVisits, k - 1 \in T PROVE k \in T
  <2>1. Has(k - 1)
    BY <1>2
  <2>2. PICK g : g = [n \in 0..(k - 1) |-> Step(g, n)]
    BY <2>1
  <2> DEFINE f == [n \in 0..k |-> IF n = k THEN Step(g, n) ELSE g[n]]
  <2>3. ASSUME NEW n \in 0..k PROVE f[n] = Step(f, n)
    <3>1. n > 0 => n - 1 \in 0..(k - 1) /\ n - 1 # k /\ n - 1 \in 0..k
      BY <1>2
    <3>2. n > 0 => f[n - 1] = g[n - 1]
      BY <3>1
    <3>3. CASE n = k
      BY <3>2, <3>3
    <3>4. CASE n # k
      <4>1. n \in 0..(k - 1)
        BY <1>2, <3>4
      <4>2. g[n] = Step(g, n)
        BY <2>2, <4>1
      <4> QED BY <3>2, <3>4, <4>2
    <3> QED BY <3>3, <3>4
  <2>4. f = [n \in 0..k |-> Step(f, n)]
    <3> DEFINE h == [n \in 0..k |-> Step(f, n)]
    <3>1. \A n \in 0..k : f[n] = h[n]
      BY <2>3
    <3> QED BY <3>1
  <2>5. Has(k)
    BY <2>4
  <2> QED BY <2>5
<1> HIDE DEF T
<1>3. \A n \in 0..MaxVisits : n \in T
  BY <1>1, <1>2, EveryVisit
<1>4. Has(MaxVisits)
  BY <1>3 DEF T
<1> QED BY <1>4 DEF Walk

\* f is what the machine is after each visit of a traversal from m.
Traversal(f, how, m, todo) ==
  /\ f[0] = WithTodo(m, todo)
  /\ \A n \in 1..MaxVisits : f[n] = Visiting(how, f[n - 1])
  /\ Visited(how, m, todo) = f[MaxVisits]

LEMMA VisitedIs ==
  ASSUME NEW how, NEW m, NEW todo
  PROVE  \E f : Traversal(f, how, m, todo)
<1> DEFINE x == WithTodo(m, todo)
           f == CHOOSE f : Walk(how, x, f)
<1>1. Walk(how, x, f)
  BY WalkExists
<1>2. Visited(how, m, todo) = f[MaxVisits]
  BY DEF Visited, Walk, WithTodo
<1> HIDE DEF f
<1>3. f[0] = x /\ \A n \in 1..MaxVisits : f[n] = Visiting(how, f[n - 1])
  BY <1>1, VisitsNat DEF Walk
<1> QED BY <1>2, <1>3 DEF Traversal

-----------------------------------------------------------------------------
(* How often an item is in a sequence                                      *)

Undoes(g, f, S) == \A x \in S : g[f[x]] = x

LEMMA SameCount ==
  ASSUME NEW S, NEW T, IsFiniteSet(S), NEW f, NEW g, f \in [S -> T], g \in [T -> S],
         Undoes(g, f, S), Undoes(f, g, T)
  PROVE  IsFiniteSet(T) /\ Cardinality(T) = Cardinality(S)
<1>1. f \in Bijection(S, T)
  BY DEF Bijection, Injection, Surjection, IsInjective, Undoes
<1>2. ExistsBijection(S, T)
  BY <1>1 DEF ExistsBijection
<1> QED BY <1>2, FS_Bijection

LEMMA CountOfParts ==
  ASSUME NEW S, NEW T, IsFiniteSet(S), IsFiniteSet(T), S \intersect T = {}
  PROVE  /\ IsFiniteSet(S \union T) /\ Cardinality(S) \in Nat /\ Cardinality(T) \in Nat
         /\ Cardinality(S \union T) = Cardinality(S) + Cardinality(T)
<1>1. Cardinality(S \intersect T) = 0
  BY FS_EmptySet
<1>2. Cardinality(S) \in Nat /\ Cardinality(T) \in Nat
  BY FS_CardinalityType
<1>3. /\ IsFiniteSet(S \union T)
      /\ Cardinality(S \union T) = Cardinality(S) + (Cardinality(T) - Cardinality(S \intersect T))
  BY FS_Union
<1> QED BY <1>1, <1>2, <1>3

Places(item, s) == {i \in 1..Len(s) : s[i] = item}

LEMMA OccurrencesType ==
  ASSUME NEW X, NEW s \in Seq(X), NEW a
  PROVE  /\ Occurrences(a, s) = Cardinality(Places(a, s)) /\ IsFiniteSet(Places(a, s))
         /\ Occurrences(a, s) \in Nat /\ Occurrences(a, s) <= Len(s) /\ Len(s) \in Nat
<1>1. Len(s) \in Nat /\ DOMAIN s = 1..Len(s)
  BY LenProperties
<1>2. IsFiniteSet(1..Len(s)) /\ Cardinality(1..Len(s)) = Len(s)
  BY <1>1, FS_Interval
<1>3. Places(a, s) \in SUBSET (1..Len(s))
  BY DEF Places
<1>4. IsFiniteSet(Places(a, s)) /\ Cardinality(Places(a, s)) <= Len(s)
  BY <1>2, <1>3, FS_Subset
<1>5. Occurrences(a, s) = Cardinality(Places(a, s))
  BY <1>1 DEF Occurrences, Places
<1> QED BY <1>1, <1>4, <1>5, FS_CardinalityType

LEMMA OccurrencesMany ==
  ASSUME NEW X, NEW s \in Seq(X), NEW a
  PROVE  Occurrences(a, s) > 0 <=> a \in ToSet(s)
<1>1. DOMAIN s = 1..Len(s)
  BY LenProperties
<1>2. Occurrences(a, s) = Cardinality(Places(a, s)) /\ IsFiniteSet(Places(a, s))
  BY OccurrencesType
<1>3. Occurrences(a, s) = 0 <=> Places(a, s) = {}
  BY <1>2, FS_EmptySet
<1>4. a \in ToSet(s) <=> Places(a, s) # {}
  BY <1>1 DEF ToSet, Places
<1> QED BY <1>3, <1>4, OccurrencesType

LEMMA OccurrencesOne ==
  ASSUME NEW a, NEW b
  PROVE  Occurrences(a, <<b>>) = (IF a = b THEN 1 ELSE 0) /\ Occurrences(a, <<>>) = 0
<1>1. CASE a = b
  <2>1. {i \in DOMAIN <<b>> : <<b>>[i] = a} = {1}
    BY <1>1
  <2> QED BY <1>1, <2>1, FS_Singleton, FS_EmptySet DEF Occurrences
<1>2. CASE a # b
  <2>1. {i \in DOMAIN <<b>> : <<b>>[i] = a} = {}
    BY <1>2
  <2> QED BY <1>2, <2>1, FS_EmptySet DEF Occurrences
<1>3. {i \in DOMAIN <<>> : <<>>[i] = a} = {}
  OBVIOUS
<1> QED BY <1>1, <1>2, <1>3, FS_EmptySet DEF Occurrences

LEMMA OccurrencesBoth ==
  ASSUME NEW X, NEW s \in Seq(X), NEW t \in Seq(X), NEW a
  PROVE  Occurrences(a, s \o t) = Occurrences(a, s) + Occurrences(a, t)
<1> DEFINE n == Len(s)
           A == Places(a, s)
           B == Places(a, t)
           C == {i \in (n + 1)..(n + Len(t)) : t[i - n] = a}
           f == [j \in B |-> j + n]
           g == [i \in C |-> i - n]
<1>1. n \in Nat /\ Len(t) \in Nat
  BY LenProperties
<1>2. s \o t \in Seq(X) /\ Len(s \o t) = n + Len(t)
  BY ConcatProperties
<1>3. \A i \in 1..(n + Len(t)) : (s \o t)[i] = IF i <= n THEN s[i] ELSE t[i - n]
  BY ConcatProperties
<1>4. /\ IsFiniteSet(A) /\ Occurrences(a, s) = Cardinality(A)
      /\ IsFiniteSet(B) /\ Occurrences(a, t) = Cardinality(B)
      /\ Occurrences(a, s \o t) = Cardinality(Places(a, s \o t))
  BY <1>2, OccurrencesType
<1>5. IsFiniteSet(C) /\ Cardinality(C) = Cardinality(B)
  <2>1. f \in [B -> C] /\ g \in [C -> B]
    BY <1>1 DEF Places
  <2>2. Undoes(g, f, B) /\ Undoes(f, g, C)
    BY <1>1 DEF Places, Undoes
  <2>4. IsFiniteSet(B)
    BY <1>4
  <2> HIDE DEF n, A, B, C, f, g
  <2> QED BY <2>1, <2>2, <2>4, SameCount
<1>6. A \intersect C = {}
  BY <1>1 DEF Places
<1>7. Places(a, s \o t) = A \union C
  BY <1>1, <1>2, <1>3 DEF Places
<1> HIDE DEF n, A, B, C, f, g
<1>8. Cardinality(A \union C) = Cardinality(A) + Cardinality(C)
  BY <1>4, <1>5, <1>6, CountOfParts
<1> QED BY <1>4, <1>5, <1>7, <1>8

One(a, b) == IF a = b THEN 1 ELSE 0

LEMMA OccurrencesFirst ==
  ASSUME NEW X, NEW s \in Seq(X), s # <<>>, NEW a
  PROVE  /\ Occurrences(a, s) = One(a, Head(s)) + Occurrences(a, Tail(s))
         /\ Head(s) \in X /\ Tail(s) \in Seq(X) /\ Len(s) = Len(Tail(s)) + 1 /\ Len(Tail(s)) \in Nat
         /\ Head(s) \in ToSet(s)
<1>1. /\ Head(s) \in X /\ Tail(s) \in Seq(X)
      /\ Len(Tail(s)) = Len(s) - 1 /\ Len(s) \in Nat /\ Len(Tail(s)) \in Nat
      /\ s = <<Head(s)>> \o Tail(s) /\ <<Head(s)>> \in Seq(X)
  OBVIOUS
<1>2. Occurrences(a, s) = Occurrences(a, <<Head(s)>>) + Occurrences(a, Tail(s))
  BY <1>1, OccurrencesBoth
<1>3. Head(s) = s[1] /\ 1 \in DOMAIN s
  OBVIOUS
<1> QED BY <1>1, <1>2, <1>3, OccurrencesOne DEF One, ToSet

LEMMA OccurrencesAppend ==
  ASSUME NEW X, NEW s \in Seq(X), NEW a, NEW b \in X
  PROVE  /\ Occurrences(a, Append(s, b)) = Occurrences(a, s) + One(a, b)
         /\ Append(s, b) \in Seq(X) /\ Len(Append(s, b)) = Len(s) + 1
<1>1. Append(s, b) = s \o <<b>> /\ <<b>> \in Seq(X)
  OBVIOUS
<1>2. Occurrences(a, Append(s, b)) = Occurrences(a, s) + Occurrences(a, <<b>>)
  BY <1>1, OccurrencesBoth
<1>3. Occurrences(a, <<b>>) = One(a, b)
  BY OccurrencesOne DEF One
<1> QED BY <1>2, <1>3

LEMMA OccurrencesSplit ==
  ASSUME NEW X, NEW s \in Seq(X), NEW n \in 0..Len(s), NEW a
  PROVE  /\ Occurrences(a, s) = Occurrences(a, SubSeq(s, 1, n)) + Occurrences(a, SubSeq(s, n + 1, Len(s)))
         /\ SubSeq(s, 1, n) \in Seq(X) /\ Len(SubSeq(s, 1, n)) = n
         /\ SubSeq(s, n + 1, Len(s)) \in Seq(X) /\ Len(SubSeq(s, n + 1, Len(s))) = Len(s) - n
<1>1. /\ SubSeq(s, 1, n) \in Seq(X) /\ Len(SubSeq(s, 1, n)) = n
      /\ SubSeq(s, n + 1, Len(s)) \in Seq(X) /\ Len(SubSeq(s, n + 1, Len(s))) = Len(s) - n
      /\ SubSeq(s, 1, n) \o SubSeq(s, n + 1, Len(s)) = s
  <2>1. /\ SubSeq(s, 1, n) \in Seq(X) /\ Len(SubSeq(s, 1, n)) = n
        /\ SubSeq(s, n + 1, Len(s)) \in Seq(X) /\ Len(SubSeq(s, n + 1, Len(s))) = Len(s) - n
    OBVIOUS
  <2>2. 1 \in 1..(Len(s) + 1) /\ n \in (1 - 1)..Len(s) /\ Len(s) \in n..Len(s)
    OBVIOUS
  <2>3. SubSeq(s, 1, n) \o SubSeq(s, n + 1, Len(s)) = SubSeq(s, 1, Len(s))
    BY <2>2, ConcatAdjacentSubSeq
  <2> QED BY <2>1, <2>3, SubSeqFull
<1> DEFINE t == SubSeq(s, 1, n)
           u == SubSeq(s, n + 1, Len(s))
<1>2. t \in Seq(X) /\ u \in Seq(X) /\ t \o u = s
  BY <1>1
<1> HIDE DEF t, u
<1>3. Occurrences(a, t \o u) = Occurrences(a, t) + Occurrences(a, u)
  BY <1>2, OccurrencesBoth
<1>4. Occurrences(a, s) = Occurrences(a, t) + Occurrences(a, u)
  BY <1>2, <1>3
<1> QED BY <1>1, <1>4 DEF t, u

LEMMA OccurrencesOthers ==
  ASSUME NEW X, NEW s \in Seq(X), NEW i \in 1..Len(s), NEW a
  PROVE  /\ Occurrences(a, s) = Occurrences(a, RemoveAt(s, i)) + One(a, s[i])
         /\ RemoveAt(s, i) \in Seq(X) /\ Len(s) = Len(RemoveAt(s, i)) + 1
         /\ Len(RemoveAt(s, i)) \in Nat /\ s[i] \in X /\ s[i] \in ToSet(s)
<1> DEFINE t == SubSeq(s, 1, i - 1)
           v == SubSeq(s, i + 1, Len(s))
           u == SubSeq(s, i, Len(s))
<1>1. t \in Seq(X) /\ u \in Seq(X) /\ v \in Seq(X) /\ Len(t) = i - 1 /\ Len(v) = Len(s) - i
  OBVIOUS
<1>2. u = <<s[i]>> \o v /\ <<s[i]>> \in Seq(X)
  <2>1. i \in 1..(Len(s) + 1) /\ i \in (i - 1)..Len(s) /\ Len(s) \in i..Len(s)
    OBVIOUS
  <2>2. SubSeq(s, i, i) \o SubSeq(s, i + 1, Len(s)) = SubSeq(s, i, Len(s))
    BY <2>1, ConcatAdjacentSubSeq
  <2>3. SubSeq(s, i, i) = <<s[i]>>
    <3> DEFINE w == SubSeq(s, i, i)
    <3>1. w \in Seq(X) /\ Len(w) = 1 /\ w[1] = s[i]
      OBVIOUS
    <3>2. <<s[i]>> \in Seq(X) /\ Len(<<s[i]>>) = 1 /\ <<s[i]>>[1] = s[i]
      OBVIOUS
    <3> HIDE DEF w
    <3>3. Len(w) = Len(<<s[i]>>) /\ \A j \in 1..Len(w) : w[j] = <<s[i]>>[j]
      BY <3>1, <3>2
    <3>4. w = <<s[i]>>
      BY <3>1, <3>2, <3>3, SeqEqual
    <3> QED BY <3>4 DEF w
  <2> QED BY <2>2, <2>3
<1>3. Occurrences(a, s) = Occurrences(a, t) + Occurrences(a, u)
  <2>1. i - 1 \in 0..Len(s) /\ (i - 1) + 1 = i
    OBVIOUS
  <2> QED BY <2>1, OccurrencesSplit
<1>4. s[i] \in X /\ s[i] \in ToSet(s)
  BY DEF ToSet
<1>5. RemoveAt(s, i) = t \o v
  BY DEF RemoveAt
<1> HIDE DEF t, u, v
<1>6. Occurrences(a, u) = One(a, s[i]) + Occurrences(a, v)
  <2>1. Occurrences(a, u) = Occurrences(a, <<s[i]>>) + Occurrences(a, v)
    BY <1>1, <1>2, OccurrencesBoth
  <2> QED BY <2>1, OccurrencesOne DEF One
<1>7. Occurrences(a, t \o v) = Occurrences(a, t) + Occurrences(a, v)
  BY <1>1, OccurrencesBoth
<1>8. t \o v \in Seq(X) /\ Len(t \o v) = Len(t) + Len(v)
  BY <1>1, ConcatProperties
<1>9. Occurrences(a, t) \in Nat /\ Occurrences(a, v) \in Nat /\ One(a, s[i]) \in Nat
  BY <1>1, OccurrencesType DEF One
<1> QED BY <1>1, <1>3, <1>4, <1>5, <1>6, <1>7, <1>8, <1>9

LEMMA OccurrencesReplace ==
  ASSUME NEW X, NEW s \in Seq(X), NEW i \in 1..Len(s), NEW a, NEW b \in X
  PROVE  /\ Occurrences(a, [s EXCEPT ![i] = b]) = Occurrences(a, RemoveAt(s, i)) + One(a, b)
         /\ [s EXCEPT ![i] = b] \in Seq(X) /\ Len([s EXCEPT ![i] = b]) = Len(s)
<1> DEFINE t == [s EXCEPT ![i] = b]
<1>1. t \in Seq(X) /\ Len(t) = Len(s) /\ t[i] = b
  OBVIOUS
<1>2. Occurrences(a, t) = Occurrences(a, RemoveAt(t, i)) + One(a, t[i])
  <2> HIDE DEF t
  <2> QED BY <1>1, OccurrencesOthers
<1>3. RemoveAt(t, i) = RemoveAt(s, i)
  <2>1. SubSeq(t, 1, i - 1) = SubSeq(s, 1, i - 1)
    OBVIOUS
  <2>2. SubSeq(t, i + 1, Len(t)) = SubSeq(s, i + 1, Len(s))
    OBVIOUS
  <2> QED BY <2>1, <2>2 DEF RemoveAt
<1> HIDE DEF t
<1>4. Occurrences(a, t) = Occurrences(a, RemoveAt(s, i)) + One(a, b)
  BY <1>1, <1>2, <1>3
<1> QED BY <1>1, <1>4 DEF t

LEMMA OccurrencesReverse ==
  ASSUME NEW X, NEW s \in Seq(X), NEW a
  PROVE  /\ Occurrences(a, Reverse(s)) = Occurrences(a, s)
         /\ Reverse(s) \in Seq(X) /\ Len(Reverse(s)) = Len(s)
<1> DEFINE n == Len(s)
           t == Reverse(s)
           A == Places(a, s)
           B == Places(a, t)
           f == [i \in A |-> (n + 1) - i]
           g == [i \in B |-> (n + 1) - i]
<1>1. n \in Nat /\ t \in Seq(X) /\ Len(t) = n
  <2>1. \A i \in 1..n : s[(n - i) + 1] \in X
    OBVIOUS
  <2> QED BY <2>1 DEF Reverse
<1>2. \A i \in 1..n : t[i] = s[(n - i) + 1]
  BY DEF Reverse
<1>3. f \in [A -> B] /\ g \in [B -> A]
  BY <1>1, <1>2 DEF Places
<1>4. Undoes(g, f, A) /\ Undoes(f, g, B)
  BY <1>1, <1>2 DEF Places, Undoes
<1> HIDE DEF n, t, A, B, f, g
<1>5. IsFiniteSet(A) /\ Occurrences(a, s) = Cardinality(A) /\ Occurrences(a, t) = Cardinality(B)
  BY <1>1, OccurrencesType DEF A, B
<1>6. Cardinality(A) = Cardinality(B)
  BY <1>3, <1>4, <1>5, SameCount
<1> QED BY <1>1, <1>5, <1>6 DEF t, n

-----------------------------------------------------------------------------
(* The fields of containers                                                *)

Sized(h) == h \in [Addresses -> Cell] /\ \A r \in Addresses : Len(h[r].items) <= MaxArraySize

LEMMA ItemsOf ==
  ASSUME NEW h, Sized(h), NEW r \in Addresses
  PROVE  /\ h[r].items \in Seq(Items) /\ DOMAIN h[r].items = 1..Len(h[r].items)
         /\ Len(h[r].items) \in 0..MaxArraySize /\ h[r] \in Cell /\ h[r].kind \in Kinds
<1>1. h[r] \in Cell /\ Len(h[r].items) <= MaxArraySize
  BY DEF Sized
<1>2. h[r].items \in Seq(Items) /\ h[r].kind \in Kinds
  BY <1>1 DEF Cell
<1> QED BY <1>1, <1>2

LEMMA FieldsFinite ==
  ASSUME NEW h, NEW S, S \subseteq Addresses, NEW r
  PROVE  /\ IsFiniteSet(Fields(h, S)) /\ Cardinality(Fields(h, S)) \in Nat
         /\ Cardinality(Fields(h, S)) <= Cardinality(Addresses) * MaxArraySize
         /\ IsFiniteSet(Having(h, S, r)) /\ Cardinality(Having(h, S, r)) \in Nat
<1>1. MaxArraySize \in Nat
  BY BoundsAssumption
<1>2. IsFiniteSet(1..MaxArraySize) /\ Cardinality(1..MaxArraySize) = MaxArraySize
  BY <1>1, FS_Interval
<1>3. IsFiniteSet(Addresses)
  BY AddressesAssumption
<1> DEFINE all == Addresses \X (1..MaxArraySize)
<1>4. IsFiniteSet(all) /\ Cardinality(all) = Cardinality(Addresses) * MaxArraySize
  BY <1>2, <1>3, FS_Product
<1>5. Fields(h, S) \in SUBSET all /\ Having(h, S, r) \in SUBSET all
  BY DEF Fields, Having
<1> HIDE DEF all
<1>6. /\ IsFiniteSet(Fields(h, S)) /\ Cardinality(Fields(h, S)) <= Cardinality(all)
      /\ IsFiniteSet(Having(h, S, r))
  BY <1>4, <1>5, FS_Subset
<1> QED BY <1>4, <1>6, FS_CardinalityType

LEMMA FieldsCount ==
  ASSUME NEW h, NEW S, S \subseteq Addresses
  PROVE  Cardinality(Fields(h, S)) \in Nat
BY FieldsFinite

LEMMA PairsWith ==
  ASSUME NEW A, IsFiniteSet(A), NEW x
  PROVE  Cardinality({<<x, i>> : i \in A}) = Cardinality(A)
<1> DEFINE B == {<<x, i>> : i \in A}
           f == [i \in A |-> <<x, i>>]
           g == [p \in B |-> p[2]]
<1>1. f \in [A -> B] /\ g \in [B -> A]
  OBVIOUS
<1>2. Undoes(g, f, A) /\ Undoes(f, g, B)
  BY DEF Undoes
<1> HIDE DEF B, f, g
<1>3. Cardinality(B) = Cardinality(A)
  BY <1>1, <1>2, SameCount
<1> QED BY <1>3 DEF B

LEMMA FieldsOfOne ==
  ASSUME NEW h, Sized(h), NEW x \in Addresses, NEW r
  PROVE  /\ Cardinality(Fields(h, {x})) = Len(h[x].items)
         /\ Cardinality(Having(h, {x}, r)) = Occurrences(r, h[x].items)
<1> DEFINE s == h[x].items
           n == Len(s)
           A == Places(r, s)
           all == {<<x, i>> : i \in 1..n}
           some == {<<x, i>> : i \in A}
<1>1. s \in Seq(Items) /\ DOMAIN s = 1..n /\ n \in 0..MaxArraySize
  BY ItemsOf
<1>2. MaxArraySize \in Nat
  BY BoundsAssumption
<1>3. \A i \in 1..n : i \in 1..MaxArraySize
  BY <1>1, <1>2
<1>4. Fields(h, {x}) = all
  <2>1. Fields(h, {x}) = {f \in {x} \X (1..MaxArraySize) : f[2] \in 1..n}
    BY <1>1 DEF Fields
  <2> HIDE DEF n
  <2> QED BY <1>3, <2>1
<1>5. Having(h, {x}, r) = {f \in all : h[f[1]].items[f[2]] = r}
  BY <1>4 DEF Having
<1>6. Having(h, {x}, r) = some
  <2> HIDE DEF n
  <2>1. \A i \in 1..n : h[<<x, i>>[1]].items[<<x, i>>[2]] = s[i]
    OBVIOUS
  <2>2. A = {i \in 1..n : s[i] = r}
    BY DEF Places, n
  <2>3. A \subseteq 1..n
    BY <2>2
  <2> HIDE DEF s, A
  <2>4. ASSUME NEW i \in 1..n PROVE <<x, i>> \in Having(h, {x}, r) <=> i \in A
    <3>1. <<x, i>> \in all
      OBVIOUS
    <3> HIDE DEF all
    <3> QED BY <1>5, <2>1, <2>2, <3>1
  <2>5. \A f \in Having(h, {x}, r) : \E i \in 1..n : f = <<x, i>>
    BY <1>5
  <2> QED BY <2>3, <2>4, <2>5
<1>7. IsFiniteSet(1..n) /\ Cardinality(1..n) = n
  <2> HIDE DEF n
  <2> QED BY <1>1, FS_Interval
<1>8. IsFiniteSet(A) /\ Occurrences(r, s) = Cardinality(A)
  BY <1>1, OccurrencesType
<1> HIDE DEF s, n, A
<1>9. Cardinality(all) = n /\ Cardinality(some) = Cardinality(A)
  BY <1>7, <1>8, PairsWith
<1> QED BY <1>4, <1>6, <1>8, <1>9 DEF s, n

\* One container more.
LEMMA FieldsMore ==
  ASSUME NEW h, Sized(h), NEW S, S \subseteq Addresses, NEW x \in Addresses \ S
  PROVE  Cardinality(Fields(h, S \union {x})) = Cardinality(Fields(h, S)) + Len(h[x].items)
<1>1. IsFiniteSet(Fields(h, S)) /\ IsFiniteSet(Fields(h, {x}))
  BY FieldsFinite
<1>2. Fields(h, S \union {x}) = Fields(h, S) \union Fields(h, {x})
  BY DEF Fields
<1>3. Fields(h, S) \intersect Fields(h, {x}) = {}
  BY DEF Fields
<1>4. Cardinality(Fields(h, S \union {x})) = Cardinality(Fields(h, S)) + Cardinality(Fields(h, {x}))
  BY <1>1, <1>2, <1>3, CountOfParts
<1> QED BY <1>4, FieldsOfOne

LEMMA HavingMore ==
  ASSUME NEW h, Sized(h), NEW S, S \subseteq Addresses, NEW x \in Addresses \ S, NEW a
  PROVE  Cardinality(Having(h, S \union {x}, a))
           = Cardinality(Having(h, S, a)) + Occurrences(a, h[x].items)
<1>1. IsFiniteSet(Having(h, S, a)) /\ IsFiniteSet(Having(h, {x}, a))
  BY FieldsFinite
<1>2. Having(h, S \union {x}, a) = Having(h, S, a) \union Having(h, {x}, a)
  BY DEF Having, Fields
<1>3. Having(h, S, a) \intersect Having(h, {x}, a) = {}
  BY DEF Having, Fields
<1>4. Cardinality(Having(h, S \union {x}, a))
        = Cardinality(Having(h, S, a)) + Cardinality(Having(h, {x}, a))
  BY <1>1, <1>2, <1>3, CountOfParts
<1> QED BY <1>4, FieldsOfOne

\* A subset, and a heap that differs elsewhere.
LEMMA FieldsAgree ==
  ASSUME NEW h, NEW g, NEW S, S \subseteq Addresses, \A r \in S : h[r] = g[r], NEW r
  PROVE  Fields(h, S) = Fields(g, S) /\ Having(h, S, r) = Having(g, S, r)
BY DEF Fields, Having

LEMMA FieldsWithin ==
  ASSUME NEW h, NEW S, NEW T, T \subseteq Addresses, S \subseteq T
  PROVE  Cardinality(Fields(h, S)) <= Cardinality(Fields(h, T))
<1>1. Fields(h, S) \in SUBSET Fields(h, T)
  BY DEF Fields
<1>2. IsFiniteSet(Fields(h, T))
  BY FieldsFinite
<1> QED BY <1>1, <1>2, FS_Subset

LEMMA InContents ==
  ASSUME NEW h, NEW S, NEW a
  PROVE  a \in Contents(h, S) <=> a # Primitive /\ \E q \in S : a \in ToSet(h[q].items)
<1> DEFINE all == {ToSet(h[r].items) : r \in S}
<1>1. a \in UNION all <=> \E T \in all : a \in T
  OBVIOUS
<1>2. (\E T \in all : a \in T) <=> \E q \in S : a \in ToSet(h[q].items)
  OBVIOUS
<1>3. Contents(h, S) = (UNION all) \ {Primitive}
  BY Zenon DEF Contents
<1> HIDE DEF all
<1> QED BY <1>1, <1>2, <1>3

\* What S contains it has in some field.
LEMMA ContentsHaving ==
  ASSUME NEW h, Sized(h), NEW S, S \subseteq Addresses, NEW r
  PROVE  /\ r \in Contents(h, S) <=> r # Primitive /\ Cardinality(Having(h, S, r)) > 0
         /\ Contents(h, S) \subseteq Addresses
<1>1. MaxArraySize \in Nat
  BY BoundsAssumption
<1>2. IsFiniteSet(Having(h, S, r))
  BY FieldsFinite
<1>3. Cardinality(Having(h, S, r)) > 0 <=> Having(h, S, r) # {}
  BY <1>2, FS_EmptySet, FS_CardinalityType
<1>4. ASSUME NEW q \in S, r \in ToSet(h[q].items) PROVE Having(h, S, r) # {}
  <2>1. PICK i \in DOMAIN h[q].items : h[q].items[i] = r
    BY <1>4 DEF ToSet
  <2>2. i \in 1..MaxArraySize
    BY <1>1, <2>1, ItemsOf
  <2>3. <<q, i>> \in Having(h, S, r)
    BY <2>1, <2>2 DEF Having, Fields
  <2> QED BY <2>3
<1>5. ASSUME NEW p \in Having(h, S, r) PROVE \E q \in S : r \in ToSet(h[q].items)
  BY DEF Having, Fields, ToSet
<1>6. r \in Contents(h, S) <=> r # Primitive /\ \E q \in S : r \in ToSet(h[q].items)
  BY InContents
<1>7. \A q \in S : ToSet(h[q].items) \subseteq Items
  BY ItemsOf DEF ToSet
<1>8. ASSUME NEW y \in Contents(h, S) PROVE y \in Addresses
  <2>1. y # Primitive /\ \E q \in S : y \in ToSet(h[q].items)
    BY InContents
  <2> QED BY <1>7, <2>1 DEF Items
<1> QED BY <1>3, <1>4, <1>5, <1>6, <1>8

-----------------------------------------------------------------------------
(* What a container leads to                                               *)

Closes(h, S, T) == T \in SUBSET Addresses /\ S \subseteq T /\ Contents(h, T) \subseteq T

LEMMA ClosureLeast ==
  ASSUME NEW h, NEW S, NEW T, Closes(h, S, T)
  PROVE  Closure(h, S) \subseteq T
BY DEF Closure, Closes

LEMMA ClosureCloses ==
  ASSUME NEW h, Sized(h), NEW S, S \subseteq Addresses
  PROVE  Closes(h, S, Closure(h, S))
<1> DEFINE C == Closure(h, S)
<1>1. \A T : Closes(h, S, T) => C \subseteq T
  BY ClosureLeast
<1>2. \A r \in Addresses : (\A T : Closes(h, S, T) => r \in T) => r \in C
  BY DEF Closure, Closes
<1>3. C \subseteq Addresses
  BY DEF Closure
<1>4. S \subseteq C
  BY <1>2 DEF Closes
<1> HIDE DEF C
<1>5. ASSUME NEW x \in Contents(h, C) PROVE x \in C
  <2>1. x # Primitive /\ \E q \in C : x \in ToSet(h[q].items)
    BY InContents
  <2>2. x \in Addresses
    BY <1>3, ContentsHaving
  <2>3. ASSUME NEW T, Closes(h, S, T) PROVE x \in T
    <3>1. x \in Contents(h, T)
      BY <1>1, <2>1, <2>3, InContents
    <3> QED BY <2>3, <3>1 DEF Closes
  <2> QED BY <1>2, <2>2, <2>3
<1>6. C \in SUBSET Addresses /\ S \subseteq C /\ Contents(h, C) \subseteq C
  BY <1>3, <1>4, <1>5
<1> QED BY <1>6 DEF Closes, C

-----------------------------------------------------------------------------
(* The machine in the midst of an instruction                              *)

\* What is allocated.
Held(h) == {Primitive} \union {r \in Addresses : h[r].kind # "none"}
GoodHeap(h) == Sized(h) /\ \A r \in Addresses : h[r].items \in Seq(Held(h))

Whole(m) ==
  m = [heap |-> m.heap, estack |-> m.estack, count |-> m.count, size |-> m.size,
       todo |-> m.todo, endless |-> m.endless]

\* Nothing refers to a free cell.
Sound(m) ==
  /\ Whole(m)
  /\ GoodHeap(m.heap)
  /\ m.estack \in Seq(Held(m.heap))
  /\ m.count \in [Addresses -> Nat]
  /\ \A r \in Addresses : m.count[r] > 0 => r \in Held(m.heap)
  /\ m.size \in Int /\ m.endless \in BOOLEAN

LEMMA WithIs ==
  ASSUME NEW m, Whole(m), NEW a
  PROVE  /\ LET y == WithHeap(m, a)
            IN Whole(y) /\ y.heap = a /\ y.estack = m.estack /\ y.count = m.count
               /\ y.size = m.size /\ y.todo = m.todo /\ y.endless = m.endless
         /\ LET y == WithStack(m, a)
            IN Whole(y) /\ y.heap = m.heap /\ y.estack = a /\ y.count = m.count
               /\ y.size = m.size /\ y.todo = m.todo /\ y.endless = m.endless
         /\ LET y == WithCount(m, a)
            IN Whole(y) /\ y.heap = m.heap /\ y.estack = m.estack /\ y.count = a
               /\ y.size = m.size /\ y.todo = m.todo /\ y.endless = m.endless
         /\ LET y == WithSize(m, a)
            IN Whole(y) /\ y.heap = m.heap /\ y.estack = m.estack /\ y.count = m.count
               /\ y.size = a /\ y.todo = m.todo /\ y.endless = m.endless
         /\ LET y == WithTodo(m, a)
            IN Whole(y) /\ y.heap = m.heap /\ y.estack = m.estack /\ y.count = m.count
               /\ y.size = m.size /\ y.todo = a /\ y.endless = m.endless
         /\ LET y == WithEndless(m, a)
            IN Whole(y) /\ y.heap = m.heap /\ y.estack = m.estack /\ y.count = m.count
               /\ y.size = m.size /\ y.todo = m.todo /\ y.endless = a
<1> DEFINE Record(h, e, c, s, t, x) ==
             [heap |-> h, estack |-> e, count |-> c, size |-> s, todo |-> t, endless |-> x]
           r == Record(m.heap, m.estack, m.count, m.size, m.todo, m.endless)
<1>1. m = r
  BY DEF Whole
<1>2. WithHeap(m, a) = Record(a, m.estack, m.count, m.size, m.todo, m.endless)
  <2>1. [r EXCEPT !.heap = a] = Record(a, m.estack, m.count, m.size, m.todo, m.endless)
    OBVIOUS
  <2> QED BY <1>1, <2>1 DEF WithHeap
<1>3. WithStack(m, a) = Record(m.heap, a, m.count, m.size, m.todo, m.endless)
  <2>1. [r EXCEPT !.estack = a] = Record(m.heap, a, m.count, m.size, m.todo, m.endless)
    OBVIOUS
  <2> QED BY <1>1, <2>1 DEF WithStack
<1>4. WithCount(m, a) = Record(m.heap, m.estack, a, m.size, m.todo, m.endless)
  <2>1. [r EXCEPT !.count = a] = Record(m.heap, m.estack, a, m.size, m.todo, m.endless)
    OBVIOUS
  <2> QED BY <1>1, <2>1 DEF WithCount
<1>5. WithSize(m, a) = Record(m.heap, m.estack, m.count, a, m.todo, m.endless)
  <2>1. [r EXCEPT !.size = a] = Record(m.heap, m.estack, m.count, a, m.todo, m.endless)
    OBVIOUS
  <2> QED BY <1>1, <2>1 DEF WithSize
<1>6. WithTodo(m, a) = Record(m.heap, m.estack, m.count, m.size, a, m.endless)
  <2>1. [r EXCEPT !.todo = a] = Record(m.heap, m.estack, m.count, m.size, a, m.endless)
    OBVIOUS
  <2> QED BY <1>1, <2>1 DEF WithTodo
<1>7. WithEndless(m, a) = Record(m.heap, m.estack, m.count, m.size, m.todo, a)
  <2>1. [r EXCEPT !.endless = a] = Record(m.heap, m.estack, m.count, m.size, m.todo, a)
    OBVIOUS
  <2> QED BY <1>1, <2>1 DEF WithEndless
<1> QED BY <1>2, <1>3, <1>4, <1>5, <1>6, <1>7 DEF Whole

LEMMA AddingIs ==
  ASSUME NEW m, Whole(m)
  PROVE  LET x == Head(m.todo)
             y == Adding(m)
         IN /\ Whole(y) /\ y.heap = m.heap /\ y.estack = m.estack /\ y.endless = m.endless
            /\ y.size = m.size + 1
            /\ x = Primitive => y.count = m.count /\ y.todo = Tail(m.todo)
            /\ x # Primitive /\ m.count[x] > 0 =>
                 y.count = [m.count EXCEPT ![x] = @ + 1] /\ y.todo = Tail(m.todo)
            /\ x # Primitive /\ ~(m.count[x] > 0) =>
                 y.count = [m.count EXCEPT ![x] = 1] /\ y.todo = m.heap[x].items \o Tail(m.todo)
<1> DEFINE x == Head(m.todo)
           more == m.heap[x].items \o Tail(m.todo)
           c == [m.count EXCEPT ![x] = @ + 1]
           first == [m.count EXCEPT ![x] = 1]
           s == WithTodo(m, Tail(m.todo))
           one == WithSize(s, m.size + 1)
           two == WithCount(one, c)
           three == WithTodo(WithCount(one, first), more)
<1>1. /\ Whole(s) /\ s.heap = m.heap /\ s.estack = m.estack /\ s.count = m.count
      /\ s.size = m.size /\ s.todo = Tail(m.todo) /\ s.endless = m.endless
  BY WithIs
<1>2. s = Skipped(m)
  BY DEF Skipped, WithTodo
<1> HIDE DEF s
<1>3. /\ Whole(one) /\ one.heap = m.heap /\ one.estack = m.estack /\ one.count = m.count
      /\ one.size = m.size + 1 /\ one.todo = Tail(m.todo) /\ one.endless = m.endless
  BY <1>1, WithIs
<1>4. [Skipped(m) EXCEPT !.size = @ + 1] = one
  BY <1>1, <1>2 DEF WithSize
<1> HIDE DEF one
<1>5. [one EXCEPT !.count[x] = @ + 1] = two
  BY <1>3 DEF WithCount
<1>6. [one EXCEPT !.count[x] = 1, !.todo = m.heap[x].items \o @] = three
  BY <1>3 DEF WithCount, WithTodo
<1>7. Adding(m) = IF x = Primitive THEN one ELSE IF m.count[x] > 0 THEN two ELSE three
  <2> HIDE DEF two, three
  <2> QED BY <1>4, <1>5, <1>6 DEF Adding
<1>8. /\ Whole(two) /\ two.heap = m.heap /\ two.estack = m.estack /\ two.count = c
      /\ two.size = m.size + 1 /\ two.todo = Tail(m.todo) /\ two.endless = m.endless
  BY <1>3, WithIs
<1>9. /\ Whole(three) /\ three.heap = m.heap /\ three.estack = m.estack /\ three.count = first
      /\ three.size = m.size + 1 /\ three.todo = more /\ three.endless = m.endless
  <2> DEFINE four == WithCount(one, first)
  <2>1. /\ Whole(four) /\ four.heap = m.heap /\ four.estack = m.estack /\ four.count = first
        /\ four.size = m.size + 1 /\ four.endless = m.endless
    BY <1>3, WithIs
  <2> HIDE DEF four
  <2>2. three = WithTodo(four, more)
    BY DEF four
  <2> HIDE DEF three, more
  <2>3. /\ Whole(WithTodo(four, more)) /\ WithTodo(four, more).heap = four.heap
        /\ WithTodo(four, more).estack = four.estack /\ WithTodo(four, more).count = four.count
        /\ WithTodo(four, more).size = four.size /\ WithTodo(four, more).todo = more
        /\ WithTodo(four, more).endless = four.endless
    BY <2>1, WithIs
  <2> QED BY <2>1, <2>2, <2>3
<1> HIDE DEF two, three
<1> QED BY <1>3, <1>7, <1>8, <1>9

LEMMA RemovingIs ==
  ASSUME NEW m, Whole(m)
  PROVE  LET x == Head(m.todo)
             y == Removing(m)
         IN /\ Whole(y) /\ y.heap = m.heap /\ y.estack = m.estack /\ y.endless = m.endless
            /\ y.size = m.size - 1
            /\ x = Primitive => y.count = m.count /\ y.todo = Tail(m.todo)
            /\ x # Primitive /\ m.count[x] > 1 =>
                 y.count = [m.count EXCEPT ![x] = @ - 1] /\ y.todo = Tail(m.todo)
            /\ x # Primitive /\ ~(m.count[x] > 1) =>
                 y.count = [m.count EXCEPT ![x] = 0] /\ y.todo = m.heap[x].items \o Tail(m.todo)
<1> DEFINE x == Head(m.todo)
           more == m.heap[x].items \o Tail(m.todo)
           c == [m.count EXCEPT ![x] = @ - 1]
           last == [m.count EXCEPT ![x] = 0]
           s == WithTodo(m, Tail(m.todo))
           one == WithSize(s, m.size - 1)
           two == WithCount(one, c)
           three == WithTodo(WithCount(one, last), more)
<1>1. /\ Whole(s) /\ s.heap = m.heap /\ s.estack = m.estack /\ s.count = m.count
      /\ s.size = m.size /\ s.todo = Tail(m.todo) /\ s.endless = m.endless
  BY WithIs
<1>2. s = Skipped(m)
  BY DEF Skipped, WithTodo
<1> HIDE DEF s
<1>3. /\ Whole(one) /\ one.heap = m.heap /\ one.estack = m.estack /\ one.count = m.count
      /\ one.size = m.size - 1 /\ one.todo = Tail(m.todo) /\ one.endless = m.endless
  BY <1>1, WithIs
<1>4. [Skipped(m) EXCEPT !.size = @ - 1] = one
  BY <1>1, <1>2 DEF WithSize
<1> HIDE DEF one
<1>5. [one EXCEPT !.count[x] = @ - 1] = two
  BY <1>3 DEF WithCount
<1>6. [one EXCEPT !.count[x] = 0, !.todo = m.heap[x].items \o @] = three
  BY <1>3 DEF WithCount, WithTodo
<1>7. Removing(m) = IF x = Primitive THEN one ELSE IF m.count[x] > 1 THEN two ELSE three
  <2> HIDE DEF two, three
  <2> QED BY <1>4, <1>5, <1>6 DEF Removing
<1>8. /\ Whole(two) /\ two.heap = m.heap /\ two.estack = m.estack /\ two.count = c
      /\ two.size = m.size - 1 /\ two.todo = Tail(m.todo) /\ two.endless = m.endless
  BY <1>3, WithIs
<1>9. /\ Whole(three) /\ three.heap = m.heap /\ three.estack = m.estack /\ three.count = last
      /\ three.size = m.size - 1 /\ three.todo = more /\ three.endless = m.endless
  <2> DEFINE four == WithCount(one, last)
  <2>1. /\ Whole(four) /\ four.heap = m.heap /\ four.estack = m.estack /\ four.count = last
        /\ four.size = m.size - 1 /\ four.endless = m.endless
    BY <1>3, WithIs
  <2> HIDE DEF four
  <2>2. three = WithTodo(four, more)
    BY DEF four
  <2> HIDE DEF three, more
  <2>3. /\ Whole(WithTodo(four, more)) /\ WithTodo(four, more).heap = four.heap
        /\ WithTodo(four, more).estack = four.estack /\ WithTodo(four, more).count = four.count
        /\ WithTodo(four, more).size = four.size /\ WithTodo(four, more).todo = more
        /\ WithTodo(four, more).endless = four.endless
    BY <2>1, WithIs
  <2> QED BY <2>1, <2>2, <2>3
<1> HIDE DEF two, three
<1> QED BY <1>3, <1>7, <1>8, <1>9

-----------------------------------------------------------------------------
(* The accounts: what is counted beyond what there is to count.  g is the  *)
(* heap, or what it is about to become.                                    *)

InCount(m) == {r \in Addresses : m.count[r] > 0}
Refs(m, g, r) == Occurrences(r, m.estack) + Cardinality(Having(g, InCount(m), r))
Spare(m, g, r) == m.count[r] - Refs(m, g, r)
SpareSize(m, g) == m.size - (Len(m.estack) + Cardinality(Fields(g, InCount(m))))

LEMMA SoundIs ==
  ASSUME NEW m, Sound(m), NEW r \in Addresses
  PROVE  /\ Sized(m.heap) /\ m.heap[r].items \in Seq(Held(m.heap))
         /\ Len(m.heap[r].items) \in 0..MaxArraySize
         /\ m.count[r] \in Nat /\ m.count[r] > 0 => r \in Held(m.heap)
BY ItemsOf DEF Sound, GoodHeap

LEMMA RefsType ==
  ASSUME NEW m, m.estack \in Seq(Held(m.heap)), NEW g, NEW r
  PROVE  /\ Refs(m, g, r) \in Nat
         /\ Occurrences(r, m.estack) \in Nat /\ Cardinality(Having(g, InCount(m), r)) \in Nat
         /\ Len(m.estack) \in Nat /\ Cardinality(Fields(g, InCount(m))) \in Nat
<1>1. InCount(m) \subseteq Addresses
  BY DEF InCount
<1>2. Cardinality(Having(g, InCount(m), r)) \in Nat /\ Cardinality(Fields(g, InCount(m))) \in Nat
  BY <1>1, FieldsFinite
<1>3. Occurrences(r, m.estack) \in Nat /\ Len(m.estack) \in Nat
  BY OccurrencesType
<1> QED BY <1>2, <1>3 DEF Refs

\* In y one container more is counted than in m.
Joins(m, y, g, x) ==
  /\ m.estack \in Seq(Held(m.heap)) /\ y.estack = m.estack /\ y.heap = m.heap
  /\ Sized(g) /\ x \in Addresses /\ x \notin InCount(m) /\ InCount(y) = InCount(m) \union {x}

RefsMore(m, y, g, x, r) ==
  /\ Refs(y, g, r) = Refs(m, g, r) + Occurrences(r, g[x].items)
  /\ Refs(m, g, r) \in Nat /\ Occurrences(r, g[x].items) \in Nat
FieldsCounted(m, y, g, x) ==
  /\ Cardinality(Fields(g, InCount(y))) = Cardinality(Fields(g, InCount(m))) + Len(g[x].items)
  /\ Cardinality(Fields(g, Addresses \ InCount(m)))
       = Cardinality(Fields(g, Addresses \ InCount(y))) + Len(g[x].items)

LEMMA CountedMore ==
  ASSUME NEW m, NEW y, NEW g, NEW x, Joins(m, y, g, x)
  PROVE  FieldsCounted(m, y, g, x) /\ \A r : RefsMore(m, y, g, x, r)
<1> SUFFICES ASSUME NEW r PROVE FieldsCounted(m, y, g, x) /\ RefsMore(m, y, g, x, r)
  OBVIOUS
<1> DEFINE S == InCount(m)
           T == Addresses \ InCount(y)
<1> USE DEF Joins
<1>1. S \subseteq Addresses /\ T \subseteq Addresses /\ x \in Addresses \ S /\ x \in Addresses \ T
  BY DEF InCount
<1>2. Addresses \ S = T \union {x}
  BY <1>1
<1>3. /\ Cardinality(Fields(g, S \union {x})) = Cardinality(Fields(g, S)) + Len(g[x].items)
      /\ Cardinality(Having(g, S \union {x}, r))
           = Cardinality(Having(g, S, r)) + Occurrences(r, g[x].items)
  <2> HIDE DEF S, T
  <2>1. S \subseteq Addresses /\ x \in Addresses \ S
    BY <1>1
  <2>2. Cardinality(Fields(g, S \union {x})) = Cardinality(Fields(g, S)) + Len(g[x].items)
    BY <2>1, FieldsMore
  <2>3. Cardinality(Having(g, S \union {x}, r))
           = Cardinality(Having(g, S, r)) + Occurrences(r, g[x].items)
    BY <2>1, HavingMore
  <2> QED BY <2>2, <2>3
<1>4. Cardinality(Fields(g, T \union {x})) = Cardinality(Fields(g, T)) + Len(g[x].items)
  BY <1>1, FieldsMore
<1>5. g[x].items \in Seq(Items)
  BY ItemsOf
<1>6. Occurrences(r, g[x].items) \in Nat
  BY <1>5, OccurrencesType
<1>7. /\ Refs(m, g, r) \in Nat /\ Occurrences(r, m.estack) \in Nat
      /\ Cardinality(Having(g, S, r)) \in Nat
  BY RefsType
<1>8. Refs(y, g, r) = Refs(m, g, r) + Occurrences(r, g[x].items)
  <2> HIDE DEF S
  <2>1. Refs(y, g, r) = Occurrences(r, m.estack) + Cardinality(Having(g, S \union {x}, r))
    BY DEF Refs, S
  <2>2. Refs(m, g, r) = Occurrences(r, m.estack) + Cardinality(Having(g, S, r))
    BY DEF Refs, S
  <2> QED BY <1>3, <1>6, <1>7, <2>1, <2>2
<1> HIDE DEF T
<1> QED BY <1>2, <1>3, <1>4, <1>6, <1>7, <1>8 DEF T, FieldsCounted, RefsMore

\* The same containers are counted.
LEMMA CountedSame ==
  ASSUME NEW m, NEW y, y.estack = m.estack, y.heap = m.heap,
         \A r \in Addresses : y.count[r] > 0 <=> m.count[r] > 0
  PROVE  /\ InCount(y) = InCount(m)
         /\ \A g, r : Refs(y, g, r) = Refs(m, g, r)
BY DEF Refs, InCount

-----------------------------------------------------------------------------
(* One visit                                                               *)

Visits(m) == Sound(m) /\ m.todo \in Seq(Held(m.heap))
SameStore(m, y) == y.heap = m.heap /\ y.estack = m.estack /\ y.endless = m.endless

AddLeft(m) == Len(m.todo) + Cardinality(Fields(m.heap, Addresses \ InCount(m)))
RemoveLeft(m) == Len(m.todo) + Cardinality(Fields(m.heap, InCount(m)))

\* What is yet to be added is missing from the accounts.
SameAdded(m, y) ==
  /\ \A r \in Addresses :
       Spare(y, m.heap, r) + Occurrences(r, y.todo) = Spare(m, m.heap, r) + Occurrences(r, m.todo)
  /\ SpareSize(y, m.heap) + Len(y.todo) = SpareSize(m, m.heap) + Len(m.todo)

\* What is yet to be removed is too much in the accounts.
SameRemoved(m, y, g) ==
  /\ \A r \in Addresses :
       Spare(y, g, r) - Occurrences(r, y.todo) = Spare(m, g, r) - Occurrences(r, m.todo)
  /\ SpareSize(y, g) - Len(y.todo) = SpareSize(m, g) - Len(m.todo)

LEMMA HeldAre ==
  ASSUME NEW h, NEW x \in Held(h), x # Primitive
  PROVE  x \in Addresses
BY DEF Held

\* One more reference to a container, to one counted or to one that is not.
LEMMA AddStep ==
  ASSUME NEW m, Visits(m), m.todo # <<>>
  PROVE  LET y == Adding(m)
         IN /\ Visits(y) /\ SameStore(m, y) /\ SameAdded(m, y)
            /\ AddLeft(y) = AddLeft(m) - 1 /\ AddLeft(m) \in Nat
<1> DEFINE y == Adding(m)
           x == Head(m.todo)
           rest == Tail(m.todo)
           h == m.heap
           H == Held(h)
<1>1. /\ Whole(m) /\ Sized(h) /\ m.todo \in Seq(H) /\ m.estack \in Seq(H)
      /\ m.count \in [Addresses -> Nat] /\ m.size \in Int /\ m.endless \in BOOLEAN
      /\ \A r \in Addresses : h[r].items \in Seq(H) /\ (m.count[r] > 0 => r \in H)
  BY DEF Visits, Sound, GoodHeap
<1>2. /\ x \in H /\ rest \in Seq(H) /\ Len(m.todo) = Len(rest) + 1 /\ Len(rest) \in Nat
      /\ \A r : Occurrences(r, m.todo) = One(r, x) + Occurrences(r, rest)
  <2> HIDE DEF H
  <2> QED BY <1>1, OccurrencesFirst
<1>3. /\ Whole(y) /\ SameStore(m, y) /\ y.size = m.size + 1
      /\ x = Primitive => y.count = m.count /\ y.todo = rest
      /\ x # Primitive /\ m.count[x] > 0 =>
           y.count = [m.count EXCEPT ![x] = @ + 1] /\ y.todo = rest
      /\ x # Primitive /\ ~(m.count[x] > 0) =>
           y.count = [m.count EXCEPT ![x] = 1] /\ y.todo = h[x].items \o rest
  BY <1>1, AddingIs DEF SameStore
<1>4. x # Primitive => x \in Addresses
  BY <1>2, HeldAre
<1> DEFINE left(z) == Cardinality(Fields(h, Addresses \ InCount(z)))
           fields(z) == Cardinality(Fields(h, InCount(z)))
<1>5. left(m) \in Nat /\ left(y) \in Nat /\ fields(m) \in Nat /\ fields(y) \in Nat
  <2>1. /\ Addresses \ InCount(m) \subseteq Addresses /\ Addresses \ InCount(y) \subseteq Addresses
        /\ InCount(m) \subseteq Addresses /\ InCount(y) \subseteq Addresses
    BY DEF InCount
  <2> QED BY <2>1, FieldsFinite
<1>6. Len(m.estack) \in Nat /\ \A r : Refs(m, h, r) \in Nat /\ Occurrences(r, rest) \in Nat
  BY <1>1, <1>2, RefsType, OccurrencesType
<1>7. \A r \in Addresses : /\ y.count[r] = m.count[r] + One(r, x) /\ One(r, x) \in Nat
                           /\ m.count[r] \in Nat /\ y.count[r] \in Nat
  <2>1. CASE x = Primitive
    <3>1. \A r \in Addresses : One(r, x) = 0
      BY <2>1, AddressesAssumption DEF One
    <3> QED BY <1>1, <1>3, <2>1, <3>1
  <2>2. CASE x # Primitive /\ m.count[x] > 0
    <3>1. y.count = [m.count EXCEPT ![x] = @ + 1]
      BY <1>3, <2>2
    <3> HIDE DEF y, x
    <3> QED BY <1>1, <3>1 DEF One
  <2>3. CASE x # Primitive /\ ~(m.count[x] > 0)
    <3>1. y.count = [m.count EXCEPT ![x] = 1] /\ x \in Addresses
      BY <1>3, <1>4, <2>3
    <3> HIDE DEF y, x
    <3> QED BY <1>1, <2>3, <3>1 DEF One
  <2> QED BY <2>1, <2>2, <2>3
<1>8. \A r \in Addresses : y.count[r] > 0 => r \in H
  <2> HIDE DEF y, x, H
  <2> QED BY <1>1, <1>2, <1>7 DEF One
<1>9. y.count \in [Addresses -> Nat]
  <2>1. CASE x = Primitive
    BY <1>1, <1>3, <2>1
  <2>2. CASE x # Primitive /\ m.count[x] > 0
    <3>1. y.count = [m.count EXCEPT ![x] = @ + 1] /\ x \in Addresses
      BY <1>3, <1>4, <2>2
    <3> HIDE DEF y, x
    <3> QED BY <1>1, <3>1
  <2>3. CASE x # Primitive /\ ~(m.count[x] > 0)
    <3>1. y.count = [m.count EXCEPT ![x] = 1] /\ x \in Addresses
      BY <1>3, <1>4, <2>3
    <3> HIDE DEF y, x
    <3> QED BY <1>1, <3>1
  <2> QED BY <2>1, <2>2, <2>3
<1> DEFINE new == x # Primitive /\ ~(m.count[x] > 0)
           E(r) == IF new THEN Occurrences(r, h[x].items) ELSE 0
           e == IF new THEN Len(h[x].items) ELSE 0
<1>10. /\ \A r : E(r) \in Nat /\ Refs(y, h, r) = Refs(m, h, r) + E(r)
       /\ \A r : Occurrences(r, y.todo) = E(r) + Occurrences(r, rest)
       /\ e \in Nat /\ fields(y) = fields(m) + e /\ left(m) = left(y) + e
       /\ y.todo \in Seq(H) /\ Len(y.todo) = e + Len(rest)
  <2> HIDE DEF y, x, rest, h, H
  <2>0. y.heap = m.heap /\ y.estack = m.estack /\ m.estack \in Seq(Held(m.heap))
    BY <1>1, <1>3 DEF SameStore, h, H
  <2>1. CASE ~new
    <3>1. y.todo = rest
      BY <1>3, <2>1
    <3>2. \A r \in Addresses : y.count[r] > 0 <=> m.count[r] > 0
      BY <1>7, <2>1, AddressesAssumption DEF One
    <3>3. InCount(y) = InCount(m) /\ \A r : Refs(y, h, r) = Refs(m, h, r)
      BY <2>0, <3>2, CountedSame
    <3> QED BY <1>2, <1>5, <1>6, <2>1, <3>1, <3>3
  <2>2. CASE new
    <3>1. y.todo = h[x].items \o rest /\ x \in Addresses /\ h[x].items \in Seq(H)
      BY <1>1, <1>3, <1>4, <2>2
    <3>2. x \notin InCount(m) /\ InCount(y) = InCount(m) \union {x}
      BY <1>7, <2>2, <3>1 DEF InCount, One
    <3>3. Joins(m, y, h, x)
      BY <1>1, <2>0, <3>1, <3>2 DEF Joins
    <3>4. \A r : RefsMore(m, y, h, x, r)
      BY <3>3, CountedMore
    <3>5. FieldsCounted(m, y, h, x)
      BY <3>3, CountedMore
    <3>8. /\ fields(y) = fields(m) + Len(h[x].items)
          /\ left(m) = left(y) + Len(h[x].items)
      BY <3>5 DEF FieldsCounted
    <3>6. \A r : Occurrences(r, h[x].items \o rest)
                   = Occurrences(r, h[x].items) + Occurrences(r, rest)
      BY <1>2, <3>1, OccurrencesBoth
    <3>7. /\ Len(h[x].items \o rest) = Len(h[x].items) + Len(rest) /\ Len(h[x].items) \in Nat
          /\ h[x].items \o rest \in Seq(H)
      BY <1>2, <3>1, ConcatProperties
    <3> HIDE DEF left, fields
    <3> QED BY <2>2, <3>1, <3>4, <3>6, <3>7, <3>8 DEF RefsMore
  <2> QED BY <2>1, <2>2
<1> HIDE DEF new, E, e
<1>11. Visits(y)
  BY <1>1, <1>3, <1>8, <1>9, <1>10 DEF Visits, Sound, GoodHeap, SameStore
<1>12. SameAdded(m, y)
  <2> HIDE DEF y, x, rest, H, fields, left
  <2>1. ASSUME NEW r \in Addresses
        PROVE  Spare(y, h, r) + Occurrences(r, y.todo) = Spare(m, h, r) + Occurrences(r, m.todo)
    <3> HIDE DEF h
    <3>1. /\ y.count[r] = m.count[r] + One(r, x) /\ One(r, x) \in Nat /\ m.count[r] \in Nat
          /\ Refs(y, h, r) = Refs(m, h, r) + E(r) /\ E(r) \in Nat /\ Refs(m, h, r) \in Nat
          /\ Occurrences(r, y.todo) = E(r) + Occurrences(r, rest)
          /\ Occurrences(r, m.todo) = One(r, x) + Occurrences(r, rest)
          /\ Occurrences(r, rest) \in Nat
      BY <1>2, <1>6, <1>7, <1>10
    <3> QED BY <3>1 DEF Spare
  <2>2. SpareSize(y, h) + Len(y.todo) = SpareSize(m, h) + Len(m.todo)
    <3>1. /\ SpareSize(y, h) = y.size - (Len(y.estack) + fields(y))
          /\ SpareSize(m, h) = m.size - (Len(m.estack) + fields(m))
      BY DEF SpareSize, fields
    <3>2. /\ y.size = m.size + 1 /\ m.size \in Int /\ Len(y.estack) = Len(m.estack)
          /\ Len(m.estack) \in Nat /\ fields(y) = fields(m) + e /\ fields(m) \in Nat /\ e \in Nat
          /\ Len(y.todo) = e + Len(rest) /\ Len(m.todo) = Len(rest) + 1 /\ Len(rest) \in Nat
      BY <1>1, <1>2, <1>3, <1>5, <1>6, <1>10 DEF SameStore
    <3> DEFINE s == m.size
               l == Len(m.estack)
               f == fields(m)
               k == Len(rest)
    <3>3. s \in Int /\ l \in Nat /\ f \in Nat /\ k \in Nat /\ e \in Nat
      BY <3>2
    <3>4. /\ SpareSize(y, h) = (s + 1) - (l + (f + e)) /\ SpareSize(m, h) = s - (l + f)
          /\ Len(y.todo) = e + k /\ Len(m.todo) = k + 1
      BY <3>1, <3>2
    <3> HIDE DEF s, l, f, k, h
    <3> QED BY <3>3, <3>4
  <2> QED BY <2>1, <2>2 DEF SameAdded
<1>13. AddLeft(y) = AddLeft(m) - 1 /\ AddLeft(m) \in Nat
  <2>1. AddLeft(y) = Len(y.todo) + left(y) /\ AddLeft(m) = Len(m.todo) + left(m)
    BY <1>3 DEF AddLeft, SameStore
  <2> HIDE DEF y, x, rest, h, H, fields, left
  <2> QED BY <1>2, <1>5, <1>10, <2>1
<1> QED BY <1>3, <1>11, <1>12, <1>13

\* What the stack leads to is counted, and there is a reference to it.
Covers(m, g) == \A r \in Addresses : Spare(m, g, r) >= Occurrences(r, m.todo)
Settled(m, g) == \A r \in Addresses : Spare(m, g, r) >= 0
Agrees(m, g) == Sized(g) /\ \A r \in Addresses : g[r] = m.heap[r] \/ r \in Reachable(g, m.estack)

LEMMA Rooted ==
  ASSUME NEW m, Sound(m), NEW g, Sized(g), Settled(m, g), NEW r \in Reachable(g, m.estack)
  PROVE  Refs(m, g, r) > 0 /\ m.count[r] > 0 /\ r \in InCount(m)
<1> DEFINE T == {x \in InCount(m) : Refs(m, g, x) > 0}
           S == ToSet(m.estack) \ {Primitive}
<1>1. m.estack \in Seq(Held(m.heap)) /\ m.count \in [Addresses -> Nat]
  BY DEF Sound
<1>2. ASSUME NEW x \in Addresses, Refs(m, g, x) > 0 PROVE x \in T
  <2>1. Refs(m, g, x) \in Nat /\ m.count[x] \in Nat
    BY <1>1, RefsType
  <2>2. m.count[x] - Refs(m, g, x) >= 0
    BY DEF Settled, Spare
  <2>3. m.count[x] > 0
    <3> HIDE DEF T
    <3> QED BY <1>2, <2>1, <2>2
  <2> QED BY <1>2, <2>3 DEF InCount
<1>3. T \subseteq Addresses /\ T \subseteq InCount(m)
  BY DEF InCount
<1>4. S \subseteq T
  <2>1. ASSUME NEW x \in S PROVE x \in T
    <3>1. Occurrences(x, m.estack) > 0
      BY <1>1, OccurrencesMany
    <3>2. x \in Addresses
      <4>1. x \in Held(m.heap)
        BY <1>1 DEF ToSet
      <4> QED BY <4>1, HeldAre
    <3>3. /\ Occurrences(x, m.estack) \in Nat /\ Cardinality(Having(g, InCount(m), x)) \in Nat
          /\ Refs(m, g, x) \in Nat
      BY <1>1, RefsType
    <3>4. Refs(m, g, x) > 0
      <4> HIDE DEF T, S
      <4> QED BY <3>1, <3>3 DEF Refs
    <3> QED BY <1>2, <3>2, <3>4
  <2> QED BY <2>1
<1>5. Contents(g, T) \subseteq T
  <2>1. ASSUME NEW x \in Contents(g, T) PROVE x \in T
    <3>1. x # Primitive /\ \E q \in T : x \in ToSet(g[q].items)
      BY InContents
    <3>2. x \in Contents(g, InCount(m))
      BY <1>3, <3>1, InContents
    <3>3. InCount(m) \subseteq Addresses
      BY DEF InCount
    <3>4. x \in Addresses /\ Cardinality(Having(g, InCount(m), x)) > 0
      BY <3>2, <3>3, ContentsHaving
    <3>5. /\ Occurrences(x, m.estack) \in Nat /\ Cardinality(Having(g, InCount(m), x)) \in Nat
          /\ Refs(m, g, x) \in Nat
      BY <1>1, RefsType
    <3>6. Refs(m, g, x) > 0
      <4> HIDE DEF T, S
      <4> QED BY <3>4, <3>5 DEF Refs
    <3> QED BY <1>2, <3>4, <3>6
  <2> QED BY <2>1
<1>6. Closes(g, S, T)
  BY <1>3, <1>4, <1>5 DEF Closes
<1>7. Reachable(g, m.estack) \subseteq T
  <2> HIDE DEF T
  <2> QED BY <1>6, ClosureLeast DEF Reachable
<1> QED BY <1>7 DEF InCount

LEMMA RemoveSound ==
  ASSUME NEW m, Visits(m), m.todo # <<>>
  PROVE  Visits(Removing(m)) /\ SameStore(m, Removing(m))
<1> DEFINE y == Removing(m)
           x == Head(m.todo)
           rest == Tail(m.todo)
           h == m.heap
           H == Held(h)
<1>1. /\ Whole(m) /\ Sized(h) /\ m.todo \in Seq(H) /\ m.estack \in Seq(H)
      /\ m.count \in [Addresses -> Nat] /\ m.size \in Int /\ m.endless \in BOOLEAN
      /\ \A r \in Addresses : h[r].items \in Seq(H) /\ (m.count[r] > 0 => r \in H)
  BY DEF Visits, Sound, GoodHeap
<1>2. x \in H /\ rest \in Seq(H)
  <2> HIDE DEF H
  <2> QED BY <1>1, OccurrencesFirst
<1>3. /\ Whole(y) /\ SameStore(m, y) /\ y.size = m.size - 1
      /\ x = Primitive => y.count = m.count /\ y.todo = rest
      /\ x # Primitive /\ m.count[x] > 1 =>
           y.count = [m.count EXCEPT ![x] = @ - 1] /\ y.todo = rest
      /\ x # Primitive /\ ~(m.count[x] > 1) =>
           y.count = [m.count EXCEPT ![x] = 0] /\ y.todo = h[x].items \o rest
  BY <1>1, RemovingIs DEF SameStore
<1>4. x # Primitive => x \in Addresses
  BY <1>2, HeldAre
<1>5. /\ y.count \in [Addresses -> Nat] /\ y.todo \in Seq(H)
      /\ \A r \in Addresses : y.count[r] > 0 => m.count[r] > 0
  <2>1. CASE x = Primitive
    BY <1>1, <1>2, <1>3, <2>1
  <2>2. CASE x # Primitive /\ m.count[x] > 1
    <3>1. y.count = [m.count EXCEPT ![x] = @ - 1] /\ x \in Addresses /\ y.todo = rest
      BY <1>3, <1>4, <2>2
    <3> HIDE DEF y, x, H, rest
    <3> QED BY <1>1, <1>2, <2>2, <3>1
  <2>3. CASE x # Primitive /\ ~(m.count[x] > 1)
    <3>1. y.count = [m.count EXCEPT ![x] = 0] /\ x \in Addresses /\ y.todo = h[x].items \o rest
      BY <1>3, <1>4, <2>3
    <3>2. h[x].items \o rest \in Seq(H)
      <4> HIDE DEF H
      <4> QED BY <1>1, <1>2, <3>1, ConcatProperties
    <3> HIDE DEF y, x, H, rest
    <3> QED BY <1>1, <3>1, <3>2
  <2> QED BY <2>1, <2>2, <2>3
<1>6. \A r \in Addresses : y.count[r] > 0 => r \in H
  BY <1>1, <1>5
<1> QED BY <1>1, <1>3, <1>5, <1>6 DEF Visits, Sound, GoodHeap, SameStore

\* One reference less: the contents of a container go with the last one.
LEMMA RemoveStep ==
  ASSUME NEW m, Visits(m), m.todo # <<>>, NEW g, Agrees(m, g), Covers(m, g)
  PROVE  LET y == Removing(m)
         IN SameRemoved(m, y, g) /\ RemoveLeft(y) = RemoveLeft(m) - 1 /\ RemoveLeft(m) \in Nat
<1> DEFINE y == Removing(m)
           x == Head(m.todo)
           rest == Tail(m.todo)
           h == m.heap
           H == Held(h)
<1>1. /\ Sound(m) /\ Whole(m) /\ Sized(h) /\ m.todo \in Seq(H) /\ m.estack \in Seq(H)
      /\ m.count \in [Addresses -> Nat] /\ m.size \in Int
      /\ \A r \in Addresses : h[r].items \in Seq(H)
  BY DEF Visits, Sound, GoodHeap
<1>2. /\ x \in H /\ rest \in Seq(H) /\ Len(m.todo) = Len(rest) + 1 /\ Len(rest) \in Nat
      /\ \A r : Occurrences(r, m.todo) = One(r, x) + Occurrences(r, rest)
  <2> HIDE DEF H
  <2> QED BY <1>1, OccurrencesFirst
<1>3. /\ Whole(y) /\ SameStore(m, y) /\ y.size = m.size - 1
      /\ x = Primitive => y.count = m.count /\ y.todo = rest
      /\ x # Primitive /\ m.count[x] > 1 =>
           y.count = [m.count EXCEPT ![x] = @ - 1] /\ y.todo = rest
      /\ x # Primitive /\ ~(m.count[x] > 1) =>
           y.count = [m.count EXCEPT ![x] = 0] /\ y.todo = h[x].items \o rest
  BY <1>1, RemovingIs DEF SameStore
<1>4. x # Primitive => x \in Addresses
  BY <1>2, HeldAre
<1> DEFINE fields(z, q) == Cardinality(Fields(q, InCount(z)))
<1>5. fields(m, h) \in Nat /\ fields(y, h) \in Nat /\ fields(m, g) \in Nat /\ fields(y, g) \in Nat
  <2>1. InCount(m) \subseteq Addresses /\ InCount(y) \subseteq Addresses
    BY DEF InCount
  <2> QED BY <2>1, FieldsFinite
<1>6. Len(m.estack) \in Nat /\ \A r : Refs(m, g, r) \in Nat /\ Occurrences(r, rest) \in Nat
  BY <1>1, <1>2, RefsType, OccurrencesType
<1>7. Sized(g) /\ Settled(m, g)
  <2>1. \A r \in Addresses : Occurrences(r, m.todo) \in Nat /\ Spare(m, g, r) \in Int
    BY <1>1, <1>6, OccurrencesType DEF Spare
  <2> QED BY <2>1 DEF Covers, Agrees, Settled
<1> DEFINE old == x # Primitive /\ ~(m.count[x] > 1)
\* The last reference is the one that goes.
<1>8. ASSUME old PROVE m.count[x] = 1 /\ x \in Addresses /\ g[x] = h[x]
  <2>1. x \in Addresses /\ m.count[x] \in Nat
    BY <1>1, <1>4, <1>8
  <2>2. Occurrences(x, m.todo) = 1 + Occurrences(x, rest)
    BY <1>2 DEF One
  <2>3. Refs(m, g, x) \in Nat /\ Occurrences(x, rest) \in Nat
    BY <1>6
  <2>4. m.count[x] - Refs(m, g, x) >= Occurrences(x, m.todo)
    BY <2>1 DEF Covers, Spare
  <2>5. m.count[x] = 1 /\ ~(Refs(m, g, x) > 0)
    <3> HIDE DEF x, rest
    <3> QED BY <1>8, <2>1, <2>2, <2>3, <2>4
  <2>6. x \notin Reachable(g, m.estack)
    BY <1>1, <1>7, <2>5, Rooted
  <2> QED BY <2>1, <2>5, <2>6 DEF Agrees
<1>9. \A r \in Addresses : /\ m.count[r] = y.count[r] + One(r, x) /\ One(r, x) \in Nat
                           /\ m.count[r] \in Nat /\ y.count[r] \in Nat
  <2>1. CASE x = Primitive
    <3>1. \A r \in Addresses : One(r, x) = 0
      BY <2>1, AddressesAssumption DEF One
    <3> QED BY <1>1, <1>3, <2>1, <3>1
  <2>2. CASE x # Primitive /\ m.count[x] > 1
    <3>1. y.count = [m.count EXCEPT ![x] = @ - 1] /\ x \in Addresses
      BY <1>3, <1>4, <2>2
    <3> HIDE DEF y, x
    <3>2. m.count[x] \in Nat /\ y.count[x] = m.count[x] - 1
      BY <1>1, <3>1
    <3>3. \A r \in Addresses \ {x} : y.count[r] = m.count[r] /\ m.count[r] \in Nat
      BY <1>1, <3>1
    <3>4. /\ m.count[x] = y.count[x] + One(x, x) /\ One(x, x) \in Nat
          /\ m.count[x] \in Nat /\ y.count[x] \in Nat
      BY <2>2, <3>2 DEF One
    <3>5. \A r \in Addresses \ {x} : One(r, x) = 0
      BY DEF One
    <3> QED BY <3>3, <3>4, <3>5
  <2>3. CASE old
    <3>1. y.count = [m.count EXCEPT ![x] = 0] /\ m.count[x] = 1
      BY <1>3, <1>8, <2>3
    <3> HIDE DEF y, x
    <3> QED BY <1>1, <3>1 DEF One
  <2> QED BY <2>1, <2>2, <2>3
<1> DEFINE E(r) == IF old THEN Occurrences(r, h[x].items) ELSE 0
           e == IF old THEN Len(h[x].items) ELSE 0
<1>10. /\ \A r : E(r) \in Nat /\ Refs(y, g, r) \in Nat /\ Refs(m, g, r) = Refs(y, g, r) + E(r)
       /\ \A r : Occurrences(r, y.todo) = E(r) + Occurrences(r, rest)
       /\ e \in Nat /\ fields(m, g) = fields(y, g) + e /\ fields(m, h) = fields(y, h) + e
       /\ Len(y.todo) = e + Len(rest)
  <2> HIDE DEF y, x, rest, h, H
  <2>0. /\ y.heap = m.heap /\ y.estack = m.estack /\ y.estack \in Seq(Held(y.heap))
    BY <1>1, <1>3 DEF SameStore, h, H
  <2>1. CASE ~old
    <3>1. y.todo = rest
      BY <1>3, <2>1
    <3>2. \A r \in Addresses : y.count[r] > 0 <=> m.count[r] > 0
      BY <1>9, <2>1, AddressesAssumption DEF One
    <3>3. InCount(y) = InCount(m) /\ \A r : Refs(y, g, r) = Refs(m, g, r)
      BY <2>0, <3>2, CountedSame
    <3> QED BY <1>2, <1>5, <1>6, <2>1, <3>1, <3>3
  <2>2. CASE old
    <3>1. /\ y.todo = h[x].items \o rest /\ x \in Addresses /\ h[x].items \in Seq(H)
          /\ g[x] = h[x]
      BY <1>1, <1>3, <1>8, <2>2
    <3>2. x \notin InCount(y) /\ InCount(m) = InCount(y) \union {x}
      <4>1. y.count[x] = 0 /\ m.count[x] > 0
        BY <1>8, <1>9, <2>2 DEF One
      <4>2. \A r \in Addresses \ {x} : y.count[r] = m.count[r]
        BY <1>9 DEF One
      <4> QED BY <3>1, <4>1, <4>2 DEF InCount
    <3>3. Joins(y, m, g, x) /\ Joins(y, m, h, x)
      BY <1>1, <1>7, <2>0, <3>1, <3>2 DEF Joins
    <3>4. \A r : RefsMore(y, m, g, x, r)
      BY <3>3, CountedMore
    <3>5. FieldsCounted(y, m, g, x) /\ FieldsCounted(y, m, h, x)
      BY <3>3, CountedMore
    <3>6. \A r : Occurrences(r, h[x].items \o rest)
                   = Occurrences(r, h[x].items) + Occurrences(r, rest)
      BY <1>2, <3>1, OccurrencesBoth
    <3>7. Len(h[x].items \o rest) = Len(h[x].items) + Len(rest) /\ Len(h[x].items) \in Nat
      BY <1>2, <3>1, ConcatProperties
    <3>8. /\ fields(m, g) = fields(y, g) + Len(h[x].items)
          /\ fields(m, h) = fields(y, h) + Len(h[x].items)
      BY <3>1, <3>5 DEF FieldsCounted
    <3> HIDE DEF fields
    <3> QED BY <2>2, <3>1, <3>4, <3>6, <3>7, <3>8 DEF RefsMore
  <2> QED BY <2>1, <2>2
<1> HIDE DEF old, E, e
<1>11. SameRemoved(m, y, g)
  <2> HIDE DEF y, x, rest, h, H, fields
  <2>1. ASSUME NEW r \in Addresses
        PROVE  Spare(y, g, r) - Occurrences(r, y.todo) = Spare(m, g, r) - Occurrences(r, m.todo)
    <3>1. /\ m.count[r] = y.count[r] + One(r, x) /\ One(r, x) \in Nat /\ y.count[r] \in Nat
          /\ Refs(m, g, r) = Refs(y, g, r) + E(r) /\ E(r) \in Nat /\ Refs(y, g, r) \in Nat
          /\ Occurrences(r, y.todo) = E(r) + Occurrences(r, rest)
          /\ Occurrences(r, m.todo) = One(r, x) + Occurrences(r, rest)
          /\ Occurrences(r, rest) \in Nat
      BY <1>2, <1>6, <1>9, <1>10
    <3> QED BY <3>1 DEF Spare
  <2>2. SpareSize(y, g) - Len(y.todo) = SpareSize(m, g) - Len(m.todo)
    <3>1. /\ SpareSize(y, g) = y.size - (Len(y.estack) + fields(y, g))
          /\ SpareSize(m, g) = m.size - (Len(m.estack) + fields(m, g))
      BY DEF SpareSize, fields
    <3>2. /\ y.size = m.size - 1 /\ m.size \in Int /\ Len(y.estack) = Len(m.estack)
          /\ Len(m.estack) \in Nat /\ fields(m, g) = fields(y, g) + e /\ fields(y, g) \in Nat
          /\ e \in Nat
          /\ Len(y.todo) = e + Len(rest) /\ Len(m.todo) = Len(rest) + 1 /\ Len(rest) \in Nat
      BY <1>1, <1>2, <1>3, <1>5, <1>6, <1>10 DEF SameStore
    <3> DEFINE s == m.size
               l == Len(m.estack)
               f == fields(y, g)
               k == Len(rest)
    <3>3. s \in Int /\ l \in Nat /\ f \in Nat /\ k \in Nat /\ e \in Nat
      BY <3>2
    <3>4. /\ SpareSize(y, g) = (s - 1) - (l + f) /\ SpareSize(m, g) = s - (l + (f + e))
          /\ Len(y.todo) = e + k /\ Len(m.todo) = k + 1
      BY <3>1, <3>2
    <3> HIDE DEF s, l, f, k
    <3> QED BY <3>3, <3>4
  <2> QED BY <2>1, <2>2 DEF SameRemoved
<1>12. RemoveLeft(y) = RemoveLeft(m) - 1 /\ RemoveLeft(m) \in Nat
  <2>1. RemoveLeft(y) = Len(y.todo) + fields(y, h) /\ RemoveLeft(m) = Len(m.todo) + fields(m, h)
    BY <1>3 DEF RemoveLeft, SameStore
  <2> HIDE DEF y, x, rest, h, H, fields
  <2> QED BY <1>2, <1>5, <1>10, <2>1
<1> QED BY <1>11, <1>12

-----------------------------------------------------------------------------
(* Whole traversals                                                        *)

LEMMA EnoughVisits ==
  ASSUME NEW h, NEW S, S \subseteq Addresses, NEW n \in Nat, n <= MaxHeight + MaxArraySize
  PROVE  n + Cardinality(Fields(h, S)) < MaxVisits
<1> DEFINE most == Cardinality(Addresses) * MaxArraySize
           k == Cardinality(Fields(h, S))
<1>1. MaxHeight \in Nat /\ MaxArraySize \in Nat /\ MaxVisits \in Nat
  BY BoundsAssumption
<1>2. MaxVisits > MaxHeight + MaxArraySize + most
  BY Zenon, BoundsAssumption
<1>3. k \in Nat /\ k <= most
  BY FieldsFinite
<1>4. most \in Nat
  <2>1. Cardinality(Addresses) \in Nat
    BY AddressesAssumption, FS_CardinalityType
  <2> DEFINE c == Cardinality(Addresses)
  <2> HIDE DEF c
  <2>2. c * MaxArraySize \in Nat
    BY <1>1, <2>1 DEF c
  <2> QED BY <2>2 DEF c
<1> HIDE DEF most, k
<1>5. n + k < MaxVisits
  BY <1>1, <1>2, <1>3, <1>4
<1> QED BY <1>5 DEF k

LEMMA EndedIs ==
  ASSUME NEW m, Whole(m)
  PROVE  LET y == Ended(m)
         IN /\ Whole(y) /\ y.heap = m.heap /\ y.estack = m.estack /\ y.count = m.count
            /\ y.size = m.size /\ y.todo = <<>> /\ y.endless = (m.endless \/ m.todo # <<>>)
<1> DEFINE d == m.endless \/ m.todo # <<>>
           x == WithEndless(m, d)
           y == WithTodo(x, <<>>)
<1>1. /\ Whole(x) /\ x.heap = m.heap /\ x.estack = m.estack /\ x.count = m.count
      /\ x.size = m.size /\ x.endless = d
  <2> HIDE DEF d
  <2> QED BY WithIs
<1>2. Ended(m) = y
  BY DEF Ended, WithEndless, WithTodo
<1> HIDE DEF x
<1>3. /\ Whole(y) /\ y.heap = x.heap /\ y.estack = x.estack /\ y.count = x.count
      /\ y.size = x.size /\ y.todo = <<>> /\ y.endless = x.endless
  BY <1>1, WithIs
<1> HIDE DEF y
<1> QED BY <1>1, <1>2, <1>3

AddedAre(m, y, items) ==
  /\ \A r \in Addresses : Spare(y, m.heap, r) = Spare(m, m.heap, r) + Occurrences(r, items)
  /\ SpareSize(y, m.heap) = SpareSize(m, m.heap) + Len(items)

\* Adding items ends, and brings the accounts to where they were with the items
\* among the references.
LEMMA AddedIs ==
  ASSUME NEW m, Sound(m), NEW items \in Seq(Held(m.heap)), Len(items) <= MaxHeight + MaxArraySize
  PROVE  LET y == Added(m, items)
         IN Sound(y) /\ SameStore(m, y) /\ y.todo = <<>> /\ AddedAre(m, y, items)
<1> DEFINE h == m.heap
           x == WithTodo(m, items)
<1>1. PICK f : Traversal(f, "add", m, items)
  BY VisitedIs
<1> USE <1>1 DEF Traversal
<1>2. /\ Whole(x) /\ x.heap = h /\ x.estack = m.estack /\ x.count = m.count /\ x.size = m.size
      /\ x.todo = items /\ x.endless = m.endless
  BY WithIs DEF Sound
<1>3. f[0] = x
  BY <1>1 DEF WithTodo
<1> HIDE DEF x
<1>4. Visits(x) /\ SameStore(m, x)
  BY <1>2 DEF Visits, Sound, SameStore
<1> DEFINE T == {n \in 0..MaxVisits : /\ Visits(f[n]) /\ SameStore(m, f[n]) /\ SameAdded(x, f[n])
                                      /\ f[n].todo = <<>> \/ AddLeft(f[n]) = AddLeft(x) - n}
<1>5. MaxVisits \in Nat
  BY VisitsNat
<1>6. AddLeft(x) \in Nat /\ AddLeft(x) < MaxVisits
  <2>1. Addresses \ InCount(x) \subseteq Addresses /\ Len(items) \in Nat
    BY OccurrencesType
  <2>2. Len(items) + Cardinality(Fields(h, Addresses \ InCount(x))) < MaxVisits
    BY <2>1, EnoughVisits
  <2>3. Cardinality(Fields(h, Addresses \ InCount(x))) \in Nat
    BY <2>1, FieldsFinite
  <2> QED BY <1>2, <2>1, <2>2, <2>3 DEF AddLeft
<1>7. 0 \in T
  BY <1>3, <1>4, <1>5, <1>6 DEF SameAdded
<1>8. ASSUME NEW n \in 1..MaxVisits, n - 1 \in T PROVE n \in T
  <2> DEFINE a == f[n - 1]
             b == f[n]
  <2>1. /\ Visits(a) /\ SameStore(m, a) /\ SameAdded(x, a)
        /\ a.todo = <<>> \/ AddLeft(a) = AddLeft(x) - (n - 1)
    BY <1>8
  <2>2. b = Visiting("add", a)
    BY <1>1
  <2> HIDE DEF a, b
  <2>3. CASE a.todo = <<>>
    <3>1. b = a
      BY <2>2, <2>3 DEF Visiting
    <3> QED BY <1>5, <2>1, <2>3, <3>1 DEF b
  <2>4. CASE a.todo # <<>>
    <3>1. b = Adding(a)
      BY <2>2, <2>4 DEF Visiting
    <3>2. /\ Visits(b) /\ SameStore(a, b) /\ SameAdded(a, b)
          /\ AddLeft(b) = AddLeft(a) - 1 /\ AddLeft(a) \in Nat
      BY <2>1, <2>4, <3>1, AddStep
    <3>3. SameStore(m, b) /\ SameAdded(x, b)
      BY <1>2, <2>1, <3>2 DEF SameStore, SameAdded
    <3>4. AddLeft(b) = AddLeft(x) - n
      BY <1>5, <1>6, <2>1, <2>4, <3>2
    <3> QED BY <1>5, <3>2, <3>3, <3>4 DEF b
  <2> QED BY <2>3, <2>4
<1>9. \A n \in 0..MaxVisits : n \in T
  <2> HIDE DEF T
  <2> QED BY <1>7, <1>8, EveryVisit
<1> DEFINE z == Visited("add", m, items)
           y == Added(m, items)
<1>10. /\ Visits(z) /\ SameStore(m, z) /\ SameAdded(x, z)
       /\ z.todo = <<>> \/ AddLeft(z) = AddLeft(x) - MaxVisits
  <2>1. MaxVisits \in T
    <3> HIDE DEF T
    <3> QED BY <1>5, <1>9
  <2> QED BY <1>1, <2>1
<1> HIDE DEF z
<1>11. z.todo = <<>>
  <2>1. Len(z.todo) \in Nat
    BY <1>10, OccurrencesType DEF Visits
  <2>2. Addresses \ InCount(z) \subseteq Addresses
    OBVIOUS
  <2>3. Cardinality(Fields(z.heap, Addresses \ InCount(z))) \in Nat
    BY <2>2, FieldsFinite
  <2>4. AddLeft(z) \in Nat
    BY <2>1, <2>3 DEF AddLeft
  <2> QED BY <1>5, <1>6, <1>10, <2>4
<1>12. /\ Whole(y) /\ y.heap = z.heap /\ y.estack = z.estack /\ y.count = z.count
       /\ y.size = z.size /\ y.todo = <<>> /\ y.endless = (z.endless \/ z.todo # <<>>)
  BY <1>10, EndedIs DEF Added, Visits, Sound, z
<1>13. SameStore(m, y)
  BY <1>10, <1>11, <1>12 DEF SameStore, Visits, Sound
<1>14. Sound(y)
  BY <1>10, <1>12, <1>13 DEF Sound, Visits, SameStore
<1>15. AddedAre(m, y, items)
  <2>1. \A r : Spare(y, h, r) = Spare(z, h, r) /\ Spare(x, h, r) = Spare(m, h, r)
    BY <1>2, <1>12 DEF Spare, Refs, InCount
  <2>2. SpareSize(y, h) = SpareSize(z, h) /\ SpareSize(x, h) = SpareSize(m, h)
    BY <1>2, <1>12 DEF SpareSize, InCount
  <2>3. Len(z.todo) = 0 /\ \A r : Occurrences(r, z.todo) = 0
    BY <1>11, OccurrencesOne
  <2>4. /\ \A r \in Addresses : Spare(z, h, r) + 0 = Spare(x, h, r) + Occurrences(r, items)
        /\ SpareSize(z, h) + 0 = SpareSize(x, h) + Len(items)
    BY <1>2, <1>10, <2>3 DEF SameAdded
  <2>5. \A r \in Addresses : Spare(z, h, r) \in Int
    BY <1>10, SoundIs, RefsType DEF Spare, Visits, Sound
  <2>6. SpareSize(z, h) \in Int
    <3>1. z.estack \in Seq(Held(z.heap)) /\ z.size \in Int
      BY <1>10 DEF Visits, Sound
    <3>2. Len(z.estack) \in Nat
      BY <3>1
    <3>3. InCount(z) \subseteq Addresses
      BY DEF InCount
    <3>4. Cardinality(Fields(h, InCount(z))) \in Nat
      BY <3>3, FieldsFinite
    <3> QED BY <3>1, <3>2, <3>4 DEF SpareSize
  <2> QED BY <2>1, <2>2, <2>4, <2>5, <2>6 DEF AddedAre
<1> QED BY <1>12, <1>13, <1>14, <1>15

\* Removing items leaves nothing that is not sound, whatever the accounts.
LEMMA RemovedSound ==
  ASSUME NEW m, Sound(m), NEW items \in Seq(Held(m.heap))
  PROVE  LET y == Removed(m, items)
         IN Sound(y) /\ y.heap = m.heap /\ y.estack = m.estack /\ y.todo = <<>>
<1> DEFINE x == WithTodo(m, items)
           z == Visited("remove", m, items)
           y == Removed(m, items)
<1>1. PICK f : Traversal(f, "remove", m, items)
  BY VisitedIs
<1> USE <1>1 DEF Traversal
<1>2. /\ Whole(x) /\ x.heap = m.heap /\ x.estack = m.estack /\ x.count = m.count
      /\ x.size = m.size /\ x.todo = items /\ x.endless = m.endless
  BY WithIs DEF Sound
<1>3. f[0] = x
  BY <1>1 DEF WithTodo
<1> HIDE DEF x, z
<1>4. Visits(x) /\ SameStore(m, x)
  BY <1>2 DEF Visits, Sound, SameStore
<1> DEFINE T == {n \in 0..MaxVisits : Visits(f[n]) /\ SameStore(m, f[n])}
<1>5. 0 \in T
  BY <1>3, <1>4, VisitsNat
<1>6. ASSUME NEW n \in 1..MaxVisits, n - 1 \in T PROVE n \in T
  <2> DEFINE a == f[n - 1]
             b == f[n]
  <2>1. Visits(a) /\ SameStore(m, a) /\ b = Visiting("remove", a)
    BY <1>1, <1>6
  <2> HIDE DEF a, b
  <2>2. CASE a.todo = <<>>
    <3>1. b = a
      BY <2>1, <2>2 DEF Visiting
    <3> QED BY <2>1, <3>1, VisitsNat DEF b
  <2>3. CASE a.todo # <<>>
    <3>1. b = Removing(a)
      BY <2>1, <2>3 DEF Visiting
    <3>2. Visits(b) /\ SameStore(a, b)
      BY <2>1, <2>3, <3>1, RemoveSound
    <3>3. SameStore(m, b)
      BY <2>1, <3>2 DEF SameStore
    <3> QED BY <3>2, <3>3, VisitsNat DEF b
  <2> QED BY <2>2, <2>3
<1> HIDE DEF T
<1>7. \A n \in 0..MaxVisits : n \in T
  BY <1>5, <1>6, EveryVisit
<1>8. Visits(z) /\ SameStore(m, z)
  BY <1>1, <1>7, VisitsNat DEF T, z
<1>9. /\ Whole(y) /\ y.heap = z.heap /\ y.estack = z.estack /\ y.count = z.count
      /\ y.size = z.size /\ y.todo = <<>> /\ y.endless = (z.endless \/ z.todo # <<>>)
  BY <1>8, EndedIs DEF Removed, Visits, Sound, z
<1> HIDE DEF y
<1>10. Sound(y)
  BY <1>8, <1>9 DEF Sound, Visits, SameStore
<1> QED BY <1>8, <1>9, <1>10 DEF SameStore, y

RemovedAre(m, y, items, g) ==
  /\ \A r \in Addresses : Spare(y, g, r) = Spare(m, g, r) - Occurrences(r, items)
  /\ SpareSize(y, g) = SpareSize(m, g) - Len(items)
Exceeds(m, g, items) == \A r \in Addresses : Spare(m, g, r) >= Occurrences(r, items)

\* Where the items are accounted for, removing them ends and takes just them
\* from the accounts.
LEMMA RemovedIs ==
  ASSUME NEW m, Sound(m), NEW items \in Seq(Held(m.heap)), Len(items) <= MaxHeight + MaxArraySize,
         NEW g, Agrees(m, g), Exceeds(m, g, items)
  PROVE  LET y == Removed(m, items)
         IN SameStore(m, y) /\ RemovedAre(m, y, items, g)
<1> DEFINE h == m.heap
           x == WithTodo(m, items)
           z == Visited("remove", m, items)
           y == Removed(m, items)
<1>1. PICK f : Traversal(f, "remove", m, items)
  BY VisitedIs
<1> USE <1>1 DEF Traversal
<1>2. /\ Whole(x) /\ x.heap = h /\ x.estack = m.estack /\ x.count = m.count /\ x.size = m.size
      /\ x.todo = items /\ x.endless = m.endless
  BY WithIs DEF Sound
<1>3. f[0] = x
  BY <1>1 DEF WithTodo
<1> HIDE DEF x, z
<1>4. Visits(x) /\ SameStore(m, x)
  BY <1>2 DEF Visits, Sound, SameStore
<1>5. /\ \A r : Spare(x, g, r) = Spare(m, g, r)
      /\ SpareSize(x, g) = SpareSize(m, g)
  BY <1>2 DEF Spare, Refs, InCount, SpareSize
<1> DEFINE T == {n \in 0..MaxVisits : /\ Visits(f[n]) /\ SameStore(m, f[n]) /\ SameRemoved(x, f[n], g)
                                      /\ f[n].todo = <<>> \/ RemoveLeft(f[n]) = RemoveLeft(x) - n}
<1>6. MaxVisits \in Nat
  BY VisitsNat
<1>7. RemoveLeft(x) \in Nat /\ RemoveLeft(x) < MaxVisits
  <2>1. InCount(x) \subseteq Addresses /\ Len(items) \in Nat
    BY OccurrencesType DEF InCount
  <2>2. Len(items) + Cardinality(Fields(h, InCount(x))) < MaxVisits
    BY <2>1, EnoughVisits
  <2>3. Cardinality(Fields(h, InCount(x))) \in Nat
    BY <2>1, FieldsFinite
  <2> QED BY <1>2, <2>1, <2>2, <2>3 DEF RemoveLeft
<1>8. 0 \in T
  BY <1>3, <1>4, <1>6, <1>7 DEF SameRemoved
<1>9. ASSUME NEW a, Visits(a)
      PROVE  /\ \A r \in Addresses : Spare(a, g, r) \in Int /\ Occurrences(r, a.todo) \in Nat
             /\ SpareSize(a, g) \in Int
  <2>1. /\ a.estack \in Seq(Held(a.heap)) /\ a.size \in Int /\ a.todo \in Seq(Held(a.heap))
        /\ a.count \in [Addresses -> Nat]
    BY <1>9 DEF Visits, Sound
  <2>2. Len(a.estack) \in Nat
    BY <2>1
  <2>3. InCount(a) \subseteq Addresses
    BY DEF InCount
  <2>4. Cardinality(Fields(g, InCount(a))) \in Nat
    BY <2>3, FieldsFinite
  <2>5. \A r : Refs(a, g, r) \in Nat /\ Occurrences(r, a.todo) \in Nat
    BY <2>1, RefsType, OccurrencesType
  <2> QED BY <2>1, <2>2, <2>4, <2>5 DEF SpareSize, Spare
<1>10. ASSUME NEW n \in 1..MaxVisits, n - 1 \in T PROVE n \in T
  <2> DEFINE a == f[n - 1]
             b == f[n]
  <2>1. /\ Visits(a) /\ SameStore(m, a) /\ SameRemoved(x, a, g)
        /\ a.todo = <<>> \/ RemoveLeft(a) = RemoveLeft(x) - (n - 1)
    BY <1>10
  <2>2. b = Visiting("remove", a)
    BY <1>1
  <2> HIDE DEF a, b
  <2>3. CASE a.todo = <<>>
    <3>1. b = a
      BY <2>2, <2>3 DEF Visiting
    <3> QED BY <1>6, <2>1, <2>3, <3>1 DEF b
  <2>4. CASE a.todo # <<>>
    <3>1. b = Removing(a)
      BY <2>2, <2>4 DEF Visiting
    <3>2. Covers(a, g)
      <4>1. ASSUME NEW r \in Addresses PROVE Spare(a, g, r) >= Occurrences(r, a.todo)
        <5>1. Spare(x, g, r) >= Occurrences(r, items)
          BY <1>5 DEF Exceeds
        <5>2. Spare(a, g, r) - Occurrences(r, a.todo) = Spare(x, g, r) - Occurrences(r, items)
          BY <1>2, <2>1 DEF SameRemoved
        <5>3. /\ Spare(a, g, r) \in Int /\ Spare(x, g, r) \in Int
              /\ Occurrences(r, a.todo) \in Nat /\ Occurrences(r, items) \in Nat
          BY <1>2, <1>4, <1>9, <2>1
        <5> QED BY <5>1, <5>2, <5>3
      <4> QED BY <4>1 DEF Covers
    <3>3. Agrees(a, g)
      BY <2>1 DEF Agrees, SameStore
    <3>4. Visits(b) /\ SameStore(a, b)
      BY <2>1, <2>4, <3>1, RemoveSound
    <3>5. SameRemoved(a, b, g) /\ RemoveLeft(b) = RemoveLeft(a) - 1 /\ RemoveLeft(a) \in Nat
      BY <2>1, <2>4, <3>1, <3>2, <3>3, RemoveStep
    <3>6. SameStore(m, b) /\ SameRemoved(x, b, g)
      BY <2>1, <3>4, <3>5 DEF SameStore, SameRemoved
    <3>7. RemoveLeft(b) = RemoveLeft(x) - n
      BY <1>6, <1>7, <2>1, <2>4, <3>5
    <3> QED BY <1>6, <3>4, <3>6, <3>7 DEF b
  <2> QED BY <2>3, <2>4
<1>11. \A n \in 0..MaxVisits : n \in T
  <2> HIDE DEF T
  <2> QED BY <1>8, <1>10, EveryVisit
<1>12. /\ Visits(z) /\ SameStore(m, z) /\ SameRemoved(x, z, g)
       /\ z.todo = <<>> \/ RemoveLeft(z) = RemoveLeft(x) - MaxVisits
  <2>1. MaxVisits \in T
    <3> HIDE DEF T
    <3> QED BY <1>6, <1>11
  <2> QED BY <1>1, <2>1 DEF z
<1>13. z.todo = <<>>
  <2>1. Len(z.todo) \in Nat
    BY <1>12, OccurrencesType DEF Visits
  <2>2. InCount(z) \subseteq Addresses
    BY DEF InCount
  <2>3. Cardinality(Fields(z.heap, InCount(z))) \in Nat
    BY <2>2, FieldsFinite
  <2>4. RemoveLeft(z) \in Nat
    BY <2>1, <2>3 DEF RemoveLeft
  <2> QED BY <1>6, <1>7, <1>12, <2>4
<1>14. /\ Whole(y) /\ y.heap = z.heap /\ y.estack = z.estack /\ y.count = z.count
       /\ y.size = z.size /\ y.todo = <<>> /\ y.endless = (z.endless \/ z.todo # <<>>)
  BY <1>12, EndedIs DEF Removed, Visits, Sound, z
<1>15. SameStore(m, y)
  BY <1>12, <1>13, <1>14 DEF SameStore, Visits, Sound
<1>16. RemovedAre(m, y, items, g)
  <2> HIDE DEF y
  <2>1. /\ \A r : Spare(y, g, r) = Spare(z, g, r)
        /\ SpareSize(y, g) = SpareSize(z, g)
    BY <1>14 DEF SpareSize, InCount, Spare, Refs
  <2>2. Len(z.todo) = 0 /\ \A r : Occurrences(r, z.todo) = 0
    BY <1>13, OccurrencesOne
  <2>3. /\ \A r \in Addresses : Spare(z, g, r) - 0 = Spare(x, g, r) - Occurrences(r, items)
        /\ SpareSize(z, g) - 0 = SpareSize(x, g) - Len(items)
    BY <1>2, <1>12, <2>2 DEF SameRemoved
  <2>4. /\ \A r \in Addresses : Spare(z, g, r) \in Int
        /\ SpareSize(z, g) \in Int
    BY <1>9, <1>12
  <2> QED BY <1>5, <2>1, <2>3, <2>4 DEF RemovedAre
<1> QED BY <1>15, <1>16

-----------------------------------------------------------------------------
(* Pushing and popping                                                     *)

\* The accounts are what they were.
Covering(m) == Settled(m, m.heap) /\ SpareSize(m, m.heap) >= 0
Steady(m, y) ==
  /\ \A r \in Addresses : Spare(y, y.heap, r) = Spare(m, m.heap, r)
  /\ SpareSize(y, y.heap) = SpareSize(m, m.heap)
  /\ y.endless = m.endless

LEMMA SpareType ==
  ASSUME NEW m, Sound(m), NEW g
  PROVE  (\A r \in Addresses : Spare(m, g, r) \in Int) /\ SpareSize(m, g) \in Int
<1>1. m.estack \in Seq(Held(m.heap)) /\ m.size \in Int /\ m.count \in [Addresses -> Nat]
  BY DEF Sound
<1>2. InCount(m) \subseteq Addresses
  BY DEF InCount
<1>3. Len(m.estack) \in Nat /\ Cardinality(Fields(g, InCount(m))) \in Nat
  BY <1>1, <1>2, FieldsCount
<1>4. \A r : Refs(m, g, r) \in Nat
  BY <1>1, RefsType
<1> QED BY <1>1, <1>3, <1>4 DEF Spare, SpareSize

LEMMA WithStackIs ==
  ASSUME NEW m, Sound(m), NEW st \in Seq(Held(m.heap))
  PROVE  LET x == WithStack(m, st)
         IN /\ Sound(x) /\ x.heap = m.heap /\ x.estack = st /\ x.count = m.count /\ x.todo = m.todo
            /\ x.endless = m.endless
            /\ \A g : \A r \in Addresses :
                 Spare(x, g, r) = (Spare(m, g, r) + Occurrences(r, m.estack)) - Occurrences(r, st)
            /\ \A g : SpareSize(x, g) = (SpareSize(m, g) + Len(m.estack)) - Len(st)
<1> DEFINE x == WithStack(m, st)
<1>1. /\ Whole(x) /\ x.heap = m.heap /\ x.estack = st /\ x.count = m.count /\ x.size = m.size
      /\ x.todo = m.todo /\ x.endless = m.endless
  BY WithIs DEF Sound
<1> HIDE DEF x
<1>2. Sound(x)
  BY <1>1 DEF Sound
<1>3. InCount(x) = InCount(m) /\ InCount(m) \subseteq Addresses
  BY <1>1 DEF InCount
<1>4. m.estack \in Seq(Held(m.heap)) /\ m.size \in Int /\ m.count \in [Addresses -> Nat]
  BY DEF Sound
<1>5. ASSUME NEW g, NEW r \in Addresses
      PROVE  Spare(x, g, r) = (Spare(m, g, r) + Occurrences(r, m.estack)) - Occurrences(r, st)
  <2> DEFINE k == Cardinality(Having(g, InCount(m), r))
             a == Occurrences(r, m.estack)
             b == Occurrences(r, st)
             c == m.count[r]
  <2>1. k \in Nat /\ a \in Nat /\ b \in Nat /\ c \in Nat
    BY <1>3, <1>4, FieldsFinite, OccurrencesType
  <2>2. Spare(x, g, r) = c - (b + k) /\ Spare(m, g, r) = c - (a + k)
    BY <1>1, <1>3 DEF Spare, Refs
  <2> HIDE DEF k, a, b, c
  <2>3. Spare(x, g, r) = (Spare(m, g, r) + a) - b
    BY <2>1, <2>2
  <2> QED BY <2>3 DEF a, b
<1>6. ASSUME NEW g
      PROVE  SpareSize(x, g) = (SpareSize(m, g) + Len(m.estack)) - Len(st)
  <2> DEFINE k == Cardinality(Fields(g, InCount(m)))
             a == Len(m.estack)
             b == Len(st)
             c == m.size
  <2>1. k \in Nat /\ a \in Nat /\ b \in Nat /\ c \in Int
    BY <1>3, <1>4, FieldsCount
  <2>2. SpareSize(x, g) = c - (b + k) /\ SpareSize(m, g) = c - (a + k)
    BY <1>1, <1>3 DEF SpareSize
  <2> HIDE DEF k, a, b, c
  <2>3. SpareSize(x, g) = (SpareSize(m, g) + a) - b
    BY <2>1, <2>2
  <2> QED BY <2>3 DEF a, b
<1> QED BY <1>1, <1>2, <1>5, <1>6 DEF x

\* The accounts are kept whatever they are.
LEMMA PushedAllIs ==
  ASSUME NEW m, Sound(m), NEW items \in Seq(Held(m.heap)), Len(items) <= MaxHeight + MaxArraySize
  PROVE  LET y == PushedAll(m, items)
         IN /\ Sound(y) /\ y.todo = <<>> /\ y.heap = m.heap /\ y.estack = items \o m.estack
            /\ Steady(m, y)
<1> DEFINE h == m.heap
           st == items \o m.estack
           x == WithStack(m, st)
           y == Added(x, Reverse(items))
<1>1. st \in Seq(Held(h)) /\ m.estack \in Seq(Held(h)) /\ Len(st) = Len(items) + Len(m.estack)
  BY ConcatProperties DEF Sound
<1>2. /\ Reverse(items) \in Seq(Held(h)) /\ Len(Reverse(items)) = Len(items)
      /\ \A r : Occurrences(r, Reverse(items)) = Occurrences(r, items)
  BY OccurrencesReverse
<1>3. PushedAll(m, items) = y
  BY DEF PushedAll, WithStack
<1>4. /\ \A r : Occurrences(r, st) = Occurrences(r, items) + Occurrences(r, m.estack)
      /\ \A r : Occurrences(r, items) \in Nat /\ Occurrences(r, m.estack) \in Nat
      /\ Len(items) \in Nat /\ Len(m.estack) \in Nat
  BY <1>1, OccurrencesBoth, OccurrencesType
<1> HIDE DEF st
<1>5. /\ Sound(x) /\ x.heap = h /\ x.estack = st /\ x.endless = m.endless
      /\ \A r \in Addresses :
           Spare(x, h, r) = (Spare(m, h, r) + Occurrences(r, m.estack)) - Occurrences(r, st)
      /\ SpareSize(x, h) = (SpareSize(m, h) + Len(m.estack)) - Len(st)
  BY <1>1, WithStackIs
<1> HIDE DEF x
<1>6. Sound(y) /\ SameStore(x, y) /\ y.todo = <<>> /\ AddedAre(x, y, Reverse(items))
  BY <1>2, <1>5, AddedIs
<1> HIDE DEF y
<1>7. /\ \A r \in Addresses : Spare(m, h, r) \in Int
      /\ SpareSize(m, h) \in Int
  BY SpareType
<1>8. ASSUME NEW r \in Addresses PROVE Spare(y, h, r) = Spare(m, h, r)
  <2>1. Spare(y, h, r) = Spare(x, h, r) + Occurrences(r, items)
    BY <1>2, <1>5, <1>6 DEF AddedAre
  <2> HIDE DEF h
  <2> QED BY <1>4, <1>5, <1>7, <2>1
<1>9. SpareSize(y, h) = SpareSize(m, h)
  <2>1. SpareSize(y, h) = SpareSize(x, h) + Len(items)
    BY <1>2, <1>5, <1>6 DEF AddedAre
  <2> HIDE DEF h
  <2> QED BY <1>1, <1>4, <1>5, <1>7, <2>1
<1>10. Steady(m, y)
  BY <1>5, <1>6, <1>8, <1>9 DEF Steady, SameStore
<1> QED BY <1>3, <1>5, <1>6, <1>10 DEF SameStore, st

LEMMA PoppedSound ==
  ASSUME NEW m, Sound(m), NEW n \in 0..Len(m.estack)
  PROVE  LET y == Popped(m, n)
         IN /\ Sound(y) /\ y.todo = <<>> /\ y.heap = m.heap
            /\ y.estack = SubSeq(m.estack, n + 1, Len(m.estack))
            /\ Len(y.estack) = Len(m.estack) - n
<1> DEFINE top == SubSeq(m.estack, 1, n)
           st == SubSeq(m.estack, n + 1, Len(m.estack))
           x == WithStack(m, st)
           y == Removed(x, top)
<1>1. m.estack \in Seq(Held(m.heap))
  BY DEF Sound
<1>2. top \in Seq(Held(m.heap)) /\ st \in Seq(Held(m.heap)) /\ Len(st) = Len(m.estack) - n
  BY <1>1, OccurrencesSplit
<1>3. Popped(m, n) = y
  BY DEF Popped, WithStack
<1> HIDE DEF top, st
<1>4. Sound(x) /\ x.heap = m.heap /\ x.estack = st
  BY <1>2, WithStackIs
<1> HIDE DEF x
<1>5. Sound(y) /\ y.heap = x.heap /\ y.estack = x.estack /\ y.todo = <<>>
  BY <1>2, <1>4, RemovedSound
<1> HIDE DEF y
<1> QED BY <1>2, <1>3, <1>4, <1>5 DEF st

\* What is popped was accounted for.
LEMMA PoppedIs ==
  ASSUME NEW m, Sound(m), NEW n \in 0..Len(m.estack), n <= MaxHeight, Settled(m, m.heap)
  PROVE  Steady(m, Popped(m, n))
<1> DEFINE h == m.heap
           top == SubSeq(m.estack, 1, n)
           st == SubSeq(m.estack, n + 1, Len(m.estack))
           x == WithStack(m, st)
           y == Removed(x, top)
<1>1. m.estack \in Seq(Held(h)) /\ Sized(h)
  BY DEF Sound, GoodHeap
<1>2. /\ top \in Seq(Held(h)) /\ st \in Seq(Held(h)) /\ Len(top) = n
      /\ Len(st) = Len(m.estack) - n
      /\ \A r : Occurrences(r, m.estack) = Occurrences(r, top) + Occurrences(r, st)
  BY <1>1, OccurrencesSplit
<1>3. Popped(m, n) = y
  BY DEF Popped, WithStack
<1> HIDE DEF top, st
<1>4. /\ Sound(x) /\ x.heap = h /\ x.estack = st /\ x.endless = m.endless
      /\ \A r \in Addresses :
           Spare(x, h, r) = (Spare(m, h, r) + Occurrences(r, m.estack)) - Occurrences(r, st)
      /\ SpareSize(x, h) = (SpareSize(m, h) + Len(m.estack)) - Len(st)
  BY <1>2, WithStackIs
<1> HIDE DEF x
<1>5. /\ \A r \in Addresses : Spare(m, h, r) \in Int /\ Spare(m, h, r) >= 0
      /\ SpareSize(m, h) \in Int
  BY SpareType DEF Settled
<1>6. Len(m.estack) \in Nat /\ \A r : Occurrences(r, top) \in Nat /\ Occurrences(r, st) \in Nat
  BY <1>1, <1>2, OccurrencesType
<1>7. \A r \in Addresses : Spare(x, h, r) = Spare(m, h, r) + Occurrences(r, top)
  <2> HIDE DEF h
  <2> QED BY <1>2, <1>4, <1>5, <1>6
<1>8. SpareSize(x, h) = SpareSize(m, h) + Len(top)
  <2> HIDE DEF h
  <2> QED BY <1>2, <1>4, <1>5, <1>6
<1>9. Exceeds(x, h, top)
  <2> HIDE DEF h
  <2> QED BY <1>5, <1>6, <1>7 DEF Exceeds
<1>10. Agrees(x, h)
  BY <1>1, <1>4 DEF Agrees
<1>11. Len(top) <= MaxHeight + MaxArraySize
  <2>1. MaxHeight \in Nat /\ MaxArraySize \in Nat
    BY BoundsAssumption
  <2> QED BY <1>2, <2>1
<1>12. SameStore(x, y) /\ RemovedAre(x, y, top, h)
  BY <1>2, <1>4, <1>9, <1>10, <1>11, RemovedIs
<1> HIDE DEF y
<1>13. ASSUME NEW r \in Addresses PROVE Spare(y, h, r) = Spare(m, h, r)
  <2>1. Spare(y, h, r) = Spare(x, h, r) - Occurrences(r, top)
    BY <1>12 DEF RemovedAre
  <2> HIDE DEF h
  <2> QED BY <1>5, <1>6, <1>7, <2>1
<1>14. SpareSize(y, h) = SpareSize(m, h)
  <2>1. SpareSize(y, h) = SpareSize(x, h) - Len(top)
    BY <1>12 DEF RemovedAre
  <2> HIDE DEF h
  <2> QED BY <1>2, <1>5, <1>8, <2>1
<1> QED BY <1>3, <1>4, <1>12, <1>13, <1>14 DEF Steady, SameStore

-----------------------------------------------------------------------------
(* No struct contains itself                                               *)

Acyclic(h) ==
  \A S \in SUBSET Structs(h) : S # {} => \E r \in S : Contents(h, {r}) \intersect S = {}

LEMMA ContentsOne ==
  ASSUME NEW h, NEW r, NEW a
  PROVE  a \in Contents(h, {r}) <=> a # Primitive /\ a \in ToSet(h[r].items)
BY InContents

\* f takes a heap into an older one, structs to structs and what they contain
\* to what those contained.
Follows(f, h, g) ==
  \A r \in Structs(h) :
    /\ f[r] \in Structs(g)
    /\ \A x \in Structs(h) : x \in Contents(h, {r}) => f[x] \in Contents(g, {f[r]})

LEMMA AcyclicFollows ==
  ASSUME NEW g, Acyclic(g), NEW h, NEW f, Follows(f, h, g)
  PROVE  Acyclic(h)
<1> SUFFICES ASSUME NEW S \in SUBSET Structs(h), S # {}
             PROVE  \E r \in S : Contents(h, {r}) \intersect S = {}
  BY DEF Acyclic
<1> DEFINE T == {f[r] : r \in S}
<1>1. T \in SUBSET Structs(g) /\ T # {}
  BY DEF Follows
<1>2. PICK y \in T : Contents(g, {y}) \intersect T = {}
  <2> HIDE DEF T
  <2> QED BY <1>1 DEF Acyclic
<1>3. PICK r \in S : y = f[r]
  OBVIOUS
<1>4. ASSUME NEW x \in S, x \in Contents(h, {r}) PROVE FALSE
  <2>1. f[x] \in Contents(g, {y})
    BY <1>3, <1>4 DEF Follows
  <2>2. f[x] \in T
    OBVIOUS
  <2> QED BY <1>2, <2>1, <2>2
<1> QED BY <1>4

\* A new container, which nothing contains yet.
LEMMA AcyclicNew ==
  ASSUME NEW g, Acyclic(g), GoodHeap(g), NEW r \in Addresses, r \notin Held(g),
         NEW cell, cell.items \in Seq(Held(g)), NEW h, h = [g EXCEPT ![r] = cell]
  PROVE  Acyclic(h)
<1> SUFFICES ASSUME NEW S \in SUBSET Structs(h), S # {}
             PROVE  \E q \in S : Contents(h, {q}) \intersect S = {}
  BY DEF Acyclic
<1>1. h[r] = cell /\ \A q \in Addresses : q # r => h[q] = g[q]
  BY DEF GoodHeap, Sized
<1>2. \A q \in Addresses : ToSet(g[q].items) \subseteq Held(g)
  BY DEF GoodHeap, ToSet
<1>3. ToSet(cell.items) \subseteq Held(g)
  BY DEF ToSet
<1>4. \A q \in Addresses : r \notin ToSet(h[q].items)
  BY <1>1, <1>2, <1>3
<1> DEFINE T == S \ {r}
<1>5. T \in SUBSET Structs(g)
  BY <1>1 DEF Structs
<1>6. CASE T = {}
  <2>1. S = {r}
    BY <1>6
  <2>2. r \notin Contents(h, {r})
    BY <1>4, ContentsOne
  <2> QED BY <2>1, <2>2
<1>7. CASE T # {}
  <2>1. PICK q \in T : Contents(g, {q}) \intersect T = {}
    BY <1>5, <1>7 DEF Acyclic
  <2>2. q \in Addresses /\ h[q] = g[q] /\ q \in S
    BY <1>1, <2>1 DEF Structs
  <2>3. \A x : x \in Contents(h, {q}) => x \in Contents(g, {q}) /\ x # r
    BY <1>4, <2>2, ContentsOne
  <2> QED BY <2>1, <2>2, <2>3
<1> QED BY <1>6, <1>7

\* Two containers may differ.
Alike(h, g, r, o) == \A q \in Addresses : q # r /\ q # o => h[q] = g[q]

\* A copy of a struct takes its place.
LEMMA AcyclicCopy ==
  ASSUME NEW g, Acyclic(g), GoodHeap(g), NEW o \in Held(g), o # Primitive,
         NEW i \in DOMAIN g[o].items, IsStruct(g, g[o].items[i]),
         NEW r \in Addresses, r \notin Held(g), NEW h, h \in [Addresses -> Cell],
         h[r] = g[g[o].items[i]],
         h[o].kind = g[o].kind, h[o].items = [g[o].items EXCEPT ![i] = r],
         Alike(h, g, r, o)
  PROVE  Acyclic(h)
<1> DEFINE item == g[o].items[i]
           f == [q \in Addresses |-> IF q = r THEN item ELSE q]
<1>0. \A q \in Addresses : q # r /\ q # o => h[q] = g[q]
  BY DEF Alike
<1>1. o \in Addresses /\ o # r
  BY HeldAre
<1>2. item \in Held(g) /\ item # Primitive /\ item \in Addresses /\ item # r /\ item \in Structs(g)
  <2>1. g[o].items \in Seq(Held(g))
    BY <1>1 DEF GoodHeap
  <2>2. item \in Held(g)
    BY <2>1
  <2>3. item # Primitive /\ g[item].kind = "Struct"
    BY DEF IsStruct
  <2> QED BY <2>2, <2>3, HeldAre DEF Structs
<1>3. \A q \in Addresses : ToSet(g[q].items) \subseteq Held(g)
  BY DEF GoodHeap, ToSet
<1>4. Structs(h) \subseteq Addresses /\ Structs(g) \subseteq Addresses
  BY DEF Structs
<1>5. item \in ToSet(g[o].items)
  BY DEF ToSet
<1>6. \A x \in ToSet(h[o].items) : x = r \/ x \in ToSet(g[o].items)
  <2>1. g[o].items \in Seq(Held(g))
    BY <1>1 DEF GoodHeap
  <2> QED BY <2>1 DEF ToSet
<1> HIDE DEF item
<1>7. ASSUME NEW q \in Structs(h) PROVE f[q] \in Structs(g)
  BY <1>0, <1>1, <1>2, <1>4 DEF Structs, item
<1>8. ASSUME NEW q \in Structs(h), NEW x \in Structs(h), x \in Contents(h, {q})
      PROVE  f[x] \in Contents(g, {f[q]})
  <2>1. x # Primitive /\ x \in ToSet(h[q].items) /\ x \in Addresses /\ q \in Addresses
    BY <1>4, <1>8, ContentsOne
  <2>2. CASE q = r
    <3>1. x \in ToSet(g[item].items)
      BY <2>1, <2>2 DEF item
    <3>2. x # r
      BY <1>2, <1>3, <3>1
    <3> QED BY <1>2, <2>1, <2>2, <3>1, <3>2, ContentsOne
  <2>3. CASE q = o
    <3>1. CASE x = r
      BY <1>1, <1>2, <1>5, <2>3, <3>1, ContentsOne
    <3>2. CASE x # r
      BY <1>1, <1>6, <2>1, <2>3, <3>2, ContentsOne
    <3> QED BY <3>1, <3>2
  <2>4. CASE q # r /\ q # o
    <3>1. x \in ToSet(g[q].items)
      BY <1>0, <2>1, <2>4
    <3>2. x # r
      BY <1>3, <2>1, <3>1
    <3> QED BY <1>0, <2>1, <2>4, <3>1, <3>2, ContentsOne
  <2> QED BY <2>2, <2>3, <2>4
<1>9. Follows(f, h, g)
  <2> HIDE DEF f
  <2> QED BY <1>7, <1>8 DEF Follows
<1> QED BY <1>9, AcyclicFollows

\* N has the structs that its structs contain.
Inside(h, N) == \A r \in N, x \in Structs(h) : x \in Contents(h, {r}) => x \in N

SameKinds(g, h, obj) ==
  \A q \in Addresses : h[q].kind = g[q].kind /\ (q # obj => h[q] = g[q])

\* A container outside N takes in one of N, or what is no struct.
LEMMA AcyclicStore ==
  ASSUME NEW g, Acyclic(g), NEW N, N \subseteq Addresses, Inside(g, N), NEW obj, obj \notin N,
         NEW item, item \in N \/ item \notin Structs(g), NEW h,
         SameKinds(g, h, obj),
         ToSet(h[obj].items) \subseteq ToSet(g[obj].items) \union {item}
  PROVE  Acyclic(h)
<1> SUFFICES ASSUME NEW S \in SUBSET Structs(h), S # {}
             PROVE  \E q \in S : Contents(h, {q}) \intersect S = {}
  BY DEF Acyclic
<1>0. \A q \in Addresses : h[q].kind = g[q].kind /\ (q # obj => h[q] = g[q])
  BY DEF SameKinds
<1>1. Structs(h) = Structs(g)
  BY <1>0 DEF Structs
<1>2. Structs(g) \subseteq Addresses
  BY DEF Structs
<1>3. CASE S \intersect N # {}
  <2>1. S \intersect N \in SUBSET Structs(g)
    BY <1>1
  <2>2. PICK q \in S \intersect N : Contents(g, {q}) \intersect (S \intersect N) = {}
    BY <1>3, <2>1 DEF Acyclic
  <2>3. h[q] = g[q]
    BY <1>0, <1>1, <1>2
  <2>4. ASSUME NEW x \in S, x \in Contents(h, {q}) PROVE FALSE
    <3>1. x \in Contents(g, {q})
      BY <2>3, <2>4, ContentsOne
    <3>2. x \in N
      BY <1>1, <2>2, <3>1 DEF Inside
    <3> QED BY <2>2, <3>1, <3>2
  <2> QED BY <2>2, <2>4
<1>4. CASE S \intersect N = {}
  <2>1. PICK q \in S : Contents(g, {q}) \intersect S = {}
    BY <1>1 DEF Acyclic
  <2>2. ASSUME NEW x \in S, x \in Contents(h, {q}) PROVE FALSE
    <3>1. x # Primitive /\ x \in ToSet(h[q].items)
      BY <2>2, ContentsOne
    <3>2. x # item
      BY <1>1, <1>4
    <3>3. x \in ToSet(g[q].items)
      BY <1>0, <1>1, <1>2, <3>1, <3>2
    <3>4. x \in Contents(g, {q})
      BY <3>1, <3>3, ContentsOne
    <3> QED BY <2>1, <3>4
  <2> QED BY <2>2
<1> QED BY <1>3, <1>4

\* Some containers are freed.
LEMMA AcyclicFewer ==
  ASSUME NEW g, Acyclic(g), NEW h, \A q \in Addresses : h[q] = g[q] \/ h[q] = Free
  PROVE  Acyclic(h)
<1> DEFINE f == [q \in Addresses |-> q]
<1>1. ASSUME NEW r \in Structs(h) PROVE r \in Addresses /\ h[r] = g[r] /\ r \in Structs(g)
  BY DEF Structs, Free, Of
<1>2. Follows(f, h, g)
  BY <1>1, ContentsOne DEF Follows
<1> QED BY <1>2, AcyclicFollows

-----------------------------------------------------------------------------
(* New containers                                                          *)

\* What was allocated stays as it is.
Grows(g, h) == GoodHeap(h) /\ \A r \in Addresses : g[r].kind # "none" => h[r] = g[r]

LEMMA GrowsHeld ==
  ASSUME NEW g, NEW h, Grows(g, h)
  PROVE  Held(g) \subseteq Held(h)
BY DEF Held, Grows

\* Nothing that counts is changed with it.
LEMMA GrowsSteady ==
  ASSUME NEW m, Sound(m), NEW x, Whole(x), Grows(m.heap, x.heap), x.estack = m.estack,
         x.count = m.count, x.size = m.size, x.endless = m.endless
  PROVE  Sound(x) /\ Steady(m, x)
<1>1. Held(m.heap) \subseteq Held(x.heap)
  BY GrowsHeld
<1>2. x.estack \in Seq(Held(x.heap))
  BY <1>1 DEF Sound
<1>3. Sound(x)
  BY <1>1, <1>2 DEF Sound, Grows
<1>4. InCount(x) = InCount(m) /\ InCount(m) \subseteq Addresses
  BY DEF InCount
<1>5. \A r \in InCount(m) : m.heap[r].kind # "none"
  <2>1. Primitive \notin Addresses
    BY AddressesAssumption
  <2> QED BY <2>1 DEF InCount, Sound, Held
<1>6. \A r \in InCount(m) : x.heap[r] = m.heap[r]
  BY <1>4, <1>5 DEF Grows
<1>7. \A r : /\ Fields(x.heap, InCount(m)) = Fields(m.heap, InCount(m))
             /\ Having(x.heap, InCount(m), r) = Having(m.heap, InCount(m), r)
  BY <1>4, <1>6, FieldsAgree
<1> QED BY <1>3, <1>4, <1>7 DEF Steady, Spare, SpareSize, Refs

LEMMA RoomIs ==
  ASSUME NEW m, Sound(m), Room(m)
  PROVE  /\ AFreeCell(m) \in Addresses /\ AFreeCell(m) \notin Held(m.heap)
         /\ AFreeCell(m) # Primitive /\ m.heap[AFreeCell(m)].kind = "none"
<1>1. \E r \in Addresses : r \in FreeCells(m)
  BY DEF Room, FreeCells
<1>2. AFreeCell(m) \in Addresses /\ AFreeCell(m) \in FreeCells(m)
  BY <1>1 DEF AFreeCell
<1>3. Primitive \notin Addresses
  BY AddressesAssumption
<1> QED BY <1>2, <1>3 DEF FreeCells, Held

\* A cell that can be filled in.
Fills(h, cell) ==
  /\ cell \in Cell /\ cell.kind # "none"
  /\ cell.items \in Seq(Held(h)) /\ Len(cell.items) <= MaxArraySize

LEMMA NewCell ==
  ASSUME NEW g, GoodHeap(g), NEW r \in Addresses, r \notin Held(g), NEW cell, Fills(g, cell)
  PROVE  LET h == [g EXCEPT ![r] = cell]
         IN /\ Grows(g, h) /\ r \in Held(h) /\ h[r] = cell
            /\ \A q \in Addresses : q # r => h[q] = g[q]
            /\ Acyclic(g) => Acyclic(h)
<1> DEFINE h == [g EXCEPT ![r] = cell]
<1>1. /\ h \in [Addresses -> Cell] /\ h[r] = cell
      /\ \A q \in Addresses : q # r => h[q] = g[q]
  BY DEF GoodHeap, Sized, Fills
<1>2. g[r].kind = "none"
  BY DEF Held
<1>3. Acyclic(g) => Acyclic(h)
  BY AcyclicNew DEF Fills
<1> HIDE DEF h
<1>4. Held(g) \subseteq Held(h) /\ r \in Held(h)
  BY <1>1, <1>2 DEF Held, Fills
<1>5. Sized(h)
  BY <1>1 DEF Sized, GoodHeap, Fills
<1>6. ASSUME NEW q \in Addresses PROVE h[q].items \in Seq(Held(h))
  <2>1. h[q].items \in Seq(Held(g))
    BY <1>1 DEF GoodHeap, Fills
  <2> QED BY <1>4, <2>1
<1>7. Grows(g, h)
  BY <1>1, <1>2, <1>5, <1>6 DEF Grows, GoodHeap
<1> QED BY <1>1, <1>3, <1>4, <1>7 DEF h

-----------------------------------------------------------------------------
(* Changes that leave the containers there are alone                       *)

Goes(m, y) ==
  /\ Sound(y) /\ y.todo = <<>> /\ Grows(m.heap, y.heap)
  /\ Acyclic(m.heap) => Acyclic(y.heap)
  /\ Covering(m) => Steady(m, y)

LEMMA GrowsSelf ==
  ASSUME NEW g, GoodHeap(g)
  PROVE  Grows(g, g)
BY DEF Grows

LEMMA GrowsOn ==
  ASSUME NEW g, NEW h, NEW k, Grows(g, h), Grows(h, k)
  PROVE  Grows(g, k)
BY DEF Grows

LEMMA SteadyCovering ==
  ASSUME NEW m, NEW y, Covering(m), Steady(m, y)
  PROVE  Covering(y)
BY DEF Covering, Settled, Steady

LEMMA SteadyOn ==
  ASSUME NEW m, NEW x, NEW y, Steady(m, x), Steady(x, y)
  PROVE  Steady(m, y)
BY DEF Steady

LEMMA GoesOn ==
  ASSUME NEW m, NEW x, NEW y, Goes(m, x), Goes(x, y)
  PROVE  Goes(m, y)
<1>1. Covering(m) => Steady(m, y)
  BY SteadyCovering, SteadyOn DEF Goes
<1> QED BY <1>1, GrowsOn DEF Goes

LEMMA GoesSame ==
  ASSUME NEW m, NEW y, Sound(m), Sound(y), y.todo = <<>>, y.heap = m.heap, Covering(m) => Steady(m, y)
  PROVE  Goes(m, y)
<1>1. Grows(m.heap, y.heap)
  BY GrowsSelf DEF Sound
<1> QED BY <1>1 DEF Goes

LEMMA PushedAllGoes ==
  ASSUME NEW m, Sound(m), NEW items \in Seq(Held(m.heap)), Len(items) <= MaxHeight + MaxArraySize
  PROVE  Goes(m, PushedAll(m, items)) /\ PushedAll(m, items).heap = m.heap
<1> DEFINE y == PushedAll(m, items)
<1>1. Sound(y) /\ y.todo = <<>> /\ y.heap = m.heap /\ Steady(m, y)
  BY PushedAllIs
<1> HIDE DEF y
<1>2. Goes(m, y)
  BY <1>1, GoesSame
<1> QED BY <1>1, <1>2 DEF y

LEMMA PushedGoes ==
  ASSUME NEW m, Sound(m), NEW item \in Held(m.heap)
  PROVE  Goes(m, Pushed(m, item))
<1> DEFINE items == <<item>>
<1>1. items \in Seq(Held(m.heap)) /\ Len(items) = 1
  OBVIOUS
<1>2. MaxHeight \in Nat /\ MaxArraySize \in Nat /\ MaxArraySize # 0
  BY BoundsAssumption
<1>3. Len(items) <= MaxHeight + MaxArraySize
  BY <1>1, <1>2
<1>4. Pushed(m, item) = PushedAll(m, items)
  BY DEF Pushed
<1> HIDE DEF items
<1> QED BY <1>1, <1>3, <1>4, PushedAllGoes

LEMMA PoppedGoes ==
  ASSUME NEW m, Sound(m), NEW n \in 0..Len(m.estack), n <= MaxHeight
  PROVE  Goes(m, Popped(m, n)) /\ Popped(m, n).heap = m.heap
<1> DEFINE y == Popped(m, n)
<1>1. Sound(y) /\ y.todo = <<>> /\ y.heap = m.heap
  BY PoppedSound
<1>2. Covering(m) => Steady(m, y)
  BY PoppedIs DEF Covering
<1> HIDE DEF y
<1>3. Goes(m, y)
  BY <1>1, <1>2, GoesSame
<1> QED BY <1>1, <1>3 DEF y

LEMMA PushedNewGoes ==
  ASSUME NEW m, Sound(m), Room(m), NEW cell, Fills(m.heap, cell)
  PROVE  Goes(m, PushedNew(m, cell))
<1> DEFINE r == AFreeCell(m)
           h == [m.heap EXCEPT ![r] = cell]
           x == WithHeap(m, h)
           y == Pushed(x, r)
<1>1. r \in Addresses /\ r \notin Held(m.heap)
  BY RoomIs
<1>2. PushedNew(m, cell) = y
  BY DEF PushedNew, WithHeap
<1> HIDE DEF r
<1>3. Grows(m.heap, h) /\ r \in Held(h) /\ (Acyclic(m.heap) => Acyclic(h))
  <2>1. GoodHeap(m.heap)
    BY DEF Sound
  <2> QED BY <1>1, <2>1, NewCell
<1> HIDE DEF h
<1>4. /\ Whole(x) /\ x.heap = h /\ x.estack = m.estack /\ x.count = m.count
      /\ x.size = m.size /\ x.endless = m.endless
  BY WithIs DEF Sound
<1> HIDE DEF x
<1>5. Sound(x) /\ Steady(m, x)
  BY <1>3, <1>4, GrowsSteady
<1>6. Goes(x, y)
  BY <1>3, <1>4, <1>5, PushedGoes
<1> HIDE DEF y
<1>7. Grows(m.heap, y.heap)
  BY <1>3, <1>4, <1>6, GrowsOn DEF Goes
<1>8. Covering(m) => Steady(m, y)
  BY <1>5, <1>6, SteadyCovering, SteadyOn DEF Goes
<1> QED BY <1>2, <1>3, <1>4, <1>6, <1>7, <1>8 DEF Goes

-----------------------------------------------------------------------------
(* Copies of structs                                                       *)

LEMMA FirstAndRest ==
  ASSUME NEW X, NEW s \in Seq(X), s # <<>>
  PROVE  /\ Head(s) \in X /\ Tail(s) \in Seq(X)
         /\ \A x : x \in ToSet(s) <=> x = Head(s) \/ x \in ToSet(Tail(s))
<1>1. Len(s) \in Nat /\ Len(s) >= 1 /\ DOMAIN s = 1..Len(s)
  BY EmptySeq, LenProperties
<1>2. /\ Head(s) = s[1] /\ Head(s) \in X /\ Tail(s) \in Seq(X) /\ Len(Tail(s)) = Len(s) - 1
      /\ \A i \in 1..(Len(s) - 1) : Tail(s)[i] = s[i + 1]
  BY HeadTailProperties
<1> DEFINE t == Tail(s)
           n == Len(s)
<1>3. DOMAIN t = 1..(n - 1) /\ DOMAIN s = 1..n /\ n \in Nat /\ n >= 1
  BY <1>1, <1>2, LenProperties
<1>4. ASSUME NEW x \in ToSet(s), x # Head(s) PROVE x \in ToSet(t)
  <2>1. PICK i \in 1..n : x = s[i]
    BY <1>3 DEF ToSet
  <2>2. i # 1
    BY <1>2, <1>4, <2>1
  <2>3. i - 1 \in 1..(n - 1) /\ i = (i - 1) + 1
    BY <1>3, <2>1, <2>2
  <2>4. t[i - 1] = s[i]
    BY <1>2, <2>3
  <2> QED BY <1>3, <2>1, <2>3, <2>4 DEF ToSet
<1>5. ASSUME NEW x \in ToSet(t) PROVE x \in ToSet(s)
  <2>1. PICK i \in 1..(n - 1) : x = t[i]
    BY <1>3, <1>5 DEF ToSet
  <2>2. i + 1 \in 1..n /\ x = s[i + 1]
    BY <1>2, <1>3, <2>1
  <2> QED BY <1>3, <2>2 DEF ToSet
<1>6. Head(s) \in ToSet(s)
  BY <1>2, <1>3 DEF ToSet
<1> HIDE DEF t
<1> QED BY <1>2, <1>4, <1>5, <1>6 DEF t

LEMMA BothAre ==
  ASSUME NEW X, NEW s \in Seq(X), NEW t \in Seq(X)
  PROVE  s \o t \in Seq(X) /\ \A x : x \in ToSet(s \o t) <=> x \in ToSet(s) \/ x \in ToSet(t)
<1>1. s \o t \in Seq(X)
  OBVIOUS
<1>2. \A a : /\ Occurrences(a, s \o t) = Occurrences(a, s) + Occurrences(a, t)
             /\ Occurrences(a, s) \in Nat /\ Occurrences(a, t) \in Nat
  BY OccurrencesBoth, OccurrencesType
<1>3. \A a : /\ Occurrences(a, s) > 0 <=> a \in ToSet(s)
             /\ Occurrences(a, t) > 0 <=> a \in ToSet(t)
             /\ Occurrences(a, s \o t) > 0 <=> a \in ToSet(s \o t)
  BY <1>1, OccurrencesMany
<1>4. ASSUME NEW x PROVE x \in ToSet(s \o t) <=> x \in ToSet(s) \/ x \in ToSet(t)
  <2> DEFINE a == Occurrences(x, s)
             b == Occurrences(x, t)
             c == Occurrences(x, s \o t)
  <2>1. c = a + b /\ a \in Nat /\ b \in Nat
    BY <1>2
  <2>2. (a > 0 <=> x \in ToSet(s)) /\ (b > 0 <=> x \in ToSet(t)) /\ (c > 0 <=> x \in ToSet(s \o t))
    BY <1>3
  <2> HIDE DEF a, b, c
  <2>3. c > 0 <=> a > 0 \/ b > 0
    BY <2>1
  <2> QED BY <2>2, <2>3
<1> QED BY <1>1, <1>4

FieldNames == Addresses \X Nat

LEMMA FieldsOfIs ==
  ASSUME NEW h, Sized(h), NEW r \in Addresses
  PROVE  /\ FieldsOf(h, r) \in Seq(FieldNames)
         /\ \A f : f \in ToSet(FieldsOf(h, r)) <=> \E j \in DOMAIN h[r].items : f = <<r, j>>
<1>1. DOMAIN h[r].items = 1..Len(h[r].items) /\ Len(h[r].items) \in Nat
  BY ItemsOf
<1>2. FieldsOf(h, r) = [i \in 1..Len(h[r].items) |-> <<r, i>>]
  BY <1>1 DEF FieldsOf
<1>3. \A i \in 1..Len(h[r].items) : <<r, i>> \in FieldNames
  BY <1>1 DEF FieldNames
<1> DEFINE n == Len(h[r].items)
           s == [i \in 1..n |-> <<r, i>>]
<1>4. s \in Seq(FieldNames)
  <2> HIDE DEF n
  <2>1. n \in Nat
    BY <1>1 DEF n
  <2>2. s \in [1..n -> FieldNames]
    BY <1>3 DEF n
  <2> HIDE DEF s
  <2> QED BY <2>1, <2>2
<1>5. \A f : f \in ToSet(s) <=> \E j \in 1..n : f = <<r, j>>
  BY DEF ToSet
<1> QED BY <1>1, <1>2, <1>4, <1>5

\* What is allocated in h and was not in g.
Since(g, h) == {q \in Addresses : g[q].kind = "none" /\ h[q].kind # "none"}

\* In the midst of a copy that began at m: the structs in the new containers are
\* new, or are to be visited.
Awaits(h, N, todo) ==
  \A q \in N, j \in 1..MaxArraySize :
    j \in DOMAIN h[q].items /\ IsStruct(h, h[q].items[j]) =>
      h[q].items[j] \in N \/ <<q, j>> \in ToSet(todo)
Comes(h, N, todo) ==
  /\ todo \in Seq(FieldNames)
  /\ \A f \in ToSet(todo) : f[1] \in N /\ f[2] \in DOMAIN h[f[1]].items
SameBut(m, y) == y.estack = m.estack /\ y.count = m.count /\ y.size = m.size /\ y.endless = m.endless
Copies(m, y) ==
  /\ Whole(y) /\ Grows(m.heap, y.heap) /\ SameBut(m, y)
  /\ Acyclic(m.heap) => Acyclic(y.heap)
  /\ Comes(y.heap, Since(m.heap, y.heap), y.todo)
  /\ Awaits(y.heap, Since(m.heap, y.heap), y.todo)

\* The field that is visited, and the heap with its struct copied.
FieldItem(m) == m.heap[Head(m.todo)[1]].items[Head(m.todo)[2]]
FieldCopied(m) ==
  [m.heap EXCEPT ![AFreeCell(m)] = m.heap[FieldItem(m)],
                 ![Head(m.todo)[1]].items[Head(m.todo)[2]] = AFreeCell(m)]

LEMMA CopyingIs ==
  ASSUME NEW m, Whole(m)
  PROVE  LET y == Copying(m)
         IN /\ ~IsStruct(m.heap, FieldItem(m)) => y = WithTodo(m, Tail(m.todo))
            /\ IsStruct(m.heap, FieldItem(m)) /\ ~Room(m) => y = m
            /\ IsStruct(m.heap, FieldItem(m)) /\ Room(m) =>
                 /\ Whole(y) /\ y.heap = FieldCopied(m) /\ SameBut(m, y)
                 /\ y.todo = FieldsOf(y.heap, AFreeCell(m)) \o Tail(m.todo)
<1> DEFINE new == AFreeCell(m)
           h == FieldCopied(m)
           item == FieldItem(m)
           x == Skipped(m)
           z == [Skipped(m) EXCEPT !.heap = h, !.todo = FieldsOf(h, new) \o @]
<1>1. Copying(m) = IF ~IsStruct(m.heap, item) THEN x ELSE IF ~Room(m) THEN m ELSE z
  BY DEF Copying, FieldCopied, FieldItem
<1>2. x = WithTodo(m, Tail(m.todo))
  BY DEF Skipped, WithTodo
<1>3. Whole(x) /\ x.todo = Tail(m.todo) /\ SameBut(m, x)
  <2> DEFINE a == Tail(m.todo)
             w == WithTodo(m, a)
  <2> HIDE DEF a
  <2>1. /\ Whole(w) /\ w.heap = m.heap /\ w.estack = m.estack /\ w.count = m.count
        /\ w.size = m.size /\ w.todo = a /\ w.endless = m.endless
    BY WithIs
  <2> HIDE DEF w
  <2>2. Whole(w) /\ w.todo = a /\ SameBut(m, w)
    BY <2>1 DEF SameBut
  <2> QED BY <1>2, <2>2 DEF w, a
<1> DEFINE b == FieldsOf(h, new) \o Tail(m.todo)
           u == WithHeap(x, h)
           v == WithTodo(u, b)
<1>4. z = v
  <2> DEFINE k == FieldsOf(h, new)
  <2> HIDE DEF x, k
  <2> SUFFICES [x EXCEPT !.heap = h, !.todo = k \o @] = v
    BY DEF x, k
  <2>1. [x EXCEPT !.heap = h, !.todo = k \o @] = [u EXCEPT !.todo = k \o @]
    BY DEF WithHeap
  <2>2. u.todo = x.todo
    BY <1>3, WithIs
  <2> HIDE DEF u
  <2>3. [u EXCEPT !.todo = k \o @] = v
    BY <1>3, <2>2 DEF WithTodo, k
  <2> QED BY <2>1, <2>3
<1> HIDE DEF x
<1>5. /\ Whole(u) /\ u.heap = h /\ u.estack = x.estack /\ u.count = x.count /\ u.size = x.size
      /\ u.endless = x.endless
  BY <1>3, WithIs
<1> HIDE DEF u, b, h
<1>6. /\ Whole(v) /\ v.heap = u.heap /\ v.estack = u.estack /\ v.count = u.count /\ v.size = u.size
      /\ v.todo = b /\ v.endless = u.endless
  BY <1>5, WithIs
<1> HIDE DEF v, z
<1>7. Whole(z) /\ z.heap = h /\ SameBut(m, z) /\ z.todo = b
  BY <1>3, <1>4, <1>5, <1>6 DEF SameBut
<1>8. z.todo = FieldsOf(z.heap, new) \o Tail(m.todo)
  BY <1>7 DEF b
<1> HIDE DEF new
<1> QED BY <1>1, <1>2, <1>7, <1>8 DEF h, new

CopiedInto(g, o, i, new) == [g EXCEPT ![new] = g[g[o].items[i]], ![o].items[i] = new]

IsCopy(g, h, o, i, new) ==
  /\ GoodHeap(h) /\ (Acyclic(g) => Acyclic(h))
  /\ h[new] = g[g[o].items[i]] /\ h[o].kind = g[o].kind
  /\ h[o].items = [g[o].items EXCEPT ![i] = new]
  /\ \A q \in Addresses : q # new /\ q # o => h[q] = g[q]
  /\ Held(h) = Held(g) \union {new}

LEMMA CopiedIntoIs ==
  ASSUME NEW g, GoodHeap(g), NEW o \in Held(g), o # Primitive, NEW i \in DOMAIN g[o].items,
         IsStruct(g, g[o].items[i]), NEW new \in Addresses, new \notin Held(g)
  PROVE  IsCopy(g, CopiedInto(g, o, i, new), o, i, new)
<1> DEFINE item == g[o].items[i]
           h == CopiedInto(g, o, i, new)
<1>1. o \in Addresses /\ o # new
  BY HeldAre
<1>2. item \in Held(g) /\ item # Primitive /\ item \in Addresses /\ item # new /\ g[item].kind = "Struct"
  <2>1. g[o].items \in Seq(Held(g))
    BY <1>1 DEF GoodHeap
  <2>2. item \in Held(g)
    BY <2>1
  <2>3. item # Primitive /\ g[item].kind = "Struct"
    BY DEF IsStruct
  <2> QED BY <2>2, <2>3, HeldAre
<1>3. g \in [Addresses -> Cell] /\ \A q \in Addresses : Len(g[q].items) <= MaxArraySize
  BY DEF GoodHeap, Sized
<1>4. g[o] \in Cell /\ g[item] \in Cell
  BY <1>1, <1>2, <1>3
<1>5. /\ h[new] = g[item] /\ h[o] = [g[o] EXCEPT !.items[i] = new]
      /\ \A q \in Addresses : q # new /\ q # o => h[q] = g[q]
      /\ DOMAIN h = Addresses
  BY <1>1, <1>3 DEF CopiedInto
<1>6. h[o].kind = g[o].kind /\ h[o].items = [g[o].items EXCEPT ![i] = new]
  BY <1>4, <1>5 DEF Cell
<1>7. DOMAIN g[o].items = 1..Len(g[o].items)
  BY <1>1, ItemsOf DEF GoodHeap
<1> HIDE DEF item
<1>8. Held(h) = Held(g) \union {new}
  BY <1>1, <1>2, <1>5, <1>6 DEF Held
<1>9. new \in Held(h) /\ g[o].items \in Seq(Held(h)) /\ g[o].items \in Seq(Items)
  <2>1. g[o].items \in Seq(Held(g))
    BY <1>1 DEF GoodHeap
  <2> QED BY <1>4, <1>8, <2>1 DEF Cell
<1>10. /\ h[o].items \in Seq(Held(h)) /\ h[o].items \in Seq(Items)
       /\ Len(h[o].items) = Len(g[o].items)
  <2>1. new \in Items /\ i \in 1..Len(g[o].items)
    BY <1>7 DEF Items
  <2>2. \A X : new \in X /\ g[o].items \in Seq(X) =>
          [g[o].items EXCEPT ![i] = new] \in Seq(X) /\ Len([g[o].items EXCEPT ![i] = new]) = Len(g[o].items)
    BY <2>1, OccurrencesReplace
  <2> QED BY <1>6, <1>9, <2>1, <2>2
<1>11. h[o] \in Cell
  <2>1. h[o] = [kind |-> h[o].kind, items |-> h[o].items]
    BY <1>4, <1>5 DEF Cell
  <2>2. h[o].kind \in Kinds
    BY <1>4, <1>6 DEF Cell
  <2> QED BY <1>10, <2>1, <2>2 DEF Cell
<1>12. ASSUME NEW q \in Addresses
       PROVE  h[q] \in Cell /\ h[q].items \in Seq(Held(h)) /\ Len(h[q].items) <= MaxArraySize
  <2>1. CASE q = o
    <3> HIDE DEF h
    <3> QED BY <1>1, <1>3, <1>10, <1>11, <2>1
  <2>2. CASE q # o
    <3>1. PICK r \in Addresses : h[q] = g[r]
      BY <1>2, <1>5, <2>2
    <3>2. g[r].items \in Seq(Held(g)) /\ g[r] \in Cell /\ Len(g[r].items) <= MaxArraySize
      BY <1>3 DEF GoodHeap
    <3> HIDE DEF h
    <3> QED BY <1>8, <3>1, <3>2
  <2> QED BY <2>1, <2>2
<1>13. h \in [Addresses -> Cell]
  <2>1. h = [q \in Addresses |-> h[q]]
    BY <1>3 DEF CopiedInto
  <2> HIDE DEF h
  <2> QED BY <1>12, <2>1
<1>14. Acyclic(g) => Acyclic(h)
  <2> HIDE DEF h
  <2>1. Alike(h, g, new, o)
    BY <1>5 DEF Alike
  <2>2. h[new] = g[g[o].items[i]]
    BY <1>5 DEF item
  <2> QED BY <1>6, <1>13, <2>1, <2>2, AcyclicCopy
<1> HIDE DEF h
<1>15. GoodHeap(h)
  BY <1>12, <1>13 DEF GoodHeap, Sized
<1>16. IsCopy(g, h, o, i, new)
  BY <1>5, <1>6, <1>8, <1>14, <1>15 DEF IsCopy, item
<1> QED BY <1>16 DEF h

\* Nothing struct in the field: it is passed over.
LEMMA AwaitsLess ==
  ASSUME NEW h, NEW N, NEW todo, Awaits(h, N, todo), Comes(h, N, todo), todo # <<>>,
         ~IsStruct(h, h[Head(todo)[1]].items[Head(todo)[2]])
  PROVE  Awaits(h, N, Tail(todo)) /\ Comes(h, N, Tail(todo))
<1>1. todo \in Seq(FieldNames)
  BY DEF Comes
<1>2. /\ Tail(todo) \in Seq(FieldNames)
      /\ \A x : x \in ToSet(todo) <=> x = Head(todo) \/ x \in ToSet(Tail(todo))
  BY <1>1, FirstAndRest
<1> DEFINE rest == Tail(todo)
<1> HIDE DEF rest
<1>3. ASSUME NEW q \in N, NEW j \in 1..MaxArraySize, j \in DOMAIN h[q].items,
             IsStruct(h, h[q].items[j])
      PROVE  h[q].items[j] \in N \/ <<q, j>> \in ToSet(rest)
  <2>1. h[q].items[j] \in N \/ <<q, j>> \in ToSet(todo)
    BY <1>3 DEF Awaits
  <2>2. <<q, j>> # Head(todo)
    BY <1>3
  <2> QED BY <1>2, <2>1, <2>2 DEF rest
<1>4. Awaits(h, N, rest)
  BY <1>3 DEF Awaits
<1>5. Comes(h, N, rest)
  BY <1>2 DEF Comes, rest
<1> QED BY <1>4, <1>5 DEF rest

\* The first field is copied, and the fields of the copy are to come.
LEMMA AwaitsMore ==
  ASSUME NEW g, GoodHeap(g), NEW N, N \subseteq Addresses, NEW todo, Awaits(g, N, todo),
         Comes(g, N, todo), todo # <<>>, NEW o, o = Head(todo)[1], NEW i, i = Head(todo)[2],
         N \subseteq Held(g), IsStruct(g, g[o].items[i]), NEW new \in Addresses, new \notin Held(g),
         NEW h, h = CopiedInto(g, o, i, new), NEW after, after = FieldsOf(h, new) \o Tail(todo)
  PROVE  Awaits(h, N \union {new}, after) /\ Comes(h, N \union {new}, after)
<1>1. todo \in Seq(FieldNames)
  BY DEF Comes
<1>2. /\ Head(todo) \in FieldNames /\ Tail(todo) \in Seq(FieldNames)
      /\ \A x : x \in ToSet(todo) <=> x = Head(todo) \/ x \in ToSet(Tail(todo))
  BY <1>1, FirstAndRest
<1>3. Head(todo) = <<o, i>> /\ o \in N /\ i \in DOMAIN g[o].items
  BY <1>2 DEF FieldNames, Comes
<1>4. o \in Held(g) /\ o # Primitive /\ o \in Addresses /\ o # new
  <2>1. Primitive \notin Addresses
    BY AddressesAssumption
  <2> QED BY <1>3, <2>1
<1>5. /\ GoodHeap(h) /\ h[new] = g[g[o].items[i]] /\ h[o].kind = g[o].kind
      /\ h[o].items = [g[o].items EXCEPT ![i] = new]
      /\ \A q \in Addresses : q # new /\ q # o => h[q] = g[q]
      /\ Held(h) = Held(g) \union {new}
  <2>1. IsCopy(g, CopiedInto(g, o, i, new), o, i, new)
    BY <1>3, <1>4, CopiedIntoIs
  <2>2. IsCopy(g, h, o, i, new)
    BY <2>1
  <2> QED BY <2>2 DEF IsCopy
<1>6. /\ FieldsOf(h, new) \in Seq(FieldNames)
      /\ \A f : f \in ToSet(FieldsOf(h, new)) <=> \E j \in DOMAIN h[new].items : f = <<new, j>>
  <2>1. Sized(h)
    BY <1>5 DEF GoodHeap
  <2> QED BY <2>1, FieldsOfIs
<1>7. /\ after \in Seq(FieldNames)
      /\ \A x : x \in ToSet(after) <=> x \in ToSet(FieldsOf(h, new)) \/ x \in ToSet(Tail(todo))
  BY <1>2, <1>6, BothAre
<1> DEFINE M == N \union {new}
<1>8. ASSUME NEW q \in M, NEW j \in 1..MaxArraySize, j \in DOMAIN h[q].items,
             IsStruct(h, h[q].items[j])
      PROVE  h[q].items[j] \in M \/ <<q, j>> \in ToSet(after)
  <2>1. CASE q = new
    BY <1>6, <1>7, <1>8, <2>1
  <2>2. CASE q = o /\ j = i
    BY <1>3, <1>5, <2>2
  <2>3. CASE q # new /\ ~(q = o /\ j = i)
    <3> DEFINE item == g[q].items[j]
    <3>1. q \in N /\ q \in Addresses
      BY <2>3
    <3>2. h[q].items[j] = item /\ j \in DOMAIN g[q].items
      BY <1>5, <1>8, <2>3, <3>1
    <3>3. item # Primitive /\ item \in Addresses /\ item # new
      <4>1. g[q].items \in Seq(Held(g))
        BY <3>1 DEF GoodHeap
      <4>2. item \in Held(g)
        BY <3>2, <4>1
      <4>3. item # Primitive
        BY <1>8, <3>2 DEF IsStruct
      <4> QED BY <4>2, <4>3, HeldAre
    <3> HIDE DEF item
    <3>4. g[item].kind = h[item].kind
      BY <1>5, <3>3
    <3>5. IsStruct(g, item)
      BY <1>8, <3>2, <3>4 DEF IsStruct
    <3>6. item \in N \/ <<q, j>> \in ToSet(todo)
      BY <3>1, <3>2, <3>5 DEF Awaits, item
    <3>7. <<q, j>> # Head(todo)
      BY <1>3, <2>3
    <3> QED BY <1>2, <1>7, <3>2, <3>6, <3>7
  <2> QED BY <2>1, <2>2, <2>3
<1>9. Awaits(h, M, after)
  <2> HIDE DEF M
  <2> QED BY <1>8 DEF Awaits
<1>10. ASSUME NEW f \in ToSet(after) PROVE f[1] \in M /\ f[2] \in DOMAIN h[f[1]].items
  <2>1. CASE f \in ToSet(FieldsOf(h, new))
    BY <1>6, <2>1
  <2>2. CASE f \in ToSet(Tail(todo))
    <3>1. f[1] \in N /\ f[2] \in DOMAIN g[f[1]].items
      BY <1>2, <2>2 DEF Comes
    <3>2. f[1] # new /\ f[1] \in Addresses
      BY <3>1
    <3>3. DOMAIN h[f[1]].items = DOMAIN g[f[1]].items
      BY <1>5, <3>2
    <3> QED BY <3>1, <3>3
  <2> QED BY <1>7, <2>1, <2>2
<1>11. Comes(h, M, after)
  <2> HIDE DEF M
  <2> QED BY <1>7, <1>10 DEF Comes
<1> QED BY <1>9, <1>11

LEMMA SinceIs ==
  ASSUME NEW g, NEW h
  PROVE  Since(g, h) \subseteq Addresses /\ Since(g, h) \subseteq Held(h)
BY DEF Since, Held

LEMMA CopyStep ==
  ASSUME NEW m, Sound(m), NEW y, Copies(m, y), y.todo # <<>>
  PROVE  Copies(m, Copying(y)) /\ Since(m.heap, y.heap) \subseteq Since(m.heap, Copying(y).heap)
<1> DEFINE z == Copying(y)
           g == y.heap
           N == Since(m.heap, g)
           o == Head(y.todo)[1]
           i == Head(y.todo)[2]
           item == g[o].items[i]
           new == AFreeCell(y)
<1>1. Whole(y) /\ Grows(m.heap, g) /\ SameBut(m, y) /\ Comes(g, N, y.todo) /\ Awaits(g, N, y.todo)
  BY DEF Copies
<1>2. Sound(y)
  BY <1>1, GrowsSteady DEF SameBut
<1>3. FieldItem(y) = item /\ FieldCopied(y) = CopiedInto(g, o, i, new)
  BY DEF FieldItem, FieldCopied, CopiedInto
<1>4. N \subseteq Addresses /\ N \subseteq Held(g)
  BY SinceIs
<1>5. GoodHeap(g)
  BY <1>2 DEF Sound
<1>6. CASE ~IsStruct(g, item)
  <2> DEFINE rest == Tail(y.todo)
             w == WithTodo(y, rest)
  <2>1. z = w
    BY <1>1, <1>3, <1>6, CopyingIs
  <2>2. Awaits(g, N, rest) /\ Comes(g, N, rest)
    BY <1>1, <1>6, AwaitsLess
  <2> HIDE DEF rest, z
  <2>3. /\ Whole(w) /\ w.heap = y.heap /\ w.estack = y.estack /\ w.count = y.count
        /\ w.size = y.size /\ w.todo = rest /\ w.endless = y.endless
    BY <1>1, WithIs
  <2> HIDE DEF w
  <2>4. SameBut(m, w)
    BY <1>1, <2>3 DEF SameBut
  <2>5. Copies(m, w)
    BY <2>2, <2>3, <2>4 DEF Copies
  <2> QED BY <2>1, <2>3, <2>5 DEF z
<1>7. CASE IsStruct(g, item) /\ ~Room(y)
  <2>1. z = y
    BY <1>1, <1>3, <1>7, CopyingIs
  <2> QED BY <2>1
<1>8. CASE IsStruct(g, item) /\ Room(y)
  <2> DEFINE h == CopiedInto(g, o, i, new)
             after == FieldsOf(h, new) \o Tail(y.todo)
             M == N \union {new}
  <2>1. /\ Whole(z) /\ z.heap = FieldCopied(y) /\ SameBut(y, z)
        /\ z.todo = FieldsOf(z.heap, new) \o Tail(y.todo)
    BY <1>1, <1>3, <1>8, CopyingIs
  <2>2. Whole(z) /\ z.heap = h /\ SameBut(y, z) /\ z.todo = after
    <3> HIDE DEF z, new
    <3> QED BY <1>3, <2>1
  <2>3. new \in Addresses /\ new \notin Held(g) /\ g[new].kind = "none"
    BY <1>2, <1>8, RoomIs
  <2> HIDE DEF z, new
  <2>4. Awaits(h, M, after) /\ Comes(h, M, after)
    BY <1>1, <1>4, <1>5, <1>8, <2>3, AwaitsMore
  <2>5. o \in N /\ i \in DOMAIN g[o].items
    <3> DEFINE f == Head(y.todo)
    <3>1. f \in ToSet(y.todo)
      <4>1. y.todo \in Seq(FieldNames)
        BY <1>1 DEF Comes
      <4> QED BY <4>1, FirstAndRest
    <3> HIDE DEF f, N
    <3> QED BY <1>1, <3>1 DEF Comes, f
  <2>6. o \in Held(g) /\ o # Primitive
    <3>1. Primitive \notin Addresses
      BY AddressesAssumption
    <3> QED BY <1>4, <2>5, <3>1
  <2>7. IsCopy(g, h, o, i, new)
    <3> HIDE DEF o, i
    <3> QED BY <1>5, <1>8, <2>3, <2>5, <2>6, CopiedIntoIs
  <2> HIDE DEF h, after
  <2>8. Held(h) = Held(g) \union {new} /\ GoodHeap(h) /\ (Acyclic(g) => Acyclic(h))
        /\ \A q \in Addresses : q # new /\ q # o => h[q] = g[q]
    BY <2>7 DEF IsCopy
  <2>9. Grows(m.heap, h)
    <3>1. ASSUME NEW q \in Addresses, m.heap[q].kind # "none" PROVE h[q] = m.heap[q]
      <4>1. g[q] = m.heap[q]
        BY <1>1, <3>1 DEF Grows
      <4>2. q # new
        BY <2>3, <3>1, <4>1
      <4>3. q # o
        BY <2>5, <3>1 DEF Since
      <4> QED BY <2>8, <4>1, <4>2, <4>3
    <3> QED BY <2>8, <3>1 DEF Grows
  <2>10. Since(m.heap, h) = M
    <3>1. \A q \in Addresses : h[q].kind # "none" <=> g[q].kind # "none" \/ q = new
      <4>1. Primitive \notin Addresses
        BY AddressesAssumption
      <4>2. \A q \in Addresses : q \in Held(h) <=> q \in Held(g) \/ q = new
        BY <2>8
      <4> QED BY <4>1, <4>2 DEF Held
    <3>2. m.heap[new].kind = "none"
      BY <1>1, <2>3 DEF Grows
    <3> QED BY <2>3, <3>1, <3>2 DEF Since
  <2>11. SameBut(m, z)
    BY <1>1, <2>2 DEF SameBut
  <2>12. Copies(m, z)
    <3>1. Acyclic(m.heap) => Acyclic(h)
      BY <2>8 DEF Copies
    <3> HIDE DEF M
    <3> QED BY <2>2, <2>4, <2>9, <2>10, <2>11, <3>1 DEF Copies
  <2> QED BY <2>2, <2>10, <2>12 DEF z
<1> QED BY <1>6, <1>7, <1>8

LEMMA CopyStart ==
  ASSUME NEW m, Sound(m), Room(m), NEW cell, Fills(m.heap, cell), NEW y,
         LET h == [m.heap EXCEPT ![AFreeCell(m)] = cell]
         IN y = WithTodo(WithHeap(m, h), FieldsOf(h, AFreeCell(m)))
  PROVE  Copies(m, y) /\ AFreeCell(m) \in Since(m.heap, y.heap)
<1> DEFINE r == AFreeCell(m)
           h == [m.heap EXCEPT ![r] = cell]
           x == WithHeap(m, h)
           todo == FieldsOf(h, r)
           w == WithTodo(x, todo)
<1>1. r \in Addresses /\ r \notin Held(m.heap) /\ m.heap[r].kind = "none"
  BY RoomIs
<1>2. y = w
  OBVIOUS
<1> HIDE DEF r, w
<1>3. /\ Grows(m.heap, h) /\ r \in Held(h) /\ h[r] = cell /\ (Acyclic(m.heap) => Acyclic(h))
      /\ \A q \in Addresses : q # r => h[q] = m.heap[q]
  <2>1. GoodHeap(m.heap)
    BY DEF Sound
  <2> QED BY <1>1, <2>1, NewCell
<1> HIDE DEF h
<1>4. /\ Whole(x) /\ x.heap = h /\ x.estack = m.estack /\ x.count = m.count
      /\ x.size = m.size /\ x.endless = m.endless
  BY WithIs DEF Sound
<1> HIDE DEF x, todo
<1>5. /\ Whole(w) /\ w.heap = x.heap /\ w.estack = x.estack /\ w.count = x.count
      /\ w.size = x.size /\ w.todo = todo /\ w.endless = x.endless
  BY <1>4, WithIs DEF w
<1>6. Since(m.heap, h) = {r}
  BY <1>1, <1>3 DEF Since, Fills
<1>7. todo \in Seq(FieldNames) /\ \A f : f \in ToSet(todo) <=> \E j \in DOMAIN h[r].items : f = <<r, j>>
  <2>1. Sized(h)
    BY <1>3 DEF Grows, GoodHeap
  <2> QED BY <1>1, <2>1, FieldsOfIs DEF todo
<1>8. Comes(h, {r}, todo) /\ Awaits(h, {r}, todo)
  BY <1>7 DEF Comes, Awaits
<1>9. SameBut(m, w)
  BY <1>4, <1>5 DEF SameBut
<1> HIDE DEF w
<1>10. Copies(m, w)
  BY <1>3, <1>4, <1>5, <1>6, <1>8, <1>9 DEF Copies
<1> QED BY <1>2, <1>4, <1>5, <1>6, <1>10 DEF r

\* The copy that APPEND, SETITEM and VALUES make, finished or not.
LEMMA CopiedIs ==
  ASSUME NEW m, Sound(m), Room(m), NEW cell, Fills(m.heap, cell)
  PROVE  LET c == Copied(m, cell) IN Copies(m, c.m) /\ c.item \in Since(m.heap, c.m.heap)
<1> DEFINE r == AFreeCell(m)
           h == [m.heap EXCEPT ![r] = cell]
           x == WithHeap(m, h)
           todo == FieldsOf(h, r)
           c == Copied(m, cell)
<1>1. c.m = Visited("copy", x, todo) /\ c.item = r
  BY DEF Copied, WithHeap
<1>2. Copies(m, WithTodo(x, todo)) /\ r \in Since(m.heap, WithTodo(x, todo).heap)
  BY CopyStart
<1> HIDE DEF x, todo, c, r
<1>3. PICK f : Traversal(f, "copy", x, todo)
  BY VisitedIs
<1> DEFINE T == {n \in 0..MaxVisits : Copies(m, f[n]) /\ r \in Since(m.heap, f[n].heap)}
<1>4. 0 \in T
  BY <1>2, <1>3, VisitsNat DEF Traversal
<1>5. ASSUME NEW n \in 1..MaxVisits, n - 1 \in T PROVE n \in T
  <2> DEFINE y == f[n - 1]
  <2>1. Copies(m, y) /\ r \in Since(m.heap, y.heap)
    BY <1>5
  <2>2. f[n] = Visiting("copy", y)
    BY <1>3 DEF Traversal
  <2> HIDE DEF y
  <2>3. CASE y.todo = <<>>
    <3>1. f[n] = y
      BY <2>2, <2>3 DEF Visiting
    <3> QED BY <1>5, <2>1, <3>1
  <2>4. CASE y.todo # <<>>
    <3>1. f[n] = Copying(y)
      BY <2>2, <2>4 DEF Visiting
    <3>2. Copies(m, Copying(y)) /\ r \in Since(m.heap, Copying(y).heap)
      BY <2>1, <2>4, CopyStep
    <3> QED BY <1>5, <3>1, <3>2
  <2> QED BY <2>3, <2>4
<1>6. MaxVisits \in T
  <2> HIDE DEF T
  <2>1. \A n \in 1..MaxVisits : n - 1 \in T => n \in T
    BY <1>5
  <2>2. \A n \in 0..MaxVisits : n \in T
    BY <1>4, <2>1, EveryVisit
  <2> QED BY <2>2, VisitsNat
<1>7. c.m = f[MaxVisits]
  BY <1>1, <1>3 DEF Traversal
<1> QED BY <1>1, <1>6, <1>7 DEF c

\* The fields of a copy that is finished are copies too.
LEMMA CopiedInside ==
  ASSUME NEW m, Sound(m), NEW y, Copies(m, y), y.todo = <<>>
  PROVE  Goes(m, y) /\ Steady(m, y) /\ y.estack = m.estack /\ Inside(y.heap, Since(m.heap, y.heap))
<1> DEFINE h == y.heap
           N == Since(m.heap, h)
<1>1. Whole(y) /\ Grows(m.heap, h) /\ SameBut(m, y) /\ Awaits(h, N, y.todo)
  BY DEF Copies
<1>2. Sound(y) /\ Steady(m, y)
  BY <1>1, GrowsSteady DEF SameBut
<1>3. Goes(m, y)
  BY <1>2 DEF Goes, Copies
<1>4. ASSUME NEW r \in N, NEW x \in Structs(h), x \in Contents(h, {r}) PROVE x \in N
  <2>1. x # Primitive /\ x \in ToSet(h[r].items)
    BY <1>4, ContentsOne
  <2>2. Sized(h) /\ r \in Addresses
    BY <1>1, SinceIs DEF Grows, GoodHeap
  <2> HIDE DEF h, N
  <2>3. /\ DOMAIN h[r].items = 1..Len(h[r].items) /\ Len(h[r].items) \in 0..MaxArraySize
    BY <2>2, ItemsOf
  <2>4. PICK j \in DOMAIN h[r].items : x = h[r].items[j]
    BY <2>1 DEF ToSet
  <2>5. MaxArraySize \in Nat
    BY BoundsAssumption
  <2>6. j \in 1..MaxArraySize
    BY <2>3, <2>4, <2>5
  <2>7. IsStruct(h, h[r].items[j])
    BY <1>4, <2>1, <2>4 DEF IsStruct, Structs
  <2>8. ToSet(y.todo) = {}
    BY DEF ToSet
  <2> QED BY <1>1, <2>4, <2>6, <2>7, <2>8 DEF Awaits
<1>5. Inside(h, N)
  <2> HIDE DEF h, N
  <2> QED BY <1>4 DEF Inside
<1>6. y.estack = m.estack
  BY <1>1 DEF SameBut
<1> QED BY <1>2, <1>3, <1>5, <1>6

\* What APPEND and SETITEM store: the item, or a copy that contains copies.
LEMMA CloneIs ==
  ASSUME NEW m, Sound(m), m.todo = <<>>, NEW item \in Held(m.heap), RoomToClone(m, item)
  PROVE  LET c == CloneIfStruct(m, item)
             N == Since(m.heap, c.m.heap)
         IN /\ Goes(m, c.m) /\ Steady(m, c.m) /\ c.m.estack = m.estack /\ c.m.count = m.count
            /\ c.item \in Held(c.m.heap) /\ Inside(c.m.heap, N)
            /\ c.item \in N \/ c.item \notin Structs(c.m.heap)
<1> DEFINE c == CloneIfStruct(m, item)
           N == Since(m.heap, c.m.heap)
<1>1. CASE IsStruct(m.heap, item)
  <2> DEFINE d == Copied(m, m.heap[item])
  <2>1. c = d /\ Room(m) /\ d.m.todo = <<>>
    BY <1>1 DEF CloneIfStruct, RoomToClone
  <2>2. item \in Addresses /\ m.heap[item].kind = "Struct"
    BY <1>1, HeldAre DEF IsStruct
  <2>3. Fills(m.heap, m.heap[item])
    BY <2>2 DEF Fills, Sound, GoodHeap, Sized
  <2> HIDE DEF d
  <2>4. Copies(m, d.m) /\ d.item \in Since(m.heap, d.m.heap)
    BY <2>1, <2>3, CopiedIs DEF d
  <2>5. Goes(m, d.m) /\ Steady(m, d.m) /\ d.m.estack = m.estack /\ Inside(d.m.heap, Since(m.heap, d.m.heap))
    BY <2>1, <2>4, CopiedInside
  <2>6. d.m.count = m.count
    BY <2>4 DEF Copies, SameBut
  <2>7. d.item \in Held(d.m.heap)
    BY <2>4, SinceIs
  <2> HIDE DEF c
  <2> QED BY <2>1, <2>4, <2>5, <2>6, <2>7 DEF c
<1>2. CASE ~IsStruct(m.heap, item)
  <2>1. c.m = m /\ c.item = item
    BY <1>2 DEF CloneIfStruct
  <2>2. N = {}
    BY <2>1 DEF Since
  <2>3. item \notin Structs(m.heap)
    <3>1. Primitive \notin Addresses
      BY AddressesAssumption
    <3> QED BY <1>2, <3>1 DEF IsStruct, Structs
  <2>4. Steady(m, m) /\ Goes(m, m)
    <3>1. Steady(m, m)
      BY DEF Steady
    <3> QED BY <3>1, GoesSame
  <2> HIDE DEF c
  <2>5. Inside(c.m.heap, N)
    BY <2>2 DEF Inside
  <2> HIDE DEF N
  <2> QED BY <2>1, <2>3, <2>4, <2>5 DEF c, N
<1> QED BY <1>1, <1>2

-----------------------------------------------------------------------------
(* Changes of one container                                                *)

Refilled(g, obj, s) == [g EXCEPT ![obj].items = s]

IsRefilled(g, h, obj, s) ==
  /\ GoodHeap(h) /\ Held(h) = Held(g) /\ h[obj].items = s /\ obj \in Addresses
  /\ \A q \in Addresses : h[q].kind = g[q].kind /\ (q # obj => h[q] = g[q])

LEMMA RefilledIs ==
  ASSUME NEW g, GoodHeap(g), NEW obj \in Held(g), obj # Primitive, NEW s \in Seq(Held(g)),
         Len(s) <= MaxArraySize
  PROVE  IsRefilled(g, Refilled(g, obj, s), obj, s)
<1> DEFINE h == Refilled(g, obj, s)
<1>1. obj \in Addresses
  BY HeldAre
<1>2. g \in [Addresses -> Cell] /\ \A q \in Addresses : Len(g[q].items) <= MaxArraySize
  BY DEF GoodHeap, Sized
<1>3. /\ h[obj] = [g[obj] EXCEPT !.items = s] /\ DOMAIN h = Addresses
      /\ \A q \in Addresses : q # obj => h[q] = g[q]
      /\ h = [q \in Addresses |-> h[q]]
  BY <1>1, <1>2 DEF Refilled
<1>4. g[obj] \in Cell
  BY <1>1, <1>2
<1>5. h[obj].kind = g[obj].kind /\ h[obj].items = s /\ h[obj] = [kind |-> g[obj].kind, items |-> s]
  BY <1>3, <1>4 DEF Cell
<1> HIDE DEF h
<1>6. Held(h) = Held(g)
  BY <1>3, <1>5 DEF Held
<1>7. Held(g) \subseteq Items
  BY DEF Held, Items
<1>8. s \in Seq(Items) /\ g[obj].kind \in Kinds
  BY <1>4, <1>7 DEF Cell
<1>9. h[obj] \in Cell
  BY <1>5, <1>8 DEF Cell
<1>10. ASSUME NEW q \in Addresses
       PROVE  h[q] \in Cell /\ Len(h[q].items) <= MaxArraySize /\ h[q].items \in Seq(Held(h))
  <2>1. CASE q = obj
    BY <1>5, <1>6, <1>9, <2>1
  <2>2. CASE q # obj
    BY <1>2, <1>3, <1>6, <2>2 DEF GoodHeap
  <2> QED BY <2>1, <2>2
<1>11. GoodHeap(h)
  BY <1>3, <1>10 DEF GoodHeap, Sized
<1>12. IsRefilled(g, h, obj, s)
  BY <1>1, <1>3, <1>5, <1>6, <1>11 DEF IsRefilled
<1> QED BY <1>12 DEF h

\* Two heaps that differ in one container, and the accounts with one and with the other.
Differ(m, x, g, h, obj) ==
  /\ m.estack \in Seq(Items) /\ m.count \in [Addresses -> Nat] /\ m.size \in Int
  /\ x.estack = m.estack /\ x.count = m.count /\ x.size = m.size
  /\ Sized(g) /\ Sized(h) /\ obj \in Addresses
  /\ \A q \in Addresses : q # obj => h[q] = g[q]
RefsRecounted(m, x, g, h, obj, r) ==
  IF obj \in InCount(m)
  THEN Spare(x, h, r) = (Spare(m, g, r) + Occurrences(r, g[obj].items)) - Occurrences(r, h[obj].items)
  ELSE Spare(x, h, r) = Spare(m, g, r)
SizeRecounted(m, x, g, h, obj) ==
  IF obj \in InCount(m)
  THEN SpareSize(x, h) = (SpareSize(m, g) + Len(g[obj].items)) - Len(h[obj].items)
  ELSE SpareSize(x, h) = SpareSize(m, g)

LEMMA Recounted ==
  ASSUME NEW m, NEW x, NEW g, NEW h, NEW obj, Differ(m, x, g, h, obj)
  PROVE  SizeRecounted(m, x, g, h, obj) /\ \A r \in Addresses : RefsRecounted(m, x, g, h, obj, r)
<1> DEFINE S == InCount(m)
           R == S \ {obj}
<1>1. /\ S \subseteq Addresses /\ R \subseteq Addresses /\ InCount(x) = S /\ obj \in Addresses \ R
      /\ Sized(g) /\ Sized(h) /\ \A q \in R : h[q] = g[q]
  BY DEF InCount, Differ
<1>2. \A r : Fields(h, R) = Fields(g, R) /\ Having(h, R, r) = Having(g, R, r)
  BY <1>1, FieldsAgree
<1>3. CASE obj \notin S
  <2>1. R = S
    BY <1>3
  <2>2. \A r : Fields(h, S) = Fields(g, S) /\ Having(h, S, r) = Having(g, S, r)
    <3> HIDE DEF R
    <3> QED BY <1>2, <2>1
  <2>3. \A r \in Addresses : Spare(x, h, r) = Spare(m, g, r)
    BY <1>1, <2>2 DEF Spare, Refs, Differ
  <2>4. SpareSize(x, h) = SpareSize(m, g)
    BY <1>1, <2>2 DEF SpareSize, Differ
  <2> HIDE DEF S
  <2> QED BY <1>3, <2>3, <2>4 DEF S, RefsRecounted, SizeRecounted
<1>4. CASE obj \in S
  <2>1. R \union {obj} = S
    BY <1>4
  <2> HIDE DEF R, S
  <2>2. /\ Cardinality(Fields(h, S)) = Cardinality(Fields(h, R)) + Len(h[obj].items)
        /\ Cardinality(Fields(g, S)) = Cardinality(Fields(g, R)) + Len(g[obj].items)
    BY <1>1, <2>1, FieldsMore
  <2>3. \A r : /\ Cardinality(Having(h, S, r)) = Cardinality(Having(h, R, r)) + Occurrences(r, h[obj].items)
               /\ Cardinality(Having(g, S, r)) = Cardinality(Having(g, R, r)) + Occurrences(r, g[obj].items)
    BY <1>1, <2>1, HavingMore
  <2>4. /\ Len(h[obj].items) \in Nat /\ Len(g[obj].items) \in Nat
        /\ h[obj].items \in Seq(Items) /\ g[obj].items \in Seq(Items)
    BY <1>1, ItemsOf
  <2>5. ASSUME NEW r \in Addresses PROVE RefsRecounted(m, x, g, h, obj, r)
    <3> DEFINE a == Occurrences(r, g[obj].items)
               b == Occurrences(r, h[obj].items)
               k == Cardinality(Having(g, R, r))
               e == Occurrences(r, m.estack)
               c == m.count[r]
               u == Spare(x, h, r)
               v == Spare(m, g, r)
    <3>1. a \in Nat /\ b \in Nat /\ k \in Nat /\ e \in Nat /\ c \in Nat
      BY <1>1, <2>4, FieldsFinite, OccurrencesType DEF Differ
    <3>2. u = c - (e + (k + b)) /\ v = c - (e + (k + a))
      BY <1>1, <1>2, <2>3 DEF Spare, Refs, Differ, S
    <3> HIDE DEF a, b, k, e, c, u, v
    <3>3. u = (v + a) - b
      BY <3>1, <3>2
    <3> QED BY <1>4, <3>3 DEF a, b, u, v, RefsRecounted, S
  <2>6. SizeRecounted(m, x, g, h, obj)
    <3> DEFINE a == Len(g[obj].items)
               b == Len(h[obj].items)
               k == Cardinality(Fields(g, R))
               e == Len(m.estack)
               c == m.size
               u == SpareSize(x, h)
               v == SpareSize(m, g)
    <3>1. a \in Nat /\ b \in Nat /\ k \in Nat /\ e \in Nat /\ c \in Int
      BY <1>1, <2>4, FieldsCount DEF Differ
    <3>2. u = c - (e + (k + b)) /\ v = c - (e + (k + a))
      BY <1>1, <1>2, <2>2 DEF SpareSize, Differ, S
    <3> HIDE DEF a, b, k, e, c, u, v
    <3>3. u = (v + a) - b
      BY <3>1, <3>2
    <3> QED BY <1>4, <3>3 DEF a, b, u, v, SizeRecounted, S
  <2> QED BY <2>5, <2>6
<1> QED BY <1>3, <1>4

LEMMA HeldItems ==
  ASSUME NEW g
  PROVE  Held(g) \subseteq Items
BY DEF Held, Items

Refills(m, x, obj, s) ==
  /\ Sound(x) /\ x.heap = Refilled(m.heap, obj, s) /\ x.heap[obj].items = s
  /\ x.estack = m.estack /\ x.count = m.count /\ x.size = m.size /\ x.todo = m.todo
  /\ x.endless = m.endless /\ Held(x.heap) = Held(m.heap)
  /\ Differ(m, x, m.heap, x.heap, obj)

LEMMA RefillSound ==
  ASSUME NEW m, Sound(m), NEW obj \in Held(m.heap), obj # Primitive, NEW s \in Seq(Held(m.heap)),
         Len(s) <= MaxArraySize
  PROVE  Refills(m, WithHeap(m, Refilled(m.heap, obj, s)), obj, s)
<1> DEFINE h == Refilled(m.heap, obj, s)
           x == WithHeap(m, h)
<1>1. GoodHeap(m.heap) /\ Whole(m) /\ m.estack \in Seq(Held(m.heap)) /\ Held(m.heap) \subseteq Items
  BY HeldItems DEF Sound
<1>2. /\ GoodHeap(h) /\ Held(h) = Held(m.heap) /\ h[obj].items = s /\ obj \in Addresses
      /\ \A q \in Addresses : h[q].kind = m.heap[q].kind /\ (q # obj => h[q] = m.heap[q])
  <2>1. IsRefilled(m.heap, h, obj, s)
    BY <1>1, RefilledIs
  <2> HIDE DEF h
  <2> QED BY <2>1 DEF IsRefilled
<1> HIDE DEF h
<1>3. /\ Whole(x) /\ x.heap = h /\ x.estack = m.estack /\ x.count = m.count /\ x.size = m.size
      /\ x.todo = m.todo /\ x.endless = m.endless
  BY <1>1, WithIs
<1> HIDE DEF x
<1>4. Sound(x)
  BY <1>2, <1>3 DEF Sound
<1>5. m.estack \in Seq(Items)
  BY <1>1
<1>6. Differ(m, x, m.heap, x.heap, obj)
  BY <1>1, <1>2, <1>3, <1>5 DEF Differ, Sound, GoodHeap
<1>7. Refills(m, x, obj, s)
  BY <1>2, <1>3, <1>4, <1>6 DEF Refills, h
<1> QED BY <1>7 DEF x, h

LEMMA OneItem ==
  ASSUME NEW X, NEW item \in X
  PROVE  /\ <<item>> \in Seq(X) /\ Len(<<item>>) = 1 /\ Len(<<item>>) <= MaxHeight + MaxArraySize
         /\ \A r : Occurrences(r, <<item>>) = One(r, item)
<1>1. MaxHeight \in Nat /\ MaxArraySize \in Nat /\ MaxArraySize # 0
  BY BoundsAssumption
<1>2. \A r : Occurrences(r, <<item>>) = One(r, item)
  BY OccurrencesOne DEF One
<1> QED BY <1>1, <1>2

\* What is stored in a container that is counted is counted once more; in one
\* that is not, it is counted too much.
LEMMA StoredIs ==
  ASSUME NEW m, Sound(m), NEW obj \in Held(m.heap), obj # Primitive, NEW item \in Held(m.heap),
         Len(m.heap[obj].items) < MaxArraySize
  PROVE  LET y == Stored(m, obj, item)
         IN /\ Sound(y) /\ y.todo = <<>> /\ y.estack = m.estack /\ y.endless = m.endless
            /\ y.heap = Refilled(m.heap, obj, Append(m.heap[obj].items, item))
            /\ obj \in InCount(m) => Steady(m, y)
            /\ Covering(m) => Covering(y)
<1> DEFINE t == m.heap[obj].items
           s == Append(t, item)
           h == Refilled(m.heap, obj, s)
           x == WithHeap(m, h)
           y == Added(x, <<item>>)
<1>1. obj \in Addresses /\ t \in Seq(Held(m.heap)) /\ Len(t) \in Nat
  BY HeldAre, LenProperties DEF Sound, GoodHeap
<1>2. Stored(m, obj, item) = y
  BY DEF Stored, Refilled, WithHeap
<1>3. /\ s \in Seq(Held(m.heap)) /\ Len(s) = Len(t) + 1
      /\ \A r : Occurrences(r, s) = Occurrences(r, t) + One(r, item)
      /\ \A r : Occurrences(r, t) \in Nat
  BY <1>1, OccurrencesAppend, OccurrencesType
<1>4. Len(s) <= MaxArraySize
  <2> HIDE DEF t, s
  <2>1. MaxArraySize \in Nat
    BY BoundsAssumption
  <2>2. Len(t) < MaxArraySize
    BY DEF t
  <2> QED BY <1>1, <1>3, <2>1, <2>2
<1> HIDE DEF s, y
<1>5. /\ Sound(x) /\ x.heap = h /\ x.heap[obj].items = s /\ x.estack = m.estack /\ x.count = m.count
      /\ x.endless = m.endless /\ Held(x.heap) = Held(m.heap) /\ Differ(m, x, m.heap, x.heap, obj)
  <2>1. s \in Seq(Held(m.heap)) /\ Len(s) <= MaxArraySize
    BY <1>3, <1>4
  <2>2. Refills(m, x, obj, s)
    BY <2>1, RefillSound
  <2> HIDE DEF x
  <2> QED BY <2>2 DEF Refills
<1> HIDE DEF x, h
<1>6. /\ Sound(y) /\ SameStore(x, y) /\ y.todo = <<>> /\ AddedAre(x, y, <<item>>)
  BY <1>5, OneItem, AddedIs DEF y
<1>7. /\ \A r \in Addresses : Spare(y, y.heap, r) = Spare(x, x.heap, r) + One(r, item)
      /\ SpareSize(y, y.heap) = SpareSize(x, x.heap) + 1
  BY <1>6, OneItem DEF AddedAre, SameStore
<1>8. /\ SizeRecounted(m, x, m.heap, x.heap, obj)
      /\ \A r \in Addresses : RefsRecounted(m, x, m.heap, x.heap, obj, r)
  BY <1>5, Recounted
<1>9. /\ \A r \in Addresses : Spare(m, m.heap, r) \in Int
      /\ SpareSize(m, m.heap) \in Int
  BY SpareType
<1>10. \A r : One(r, item) \in Nat
  BY DEF One
<1>11. CASE obj \in InCount(m)
  <2>1. ASSUME NEW r \in Addresses PROVE Spare(y, y.heap, r) = Spare(m, m.heap, r)
    <3>1. Spare(x, x.heap, r) = (Spare(m, m.heap, r) + Occurrences(r, t)) - Occurrences(r, s)
      BY <1>5, <1>8, <1>11 DEF RefsRecounted
    <3> DEFINE a == Occurrences(r, t)
               b == Occurrences(r, s)
               c == Spare(m, m.heap, r)
               d == Spare(x, x.heap, r)
               e == Spare(y, y.heap, r)
               f == One(r, item)
    <3>2. d = (c + a) - b /\ b = a + f /\ a \in Nat /\ f \in Nat /\ c \in Int /\ e = d + f
      BY <1>3, <1>7, <1>9, <1>10, <3>1
    <3> HIDE DEF a, b, c, d, e, f
    <3>3. e = c
      BY <3>2
    <3> QED BY <3>3 DEF e, c
  <2>2. SpareSize(y, y.heap) = SpareSize(m, m.heap)
    <3>1. SpareSize(x, x.heap) = (SpareSize(m, m.heap) + Len(t)) - Len(s)
      BY <1>5, <1>8, <1>11 DEF SizeRecounted
    <3> DEFINE a == Len(t)
               b == Len(s)
               c == SpareSize(m, m.heap)
               d == SpareSize(x, x.heap)
               e == SpareSize(y, y.heap)
    <3>2. d = (c + a) - b /\ b = a + 1 /\ a \in Nat /\ c \in Int /\ e = d + 1
      BY <1>1, <1>3, <1>7, <1>9, <3>1
    <3> HIDE DEF a, b, c, d, e
    <3>3. e = c
      BY <3>2
    <3> QED BY <3>3 DEF e, c
  <2>3. Steady(m, y)
    BY <1>5, <1>6, <2>1, <2>2 DEF Steady, SameStore
  <2>4. Covering(m) => Covering(y)
    BY <2>3, SteadyCovering
  <2> QED BY <1>2, <1>5, <1>6, <2>3, <2>4 DEF SameStore, h, s
<1>12. CASE obj \notin InCount(m)
  <2>1. /\ \A r \in Addresses : Spare(y, y.heap, r) = Spare(m, m.heap, r) + One(r, item)
        /\ SpareSize(y, y.heap) = SpareSize(m, m.heap) + 1
    BY <1>7, <1>8, <1>12 DEF RefsRecounted, SizeRecounted
  <2>2. Covering(m) => Covering(y)
    <3>1. ASSUME Covering(m), NEW r \in Addresses PROVE Spare(y, y.heap, r) >= 0
      <4> DEFINE a == Spare(m, m.heap, r)
                 b == One(r, item)
      <4>1. a \in Int /\ a >= 0 /\ b \in Nat
        BY <1>9, <1>10, <3>1 DEF Covering, Settled
      <4> HIDE DEF a, b
      <4>2. a + b >= 0
        BY <4>1
      <4> QED BY <2>1, <4>2 DEF a, b
    <3>2. ASSUME Covering(m) PROVE SpareSize(y, y.heap) >= 0
      <4> DEFINE a == SpareSize(m, m.heap)
      <4>1. a \in Int /\ a >= 0
        BY <1>9, <3>2 DEF Covering
      <4> HIDE DEF a
      <4>2. a + 1 >= 0
        BY <4>1
      <4> QED BY <2>1, <4>2 DEF a
    <3> QED BY <3>1, <3>2 DEF Covering, Settled
  <2> QED BY <1>2, <1>5, <1>6, <1>12, <2>2 DEF SameStore, h, s
<1> QED BY <1>11, <1>12

\* Changing a container does not cut it off, and neither does a new one.
LEMMA ReachedStill ==
  ASSUME NEW g, GoodHeap(g), NEW st \in Seq(Held(g)), NEW h, Sized(h), NEW obj,
         obj \in Reachable(g, st),
         \A q \in Addresses : q \in Held(g) /\ q # obj => h[q] = g[q]
  PROVE  obj \in Reachable(h, st)
<1> DEFINE S == ToSet(st) \ {Primitive}
           T == Closure(h, S)
           U == T \intersect Held(g)
<1>1. S \subseteq Held(g) /\ S \subseteq Addresses
  <2>1. ToSet(st) \subseteq Held(g)
    BY DEF ToSet
  <2> QED BY <2>1 DEF Held
<1> HIDE DEF S
<1>2. T \subseteq Addresses /\ S \subseteq T /\ Contents(h, T) \subseteq T
  BY <1>1, ClosureCloses DEF Closes
<1> HIDE DEF T
<1>3. ASSUME obj \notin T PROVE FALSE
  <2>1. ASSUME NEW x \in Contents(g, U) PROVE x \in U
    <3>1. PICK q \in U : x # Primitive /\ x \in ToSet(g[q].items)
      BY <2>1, InContents
    <3>2. q \in T /\ q \in Held(g) /\ q \in Addresses /\ q # obj
      BY <1>2, <1>3
    <3>3. h[q] = g[q]
      BY <3>2
    <3>4. x \in Contents(h, T)
      BY <3>1, <3>2, <3>3, InContents
    <3>5. g[q].items \in Seq(Held(g))
      BY <3>2 DEF GoodHeap
    <3>6. x \in Held(g)
      BY <3>1, <3>5 DEF ToSet
    <3> QED BY <1>2, <3>4, <3>6
  <2>2. Closes(g, S, U)
    BY <1>1, <1>2, <2>1 DEF Closes
  <2>3. Closure(g, S) \subseteq U
    BY <2>2, ClosureLeast
  <2> QED BY <1>3, <2>3 DEF Reachable, S
<1> QED BY <1>3 DEF Reachable, S, T

OthersSame(g, h, obj) == \A q \in Addresses : q # obj => h[q] = g[q]

\* With another heap at hand: what the machine's own accounts become.
LEMMA OtherHeap ==
  ASSUME NEW m, Sound(m), NEW obj \in InCount(m), NEW g, Sized(g),
         OthersSame(m.heap, g, obj)
  PROVE  /\ \A r \in Addresses :
              Spare(m, g, r) = (Spare(m, m.heap, r) + Occurrences(r, m.heap[obj].items))
                                 - Occurrences(r, g[obj].items)
         /\ SpareSize(m, g) = (SpareSize(m, m.heap) + Len(m.heap[obj].items)) - Len(g[obj].items)
<1>1. m.estack \in Seq(Items)
  BY HeldItems DEF Sound
<1>2. obj \in Addresses
  BY DEF InCount
<1>3. Differ(m, m, m.heap, g, obj)
  BY <1>1, <1>2 DEF Differ, OthersSame, Sound, GoodHeap
<1>4. SizeRecounted(m, m, m.heap, g, obj) /\ \A r \in Addresses : RefsRecounted(m, m, m.heap, g, obj, r)
  BY <1>3, Recounted
<1> QED BY <1>4 DEF SizeRecounted, RefsRecounted

LEMMA ReachedCounted ==
  ASSUME NEW m, Sound(m), Covering(m), NEW obj \in Reachable(m.heap, m.estack)
  PROVE  obj \in InCount(m)
<1>1. Sized(m.heap) /\ Settled(m, m.heap)
  BY DEF Sound, GoodHeap, Covering
<1> QED BY <1>1, Rooted

Lets(t, s, old) == \A r \in Addresses : Occurrences(r, t) = Occurrences(r, s) + One(r, old)

GivesUp(m, y, g, obj, k) ==
  /\ SameStore(m, y) /\ obj \in InCount(y)
  /\ \A r \in Addresses : Spare(y, g, r) = Spare(m, m.heap, r)
  /\ SpareSize(y, g) = (SpareSize(m, m.heap) + k) - 1

\* What an item is given up for: the traversal finds another heap g, in which it
\* is not, and takes it from the accounts of that one.
LEMMA GivenUp ==
  ASSUME NEW m, Sound(m), Covering(m), NEW obj \in Reachable(m.heap, m.estack), obj # Primitive,
         NEW s \in Seq(Held(m.heap)), Len(s) <= MaxArraySize, NEW old \in Held(m.heap),
         NEW k \in {0, 1}, Len(s) = Len(m.heap[obj].items) - k,
         Lets(m.heap[obj].items, s, old)
  PROVE  GivesUp(m, Removed(m, <<old>>), Refilled(m.heap, obj, s), obj, k)
<1> DEFINE g == Refilled(m.heap, obj, s)
           y == Removed(m, <<old>>)
           t == m.heap[obj].items
<1>1. obj \in InCount(m) /\ obj \in Addresses /\ GoodHeap(m.heap) /\ m.estack \in Seq(Held(m.heap))
  BY ReachedCounted DEF InCount, Sound
<1>2. obj \in Held(m.heap)
  BY <1>1 DEF InCount, Sound
<1>3. GoodHeap(g) /\ g[obj].items = s /\ \A q \in Addresses : q # obj => g[q] = m.heap[q]
  <2>1. IsRefilled(m.heap, g, obj, s)
    BY <1>1, <1>2, RefilledIs
  <2> HIDE DEF g
  <2> QED BY <2>1 DEF IsRefilled
<1> HIDE DEF g
<1>4. Sized(g)
  BY <1>3 DEF GoodHeap
<1>5. obj \in Reachable(g, m.estack)
  BY <1>1, <1>3, <1>4, ReachedStill
<1>6. Agrees(m, g)
  BY <1>3, <1>4, <1>5 DEF Agrees
<1>7. /\ \A r \in Addresses : Spare(m, g, r) = (Spare(m, m.heap, r) + Occurrences(r, t)) - Occurrences(r, s)
      /\ SpareSize(m, g) = (SpareSize(m, m.heap) + Len(t)) - Len(s)
  <2>1. OthersSame(m.heap, g, obj)
    BY <1>3 DEF OthersSame
  <2> QED BY <1>1, <1>3, <1>4, <2>1, OtherHeap
<1>8. /\ \A r \in Addresses : Spare(m, m.heap, r) \in Int /\ Spare(m, m.heap, r) >= 0
      /\ SpareSize(m, m.heap) \in Int
  BY SpareType DEF Covering, Settled
<1>9. Len(t) \in Nat /\ \A r : Occurrences(r, t) \in Nat /\ Occurrences(r, s) \in Nat
  <2>1. t \in Seq(Held(m.heap))
    BY <1>1 DEF GoodHeap
  <2> QED BY <2>1, OccurrencesType
<1>10. \A r : One(r, old) \in Nat
  BY DEF One
<1>11. ASSUME NEW r \in Addresses
       PROVE  Spare(m, g, r) = Spare(m, m.heap, r) + One(r, old) /\ Spare(m, g, r) >= One(r, old)
  <2> DEFINE a == Occurrences(r, t)
             b == Occurrences(r, s)
             c == Spare(m, m.heap, r)
             d == Spare(m, g, r)
             e == One(r, old)
  <2>1. d = (c + a) - b /\ a = b + e /\ b \in Nat /\ e \in Nat /\ c \in Int /\ c >= 0
    BY <1>7, <1>8, <1>9, <1>10 DEF Lets
  <2> HIDE DEF a, b, c, d, e
  <2>2. d = c + e /\ d >= e
    BY <2>1
  <2> QED BY <2>2 DEF c, d, e
<1>12. Exceeds(m, g, <<old>>)
  BY <1>11, OneItem DEF Exceeds
<1>13. SameStore(m, y) /\ RemovedAre(m, y, <<old>>, g) /\ Sound(y) /\ y.heap = m.heap /\ y.estack = m.estack
  <2>1. SameStore(m, y) /\ RemovedAre(m, y, <<old>>, g)
    BY <1>6, <1>12, OneItem, RemovedIs
  <2>2. Sound(y) /\ y.heap = m.heap /\ y.estack = m.estack
    BY OneItem, RemovedSound
  <2> QED BY <2>1, <2>2
<1> HIDE DEF y, t
<1>14. ASSUME NEW r \in Addresses PROVE Spare(y, g, r) = Spare(m, m.heap, r)
  <2>1. Spare(y, g, r) = Spare(m, g, r) - One(r, old)
    BY <1>13, OneItem DEF RemovedAre
  <2> QED BY <1>8, <1>10, <1>11, <2>1
<1>15. SpareSize(y, g) = (SpareSize(m, m.heap) + k) - 1
  <2>1. SpareSize(y, g) = SpareSize(m, g) - 1
    BY <1>13, OneItem DEF RemovedAre
  <2>2. Len(s) = Len(t) - k
    BY DEF t
  <2> DEFINE a == SpareSize(y, g)
             b == SpareSize(m, g)
             c == SpareSize(m, m.heap)
             d == Len(t)
             e == Len(s)
  <2>3. a = b - 1 /\ b = (c + d) - e /\ e = d - k /\ c \in Int /\ d \in Nat
    BY <1>7, <1>8, <1>9, <2>1, <2>2
  <2> HIDE DEF a, b, c, d, e
  <2>4. a = (c + k) - 1
    BY <2>3
  <2> QED BY <2>4 DEF a, c
<1>16. obj \in InCount(y)
  <2>1. Settled(y, g)
    BY <1>8, <1>14 DEF Settled
  <2>2. obj \in Reachable(g, y.estack)
    BY <1>5, <1>13
  <2> QED BY <1>4, <1>13, <2>1, <2>2, Rooted
<1>17. GivesUp(m, y, g, obj, k)
  BY <1>13, <1>14, <1>15, <1>16 DEF GivesUp
<1> QED BY <1>17 DEF y, g

\* REMOVE, of a list or a map.
ItemRemoved(m, obj, i) ==
  [Removed(m, <<m.heap[obj].items[i]>>) EXCEPT !.heap[obj].items = RemoveAt(@, i)]

LEMMA ItemRemovedIs ==
  ASSUME NEW m, Sound(m), NEW obj \in Held(m.heap), obj # Primitive,
         NEW i \in 1..Len(m.heap[obj].items)
  PROVE  LET z == ItemRemoved(m, obj, i)
         IN /\ Sound(z) /\ z.todo = <<>> /\ z.estack = m.estack
            /\ z.heap = Refilled(m.heap, obj, RemoveAt(m.heap[obj].items, i))
            /\ Covering(m) /\ obj \in Reachable(m.heap, m.estack) => Steady(m, z)
<1> DEFINE t == m.heap[obj].items
           old == t[i]
           s == RemoveAt(t, i)
           y == Removed(m, <<old>>)
           g == Refilled(m.heap, obj, s)
           x == WithHeap(y, g)
           z == ItemRemoved(m, obj, i)
<1>1. GoodHeap(m.heap) /\ obj \in Addresses /\ t \in Seq(Held(m.heap)) /\ Len(t) \in 0..MaxArraySize
  <2>1. GoodHeap(m.heap) /\ obj \in Addresses
    BY HeldAre DEF Sound
  <2> QED BY <2>1, ItemsOf DEF GoodHeap
<1>2. /\ s \in Seq(Held(m.heap)) /\ Len(t) = Len(s) + 1 /\ Len(s) \in Nat /\ old \in Held(m.heap)
      /\ \A r : Occurrences(r, t) = Occurrences(r, s) + One(r, old)
  <2>1. i \in 1..Len(t) /\ t \in Seq(Held(m.heap))
    BY <1>1
  <2> HIDE DEF t
  <2>2. ASSUME NEW r PROVE Occurrences(r, t) = Occurrences(r, RemoveAt(t, i)) + One(r, t[i])
    BY <2>1, OccurrencesOthers
  <2>3. /\ RemoveAt(t, i) \in Seq(Held(m.heap)) /\ Len(t) = Len(RemoveAt(t, i)) + 1
        /\ Len(RemoveAt(t, i)) \in Nat /\ t[i] \in Held(m.heap)
    BY <2>1, OccurrencesOthers
  <2> QED BY <2>2, <2>3
<1>3. Lets(t, s, old)
  BY <1>2 DEF Lets
<1>4. Len(s) = Len(t) - 1 /\ Len(s) <= MaxArraySize
  <2> HIDE DEF s, t
  <2>1. MaxArraySize \in Nat
    BY BoundsAssumption
  <2> QED BY <1>1, <1>2, <2>1
<1>5. Sound(y) /\ y.heap = m.heap /\ y.estack = m.estack /\ y.todo = <<>>
  BY <1>2, OneItem, RemovedSound
<1>6. z = x
  <2>1. z = [y EXCEPT !.heap[obj].items = RemoveAt(@, i)]
    BY DEF ItemRemoved
  <2> HIDE DEF y
  <2> QED BY <1>5, <2>1 DEF WithHeap, Refilled
<1> HIDE DEF y, z
<1>7. Refills(y, x, obj, s)
  <2> HIDE DEF s
  <2> QED BY <1>2, <1>4, <1>5, RefillSound
<1> HIDE DEF g, x, s
<1>8. ASSUME Covering(m), obj \in Reachable(m.heap, m.estack) PROVE Steady(m, x)
  <2>1. GivesUp(m, y, g, obj, 1)
    BY <1>2, <1>3, <1>4, <1>8, GivenUp DEF y, g
  <2>2. InCount(x) = InCount(y) /\ x.estack = y.estack /\ x.size = y.size /\ x.heap = g /\ x.endless = y.endless
        /\ x.count = y.count
    BY <1>5, <1>7 DEF Refills, InCount, g
  <2>3. /\ \A r \in Addresses : Spare(x, g, r) = Spare(y, g, r)
        /\ SpareSize(x, g) = SpareSize(y, g)
    BY <2>2 DEF Spare, Refs, SpareSize
  <2>4. SpareSize(m, m.heap) \in Int
    BY SpareType
  <2>5. SpareSize(y, g) = SpareSize(m, m.heap)
    <3> DEFINE a == SpareSize(m, m.heap)
    <3>1. SpareSize(y, g) = (a + 1) - 1 /\ a \in Int
      BY <2>1, <2>4 DEF GivesUp
    <3> HIDE DEF a
    <3>2. SpareSize(y, g) = a
      BY <3>1
    <3> QED BY <3>2 DEF a
  <2> QED BY <2>1, <2>2, <2>3, <2>5 DEF GivesUp, SameStore, Steady
<1>9. Sound(x) /\ x.todo = <<>> /\ x.estack = m.estack /\ x.heap = g
  BY <1>5, <1>7 DEF Refills, g
<1> QED BY <1>6, <1>8, <1>9 DEF g, s, z

\* One place of t changes.
PlaceChanged(X, t, i, b, s) ==
  /\ s \in Seq(X) /\ Len(s) = Len(t) /\ Len(t) \in Nat
  /\ t[i] \in X /\ ToSet(s) \subseteq ToSet(t) \union {b}
  /\ \A r : /\ Occurrences(r, s) = Occurrences(r, RemoveAt(t, i)) + One(r, b)
            /\ Occurrences(r, t) = Occurrences(r, RemoveAt(t, i)) + One(r, t[i])
            /\ Occurrences(r, RemoveAt(t, i)) \in Nat

LEMMA PlaceChanges ==
  ASSUME NEW X, NEW t \in Seq(X), NEW i \in 1..Len(t), NEW b \in X
  PROVE  PlaceChanged(X, t, i, b, [t EXCEPT ![i] = b])
<1>1. \A r : Occurrences(r, [t EXCEPT ![i] = b]) = Occurrences(r, RemoveAt(t, i)) + One(r, b)
  BY OccurrencesReplace
<1>2. RemoveAt(t, i) \in Seq(X) /\ t[i] \in X
  BY OccurrencesOthers
<1>3. \A r : Occurrences(r, t) = Occurrences(r, RemoveAt(t, i)) + One(r, t[i])
  BY OccurrencesOthers
<1>4. \A r : Occurrences(r, RemoveAt(t, i)) \in Nat
  BY <1>2, OccurrencesType
<1>5. [t EXCEPT ![i] = b] \in Seq(X) /\ Len([t EXCEPT ![i] = b]) = Len(t)
  BY OccurrencesReplace
<1>6. ToSet([t EXCEPT ![i] = b]) \subseteq ToSet(t) \union {b}
  BY DEF ToSet
<1>7. Len(t) \in Nat
  OBVIOUS
<1> QED BY <1>1, <1>2, <1>3, <1>4, <1>5, <1>6, <1>7 DEF PlaceChanged

\* SETITEM, where there is an item already.
LEMMA ReplacedIs ==
  ASSUME NEW m, Sound(m), NEW obj \in Held(m.heap), obj # Primitive,
         NEW i \in 1..Len(m.heap[obj].items), NEW item \in Held(m.heap)
  PROVE  LET z == Replaced(m, obj, i, item)
         IN /\ Sound(z) /\ z.todo = <<>> /\ z.estack = m.estack
            /\ z.heap = Refilled(m.heap, obj, [m.heap[obj].items EXCEPT ![i] = item])
            /\ Covering(m) /\ obj \in Reachable(m.heap, m.estack) => Steady(m, z)
<1> DEFINE t == m.heap[obj].items
           old == t[i]
           s == [t EXCEPT ![i] = item]
           s0 == [t EXCEPT ![i] = Primitive]
           y == Removed(m, <<old>>)
           g == Refilled(m.heap, obj, s)
           g0 == Refilled(m.heap, obj, s0)
           x == WithHeap(y, g)
           z == Added(x, <<item>>)
<1>1. GoodHeap(m.heap) /\ obj \in Addresses /\ t \in Seq(Held(m.heap)) /\ Len(t) \in 0..MaxArraySize
  <2>1. GoodHeap(m.heap) /\ obj \in Addresses
    BY HeldAre DEF Sound
  <2> QED BY <2>1, ItemsOf DEF GoodHeap
<1>2. /\ s \in Seq(Held(m.heap)) /\ Len(s) = Len(t) /\ s0 \in Seq(Held(m.heap)) /\ Len(s0) = Len(t)
      /\ Len(t) \in Nat /\ old \in Held(m.heap)
      /\ \A r : /\ Occurrences(r, s) = Occurrences(r, RemoveAt(t, i)) + One(r, item)
                /\ Occurrences(r, s0) = Occurrences(r, RemoveAt(t, i)) + One(r, Primitive)
                /\ Occurrences(r, t) = Occurrences(r, RemoveAt(t, i)) + One(r, old)
                /\ Occurrences(r, RemoveAt(t, i)) \in Nat
  <2>1. Primitive \in Held(m.heap) /\ i \in 1..Len(t)
    BY DEF Held
  <2> DEFINE X == Held(m.heap)
  <2> HIDE DEF t, X
  <2>2. t \in Seq(X) /\ Primitive \in X /\ item \in X
    BY <1>1, <2>1 DEF X
  <2>3. PlaceChanged(X, t, i, item, s) /\ PlaceChanged(X, t, i, Primitive, s0)
    BY <2>1, <2>2, PlaceChanges
  <2> HIDE DEF s, s0
  <2> QED BY <2>3 DEF PlaceChanged, X
<1>3. Len(s) <= MaxArraySize /\ Len(s0) <= MaxArraySize /\ Len(s0) = Len(t) - 0
  <2> HIDE DEF s, t, s0
  <2>1. MaxArraySize \in Nat
    BY BoundsAssumption
  <2> QED BY <1>1, <1>2, <2>1
<1>4. \A r \in Addresses : One(r, Primitive) = 0 /\ Occurrences(r, s0) = Occurrences(r, RemoveAt(t, i))
  <2>1. \A r \in Addresses : One(r, Primitive) = 0
    BY AddressesAssumption DEF One
  <2> HIDE DEF s0, t
  <2> QED BY <1>2, <2>1
<1> HIDE DEF s, s0, z
<1>5. Lets(t, s0, old)
  BY <1>2, <1>4 DEF Lets
<1>6. Sound(y) /\ y.heap = m.heap /\ y.estack = m.estack /\ y.todo = <<>>
  BY <1>2, OneItem, RemovedSound
<1>7. Replaced(m, obj, i, item) = z
  <2>1. Replaced(m, obj, i, item) = Added([y EXCEPT !.heap[obj].items[i] = item], <<item>>)
    BY DEF Replaced
  <2> HIDE DEF y
  <2>2. [y EXCEPT !.heap[obj].items[i] = item] = x
    BY <1>6 DEF WithHeap, Refilled, s
  <2> QED BY <2>1, <2>2 DEF z
<1> HIDE DEF y
<1>8. Refills(y, x, obj, s)
  BY <1>2, <1>3, <1>6, RefillSound
<1> HIDE DEF g, x, g0
<1>9. Sound(x) /\ x.todo = <<>> /\ x.estack = m.estack /\ x.heap = g /\ Held(x.heap) = Held(m.heap)
      /\ x.endless = y.endless /\ x.heap[obj].items = s
  BY <1>6, <1>8 DEF Refills, g
<1>10. Sound(z) /\ SameStore(x, z) /\ z.todo = <<>> /\ AddedAre(x, z, <<item>>)
  BY <1>9, OneItem, AddedIs DEF z
<1>11. ASSUME Covering(m), obj \in Reachable(m.heap, m.estack) PROVE Steady(m, z)
  <2>1. GivesUp(m, y, g0, obj, 0)
    BY <1>2, <1>3, <1>5, <1>11, GivenUp DEF y, g0
  <2>2. IsRefilled(m.heap, g0, obj, s0)
    BY <1>1, <1>2, <1>3, RefilledIs DEF g0
  <2>3. Differ(y, x, g0, g, obj)
    <3>1. Differ(y, x, m.heap, g, obj)
      BY <1>6, <1>8, <1>9 DEF Refills
    <3> QED BY <2>2, <3>1 DEF Differ, IsRefilled, GoodHeap
  <2>4. SizeRecounted(y, x, g0, g, obj) /\ \A r \in Addresses : RefsRecounted(y, x, g0, g, obj, r)
    BY <2>3, Recounted
  <2>5. g0[obj].items = s0 /\ g[obj].items = s /\ obj \in InCount(y)
    BY <1>9, <2>1, <2>2 DEF IsRefilled, GivesUp
  <2>6. SpareSize(m, m.heap) \in Int /\ \A r \in Addresses : Spare(m, m.heap, r) \in Int
    BY SpareType
  <2>7. ASSUME NEW r \in Addresses PROVE Spare(z, z.heap, r) = Spare(m, m.heap, r)
    <3> DEFINE a == Spare(m, m.heap, r)
               b == Spare(y, g0, r)
               c == Spare(x, g, r)
               d == Spare(z, z.heap, r)
               e == One(r, item)
               u == Occurrences(r, s0)
               v == Occurrences(r, s)
    <3>1. b = a /\ a \in Int
      BY <2>1, <2>6 DEF GivesUp
    <3>2. c = (b + u) - v
      BY <2>4, <2>5 DEF RefsRecounted
    <3>3. v = u + e /\ u \in Nat /\ e \in Nat
      BY <1>2, <1>4 DEF One
    <3>4. d = c + e
      BY <1>9, <1>10, OneItem DEF AddedAre, SameStore
    <3> HIDE DEF a, b, c, d, e, u, v
    <3>5. d = a
      BY <3>1, <3>2, <3>3, <3>4
    <3> QED BY <3>5 DEF a, d
  <2>8. SpareSize(z, z.heap) = SpareSize(m, m.heap)
    <3> DEFINE a == SpareSize(m, m.heap)
               b == SpareSize(y, g0)
               c == SpareSize(x, g)
               d == SpareSize(z, z.heap)
               u == Len(s0)
               v == Len(s)
    <3>1. b = (a + 0) - 1 /\ a \in Int
      BY <2>1, <2>6 DEF GivesUp
    <3>2. c = (b + u) - v
      BY <2>4, <2>5 DEF SizeRecounted
    <3>3. v = u /\ u \in Nat
      BY <1>2
    <3>4. d = c + 1
      BY <1>9, <1>10, OneItem DEF AddedAre, SameStore
    <3> HIDE DEF a, b, c, d, u, v
    <3>5. d = a
      BY <3>1, <3>2, <3>3, <3>4
    <3> QED BY <3>5 DEF a, d
  <2> QED BY <1>9, <1>10, <2>1, <2>7, <2>8 DEF GivesUp, SameStore, Steady
<1> QED BY <1>7, <1>9, <1>10, <1>11 DEF SameStore, g, s

\* REVERSE.
ItemsReversed(m, obj) == [m EXCEPT !.heap[obj].items = Reverse(@)]

LEMMA ReversedAre ==
  ASSUME NEW m, Sound(m), NEW obj \in Held(m.heap), obj # Primitive
  PROVE  LET z == ItemsReversed(m, obj)
         IN /\ Sound(z) /\ z.todo = m.todo /\ z.estack = m.estack
            /\ z.heap = Refilled(m.heap, obj, Reverse(m.heap[obj].items))
            /\ Steady(m, z)
<1> DEFINE t == m.heap[obj].items
           s == Reverse(t)
           g == Refilled(m.heap, obj, s)
           x == WithHeap(m, g)
<1>1. GoodHeap(m.heap) /\ obj \in Addresses /\ t \in Seq(Held(m.heap)) /\ Len(t) \in 0..MaxArraySize
  <2>1. GoodHeap(m.heap) /\ obj \in Addresses
    BY HeldAre DEF Sound
  <2> QED BY <2>1, ItemsOf DEF GoodHeap
<1>2. /\ s \in Seq(Held(m.heap)) /\ Len(s) = Len(t) /\ Len(s) <= MaxArraySize /\ Len(t) \in Nat
      /\ \A r : Occurrences(r, s) = Occurrences(r, t) /\ Occurrences(r, t) \in Nat
  <2>1. MaxArraySize \in Nat
    BY BoundsAssumption
  <2> HIDE DEF t
  <2>2. /\ s \in Seq(Held(m.heap)) /\ Len(s) = Len(t)
        /\ \A r : Occurrences(r, s) = Occurrences(r, t)
    BY <1>1, OccurrencesReverse
  <2>3. \A r : Occurrences(r, t) \in Nat
    BY <1>1, OccurrencesType
  <2>4. Len(t) \in Nat /\ Len(t) <= MaxArraySize
    BY <1>1, <2>1
  <2> HIDE DEF s
  <2> QED BY <2>2, <2>3, <2>4
<1>3. ItemsReversed(m, obj) = x
  BY DEF ItemsReversed, WithHeap, Refilled
<1> HIDE DEF s
<1>4. Refills(m, x, obj, s)
  BY <1>2, RefillSound
<1> HIDE DEF x, g
<1>5. SizeRecounted(m, x, m.heap, x.heap, obj) /\ \A r \in Addresses : RefsRecounted(m, x, m.heap, x.heap, obj, r)
  BY <1>4, Recounted DEF Refills
<1>6. x.heap[obj].items = s
  BY <1>4 DEF Refills
<1>7. SpareSize(m, m.heap) \in Int /\ \A r \in Addresses : Spare(m, m.heap, r) \in Int
  BY SpareType
<1>8. ASSUME NEW r \in Addresses PROVE Spare(x, x.heap, r) = Spare(m, m.heap, r)
  <2> DEFINE a == Spare(m, m.heap, r)
             b == Occurrences(r, t)
             c == Spare(x, x.heap, r)
  <2>1. a \in Int /\ b \in Nat /\ (c = (a + b) - b \/ c = a)
    BY <1>2, <1>5, <1>6, <1>7 DEF RefsRecounted
  <2> HIDE DEF a, b, c
  <2>2. c = a
    BY <2>1
  <2> QED BY <2>2 DEF a, c
<1>9. SpareSize(x, x.heap) = SpareSize(m, m.heap)
  <2> DEFINE a == SpareSize(m, m.heap)
             b == Len(t)
             c == SpareSize(x, x.heap)
  <2>1. a \in Int /\ b \in Nat /\ (c = (a + b) - b \/ c = a)
    BY <1>2, <1>5, <1>6, <1>7 DEF SizeRecounted
  <2> HIDE DEF a, b, c
  <2>2. c = a
    BY <2>1
  <2> QED BY <2>2 DEF a, c
<1> QED BY <1>3, <1>4, <1>8, <1>9 DEF Refills, Steady, g, s

\* A container takes in a new struct that contains none but new ones, or what is
\* no struct.
LEMMA AcyclicRefilled ==
  ASSUME NEW g, GoodHeap(g), Acyclic(g), NEW obj \in Held(g), obj # Primitive, NEW s \in Seq(Held(g)),
         Len(s) <= MaxArraySize, NEW N, N \subseteq Addresses, Inside(g, N), obj \notin N, NEW item,
         item \in N \/ item \notin Structs(g), ToSet(s) \subseteq ToSet(g[obj].items) \union {item}
  PROVE  Acyclic(Refilled(g, obj, s))
<1> DEFINE h == Refilled(g, obj, s)
<1>1. IsRefilled(g, h, obj, s)
  BY RefilledIs
<1> HIDE DEF h
<1>2. SameKinds(g, h, obj) /\ h[obj].items = s
  BY <1>1 DEF SameKinds, IsRefilled
<1>3. ToSet(h[obj].items) \subseteq ToSet(g[obj].items) \union {item}
  BY <1>2
<1>4. Acyclic(h)
  BY <1>2, <1>3, AcyclicStore
<1> QED BY <1>4 DEF h

LEMMA AcyclicLess ==
  ASSUME NEW g, GoodHeap(g), Acyclic(g), NEW obj \in Held(g), obj # Primitive, NEW s \in Seq(Held(g)),
         Len(s) <= MaxArraySize, ToSet(s) \subseteq ToSet(g[obj].items)
  PROVE  Acyclic(Refilled(g, obj, s))
<1> DEFINE N == {}
<1>1. Inside(g, N) /\ N \subseteq Addresses /\ obj \notin N
  BY DEF Inside
<1>2. Primitive \notin Structs(g)
  BY AddressesAssumption DEF Structs
<1>3. ToSet(s) \subseteq ToSet(g[obj].items) \union {Primitive}
  OBVIOUS
<1> HIDE DEF N
<1> QED BY <1>1, <1>2, <1>3, AcyclicRefilled

-----------------------------------------------------------------------------
(* What the collector leaves                                               *)

After(m) ==
  [heap |-> Collected(m), estack |-> m.estack, count |-> m.count, size |-> m.size, todo |-> <<>>,
   endless |-> FALSE]

LEMMA AfterIs ==
  ASSUME NEW m, Sound(m)
  PROVE  /\ Sound(After(m)) /\ (Acyclic(m.heap) => Acyclic(Collected(m)))
         /\ \A r \in Addresses : Spare(After(m), Collected(m), r) = Spare(m, m.heap, r)
         /\ SpareSize(After(m), Collected(m)) = SpareSize(m, m.heap)
<1> DEFINE g == m.heap
           S == (ToSet(m.estack) \ {Primitive}) \union InCount(m)
           used == Closure(g, S)
           h == [r \in Addresses |-> IF r \in used THEN g[r] ELSE Free]
           y == After(m)
<1>1. Collected(m) = h
  BY DEF Collected, InCount
<1>2. GoodHeap(g) /\ Sized(g) /\ m.estack \in Seq(Held(g))
  BY DEF Sound, GoodHeap
<1>3. ToSet(m.estack) \subseteq Held(g) /\ S \subseteq Addresses
  <2>1. ToSet(m.estack) \subseteq Held(g)
    BY <1>2 DEF ToSet
  <2>2. \A x \in Held(g) : x # Primitive => x \in Addresses
    BY HeldAre
  <2> QED BY <2>1, <2>2 DEF InCount
<1> HIDE DEF S
<1>4. used \subseteq Addresses /\ S \subseteq used /\ Contents(g, used) \subseteq used
  BY <1>2, <1>3, ClosureCloses DEF Closes
<1> HIDE DEF used
<1>5. \A r \in Addresses : (r \in used => h[r] = g[r]) /\ (r \notin used => h[r] = Free)
  OBVIOUS
<1>6. h \in [Addresses -> Cell]
  <2>1. Free \in Cell
    BY DEF Free, Of, Cell, Kinds
  <2> QED BY <1>2, <2>1 DEF Sized
<1> HIDE DEF h
<1>7. ASSUME NEW x \in Held(g), x = Primitive \/ x \in used PROVE x \in Held(h)
  <2>1. CASE x = Primitive
    BY <2>1 DEF Held
  <2>2. CASE x # Primitive
    BY <1>4, <1>5, <1>7, <2>2 DEF Held
  <2> QED BY <2>1, <2>2
<1>8. ASSUME NEW r \in Addresses
      PROVE  Len(h[r].items) <= MaxArraySize /\ h[r].items \in Seq(Held(h))
  <2>1. CASE r \in used
    <3> DEFINE s == g[r].items
    <3>1. s \in Seq(Held(g)) /\ Len(s) <= MaxArraySize /\ h[r].items = s
      BY <1>2, <1>5, <2>1 DEF GoodHeap, Sized
    <3>2. \A x \in ToSet(s) : x = Primitive \/ x \in used
      BY <1>4, <2>1, InContents
    <3> HIDE DEF s
    <3>3. \A i \in 1..Len(s) : s[i] \in Held(g) /\ s[i] \in ToSet(s)
      BY <3>1 DEF ToSet
    <3>4. \A i \in 1..Len(s) : s[i] \in Held(h)
      BY <1>7, <3>2, <3>3
    <3>5. s \in Seq(Held(h))
      BY <3>1, <3>4
    <3> QED BY <3>1, <3>5
  <2>2. CASE r \notin used
    <3>1. h[r].items = <<>>
      BY <1>5, <2>2 DEF Free, Of
    <3>2. MaxArraySize \in Nat
      BY BoundsAssumption
    <3> QED BY <3>1, <3>2
  <2> QED BY <2>1, <2>2
<1>9. GoodHeap(h)
  BY <1>6, <1>8 DEF GoodHeap, Sized
<1>10. y.heap = h /\ y.estack = m.estack /\ y.count = m.count /\ y.size = m.size /\ y.endless = FALSE /\ Whole(y)
  BY <1>1 DEF After, Whole
<1> HIDE DEF y
<1>11. m.estack \in Seq(Held(h))
  <2> DEFINE s == m.estack
  <2>1. s \in Seq(Held(g)) /\ \A x \in ToSet(s) : x = Primitive \/ x \in used
    BY <1>2, <1>4 DEF S
  <2> HIDE DEF s
  <2>2. \A i \in 1..Len(s) : s[i] \in Held(g) /\ s[i] \in ToSet(s)
    BY <2>1 DEF ToSet
  <2>3. \A i \in 1..Len(s) : s[i] \in Held(h)
    BY <1>7, <2>1, <2>2
  <2>4. s \in Seq(Held(h))
    BY <2>1, <2>3
  <2> QED BY <2>4 DEF s
<1>12. \A r \in Addresses : m.count[r] > 0 => r \in Held(h)
  BY <1>4, <1>7 DEF Sound, InCount, S
<1>13. Sound(y)
  BY <1>9, <1>10, <1>11, <1>12 DEF Sound
<1>14. Acyclic(g) => Acyclic(h)
  BY <1>5, AcyclicFewer
<1>15. InCount(y) = InCount(m) /\ InCount(m) \subseteq Addresses /\ \A r \in InCount(m) : h[r] = g[r]
  BY <1>4, <1>5, <1>10 DEF InCount, S
<1>16. \A r : /\ Fields(h, InCount(m)) = Fields(g, InCount(m))
              /\ Having(h, InCount(m), r) = Having(g, InCount(m), r)
  BY <1>15, FieldsAgree
<1>17. /\ \A r \in Addresses : Spare(y, h, r) = Spare(m, g, r)
       /\ SpareSize(y, h) = SpareSize(m, g)
  BY <1>10, <1>15, <1>16 DEF Spare, SpareSize, Refs
<1> QED BY <1>1, <1>13, <1>14, <1>17 DEF y

-----------------------------------------------------------------------------
(* The inductive invariant                                                 *)

Exact(m) == (\A r \in Addresses : Spare(m, m.heap, r) = 0) /\ SpareSize(m, m.heap) = 0

\* Nothing refers to a free cell; no container is counted less than it is
\* referred to, by the stack and by those that are counted, as long as no change
\* counted too little, nor more, as long as none counted too much.
IInv ==
  /\ Sound(Machine) /\ Acyclic(heap) /\ Len(estack) <= MaxHeight
  /\ outcome \in {"running", "fault", "crash"} /\ over \in 0..MaxOver /\ under \in 0..MaxUnder
  /\ outcome = "running" => size <= MaxStackSize
  /\ under = 0 => Covering(Machine) /\ outcome # "crash"
  /\ under = 0 /\ over = 0 => Exact(Machine)

LEMMA MachineIs ==
  /\ Machine.heap = heap /\ Machine.estack = estack /\ Machine.count = itemCount
  /\ Machine.size = size /\ Machine.todo = <<>> /\ Machine.endless = FALSE
BY DEF Machine

\* A machine that the instruction may end with.
EndsWell(m) ==
  /\ Sound(m) /\ Acyclic(m.heap)
  /\ over' \in 0..MaxOver /\ under' \in 0..MaxUnder
  /\ under' = 0 => Covering(m) /\ m.endless = FALSE
  /\ under' = 0 /\ over' = 0 => Exact(m)

LEMMA EndIs ==
  ASSUME NEW m, EndsWell(m), Effect(m), outcome' \in {"running", "fault", "crash"},
         outcome' = "running" => m.size <= MaxStackSize,
         outcome' = "crash" => m.endless
  PROVE  IInv'
<1>1. Machine' = After(m)
  BY DEF Effect, Machine, After
<1>2. Sound(m) /\ Acyclic(m.heap)
  BY DEF EndsWell
<1>3. /\ Sound(After(m)) /\ Acyclic(Collected(m))
      /\ \A r \in Addresses : Spare(After(m), Collected(m), r) = Spare(m, m.heap, r)
      /\ SpareSize(After(m), Collected(m)) = SpareSize(m, m.heap)
  BY <1>2, AfterIs
<1>4. After(m).heap = Collected(m)
  BY DEF After
<1>5. (Covering(m) => Covering(After(m))) /\ (Exact(m) => Exact(After(m)))
  BY <1>3, <1>4 DEF Covering, Settled, Exact
<1>6. /\ heap' = Collected(m) /\ estack' = m.estack /\ size' = m.size /\ Len(m.estack) <= MaxHeight
  BY DEF Effect
<1>7. Sound(Machine)'
  BY <1>1, <1>3
<1>8. Covering(m) => Covering(Machine)'
  BY <1>1, <1>5
<1>9. Exact(m) => Exact(Machine)'
  BY <1>1, <1>5
<1>10. Acyclic(heap)'
  BY <1>3, <1>6
<1> QED BY <1>6, <1>7, <1>8, <1>9, <1>10 DEF EndsWell, IInv

LEMMA FinishIs ==
  ASSUME NEW m, EndsWell(m), Finish(m)
  PROVE  IInv'
<1>1. Effect(m) /\ outcome' = CASE m.endless -> "crash" [] m.size > MaxStackSize -> "fault" [] OTHER -> "running"
  BY DEF Finish
<1>2. m.size \in Int /\ MaxStackSize \in Nat /\ m.endless \in BOOLEAN
  BY BoundsAssumption DEF EndsWell, Sound
<1>3. CASE m.endless
  BY <1>1, <1>3, EndIs
<1>4. CASE ~m.endless /\ m.size > MaxStackSize
  <2>1. outcome' = "fault"
    BY <1>1, <1>4
  <2> QED BY <1>1, <2>1, EndIs
<1>5. CASE ~m.endless /\ ~(m.size > MaxStackSize)
  <2>1. outcome' = "running"
    BY <1>1, <1>5
  <2>2. m.size <= MaxStackSize
    BY <1>2, <1>5
  <2> QED BY <1>1, <2>1, <2>2, EndIs
<1> QED BY <1>3, <1>4, <1>5

\* A change after which the accounts are what they were.
Keeps(m, y) ==
  /\ Sound(y)
  /\ Acyclic(m.heap) => Acyclic(y.heap)
  /\ Covering(m) => Steady(m, y)

LEMMA KeepsWell ==
  ASSUME IInv, NEW m, Keeps(Machine, m), UNCHANGED <<over, under>>
  PROVE  EndsWell(m)
<1>1. Sound(m) /\ Acyclic(m.heap)
  BY MachineIs DEF IInv, Keeps
<1>2. ASSUME under = 0 PROVE Covering(m) /\ m.endless = FALSE /\ (over = 0 => Exact(m))
  <2>1. Covering(Machine) /\ Steady(Machine, m)
    BY <1>2 DEF IInv, Keeps
  <2>2. Covering(m)
    BY <2>1, SteadyCovering
  <2>3. m.endless = FALSE
    BY <2>1, MachineIs DEF Steady
  <2>4. over = 0 => Exact(m)
    BY <1>2, <2>1 DEF IInv, Exact, Steady
  <2> QED BY <2>2, <2>3, <2>4
<1>3. over' \in 0..MaxOver /\ under' \in 0..MaxUnder
  BY DEF IInv
<1> QED BY <1>1, <1>2, <1>3 DEF EndsWell

LEMMA DoneIs ==
  ASSUME IInv, NEW m, Keeps(Machine, m), Done(m) \/ Panic(m)
  PROVE  IInv'
<1>1. UNCHANGED <<over, under>>
  BY DEF Done, Panic
<1>2. EndsWell(m)
  BY <1>1, KeepsWell
<1>3. CASE Done(m)
  BY <1>2, <1>3, FinishIs DEF Done
<1>4. CASE Panic(m)
  <2>1. Effect(m) /\ outcome' = IF m.endless THEN "crash" ELSE "fault"
    BY <1>4 DEF Panic
  <2>2. outcome' \in {"fault", "crash"} /\ (outcome' = "crash" => m.endless)
    BY <2>1
  <2> QED BY <1>2, <2>1, <2>2, EndIs
<1> QED BY <1>3, <1>4

LEMMA GoesKeeps ==
  ASSUME NEW m, NEW y, Goes(m, y)
  PROVE  Keeps(m, y)
BY DEF Goes, Keeps

-----------------------------------------------------------------------------
(* The instructions                                                        *)

LEMMA StackIs ==
  ASSUME IInv
  PROVE  /\ Sound(Machine) /\ GoodHeap(heap) /\ Sized(heap) /\ estack \in Seq(Held(heap))
         /\ Len(estack) \in Nat /\ Len(estack) <= MaxHeight
         /\ \A k \in 1..Len(estack) : estack[k] \in Held(heap)
<1>1. Sound(Machine) /\ Len(estack) <= MaxHeight
  BY DEF IInv
<1>2. GoodHeap(heap) /\ estack \in Seq(Held(heap))
  BY <1>1, MachineIs DEF Sound
<1> QED BY <1>1, <1>2 DEF GoodHeap

LEMMA OperandsAre ==
  \A op \in DOMAIN Operands :
    /\ Operands[op].args \in 1..3 /\ Operands[op].key \in 0..2
    /\ Operands[op].key <= Operands[op].args
BY DEF Operands, Takes

LEMMA MachinePopped ==
  ASSUME IInv, NEW n \in 0..Len(estack), NEW p, p = Popped(Machine, n)
  PROVE  /\ Goes(Machine, p) /\ Keeps(Machine, p) /\ Sound(p) /\ p.todo = <<>>
         /\ p.heap = heap /\ p.estack = SubSeq(estack, n + 1, Len(estack))
         /\ Len(p.estack) = Len(estack) - n
         /\ Covering(Machine) => Covering(p)
<1>1. Sound(Machine) /\ Len(estack) \in Nat /\ Len(estack) <= MaxHeight /\ MaxHeight \in Nat
  BY StackIs, BoundsAssumption
<1>2. n \in 0..Len(Machine.estack) /\ n <= MaxHeight
  BY <1>1, MachineIs
<1>3. Goes(Machine, Popped(Machine, n)) /\ Popped(Machine, n).heap = Machine.heap
  BY <1>1, <1>2, PoppedGoes
<1>4. /\ Popped(Machine, n).estack = SubSeq(Machine.estack, n + 1, Len(Machine.estack))
      /\ Len(Popped(Machine, n).estack) = Len(Machine.estack) - n
  BY <1>1, <1>2, PoppedSound
<1>5. Covering(Machine) => Covering(p)
  BY <1>3, SteadyCovering DEF Goes
<1> QED BY <1>3, <1>4, <1>5, MachineIs, GoesKeeps DEF Goes

LEMMA TooFewKeeps == IInv /\ TooFewOperands => IInv'
<1> SUFFICES ASSUME IInv, TooFewOperands PROVE IInv'
  OBVIOUS
<1>1. CASE \E op \in Ops \intersect DOMAIN Operands :
             Len(estack) < Operands[op].args /\ Panic(Popped(Machine, Len(estack)))
  <2>1. Len(estack) \in 0..Len(estack)
    BY StackIs
  <2>2. Keeps(Machine, Popped(Machine, Len(estack)))
    BY <2>1, MachinePopped
  <2> QED BY <1>1, <2>2, DoneIs
<1>2. CASE \E op \in Ops \intersect DOMAIN Looks : Len(estack) < Looks[op] /\ Panic(Machine)
  <2>1. Keeps(Machine, Machine)
    BY StackIs DEF Keeps, Steady
  <2> QED BY <1>2, <2>1, DoneIs
<1> QED BY <1>1, <1>2 DEF TooFewOperands

LEMMA InvalidKeyKeeps == IInv /\ InvalidKey => IInv'
<1> SUFFICES ASSUME IInv, InvalidKey PROVE IInv'
  OBVIOUS
<1>1. PICK op \in Ops \intersect DOMAIN Operands :
        Len(estack) >= Operands[op].args /\ Panic(Popped(Machine, Operands[op].key))
  BY DEF InvalidKey
<1> DEFINE n == Operands[op].key
<1>2. n \in 0..Len(estack)
  BY <1>1, OperandsAre, StackIs
<1> HIDE DEF n
<1>3. Keeps(Machine, Popped(Machine, n))
  BY <1>2, MachinePopped
<1> QED BY <1>1, <1>3, DoneIs DEF n

LEMMA WrongTypeKeeps == IInv /\ WrongType => IInv'
<1> SUFFICES ASSUME IInv, WrongType PROVE IInv'
  OBVIOUS
<1>1. PICK op \in Ops \intersect DOMAIN Operands :
        Len(estack) >= Operands[op].args /\ Panic(Popped(Machine, Operands[op].args))
  BY DEF WrongType
<1> DEFINE n == Operands[op].args
<1>2. n \in 0..Len(estack)
  BY <1>1, OperandsAre, StackIs
<1> HIDE DEF n
<1>3. Keeps(Machine, Popped(Machine, n))
  BY <1>2, MachinePopped
<1> QED BY <1>1, <1>3, DoneIs DEF n

LEMMA LooksAre ==
  Looks["DUP"] = 1 /\ Looks["DROP"] = 1 /\ Looks["OVER"] = 2 /\ Looks["SWAP"] = 2 /\ Looks["ROT"] = 3
BY DEF Looks

LEMMA PushKeeps == IInv /\ Push => IInv'
<1> SUFFICES ASSUME IInv, Push PROVE IInv'
  OBVIOUS
<1>1. Primitive \in Held(Machine.heap) /\ Sound(Machine)
  BY StackIs DEF Held
<1>2. Keeps(Machine, Pushed(Machine, Primitive))
  BY <1>1, PushedGoes, GoesKeeps
<1> QED BY <1>2, DoneIs DEF Push

\* The same items in another order.
LEMMA Reordered ==
  ASSUME IInv, NEW st \in Seq(Held(heap)), Len(st) = Len(estack),
         \A r \in Addresses : Occurrences(r, st) = Occurrences(r, estack)
  PROVE  Keeps(Machine, WithStack(Machine, st))
<1> DEFINE m == Machine
           x == WithStack(m, st)
<1>1. Sound(m) /\ m.heap = heap /\ m.estack = estack /\ Len(estack) \in Nat
  BY StackIs, MachineIs
<1> HIDE DEF m
<1>2. /\ Sound(x) /\ x.heap = m.heap /\ x.endless = m.endless
      /\ \A g : \A r \in Addresses :
           Spare(x, g, r) = (Spare(m, g, r) + Occurrences(r, m.estack)) - Occurrences(r, st)
      /\ \A g : SpareSize(x, g) = (SpareSize(m, g) + Len(m.estack)) - Len(st)
  BY <1>1, WithStackIs
<1> HIDE DEF x
<1>3. /\ \A r \in Addresses : Spare(m, heap, r) \in Int
      /\ SpareSize(m, heap) \in Int
  BY <1>1, SpareType
<1>4. \A r \in Addresses : Occurrences(r, estack) \in Nat
  BY StackIs, OccurrencesType
<1>5. \A r \in Addresses : Spare(x, heap, r) = Spare(m, heap, r)
  BY <1>1, <1>2, <1>3, <1>4
<1>6. SpareSize(x, heap) = SpareSize(m, heap)
  BY <1>1, <1>2, <1>3
<1> QED BY <1>1, <1>2, <1>5, <1>6 DEF Keeps, Steady, m, x

\* t has the items of s, each where f leads to.
Moves(s, t, f, g) ==
  /\ f \in [1..Len(s) -> 1..Len(s)] /\ g \in [1..Len(s) -> 1..Len(s)]
  /\ Undoes(g, f, 1..Len(s)) /\ Undoes(f, g, 1..Len(s))
  /\ Len(t) = Len(s) /\ \A i \in 1..Len(s) : t[i] = s[f[i]]

LEMMA OccurrencesMoved ==
  ASSUME NEW X, NEW s \in Seq(X), NEW t \in Seq(X), NEW f, NEW g, Moves(s, t, f, g), NEW a
  PROVE  Occurrences(a, t) = Occurrences(a, s)
<1> DEFINE A == Places(a, s)
           B == Places(a, t)
           p == [i \in B |-> f[i]]
           q == [i \in A |-> g[i]]
<1>1. p \in [B -> A] /\ q \in [A -> B]
  BY DEF Places, Moves, Undoes
<1>2. Undoes(q, p, B) /\ Undoes(p, q, A)
  BY <1>1 DEF Places, Moves, Undoes
<1> HIDE DEF A, B, p, q
<1>3. IsFiniteSet(A) /\ Occurrences(a, s) = Cardinality(A) /\ Occurrences(a, t) = Cardinality(B)
  BY OccurrencesType DEF A, B
<1>4. Cardinality(A) = Cardinality(B)
  BY <1>1, <1>2, <1>3, SameCount
<1> QED BY <1>3, <1>4

\* Two sequences that are one but for the first places.
LEMMA Swapped ==
  ASSUME NEW X, NEW s \in Seq(X), Len(s) >= 2
  PROVE  LET t == <<s[2], s[1]>> \o SubSeq(s, 3, Len(s))
         IN t \in Seq(X) /\ Len(t) = Len(s) /\ \A r : Occurrences(r, t) = Occurrences(r, s)
<1> DEFINE n == Len(s)
           t == <<s[2], s[1]>> \o SubSeq(s, 3, n)
           f == [i \in 1..n |-> IF i = 1 THEN 2 ELSE IF i = 2 THEN 1 ELSE i]
<1>1. n \in Nat /\ n >= 2 /\ s[1] \in X /\ s[2] \in X
  OBVIOUS
<1>2. <<s[2], s[1]>> \in Seq(X) /\ Len(<<s[2], s[1]>>) = 2
  BY <1>1
<1>3. /\ SubSeq(s, 3, n) \in Seq(X) /\ Len(SubSeq(s, 3, n)) = n - 2
      /\ \A i \in 1..(n - 2) : SubSeq(s, 3, n)[i] = s[i + 2]
  <2> HIDE DEF n
  <2>1. \A i \in 3..n : s[i] \in X
    BY DEF n
  <2>2. /\ SubSeq(s, 3, n) \in Seq(X)
        /\ Len(SubSeq(s, 3, n)) = (IF 3 <= n THEN (n - 3) + 1 ELSE 0)
        /\ \A i \in 1..((n - 3) + 1) : SubSeq(s, 3, n)[i] = s[(3 + i) - 1]
    BY <1>1, <2>1, SubSeqProperties
  <2>3. (n - 3) + 1 = n - 2 /\ \A i \in 1..(n - 2) : (3 + i) - 1 = i + 2
    BY <1>1
  <2>4. Len(SubSeq(s, 3, n)) = n - 2
    BY <1>1, <2>2
  <2>5. ASSUME NEW i \in 1..(n - 2) PROVE SubSeq(s, 3, n)[i] = s[i + 2]
    BY <2>2, <2>3
  <2> QED BY <2>2, <2>4, <2>5
<1>4. t \in Seq(X) /\ Len(t) = n
  BY <1>1, <1>2, <1>3
<1>5. ASSUME NEW i \in 1..n PROVE t[i] = s[f[i]]
  BY <1>1, <1>2, <1>3
<1>6. f \in [1..n -> 1..n] /\ Undoes(f, f, 1..n)
  BY <1>1 DEF Undoes
<1> HIDE DEF f, t
<1>7. Moves(s, t, f, f)
  BY <1>4, <1>5, <1>6 DEF Moves
<1>8. \A r : Occurrences(r, t) = Occurrences(r, s)
  BY <1>4, <1>7, OccurrencesMoved
<1> QED BY <1>4, <1>8 DEF t

LEMMA Rotated ==
  ASSUME NEW X, NEW s \in Seq(X), Len(s) >= 3
  PROVE  LET t == <<s[3], s[1], s[2]>> \o SubSeq(s, 4, Len(s))
         IN t \in Seq(X) /\ Len(t) = Len(s) /\ \A r : Occurrences(r, t) = Occurrences(r, s)
<1> DEFINE n == Len(s)
           t == <<s[3], s[1], s[2]>> \o SubSeq(s, 4, n)
           f == [i \in 1..n |-> IF i = 1 THEN 3 ELSE IF i = 2 THEN 1 ELSE IF i = 3 THEN 2 ELSE i]
           g == [i \in 1..n |-> IF i = 1 THEN 2 ELSE IF i = 2 THEN 3 ELSE IF i = 3 THEN 1 ELSE i]
<1>1. n \in Nat /\ n >= 3 /\ s[1] \in X /\ s[2] \in X /\ s[3] \in X
  OBVIOUS
<1>2. <<s[3], s[1], s[2]>> \in Seq(X) /\ Len(<<s[3], s[1], s[2]>>) = 3
  BY <1>1
<1>3. /\ SubSeq(s, 4, n) \in Seq(X) /\ Len(SubSeq(s, 4, n)) = n - 3
      /\ \A i \in 1..(n - 3) : SubSeq(s, 4, n)[i] = s[i + 3]
  <2> HIDE DEF n
  <2>1. \A i \in 4..n : s[i] \in X
    BY DEF n
  <2>2. /\ SubSeq(s, 4, n) \in Seq(X)
        /\ Len(SubSeq(s, 4, n)) = (IF 4 <= n THEN (n - 4) + 1 ELSE 0)
        /\ \A i \in 1..((n - 4) + 1) : SubSeq(s, 4, n)[i] = s[(4 + i) - 1]
    BY <1>1, <2>1, SubSeqProperties
  <2>3. (n - 4) + 1 = n - 3 /\ \A i \in 1..(n - 3) : (4 + i) - 1 = i + 3
    BY <1>1
  <2>4. Len(SubSeq(s, 4, n)) = n - 3
    BY <1>1, <2>2
  <2>5. ASSUME NEW i \in 1..(n - 3) PROVE SubSeq(s, 4, n)[i] = s[i + 3]
    BY <2>2, <2>3
  <2> QED BY <2>2, <2>4, <2>5
<1>4. t \in Seq(X) /\ Len(t) = n
  BY <1>1, <1>2, <1>3
<1>5. ASSUME NEW i \in 1..n PROVE t[i] = s[f[i]]
  BY <1>1, <1>2, <1>3
<1>6. f \in [1..n -> 1..n] /\ g \in [1..n -> 1..n] /\ Undoes(g, f, 1..n) /\ Undoes(f, g, 1..n)
  BY <1>1 DEF Undoes
<1> HIDE DEF f, g, t
<1>7. Moves(s, t, f, g)
  BY <1>4, <1>5, <1>6 DEF Moves
<1>8. \A r : Occurrences(r, t) = Occurrences(r, s)
  BY <1>4, <1>7, OccurrencesMoved
<1> QED BY <1>4, <1>8 DEF t

LEMMA StackOpKeeps == IInv /\ StackOp => IInv'
<1> SUFFICES ASSUME IInv, StackOp PROVE IInv'
  OBVIOUS
<1>0. Sound(Machine) /\ Machine.heap = heap /\ Len(estack) \in Nat
      /\ \A k \in 1..Len(estack) : estack[k] \in Held(heap)
  BY StackIs, MachineIs
<1>1. CASE ReadyTo("DUP") /\ Done(Pushed(Machine, estack[1]))
  <2>1. estack[1] \in Held(Machine.heap)
    BY <1>0, <1>1, LooksAre DEF ReadyTo
  <2>2. Keeps(Machine, Pushed(Machine, estack[1]))
    BY <1>0, <2>1, PushedGoes, GoesKeeps
  <2> QED BY <1>1, <2>2, DoneIs
<1>2. CASE ReadyTo("OVER") /\ Done(Pushed(Machine, estack[2]))
  <2>1. estack[2] \in Held(Machine.heap)
    BY <1>0, <1>2, LooksAre DEF ReadyTo
  <2>2. Keeps(Machine, Pushed(Machine, estack[2]))
    BY <1>0, <2>1, PushedGoes, GoesKeeps
  <2> QED BY <1>2, <2>2, DoneIs
<1>3. CASE ReadyTo("DROP") /\ Done(Popped(Machine, 1))
  <2>1. 1 \in 0..Len(estack)
    BY <1>0, <1>3, LooksAre DEF ReadyTo
  <2>2. Keeps(Machine, Popped(Machine, 1))
    BY <2>1, MachinePopped
  <2> QED BY <1>3, <2>2, DoneIs
<1>4. CASE /\ ReadyTo("SWAP")
           /\ Done([Machine EXCEPT !.estack = <<@[2], @[1]>> \o SubSeq(@, 3, Len(@))])
  <2> DEFINE st == <<estack[2], estack[1]>> \o SubSeq(estack, 3, Len(estack))
  <2>1. [Machine EXCEPT !.estack = <<@[2], @[1]>> \o SubSeq(@, 3, Len(@))] = WithStack(Machine, st)
    BY MachineIs DEF WithStack
  <2>2. Len(estack) >= 2
    BY <1>4, LooksAre DEF ReadyTo
  <2>3. /\ st \in Seq(Held(heap)) /\ Len(st) = Len(estack)
        /\ \A r \in Addresses : Occurrences(r, st) = Occurrences(r, estack)
    BY <2>2, StackIs, Swapped
  <2> HIDE DEF st
  <2>4. Keeps(Machine, WithStack(Machine, st))
    BY <2>3, Reordered
  <2> QED BY <1>4, <2>1, <2>4, DoneIs
<1>5. CASE /\ ReadyTo("ROT")
           /\ Done([Machine EXCEPT !.estack = <<@[3], @[1], @[2]>> \o SubSeq(@, 4, Len(@))])
  <2> DEFINE st == <<estack[3], estack[1], estack[2]>> \o SubSeq(estack, 4, Len(estack))
  <2>1. [Machine EXCEPT !.estack = <<@[3], @[1], @[2]>> \o SubSeq(@, 4, Len(@))] = WithStack(Machine, st)
    BY MachineIs DEF WithStack
  <2>2. Len(estack) >= 3
    BY <1>5, LooksAre DEF ReadyTo
  <2>3. /\ st \in Seq(Held(heap)) /\ Len(st) = Len(estack)
        /\ \A r \in Addresses : Occurrences(r, st) = Occurrences(r, estack)
    BY <2>2, StackIs, Rotated
  <2> HIDE DEF st
  <2>4. Keeps(Machine, WithStack(Machine, st))
    BY <2>3, Reordered
  <2> QED BY <1>5, <2>1, <2>4, DoneIs
<1> QED BY <1>1, <1>2, <1>3, <1>4, <1>5 DEF StackOp

LEMMA OperandsOf ==
  /\ Operands["NEWARRAY"].args = 1 /\ Operands["NEWSTRUCT"].args = 1 /\ Operands["PACK"].args = 1
  /\ Operands["UNPACK"].args = 1 /\ Operands["UNPACK"].kinds = Lists
  /\ Operands["REVERSE"].args = 1 /\ Operands["REVERSE"].kinds = Lists
  /\ Operands["APPEND"].args = 2 /\ Operands["APPEND"].kinds = Lists
  /\ Operands["PICKITEM"].args = 2 /\ Operands["PICKITEM"].kinds = Containers
  /\ Operands["HASKEY"].args = 2
  /\ Operands["REMOVE"].args = 2 /\ Operands["REMOVE"].kinds = Containers
  /\ Operands["SETITEM"].args = 3 /\ Operands["SETITEM"].kinds = Containers
  /\ Operands["KEYS"].args = 1 /\ Operands["KEYS"].kinds = {"Map"}
  /\ Operands["VALUES"].args = 1 /\ Operands["VALUES"].kinds = Containers
  /\ Operands["ARRAYSIZE"].args = 1
BY DEF Operands, Takes

LEMMA ReadyIs ==
  ASSUME IInv, NEW op, Ready(op), NEW n, n = Operands[op].args, n \in 1..3
  PROVE  /\ n \in 0..Len(estack) /\ n \in 1..Len(estack) /\ Len(estack) \in Nat
         /\ \A k \in 1..n : estack[k] \in Held(heap)
         /\ Kind(estack[n]) \in Operands[op].kinds
<1>1. Len(estack) \in Nat /\ \A k \in 1..Len(estack) : estack[k] \in Held(heap)
  BY StackIs
<1>2. Len(estack) >= n /\ Kind(estack[n]) \in Operands[op].kinds
  BY DEF Ready
<1> QED BY <1>1, <1>2

\* What the operand of an instruction on containers is.
HeldContainer(obj) ==
  /\ obj \in Held(heap) /\ obj # Primitive /\ obj \in Addresses
  /\ heap[obj].kind = Kind(obj) /\ heap[obj].items \in Seq(Held(heap))
  /\ Len(heap[obj].items) \in 0..MaxArraySize
  /\ DOMAIN heap[obj].items = 1..Len(heap[obj].items)

LEMMA KindIs ==
  ASSUME IInv, NEW obj \in Held(heap), Kind(obj) \in Containers
  PROVE  HeldContainer(obj)
<1>1. obj # Primitive /\ heap[obj].kind = Kind(obj)
  BY DEF Kind, Containers
<1>2. obj \in Addresses
  BY <1>1, HeldAre
<1>3. GoodHeap(heap) /\ Sized(heap)
  BY StackIs
<1> QED BY <1>1, <1>2, <1>3, ItemsOf DEF GoodHeap, HeldContainer

LEMMA FillsIs ==
  ASSUME NEW h, NEW kind \in Containers, NEW items \in Seq(Held(h)), Len(items) <= MaxArraySize
  PROVE  Fills(h, Of(kind, items))
<1>1. items \in Seq(Items)
  BY HeldItems
<1> QED BY <1>1 DEF Fills, Of, Cell, Kinds, Containers

LEMMA PrimitivesAre ==
  ASSUME NEW h, NEW n \in Nat
  PROVE  Primitives(n) \in Seq(Held(h)) /\ Len(Primitives(n)) = n
<1>1. Primitive \in Held(h)
  BY DEF Held
<1>2. Primitives(n) \in [1..n -> Held(h)]
  BY <1>1 DEF Primitives
<1> QED BY <1>2

\* Further changes after the operands are popped.
LEMMA GoesKept ==
  ASSUME NEW m, NEW x, NEW y, Goes(m, x), Goes(x, y)
  PROVE  Keeps(m, y)
BY GoesOn, GoesKeeps

LEMMA NewKeeps ==
  ASSUME IInv, NEW op, Operands[op].args = 1, NEW kind \in Lists, New(op, kind)
  PROVE  IInv'
<1> DEFINE item == estack[1]
           p == Popped(Machine, 1)
<1>1. /\ Ready(op)
      /\ \/ Kind(item) = kind /\ Done(Pushed(p, item))
         \/ Kind(item) \in Lists \ {kind} /\ Room(p) /\ Done(PushedNew(p, Of(kind, heap[item].items)))
         \/ item = Primitive /\ Room(p)
            /\ \E n \in 0..MaxArraySize : Done(PushedNew(p, Of(kind, Primitives(n))))
         \/ item = Primitive /\ Panic(p)
  BY DEF New
<1>2. 1 \in 0..Len(estack) /\ item \in Held(heap)
  BY <1>1, ReadyIs
<1>3. Goes(Machine, p) /\ Keeps(Machine, p) /\ Sound(p) /\ p.heap = heap
  BY <1>2, MachinePopped
<1> HIDE DEF p, item
<1>4. MaxArraySize \in Nat /\ kind \in Containers
  BY BoundsAssumption DEF Lists, Containers
<1>5. CASE Kind(item) = kind /\ Done(Pushed(p, item))
  <2>1. Goes(p, Pushed(p, item))
    BY <1>2, <1>3, PushedGoes
  <2>2. Keeps(Machine, Pushed(p, item))
    BY <1>3, <2>1, GoesKept
  <2> QED BY <1>5, <2>2, DoneIs
<1>6. CASE Kind(item) \in Lists \ {kind} /\ Room(p) /\ Done(PushedNew(p, Of(kind, heap[item].items)))
  <2> DEFINE cell == Of(kind, heap[item].items)
  <2>1. HeldContainer(item)
    BY <1>2, <1>6, KindIs DEF Lists, Containers
  <2>2. Fills(p.heap, cell)
    BY <1>3, <1>4, <2>1, FillsIs DEF HeldContainer
  <2> HIDE DEF cell
  <2>3. Goes(p, PushedNew(p, cell))
    BY <1>3, <1>6, <2>2, PushedNewGoes
  <2>4. Keeps(Machine, PushedNew(p, cell))
    BY <1>3, <2>3, GoesKept
  <2> QED BY <1>6, <2>4, DoneIs DEF cell
<1>7. CASE item = Primitive /\ Room(p)
           /\ \E n \in 0..MaxArraySize : Done(PushedNew(p, Of(kind, Primitives(n))))
  <2>1. PICK n \in 0..MaxArraySize : Done(PushedNew(p, Of(kind, Primitives(n))))
    BY <1>7
  <2> DEFINE cell == Of(kind, Primitives(n))
  <2>2. n \in Nat /\ n <= MaxArraySize
    BY <1>4
  <2>3. Primitives(n) \in Seq(Held(p.heap)) /\ Len(Primitives(n)) = n
    BY <2>2, PrimitivesAre
  <2>4. Fills(p.heap, cell)
    BY <1>4, <2>2, <2>3, FillsIs
  <2> HIDE DEF cell
  <2>5. Goes(p, PushedNew(p, cell))
    BY <1>3, <1>7, <2>4, PushedNewGoes
  <2>6. Keeps(Machine, PushedNew(p, cell))
    BY <1>3, <2>5, GoesKept
  <2> QED BY <2>1, <2>6, DoneIs DEF cell
<1>8. CASE item = Primitive /\ Panic(p)
  BY <1>3, <1>8, DoneIs
<1> QED BY <1>1, <1>5, <1>6, <1>7, <1>8

LEMMA NewMapKeeps == IInv /\ NewMap => IInv'
<1> SUFFICES ASSUME IInv, NewMap PROVE IInv'
  OBVIOUS
<1> DEFINE cell == Of("Map", <<>>)
<1>1. Room(Machine) /\ Done(PushedNew(Machine, cell))
  BY DEF NewMap
<1>2. Fills(Machine.heap, cell)
  <2>1. <<>> \in Seq(Held(Machine.heap)) /\ Len(<<>>) = 0 /\ MaxArraySize \in Nat
    BY BoundsAssumption
  <2>2. "Map" \in Containers /\ Len(<<>>) <= MaxArraySize
    BY <2>1 DEF Containers
  <2> QED BY <2>1, <2>2, FillsIs
<1> HIDE DEF cell
<1>3. Keeps(Machine, PushedNew(Machine, cell))
  BY <1>1, <1>2, StackIs, PushedNewGoes, GoesKeeps
<1> QED BY <1>1, <1>3, DoneIs

LEMMA RoomStays ==
  ASSUME NEW m, Sound(m), Room(m), NEW y, Sound(y), y.heap = m.heap
  PROVE  Room(y)
<1>1. PICK r \in Addresses : m.heap[r].kind = "none"
  BY DEF Room, FreeCells
<1>2. y.count[r] \in Nat /\ r \notin Held(y.heap) /\ (y.count[r] > 0 => r \in Held(y.heap))
  BY <1>1, AddressesAssumption DEF Sound, Held
<1>3. y.count[r] = 0
  BY <1>2
<1> QED BY <1>1, <1>3 DEF Room, FreeCells

LEMMA PackKeeps == IInv /\ Pack => IInv'
<1> SUFFICES ASSUME IInv, Pack PROVE IInv'
  OBVIOUS
<1> DEFINE p == Popped(Machine, 1)
<1>1. /\ Ready("PACK")
      /\ \/ Panic(p)
         \/ \E n \in 0..MaxArraySize :
              /\ n <= Len(p.estack) /\ Room(p)
              /\ Done(PushedNew(Popped(p, n), Of("Array", SubSeq(p.estack, 1, n))))
  BY DEF Pack
<1>2. 1 \in 0..Len(estack)
  BY <1>1, ReadyIs, OperandsOf
<1>3. /\ Goes(Machine, p) /\ Keeps(Machine, p) /\ Sound(p) /\ p.heap = heap
      /\ Len(p.estack) = Len(estack) - 1
  BY <1>2, MachinePopped
<1> HIDE DEF p
<1>4. CASE Panic(p)
  BY <1>3, <1>4, DoneIs
<1>5. CASE \E n \in 0..MaxArraySize :
             /\ n <= Len(p.estack) /\ Room(p)
             /\ Done(PushedNew(Popped(p, n), Of("Array", SubSeq(p.estack, 1, n))))
  <2>1. PICK n \in 0..MaxArraySize :
          /\ n <= Len(p.estack) /\ Room(p)
          /\ Done(PushedNew(Popped(p, n), Of("Array", SubSeq(p.estack, 1, n))))
    BY <1>5
  <2> DEFINE items == SubSeq(p.estack, 1, n)
             q == Popped(p, n)
             cell == Of("Array", items)
  <2>2. n \in Nat /\ n <= MaxArraySize /\ n \in 0..Len(p.estack) /\ n <= MaxHeight
    <3>1. MaxArraySize \in Nat /\ MaxHeight \in Nat
      BY BoundsAssumption
    <3>2. Len(estack) \in Nat /\ Len(estack) <= MaxHeight
      BY StackIs
    <3> QED BY <1>3, <2>1, <3>1, <3>2
  <2>3. p.estack \in Seq(Held(p.heap))
    BY <1>3 DEF Sound
  <2>4. items \in Seq(Held(p.heap)) /\ Len(items) = n
    BY <2>2, <2>3, OccurrencesSplit
  <2>5. Goes(p, q) /\ q.heap = p.heap
    BY <1>3, <2>2, PoppedGoes
  <2> HIDE DEF items, q
  <2>6. Sound(q) /\ Room(q)
    BY <1>3, <2>1, <2>5, RoomStays DEF Goes
  <2>7. Fills(q.heap, cell)
    BY <2>2, <2>4, <2>5, FillsIs DEF Containers
  <2> HIDE DEF cell
  <2>8. Goes(q, PushedNew(q, cell))
    BY <2>6, <2>7, PushedNewGoes
  <2>9. Keeps(Machine, PushedNew(q, cell))
    BY <1>3, <2>5, <2>8, GoesOn, GoesKept
  <2> QED BY <2>1, <2>9, DoneIs DEF cell, q, items
<1> QED BY <1>1, <1>4, <1>5

LEMMA UnpackKeeps == IInv /\ Unpack => IInv'
<1> SUFFICES ASSUME IInv, Unpack PROVE IInv'
  OBVIOUS
<1> DEFINE obj == estack[1]
           p == Popped(Machine, 1)
           items == <<Primitive>> \o heap[obj].items
<1>1. Ready("UNPACK") /\ Done(PushedAll(p, items))
  BY DEF Unpack
<1>2. 1 \in 0..Len(estack) /\ 1 \in 1..Len(estack) /\ obj \in Held(heap) /\ Kind(obj) \in Lists
  BY <1>1, ReadyIs, OperandsOf
<1>3. Goes(Machine, p) /\ Sound(p) /\ p.heap = heap
  BY <1>2, MachinePopped
<1> HIDE DEF p
<1>4. HeldContainer(obj)
  BY <1>2, KindIs DEF Lists, Containers
<1>5. items \in Seq(Held(heap)) /\ Len(items) = 1 + Len(heap[obj].items)
  <2> DEFINE s == heap[obj].items
  <2>1. s \in Seq(Held(heap)) /\ Primitive \in Held(heap)
    BY <1>4 DEF Held, HeldContainer
  <2> HIDE DEF s
  <2>2. <<Primitive>> \o s \in Seq(Held(heap)) /\ Len(<<Primitive>> \o s) = 1 + Len(s)
    BY <2>1
  <2> QED BY <2>2 DEF s
<1> HIDE DEF items
<1>6. Len(items) <= MaxHeight + MaxArraySize
  <2>1. MaxArraySize \in Nat /\ MaxHeight \in Nat
    BY BoundsAssumption
  <2>2. Len(estack) \in Nat /\ Len(estack) <= MaxHeight
    BY StackIs
  <2>3. Len(heap[obj].items) \in 0..MaxArraySize
    BY <1>4 DEF HeldContainer
  <2> QED BY <1>2, <1>5, <2>1, <2>2, <2>3
<1>7. Goes(p, PushedAll(p, items))
  BY <1>3, <1>5, <1>6, PushedAllGoes
<1>8. Keeps(Machine, PushedAll(p, items))
  BY <1>3, <1>7, GoesKept
<1> QED BY <1>1, <1>8, DoneIs

LEMMA PickItemKeeps == IInv /\ PickItem => IInv'
<1> SUFFICES ASSUME IInv, PickItem PROVE IInv'
  OBVIOUS
<1> DEFINE obj == estack[2]
           p == Popped(Machine, 2)
<1>1. /\ Ready("PICKITEM")
      /\ (\E i \in DOMAIN heap[obj].items : Done(Pushed(p, heap[obj].items[i]))) \/ Panic(p)
  BY DEF PickItem
<1>2. 2 \in 0..Len(estack) /\ obj \in Held(heap) /\ Kind(obj) \in Containers
  BY <1>1, ReadyIs, OperandsOf
<1>3. Goes(Machine, p) /\ Keeps(Machine, p) /\ Sound(p) /\ p.heap = heap
  BY <1>2, MachinePopped
<1> HIDE DEF p
<1>4. CASE Panic(p)
  BY <1>3, <1>4, DoneIs
<1>5. CASE \E i \in DOMAIN heap[obj].items : Done(Pushed(p, heap[obj].items[i]))
  <2>1. PICK i \in DOMAIN heap[obj].items : Done(Pushed(p, heap[obj].items[i]))
    BY <1>5
  <2>2. HeldContainer(obj)
    BY <1>2, KindIs
  <2> DEFINE item == heap[obj].items[i]
  <2>3. item \in Held(p.heap)
    BY <1>3, <2>1, <2>2 DEF HeldContainer
  <2> HIDE DEF item
  <2>4. Goes(p, Pushed(p, item))
    BY <1>3, <2>3, PushedGoes
  <2>5. Keeps(Machine, Pushed(p, item))
    BY <1>3, <2>4, GoesKept
  <2> QED BY <2>1, <2>5, DoneIs DEF item
<1> QED BY <1>1, <1>4, <1>5

LEMMA KeysKeeps == IInv /\ Keys => IInv'
<1> SUFFICES ASSUME IInv, Keys PROVE IInv'
  OBVIOUS
<1> DEFINE obj == estack[1]
           n == Len(heap[obj].items)
           p == Popped(Machine, 1)
           cell == Of("Array", Primitives(n))
<1>1. Ready("KEYS") /\ Room(p) /\ Done(PushedNew(p, cell))
  BY DEF Keys
<1>2. 1 \in 0..Len(estack) /\ obj \in Held(heap) /\ Kind(obj) \in {"Map"}
  BY <1>1, ReadyIs, OperandsOf
<1>3. Goes(Machine, p) /\ Sound(p) /\ p.heap = heap
  BY <1>2, MachinePopped
<1>4. HeldContainer(obj)
  BY <1>2, KindIs DEF Containers
<1>5. n \in Nat /\ n <= MaxArraySize
  BY <1>4, BoundsAssumption DEF HeldContainer
<1> HIDE DEF p, n
<1>6. Fills(p.heap, cell)
  BY <1>5, PrimitivesAre, FillsIs DEF Containers
<1> HIDE DEF cell
<1>7. Goes(p, PushedNew(p, cell))
  BY <1>1, <1>3, <1>6, PushedNewGoes
<1>8. Keeps(Machine, PushedNew(p, cell))
  BY <1>3, <1>7, GoesKept
<1> QED BY <1>1, <1>8, DoneIs

LEMMA ValuesKeeps == IInv /\ Values => IInv'
<1> SUFFICES ASSUME IInv, Values PROVE IInv'
  OBVIOUS
<1> DEFINE obj == estack[1]
           items == heap[obj].items
           p == Popped(Machine, 1)
           cell == Of("Array", items)
           c == Copied(p, cell)
<1>1. Ready("VALUES") /\ Room(p) /\ c.m.todo = <<>> /\ Done(Pushed(c.m, c.item))
  BY DEF Values
<1>2. 1 \in 0..Len(estack) /\ obj \in Held(heap) /\ Kind(obj) \in Containers
  BY <1>1, ReadyIs, OperandsOf
<1>3. Goes(Machine, p) /\ Sound(p) /\ p.heap = heap
  BY <1>2, MachinePopped
<1> HIDE DEF p
<1>4. HeldContainer(obj)
  BY <1>2, KindIs
<1>5. items \in Seq(Held(p.heap)) /\ Len(items) <= MaxArraySize
  BY <1>3, <1>4, BoundsAssumption DEF HeldContainer
<1> HIDE DEF items
<1>6. Fills(p.heap, cell)
  BY <1>5, FillsIs DEF Containers
<1> HIDE DEF cell
<1>7. Copies(p, c.m) /\ c.item \in Since(p.heap, c.m.heap)
  BY <1>1, <1>3, <1>6, CopiedIs
<1> HIDE DEF c
<1>8. Goes(p, c.m)
  BY <1>1, <1>3, <1>7, CopiedInside
<1>9. c.item \in Held(c.m.heap) /\ Sound(c.m)
  BY <1>7, <1>8, SinceIs DEF Goes
<1>10. Goes(c.m, Pushed(c.m, c.item))
  BY <1>9, PushedGoes
<1>11. Keeps(Machine, Pushed(c.m, c.item))
  BY <1>3, <1>8, <1>10, GoesOn, GoesKept
<1> QED BY <1>1, <1>11, DoneIs

LEMMA HasKeyKeeps == IInv /\ HasKey => IInv'
<1> SUFFICES ASSUME IInv, HasKey PROVE IInv'
  OBVIOUS
<1> DEFINE p == Popped(Machine, 2)
<1>1. Ready("HASKEY") /\ (Done(Pushed(p, Primitive)) \/ Panic(p))
  BY DEF HasKey
<1>2. 2 \in 0..Len(estack)
  BY <1>1, ReadyIs, OperandsOf
<1>3. Goes(Machine, p) /\ Keeps(Machine, p) /\ Sound(p)
  BY <1>2, MachinePopped
<1> HIDE DEF p
<1>4. Primitive \in Held(p.heap)
  BY DEF Held
<1>5. Goes(p, Pushed(p, Primitive))
  BY <1>3, <1>4, PushedGoes
<1>6. Keeps(Machine, Pushed(p, Primitive))
  BY <1>3, <1>5, GoesKept
<1> QED BY <1>1, <1>3, <1>6, DoneIs

LEMMA ArraySizeKeeps == IInv /\ ArraySize => IInv'
<1> SUFFICES ASSUME IInv, ArraySize PROVE IInv'
  OBVIOUS
<1> DEFINE p == Popped(Machine, 1)
<1>1. Ready("ARRAYSIZE") /\ Done(Pushed(p, Primitive))
  BY DEF ArraySize
<1>2. 1 \in 0..Len(estack)
  BY <1>1, ReadyIs, OperandsOf
<1>3. Goes(Machine, p) /\ Sound(p)
  BY <1>2, MachinePopped
<1> HIDE DEF p
<1>4. Primitive \in Held(p.heap)
  BY DEF Held
<1>5. Goes(p, Pushed(p, Primitive))
  BY <1>3, <1>4, PushedGoes
<1>6. Keeps(Machine, Pushed(p, Primitive))
  BY <1>3, <1>5, GoesKept
<1> QED BY <1>1, <1>6, DoneIs

LEMMA KeepsOn ==
  ASSUME NEW m, NEW x, NEW y, Keeps(m, x), Keeps(x, y)
  PROVE  Keeps(m, y)
BY SteadyCovering, SteadyOn DEF Keeps

LEMMA ReverseKeeps == IInv /\ ReverseItems => IInv'
<1> SUFFICES ASSUME IInv, ReverseItems PROVE IInv'
  OBVIOUS
<1> DEFINE obj == estack[1]
           p == Popped(Machine, 1)
           z == ItemsReversed(p, obj)
<1>1. Ready("REVERSE") /\ Done(z)
  BY DEF ReverseItems, ItemsReversed
<1>2. 1 \in 0..Len(estack) /\ obj \in Held(heap) /\ Kind(obj) \in Lists
  BY <1>1, ReadyIs, OperandsOf
<1>3. Goes(Machine, p) /\ Keeps(Machine, p) /\ Sound(p) /\ p.heap = heap
  BY <1>2, MachinePopped
<1>4. HeldContainer(obj)
  BY <1>2, KindIs DEF Lists, Containers
<1> HIDE DEF p, obj
<1>5. obj \in Held(p.heap) /\ obj # Primitive
  BY <1>3, <1>4 DEF HeldContainer
<1>6. /\ Sound(z) /\ z.heap = Refilled(p.heap, obj, Reverse(p.heap[obj].items)) /\ Steady(p, z)
  BY <1>3, <1>5, ReversedAre
<1> HIDE DEF z
<1>7. Acyclic(p.heap) => Acyclic(z.heap)
  <2> DEFINE t == p.heap[obj].items
             s == Reverse(t)
  <2>1. t \in Seq(Held(p.heap)) /\ Len(t) <= MaxArraySize
    BY <1>3, <1>4, BoundsAssumption DEF HeldContainer
  <2> HIDE DEF t
  <2>2. /\ s \in Seq(Held(p.heap)) /\ Len(s) = Len(t)
        /\ \A a : Occurrences(a, s) = Occurrences(a, t)
    BY <2>1, OccurrencesReverse
  <2> HIDE DEF s
  <2>3. \A a : /\ Occurrences(a, s) > 0 <=> a \in ToSet(s)
               /\ Occurrences(a, t) > 0 <=> a \in ToSet(t)
    BY <2>1, <2>2, OccurrencesMany
  <2>4. ToSet(s) \subseteq ToSet(t)
    BY <2>2, <2>3
  <2>5. GoodHeap(p.heap) /\ Len(s) <= MaxArraySize
    BY <1>3, <2>1, <2>2 DEF Sound
  <2>6. Acyclic(p.heap) => Acyclic(Refilled(p.heap, obj, s))
    BY <1>5, <2>2, <2>4, <2>5, AcyclicLess DEF t
  <2> QED BY <1>6, <2>6 DEF s, t
<1>8. Keeps(p, z)
  BY <1>6, <1>7 DEF Keeps
<1>9. Keeps(Machine, z)
  BY <1>3, <1>8, KeepsOn
<1> QED BY <1>1, <1>9, DoneIs

\* A change of a container that the stack led to no more is one of over or under.
LEMMA AddsWell ==
  ASSUME IInv, NEW p, Goes(Machine, p), NEW obj, Meddling(p, obj, 1, 0),
         NEW y, Sound(y), Acyclic(y.heap),
         Covering(p) => Covering(y) /\ y.endless = p.endless,
         Covering(p) /\ obj \in Reachable(p.heap, p.estack) => Steady(p, y)
  PROVE  EndsWell(y)
<1> DEFINE lost == IF obj \in Reachable(p.heap, p.estack) THEN 0 ELSE 1
<1>1. over' = over + lost * 1 /\ over' <= MaxOver /\ under' = under + lost * 0 /\ under' <= MaxUnder
  BY DEF Meddling
<1>2. over \in Nat /\ under \in Nat /\ MaxOver \in Nat /\ MaxUnder \in Nat
  BY BoundsAssumption DEF IInv
<1>3. lost \in {0, 1} /\ (lost = 0 <=> obj \in Reachable(p.heap, p.estack))
  OBVIOUS
<1> HIDE DEF lost
<1>4. over' = over + lost /\ under' = under
  BY <1>1, <1>2, <1>3
<1>5. over' \in 0..MaxOver /\ under' \in 0..MaxUnder
  BY <1>1, <1>2, <1>3, <1>4
<1>6. ASSUME under' = 0
      PROVE  Covering(y) /\ y.endless = FALSE /\ (over' = 0 => Exact(y))
  <2>1. Covering(Machine) /\ Steady(Machine, p)
    BY <1>4, <1>6 DEF IInv, Goes
  <2>2. Covering(p)
    BY <2>1, SteadyCovering
  <2>3. p.endless = FALSE
    BY <2>1, MachineIs DEF Steady
  <2>4. ASSUME over' = 0 PROVE Exact(y)
    <3>1. over = 0 /\ lost = 0
      BY <1>2, <1>3, <1>4, <2>4
    <3>2. Steady(p, y)
      BY <1>3, <2>2, <3>1
    <3>3. Exact(Machine)
      BY <1>4, <1>6, <3>1 DEF IInv
    <3> QED BY <2>1, <3>2, <3>3 DEF Exact, Steady
  <2> QED BY <2>2, <2>3, <2>4
<1> QED BY <1>5, <1>6 DEF EndsWell

LEMMA RemovesWell ==
  ASSUME IInv, NEW p, Goes(Machine, p), NEW obj, Meddling(p, obj, 0, 1),
         NEW y, Sound(y), Acyclic(y.heap),
         Covering(p) /\ obj \in Reachable(p.heap, p.estack) => Steady(p, y)
  PROVE  EndsWell(y)
<1> DEFINE lost == IF obj \in Reachable(p.heap, p.estack) THEN 0 ELSE 1
<1>1. over' = over + lost * 0 /\ over' <= MaxOver /\ under' = under + lost * 1 /\ under' <= MaxUnder
  BY DEF Meddling
<1>2. over \in Nat /\ under \in Nat /\ MaxOver \in Nat /\ MaxUnder \in Nat
  BY BoundsAssumption DEF IInv
<1>3. lost \in {0, 1} /\ (lost = 0 <=> obj \in Reachable(p.heap, p.estack))
  OBVIOUS
<1> HIDE DEF lost
<1>4. over' = over /\ under' = under + lost
  BY <1>1, <1>2, <1>3
<1>5. over' \in 0..MaxOver /\ under' \in 0..MaxUnder
  BY <1>1, <1>2, <1>3, <1>4
<1>6. ASSUME under' = 0
      PROVE  Covering(y) /\ y.endless = FALSE /\ (over' = 0 => Exact(y))
  <2>0. under = 0 /\ lost = 0
    BY <1>2, <1>3, <1>4, <1>6
  <2>1. Covering(Machine) /\ Steady(Machine, p)
    BY <2>0 DEF IInv, Goes
  <2>2. Covering(p)
    BY <2>1, SteadyCovering
  <2>3. Steady(p, y)
    BY <1>3, <2>0, <2>2
  <2>4. y.endless = FALSE
    BY <2>1, <2>3, MachineIs DEF Steady
  <2>5. Covering(y)
    BY <2>2, <2>3, SteadyCovering
  <2>6. ASSUME over' = 0 PROVE Exact(y)
    <3>1. Exact(Machine)
      BY <1>4, <2>0, <2>6 DEF IInv
    <3> QED BY <2>1, <2>3, <3>1 DEF Exact, Steady
  <2> QED BY <2>4, <2>5, <2>6
<1> QED BY <1>5, <1>6 DEF EndsWell

\* What is known of the machine once the item is cloned.
ClonedFor(p, obj, x, item) ==
  /\ Sound(x) /\ x.todo = <<>> /\ Acyclic(x.heap) /\ Steady(p, x) /\ x.estack = p.estack
  /\ x.count = p.count /\ x.heap[obj] = p.heap[obj]
  /\ obj \in Held(x.heap) /\ item \in Held(x.heap)
  /\ obj \in Reachable(p.heap, p.estack) => obj \in Reachable(x.heap, x.estack)
  /\ \E N \in SUBSET Addresses :
       Inside(x.heap, N) /\ obj \notin N /\ (item \in N \/ item \notin Structs(x.heap))

LEMMA CloneFor ==
  ASSUME NEW p, Sound(p), p.todo = <<>>, Acyclic(p.heap), NEW obj \in Held(p.heap), obj # Primitive,
         NEW item \in Held(p.heap), RoomToClone(p, item)
  PROVE  ClonedFor(p, obj, CloneIfStruct(p, item).m, CloneIfStruct(p, item).item)
<1> DEFINE c == CloneIfStruct(p, item)
           x == c.m
           N == Since(p.heap, x.heap)
<1>1. /\ Goes(p, x) /\ Steady(p, x) /\ x.estack = p.estack /\ x.count = p.count
      /\ c.item \in Held(x.heap) /\ Inside(x.heap, N)
      /\ c.item \in N \/ c.item \notin Structs(x.heap)
  BY CloneIs
<1> HIDE DEF c
<1>2. obj \in Addresses /\ p.heap[obj].kind # "none"
  BY HeldAre DEF Held
<1>3. x.heap[obj] = p.heap[obj] /\ Sound(x) /\ x.todo = <<>> /\ Acyclic(x.heap) /\ Grows(p.heap, x.heap)
  BY <1>1, <1>2 DEF Goes, Grows
<1>4. obj \in Held(x.heap)
  BY <1>3, GrowsHeld
<1>5. N \subseteq Addresses /\ obj \notin N
  BY <1>2 DEF Since
<1>6. ASSUME obj \in Reachable(p.heap, p.estack) PROVE obj \in Reachable(x.heap, x.estack)
  <2> DEFINE g == p.heap
             h == x.heap
             st == p.estack
  <2>1. GoodHeap(g) /\ st \in Seq(Held(g)) /\ Sized(h)
    BY <1>3 DEF Sound, GoodHeap
  <2>2. \A q \in Addresses : q \in Held(g) /\ q # obj => h[q] = g[q]
    BY <1>3, AddressesAssumption DEF Held, Grows
  <2>3. obj \in Reachable(g, st)
    BY <1>6
  <2> HIDE DEF g, h, st
  <2>4. obj \in Reachable(h, st)
    BY <2>1, <2>2, <2>3, ReachedStill
  <2> QED BY <1>1, <2>4 DEF h, st
<1>7. \E M \in SUBSET Addresses :
        Inside(x.heap, M) /\ obj \notin M /\ (c.item \in M \/ c.item \notin Structs(x.heap))
  <2> HIDE DEF N, x
  <2> QED BY <1>1, <1>5
<1> HIDE DEF x
<1>8. ClonedFor(p, obj, x, c.item)
  BY <1>1, <1>3, <1>4, <1>6, <1>7 DEF ClonedFor
<1> QED BY <1>8 DEF x, c

\* One more item in a list, or a new key of a map.
LEMMA StoredWell ==
  ASSUME IInv, NEW p, Goes(Machine, p), p.heap = heap, NEW obj, HeldContainer(obj), ~Full(obj),
         NEW x, NEW item, ClonedFor(p, obj, x, item), Meddling(p, obj, 1, 0)
  PROVE  EndsWell(Stored(x, obj, item))
<1> DEFINE t == x.heap[obj].items
           s == Append(t, item)
           y == Stored(x, obj, item)
<1>1. /\ Sound(x) /\ Acyclic(x.heap) /\ Steady(p, x) /\ x.estack = p.estack /\ x.count = p.count
      /\ x.heap[obj] = heap[obj] /\ obj \in Held(x.heap) /\ item \in Held(x.heap) /\ Sound(p)
  BY DEF ClonedFor, Goes
<1>2. obj # Primitive /\ t \in Seq(Held(x.heap)) /\ Len(t) \in Nat /\ Len(t) < MaxArraySize
  <2>1. obj # Primitive /\ Len(heap[obj].items) \in 0..MaxArraySize /\ obj \in Addresses
    BY DEF HeldContainer
  <2>2. MaxArraySize \in Nat /\ ~(Len(heap[obj].items) >= MaxArraySize)
    BY BoundsAssumption DEF Full
  <2>3. t \in Seq(Held(x.heap))
    BY <1>1, <2>1 DEF Sound, GoodHeap
  <2> QED BY <1>1, <2>1, <2>2, <2>3
<1>3. /\ Sound(y) /\ y.endless = x.endless /\ y.heap = Refilled(x.heap, obj, s)
      /\ obj \in InCount(x) => Steady(x, y)
      /\ Covering(x) => Covering(y)
  BY <1>1, <1>2, StoredIs
<1> HIDE DEF y
<1>4. Acyclic(y.heap)
  <2>1. PICK N \in SUBSET Addresses :
          Inside(x.heap, N) /\ obj \notin N /\ (item \in N \/ item \notin Structs(x.heap))
    BY DEF ClonedFor
  <2> HIDE DEF t
  <2>2. s \in Seq(Held(x.heap)) /\ Len(s) = Len(t) + 1
    BY <1>1, <1>2, OccurrencesAppend
  <2>3. Len(s) <= MaxArraySize
    BY <1>2, <2>2, BoundsAssumption
  <2>4. ToSet(s) \subseteq ToSet(t) \union {item}
    <3>1. <<item>> \in Seq(Held(x.heap)) /\ s = t \o <<item>>
      BY <1>1, <1>2, AppendIsConcat
    <3>2. \A a : a \in ToSet(s) <=> a \in ToSet(t) \/ a \in ToSet(<<item>>)
      BY <1>2, <3>1, BothAre
    <3>3. ToSet(<<item>>) = {item}
      BY DEF ToSet
    <3> QED BY <3>2, <3>3
  <2>5. GoodHeap(x.heap)
    BY <1>1 DEF Sound
  <2> HIDE DEF s
  <2>6. Acyclic(Refilled(x.heap, obj, s))
    BY <1>1, <1>2, <2>1, <2>2, <2>3, <2>4, <2>5, AcyclicRefilled DEF t
  <2> QED BY <1>3, <2>6 DEF s, t
<1>5. ASSUME Covering(p) PROVE Covering(y) /\ y.endless = p.endless
  <2>1. Covering(x)
    BY <1>1, <1>5, SteadyCovering
  <2>2. x.endless = p.endless
    BY <1>1 DEF Steady
  <2> QED BY <1>3, <2>1, <2>2
<1>6. ASSUME Covering(p), obj \in Reachable(p.heap, p.estack) PROVE Steady(p, y)
  <2>1. obj \in InCount(p)
    BY <1>1, <1>6, ReachedCounted
  <2>2. obj \in InCount(x)
    BY <1>1, <2>1 DEF InCount
  <2> QED BY <1>1, <1>3, <2>2, SteadyOn
<1>7. EndsWell(y)
  BY <1>3, <1>4, <1>5, <1>6, AddsWell
<1> QED BY <1>7 DEF y

LEMMA AppendKeeps == IInv /\ AppendItem => IInv'
<1> SUFFICES ASSUME IInv, AppendItem PROVE IInv'
  OBVIOUS
<1> DEFINE obj == estack[2]
           item == estack[1]
           p == Popped(Machine, 2)
           c == CloneIfStruct(p, item)
<1>1. /\ Ready("APPEND") /\ RoomToClone(p, item)
      /\ \/ Full(obj) /\ Panic(p)
         \/ ~Full(obj) /\ Finish(Stored(c.m, obj, c.item)) /\ Meddling(p, obj, 1, 0)
  BY DEF AppendItem
<1>2. 2 \in 0..Len(estack) /\ obj \in Held(heap) /\ item \in Held(heap) /\ Kind(obj) \in Lists
  BY <1>1, ReadyIs, OperandsOf
<1>3. Goes(Machine, p) /\ Keeps(Machine, p) /\ Sound(p) /\ p.heap = heap /\ p.todo = <<>>
  BY <1>2, MachinePopped
<1>4. HeldContainer(obj)
  BY <1>2, KindIs DEF Lists, Containers
<1> HIDE DEF p, obj, item
<1>5. CASE Full(obj) /\ Panic(p)
  BY <1>3, <1>5, DoneIs
<1>6. CASE ~Full(obj) /\ Finish(Stored(c.m, obj, c.item)) /\ Meddling(p, obj, 1, 0)
  <2>1. Acyclic(p.heap) /\ obj # Primitive
    BY <1>3, <1>4 DEF IInv, HeldContainer
  <2>2. ClonedFor(p, obj, c.m, c.item)
    BY <1>1, <1>2, <1>3, <2>1, CloneFor
  <2> HIDE DEF c
  <2>3. EndsWell(Stored(c.m, obj, c.item))
    BY <1>3, <1>4, <1>6, <2>2, StoredWell
  <2> QED BY <1>6, <2>3, FinishIs
<1> QED BY <1>1, <1>5, <1>6

\* Another item in the place of one.
LEMMA ReplacedWell ==
  ASSUME IInv, NEW p, Goes(Machine, p), p.heap = heap, NEW obj, HeldContainer(obj),
         NEW i \in DOMAIN heap[obj].items,
         NEW x, NEW item, ClonedFor(p, obj, x, item), Meddling(p, obj, 0, 1)
  PROVE  EndsWell(Replaced(x, obj, i, item))
<1> DEFINE t == x.heap[obj].items
           s == [t EXCEPT ![i] = item]
           y == Replaced(x, obj, i, item)
<1>1. /\ Sound(x) /\ Acyclic(x.heap) /\ Steady(p, x) /\ x.estack = p.estack
      /\ x.heap[obj] = heap[obj] /\ obj \in Held(x.heap) /\ item \in Held(x.heap)
      /\ obj \in Reachable(p.heap, p.estack) => obj \in Reachable(x.heap, x.estack)
  BY DEF ClonedFor
<1>2. obj # Primitive /\ t \in Seq(Held(x.heap)) /\ Len(t) \in 0..MaxArraySize /\ i \in 1..Len(t)
  <2>1. /\ obj # Primitive /\ Len(heap[obj].items) \in 0..MaxArraySize /\ obj \in Addresses
        /\ DOMAIN heap[obj].items = 1..Len(heap[obj].items)
    BY DEF HeldContainer
  <2>2. t \in Seq(Held(x.heap))
    BY <1>1, <2>1 DEF Sound, GoodHeap
  <2> QED BY <1>1, <2>1, <2>2
<1>3. /\ Sound(y) /\ y.heap = Refilled(x.heap, obj, s)
      /\ Covering(x) /\ obj \in Reachable(x.heap, x.estack) => Steady(x, y)
  BY <1>1, <1>2, ReplacedIs
<1> HIDE DEF y
<1>4. Acyclic(y.heap)
  <2>1. PICK N \in SUBSET Addresses :
          Inside(x.heap, N) /\ obj \notin N /\ (item \in N \/ item \notin Structs(x.heap))
    BY DEF ClonedFor
  <2> DEFINE X == Held(x.heap)
  <2> HIDE DEF t, X
  <2>2. PlaceChanged(X, t, i, item, s)
    BY <1>1, <1>2, PlaceChanges DEF X
  <2> HIDE DEF s
  <2>3. s \in Seq(X) /\ Len(s) <= MaxArraySize /\ ToSet(s) \subseteq ToSet(t) \union {item}
    BY <1>2, <2>2, BoundsAssumption DEF PlaceChanged
  <2>4. GoodHeap(x.heap)
    BY <1>1 DEF Sound
  <2>5. Acyclic(Refilled(x.heap, obj, s))
    BY <1>1, <1>2, <2>1, <2>3, <2>4, AcyclicRefilled DEF t, X
  <2> QED BY <1>3, <2>5 DEF s, t
<1>5. ASSUME Covering(p), obj \in Reachable(p.heap, p.estack) PROVE Steady(p, y)
  <2>1. Covering(x)
    BY <1>1, <1>5, SteadyCovering
  <2> QED BY <1>1, <1>3, <1>5, <2>1, SteadyOn
<1>6. EndsWell(y)
  BY <1>3, <1>4, <1>5, RemovesWell
<1> QED BY <1>6 DEF y

LEMMA SetItemKeeps == IInv /\ SetItem => IInv'
<1> SUFFICES ASSUME IInv, SetItem PROVE IInv'
  OBVIOUS
<1> DEFINE obj == estack[3]
           item == estack[1]
           p == Popped(Machine, 3)
           c == CloneIfStruct(p, item)
<1>1. /\ Ready("SETITEM") /\ RoomToClone(p, item)
      /\ \/ \E i \in DOMAIN heap[obj].items :
              Finish(Replaced(c.m, obj, i, c.item)) /\ Meddling(p, obj, 0, 1)
         \/ ~Full(obj) /\ Finish(Stored(c.m, obj, c.item)) /\ Meddling(p, obj, 1, 0)
         \/ Panic(p)
  BY DEF SetItem
<1>2. 3 \in 0..Len(estack) /\ obj \in Held(heap) /\ item \in Held(heap) /\ Kind(obj) \in Containers
  BY <1>1, ReadyIs, OperandsOf
<1>3. Goes(Machine, p) /\ Keeps(Machine, p) /\ Sound(p) /\ p.heap = heap /\ p.todo = <<>>
  BY <1>2, MachinePopped
<1>4. HeldContainer(obj)
  BY <1>2, KindIs
<1> HIDE DEF p, obj, item
<1>5. Acyclic(p.heap) /\ obj # Primitive
  BY <1>3, <1>4 DEF IInv, HeldContainer
<1>6. ClonedFor(p, obj, c.m, c.item)
  BY <1>1, <1>2, <1>3, <1>5, CloneFor
<1> HIDE DEF c
<1>7. CASE \E i \in DOMAIN heap[obj].items :
             Finish(Replaced(c.m, obj, i, c.item)) /\ Meddling(p, obj, 0, 1)
  <2>1. PICK i \in DOMAIN heap[obj].items :
          Finish(Replaced(c.m, obj, i, c.item)) /\ Meddling(p, obj, 0, 1)
    BY <1>7
  <2>2. EndsWell(Replaced(c.m, obj, i, c.item))
    BY <1>3, <1>4, <1>6, <2>1, ReplacedWell
  <2> QED BY <2>1, <2>2, FinishIs
<1>8. CASE ~Full(obj) /\ Finish(Stored(c.m, obj, c.item)) /\ Meddling(p, obj, 1, 0)
  <2>1. EndsWell(Stored(c.m, obj, c.item))
    BY <1>3, <1>4, <1>6, <1>8, StoredWell
  <2> QED BY <1>8, <2>1, FinishIs
<1>9. CASE Panic(p)
  BY <1>3, <1>9, DoneIs
<1> QED BY <1>1, <1>7, <1>8, <1>9

LEMMA RemoveItemKeeps == IInv /\ RemoveItem => IInv'
<1> SUFFICES ASSUME IInv, RemoveItem PROVE IInv'
  OBVIOUS
<1> DEFINE obj == estack[2]
           p == Popped(Machine, 2)
<1>2. Ready("REMOVE")
  BY DEF RemoveItem
<1>3. 2 \in 0..Len(estack) /\ obj \in Held(heap) /\ Kind(obj) \in Containers
  BY <1>2, ReadyIs, OperandsOf
<1>4. Goes(Machine, p) /\ Keeps(Machine, p) /\ Sound(p) /\ p.heap = heap
  BY <1>3, MachinePopped
<1>5. HeldContainer(obj)
  BY <1>3, KindIs
<1>6. \/ \E i \in DOMAIN heap[obj].items : Finish(ItemRemoved(p, obj, i)) /\ Meddling(p, obj, 0, 1)
      \/ Done(p)
      \/ Panic(p)
  <2> DEFINE z(i) == [Removed(p, <<heap[obj].items[i]>>) EXCEPT !.heap[obj].items = RemoveAt(@, i)]
  <2>1. \/ \E i \in DOMAIN heap[obj].items : Finish(z(i)) /\ Meddling(p, obj, 0, 1)
        \/ Done(p)
        \/ Panic(p)
    BY DEF RemoveItem
  <2>2. \A i : z(i) = ItemRemoved(p, obj, i)
    BY <1>4 DEF ItemRemoved
  <2> HIDE DEF z
  <2> QED BY <2>1, <2>2
<1> HIDE DEF p, obj
<1>7. CASE \E i \in DOMAIN heap[obj].items : Finish(ItemRemoved(p, obj, i)) /\ Meddling(p, obj, 0, 1)
  <2>1. PICK i \in DOMAIN heap[obj].items : Finish(ItemRemoved(p, obj, i)) /\ Meddling(p, obj, 0, 1)
    BY <1>7
  <2> DEFINE y == ItemRemoved(p, obj, i)
             t == p.heap[obj].items
             s == RemoveAt(t, i)
  <2>2. /\ obj \in Held(p.heap) /\ obj # Primitive /\ i \in 1..Len(t) /\ t \in Seq(Held(p.heap))
        /\ Len(t) \in 0..MaxArraySize
    BY <1>4, <1>5 DEF HeldContainer
  <2>3. /\ Sound(y) /\ y.heap = Refilled(p.heap, obj, s)
        /\ Covering(p) /\ obj \in Reachable(p.heap, p.estack) => Steady(p, y)
    BY <1>4, <2>2, ItemRemovedIs
  <2> HIDE DEF y
  <2>4. Acyclic(y.heap)
    <3> HIDE DEF t
    <3>1. s \in Seq(Held(p.heap)) /\ Len(t) = Len(s) + 1 /\ Len(s) \in Nat
      BY <2>2, OccurrencesOthers
    <3>2. \A a : Occurrences(a, t) = Occurrences(a, s) + One(a, t[i])
      BY <2>2, OccurrencesOthers
    <3> HIDE DEF s
    <3>3. Len(s) <= MaxArraySize
      BY <2>2, <3>1, BoundsAssumption
    <3>4. \A a : /\ Occurrences(a, s) > 0 <=> a \in ToSet(s)
                 /\ Occurrences(a, t) > 0 <=> a \in ToSet(t)
                 /\ Occurrences(a, s) \in Nat /\ One(a, t[i]) \in Nat
      BY <2>2, <3>1, OccurrencesMany, OccurrencesType DEF One
    <3>5. \A a : Occurrences(a, s) > 0 => Occurrences(a, t) > 0
      BY <3>2, <3>4
    <3>6. ToSet(s) \subseteq ToSet(t)
      BY <3>4, <3>5
    <3>7. GoodHeap(p.heap) /\ Acyclic(p.heap)
      BY <1>4 DEF Sound, IInv
    <3>8. Acyclic(Refilled(p.heap, obj, s))
      BY <2>2, <3>1, <3>3, <3>6, <3>7, AcyclicLess DEF t
    <3> QED BY <2>3, <3>8 DEF s, t
  <2>5. EndsWell(y)
    BY <1>4, <2>1, <2>3, <2>4, RemovesWell
  <2> QED BY <2>1, <2>5, FinishIs DEF y
<1>8. CASE Done(p) \/ Panic(p)
  BY <1>4, <1>8, DoneIs
<1> QED BY <1>6, <1>7, <1>8

-----------------------------------------------------------------------------
(* The specification                                                       *)

\* Nothing is allocated at first, and nothing counted.
LEMMA InitIs == Init => IInv
<1> SUFFICES ASSUME Init PROVE IInv
  OBVIOUS
<1>1. /\ heap = [r \in Addresses |-> Free] /\ estack = <<>> /\ itemCount = [r \in Addresses |-> 0]
      /\ size = 0 /\ outcome = "running" /\ over = 0 /\ under = 0
  BY DEF Init
<1>2. \A r \in Addresses : heap[r] = Free /\ itemCount[r] = 0
  BY <1>1
<1>3. Free.kind = "none" /\ Free.items = <<>> /\ Free \in Cell
  BY DEF Free, Of, Cell, Kinds
<1>4. Held(heap) = {Primitive}
  BY <1>2, <1>3 DEF Held
<1>5. GoodHeap(heap)
  <2>1. heap \in [Addresses -> Cell]
    BY <1>1, <1>3
  <2>2. \A r \in Addresses : heap[r].items = <<>>
    BY <1>2, <1>3
  <2>3. Len(<<>>) <= MaxArraySize
    BY BoundsAssumption
  <2>4. \A S : <<>> \in Seq(S)
    OBVIOUS
  <2>5. Sized(heap)
    BY <2>1, <2>2, <2>3 DEF Sized
  <2> QED BY <2>2, <2>4, <2>5 DEF GoodHeap
<1>6. itemCount \in [Addresses -> Nat]
  BY <1>1
<1>7. Sound(Machine)
  <2>1. Whole(Machine)
    BY DEF Whole, Machine
  <2>2. estack \in Seq(Held(heap)) /\ size \in Int
    BY <1>1
  <2>3. \A r \in Addresses : ~(itemCount[r] > 0)
    BY <1>2
  <2> QED BY <1>5, <1>6, <2>1, <2>2, <2>3, MachineIs DEF Sound
<1>8. Acyclic(heap)
  <2>1. Structs(heap) = {}
    BY <1>2, <1>3 DEF Structs
  <2> QED BY <2>1 DEF Acyclic
<1>9. InCount(Machine) = {}
  BY <1>2, MachineIs DEF InCount
<1>10. Fields(heap, {}) = {} /\ \A r : Having(heap, {}, r) = {}
  BY DEF Fields, Having
<1>11. \A r : Occurrences(r, <<>>) = 0
  <2>1. \A r : {i \in DOMAIN <<>> : <<>>[i] = r} = {}
    OBVIOUS
  <2> QED BY <2>1, FS_EmptySet DEF Occurrences
<1>12. Exact(Machine)
  <2>0. Cardinality({}) = 0
    BY FS_EmptySet
  <2>1. \A r : Refs(Machine, heap, r) = 0
    <3> TAKE r
    <3>1. Occurrences(r, Machine.estack) = 0
      BY <1>1, <1>11, MachineIs
    <3>2. Cardinality(Having(heap, InCount(Machine), r)) = 0
      BY <1>9, <1>10, <2>0
    <3> QED BY <3>1, <3>2 DEF Refs
  <2>2. \A r \in Addresses : Spare(Machine, heap, r) = 0
    BY <1>2, <2>1, MachineIs DEF Spare
  <2>3. Len(estack) = 0
    BY <1>1
  <2>4. SpareSize(Machine, heap) = 0
    <3>1. Cardinality(Fields(heap, InCount(Machine))) = 0
      BY <1>9, <1>10, <2>0
    <3>2. Machine.size = 0 /\ Len(Machine.estack) = 0
      BY <1>1, <2>3, MachineIs
    <3> QED BY <3>1, <3>2 DEF SpareSize
  <2> QED BY <2>2, <2>4, MachineIs DEF Exact
<1>13. Covering(Machine)
  BY <1>12 DEF Covering, Settled, Exact
<1> QED BY <1>1, <1>7, <1>8, <1>12, <1>13, BoundsAssumption DEF IInv

\* No instruction breaks it.
LEMMA NextKeeps == IInv /\ [Next]_vars => IInv'
<1> SUFFICES ASSUME IInv, [Next]_vars PROVE IInv'
  OBVIOUS
<1>1. CASE TooFewOperands \/ InvalidKey \/ WrongType
  BY <1>1, TooFewKeeps, InvalidKeyKeeps, WrongTypeKeeps
<1>2. CASE Push \/ StackOp
  BY <1>2, PushKeeps, StackOpKeeps
<1>3. CASE NewArray
  <2>1. New("NEWARRAY", "Array") /\ Operands["NEWARRAY"].args = 1 /\ "Array" \in Lists
    BY <1>3 DEF NewArray, Operands, Takes, Lists
  <2> QED BY <2>1, NewKeeps
<1>4. CASE NewStruct
  <2>1. New("NEWSTRUCT", "Struct") /\ Operands["NEWSTRUCT"].args = 1 /\ "Struct" \in Lists
    BY <1>4 DEF NewStruct, Operands, Takes, Lists
  <2> QED BY <2>1, NewKeeps
<1>5. CASE NewMap \/ Pack \/ Unpack
  BY <1>5, NewMapKeeps, PackKeeps, UnpackKeeps
<1>6. CASE AppendItem \/ SetItem \/ RemoveItem \/ ReverseItems
  BY <1>6, AppendKeeps, SetItemKeeps, RemoveItemKeeps, ReverseKeeps
<1>7. CASE PickItem \/ Keys \/ Values \/ HasKey \/ ArraySize
  BY <1>7, PickItemKeeps, KeysKeeps, ValuesKeeps, HasKeyKeeps, ArraySizeKeeps
<1>8. CASE UNCHANGED vars
  <2>1. /\ heap' = heap /\ estack' = estack /\ itemCount' = itemCount /\ size' = size
        /\ outcome' = outcome /\ over' = over /\ under' = under
    BY <1>8 DEF vars
  <2>2. Machine' = Machine
    BY <2>1 DEF Machine
  <2> QED BY <2>1, <2>2 DEF IInv
<1> QED BY <1>1, <1>2, <1>3, <1>4, <1>5, <1>6, <1>7, <1>8 DEF Next

\* The inductive invariant holds in every reachable state.
THEOREM CountsInvariant == Spec => []IInv
<1>1. Init => IInv
  BY InitIs
<1>2. IInv /\ [Next]_vars => IInv'
  BY NextKeeps
<1> QED BY <1>1, <1>2, PTL DEF Spec

\* Whatever the script, the heap, the stack, the counts and the size are of
\* their types, and no container grows above MaxArraySize: no instruction that
\* makes or extends one gets around the check (NEWARRAY, APPEND, SETITEM, PACK).
THEOREM TypeCorrect == Spec => []TypeOK
<1>1. IInv => TypeOK
  <2> SUFFICES ASSUME IInv PROVE TypeOK
    OBVIOUS
  <2>1. Sound(Machine) /\ GoodHeap(heap) /\ Sized(heap) /\ estack \in Seq(Held(heap))
    BY StackIs
  <2>2. itemCount \in [Addresses -> Nat] /\ size \in Int
    BY <2>1, MachineIs DEF Sound
  <2>3. estack \in Seq(Items)
    BY <2>1, HeldItems
  <2> QED BY <2>1, <2>2, <2>3 DEF TypeOK, Sized, IInv
<1> QED BY <1>1, CountsInvariant, PTL

\* updateSizeAdd and updateSizeRemove are exact: after any instructions, also one
\* that panicked half way, itemCount is the number of references to a container
\* and v.size that of all items, unless a container the stack led to no more was
\* changed.
THEOREM CountsAreExact == Spec => []CountsExact
<1>1. IInv => CountsExact
  <2> SUFFICES ASSUME IInv, over = 0, under = 0
               PROVE  /\ \A r \in Addresses :
                           itemCount[r] = Occurrences(r, estack) + Cardinality(Having(heap, Counted, r))
                      /\ size = Len(estack) + Cardinality(Fields(heap, Counted))
    BY DEF CountsExact
  <2>1. Sound(Machine) /\ Exact(Machine)
    BY DEF IInv
  <2>2. InCount(Machine) = Counted
    BY MachineIs DEF InCount, Counted
  <2>3. /\ itemCount \in [Addresses -> Nat] /\ size \in Int /\ estack \in Seq(Held(heap))
        /\ Counted \subseteq Addresses
    BY <2>1, MachineIs DEF Sound, Counted
  <2>4. ASSUME NEW r \in Addresses
        PROVE  itemCount[r] = Occurrences(r, estack) + Cardinality(Having(heap, Counted, r))
    <3>1. itemCount[r] - Refs(Machine, heap, r) = 0
      BY <2>1, MachineIs DEF Exact, Spare
    <3>2. Refs(Machine, heap, r) \in Nat /\ itemCount[r] \in Nat
      BY <2>3, MachineIs, RefsType
    <3>3. Refs(Machine, heap, r) = Occurrences(r, estack) + Cardinality(Having(heap, Counted, r))
      BY <2>2, MachineIs DEF Refs
    <3>4. itemCount[r] = Refs(Machine, heap, r)
      BY <3>1, <3>2
    <3> QED BY <3>3, <3>4
  <2>5. size = Len(estack) + Cardinality(Fields(heap, Counted))
    <3> DEFINE all == Len(estack) + Cardinality(Fields(heap, Counted))
    <3>1. size - all = 0
      BY <2>1, <2>2, MachineIs DEF Exact, SpareSize
    <3>2. all \in Nat
      BY <2>3, FieldsCount
    <3> HIDE DEF all
    <3>3. size = all
      BY <2>3, <3>1, <3>2
    <3> QED BY <3>3 DEF all
  <2> QED BY <2>4, <2>5
<1> QED BY <1>1, CountsInvariant, PTL

\* MaxStackSize bounds what hangs together with the stack, however containers
\* share parts or contain one another: what the stack leads to is counted, and
\* v.size is not below what is counted.
THEOREM LimitIsKept == Spec => []LimitHolds
<1>1. IInv => LimitHolds
  <2> SUFFICES ASSUME IInv, under = 0, outcome = "running" PROVE InUse <= MaxStackSize
    BY DEF LimitHolds
  <2>1. /\ Sound(Machine) /\ Sized(heap) /\ Settled(Machine, heap) /\ SpareSize(Machine, heap) >= 0
        /\ size <= MaxStackSize
    BY MachineIs, StackIs DEF IInv, Covering
  <2>2. Reachable(heap, estack) \subseteq InCount(Machine) /\ InCount(Machine) \subseteq Addresses
    BY <2>1, MachineIs, Rooted DEF InCount
  <2> DEFINE used == Cardinality(Fields(heap, Reachable(heap, estack)))
             all == Cardinality(Fields(heap, InCount(Machine)))
  <2>3. used <= all
    BY <2>2, FieldsWithin
  <2>4. used \in Nat /\ all \in Nat /\ Len(estack) \in Nat /\ size \in Int
    BY <2>1, <2>2, StackIs, FieldsCount, MachineIs DEF Sound
  <2>5. size - (Len(estack) + all) >= 0
    BY <2>1, MachineIs DEF SpareSize
  <2> HIDE DEF used, all
  <2>6. Len(estack) + used <= MaxStackSize
    BY <2>1, <2>3, <2>4, <2>5, BoundsAssumption
  <2> QED BY <2>6 DEF InUse, used
<1> QED BY <1>1, CountsInvariant, PTL

\* No struct contains itself through structs alone: APPEND and SETITEM store
\* copies, all of whose nested structs are new, so that Clone and Equals end.
THEOREM NoStructInItself == Spec => []StructsAcyclic
<1>1. IInv => StructsAcyclic
  BY DEF IInv, Acyclic, StructsAcyclic
<1> QED BY <1>1, CountsInvariant, PTL

\* updateSizeAdd and updateSizeRemove end, also where containers contain
\* themselves: neither makes more visits than the stack and all containers have
\* items, since none is followed twice that is counted as often as referred to.
THEOREM TraversalsAlwaysEnd == Spec => []TraversalsEnd
<1>1. IInv => TraversalsEnd
  BY DEF IInv, TraversalsEnd
<1> QED BY <1>1, CountsInvariant, PTL
=============================================================================
