--------------------------- MODULE ItemCountProofs ---------------------------
(***************************************************************************)
(* What v.size says about the items on the stacks in use, for all scripts, *)
(* limits and sequences of host calls.                                     *)
(*                                                                         *)
(* An item is counted by its place, a stack and a position on it, so that  *)
(* sums over stacks are cardinalities.  Over the stacks that were in use   *)
(* and the ones that have become current, every instruction moves size by  *)
(* as much as it moves the number of items (CountStep); what is counted    *)
(* and in use no more is what the step has lost (LiveStep).                *)
(***************************************************************************)
EXTENDS VMControlProofs, FiniteSetTheorems

-----------------------------------------------------------------------------
(* Counting places                                                         *)

Held == [StackIds -> Seq(Item)]
Count(held, S) == Cardinality(Places(held, S))

LEMMA InPlaces ==
  ASSUME NEW held, NEW S, NEW p
  PROVE  p \in Places(held, S) <=> \E s \in S : \E i \in DOMAIN held[s] : p = <<s, i>>
<1>1. p \in Places(held, S) <=> \E s \in S : p \in {s} \X DOMAIN held[s]
  BY Zenon DEF Places
<1> QED BY <1>1

LEMMA PlacesFinite ==
  ASSUME NEW held \in Held, NEW S \in SUBSET StackIds, IsFiniteSet(S)
  PROVE  IsFiniteSet(Places(held, S)) /\ Count(held, S) \in Nat
<1> DEFINE f == [s \in S |-> {s} \X DOMAIN held[s]]
           T == {{s} \X DOMAIN held[s] : s \in S}
<1>1. f \in Surjection(S, T)
  BY DEF Surjection
<1>2. IsFiniteSet(T)
  BY <1>1, FS_Surjection
<1>3. ASSUME NEW s \in S PROVE IsFiniteSet({s} \X DOMAIN held[s])
  <2>1. DOMAIN held[s] = 1..Len(held[s]) /\ Len(held[s]) \in Nat
    BY DEF Held
  <2>2. IsFiniteSet(DOMAIN held[s])
    BY <2>1, FS_Interval
  <2> QED BY <2>2, FS_Singleton, FS_Product
<1>4. IsFiniteSet(UNION T)
  BY <1>2, <1>3, FS_UNION
<1> QED BY <1>4, FS_CardinalityType DEF Places, Count

\* A stack holds as many places as items.
LEMMA CountOne ==
  ASSUME NEW held \in Held, NEW s \in StackIds
  PROVE  Count(held, {s}) = Len(held[s])
<1> DEFINE n == Len(held[s])
<1>1. DOMAIN held[s] = 1..n /\ n \in Nat
  BY DEF Held
<1> HIDE DEF n
<1>2. Places(held, {s}) = {s} \X (1..n)
  BY <1>1 DEF Places
<1>3. IsFiniteSet(1..n) /\ Cardinality(1..n) = n
  BY <1>1, FS_Interval
<1>4. IsFiniteSet({s}) /\ Cardinality({s}) = 1
  BY FS_Singleton
<1>5. Cardinality({s} \X (1..n)) = Cardinality({s}) * Cardinality(1..n)
  BY <1>3, <1>4, FS_Product
<1>6. 1 * n = n
  BY <1>1
<1>7. Count(held, {s}) = n
  BY <1>2, <1>3, <1>4, <1>5, <1>6 DEF Count
<1> QED BY <1>7 DEF n

LEMMA CountUnion ==
  ASSUME NEW held \in Held, NEW S \in SUBSET StackIds, NEW T \in SUBSET StackIds,
         IsFiniteSet(S), IsFiniteSet(T), S \intersect T = {}
  PROVE  Count(held, S \union T) = Count(held, S) + Count(held, T)
<1>1. Places(held, S \union T) = Places(held, S) \union Places(held, T)
  <2>1. ASSUME NEW p PROVE p \in Places(held, S \union T) <=> p \in Places(held, S) \union Places(held, T)
    BY InPlaces
  <2> QED BY <2>1
<1>2. Places(held, S) \intersect Places(held, T) = {}
  <2>1. ASSUME NEW p, p \in Places(held, S), p \in Places(held, T) PROVE FALSE
    <3>1. p[1] \in S
      BY <2>1, InPlaces
    <3>2. p[1] \in T
      BY <2>1, InPlaces
    <3> QED BY <3>1, <3>2
  <2> QED BY <2>1
<1>3. /\ IsFiniteSet(Places(held, S)) /\ Count(held, S) \in Nat
      /\ IsFiniteSet(Places(held, T)) /\ Count(held, T) \in Nat
  BY PlacesFinite
<1>4. Cardinality({}) = 0
  BY FS_EmptySet
<1>5. Cardinality(Places(held, S) \union Places(held, T)) =
        Cardinality(Places(held, S)) + Cardinality(Places(held, T)) - 0
  BY <1>2, <1>3, <1>4, FS_Union
<1>6. Count(held, S \union T) = Count(held, S) + Count(held, T) - 0
  BY <1>1, <1>5 DEF Count
<1> QED BY <1>3, <1>6

LEMMA CountMonotone ==
  ASSUME NEW held \in Held, NEW S \in SUBSET StackIds, NEW T \in SUBSET S, IsFiniteSet(S)
  PROVE  Count(held, T) <= Count(held, S)
<1>1. Places(held, T) \in SUBSET Places(held, S)
  <2>1. ASSUME NEW p, p \in Places(held, T) PROVE p \in Places(held, S)
    BY <2>1, InPlaces
  <2> QED BY <2>1
<1> QED BY <1>1, PlacesFinite, FS_Subset DEF Count

\* Only the stacks counted matter.
LEMMA CountSame ==
  ASSUME NEW held \in Held, NEW now \in Held, NEW S \in SUBSET StackIds,
         \A s \in S : now[s] = held[s]
  PROVE  Count(now, S) = Count(held, S)
  BY DEF Places, Count

\* A stack counted beside others, whatever it held before.
LEMMA CountAdded ==
  ASSUME NEW held \in Held, NEW now \in Held, NEW S \in SUBSET StackIds, IsFiniteSet(S),
         NEW s \in StackIds \ S, \A t \in S : now[t] = held[t]
  PROVE  Count(now, S \union {s}) = Count(held, S) + Len(now[s])
<1>1. IsFiniteSet({s}) /\ {s} \in SUBSET StackIds /\ S \intersect {s} = {}
  BY FS_Singleton
<1>2. Count(now, S) = Count(held, S) /\ Count(now, {s}) = Len(now[s])
  BY CountSame, CountOne
<1>3. S \in SUBSET StackIds /\ IsFiniteSet(S)
  OBVIOUS
<1>4. Count(now, S \union {s}) = Count(now, S) + Count(now, {s})
  BY <1>1, <1>3, CountUnion
<1> QED BY <1>2, <1>4, Zenon

\* A stack that changes changes the count by as much.
LEMMA CountChanged ==
  ASSUME NEW held \in Held, NEW now \in Held, NEW S \in SUBSET StackIds, IsFiniteSet(S),
         NEW s \in S, \A t \in StackIds \ {s} : now[t] = held[t]
  PROVE  Count(now, S) = Count(held, S) + Len(now[s]) - Len(held[s])
<1> DEFINE rest == S \ {s}
<1>1. IsFiniteSet(rest)
  BY FS_RemoveElement
<1>2. rest \in SUBSET StackIds /\ S = rest \union {s} /\ s \in StackIds \ rest
  OBVIOUS
<1>3. \A t \in rest : now[t] = held[t]
  OBVIOUS
<1> HIDE DEF rest
<1>4. /\ Count(held, rest \union {s}) = Count(held, rest) + Len(held[s])
      /\ Count(now, rest \union {s}) = Count(held, rest) + Len(now[s])
  BY <1>1, <1>2, <1>3, CountAdded
<1>5. Count(held, rest) \in Nat /\ Len(held[s]) \in Nat /\ Len(now[s]) \in Nat
  BY <1>1, <1>2, PlacesFinite DEF Held
<1>6. Count(held, S) = Count(held, rest) + Len(held[s]) /\ Count(now, S) = Count(held, rest) + Len(now[s])
  BY <1>2, <1>4, Zenon
<1>7. /\ Count(held, rest) \in Int /\ Len(held[s]) \in Int /\ Len(now[s]) \in Int
      /\ Count(held, S) \in Int /\ Count(now, S) \in Int
  BY <1>5, PlacesFinite
<1> DEFINE c == Count(held, rest)
           k == Len(held[s])
           m == Len(now[s])
           x == Count(held, S)
           y == Count(now, S)
<1> HIDE DEF c, k, m, x, y
<1>8. c \in Int /\ k \in Int /\ m \in Int /\ x \in Int /\ y \in Int
  BY <1>7 DEF c, k, m, x, y
<1>9. x = c + k /\ y = c + m
  BY <1>6, Zenon DEF c, k, m, x, y
<1>10. y = x + m - k
  BY <1>8, <1>9
<1> QED BY <1>10, Zenon DEF k, m, x, y

-----------------------------------------------------------------------------
(* What a step counts                                                      *)

\* The stacks in use before a step, and the ones it made current.
InUse == Live \union {estack', astack'}

\* What is on them changes as size does.
Balanced == Count(stacks', InUse) = LiveItems + (size' - size)

LEMMA LiveFinite ==
  ASSUME TypeOK
  PROVE  /\ Live \in SUBSET StackIds /\ IsFiniteSet(Live)
         /\ LiveItems = Count(stacks, Live) /\ LiveItems \in Nat
         /\ stacks \in Held
<1> DEFINE n == Len(istack)
           es == [i \in 1..n |-> istack[i].es]
           as == [i \in 1..n |-> istack[i].as]
           E == {istack[i].es : i \in 1..n}
           A == {istack[i].as : i \in 1..n}
<1>1. n \in Nat /\ DOMAIN istack = 1..n /\ \A i \in 1..n : istack[i] \in Context
  BY DEF TypeOK
<1> HIDE DEF n
<1>2. E \in SUBSET StackIds /\ A \in SUBSET StackIds
  BY <1>1 DEF Context
<1>3. IsFiniteSet(1..n)
  BY <1>1, FS_Interval
<1>4. IsFiniteSet(E)
  <2>1. es \in Surjection(1..n, E)
    BY DEF Surjection
  <2> QED BY <1>3, <2>1, FS_Surjection
<1>5. IsFiniteSet(A)
  <2>1. as \in Surjection(1..n, A)
    BY DEF Surjection
  <2> QED BY <1>3, <2>1, FS_Surjection
<1>6. IsFiniteSet({estack, astack})
  <2>1. IsFiniteSet({estack} \union {astack})
    BY FS_Singleton, FS_AddElement
  <2>2. {estack} \union {astack} = {estack, astack}
    OBVIOUS
  <2> QED BY <2>1, <2>2
<1>7. Live = ({estack, astack} \union E) \union A
  BY <1>1 DEF Live
<1> HIDE DEF E, A
<1>8. Live \in SUBSET StackIds
  BY <1>2, <1>7 DEF TypeOK
<1>9. IsFiniteSet({estack, astack} \union E)
  BY <1>4, <1>6, FS_Union
<1>10. IsFiniteSet(Live)
  BY <1>5, <1>7, <1>9, FS_Union
<1>11. stacks \in Held
  BY DEF TypeOK, Held
<1>12. LiveItems = Count(stacks, Live)
  BY DEF LiveItems, Count
<1> QED BY <1>8, <1>10, <1>11, <1>12, PlacesFinite

\* One stack in use changes.
LEMMA OneStack ==
  ASSUME TypeOK, UNCHANGED <<estack, astack>>, NEW s \in Live, NEW items \in Seq(Item),
         stacks' = [stacks EXCEPT ![s] = items],
         size' = size + (Len(items) - Len(stacks[s]))
  PROVE  Balanced
<1>1. Live \in SUBSET StackIds /\ IsFiniteSet(Live) /\ stacks \in Held /\ LiveItems = Count(stacks, Live)
  BY LiveFinite
<1>2. stacks' \in Held /\ stacks'[s] = items /\ \A t \in StackIds \ {s} : stacks'[t] = stacks[t]
  BY <1>1 DEF Held
<1>3. InUse = Live
  BY InLive DEF InUse
<1>4. Count(stacks', Live) = Count(stacks, Live) + Len(stacks'[s]) - Len(stacks[s])
  <2> DEFINE now == stacks'
             live == Live
  <2>1. now \in Held /\ stacks \in Held /\ live \in SUBSET StackIds /\ IsFiniteSet(live) /\ s \in live
    BY <1>1, <1>2
  <2>2. \A t \in StackIds \ {s} : now[t] = stacks[t]
    BY <1>2
  <2> HIDE DEF now, live
  <2>3. Count(now, live) = Count(stacks, live) + Len(now[s]) - Len(stacks[s])
    BY <2>1, <2>2, CountChanged
  <2> QED BY <2>3 DEF now, live
<1>5. Count(stacks, Live) \in Nat /\ Len(items) \in Nat /\ Len(stacks[s]) \in Nat /\ size \in Int
  BY <1>1, LiveFinite DEF Held, TypeOK
<1>6. Count(stacks', Live) = LiveItems + Len(items) - Len(stacks[s])
  BY <1>1, <1>2, <1>4, Zenon
<1>7. LiveItems \in Nat
  BY <1>1, <1>5
<1>8. size' - size = Len(items) - Len(stacks[s])
  BY <1>5
<1>9. Count(stacks', Live) = LiveItems + (size' - size)
  BY <1>5, <1>6, <1>7, <1>8
<1> QED BY <1>3, <1>9 DEF Balanced

\* None does.
LEMMA NoStack ==
  ASSUME TypeOK, UNCHANGED <<stacks, size>>, estack' \in Live, astack' \in Live
  PROVE  Balanced
<1>1. InUse = Live
  BY DEF InUse
<1>2. LiveItems = Count(stacks, Live) /\ LiveItems \in Nat /\ size \in Int
  BY LiveFinite DEF TypeOK
<1> QED BY <1>1, <1>2 DEF Balanced

LEMMA PanicBalanced ==
  ASSUME TypeOK, Panic
  PROVE  Balanced
<1>1. /\ stacks' = [stacks EXCEPT ![estack] = stacks[estack]]
      /\ UNCHANGED <<size, estack, astack>>
  BY DEF Panic, PanicWith
<1>2. stacks' = stacks
  BY <1>1 DEF TypeOK
<1>3. estack' \in Live /\ astack' \in Live
  BY <1>1, InLive
<1> QED BY <1>1, <1>2, <1>3, NoStack

\* An item moves between two stacks in use, which may be the same.
LEMMA MoveBalanced ==
  ASSUME TypeOK, NEW from \in Live, NEW to \in Live, MoveTop(from, to)
  PROVE  Balanced
<1>1. /\ Live \in SUBSET StackIds /\ IsFiniteSet(Live) /\ stacks \in Held
      /\ LiveItems = Count(stacks, Live) /\ LiveItems \in Nat /\ size \in Int
  BY LiveFinite DEF TypeOK
<1>2. CASE stacks[from] = <<>>
  BY <1>2, PanicBalanced DEF MoveTop
<1>3. CASE stacks[from] # <<>>
  <2> DEFINE top == Head(stacks[from])
             ss == [stacks EXCEPT ![from] = Tail(stacks[from])]
  <2>1. stacks[from] \in Seq(Item) /\ Len(stacks[from]) \in Nat
    BY <1>1 DEF Held
  <2>2. /\ Tail(stacks[from]) \in Seq(Item) /\ top \in Item
        /\ Len(Tail(stacks[from])) = Len(stacks[from]) - 1
    BY <1>3, <2>1, TailProperties
  <2>3. /\ ss \in Held /\ ss[from] = Tail(stacks[from])
        /\ \A t \in StackIds \ {from} : ss[t] = stacks[t]
    BY <1>1, <2>2 DEF Held
  <2>4. /\ stacks' = [ss EXCEPT ![to] = <<top>> \o ss[to]] /\ UNCHANGED <<estack, astack, size>>
    BY <1>3 DEF MoveTop
  <2> HIDE DEF ss, top
  <2>5. ss[to] \in Seq(Item) /\ Len(ss[to]) \in Nat
    BY <1>1, <2>3 DEF Held
  <2>6. <<top>> \o ss[to] \in Seq(Item) /\ Len(<<top>> \o ss[to]) = Len(ss[to]) + 1
    BY <2>2, <2>5, ConsProperties
  <2>7. /\ stacks' \in Held /\ Len(stacks'[to]) = Len(ss[to]) + 1
        /\ \A t \in StackIds \ {to} : stacks'[t] = ss[t]
    BY <1>1, <2>3, <2>4, <2>6 DEF Held
  <2>8. Count(ss, Live) = Count(stacks, Live) + Len(ss[from]) - Len(stacks[from])
    BY <1>1, <2>3, CountChanged
  <2>9. Count(stacks', Live) = Count(ss, Live) + Len(stacks'[to]) - Len(ss[to])
    BY <1>1, <2>3, <2>7, CountChanged
  <2>10. Count(ss, Live) = LiveItems - 1
    BY <1>1, <2>1, <2>2, <2>3, <2>8
  <2>11. Count(stacks', Live) = LiveItems
    BY <1>1, <2>5, <2>7, <2>9, <2>10
  <2>12. InUse = Live
    BY <2>4, InLive DEF InUse
  <2> QED BY <1>1, <2>4, <2>11, <2>12 DEF Balanced
<1> QED BY <1>2, <1>3

\* The items popped before a panic are counted off.
LEMMA LatePanicBalanced ==
  ASSUME TypeOK, NEW items \in Seq(Item), NEW sz,
         sz = size + (Len(items) - Len(stacks[estack])), PanicWith(items, sz)
  PROVE  Balanced
<1>1. estack \in Live
  BY InLive
<1>2. /\ stacks' = [stacks EXCEPT ![estack] = items] /\ UNCHANGED <<estack, astack>>
      /\ size' = size + (Len(items) - Len(stacks[estack]))
  BY DEF PanicWith
<1> QED BY <1>1, <1>2, OneStack

\* The top item is popped.
LEMMA PopBalanced ==
  ASSUME TypeOK, stacks[estack] # <<>>
  PROVE  /\ stacks[estack] \in Seq(Item) /\ Tail(stacks[estack]) \in Seq(Item)
         /\ size - 1 = size + (Len(Tail(stacks[estack])) - Len(stacks[estack]))
<1>1. stacks[estack] \in Seq(Item) /\ size \in Int
  BY DEF TypeOK
<1>2. /\ Tail(stacks[estack]) \in Seq(Item) /\ Len(stacks[estack]) \in Nat
      /\ Len(Tail(stacks[estack])) = Len(stacks[estack]) - 1
  BY <1>1, TailProperties
<1> QED BY <1>1, <1>2

LEMMA ComputeBalanced ==
  ASSUME TypeOK,
         \/ FailUnpriced \/ OutOfGas
         \/ Nop \/ Renew \/ Push \/ PopOne \/ ToAltStack \/ FromAltStack \/ Jump \/ JumpIf
  PROVE  Balanced
<1>0. estack \in Live /\ astack \in Live
  BY InLive
<1>1. CASE Panic
  BY <1>1, PanicBalanced
<1>2. CASE UNCHANGED <<stacks, size, estack, astack>>
  BY <1>0, <1>2, NoStack
<1>3. CASE /\ stacks[estack] # <<>>
           /\ stacks' = [stacks EXCEPT ![estack] = Tail(stacks[estack])]
           /\ size' = size - 1 /\ UNCHANGED <<estack, astack>>
  BY <1>0, <1>3, PopBalanced, OneStack
<1>4. CASE stacks[estack] # <<>> /\ PanicWith(Tail(stacks[estack]), size - 1)
  BY <1>4, PopBalanced, LatePanicBalanced
<1>5. CASE Push
  <2>1. istack # <<>> /\ instr.op = "PUSH"
    BY <1>5 DEF Push, Charged, Executes
  <2>2. instr.item \in Item /\ stacks[estack] \in Seq(Item) /\ size \in Int
    BY <2>1, FetchType, ParameterTypes DEF TypeOK
  <2> DEFINE items == <<instr.item>> \o stacks[estack]
  <2>3. items \in Seq(Item) /\ Len(items) = Len(stacks[estack]) + 1
    BY <2>2, ConsProperties
  <2>4. Len(stacks[estack]) \in Nat
    BY <2>2
  <2>5. /\ stacks' = [stacks EXCEPT ![estack] = items]
        /\ size' = size + 1 /\ UNCHANGED <<estack, astack>>
    BY <1>5 DEF Push
  <2> HIDE DEF items
  <2>6. size' = size + (Len(items) - Len(stacks[estack]))
    BY <2>2, <2>3, <2>4, <2>5
  <2> QED BY <1>0, <2>3, <2>5, <2>6, OneStack
<1>6. CASE ToAltStack
  BY <1>0, <1>6, MoveBalanced DEF ToAltStack
<1>7. CASE FromAltStack
  BY <1>0, <1>7, MoveBalanced DEF FromAltStack
<1>8. CASE FailUnpriced \/ OutOfGas
  BY <1>1, <1>8 DEF FailUnpriced, OutOfGas
<1>9. CASE Nop \/ Renew \/ Jump
  BY <1>1, <1>2, <1>9 DEF Nop, Renew, Jump
<1>10. CASE PopOne
  BY <1>1, <1>3, <1>4, <1>10 DEF PopOne
<1>11. CASE JumpIf
  BY <1>1, <1>3, <1>11 DEF JumpIf
<1> QED BY <1>5, <1>6, <1>7, <1>8, <1>9, <1>10, <1>11

LEMMA CallBalanced ==
  ASSUME TypeOK, Call
  PROVE  Balanced
<1>1. CASE Panic
  BY <1>1, PanicBalanced
<1>2. CASE ~Panic
  <2>1. /\ HasFresh /\ stacks' = [stacks EXCEPT ![NewAlt] = <<>>]
        /\ astack' = NewAlt /\ UNCHANGED <<estack, size>>
    BY <1>2 DEF Call
  <2>2. NewAlt \in StackIds \ Live
    BY <2>1, FreshStacks
  <2>3. /\ Live \in SUBSET StackIds /\ IsFiniteSet(Live) /\ stacks \in Held
        /\ LiveItems = Count(stacks, Live) /\ LiveItems \in Nat /\ size \in Int
    BY LiveFinite DEF TypeOK
  <2>4. /\ stacks' \in Held /\ Len(stacks'[NewAlt]) = 0
        /\ \A t \in Live : stacks'[t] = stacks[t]
    BY <2>1, <2>2, <2>3, NoItems DEF Held
  <2>5. Count(stacks', Live \union {NewAlt}) = Count(stacks, Live) + Len(stacks'[NewAlt])
    BY <2>2, <2>3, <2>4, CountAdded
  <2>6. InUse = Live \union {NewAlt}
    BY <2>1, InLive DEF InUse
  <2>7. Count(stacks', InUse) = LiveItems + 0
    BY <2>3, <2>4, <2>5, <2>6
  <2> QED BY <2>1, <2>3, <2>7 DEF Balanced
<1> QED BY <1>1, <1>2

LEMMA AppCallBalanced ==
  ASSUME TypeOK, AppCall
  PROVE  Balanced
<1> DEFINE dynamic == instr.hash = "zero"
           items == stacks[estack]
           rest == IF dynamic THEN Tail(items) ELSE items
           left == IF dynamic THEN size - 1 ELSE size
<1>1. CASE Panic
  BY <1>1, PanicBalanced
<1>2. CASE ~Panic
  <2>1. ~(dynamic /\ items = <<>>)
    BY <1>2 DEF AppCall
  <2>2. items \in Seq(Item) /\ size \in Int /\ estack \in Live
    BY InLive DEF TypeOK
  <2>3. rest \in Seq(Item) /\ left = size + (Len(rest) - Len(items))
    <3>1. CASE dynamic
      BY <2>1, <2>2, <3>1, PopBalanced
    <3>2. CASE ~dynamic
      BY <2>2, <3>2
    <3> QED BY <3>1, <3>2
  <2>4. CASE PanicWith(rest, left)
    <3> HIDE DEF rest, left
    <3> QED BY <2>3, <2>4, LatePanicBalanced
  <2>5. CASE ~PanicWith(rest, left)
    <3> DEFINE ss == [stacks EXCEPT ![estack] = rest]
    <3>1. /\ HasFresh /\ stacks' = [stacks EXCEPT ![estack] = rest, ![NewAlt] = <<>>]
          /\ astack' = NewAlt /\ size' = left /\ estack' = estack
      BY <2>1, <2>5, Zenon DEF AppCall
    <3>2. NewAlt \in StackIds \ Live
      BY <3>1, FreshStacks
    <3> HIDE DEF rest, left
    <3>3. /\ Live \in SUBSET StackIds /\ IsFiniteSet(Live) /\ stacks \in Held
          /\ LiveItems = Count(stacks, Live) /\ LiveItems \in Nat
      BY LiveFinite
    <3>4. ss \in Held /\ ss[estack] = rest /\ \A t \in StackIds \ {estack} : ss[t] = stacks[t]
      BY <2>2, <2>3, <3>3 DEF Held
    <3>5. stacks' = [ss EXCEPT ![NewAlt] = <<>>]
      BY <3>1
    <3> HIDE DEF ss
    <3>6. stacks' \in Held /\ Len(stacks'[NewAlt]) = 0 /\ \A t \in Live : stacks'[t] = ss[t]
      BY <3>2, <3>3, <3>4, <3>5, NoItems DEF Held
    <3>7. Count(ss, Live) = Count(stacks, Live) + Len(rest) - Len(items)
      BY <2>2, <3>3, <3>4, CountChanged
    <3>8. Count(stacks', Live \union {NewAlt}) = Count(ss, Live) + Len(stacks'[NewAlt])
      BY <3>2, <3>3, <3>4, <3>6, CountAdded
    <3>9. InUse = Live \union {NewAlt}
      BY <3>1, InLive DEF InUse
    <3>10. Count(stacks', InUse) = LiveItems + Len(rest) - Len(items) + 0
      BY <3>3, <3>6, <3>7, <3>8, <3>9, Zenon
    <3>11. Len(rest) \in Nat /\ Len(items) \in Nat /\ size' = size + (Len(rest) - Len(items))
      BY <2>2, <2>3, <3>1
    <3> HIDE DEF items
    <3>12. size' - size = Len(rest) - Len(items)
      BY <2>2, <3>11
    <3>13. LiveItems + Len(rest) - Len(items) + 0 = LiveItems + (size' - size)
      BY <3>3, <3>11, <3>12
    <3> QED BY <3>10, <3>13 DEF Balanced
  <2> QED BY <2>4, <2>5
<1> QED BY <1>1, <1>2

\* Two stacks exchange items.
LEMMA CountExchanged ==
  ASSUME NEW held \in Held, NEW now \in Held, NEW S \in SUBSET StackIds, IsFiniteSet(S),
         NEW s \in S, NEW t \in S, s # t,
         Len(now[s]) + Len(now[t]) = Len(held[s]) + Len(held[t]),
         \A u \in StackIds : u = s \/ u = t \/ now[u] = held[u]
  PROVE  Count(now, S) = Count(held, S)
<1> DEFINE a == now[s]
           b == now[t]
           ss == [held EXCEPT ![s] = a]
<1>0. a \in Seq(Item) /\ b \in Seq(Item)
  BY DEF Held
<1>1. /\ ss \in Held /\ ss[s] = a /\ ss[t] = held[t]
      /\ \A u \in StackIds \ {s} : ss[u] = held[u]
  BY <1>0 DEF Held
<1>2. \A u \in StackIds \ {t} : now[u] = ss[u]
  BY <1>1 DEF Held
<1> HIDE DEF ss
<1>4. Count(ss, S) = Count(held, S) + Len(a) - Len(held[s])
  <2>1. Count(ss, S) = Count(held, S) + Len(ss[s]) - Len(held[s])
    BY <1>1, CountChanged
  <2> QED BY <1>1, <2>1
<1>5. Count(now, S) = Count(ss, S) + Len(b) - Len(held[t])
  <2>1. Count(now, S) = Count(ss, S) + Len(now[t]) - Len(ss[t])
    BY <1>1, <1>2, CountChanged
  <2> QED BY <1>1, <2>1
<1>6. /\ Len(a) \in Nat /\ Len(b) \in Nat /\ Len(held[s]) \in Nat /\ Len(held[t]) \in Nat
      /\ Count(held, S) \in Nat
  <2>1. held[s] \in Seq(Item) /\ held[t] \in Seq(Item)
    BY DEF Held
  <2>2. Count(held, S) \in Nat
    BY PlacesFinite
  <2> QED BY <1>0, <2>1, <2>2
<1> DEFINE la == Len(a)
           lb == Len(b)
           ls == Len(held[s])
           lt == Len(held[t])
           c == Count(held, S)
           m == Count(ss, S)
<1>7. m = c + la - ls /\ Count(now, S) = m + lb - lt
  BY <1>4, <1>5
<1>8. la \in Nat /\ lb \in Nat /\ ls \in Nat /\ lt \in Nat /\ c \in Nat /\ la + lb = ls + lt
  BY <1>6
<1> HIDE DEF la, lb, ls, lt, c, m
<1>9. Count(now, S) = c
  BY <1>7, <1>8
<1> QED BY <1>9 DEF c

LEMMA ExchangeKeeps ==
  ASSUME TypeOK, stacks' \in Held, NEW s \in Live, NEW t \in Live, s # t,
         Len(stacks'[s]) + Len(stacks'[t]) = Len(stacks[s]) + Len(stacks[t]),
         \A u \in StackIds : u = s \/ u = t \/ stacks'[u] = stacks[u]
  PROVE  Count(stacks', Live) = LiveItems
<1>1. /\ Live \in SUBSET StackIds /\ IsFiniteSet(Live) /\ stacks \in Held
      /\ LiveItems = Count(stacks, Live)
  BY LiveFinite
<1>2. Count(stacks', Live) = Count(stacks, Live)
  BY <1>1, CountExchanged
<1> QED BY <1>1, <1>2

\* What joining two stacks gives.
LEMMA ConcatLength ==
  ASSUME NEW S, NEW s \in Seq(S), NEW t \in Seq(S)
  PROVE  s \o t \in Seq(S) /\ Len(s \o t) = Len(s) + Len(t)
  OBVIOUS

LEMMA TakeDropLengths ==
  ASSUME NEW S, NEW s \in Seq(S), NEW n \in Nat, n <= Len(s)
  PROVE  /\ Take(s, n) \in Seq(S) /\ Drop(s, n) \in Seq(S)
         /\ Len(Take(s, n)) = n /\ Len(Drop(s, n)) = Len(s) - n
  BY DEF Take, Drop

LEMMA ReturnBalanced ==
  ASSUME TypeOK, istack # <<>>, Return
  PROVE  Balanced
<1>0. /\ estack \in Live /\ astack \in Live /\ ctx \in Context /\ callers \in Seq(Context)
      /\ size' = size /\ Len(istack) >= 1
  BY FetchType, InLive, AdvancedShape DEF Return
<1>1. CASE UNCHANGED <<stacks, estack, astack>>
  BY <1>0, <1>1, NoStack
<1>2. CASE ~UNCHANGED <<stacks, estack, astack>>
  <2> DEFINE es == callers[1].es
             as == callers[1].as
             n == IF ctx.rvcount < 0 THEN Len(stacks[estack]) ELSE ctx.rvcount
  <2>1. /\ ~(ctx.rvcount > 0 /\ Len(stacks[estack]) < ctx.rvcount)
        /\ callers # <<>>
        /\ stacks' = Returned(es, as) /\ estack' = es /\ astack' = as
    BY <1>2 DEF Return, Resume
  <2>2. es \in Live /\ as \in Live /\ ctx.as \in Live
    <3>1. Len(istack) \in Nat /\ Len(callers) = Len(istack) - 1 /\ Len(callers) >= 1
      BY <1>0, <2>1, AdvancedShape, TailProperties
    <3>2. 1 \in 1..(Len(istack) - 1) /\ 2 \in 1..Len(istack) /\ 1 \in 1..Len(istack)
      BY <3>1
    <3>3. es = istack[1 + 1].es /\ as = istack[1 + 1].as /\ ctx = istack[1]
      BY <3>2, AdvancedShape DEF Alike, ctx
    <3> QED BY <3>2, <3>3, InLive
  <2>3. /\ Live \in SUBSET StackIds /\ IsFiniteSet(Live) /\ stacks \in Held
        /\ LiveItems = Count(stacks, Live) /\ LiveItems \in Nat /\ size \in Int
    BY LiveFinite DEF TypeOK
  <2>4. /\ stacks[estack] \in Seq(Item) /\ stacks[es] \in Seq(Item) /\ stacks[as] \in Seq(Item)
        /\ stacks[ctx.as] \in Seq(Item)
        /\ Len(stacks[estack]) \in Nat /\ Len(stacks[es]) \in Nat /\ Len(stacks[as]) \in Nat
        /\ Len(stacks[ctx.as]) \in Nat
    <3>1. /\ estack \in StackIds /\ es \in StackIds /\ as \in StackIds /\ ctx.as \in StackIds
      BY <1>0, <2>2, <2>3
    <3>2. \A u \in StackIds : stacks[u] \in Seq(Item) /\ Len(stacks[u]) \in Nat
      BY <2>3 DEF Held
    <3> QED BY <3>1, <3>2
  <2>5. ctx.rvcount \in Int
    BY <1>0 DEF Context
  <2>6. n \in Nat /\ n <= Len(stacks[estack])
    BY <2>1, <2>4, <2>5
  <2> HIDE DEF es, as
  <2>7. Count(stacks', Live) = LiveItems
    <3>1. CASE estack # es
      <4> DEFINE a == Take(stacks[estack], n) \o stacks[es]
                 b == Drop(stacks[estack], n)
      <4>1. stacks' = [stacks EXCEPT ![es] = a, ![estack] = b]
        BY <1>0, <2>1, <2>2, <2>3, <3>1 DEF Returned, Held
      <4> HIDE DEF n
      <4>2. /\ Take(stacks[estack], n) \in Seq(Item) /\ Len(Take(stacks[estack], n)) = n
            /\ b \in Seq(Item) /\ Len(b) = Len(stacks[estack]) - n
        BY <2>4, <2>6, TakeDropLengths
      <4>3. a \in Seq(Item) /\ Len(a) = n + Len(stacks[es])
        BY <2>4, <4>2, ConcatLength
      <4> HIDE DEF a, b
      <4>4. /\ stacks' \in Held /\ stacks'[es] = a /\ stacks'[estack] = b
            /\ \A u \in StackIds : u = es \/ u = estack \/ stacks'[u] = stacks[u]
        BY <1>0, <2>2, <2>3, <3>1, <4>1, <4>2, <4>3 DEF Held
      <4>5. \A m, k, e \in Nat : (m + k) + (e - m) = k + e
        OBVIOUS
      <4>6. (n + Len(stacks[es])) + (Len(stacks[estack]) - n) = Len(stacks[es]) + Len(stacks[estack])
        BY <2>4, <2>6, <4>5
      <4>7. Len(stacks'[es]) + Len(stacks'[estack]) = Len(stacks[es]) + Len(stacks[estack])
        BY <4>2, <4>3, <4>4, <4>6, Zenon
      <4>8. es # estack /\ estack \in Live
        BY <1>0, <3>1
      <4> QED BY <2>2, <4>4, <4>7, <4>8, ExchangeKeeps
    <3>2. CASE estack = es /\ ctx.rvcount = -1 /\ as # ctx.as
      <4> DEFINE a == stacks[ctx.as] \o stacks[as]
      <4>1. stacks' = [stacks EXCEPT ![as] = a, ![ctx.as] = <<>>]
        BY <2>1, <2>2, <2>3, <3>2 DEF Returned, Held
      <4>2. a \in Seq(Item) /\ Len(a) = Len(stacks[ctx.as]) + Len(stacks[as])
        BY <2>4, ConcatLength
      <4> HIDE DEF a
      <4>3. /\ stacks' \in Held /\ stacks'[as] = a /\ stacks'[ctx.as] = <<>>
            /\ \A u \in StackIds : u = as \/ u = ctx.as \/ stacks'[u] = stacks[u]
        BY <2>2, <2>3, <3>2, <4>1, <4>2, NoItems DEF Held
      <4>4. Len(<<>>) = 0
        OBVIOUS
      <4>5. \A k, m \in Nat : (m + k) + 0 = k + m
        OBVIOUS
      <4>6. Len(stacks'[as]) + Len(stacks'[ctx.as]) = Len(stacks[as]) + Len(stacks[ctx.as])
        BY <2>4, <4>2, <4>3, <4>4, <4>5, Zenon
      <4> QED BY <2>2, <3>2, <4>3, <4>6, ExchangeKeeps
    <3>3. CASE estack = es /\ ~(ctx.rvcount = -1 /\ as # ctx.as)
      <4>1. stacks' = stacks
        BY <2>1, <3>3 DEF Returned
      <4> QED BY <2>3, <4>1
    <3> QED BY <3>1, <3>2, <3>3
  <2>8. InUse = Live
    BY <2>1, <2>2 DEF InUse
  <2>9. LiveItems = LiveItems + (size' - size)
    BY <1>0, <2>3
  <2> QED BY <2>7, <2>8, <2>9, Zenon DEF Balanced
<1> QED BY <1>1, <1>2

LEMMA CallIsolatedBalanced ==
  ASSUME TypeOK, istack # <<>>, CallIsolated
  PROVE  Balanced
<1> DEFINE onStack == instr.op \in {"CALLED", "CALLEDT"}
           items == IF onStack THEN Tail(stacks[estack]) ELSE stacks[estack]
           left == IF onStack THEN size - 1 ELSE size
           needed == instr.pcount + (IF onStack THEN 1 ELSE 0)
           pcount == instr.pcount
<1>1. CASE Panic
  BY <1>1, PanicBalanced
<1>2. CASE ~Panic
  <2>1. ~(Len(stacks[estack]) < needed)
    BY <1>2 DEF CallIsolated
  <2>2. /\ stacks[estack] \in Seq(Item) /\ size \in Int /\ estack \in Live
        /\ Len(stacks[estack]) \in Nat
    BY InLive DEF TypeOK
  <2>3. pcount \in Nat
    BY FetchType, ParameterTypes DEF CallIsolated, Charged
  <2>4. /\ items \in Seq(Item) /\ left = size + (Len(items) - Len(stacks[estack]))
        /\ pcount <= Len(items)
    <3>1. CASE onStack
      <4>1. Len(stacks[estack]) >= pcount + 1
        BY <2>1, <2>2, <2>3, <3>1
      <4>2. stacks[estack] # <<>>
        BY <2>2, <2>3, <4>1
      <4>3. /\ Tail(stacks[estack]) \in Seq(Item)
            /\ Len(Tail(stacks[estack])) = Len(stacks[estack]) - 1
        BY <2>2, <4>2, TailProperties
      <4> QED BY <2>2, <2>3, <3>1, <4>1, <4>3
    <3>2. CASE ~onStack
      BY <2>1, <2>2, <2>3, <3>2
    <3> QED BY <3>1, <3>2
  <2>5. CASE PanicWith(items, left)
    <3> HIDE DEF items, left
    <3> QED BY <2>4, <2>5, LatePanicBalanced
  <2>6. CASE ~PanicWith(items, left)
    <3> DEFINE a == Drop(items, pcount)
               b == Take(items, pcount)
               s1 == [stacks EXCEPT ![estack] = a]
               s2 == [s1 EXCEPT ![NewEval] = b]
    <3>1. /\ HasFresh
          /\ stacks' = [stacks EXCEPT ![estack] = a, ![NewEval] = b, ![NewAlt] = <<>>]
          /\ estack' = NewEval /\ astack' = NewAlt /\ size' = left
      BY <1>2, <2>6, Zenon DEF CallIsolated
    <3>2. NewEval \in StackIds \ Live /\ NewAlt \in StackIds \ (Live \union {NewEval})
      BY <3>1, FreshStacks
    <3>3. /\ Live \in SUBSET StackIds /\ IsFiniteSet(Live) /\ stacks \in Held
          /\ LiveItems = Count(stacks, Live) /\ LiveItems \in Nat
      BY LiveFinite
    <3> HIDE DEF items, left, pcount
    <3>4. /\ a \in Seq(Item) /\ b \in Seq(Item)
          /\ Len(b) = pcount /\ Len(a) = Len(items) - pcount
      BY <2>3, <2>4, TakeDropLengths
    <3>5. stacks' = [s2 EXCEPT ![NewAlt] = <<>>]
      BY <3>1
    <3> HIDE DEF a, b
    <3>6. s1 \in Held /\ s1[estack] = a /\ \A t \in StackIds \ {estack} : s1[t] = stacks[t]
      BY <2>2, <3>3, <3>4 DEF Held
    <3> HIDE DEF s1
    <3>7. s2 \in Held /\ s2[NewEval] = b /\ \A t \in Live : s2[t] = s1[t]
      BY <3>2, <3>3, <3>4, <3>6 DEF Held
    <3> HIDE DEF s2
    <3>8. /\ stacks' \in Held /\ Len(stacks'[NewAlt]) = 0
          /\ \A t \in Live \union {NewEval} : stacks'[t] = s2[t]
      BY <3>2, <3>3, <3>5, <3>7, NoItems DEF Held
    <3>9. Count(s1, Live) = LiveItems + Len(a) - Len(stacks[estack])
      <4>1. Count(s1, Live) = Count(stacks, Live) + Len(s1[estack]) - Len(stacks[estack])
        BY <2>2, <3>3, <3>6, CountChanged
      <4> QED BY <3>3, <3>6, <4>1
    <3>10. Count(s2, Live \union {NewEval}) = Count(s1, Live) + Len(b)
      <4>1. Count(s2, Live \union {NewEval}) = Count(s1, Live) + Len(s2[NewEval])
        BY <3>2, <3>3, <3>6, <3>7, CountAdded
      <4> QED BY <3>7, <4>1
    <3>11. Count(stacks', (Live \union {NewEval}) \union {NewAlt}) =
             Count(s2, Live \union {NewEval}) + 0
      <4>1. IsFiniteSet(Live \union {NewEval}) /\ (Live \union {NewEval}) \in SUBSET StackIds
        BY <3>2, <3>3, FS_AddElement
      <4>2. Count(stacks', (Live \union {NewEval}) \union {NewAlt}) =
              Count(s2, Live \union {NewEval}) + Len(stacks'[NewAlt])
        BY <3>2, <3>7, <3>8, <4>1, CountAdded
      <4> QED BY <3>8, <4>2
    <3>12. InUse = (Live \union {NewEval}) \union {NewAlt}
      BY <3>1 DEF InUse
    <3> DEFINE la == Len(a)
               lb == Len(b)
               li == Len(items)
               ls == Len(stacks[estack])
    <3>13. /\ la \in Nat /\ lb \in Nat /\ li \in Nat /\ ls \in Nat
           /\ lb = pcount /\ la = li - pcount /\ size' = size + (li - ls)
      BY <2>2, <2>4, <3>1, <3>4
    <3>14. Count(stacks', InUse) = ((LiveItems + la - ls) + lb) + 0
      BY <3>9, <3>10, <3>11, <3>12, Zenon
    <3> HIDE DEF la, lb, li, ls
    <3>15. ((LiveItems + la - ls) + lb) + 0 = LiveItems + (size' - size)
      BY <2>2, <2>3, <3>3, <3>13
    <3> QED BY <3>14, <3>15, Zenon DEF Balanced
  <2> QED BY <2>5, <2>6
<1> QED BY <1>1, <1>2

\* Every instruction moves size by as many items as it adds or takes.
LEMMA ExecuteBalanced ==
  ASSUME TypeOK, Execute
  PROVE  Balanced
<1>1. istack # <<>>
  BY ExecuteTypes DEF Executes
<1> QED BY <1>1, ComputeBalanced, CallBalanced, AppCallBalanced, CallIsolatedBalanced,
           ReturnBalanced DEF Execute

-----------------------------------------------------------------------------
(* What a step loses                                                       *)

\* A step may only leave stacks behind: besides those in use it uses the ones
\* it makes current.
LEMMA LiveNext ==
  ASSUME TypeOK, TypeOK', StepShape \/ Resets
  PROVE  Live' \in SUBSET InUse
<1> DEFINE n == Len(istack)
           m == Len(istack')
<1>1. /\ n \in Nat /\ m \in Nat /\ DOMAIN istack' = 1..m
      /\ \A i \in 1..n : istack[i].es \in Live /\ istack[i].as \in Live
      /\ estack \in Live /\ astack \in Live /\ Live \in SUBSET InUse
      /\ estack' \in InUse /\ astack' \in InUse
  BY InLive DEF TypeOK, InUse
<1> SUFFICES ASSUME NEW i \in 1..m PROVE istack'[i].es \in InUse /\ istack'[i].as \in InUse
  BY <1>1 DEF Live
<1>2. CASE Keeps
  BY <1>1, <1>2 DEF Keeps, Alike
<1>3. CASE Returns
  <2>1. i \in 1..(n - 1) /\ i + 1 \in 1..n
    BY <1>1, <1>3 DEF Returns
  <2> QED BY <1>1, <1>3, <2>1 DEF Returns, Alike
<1>4. ASSUME Grows \/ Replaces \/ Resets, i = 1
      PROVE  istack'[i].es \in InUse /\ istack'[i].as \in InUse
  <2>1. istack # <<>> => 1 \in 1..n
    BY <1>1 DEF TypeOK
  <2> QED BY <1>1, <1>4, <2>1 DEF Grows, Replaces, Resets, NewFrame, OnSharedStack, OnOwnStack
<1>5. CASE Grows /\ i # 1
  <2>1. i - 1 \in 1..n /\ (i - 1) + 1 = i
    BY <1>1, <1>5 DEF Grows
  <2>2. Alike(istack'[i], istack[i - 1])
    BY <1>5, <2>1 DEF Grows
  <2> QED BY <1>1, <2>1, <2>2 DEF Alike
<1>6. CASE Replaces /\ i # 1
  <2>1. i - 1 \in 1..(n - 1) /\ (i - 1) + 1 = i /\ i \in 1..n
    BY <1>1, <1>6 DEF Replaces
  <2>2. Alike(istack'[i], istack[i])
    BY <1>6, <2>1 DEF Replaces
  <2> QED BY <1>1, <2>1, <2>2 DEF Alike
<1>7. CASE Resets /\ i # 1
  BY <1>1, <1>7 DEF Resets
<1> QED BY <1>2, <1>3, <1>4, <1>5, <1>6, <1>7 DEF StepShape

\* Nothing is left behind by a step that keeps every context, nor, without a
\* failure, by one that adds a context.
LEMMA LiveKept ==
  ASSUME TypeOK, TypeOK', Keeps \/ (Grows /\ CurrentStacks /\ ~failed)
  PROVE  Live' = InUse
<1> DEFINE n == Len(istack)
<1>1. n \in Nat /\ DOMAIN istack = 1..n /\ DOMAIN istack' = 1..Len(istack')
  BY DEF TypeOK
<1>2. Live' \in SUBSET InUse
  BY LiveNext DEF StepShape
<1>3. estack' \in Live' /\ astack' \in Live'
  BY DEF Live
<1>4. ASSUME NEW i \in 1..n PROVE istack[i].es \in Live' /\ istack[i].as \in Live'
  <2>1. \A j \in DOMAIN istack' : istack'[j].es \in Live' /\ istack'[j].as \in Live'
    BY DEF Live
  <2>2. CASE Keeps
    BY <1>1, <2>1, <2>2 DEF Keeps, Alike
  <2>3. CASE Grows
    <3>1. i + 1 \in DOMAIN istack'
      BY <1>1, <2>3 DEF Grows
    <3> QED BY <2>1, <2>3, <3>1 DEF Grows, Alike
  <2> QED BY <2>2, <2>3
<1>5. estack \in Live' /\ astack \in Live'
  <2>1. CASE Keeps
    BY <1>3, <2>1 DEF Keeps
  <2>2. CASE Grows /\ CurrentStacks /\ ~failed
    <3>1. 1 \in 1..n /\ estack = istack[1].es /\ astack = istack[1].as
      BY <1>1, <2>2, LengthFacts DEF Grows, CurrentStacks
    <3> QED BY <1>4, <3>1
  <2> QED BY <2>1, <2>2
<1>6. InUse \in SUBSET Live'
  BY <1>1, <1>3, <1>4, <1>5 DEF InUse, Live
<1> QED BY <1>2, <1>6

LEMMA LiveFiniteNext ==
  TypeOK' => /\ Live' \in SUBSET StackIds
             /\ LiveItems' = Count(stacks', Live') /\ LiveItems' \in Nat
             /\ stacks' \in Held
<1> DEFINE P == /\ Live \in SUBSET StackIds
                /\ LiveItems = Count(stacks, Live) /\ LiveItems \in Nat
                /\ stacks \in Held
<1>1. TypeOK => P
  BY LiveFinite
<1> HIDE DEF P
<1>2. TypeOK' => P'
  BY <1>1, PTL
<1> QED BY <1>2 DEF P

LEMMA InUseFinite ==
  ASSUME TypeOK, TypeOK'
  PROVE  /\ InUse \in SUBSET StackIds /\ IsFiniteSet(InUse) /\ stacks' \in Held
         /\ Count(stacks', InUse) \in Nat
         /\ LiveItems' = Count(stacks', Live') /\ LiveItems' \in Nat /\ Live' \in SUBSET StackIds
         /\ LiveItems \in Nat /\ size \in Int /\ size' \in Int
<1>1. Live \in SUBSET StackIds /\ IsFiniteSet(Live) /\ LiveItems \in Nat
  BY LiveFinite
<1>2. IsFiniteSet((Live \union {estack'}) \union {astack'})
  BY <1>1, FS_AddElement
<1>3. InUse = (Live \union {estack'}) \union {astack'}
  BY DEF InUse
<1>4. estack' \in StackIds /\ astack' \in StackIds /\ size \in Int /\ size' \in Int
  BY DEF TypeOK
<1>5. /\ Live' \in SUBSET StackIds /\ LiveItems' = Count(stacks', Live') /\ LiveItems' \in Nat
      /\ stacks' \in Held
  BY LiveFiniteNext
<1>6. InUse \in SUBSET StackIds /\ IsFiniteSet(InUse)
  BY <1>1, <1>2, <1>3, <1>4
<1> QED BY <1>1, <1>4, <1>5, <1>6, PlacesFinite

\* A script is loaded on the current evaluation stack, with a new alt stack.
LEMMA EnterCounts ==
  ASSUME TypeOK, NEW ss \in Held, Enter(ss)
  PROVE  Count(stacks', InUse) = Count(ss, Live) /\ size' = size
<1>1. /\ HasFresh /\ stacks' = [ss EXCEPT ![NewAlt] = <<>>]
      /\ astack' = NewAlt /\ estack' = estack /\ size' = size
  BY DEF Enter
<1>2. NewAlt \in StackIds \ Live
  BY <1>1, FreshStacks
<1>3. Live \in SUBSET StackIds /\ IsFiniteSet(Live)
  BY LiveFinite
<1>4. stacks' \in Held /\ Len(stacks'[NewAlt]) = 0 /\ \A t \in Live : stacks'[t] = ss[t]
  BY <1>1, <1>2, <1>3, NoItems DEF Held
<1>5. Count(stacks', Live \union {NewAlt}) = Count(ss, Live) + Len(stacks'[NewAlt])
  BY <1>2, <1>3, <1>4, CountAdded
<1>6. InUse = Live \union {NewAlt}
  BY <1>1, InLive DEF InUse
<1>7. Count(ss, Live) \in Nat
  BY <1>3, PlacesFinite
<1> QED BY <1>1, <1>4, <1>5, <1>6, <1>7

\* Emptying stacks takes places away.
LEMMA ClearedCounts ==
  ASSUME TypeOK
  PROVE  LET ss == [stacks EXCEPT ![estack] = <<>>, ![astack] = <<>>]
         IN ss \in Held /\ Count(ss, Live) <= LiveItems
<1> DEFINE ss == [stacks EXCEPT ![estack] = <<>>, ![astack] = <<>>]
<1>1. /\ Live \in SUBSET StackIds /\ IsFiniteSet(Live) /\ stacks \in Held
      /\ LiveItems = Count(stacks, Live)
  BY LiveFinite
<1>2. ss \in Held /\ \A s \in StackIds : ss[s] = <<>> \/ ss[s] = stacks[s]
  BY <1>1, NoItems DEF Held, TypeOK
<1> HIDE DEF ss
<1>3. ASSUME NEW p, p \in Places(ss, Live) PROVE p \in Places(stacks, Live)
  <2>1. PICK s \in Live : \E i \in DOMAIN ss[s] : p = <<s, i>>
    BY <1>3, InPlaces
  <2>2. PICK i \in DOMAIN ss[s] : p = <<s, i>>
    BY <2>1
  <2>3. DOMAIN <<>> = {}
    OBVIOUS
  <2>4. ss[s] = stacks[s]
    BY <1>1, <1>2, <2>2, <2>3
  <2> QED BY <2>2, <2>4, InPlaces
<1>4. Places(ss, Live) \in SUBSET Places(stacks, Live)
  BY <1>3
<1>5. Count(ss, Live) <= LiveItems
  BY <1>1, <1>4, PlacesFinite, FS_Subset DEF Count
<1> QED BY <1>2, <1>5 DEF ss

\* After Load no stack in use holds anything.
LEMMA LoadEmpties ==
  ASSUME TypeOK, TypeOK', Load
  PROVE  LiveItems' = 0
<1> DEFINE ss == [stacks EXCEPT ![estack] = <<>>, ![astack] = <<>>]
           c == NewContext(Entry, estack, NewAlt, -1, FALSE)
<1>1. /\ HasFresh /\ istack' = <<c>> /\ stacks' = [ss EXCEPT ![NewAlt] = <<>>]
      /\ astack' = NewAlt /\ estack' = estack
  BY DEF Load, Enter
<1>2. NewAlt \in StackIds \ Live /\ estack \in Live /\ astack \in Live /\ Live \in SUBSET StackIds
  BY <1>1, FreshStacks, InLive, LiveFinite
<1>3. c.es = estack /\ c.as = NewAlt
  BY DEF NewContext
<1>4. ss \in Held /\ ss[estack] = <<>>
  BY <1>2, ClearedCounts, LiveFinite DEF Held
<1> HIDE DEF c, ss
<1>5. stacks'[estack] = <<>> /\ stacks'[NewAlt] = <<>>
  BY <1>1, <1>2, <1>4 DEF Held
<1>6. Live' = {estack, NewAlt}
  <2>1. DOMAIN istack' = {1} /\ istack'[1] = c
    BY <1>1
  <2> QED BY <1>1, <1>3, <2>1 DEF Live
<1>7. Places(stacks', Live') = {}
  <2>1. DOMAIN <<>> = {}
    OBVIOUS
  <2>2. \A s \in Live' : DOMAIN stacks'[s] = {}
    BY <1>5, <1>6, <2>1
  <2>3. ASSUME NEW p, p \in Places(stacks', Live') PROVE FALSE
    BY <2>2, <2>3, InPlaces
  <2> QED BY <2>3
<1>8. Cardinality(Places(stacks', Live')) = 0
  BY <1>7, FS_EmptySet
<1> QED BY <1>8 DEF LiveItems

\* No step adds to what is in use more than to size.
LEMMA StepCounts ==
  ASSUME TypeOK, TypeOK', [Next]_vars
  PROVE  /\ Count(stacks', InUse) <= LiveItems + (size' - size)
         /\ Load \/ Balanced
<1>0. Count(stacks', InUse) \in Nat /\ LiveItems \in Nat /\ size \in Int /\ size' \in Int
  BY InUseFinite
<1>1. Balanced => Count(stacks', InUse) <= LiveItems + (size' - size)
  <2>1. Count(stacks', InUse) <= Count(stacks', InUse)
    BY <1>0
  <2> QED BY <2>1, Zenon DEF Balanced
<1>2. CASE Execute
  BY <1>1, <1>2, ExecuteBalanced
<1>3. ASSUME UNCHANGED <<stacks, size, estack, astack>>
      PROVE  Balanced
  BY <1>3, InLive, NoStack
<1>4. CASE RunEnd \/ StepIntoStopped \/ StepOutEnd \/ StepOverEnd \/ UNCHANGED vars
  BY <1>1, <1>3, <1>4 DEF RunEnd, StepIntoStopped, StepOutEnd, StepOverEnd, frames, vars
<1>5. CASE Run \/ StepInto \/ StepOut \/ StepOver \/ \E n \in BreakPoints : AddBreakPoint(n)
  BY <1>1, <1>3, <1>5 DEF Run, StepInto, StepOut, StepOver, AddBreakPoint, frames
<1>6. CASE LoadScript
  <2>1. Count(stacks', InUse) = LiveItems /\ size' = size
    BY <1>6, EnterCounts, LiveFinite DEF LoadScript
  <2>2. Balanced
    BY <1>0, <2>1 DEF Balanced
  <2> QED BY <1>1, <2>2
<1>7. CASE Load
  <2> DEFINE ss == [stacks EXCEPT ![estack] = <<>>, ![astack] = <<>>]
  <2>1. ss \in Held /\ Count(ss, Live) <= LiveItems
    BY ClearedCounts
  <2>2. Enter(ss)
    BY <1>7 DEF Load
  <2> HIDE DEF ss
  <2>3. Count(stacks', InUse) = Count(ss, Live) /\ size' = size
    BY <2>1, <2>2, EnterCounts
  <2> QED BY <1>0, <1>7, <2>1, <2>3
<1> QED BY <1>2, <1>4, <1>5, <1>6, <1>7 DEF Next, Engine, Host

\* The difference between size and the items in use never shrinks.
LEMMA LiveStep ==
  ASSUME TypeOK, TypeOK', [Next]_vars
  PROVE  LiveItems' <= LiveItems + (size' - size)
<1>1. Live' \in SUBSET InUse
  <2>1. CASE Execute
    BY <2>1, ExecuteShape, LiveNext
  <2>2. CASE Host \/ RunEnd \/ StepIntoStopped \/ StepOutEnd \/ StepOverEnd
    BY <2>2, OtherShape, LiveNext DEF StepShape
  <2>3. CASE UNCHANGED vars
    <3>1. Keeps
      BY <2>3 DEF vars, Keeps, Alike
    <3> QED BY <3>1, LiveNext DEF StepShape
  <2> QED BY <2>1, <2>2, <2>3 DEF Next, Engine
<1>2. LiveItems' <= Count(stacks', InUse)
  BY <1>1, InUseFinite, CountMonotone
<1> QED BY <1>2, StepCounts, InUseFinite

-----------------------------------------------------------------------------
(* The theorems                                                            *)

LEMMA InitLive ==
  ASSUME Init
  PROVE  LiveItems = 0 /\ size = 0
<1>1. TypeOK /\ \A s \in StackIds : stacks[s] = <<>>
  BY InitTypes DEF Init
<1>2. Live \in SUBSET StackIds
  BY <1>1, LiveFinite
<1>3. DOMAIN <<>> = {}
  OBVIOUS
<1>4. ASSUME NEW p, p \in Places(stacks, Live) PROVE FALSE
  BY <1>1, <1>2, <1>3, <1>4, InPlaces
<1>5. Places(stacks, Live) = {}
  BY <1>4
<1> QED BY <1>5, FS_EmptySet DEF LiveItems, Init

LEMMA LiveCountedNext ==
  ASSUME TypeOK, TypeOK', LiveCounted, [Next]_vars
  PROVE  LiveCounted'
<1>1. LiveItems <= size /\ LiveItems' <= LiveItems + (size' - size)
  BY LiveStep DEF LiveCounted
<1>2. LiveItems \in Nat /\ LiveItems' \in Nat /\ size \in Int /\ size' \in Int
  BY InUseFinite
<1>3. LiveItems' <= size'
  <2>1. \A l, m \in Nat, s, t \in Int : l <= s /\ m <= l + (t - s) => m <= t
    OBVIOUS
  <2> QED BY <1>1, <1>2, <2>1, Zenon
<1> QED BY <1>3 DEF LiveCounted

\* v.size never counts less than what the stacks in use hold.
THEOREM LiveItemsCounted == Spec => []LiveCounted
<1>1. Init => LiveCounted
  <2>1. ASSUME Init PROVE LiveItems <= size
    BY <2>1, InitLive
  <2> QED BY <2>1 DEF LiveCounted
<1>2. TypeOK /\ TypeOK' /\ LiveCounted /\ [Next]_vars => LiveCounted'
  BY LiveCountedNext
<1> QED BY <1>1, <1>2, VMTypesHold, PTL DEF Spec

LEMMA WithinLimitNext ==
  ASSUME TypeOK, TypeOK', LiveCounted', ItemsWithinLimit, [Next]_vars
  PROVE  ItemsWithinLimit'
<1>0. /\ LiveItems \in Nat /\ LiveItems' \in Nat /\ size \in Int /\ size' \in Int
      /\ MaxStackSize \in Nat /\ LiveItems' <= size'
  BY InUseFinite, LimitsAssumption DEF LiveCounted
<1> SUFFICES ASSUME ~failed' PROVE LiveItems' <= MaxStackSize
  BY DEF ItemsWithinLimit
<1>1. CASE Execute
  <2>1. ~TooMany
    <3>1. ~Panicked
      BY DEF Panicked
    <3>2. \A s : Done(s) => ~TooMany
      BY DEF Done
    <3> QED BY <1>1, <3>1, <3>2, ExecuteTypes DEF Ends
  <2> QED BY <1>0, <2>1 DEF TooMany
<1>2. CASE ~Execute /\ ~Load
  <2>1. ~failed
    BY <1>2 DEF Next, Engine, Host, LoadScript, AddBreakPoint, Run, StepInto, StepOut, StepOver,
                RunEnd, StepIntoStopped, StepOutEnd, StepOverEnd, vars
  <2>2. size' = size
    BY <1>2 DEF Next, Engine, Host, LoadScript, Enter, AddBreakPoint, Run, StepInto, StepOut,
                StepOver, RunEnd, StepIntoStopped, StepOutEnd, StepOverEnd, vars, frames
  <2>3. LiveItems' <= LiveItems /\ LiveItems <= MaxStackSize
    BY <1>0, <2>1, <2>2, LiveStep DEF ItemsWithinLimit
  <2> QED BY <1>0, <2>3
<1>3. CASE Load
  BY <1>0, <1>3, LoadEmpties
<1> QED BY <1>1, <1>2, <1>3

\* Until an instruction fails the stacks in use hold no more than MaxStackSize
\* items, whatever was left over from scripts that ran before.
THEOREM ItemsAreWithinLimit == Spec => []ItemsWithinLimit
<1>1. Init => ItemsWithinLimit
  <2>1. ASSUME Init PROVE LiveItems <= MaxStackSize
    BY <2>1, InitLive, LimitsAssumption
  <2> QED BY <2>1 DEF ItemsWithinLimit
<1>2. TypeOK /\ TypeOK' /\ LiveCounted' /\ ItemsWithinLimit /\ [Next]_vars => ItemsWithinLimit'
  BY WithinLimitNext
<1> QED BY <1>1, <1>2, VMTypesHold, LiveItemsCounted, PTL DEF Spec

\* An instruction that neither returns nor takes the place of its caller keeps
\* its context or adds one.
LEMMA StackingShape ==
  ASSUME TypeOK, Execute, instr.op \notin {"RET", "TAILCALL", "CALLET", "CALLEDT"}
  PROVE  Keeps \/ Grows
<1>1. istack # <<>>
  BY ExecuteTypes DEF Executes
<1>2. Len(istack) \in Nat /\ Len(Advanced) = Len(istack) /\ Advanced \in Seq(Context)
  BY <1>1, AdvancedShape
<1>3. CASE \E items, sz : PanicWith(items, sz)
  BY <1>1, <1>3, PanicShape
<1>4. CASE ~\E items, sz : PanicWith(items, sz)
  <2>0. ~Panic
    BY <1>4 DEF Panic
  <2>1. ASSUME istack' \in Seq(Context), NEW c, istack' = <<c>> \o Advanced
        PROVE  ~Replaces /\ ~Returns
    <3>1. Len(istack') = Len(istack) + 1
      BY <1>2, <2>1
    <3> QED BY <1>2, <3>1 DEF Replaces, Returns
  <2>2. istack' \in Seq(Context)
    BY ExecuteTypes DEF TypeOK
  <2>3. CASE AppCall
    <3>1. instr.op = "APPCALL"
      BY <2>3 DEF AppCall, Charged
    <3>2. \E c : istack' = <<c>> \o Advanced
      BY <1>4, <2>0, <2>3, <3>1 DEF AppCall
    <3> QED BY <1>1, <2>1, <2>2, <2>3, <3>2, AppCallShape
  <2>4. CASE CallIsolated
    <3>1. instr.op \in {"CALLI", "CALLE", "CALLED"}
      BY <2>4 DEF CallIsolated, Charged
    <3>2. \E c : istack' = <<c>> \o Advanced
      BY <1>4, <2>0, <2>4, <3>1 DEF CallIsolated
    <3> QED BY <1>1, <2>1, <2>2, <2>4, <3>2, CallIsolatedShape
  <2>5. ~Return
    BY DEF Return, Charged
  <2> QED BY <1>1, <2>3, <2>4, <2>5, ComputeShape, CallShape DEF Execute
<1> QED BY <1>3, <1>4

\* Between size and the items in use the drift only grows, and until a failure
\* only where a frame ends or a script is loaded.
THEOREM LeaksAtFrameEnds == Spec => LeakOnlyAtFrameEnd
<1> DEFINE leak == size - LiveItems
           Leaks == leak' # leak =>
                      /\ leak' > leak
                      /\ \/ mode = "host" \/ failed
                         \/ instr.op \in {"RET", "TAILCALL", "CALLET", "CALLEDT"}
<1>1. ASSUME FramesInv, FramesInv', [Next]_vars PROVE Leaks
  <2>1. TypeOK /\ TypeOK' /\ CurrentStacks
    BY <1>1 DEF FramesInv
  <2>2. LiveItems \in Nat /\ LiveItems' \in Nat /\ size \in Int /\ size' \in Int
    BY <2>1, InUseFinite
  <2>3. LiveItems' <= LiveItems + (size' - size)
    BY <1>1, <2>1, LiveStep
  <2>4. leak' >= leak
    <3>1. \A l, m \in Nat, s, t \in Int : m <= l + (t - s) => t - m >= s - l
      OBVIOUS
    <3> QED BY <2>2, <2>3, <3>1, Zenon
  <2>5. ASSUME mode # "host", ~failed, instr.op \notin {"RET", "TAILCALL", "CALLET", "CALLEDT"}
        PROVE  leak' = leak
    <3>1. Keeps \/ Grows
      <4>1. CASE Execute
        BY <2>1, <2>5, <4>1, StackingShape
      <4>2. CASE RunEnd \/ StepIntoStopped \/ StepOutEnd \/ StepOverEnd \/ UNCHANGED vars
        BY <4>2 DEF RunEnd, StepIntoStopped, StepOutEnd, StepOverEnd, frames, vars, Keeps, Alike
      <4>3. ~Host
        BY <2>5 DEF Host, LoadScript, Load, AddBreakPoint, Run, StepInto, StepOut, StepOver,
                    HostCalls
      <4> QED BY <1>1, <4>1, <4>2, <4>3 DEF Next, Engine
    <3>2. Live' = InUse
      BY <2>1, <2>5, <3>1, LiveKept
    <3>3. Balanced
      <4>1. ~Load
        BY <2>5 DEF Load, HostCalls
      <4> QED BY <1>1, <2>1, <4>1, StepCounts
    <3>4. LiveItems' = LiveItems + (size' - size)
      BY <2>1, <3>2, <3>3, InUseFinite DEF Balanced
    <3> DEFINE l == LiveItems
               m == LiveItems'
               s == size
               t == size'
    <3> HIDE DEF l, m, s, t
    <3>5. l \in Nat /\ m \in Nat /\ s \in Int /\ t \in Int
      BY <2>2 DEF l, m, s, t
    <3>6. m = l + (t - s)
      BY <3>4 DEF l, m, s, t
    <3>7. t - m = s - l
      BY <3>5, <3>6
    <3> QED BY <3>7, Zenon DEF l, m, s, t
  <2>6. leak \in Int /\ leak' \in Int
    BY <2>2
  <2> HIDE DEF leak
  <2> QED BY <2>4, <2>5, <2>6
<1>2. FramesInv /\ FramesInv' /\ [Next]_vars => [Leaks]_vars
  BY <1>1
<1> QED BY <1>2, FramesInvHolds, PTL DEF Spec, LeakOnlyAtFrameEnd
=============================================================================
