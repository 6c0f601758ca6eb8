------------------------------ MODULE OwnerProofs ------------------------------
(***************************************************************************)
(* Whatever instructions a script is made of: a number or an array of      *)
(* bytes has one place that leads to it, unless it was handed out while    *)
(* something else kept it.  So an instruction that changes it in place     *)
(* changes one value only.                                                 *)
(***************************************************************************)
EXTENDS HostProofs

Owner(item) == item.is \in {"int", "bytes"}
\* The two places lead to one cell.
Share(m, s, t) == Owner(In(m, s)) /\ Owner(In(m, t)) /\ In(m, s).at = In(m, t).at
Sole(m) == \A s, t \in Slots(m) : s # t /\ Share(m, s, t) => In(m, s).at \in m.lent

-----------------------------------------------------------------------------
(* Places                                                                  *)

LEMMA SlotIs ==
  ASSUME NEW m, NEW s \in Slots(m)
  PROVE  \/ \E i \in DOMAIN m.estack : s = <<"estack", i>>
         \/ \E i \in DOMAIN m.astack : s = <<"astack", i>>
         \/ \E k \in DOMAIN m.storage : s = <<"storage", k>>
         \/ \E a \in Lists(m) : \E i \in DOMAIN m.mem[a].items : s = <<"list", a, i>>
BY DEF Slots

LEMMA InIs ==
  ASSUME NEW m, NEW s
  PROVE  /\ s[1] = "estack" => In(m, s) = m.estack[s[2]]
         /\ s[1] = "astack" => In(m, s) = m.astack[s[2]]
         /\ s[1] = "storage" => In(m, s) = m.storage[s[2]]
         /\ s[1] = "list" => In(m, s) = m.mem[s[2]].items[s[3]]
BY DEF In

LEMMA Places ==
  ASSUME NEW m
  PROVE  /\ \A i \in DOMAIN m.estack :
              <<"estack", i>> \in Slots(m) /\ In(m, <<"estack", i>>) = m.estack[i]
         /\ \A i \in DOMAIN m.astack :
              <<"astack", i>> \in Slots(m) /\ In(m, <<"astack", i>>) = m.astack[i]
         /\ \A k \in DOMAIN m.storage :
              <<"storage", k>> \in Slots(m) /\ In(m, <<"storage", k>>) = m.storage[k]
         /\ \A a \in Lists(m) : \A i \in DOMAIN m.mem[a].items :
              <<"list", a, i>> \in Slots(m) /\ In(m, <<"list", a, i>>) = m.mem[a].items[i]
<1>1. ASSUME NEW i \in DOMAIN m.estack
      PROVE  <<"estack", i>> \in Slots(m) /\ In(m, <<"estack", i>>) = m.estack[i]
  BY InIs DEF Slots
<1>2. ASSUME NEW i \in DOMAIN m.astack
      PROVE  <<"astack", i>> \in Slots(m) /\ In(m, <<"astack", i>>) = m.astack[i]
  BY InIs DEF Slots
<1>3. ASSUME NEW k \in DOMAIN m.storage
      PROVE  <<"storage", k>> \in Slots(m) /\ In(m, <<"storage", k>>) = m.storage[k]
  BY InIs DEF Slots
<1>4. ASSUME NEW a \in Lists(m), NEW i \in DOMAIN m.mem[a].items
      PROVE  <<"list", a, i>> \in Slots(m) /\ In(m, <<"list", a, i>>) = m.mem[a].items[i]
  BY InIs DEF Slots
<1> QED BY <1>1, <1>2, <1>3, <1>4

\* Nothing leads to a free cell.
LEMMA OwnsSomething ==
  ASSUME NEW m, Sound(m), NEW s \in Slots(m), Owner(In(m, s))
  PROVE  m.mem[In(m, s).at] # Free
<1>1. /\ m.mem \in Memory /\ ListsSound(m.mem) /\ m.estack \in Seq(Values(m.mem))
      /\ m.astack \in Seq(Values(m.mem)) /\ \A k \in DOMAIN m.storage : m.storage[k] \in Slices(m.mem)
  BY DEF Sound
<1>2. \A a \in Lists(m) : m.mem[a].items \in Seq(Values(m.mem))
  BY <1>1 DEF ListsSound, Lists
<1>3. In(m, s) \in Values(m.mem)
  BY <1>1, <1>2, SlotIs, InIs DEF Slices
<1> QED BY <1>1, <1>3, HoldsSomething DEF Owner

\* What every place of x leads to is lent, or a place of m of its own leads to it;
\* but for the place k, where what is new may be.
Derives(m, x, f, k) ==
  /\ m.lent \subseteq x.lent
  /\ \A s \in Slots(x) \ {k} :
       Owner(In(x, s)) =>
         \/ In(x, s).at \in x.lent
         \/ f[s] \in Slots(m) /\ Owner(In(m, f[s])) /\ In(m, f[s]).at = In(x, s).at
  /\ \A s, t \in Slots(x) \ {k} : s # t /\ Share(x, s, t) => f[s] # f[t]
  /\ k \in Slots(x) /\ Owner(In(x, k)) => In(x, k).at \in x.lent \/ m.mem[In(x, k).at] = Free

LEMMA Derived ==
  ASSUME NEW m, Sound(m), Sole(m), NEW x, NEW f, NEW k, Derives(m, x, f, k)
  PROVE  Sole(x)
<1> USE DEF Derives
<1> SUFFICES ASSUME NEW s \in Slots(x), NEW t \in Slots(x), s # t, Share(x, s, t),
                    In(x, s).at \notin x.lent
             PROVE  FALSE
  BY DEF Sole
<1>1. Owner(In(x, s)) /\ Owner(In(x, t)) /\ In(x, s).at = In(x, t).at
  BY DEF Share
<1>2. s # k
  BY <1>1, OwnsSomething
<1>3. t # k
  BY <1>1, OwnsSomething
<1>4. f[s] \in Slots(m) /\ f[t] \in Slots(m) /\ f[s] # f[t]
  BY <1>1, <1>2, <1>3
<1>5. Share(m, f[s], f[t]) /\ In(m, f[s]).at = In(x, s).at
  BY <1>1, <1>2, <1>3 DEF Share
<1> QED BY <1>4, <1>5 DEF Sole

SameLists(m, x) ==
  Lists(x) = Lists(m) /\ \A a \in Lists(m) : x.mem[a].items = m.mem[a].items
\* Only the evaluation stack is another.
SameElse(m, x) ==
  /\ SameLists(m, x) /\ x.astack = m.astack /\ x.storage = m.storage
  /\ m.lent \subseteq x.lent

\* Item i of x's stack was item g[i] of m's, or part of it, or is lent; but for
\* item k, of a new cell.
Rearranges(m, x, g, k) ==
  /\ SameElse(m, x)
  /\ \A i \in DOMAIN x.estack \ {k} :
       Owner(x.estack[i]) =>
         \/ x.estack[i].at \in x.lent
         \/ /\ g[i] \in DOMAIN m.estack /\ Owner(m.estack[g[i]])
            /\ m.estack[g[i]].at = x.estack[i].at
  /\ \A i, j \in DOMAIN x.estack \ {k} : i # j => g[i] # g[j]
  /\ k \in DOMAIN x.estack /\ Owner(x.estack[k]) =>
       x.estack[k].at \in x.lent \/ m.mem[x.estack[k].at] = Free

LEMMA Rearranged ==
  ASSUME NEW m, Sound(m), Sole(m), NEW x, NEW g, NEW k, Rearranges(m, x, g, k)
  PROVE  Sole(x)
<1> DEFINE f == [s \in Slots(x) |-> IF s[1] = "estack" THEN <<"estack", g[s[2]]>> ELSE s]
           new == <<"estack", k>>
<1> USE DEF Rearranges
<1>1. ASSUME NEW s \in Slots(x) \ {new}, Owner(In(x, s))
      PROVE  \/ In(x, s).at \in x.lent
             \/ f[s] \in Slots(m) /\ Owner(In(m, f[s])) /\ In(m, f[s]).at = In(x, s).at
  <2>1. CASE \E i \in DOMAIN x.estack : s = <<"estack", i>>
    <3>1. PICK i \in DOMAIN x.estack : s = <<"estack", i>>
      BY <2>1
    <3>2. i # k /\ In(x, s) = x.estack[i] /\ f[s] = <<"estack", g[i]>>
      BY <1>1, <3>1, InIs
    <3> HIDE DEF f
    <3> QED BY <1>1, <3>2, Places
  <2>2. CASE ~\E i \in DOMAIN x.estack : s = <<"estack", i>>
    <3>1. f[s] = s
      BY <1>1, <2>2, SlotIs
    <3>2. s \in Slots(m) /\ In(m, s) = In(x, s)
      BY <1>1, <2>2, SlotIs, InIs, Places DEF SameElse, SameLists
    <3> QED BY <1>1, <3>1, <3>2
  <2> QED BY <2>1, <2>2
<1>2. ASSUME NEW s \in Slots(x) \ {new}, NEW t \in Slots(x) \ {new}, s # t
      PROVE  f[s] # f[t]
  <2>1. CASE s[1] = "estack" /\ t[1] = "estack"
    <3>1. PICK i \in DOMAIN x.estack : s = <<"estack", i>>
      BY <2>1, SlotIs
    <3>2. PICK j \in DOMAIN x.estack : t = <<"estack", j>>
      BY <2>1, SlotIs
    <3>3. i # j /\ i # k /\ j # k
      BY <1>2, <3>1, <3>2
    <3> QED BY <3>1, <3>2, <3>3
  <2>2. CASE ~(s[1] = "estack" /\ t[1] = "estack")
    BY <1>2, <2>2
  <2> QED BY <2>1, <2>2
<1>3. new \in Slots(x) /\ Owner(In(x, new)) =>
        In(x, new).at \in x.lent \/ m.mem[In(x, new).at] = Free
  BY SlotIs, InIs
<1> HIDE DEF f, new
<1>4. Derives(m, x, f, new)
  BY <1>1, <1>2, <1>3 DEF Derives, SameElse
<1> QED BY <1>4, Derived

-----------------------------------------------------------------------------
(* Stacks                                                                  *)

LEMMA SoundParts ==
  ASSUME NEW m, Sound(m)
  PROVE  /\ Whole(m) /\ m.mem \in Memory /\ ListsSound(m.mem)
         /\ m.estack \in Seq(Values(m.mem)) /\ Len(m.estack) \in Nat
         /\ m.astack \in Seq(Values(m.mem)) /\ Len(m.astack) \in Nat
BY DEF Sound

LEMMA SameElseSame ==
  ASSUME NEW m
  PROVE  SameElse(m, m)
BY DEF SameElse, SameLists

LEMMA RestackedElse ==
  ASSUME NEW m, Whole(m), NEW items
  PROVE  SameElse(m, WithStack(m, items)) /\ WithStack(m, items).estack = items
<1>1. /\ WithStack(m, items).mem = m.mem /\ WithStack(m, items).astack = m.astack
      /\ WithStack(m, items).storage = m.storage /\ WithStack(m, items).lent = m.lent
      /\ WithStack(m, items).estack = items
  BY WithStackIs
<1> QED BY <1>1 DEF SameElse, SameLists, Lists

LEMMA SameElseTwice ==
  ASSUME NEW m, NEW x, NEW y, SameElse(m, x), SameElse(x, y)
  PROVE  SameElse(m, y)
BY DEF SameElse, SameLists

\* The same stack in a machine that has more.
LEMMA SoleGrown ==
  ASSUME NEW m, Sound(m), Sole(m), NEW x, SameElse(m, x), x.estack = m.estack
  PROVE  Sole(x)
<1> DEFINE g == [i \in DOMAIN m.estack |-> i]
<1>1. \A i \in DOMAIN x.estack : g[i] = i
  OBVIOUS
<1>2. 0 \notin DOMAIN x.estack
  BY SoundParts
<1> HIDE DEF g
<1>3. Rearranges(m, x, g, 0)
  BY <1>1, <1>2 DEF Rearranges
<1> QED BY <1>3, Rearranged

LEMMA OnTop ==
  ASSUME NEW S, NEW e \in Seq(S), NEW item
  PROVE  /\ DOMAIN (<<item>> \o e) = 1..(Len(e) + 1) /\ Len(e) \in Nat
         /\ (<<item>> \o e)[1] = item
         /\ \A i \in 2..(Len(e) + 1) : (<<item>> \o e)[i] = e[i - 1] /\ i - 1 \in DOMAIN e
OBVIOUS

LEMMA PushedIs ==
  ASSUME NEW m, Whole(m), NEW item
  PROVE  SameElse(m, Pushed(m, item)) /\ Pushed(m, item).estack = <<item>> \o m.estack
<1>1. Pushed(m, item) = WithStack(m, <<item>> \o m.estack)
  BY DEF Pushed, WithStack
<1> QED BY <1>1, RestackedElse

\* What is not a number or bytes has no owner.
LEMMA PushedSole ==
  ASSUME NEW m, Sound(m), Sole(m), NEW item, ~Owner(item)
  PROVE  Sole(Pushed(m, item))
<1> DEFINE x == Pushed(m, item)
           g == [i \in DOMAIN x.estack |-> i - 1]
<1>1. Whole(m) /\ m.estack \in Seq(Values(m.mem))
  BY SoundParts
<1>2. SameElse(m, x) /\ x.estack = <<item>> \o m.estack
  BY <1>1, PushedIs
<1> HIDE DEF x
<1>3. /\ DOMAIN x.estack = 1..(Len(m.estack) + 1) /\ Len(m.estack) \in Nat /\ x.estack[1] = item
      /\ \A i \in 2..(Len(m.estack) + 1) : x.estack[i] = m.estack[i - 1] /\ i - 1 \in DOMAIN m.estack
  BY <1>1, <1>2, OnTop
<1>4. \A i \in DOMAIN x.estack : g[i] = i - 1
  OBVIOUS
<1> HIDE DEF g
<1>5. \A i \in DOMAIN x.estack \ {0} :
        Owner(x.estack[i]) =>
          /\ g[i] \in DOMAIN m.estack /\ Owner(m.estack[g[i]])
          /\ m.estack[g[i]].at = x.estack[i].at
  BY <1>3, <1>4
<1>6. \A i, j \in DOMAIN x.estack \ {0} : i # j => g[i] # g[j]
  BY <1>3, <1>4
<1>7. 0 \notin DOMAIN x.estack
  BY <1>3
<1>8. Rearranges(m, x, g, 0)
  BY <1>2, <1>5, <1>6, <1>7 DEF Rearranges
<1>9. Sole(x)
  BY <1>8, Rearranged
<1> QED BY <1>9 DEF x

\* An item of a new cell, in the machine that has the cell.
Fresh(m, s) ==
  /\ SameElse(m, s.m) /\ s.m.estack = m.estack /\ Whole(s.m)
  /\ Owner(s.item) => m.mem[s.item.at] = Free

LEMMA PushedFresh ==
  ASSUME NEW m, Sound(m), Sole(m), NEW s, Fresh(m, s)
  PROVE  Sole(Pushed(s.m, s.item))
<1> DEFINE x == Pushed(s.m, s.item)
           g == [i \in DOMAIN x.estack |-> i - 1]
<1>1. m.estack \in Seq(Values(m.mem))
  BY SoundParts
<1>2. Whole(s.m) /\ SameElse(m, s.m) /\ s.m.estack = m.estack
      /\ (Owner(s.item) => m.mem[s.item.at] = Free)
  BY DEF Fresh
<1>3. SameElse(m, x) /\ x.estack = <<s.item>> \o m.estack
  BY <1>2, PushedIs, SameElseTwice
<1> HIDE DEF x
<1>4. /\ DOMAIN x.estack = 1..(Len(m.estack) + 1) /\ Len(m.estack) \in Nat /\ x.estack[1] = s.item
      /\ \A i \in 2..(Len(m.estack) + 1) : x.estack[i] = m.estack[i - 1] /\ i - 1 \in DOMAIN m.estack
  BY <1>1, <1>3, OnTop
<1>5. \A i \in DOMAIN x.estack : g[i] = i - 1
  OBVIOUS
<1> HIDE DEF g
<1>6. \A i \in DOMAIN x.estack \ {1} :
        Owner(x.estack[i]) =>
          /\ g[i] \in DOMAIN m.estack /\ Owner(m.estack[g[i]])
          /\ m.estack[g[i]].at = x.estack[i].at
  BY <1>4, <1>5
<1>7. \A i, j \in DOMAIN x.estack \ {1} : i # j => g[i] # g[j]
  BY <1>4, <1>5
<1>8. Rearranges(m, x, g, 1)
  BY <1>2, <1>3, <1>4, <1>6, <1>7 DEF Rearranges
<1>9. Sole(x)
  BY <1>8, Rearranged
<1> QED BY <1>9 DEF x

LEMMA PoppedIs ==
  ASSUME NEW m, Sound(m), NEW n \in 0..Len(m.estack)
  PROVE  /\ SameElse(m, Popped(m, n)) /\ DOMAIN Popped(m, n).estack = 1..(Len(m.estack) - n)
         /\ \A i \in DOMAIN Popped(m, n).estack :
              Popped(m, n).estack[i] = m.estack[i + n] /\ i + n \in DOMAIN m.estack
<1> DEFINE items == SubSeq(m.estack, n + 1, Len(m.estack))
<1>1. Whole(m) /\ m.estack \in Seq(Values(m.mem)) /\ Len(m.estack) \in Nat
  BY SoundParts
<1>2. Popped(m, n) = WithStack(m, items)
  BY DEF Popped, WithStack
<1>3. DOMAIN items = 1..(Len(m.estack) - n) /\ \A i \in DOMAIN items : items[i] = m.estack[i + n]
  BY <1>1
<1> HIDE DEF items
<1>4. SameElse(m, Popped(m, n)) /\ Popped(m, n).estack = items
  BY <1>1, <1>2, RestackedElse
<1> QED BY <1>1, <1>3, <1>4

LEMMA PoppedSole ==
  ASSUME NEW m, Sound(m), Sole(m), NEW n \in 0..Len(m.estack)
  PROVE  Sole(Popped(m, n))
<1> DEFINE x == Popped(m, n)
           g == [i \in DOMAIN x.estack |-> i + n]
<1>1. /\ SameElse(m, x) /\ DOMAIN x.estack = 1..(Len(m.estack) - n)
      /\ \A i \in DOMAIN x.estack : x.estack[i] = m.estack[i + n] /\ i + n \in DOMAIN m.estack
  BY PoppedIs
<1>2. Len(m.estack) \in Nat
  BY SoundParts
<1>3. \A i \in DOMAIN x.estack : g[i] = i + n
  OBVIOUS
<1> HIDE DEF x, g
<1>4. 0 \notin DOMAIN x.estack /\ \A i, j \in DOMAIN x.estack : i # j => g[i] # g[j]
  BY <1>1, <1>2, <1>3
<1>5. Rearranges(m, x, g, 0)
  BY <1>1, <1>3, <1>4 DEF Rearranges
<1>6. Sole(x)
  BY <1>5, Rearranged
<1> QED BY <1>6 DEF x

\* One of the items popped, or a part of it, is pushed again.
LEMMA TakenSole ==
  ASSUME NEW m, Sound(m), Sole(m), NEW n \in 0..Len(m.estack), NEW j \in 1..n,
         NEW x, Whole(x), SameElse(Popped(m, n), x), x.estack = Popped(m, n).estack,
         NEW item, Owner(item) => Owner(m.estack[j]) /\ item.at = m.estack[j].at
  PROVE  Sole(Pushed(x, item))
<1> DEFINE y == Pushed(x, item)
           r == Popped(m, n)
           g == [i \in DOMAIN y.estack |-> IF i = 1 THEN j ELSE (i - 1) + n]
<1>1. /\ SameElse(m, r) /\ DOMAIN r.estack = 1..(Len(m.estack) - n)
      /\ \A i \in DOMAIN r.estack : r.estack[i] = m.estack[i + n] /\ i + n \in DOMAIN m.estack
  BY PoppedIs
<1>2. Len(m.estack) \in Nat /\ DOMAIN m.estack = 1..Len(m.estack)
  BY SoundParts
<1>3. r.estack \in Seq(Values(m.mem)) /\ Len(r.estack) = Len(m.estack) - n
  BY PoppedSound, SoundParts
<1>4. SameElse(m, y) /\ y.estack = <<item>> \o r.estack
  BY <1>1, PushedIs, SameElseTwice
<1> HIDE DEF y, r
<1> HIDE DEF g
<1>5. /\ DOMAIN y.estack = 1..((Len(m.estack) - n) + 1) /\ y.estack[1] = item
      /\ \A i \in 2..((Len(m.estack) - n) + 1) : y.estack[i] = r.estack[i - 1] /\ i - 1 \in DOMAIN r.estack
  BY <1>2, <1>3, <1>4, OnTop
<1>6. \A i \in DOMAIN y.estack : g[i] = IF i = 1 THEN j ELSE (i - 1) + n
  BY DEF g
<1>7. ASSUME NEW i \in DOMAIN y.estack, Owner(y.estack[i])
      PROVE  /\ g[i] \in DOMAIN m.estack /\ Owner(m.estack[g[i]])
             /\ m.estack[g[i]].at = y.estack[i].at
  <2>1. CASE i = 1
    BY <1>2, <1>5, <1>6, <1>7, <2>1
  <2>2. CASE i # 1
    <3>1. i \in 2..((Len(m.estack) - n) + 1) /\ g[i] = (i - 1) + n
      BY <1>2, <1>5, <1>6, <2>2
    <3>2. y.estack[i] = m.estack[(i - 1) + n] /\ (i - 1) + n \in DOMAIN m.estack
      BY <1>1, <1>5, <3>1
    <3> QED BY <1>7, <3>1, <3>2
  <2> QED BY <2>1, <2>2
<1>8. \A i, k \in DOMAIN y.estack : i # k => g[i] # g[k]
  BY <1>2, <1>5, <1>6
<1>9. 0 \notin DOMAIN y.estack
  BY <1>2, <1>5
<1>10. Rearranges(m, y, g, 0)
  BY <1>4, <1>7, <1>8, <1>9 DEF Rearranges
<1>11. Sole(y)
  BY <1>10, Rearranged
<1> QED BY <1>11 DEF y

-----------------------------------------------------------------------------
(* New cells                                                               *)

LEMMA CellElse ==
  ASSUME NEW m, Sound(m), NEW a, a \in Addresses => m.mem[a].holds \notin ListKinds,
         NEW cell, cell.holds \notin ListKinds
  PROVE  LET x == WithCell(m, a, cell)
         IN SameElse(m, x) /\ x.estack = m.estack /\ Whole(x)
<1> DEFINE x == WithCell(m, a, cell)
<1>1. Whole(m) /\ m.mem \in Memory
  BY SoundParts
<1>2. /\ Whole(x) /\ x.mem = Put(m.mem, a, cell) /\ x.estack = m.estack /\ x.astack = m.astack
      /\ x.storage = m.storage /\ x.lent = m.lent
  BY <1>1, WithCellIs
<1> HIDE DEF x
<1>3. \A b \in Addresses : x.mem[b] = IF b = a THEN cell ELSE m.mem[b]
  BY <1>1, <1>2 DEF Put, Memory
<1>4. SameLists(m, x)
  BY <1>3 DEF SameLists, Lists
<1>5. SameElse(m, x) /\ x.estack = m.estack /\ Whole(x)
  BY <1>2, <1>4 DEF SameElse
<1> QED BY <1>5 DEF x

LEMMA NewElse ==
  ASSUME NEW m, Sound(m), Room(m.mem), NEW cell, cell.holds \notin ListKinds
  PROVE  LET x == WithCell(m, NewAt(m), cell)
         IN SameElse(m, x) /\ x.estack = m.estack /\ Whole(x) /\ m.mem[NewAt(m)] = Free
<1>1. m.mem[NewAt(m)] = Free /\ Free.holds \notin ListKinds
  BY NewAtFree DEF Free, ListKinds
<1> QED BY <1>1, CellElse

LEMMA StoredFresh ==
  ASSUME NEW m, Sound(m), Room(m.mem), NEW bytes, NEW spare
  PROVE  Fresh(m, Stored(m, bytes, spare))
<1> DEFINE a == NewAt(m)
           cell == Array(bytes \o [i \in 1..spare |-> 0])
           x == WithCell(m, a, cell)
           item == SliceOf(a, 0, Len(bytes))
<1>1. cell.holds \notin ListKinds
  BY DEF Array, ListKinds
<1>2. Stored(m, bytes, spare) = [m |-> x, item |-> item]
  BY DEF Stored, WithCell
<1>3. item.at = a
  BY DEF SliceOf
<1> HIDE DEF cell, item
<1>4. SameElse(m, x) /\ x.estack = m.estack /\ Whole(x) /\ m.mem[a] = Free
  BY <1>1, NewElse
<1> HIDE DEF x, a
<1> QED BY <1>2, <1>3, <1>4 DEF Fresh

LEMMA DupFresh ==
  ASSUME NEW m, Sound(m), Room(m.mem), NEW item \in Values(m.mem)
  PROVE  Fresh(m, Dup(m, item))
<1>1. m.mem \in Memory /\ Whole(m)
  BY SoundParts
<1>2. CASE item.is = "int"
  <2> DEFINE a == NewAt(m)
             cell == m.mem[item.at]
             x == WithCell(m, a, cell)
  <2>1. cell.holds \notin ListKinds
    BY <1>1, <1>2, NumberHolds DEF ListKinds
  <2>2. Dup(m, item) = [m |-> x, item |-> IntAt(a)]
    BY <1>2 DEF Dup, WithCell
  <2> HIDE DEF cell
  <2>3. SameElse(m, x) /\ x.estack = m.estack /\ Whole(x) /\ m.mem[a] = Free
    BY <2>1, NewElse
  <2>4. IntAt(a).at = a
    BY DEF IntAt
  <2> HIDE DEF x, a
  <2> QED BY <2>2, <2>3, <2>4 DEF Fresh
<1>3. CASE item.is = "bytes"
  <2>1. Dup(m, item) = Stored(m, BytesOf(m, item), 0)
    BY <1>3 DEF Dup
  <2> QED BY <2>1, StoredFresh
<1>4. CASE item.is \notin {"int", "bytes"}
  <2>1. Dup(m, item).m = m /\ Dup(m, item).item = item
    BY <1>4 DEF Dup
  <2> QED BY <1>1, <1>4, <2>1, SameElseSame DEF Fresh, Owner
<1> QED BY <1>2, <1>3, <1>4

LEMMA PushedStoredSole ==
  ASSUME NEW m, Sound(m), Sole(m), Room(m.mem), NEW bytes, NEW spare
  PROVE  Sole(PushedStored(Stored(m, bytes, spare)))
<1>1. Fresh(m, Stored(m, bytes, spare))
  BY StoredFresh
<1> QED BY <1>1, PushedFresh DEF PushedStored

LEMMA PushedBytesSole ==
  ASSUME NEW m, Sound(m), Sole(m), Room(m.mem), NEW bytes
  PROVE  Sole(PushedBytes(m, bytes))
BY PushedStoredSole DEF PushedBytes

LEMMA PushedIntSole ==
  ASSUME NEW m, Sound(m), Sole(m), Room(m.mem), NEW n
  PROVE  Sole(PushedInt(m, n))
<1> DEFINE a == NewAt(m)
           x == WithCell(m, a, IntCell(n))
           s == [m |-> x, item |-> IntAt(a)]
<1>1. IntCell(n).holds \notin ListKinds
  BY DEF IntCell, ListKinds
<1>2. SameElse(m, x) /\ x.estack = m.estack /\ Whole(x) /\ m.mem[a] = Free
  BY <1>1, NewElse
<1>3. PushedInt(m, n) = Pushed(x, IntAt(a))
  BY DEF PushedInt, WithCell
<1>4. IntAt(a).at = a
  BY DEF IntAt
<1> HIDE DEF x, a
<1>5. Fresh(m, s)
  BY <1>2, <1>4 DEF Fresh
<1>6. Sole(Pushed(s.m, s.item))
  BY <1>5, PushedFresh
<1> QED BY <1>3, <1>6

\* A copy anywhere on the stack.
LEMMA PlacedSole ==
  ASSUME NEW m, Sound(m), Sole(m), Room(m.mem), NEW item \in Values(m.mem),
         NEW n \in 1..(Len(m.estack) + 1)
  PROVE  Sole(Placed(m, item, n))
<1> DEFINE c == Dup(m, item)
           e == m.estack
           upper == SubSeq(e, 1, n - 1)
           lower == SubSeq(e, n, Len(e))
           items == upper \o <<c.item>> \o lower
           x == Placed(m, item, n)
           g == [i \in DOMAIN items |-> IF i < n THEN i ELSE i - 1]
<1>1. Fresh(m, c)
  BY DupFresh
<1>2. SameElse(m, c.m) /\ c.m.estack = e /\ Whole(c.m)
      /\ (Owner(c.item) => m.mem[c.item.at] = Free)
  BY <1>1 DEF Fresh
<1>3. e \in Seq(Values(m.mem)) /\ Len(e) \in Nat /\ DOMAIN e = 1..Len(e)
  BY SoundParts
<1>4. x = WithStack(c.m, items)
  BY <1>2 DEF Placed, WithStack
<1> HIDE DEF c, e, x
<1>5. /\ upper \in Seq(Values(m.mem)) /\ Len(upper) = n - 1
      /\ \A i \in 1..(n - 1) : upper[i] = e[i]
      /\ lower \in Seq(Values(m.mem)) /\ Len(lower) = (Len(e) - n) + 1
      /\ \A i \in 1..((Len(e) - n) + 1) : lower[i] = e[(i - 1) + n]
  BY <1>3 DEF e
<1> HIDE DEF upper, lower
<1>6. /\ DOMAIN items = 1..(Len(e) + 1)
      /\ \A i \in DOMAIN items :
           items[i] = IF i < n THEN e[i] ELSE IF i = n THEN c.item ELSE e[i - 1]
  <2> DEFINE S == Values(m.mem) \union {c.item}
             top == upper \o <<c.item>>
  <2>1. upper \in Seq(S) /\ lower \in Seq(S) /\ <<c.item>> \in Seq(S)
    BY <1>5, InMoreValues
  <2>2. Len(e) \in Nat /\ n \in 1..(Len(e) + 1)
    BY <1>3 DEF e
  <2> HIDE DEF S
  <2>3. /\ top \in Seq(S) /\ Len(top) = n /\ top[n] = c.item
        /\ \A i \in 1..(n - 1) : top[i] = e[i]
    BY <1>5, <2>1, <2>2
  <2>4. items = top \o lower
    OBVIOUS
  <2> HIDE DEF top, items
  <2>5. /\ DOMAIN items = 1..(Len(top) + Len(lower))
        /\ \A i \in 1..(Len(top) + Len(lower)) :
             items[i] = IF i <= Len(top) THEN top[i] ELSE lower[i - Len(top)]
    BY <2>1, <2>3, <2>4
  <2>6. DOMAIN items = 1..(Len(e) + 1)
    BY <1>5, <2>2, <2>3, <2>5
  <2>7. ASSUME NEW i \in DOMAIN items, i > n PROVE items[i] = e[i - 1]
    <3>1. items[i] = lower[i - n] /\ i - n \in 1..((Len(e) - n) + 1)
      BY <1>5, <2>2, <2>3, <2>5, <2>6, <2>7
    <3>2. ((i - n) - 1) + n = i - 1
      BY <2>2, <2>6
    <3> QED BY <1>5, <3>1, <3>2
  <2>8. ASSUME NEW i \in DOMAIN items, i <= n PROVE items[i] = IF i < n THEN e[i] ELSE c.item
    <3>1. i \in 1..n
      BY <2>2, <2>6, <2>8
    <3>2. items[i] = top[i]
      BY <1>5, <2>2, <2>3, <2>5, <2>6, <3>1
    <3>3. i # n => i \in 1..(n - 1)
      BY <2>2, <3>1
    <3> QED BY <2>2, <2>3, <3>1, <3>2, <3>3
  <2> QED BY <2>2, <2>6, <2>7, <2>8
<1>7. SameElse(m, x) /\ x.estack = items
  BY <1>2, <1>4, RestackedElse, SameElseTwice
<1>8. \A i \in DOMAIN items : g[i] = IF i < n THEN i ELSE i - 1
  OBVIOUS
<1> HIDE DEF items, g
<1>9. Rearranges(m, x, g, n)
  BY <1>2, <1>3, <1>6, <1>7, <1>8 DEF Rearranges, e
<1>10. Sole(x)
  BY <1>9, Rearranged
<1> QED BY <1>10 DEF x

\* The bytes of an item popped, which are the item's own or new, or part of them.
LEMMA SlicePushed ==
  ASSUME NEW m, Sound(m), Sole(m), Room(m.mem), NEW n \in 0..Len(m.estack), NEW j \in 1..n,
         NEW z, z.at = AsSlice(Popped(m, n), m.estack[j]).item.at
  PROVE  Sole(Pushed(AsSlice(Popped(m, n), m.estack[j]).m, z))
<1> DEFINE item == m.estack[j]
           r == Popped(m, n)
           s == AsSlice(r, item)
<1>1. Sound(r) /\ Sole(r) /\ r.mem = m.mem
  BY PoppedSound, PoppedSole
<1>2. CASE item.is = "bytes"
  <2>1. s.m = r /\ s.item = item
    BY <1>2 DEF AsSlice
  <2>2. Whole(r) /\ SameElse(r, r)
    BY <1>1, SoundParts, SameElseSame
  <2>3. Owner(item)
    BY <1>2 DEF Owner
  <2> HIDE DEF s
  <2> QED BY <2>1, <2>2, <2>3, TakenSole DEF s
<1>3. CASE item.is # "bytes"
  <2> DEFINE bytes == Bytes(r, item)
             spare == IF item.is = "int" THEN 1 ELSE 0
             t == [m |-> s.m, item |-> z]
  <2>1. s = Stored(r, bytes, spare)
    BY <1>3 DEF AsSlice
  <2>2. Fresh(r, s)
    BY <1>1, <2>1, StoredFresh
  <2>3. s.item.is = "bytes"
    BY <2>1 DEF Stored, SliceOf
  <2> HIDE DEF s, r
  <2>4. Fresh(r, t)
    BY <2>2, <2>3 DEF Fresh, Owner, s, r
  <2>5. Sole(Pushed(t.m, t.item))
    BY <1>1, <2>4, PushedFresh
  <2> QED BY <2>5 DEF s, r
<1> QED BY <1>2, <1>3

LEMMA SliceElse ==
  ASSUME NEW m, Sound(m), Sole(m), Room(m.mem), NEW item
  PROVE  SameElse(m, AsSlice(m, item).m) /\ AsSlice(m, item).m.estack = m.estack
         /\ Sole(AsSlice(m, item).m)
<1> DEFINE s == AsSlice(m, item)
<1>1. CASE item.is = "bytes"
  BY <1>1, SameElseSame DEF AsSlice
<1>2. CASE item.is # "bytes"
  <2> DEFINE bytes == Bytes(m, item)
             spare == IF item.is = "int" THEN 1 ELSE 0
  <2>1. s = Stored(m, bytes, spare)
    BY <1>2 DEF AsSlice
  <2>2. Fresh(m, s)
    BY <2>1, StoredFresh
  <2> HIDE DEF s
  <2>3. SameElse(m, s.m) /\ s.m.estack = m.estack /\ Sole(s.m)
    BY <2>2, SoleGrown DEF Fresh
  <2> QED BY <2>3 DEF s
<1> QED BY <1>1, <1>2

-----------------------------------------------------------------------------
(* Moves                                                                   *)

\* items are those of e, each at most once: item i was item g[i].
Drawn(e, items, g) ==
  /\ \A i \in DOMAIN items : g[i] \in DOMAIN e /\ items[i] = e[g[i]]
  /\ \A i, j \in DOMAIN items : i # j => g[i] # g[j]

LEMMA DrawnSole ==
  ASSUME NEW m, Sound(m), Sole(m), NEW items, NEW g,
         Drawn(m.estack, items, g), 0 \notin DOMAIN items
  PROVE  Sole(WithStack(m, items))
<1> DEFINE x == WithStack(m, items)
<1>1. SameElse(m, x) /\ x.estack = items
  BY SoundParts, RestackedElse
<1> HIDE DEF x
<1>2. Rearranges(m, x, g, 0)
  BY <1>1 DEF Rearranges, Drawn
<1>3. Sole(x)
  BY <1>2, Rearranged
<1> QED BY <1>3 DEF x

LEMMA Without ==
  ASSUME NEW S, NEW e \in Seq(S), NEW n \in 1..Len(e)
  PROVE  /\ RemoveAt(e, n) \in Seq(S) /\ DOMAIN RemoveAt(e, n) = 1..(Len(e) - 1)
         /\ Len(RemoveAt(e, n)) = Len(e) - 1 /\ Len(e) \in Nat
         /\ \A i \in 1..(Len(e) - 1) : RemoveAt(e, n)[i] = e[IF i < n THEN i ELSE i + 1]
<1> DEFINE upper == SubSeq(e, 1, n - 1)
           lower == SubSeq(e, n + 1, Len(e))
<1>1. RemoveAt(e, n) = upper \o lower
  BY DEF RemoveAt
<1>2. /\ upper \in Seq(S) /\ Len(upper) = n - 1 /\ \A i \in 1..(n - 1) : upper[i] = e[i]
      /\ lower \in Seq(S) /\ Len(lower) = Len(e) - n
      /\ \A i \in 1..(Len(e) - n) : lower[i] = e[i + n]
  OBVIOUS
<1> HIDE DEF upper, lower
<1>3. Len(e) \in Nat
  OBVIOUS
<1>4. /\ upper \o lower \in Seq(S) /\ Len(upper \o lower) = Len(upper) + Len(lower)
      /\ DOMAIN (upper \o lower) = 1..(Len(upper) + Len(lower))
      /\ \A i \in 1..(Len(upper) + Len(lower)) :
           (upper \o lower)[i] = IF i <= Len(upper) THEN upper[i] ELSE lower[i - Len(upper)]
  <2>1. upper \in Seq(S) /\ lower \in Seq(S)
    BY <1>2
  <2> QED BY <2>1
<1>5. ASSUME NEW i \in 1..(Len(e) - 1)
      PROVE  (upper \o lower)[i] = e[IF i < n THEN i ELSE i + 1]
  <2>1. CASE i < n
    BY <1>2, <1>3, <1>4, <2>1
  <2>2. CASE ~(i < n)
    <3>1. (upper \o lower)[i] = lower[i - (n - 1)] /\ i - (n - 1) \in 1..(Len(e) - n)
      BY <1>2, <1>3, <1>4, <2>2
    <3>2. (i - (n - 1)) + n = i + 1
      BY <1>3
    <3> QED BY <1>2, <2>2, <3>1, <3>2
  <2> QED BY <2>1, <2>2
<1> HIDE DEF upper, lower
<1> QED BY <1>1, <1>2, <1>3, <1>4, <1>5

LEMMA DroppedSole ==
  ASSUME NEW m, Sound(m), Sole(m), NEW n \in 0..(Len(m.estack) - 1)
  PROVE  Sole(Dropped(m, n))
<1> DEFINE e == m.estack
           without == RemoveAt(e, n + 1)
           g == [i \in DOMAIN without |-> IF i < n + 1 THEN i ELSE i + 1]
<1>1. e \in Seq(Values(m.mem)) /\ Len(e) \in Nat /\ DOMAIN e = 1..Len(e)
  BY SoundParts
<1>2. n + 1 \in 1..Len(e)
  BY <1>1
<1>3. Dropped(m, n) = WithStack(m, without)
  BY DEF Dropped, WithStack
<1> HIDE DEF e
<1>4. /\ DOMAIN without = 1..(Len(e) - 1)
      /\ \A i \in 1..(Len(e) - 1) : without[i] = e[IF i < n + 1 THEN i ELSE i + 1]
  BY <1>1, <1>2, Without
<1>5. \A i \in DOMAIN without : g[i] = IF i < n + 1 THEN i ELSE i + 1
  OBVIOUS
<1> HIDE DEF without, g
<1>6. Drawn(e, without, g) /\ 0 \notin DOMAIN without
  BY <1>1, <1>2, <1>4, <1>5 DEF Drawn
<1> QED BY <1>3, <1>6, DrawnSole DEF e

LEMMA RolledSole ==
  ASSUME NEW m, Sound(m), Sole(m), NEW n \in 0..(Len(m.estack) - 1)
  PROVE  Sole(Rolled(m, n))
<1> DEFINE e == m.estack
           without == RemoveAt(e, n + 1)
           items == <<e[n + 1]>> \o without
           g == [i \in DOMAIN items |-> IF i = 1 THEN n + 1 ELSE IF i - 1 < n + 1 THEN i - 1 ELSE i]
<1>1. e \in Seq(Values(m.mem)) /\ Len(e) \in Nat /\ DOMAIN e = 1..Len(e)
  BY SoundParts
<1>2. n + 1 \in 1..Len(e)
  BY <1>1
<1>3. Rolled(m, n) = WithStack(m, items)
  BY DEF Rolled, WithStack
<1> HIDE DEF e
<1>4. /\ without \in Seq(Values(m.mem)) /\ Len(without) = Len(e) - 1
      /\ \A i \in 1..(Len(e) - 1) : without[i] = e[IF i < n + 1 THEN i ELSE i + 1]
  BY <1>1, <1>2, Without
<1> HIDE DEF without
<1>5. /\ DOMAIN items = 1..((Len(e) - 1) + 1) /\ items[1] = e[n + 1]
      /\ \A i \in 2..((Len(e) - 1) + 1) : items[i] = without[i - 1] /\ i - 1 \in DOMAIN without
  BY <1>4, OnTop
<1>6. \A i \in DOMAIN items :
        g[i] = IF i = 1 THEN n + 1 ELSE IF i - 1 < n + 1 THEN i - 1 ELSE i
  OBVIOUS
<1> HIDE DEF items, g
<1>7. ASSUME NEW i \in DOMAIN items, i # 1
      PROVE  items[i] = e[IF i - 1 < n + 1 THEN i - 1 ELSE i]
  <2>1. i \in 2..((Len(e) - 1) + 1) /\ i - 1 \in 1..(Len(e) - 1) /\ (i - 1) + 1 = i
    BY <1>1, <1>5, <1>7
  <2>2. items[i] = without[i - 1]
    BY <1>5, <2>1
  <2>3. without[i - 1] = e[IF i - 1 < n + 1 THEN i - 1 ELSE (i - 1) + 1]
    BY <1>4, <2>1
  <2> QED BY <2>1, <2>2, <2>3
<1>8. DOMAIN items = 1..Len(e) /\ n \in Nat
  BY <1>1, <1>5
<1>9. \A i \in DOMAIN items : g[i] \in DOMAIN e /\ items[i] = e[g[i]]
  BY <1>1, <1>2, <1>5, <1>6, <1>7, <1>8
<1>10. \A i, j \in DOMAIN items : i # j => g[i] # g[j]
  BY <1>1, <1>2, <1>6, <1>8
<1>11. Drawn(e, items, g) /\ 0 \notin DOMAIN items
  BY <1>8, <1>9, <1>10 DEF Drawn
<1> QED BY <1>3, <1>11, DrawnSole DEF e

LEMMA SwappedSole ==
  ASSUME NEW m, Sound(m), Sole(m), NEW n \in 0..(Len(m.estack) - 1)
  PROVE  Sole(Swapped(m, n))
<1> DEFINE e == m.estack
           items == [e EXCEPT ![1] = e[n + 1], ![n + 1] = e[1]]
           g == [i \in DOMAIN items |-> IF i = n + 1 THEN 1 ELSE IF i = 1 THEN n + 1 ELSE i]
<1>1. e \in Seq(Values(m.mem)) /\ Len(e) \in Nat /\ DOMAIN e = 1..Len(e)
  BY SoundParts
<1>2. n + 1 \in 1..Len(e) /\ 1 \in 1..Len(e)
  BY <1>1
<1>3. Swapped(m, n) = WithStack(m, items)
  BY DEF Swapped, WithStack
<1> HIDE DEF e
<1>4. /\ DOMAIN items = DOMAIN e
      /\ \A i \in DOMAIN e : items[i] = IF i = n + 1 THEN e[1] ELSE IF i = 1 THEN e[n + 1] ELSE e[i]
  BY <1>1, <1>2
<1>5. \A i \in DOMAIN items : g[i] = IF i = n + 1 THEN 1 ELSE IF i = 1 THEN n + 1 ELSE i
  OBVIOUS
<1> HIDE DEF items, g
<1>6. Drawn(e, items, g) /\ 0 \notin DOMAIN items
  BY <1>1, <1>2, <1>4, <1>5 DEF Drawn
<1> QED BY <1>3, <1>6, DrawnSole DEF e

\* The top item goes to the other stack, or that one's comes.
LEMMA ToAltSole ==
  ASSUME NEW m, Sound(m), Sole(m), Len(m.estack) >= 1
  PROVE  Sole(WithAlt(Popped(m, 1), <<m.estack[1]>> \o m.astack))
<1> DEFINE r == Popped(m, 1)
           alt == <<m.estack[1]>> \o m.astack
           x == WithAlt(r, alt)
           f == [s \in Slots(x) |->
                   IF s[1] = "estack" THEN <<"estack", s[2] + 1>>
                   ELSE IF s[1] = "astack"
                        THEN IF s[2] = 1 THEN <<"estack", 1>> ELSE <<"astack", s[2] - 1>>
                   ELSE s]
           none == <<"estack", 0>>
<1>1. /\ m.astack \in Seq(Values(m.mem)) /\ Len(m.estack) \in Nat
      /\ DOMAIN m.estack = 1..Len(m.estack) /\ Whole(m)
  BY SoundParts
<1>2. /\ SameElse(m, r) /\ DOMAIN r.estack = 1..(Len(m.estack) - 1)
      /\ \A i \in DOMAIN r.estack : r.estack[i] = m.estack[i + 1] /\ i + 1 \in DOMAIN m.estack
  BY <1>1, PoppedIs
<1>3. Whole(r)
  BY <1>1, PoppedSound, SoundParts
<1> HIDE DEF r
<1>4. /\ DOMAIN alt = 1..(Len(m.astack) + 1) /\ Len(m.astack) \in Nat /\ alt[1] = m.estack[1]
      /\ \A i \in 2..(Len(m.astack) + 1) : alt[i] = m.astack[i - 1] /\ i - 1 \in DOMAIN m.astack
  BY <1>1, OnTop
<1> HIDE DEF alt
<1>5. /\ x.mem = r.mem /\ x.estack = r.estack /\ x.astack = alt /\ x.storage = r.storage
      /\ x.lent = r.lent
  BY <1>3, WithAltIs
<1> HIDE DEF x
<1>6. /\ x.storage = m.storage /\ m.lent \subseteq x.lent /\ SameLists(m, x)
  BY <1>2, <1>5 DEF SameElse, SameLists, Lists
<1>7. none \notin Slots(x)
  BY <1>1, <1>2, <1>5, SlotIs
<1>8. ASSUME NEW s \in Slots(x)
      PROVE  f[s] \in Slots(m) /\ In(m, f[s]) = In(x, s)
  <2>1. ASSUME NEW i \in DOMAIN x.estack, s = <<"estack", i>>
        PROVE  f[s] \in Slots(m) /\ In(m, f[s]) = In(x, s)
    <3>1. f[s] = <<"estack", i + 1>> /\ In(x, s) = x.estack[i]
      BY <2>1, InIs
    <3> HIDE DEF f
    <3> QED BY <1>2, <1>5, <3>1, Places
  <2>2. ASSUME NEW i \in DOMAIN x.astack, s = <<"astack", i>>
        PROVE  f[s] \in Slots(m) /\ In(m, f[s]) = In(x, s)
    <3>1. f[s] = (IF i = 1 THEN <<"estack", 1>> ELSE <<"astack", i - 1>>) /\ In(x, s) = x.astack[i]
      BY <2>2, InIs
    <3>2. 1 \in DOMAIN m.estack /\ (i # 1 => i \in 2..(Len(m.astack) + 1))
      BY <1>1, <1>4, <1>5
    <3> HIDE DEF f
    <3> QED BY <1>4, <1>5, <3>1, <3>2, Places
  <2>3. CASE s[1] \notin {"estack", "astack"}
    <3>1. f[s] = s
      BY <2>3
    <3> HIDE DEF f
    <3> QED BY <1>6, <2>3, <3>1, SlotIs, InIs, Places DEF SameLists
  <2> QED BY <2>1, <2>2, <2>3, SlotIs
<1>9. ASSUME NEW s \in Slots(x), NEW t \in Slots(x), s # t
      PROVE  f[s] # f[t]
  <2> DEFINE Back(u) ==
               IF u[1] = "estack"
               THEN IF u[2] = 1 THEN <<"astack", 1>> ELSE <<"estack", u[2] - 1>>
               ELSE IF u[1] = "astack" THEN <<"astack", u[2] + 1>> ELSE u
  <2>1. ASSUME NEW u \in Slots(x) PROVE Back(f[u]) = u
    <3>1. DOMAIN x.estack \subseteq Nat \ {0} /\ DOMAIN x.astack \subseteq Nat \ {0}
      BY <1>1, <1>2, <1>4, <1>5
    <3>2. ASSUME NEW i \in DOMAIN x.estack, u = <<"estack", i>> PROVE Back(f[u]) = u
      <4>1. f[u] = <<"estack", i + 1>> /\ i \in Nat \ {0}
        BY <3>1, <3>2
      <4>2. Back(<<"estack", i + 1>>) = <<"estack", i>>
        BY <4>1
      <4> QED BY <3>2, <4>1, <4>2
    <3>3. ASSUME NEW i \in DOMAIN x.astack, u = <<"astack", i>> PROVE Back(f[u]) = u
      <4>1. f[u] = (IF i = 1 THEN <<"estack", 1>> ELSE <<"astack", i - 1>>) /\ i \in Nat \ {0}
        BY <3>1, <3>3
      <4>2. Back(<<"estack", 1>>) = <<"astack", 1>> /\ Back(<<"astack", i - 1>>) = <<"astack", i>>
        BY <4>1
      <4> QED BY <3>3, <4>1, <4>2
    <3>4. CASE u[1] \notin {"estack", "astack"}
      BY <3>4
    <3> QED BY <3>2, <3>3, <3>4, SlotIs
  <2> HIDE DEF f, Back
  <2> QED BY <1>9, <2>1
<1> HIDE DEF f
<1>10. Derives(m, x, f, none)
  BY <1>6, <1>7, <1>8, <1>9 DEF Derives
<1>11. Sole(x)
  BY <1>10, Derived
<1> QED BY <1>11 DEF x, r, alt

\* e without its first item.
TailOf(S, e, rest) ==
  /\ rest \in Seq(S) /\ Len(rest) = Len(e) - 1 /\ Head(e) = e[1] /\ Len(e) \in Nat
  /\ 1 \in DOMAIN e /\ DOMAIN rest = 1..(Len(e) - 1) /\ DOMAIN e = 1..Len(e)
  /\ \A i \in 1..(Len(e) - 1) : rest[i] = e[i + 1] /\ i + 1 \in DOMAIN e

LEMMA TailIs ==
  ASSUME NEW S, NEW e \in Seq(S), e # <<>>
  PROVE  TailOf(S, e, Tail(e))
<1>1. Len(e) \in Nat /\ DOMAIN e = 1..Len(e) /\ Head(e) = e[1]
  OBVIOUS
<1>2. Len(e) # 0
  BY EmptySeq
<1>3. Tail(e) \in Seq(S) /\ Len(Tail(e)) = Len(e) - 1 /\ \A i \in 1..(Len(e) - 1) : Tail(e)[i] = e[i + 1]
  BY HeadTailProperties
<1>4. DOMAIN Tail(e) = 1..(Len(e) - 1)
  BY <1>3
<1> QED BY <1>1, <1>2, <1>3, <1>4 DEF TailOf

LEMMA FromAltSole ==
  ASSUME NEW m, Sound(m), Sole(m), m.astack # <<>>
  PROVE  Sole(Pushed(WithAlt(m, Tail(m.astack)), Head(m.astack)))
<1> DEFINE y == WithAlt(m, Tail(m.astack))
           x == Pushed(y, Head(m.astack))
           f == [s \in Slots(x) |->
                   IF s[1] = "estack"
                   THEN IF s[2] = 1 THEN <<"astack", 1>> ELSE <<"estack", s[2] - 1>>
                   ELSE IF s[1] = "astack" THEN <<"astack", s[2] + 1>> ELSE s]
           none == <<"estack", 0>>
<1>1. /\ m.astack \in Seq(Values(m.mem)) /\ Len(m.astack) \in Nat
      /\ DOMAIN m.astack = 1..Len(m.astack) /\ Whole(m) /\ m.estack \in Seq(Values(m.mem))
  BY SoundParts
<1>2. /\ Whole(y) /\ y.mem = m.mem /\ y.estack = m.estack /\ y.astack = Tail(m.astack)
      /\ y.storage = m.storage /\ y.lent = m.lent
  BY <1>1, WithAltIs
<1> HIDE DEF y
<1>3. SameElse(y, x) /\ x.estack = <<Head(m.astack)>> \o m.estack
  BY <1>2, PushedIs
<1>4. /\ x.astack = Tail(m.astack) /\ x.storage = m.storage /\ m.lent \subseteq x.lent
      /\ SameLists(m, x)
  BY <1>2, <1>3 DEF SameElse, SameLists, Lists
<1>5. /\ DOMAIN x.astack = 1..(Len(m.astack) - 1) /\ 1 \in DOMAIN m.astack
      /\ Head(m.astack) = m.astack[1]
      /\ \A i \in DOMAIN x.astack : x.astack[i] = m.astack[i + 1] /\ i + 1 \in DOMAIN m.astack
  <2>1. TailOf(Values(m.mem), m.astack, Tail(m.astack))
    BY <1>1, TailIs
  <2> DEFINE rest == Tail(m.astack)
  <2>2. x.astack = rest
    BY <1>4
  <2>3. TailOf(Values(m.mem), m.astack, rest)
    BY <2>1
  <2> HIDE DEF x, rest
  <2> QED BY <2>2, <2>3 DEF TailOf
<1> HIDE DEF x
<1>6. /\ DOMAIN x.estack = 1..(Len(m.estack) + 1) /\ Len(m.estack) \in Nat
      /\ x.estack[1] = m.astack[1]
      /\ \A i \in 2..(Len(m.estack) + 1) : x.estack[i] = m.estack[i - 1] /\ i - 1 \in DOMAIN m.estack
  BY <1>1, <1>3, <1>5, OnTop
<1>7. none \notin Slots(x)
  BY <1>6, SlotIs
<1>8. ASSUME NEW s \in Slots(x)
      PROVE  f[s] \in Slots(m) /\ In(m, f[s]) = In(x, s)
  <2>1. ASSUME NEW i \in DOMAIN x.astack, s = <<"astack", i>>
        PROVE  f[s] \in Slots(m) /\ In(m, f[s]) = In(x, s)
    <3>1. f[s] = <<"astack", i + 1>> /\ In(x, s) = x.astack[i]
      BY <2>1, InIs
    <3> HIDE DEF f
    <3> QED BY <1>5, <3>1, Places
  <2>2. ASSUME NEW i \in DOMAIN x.estack, s = <<"estack", i>>
        PROVE  f[s] \in Slots(m) /\ In(m, f[s]) = In(x, s)
    <3>1. f[s] = (IF i = 1 THEN <<"astack", 1>> ELSE <<"estack", i - 1>>) /\ In(x, s) = x.estack[i]
      BY <2>2, InIs
    <3>2. i # 1 => i \in 2..(Len(m.estack) + 1)
      BY <1>6
    <3> HIDE DEF f
    <3> QED BY <1>5, <1>6, <3>1, <3>2, Places
  <2>3. CASE s[1] \notin {"estack", "astack"}
    <3>1. f[s] = s
      BY <2>3
    <3> HIDE DEF f
    <3> QED BY <1>4, <2>3, <3>1, SlotIs, InIs, Places DEF SameLists
  <2> QED BY <2>1, <2>2, <2>3, SlotIs
<1>9. ASSUME NEW s \in Slots(x), NEW t \in Slots(x), s # t
      PROVE  f[s] # f[t]
  <2> DEFINE Back(u) ==
               IF u[1] = "astack"
               THEN IF u[2] = 1 THEN <<"estack", 1>> ELSE <<"astack", u[2] - 1>>
               ELSE IF u[1] = "estack" THEN <<"estack", u[2] + 1>> ELSE u
  <2>1. ASSUME NEW u \in Slots(x) PROVE Back(f[u]) = u
    <3>1. DOMAIN x.estack \subseteq Nat \ {0} /\ DOMAIN x.astack \subseteq Nat \ {0}
      BY <1>1, <1>5, <1>6
    <3>2. ASSUME NEW i \in DOMAIN x.astack, u = <<"astack", i>> PROVE Back(f[u]) = u
      <4>1. f[u] = <<"astack", i + 1>> /\ i \in Nat \ {0}
        BY <3>1, <3>2
      <4>2. Back(<<"astack", i + 1>>) = <<"astack", i>>
        BY <4>1
      <4> QED BY <3>2, <4>1, <4>2
    <3>3. ASSUME NEW i \in DOMAIN x.estack, u = <<"estack", i>> PROVE Back(f[u]) = u
      <4>1. f[u] = (IF i = 1 THEN <<"astack", 1>> ELSE <<"estack", i - 1>>) /\ i \in Nat \ {0}
        BY <3>1, <3>3
      <4>2. Back(<<"astack", 1>>) = <<"estack", 1>> /\ Back(<<"estack", i - 1>>) = <<"estack", i>>
        BY <4>1
      <4> QED BY <3>3, <4>1, <4>2
    <3>4. CASE u[1] \notin {"estack", "astack"}
      BY <3>4
    <3> QED BY <3>2, <3>3, <3>4, SlotIs
  <2> HIDE DEF f, Back
  <2> QED BY <1>9, <2>1
<1> HIDE DEF f
<1>10. Derives(m, x, f, none)
  BY <1>4, <1>7, <1>8, <1>9 DEF Derives
<1>11. Sole(x)
  BY <1>10, Derived
<1> QED BY <1>11 DEF x, y

-----------------------------------------------------------------------------
(* What is handed out                                                      *)

LEMMA LentElse ==
  ASSUME NEW m, Sound(m), NEW items
  PROVE  /\ SameElse(m, Lent(m, items)) /\ Lent(m, items).estack = m.estack
         /\ \A item \in items : Owner(item) => item.at \in Lent(m, items).lent
<1> DEFINE v == m.lent \union {i.at : i \in {j \in items : j.is \in {"int", "bytes"}}}
           x == WithLent(m, v)
<1>1. Lent(m, items) = x
  BY DEF Lent, WithLent
<1>2. m.lent \subseteq v /\ \A item \in items : Owner(item) => item.at \in v
  BY DEF Owner
<1> HIDE DEF v
<1>3. /\ x.mem = m.mem /\ x.estack = m.estack /\ x.astack = m.astack
      /\ x.storage = m.storage /\ x.lent = v
  BY SoundParts, WithLentIs
<1> HIDE DEF x
<1> QED BY <1>1, <1>2, <1>3 DEF SameElse, SameLists, Lists

LEMMA LentSole ==
  ASSUME NEW m, Sound(m), Sole(m), NEW items
  PROVE  Sole(Lent(m, items))
BY LentElse, SoleGrown

\* The item pushed is one that was handed out.
LEMMA LentPushed ==
  ASSUME NEW m, Sound(m), Sole(m), NEW item, Owner(item) => item.at \in m.lent
  PROVE  Sole(Pushed(m, item))
<1> DEFINE x == Pushed(m, item)
           g == [i \in DOMAIN x.estack |-> i - 1]
<1>1. Whole(m) /\ m.estack \in Seq(Values(m.mem))
  BY SoundParts
<1>2. SameElse(m, x) /\ x.estack = <<item>> \o m.estack
  BY <1>1, PushedIs
<1> HIDE DEF x
<1>3. /\ DOMAIN x.estack = 1..(Len(m.estack) + 1) /\ Len(m.estack) \in Nat /\ x.estack[1] = item
      /\ \A i \in 2..(Len(m.estack) + 1) : x.estack[i] = m.estack[i - 1] /\ i - 1 \in DOMAIN m.estack
  BY <1>1, <1>2, OnTop
<1>4. \A i \in DOMAIN x.estack : g[i] = i - 1
  OBVIOUS
<1> HIDE DEF g
<1>5. \A i \in DOMAIN x.estack \ {1} :
        Owner(x.estack[i]) =>
          /\ g[i] \in DOMAIN m.estack /\ Owner(m.estack[g[i]])
          /\ m.estack[g[i]].at = x.estack[i].at
  BY <1>3, <1>4
<1>6. \A i, j \in DOMAIN x.estack \ {1} : i # j => g[i] # g[j]
  BY <1>3, <1>4
<1>7. Rearranges(m, x, g, 1)
  BY <1>2, <1>3, <1>5, <1>6 DEF Rearranges, SameElse
<1>8. Sole(x)
  BY <1>7, Rearranged
<1> QED BY <1>8 DEF x

\* The items of a list, handed out, take the place of the list.
LEMMA UnpackedSole ==
  ASSUME NEW m, Sound(m), Sole(m), m.estack # <<>>, NEW items \in Seq(Values(m.mem)),
         \A i \in DOMAIN items : Owner(items[i]) => items[i].at \in m.lent
  PROVE  Sole(WithStack(m, items \o Tail(m.estack)))
<1> DEFINE e == items \o Tail(m.estack)
           x == WithStack(m, e)
           g == [i \in DOMAIN e |-> (i - Len(items)) + 1]
<1>1. Whole(m) /\ m.estack \in Seq(Values(m.mem)) /\ Len(m.estack) \in Nat
  BY SoundParts
<1>2. /\ Tail(m.estack) \in Seq(Values(m.mem)) /\ Len(Tail(m.estack)) = Len(m.estack) - 1
      /\ \A i \in 1..(Len(m.estack) - 1) : Tail(m.estack)[i] = m.estack[i + 1]
      /\ DOMAIN m.estack = 1..Len(m.estack) /\ Len(items) \in Nat /\ DOMAIN items = 1..Len(items)
  <2>1. TailOf(Values(m.mem), m.estack, Tail(m.estack))
    BY <1>1, TailIs
  <2> DEFINE rest == Tail(m.estack)
  <2>2. TailOf(Values(m.mem), m.estack, rest)
    BY <2>1
  <2> HIDE DEF rest, e, x, g
  <2> SUFFICES /\ rest \in Seq(Values(m.mem)) /\ Len(rest) = Len(m.estack) - 1
               /\ \A i \in 1..(Len(m.estack) - 1) : rest[i] = m.estack[i + 1]
               /\ DOMAIN m.estack = 1..Len(m.estack) /\ Len(items) \in Nat
               /\ DOMAIN items = 1..Len(items)
    BY DEF rest
  <2> QED BY <2>2 DEF TailOf
<1>3. /\ DOMAIN e = 1..(Len(items) + (Len(m.estack) - 1))
      /\ \A i \in DOMAIN e :
           e[i] = IF i <= Len(items) THEN items[i] ELSE Tail(m.estack)[i - Len(items)]
  BY <1>2
<1>4. SameElse(m, x) /\ x.estack = e
  BY <1>1, RestackedElse
<1>5. \A i \in DOMAIN e : g[i] = (i - Len(items)) + 1
  OBVIOUS
<1> HIDE DEF e, x, g
<1>6. ASSUME NEW i \in DOMAIN e, Owner(e[i])
      PROVE  \/ e[i].at \in x.lent
             \/ g[i] \in DOMAIN m.estack /\ Owner(m.estack[g[i]]) /\ m.estack[g[i]].at = e[i].at
  <2>1. CASE i <= Len(items)
    <3>1. e[i] = items[i] /\ i \in DOMAIN items
      BY <1>1, <1>2, <1>3, <2>1
    <3> QED BY <1>4, <1>6, <3>1 DEF SameElse
  <2>2. CASE ~(i <= Len(items))
    <3>1. e[i] = Tail(m.estack)[i - Len(items)] /\ i - Len(items) \in 1..(Len(m.estack) - 1)
      BY <1>1, <1>2, <1>3, <2>2
    <3>2. g[i] \in DOMAIN m.estack /\ e[i] = m.estack[g[i]]
      BY <1>1, <1>2, <1>5, <3>1
    <3> QED BY <1>6, <3>2
  <2> QED BY <2>1, <2>2
<1>7. \A i, j \in DOMAIN e : i # j => g[i] # g[j]
  BY <1>1, <1>2, <1>3, <1>5
<1>8. 0 \notin DOMAIN e
  BY <1>1, <1>2, <1>3
<1>9. Rearranges(m, x, g, 0)
  BY <1>4, <1>6, <1>7, <1>8 DEF Rearranges
<1>10. Sole(x)
  BY <1>9, Rearranged
<1> QED BY <1>10 DEF x, e

\* r has the stack of m without the first d items, and all else that m has.
Remains(m, r, d) ==
  /\ SameElse(m, r) /\ r.mem = m.mem
  /\ DOMAIN r.estack = 1..(Len(m.estack) - d)
  /\ \A i \in DOMAIN r.estack : r.estack[i] = m.estack[i + d] /\ i + d \in DOMAIN m.estack
\* items are lent, or of what of m's stack is not r's: item i was item h[i].
Gathers(m, r, d, items, h) ==
  /\ \A i \in DOMAIN items : Owner(items[i]) =>
       \/ items[i].at \in r.lent
       \/ h[i] \in DOMAIN m.estack /\ Owner(m.estack[h[i]]) /\ m.estack[h[i]].at = items[i].at
  /\ \A i \in DOMAIN items : h[i] \in Int /\ h[i] <= d
  /\ \A i, j \in DOMAIN items : i # j => h[i] # h[j]

LEMMA ListedSole ==
  ASSUME NEW m, Sound(m), Sole(m), Room(m.mem), NEW d \in Nat, NEW r, Remains(m, r, d), Sound(r),
         NEW kind \in ListKinds, NEW items, NEW h, Gathers(m, r, d, items, h)
  PROVE  Sole(PushedList(r, kind, items))
<1> DEFINE a == NewAt(r)
           y == WithCell(r, a, ListCell(kind, items))
           x == PushedList(r, kind, items)
           f == [s \in Slots(x) |->
                   IF s[1] = "estack" THEN <<"estack", (s[2] - 1) + d>>
                   ELSE IF s[1] = "list" /\ s[2] = a THEN <<"estack", h[s[3]]>> ELSE s]
           none == <<"estack", 0>>
<1>1. /\ r.mem = m.mem /\ SameElse(m, r) /\ DOMAIN r.estack = 1..(Len(m.estack) - d)
      /\ \A i \in DOMAIN r.estack : r.estack[i] = m.estack[i + d] /\ i + d \in DOMAIN m.estack
  BY DEF Remains
<1>2. r.mem[a] = Free /\ a \in Addresses
  BY <1>1, NewAtFree
<1>3. Whole(r) /\ r.estack \in Seq(Values(r.mem)) /\ r.mem \in Memory /\ Len(m.estack) \in Nat
  BY SoundParts
<1>4. /\ Whole(y) /\ y.mem = Put(r.mem, a, ListCell(kind, items)) /\ y.estack = r.estack
      /\ y.astack = r.astack /\ y.storage = r.storage /\ y.lent = r.lent
  BY <1>3, WithCellIs
<1>5. x = Pushed(y, ListAt(a))
  BY DEF PushedList, WithCell
<1> HIDE DEF x, y, a
<1>6. SameElse(y, x) /\ x.estack = <<ListAt(a)>> \o r.estack
  BY <1>4, <1>5, PushedIs
<1>7. /\ \A b \in Addresses : y.mem[b] = IF b = a THEN ListCell(kind, items) ELSE m.mem[b]
      /\ ListCell(kind, items).holds \in ListKinds /\ ListCell(kind, items).items = items
      /\ Free.holds \notin ListKinds
  BY <1>1, <1>3, <1>4 DEF Put, Memory, ListCell, Free, ListKinds
<1>8. /\ a \notin Lists(m) /\ Lists(x) = Lists(m) \union {a}
      /\ \A b \in Lists(m) : x.mem[b].items = m.mem[b].items
      /\ x.mem[a].items = items
  BY <1>1, <1>2, <1>6, <1>7 DEF SameElse, SameLists, Lists
<1>9. /\ x.astack = m.astack /\ x.storage = m.storage /\ m.lent \subseteq x.lent
      /\ r.lent \subseteq x.lent
  BY <1>1, <1>4, <1>6 DEF SameElse
<1>10. /\ DOMAIN x.estack = 1..(Len(r.estack) + 1) /\ Len(r.estack) \in Nat
       /\ x.estack[1] = ListAt(a) /\ ~Owner(ListAt(a))
       /\ \A i \in 2..(Len(r.estack) + 1) : x.estack[i] = r.estack[i - 1] /\ i - 1 \in DOMAIN r.estack
  BY <1>3, <1>6, OnTop DEF ListAt, Owner
<1>11. none \notin Slots(x)
  BY <1>10, SlotIs
<1>12. ASSUME NEW s \in Slots(x), Owner(In(x, s))
       PROVE  \/ In(x, s).at \in x.lent
              \/ f[s] \in Slots(m) /\ Owner(In(m, f[s])) /\ In(m, f[s]).at = In(x, s).at
  <2>1. ASSUME NEW i \in DOMAIN x.estack, s = <<"estack", i>>
        PROVE  f[s] \in Slots(m) /\ Owner(In(m, f[s])) /\ In(m, f[s]).at = In(x, s).at
    <3>1. f[s] = <<"estack", (i - 1) + d>> /\ In(x, s) = x.estack[i]
      BY <2>1, InIs
    <3>2. i # 1
      BY <1>10, <1>12, <3>1
    <3>3. i \in 2..(Len(r.estack) + 1)
      BY <1>10, <3>2
    <3>4. x.estack[i] = m.estack[(i - 1) + d] /\ (i - 1) + d \in DOMAIN m.estack
      BY <1>1, <1>10, <3>3
    <3> HIDE DEF f
    <3> QED BY <1>12, <3>1, <3>4, Places
  <2>2. ASSUME NEW i \in DOMAIN items, s = <<"list", a, i>>
        PROVE  \/ In(x, s).at \in x.lent
               \/ f[s] \in Slots(m) /\ Owner(In(m, f[s])) /\ In(m, f[s]).at = In(x, s).at
    <3>1. f[s] = <<"estack", h[i]>> /\ In(x, s) = x.mem[a].items[i]
      BY <2>2, InIs
    <3>2. In(x, s) = items[i]
      BY <1>8, <3>1
    <3> HIDE DEF f
    <3> QED BY <1>9, <1>12, <3>1, <3>2, Places DEF Gathers
  <2>3. ASSUME NEW b \in Lists(m), NEW i \in DOMAIN m.mem[b].items, s = <<"list", b, i>>
        PROVE  f[s] \in Slots(m) /\ Owner(In(m, f[s])) /\ In(m, f[s]).at = In(x, s).at
    <3>1. f[s] = s /\ In(x, s) = x.mem[b].items[i]
      BY <1>8, <2>3, InIs
    <3> HIDE DEF f
    <3> QED BY <1>8, <1>12, <2>3, <3>1, Places
  <2>4. CASE s[1] \in {"astack", "storage"}
    <3>1. f[s] = s
      BY <2>4
    <3> HIDE DEF f
    <3> QED BY <1>9, <1>12, <2>4, <3>1, SlotIs, InIs, Places
  <2>5. \/ \E i \in DOMAIN x.estack : s = <<"estack", i>>
        \/ \E i \in DOMAIN items : s = <<"list", a, i>>
        \/ \E b \in Lists(m) : \E i \in DOMAIN m.mem[b].items : s = <<"list", b, i>>
        \/ s[1] \in {"astack", "storage"}
    BY <1>8, SlotIs
  <2> HIDE DEF f
  <2> QED BY <2>1, <2>2, <2>3, <2>4, <2>5
<1>13. ASSUME NEW s \in Slots(x), NEW t \in Slots(x), s # t, Share(x, s, t)
       PROVE  f[s] # f[t]
  <2>1. Owner(In(x, s)) /\ Owner(In(x, t))
    BY <1>13 DEF Share
  <2> DEFINE Kind(u) ==
        \/ \E i \in 2..(Len(r.estack) + 1) :
             u = <<"estack", i>> /\ f[u] = <<"estack", (i - 1) + d>>
        \/ \E i \in DOMAIN items : u = <<"list", a, i>> /\ f[u] = <<"estack", h[i]>>
        \/ f[u] = u /\ f[u][1] # "estack"
  <2>2. ASSUME NEW u \in Slots(x), Owner(In(x, u)) PROVE Kind(u)
    <3>1. ASSUME NEW i \in DOMAIN x.estack, u = <<"estack", i>> PROVE Kind(u)
      <4>1. i # 1
        BY <1>10, <2>2, <3>1, InIs
      <4>2. i \in 2..(Len(r.estack) + 1) /\ f[u] = <<"estack", (i - 1) + d>>
        BY <1>10, <3>1, <4>1
      <4> HIDE DEF f
      <4> QED BY <3>1, <4>2
    <3>2. ASSUME NEW b \in Lists(x), NEW i \in DOMAIN x.mem[b].items, u = <<"list", b, i>>
          PROVE  Kind(u)
      <4>1. CASE b = a
        BY <1>8, <3>2, <4>1
      <4>2. CASE b # a
        BY <3>2, <4>2
      <4> QED BY <4>1, <4>2
    <3>3. CASE u[1] \in {"astack", "storage"}
      BY <3>3
    <3> HIDE DEF Kind
    <3> QED BY <3>1, <3>2, <3>3, SlotIs
  <2>3. Kind(s) /\ Kind(t)
    BY <2>1, <2>2
  <2> HIDE DEF f
  <2>4. ASSUME NEW i \in 2..(Len(r.estack) + 1), f[s] = <<"estack", (i - 1) + d>>, s = <<"estack", i>>
        PROVE  f[s] # f[t]
    <3>1. i - 1 > 0 /\ i \in Nat
      BY <1>10
    <3>2. \A j \in DOMAIN items : h[j] # (i - 1) + d
      BY <3>1 DEF Gathers
    <3>3. \A j \in 2..(Len(r.estack) + 1) : (j - 1) + d = (i - 1) + d => i = j
      BY <1>10
    <3> QED BY <1>13, <2>3, <2>4, <3>2, <3>3
  <2>5. ASSUME NEW i \in DOMAIN items, s = <<"list", a, i>>, f[s] = <<"estack", h[i]>>
        PROVE  f[s] # f[t]
    <3>1. \A j \in 2..(Len(r.estack) + 1) : h[i] # (j - 1) + d
      BY <1>10 DEF Gathers
    <3>2. \A j \in DOMAIN items : h[i] = h[j] => i = j
      BY DEF Gathers
    <3> QED BY <1>13, <2>3, <2>5, <3>1, <3>2
  <2>6. CASE f[s] = s /\ f[s][1] # "estack"
    BY <1>13, <2>3, <2>6
  <2> QED BY <2>3, <2>4, <2>5, <2>6
<1> HIDE DEF f
<1>14. Derives(m, x, f, none)
  BY <1>9, <1>11, <1>12, <1>13 DEF Derives
<1>15. Sole(x)
  BY <1>14, Derived
<1> QED BY <1>15 DEF x

\* x keeps item as entry k, and of the stack of m what is under the first d items.
Keeping(m, x, d, k, item) ==
  /\ SameLists(m, x) /\ x.astack = m.astack /\ m.lent \subseteq x.lent
  /\ x.storage = With(m.storage, k, item)
  /\ DOMAIN x.estack = 1..(Len(m.estack) - d)
  /\ \A i \in DOMAIN x.estack : x.estack[i] = m.estack[i + d] /\ i + d \in DOMAIN m.estack
\* item is lent, of a new cell, or one of the d items.
Keepable(m, x, d, item) ==
  Owner(item) =>
    \/ item.at \in x.lent
    \/ m.mem[item.at] = Free
    \/ \E j \in 1..d : j \in DOMAIN m.estack /\ Owner(m.estack[j]) /\ m.estack[j].at = item.at

LEMMA KeptSole ==
  ASSUME NEW m, Sound(m), Sole(m), NEW x, NEW d \in Nat, NEW k, NEW item,
         Keeping(m, x, d, k, item), Keepable(m, x, d, item)
  PROVE  Sole(x)
<1> DEFINE taken == {j \in 1..d : /\ j \in DOMAIN m.estack /\ Owner(m.estack[j])
                                  /\ m.estack[j].at = item.at}
           place == <<"storage", k>>
           fresh == IF taken # {} THEN <<"estack", 0>> ELSE place
           top == CHOOSE j \in taken : TRUE
           f == [s \in Slots(x) |->
                   IF s[1] = "estack" THEN <<"estack", s[2] + d>>
                   ELSE IF s = place THEN <<"estack", top>> ELSE s]
<1>1. Len(m.estack) \in Nat /\ DOMAIN m.estack = 1..Len(m.estack)
  BY SoundParts
<1>2. /\ SameLists(m, x) /\ x.astack = m.astack /\ m.lent \subseteq x.lent
      /\ DOMAIN x.storage = DOMAIN m.storage \union {k}
      /\ \A j \in DOMAIN x.storage : x.storage[j] = IF j = k THEN item ELSE m.storage[j]
      /\ DOMAIN x.estack = 1..(Len(m.estack) - d)
      /\ \A i \in DOMAIN x.estack : x.estack[i] = m.estack[i + d] /\ i + d \in DOMAIN m.estack
  BY DEF Keeping, With
<1>3. taken # {} => top \in 1..d /\ top \in DOMAIN m.estack /\ Owner(m.estack[top])
                    /\ m.estack[top].at = item.at
  <2>1. taken # {} => top \in taken
    OBVIOUS
  <2> HIDE DEF top
  <2> QED BY <2>1
<1>4. In(x, place) = item /\ place \in Slots(x)
  BY <1>2, Places
<1>5. <<"estack", 0>> \notin Slots(x)
  BY <1>1, <1>2, SlotIs
<1>6. fresh \in Slots(x) /\ Owner(In(x, fresh)) =>
        In(x, fresh).at \in x.lent \/ m.mem[In(x, fresh).at] = Free
  BY <1>4, <1>5 DEF Keepable
<1> HIDE DEF top
<1>7. ASSUME NEW s \in Slots(x) \ {fresh}, Owner(In(x, s))
      PROVE  f[s] \in Slots(m) /\ Owner(In(m, f[s])) /\ In(m, f[s]).at = In(x, s).at
  <2>1. ASSUME NEW i \in DOMAIN x.estack, s = <<"estack", i>>
        PROVE  f[s] \in Slots(m) /\ Owner(In(m, f[s])) /\ In(m, f[s]).at = In(x, s).at
    <3>1. f[s] = <<"estack", i + d>> /\ In(x, s) = x.estack[i]
      BY <2>1, InIs
    <3> HIDE DEF f
    <3> QED BY <1>2, <1>7, <3>1, Places
  <2>2. CASE s = place
    <3>1. taken # {}
      BY <1>7, <2>2
    <3>2. f[s] = <<"estack", top>>
      BY <2>2
    <3> HIDE DEF f
    <3> QED BY <1>3, <1>4, <2>2, <3>1, <3>2, Places
  <2>3. CASE s # place /\ s[1] # "estack"
    <3>1. f[s] = s
      BY <2>3
    <3>2. s \in Slots(m) /\ In(m, s) = In(x, s)
      BY <1>2, <2>3, SlotIs, InIs, Places DEF SameLists
    <3> QED BY <1>7, <3>1, <3>2
  <2> HIDE DEF f
  <2> QED BY <2>1, <2>2, <2>3, SlotIs
<1>8. ASSUME NEW s \in Slots(x) \ {fresh}, NEW t \in Slots(x) \ {fresh}, s # t
      PROVE  f[s] # f[t]
  <2> DEFINE Kind(u) ==
        \/ \E i \in DOMAIN x.estack : u = <<"estack", i>> /\ f[u] = <<"estack", i + d>>
        \/ u = place /\ f[u] = <<"estack", top>> /\ top \in 1..d
        \/ f[u] = u /\ f[u][1] # "estack"
  <2>1. ASSUME NEW u \in Slots(x) \ {fresh} PROVE Kind(u)
    <3>1. ASSUME NEW i \in DOMAIN x.estack, u = <<"estack", i>> PROVE Kind(u)
      BY <3>1
    <3>2. CASE u = place
      <4>1. taken # {}
        BY <2>1, <3>2
      <4> QED BY <1>3, <3>2, <4>1
    <3>3. CASE u # place /\ u[1] # "estack"
      BY <3>3
    <3> HIDE DEF Kind
    <3> QED BY <3>1, <3>2, <3>3, SlotIs
  <2>2. Kind(s) /\ Kind(t)
    BY <2>1
  <2> HIDE DEF f, fresh
  <2>3. \A i \in DOMAIN x.estack : i \in Nat \ {0}
    BY <1>1, <1>2
  <2> QED BY <1>8, <2>2, <2>3
<1> HIDE DEF f, fresh
<1>9. Derives(m, x, f, fresh)
  BY <1>2, <1>6, <1>7, <1>8 DEF Derives
<1> QED BY <1>9, Derived

-----------------------------------------------------------------------------
(* Instructions                                                            *)

Owned(m) == m = Failed \/ Sole(m)

LEMMA OkSole ==
  ASSUME NEW cond, NEW m, cond => Sole(m)
  PROVE  Owned(Ok(cond, m))
BY DEF Owned, Ok

LEMMA PoppedOwner ==
  ASSUME SoundInv, Sole(Machine), NEW n \in 0..Len(estack)
  PROVE  Sole(Popped(Machine, n))
BY TheMachine, PoppedSole

LEMMA PushSole ==
  ASSUME SoundInv, Sole(Machine), Room(mem), NEW op \in Constants, NEW m \in PushAfter(op)
  PROVE  Owned(m)
<1>1. Sound(Machine) /\ Room(Machine.mem)
  BY TheMachine
<1>2. CASE op = "PUSH"
  <2> PICK n \in Kits[kit].ints : m = PushedInt(Machine, n)
    BY <1>2 DEF PushAfter
  <2> QED BY <1>1, PushedIntSole DEF Owned
<1>3. CASE op # "PUSH"
  <2> PICK b \in Kits[kit].data : m = PushedBytes(Machine, b)
    BY <1>3 DEF PushAfter
  <2> QED BY <1>1, PushedBytesSole DEF Owned
<1> QED BY <1>2, <1>3

LEMMA StackOpSole ==
  ASSUME SoundInv, Sole(Machine), Room(mem), NEW op \in StackOps
  PROVE  Owned(StackAfter(op))
<1> DEFINE height == Len(estack)
           r == Popped(Machine, 1)
           n == WordOf(Machine, estack[1])
<1>1. /\ Sound(Machine) /\ Machine.mem = mem /\ Machine.estack = estack /\ height \in Nat
      /\ Machine.astack = astack /\ astack \in Seq(Values(mem))
  BY TheMachine
<1>2. \A i \in 1..height : estack[i] \in Values(mem)
  BY Operands
<1>3. CASE op \in {"DUP", "OVER", "TUCK"}
  <2>1. op = "DUP" => StackAfter(op) = Ok(height >= 1, Placed(Machine, estack[1], 1))
    BY DEF StackAfter
  <2>2. op = "OVER" => StackAfter(op) = Ok(height >= 2, Placed(Machine, estack[2], 1))
    BY DEF StackAfter
  <2>3. op = "TUCK" => StackAfter(op) = Ok(height >= 2, Placed(Machine, estack[1], 3))
    BY DEF StackAfter
  <2>4. ASSUME NEW i \in 1..height, NEW j \in 1..(height + 1)
        PROVE  Sole(Placed(Machine, estack[i], j))
    BY <1>1, <1>2, PlacedSole
  <2>5. height >= 1 => Sole(Placed(Machine, estack[1], 1))
    BY <1>1, <2>4
  <2>6. height >= 2 => Sole(Placed(Machine, estack[2], 1)) /\ Sole(Placed(Machine, estack[1], 3))
    BY <1>1, <2>4
  <2> QED BY <1>3, <2>1, <2>2, <2>3, <2>5, <2>6, OkSole
<1>4. CASE op \in {"SWAP", "ROT", "NIP", "DROP"}
  <2>1. op = "SWAP" => StackAfter(op) = Ok(height >= 2, Swapped(Machine, 1))
    BY DEF StackAfter
  <2>2. op = "ROT" => StackAfter(op) = Ok(height >= 3, Rolled(Machine, 2))
    BY DEF StackAfter
  <2>3. op = "NIP" => StackAfter(op) = Ok(height >= 2, Dropped(Machine, 1))
    BY DEF StackAfter
  <2>4. op = "DROP" => StackAfter(op) = Ok(height >= 1, Dropped(Machine, 0))
    BY DEF StackAfter
  <2>5. height >= 1 => Sole(Dropped(Machine, 0))
    BY <1>1, DroppedSole
  <2>6. height >= 2 => Sole(Swapped(Machine, 1)) /\ Sole(Dropped(Machine, 1))
    BY <1>1, DroppedSole, SwappedSole
  <2>7. height >= 3 => Sole(Rolled(Machine, 2))
    BY <1>1, RolledSole
  <2> QED BY <1>1, <1>4, <2>1, <2>2, <2>3, <2>4, <2>5, <2>6, <2>7, OkSole
<1>5. CASE op = "DEPTH"
  <2>1. StackAfter(op) = PushedInt(Machine, height)
    BY <1>5 DEF StackAfter
  <2> QED BY <1>1, <2>1, PushedIntSole DEF Owned
<1>6. CASE op \in {"PICK", "ROLL", "XDROP", "XSWAP"}
  <2>1. op = "PICK" => StackAfter(op) = Ok(Below(0), Placed(r, estack[n + 2], 1))
    BY DEF StackAfter, Below
  <2>2. op = "ROLL" => StackAfter(op) = Ok(Below(0), Rolled(r, n))
    BY DEF StackAfter, Below
  <2>3. op = "XDROP" => StackAfter(op) = Ok(Below(0), Dropped(r, n))
    BY DEF StackAfter, Below
  <2>4. op = "XSWAP" => StackAfter(op) = Ok(Below(0), Swapped(r, n))
    BY DEF StackAfter, Below
  <2>5. Below(0) => /\ n \in 0..(Len(r.estack) - 1) /\ n + 2 \in 1..height
                    /\ 1 \in 1..(Len(r.estack) + 1) /\ Sound(r) /\ r.mem = mem /\ Len(estack) > 1
    BY BelowIs
  <2>6. Below(0) => Sole(r)
    BY <1>1, <2>5, PoppedOwner
  <2> HIDE DEF n, r
  <2>7. Below(0) => Sole(Placed(r, estack[n + 2], 1))
    BY <1>2, <2>5, <2>6, PlacedSole
  <2>8. Below(0) => Sole(Rolled(r, n)) /\ Sole(Dropped(r, n)) /\ Sole(Swapped(r, n))
    BY <2>5, <2>6, RolledSole, DroppedSole, SwappedSole
  <2> QED BY <1>6, <2>1, <2>2, <2>3, <2>4, <2>7, <2>8, OkSole DEF n, r
<1>7. CASE op = "XTUCK"
  <2>1. StackAfter(op) = Ok(Below(1), Placed(r, estack[2], n + 1))
    BY <1>7 DEF StackAfter, Below
  <2>2. Below(1) => /\ n + 1 \in 1..(Len(r.estack) + 1) /\ 2 \in 1..height
                    /\ Sound(r) /\ r.mem = mem /\ Len(estack) > 1
    BY BelowIs
  <2>3. Below(1) => Sole(r)
    BY <1>1, <2>2, PoppedOwner
  <2> HIDE DEF n, r
  <2>4. Below(1) => Sole(Placed(r, estack[2], n + 1))
    BY <1>2, <2>2, <2>3, PlacedSole
  <2> QED BY <2>1, <2>4, OkSole DEF n, r
<1>8. CASE op = "TOALTSTACK"
  <2> DEFINE x == WithAlt(r, <<estack[1]>> \o astack)
  <2>1. height >= 1 => r.astack = astack
    BY <1>1, PoppedMachine
  <2>2. StackAfter(op) = Ok(height >= 1, [r EXCEPT !.astack = <<estack[1]>> \o @])
    BY <1>8 DEF StackAfter
  <2>3. height >= 1 => x = [r EXCEPT !.astack = <<estack[1]>> \o @]
    BY <2>1 DEF WithAlt
  <2>4. height >= 1 => Sole(x)
    BY <1>1, ToAltSole
  <2> HIDE DEF r, x
  <2> QED BY <2>2, <2>3, <2>4, OkSole
<1>9. CASE op = "FROMALTSTACK"
  <2> DEFINE x == WithAlt(Machine, Tail(astack))
  <2>1. StackAfter(op) = Ok(astack # <<>>, Pushed([Machine EXCEPT !.astack = Tail(@)], Head(astack)))
    BY <1>9 DEF StackAfter
  <2>2. x = [Machine EXCEPT !.astack = Tail(@)]
    BY TheMachine DEF WithAlt
  <2>3. astack # <<>> => Sole(Pushed(x, Head(astack)))
    BY <1>1, FromAltSole
  <2> QED BY <2>1, <2>2, <2>3, OkSole
<1>10. CASE op = "DUPFROMALTSTACK"
  <2>1. StackAfter(op) = Ok(astack # <<>>, Placed(Machine, Head(astack), 1))
    BY <1>10 DEF StackAfter
  <2>2. astack # <<>> => Head(astack) \in Values(mem)
    BY <1>1, HeadTailProperties
  <2>3. astack # <<>> => Sole(Placed(Machine, Head(astack), 1))
    BY <1>1, <2>2, PlacedSole
  <2> QED BY <2>1, <2>3, OkSole
<1> QED BY <1>3, <1>4, <1>5, <1>6, <1>7, <1>8, <1>9, <1>10 DEF StackOps

\* As many operands as that are on the stack.
LEMMA TakenOwners ==
  ASSUME SoundInv, Sole(Machine), NEW n \in Nat, Primitives(n)
  PROVE  /\ n \in 0..Len(estack)
         /\ Sound(Popped(Machine, n)) /\ Sole(Popped(Machine, n)) /\ Popped(Machine, n).mem = mem
<1>1. n \in 0..Len(estack)
  BY TheMachine DEF Primitives
<1> QED BY <1>1, Taken, PoppedOwner

LEMMA InPlaceElse ==
  ASSUME NEW m, Sound(m), NEW slice \in Slices(m.mem), NEW bytes
  PROVE  LET x == InPlace(m, slice, bytes)
         IN SameElse(m, x) /\ x.estack = m.estack /\ Whole(x)
<1> DEFINE x == InPlace(m, slice, bytes)
           cell == AppendedCell(m, slice, bytes)
<1>1. Whole(m) /\ m.mem \in Memory
  BY SoundParts
<1>2. /\ slice.at \in Addresses
      /\ m.mem[slice.at] \in [holds : {"bytes"}, bytes : Seq(Byte)]
  BY <1>1, SliceHolds DEF Slices
<1>3. m.mem[slice.at].holds \notin ListKinds /\ cell.holds \notin ListKinds
  BY <1>2 DEF AppendedCell, ListKinds
<1>4. /\ Whole(x) /\ x.mem = Put(m.mem, slice.at, cell) /\ x.estack = m.estack
      /\ x.astack = m.astack /\ x.storage = m.storage
  BY <1>1, InPlaceIs
<1>5. x.lent = m.lent
  BY <1>1 DEF Whole, InPlace
<1> HIDE DEF x, cell
<1>6. \A b \in Addresses : x.mem[b] = IF b = slice.at THEN cell ELSE m.mem[b]
  BY <1>1, <1>4 DEF Put, Memory
<1>7. SameLists(m, x)
  BY <1>3, <1>6 DEF SameLists, Lists
<1>8. SameElse(m, x) /\ x.estack = m.estack /\ Whole(x)
  BY <1>4, <1>5, <1>7 DEF SameElse
<1> QED BY <1>8 DEF x

\* The bytes of an item popped, changed where they are.
LEMMA AppendedTaken ==
  ASSUME NEW m, Sound(m), Sole(m), Room(m.mem), NEW n \in 0..Len(m.estack), NEW j \in 1..n,
         NEW bytes, NEW s, s = AsSlice(Popped(m, n), m.estack[j]), Sound(s.m),
         s.item \in Slices(s.m.mem), NEW z, z.at = s.item.at, z.is = "bytes"
  PROVE  Sole(Pushed(InPlace(s.m, s.item, bytes), z))
<1> DEFINE item == m.estack[j]
           r == Popped(m, n)
           x == InPlace(s.m, s.item, bytes)
<1>1. Sound(r) /\ Sole(r) /\ r.mem = m.mem
  BY PoppedSound, PoppedSole
<1>2. /\ Sound(s.m) /\ s.item \in Slices(s.m.mem) /\ z.at = s.item.at /\ z.is = "bytes"
      /\ s = AsSlice(r, item)
  OBVIOUS
<1>3. SameElse(s.m, x) /\ x.estack = s.m.estack /\ Whole(x)
  BY <1>2, InPlaceElse
<1> HIDE DEF x
<1>4. CASE item.is = "bytes"
  <2>1. s.m = r /\ s.item = item
    BY <1>2, <1>4 DEF AsSlice
  <2>2. Owner(item)
    BY <1>4 DEF Owner
  <2>3. Sole(Pushed(x, z))
    BY <1>2, <1>3, <2>1, <2>2, TakenSole
  <2> QED BY <2>3 DEF x
<1>5. CASE item.is # "bytes"
  <2> DEFINE old == Bytes(r, item)
             spare == IF item.is = "int" THEN 1 ELSE 0
             t == [m |-> x, item |-> z]
  <2>1. s = Stored(r, old, spare)
    BY <1>2, <1>5 DEF AsSlice
  <2>2. Fresh(r, s)
    BY <1>1, <2>1, StoredFresh
  <2>3. Owner(s.item)
    BY <2>1 DEF Stored, SliceOf, Owner
  <2> HIDE DEF r
  <2>4. SameElse(r, x) /\ x.estack = r.estack
    BY <1>3, <2>2, SameElseTwice DEF Fresh
  <2>5. Fresh(r, t)
    BY <1>2, <1>3, <2>2, <2>3, <2>4 DEF Fresh
  <2>6. Sole(Pushed(t.m, t.item))
    BY <1>1, <2>5, PushedFresh
  <2> QED BY <2>6 DEF x
<1> QED BY <1>4, <1>5

LEMMA CatSole ==
  ASSUME SoundInv, Sole(Machine), RoomForTwo(mem), NEW grow \in 0..1
  PROVE  Owned(CatAfter(grow))
<1> DEFINE added == Bytes(Machine, estack[1])
           r == Popped(Machine, 2)
           s == AsSlice(r, estack[2])
           fits == Len(Bytes(Machine, estack[2])) + Len(added) <= MaxItemSize
           x == AppendedTo(s.m, s.item, added, grow)
<1>1. CatAfter(grow) = Ok(Primitives(2) /\ fits, x)
  BY DEF CatAfter
<1>2. ASSUME Primitives(2) PROVE Sole(x)
  <2> DEFINE more == SliceOf(s.item.at, s.item.off, s.item.len + Len(added))
             all == BytesOf(s.m, s.item) \o added
             y == InPlace(s.m, s.item, added)
  <2>1. 2 \in 0..Len(estack) /\ Sound(r) /\ Sole(r) /\ r.mem = mem
    BY <1>2, TakenOwners
  <2>2. estack[2] \in Values(mem) /\ IsPrimitive(estack[2])
    BY <1>2, Taken
  <2>3. Room(mem)
    BY DEF Room, RoomForTwo
  <2>4. GoesOn(r, s.m) /\ s.item \in Slices(s.m.mem) /\ Room(s.m.mem)
    <3> HIDE DEF r
    <3> QED BY <2>1, <2>2, <2>3, AsSliceSound DEF Copies
  <2>5. CASE Fills(s.m, s.item, added)
    <3>1. x = Pushed(y, more)
      <4> HIDE DEF s, added
      <4> QED BY <2>5 DEF AppendedTo, InPlace, Appended
    <3>2. more.at = s.item.at /\ more.is = "bytes"
      BY DEF SliceOf
    <3>3. Sound(s.m)
      BY <2>4 DEF GoesOn
    <3>4. /\ Sound(Machine) /\ Room(Machine.mem) /\ Machine.estack = estack
      BY <2>3, TheMachine
    <3>5. s = AsSlice(Popped(Machine, 2), Machine.estack[2]) /\ 2 \in 0..Len(Machine.estack) /\ 2 \in 1..2
      BY <2>1, <3>4
    <3> HIDE DEF added, more, s, r, all, x, fits
    <3>6. Sole(Pushed(y, more))
      BY Zenon, <2>4, <3>2, <3>3, <3>4, <3>5, AppendedTaken
    <3> HIDE DEF x, y
    <3> QED BY <3>1, <3>6
  <2>6. CASE ~Fills(s.m, s.item, added)
    <3>1. x = PushedStored(Stored(s.m, all, grow))
      <4> HIDE DEF s, added
      <4> QED BY <2>6 DEF AppendedTo
    <3> HIDE DEF r, all, x
    <3>2. Sole(s.m)
      BY <2>1, <2>3, SliceElse
    <3> HIDE DEF s
    <3>3. Sound(s.m)
      BY <2>4 DEF GoesOn
    <3> QED BY <2>4, <3>1, <3>2, <3>3, PushedStoredSole
  <2> HIDE DEF x
  <2> QED BY <2>5, <2>6
<1> HIDE DEF fits, x
<1> QED BY <1>1, <1>2, OkSole

\* A part of an operand, which the operand gives way to.
LEMMA PartSole ==
  ASSUME SoundInv, Sole(Machine), Room(mem), NEW n \in Nat, Primitives(n), NEW j \in 1..n,
         NEW off, NEW len
  PROVE  Sole(Part(Popped(Machine, n), estack[j], off, len))
<1> DEFINE s == AsSlice(Popped(Machine, n), estack[j])
           part == SliceOf(s.item.at, s.item.off + off, len)
<1>1. part.at = s.item.at
  BY DEF SliceOf
<1>2. Part(Popped(Machine, n), estack[j], off, len) = Pushed(s.m, part)
  BY DEF Part
<1>3. n \in 0..Len(estack)
  BY TakenOwners
<1>4. Sound(Machine) /\ Machine.estack = estack /\ Room(Machine.mem)
  BY TheMachine
<1> HIDE DEF part
<1>5. Sole(Pushed(s.m, part))
  BY <1>1, <1>3, <1>4, SlicePushed
<1> QED BY <1>2, <1>5

LEMMA SpliceSole ==
  ASSUME SoundInv, Sole(Machine), Room(mem), NEW op \in SpliceOps
  PROVE  Owned(SpliceAfter(op))
<1> DEFINE l == WordOf(Machine, estack[1])
           Size(i) == Len(Bytes(Machine, estack[i]))
           Lesser(a, b) == IF a < b THEN a ELSE b
<1>1. CASE op = "LEFT"
  <2> DEFINE x == Part(Popped(Machine, 2), estack[2], 0, Lesser(l, Size(2)))
  <2>1. SpliceAfter(op) = Ok(Primitives(2) /\ l >= 0, x)
    BY <1>1 DEF SpliceAfter
  <2>2. Primitives(2) => Sole(x)
    BY PartSole
  <2> HIDE DEF x
  <2> QED BY <2>1, <2>2, OkSole
<1>2. CASE op = "RIGHT"
  <2> DEFINE x == Part(Popped(Machine, 2), estack[2], Size(2) - l, l)
  <2>1. SpliceAfter(op) = Ok(Primitives(2) /\ l >= 0 /\ l <= Size(2), x)
    BY <1>2 DEF SpliceAfter
  <2>2. Primitives(2) => Sole(x)
    BY PartSole
  <2> HIDE DEF x
  <2> QED BY <2>1, <2>2, OkSole
<1>3. CASE op = "SUBSTR"
  <2> DEFINE o == WordOf(Machine, estack[2])
             last == Int64(l + o)
             cond == Primitives(3) /\ l >= 0 /\ o >= 0 /\ (o <= Size(3) => o <= last)
             r == Popped(Machine, 3)
             part == Part(r, estack[3], o, Lesser(last, Size(3)) - o)
             x == IF o > Size(3) THEN PushedBytes(r, <<>>) ELSE part
  <2>1. SpliceAfter(op) = Ok(cond, x)
    BY <1>3 DEF SpliceAfter
  <2>2. Primitives(3) => Sole(part)
    BY PartSole
  <2>3. Primitives(3) => Sound(r) /\ Sole(r) /\ r.mem = mem
    BY TakenOwners
  <2> HIDE DEF r, part
  <2>4. Primitives(3) => Sole(PushedBytes(r, <<>>))
    BY <2>3, PushedBytesSole
  <2>5. Primitives(3) => Sole(x)
    BY <2>2, <2>4
  <2> HIDE DEF x
  <2> QED BY <2>1, <2>5, OkSole
<1>4. CASE op = "SIZE"
  <2>1. SpliceAfter(op) = Ok(Primitives(1), PushedInt(Popped(Machine, 1), Size(1)))
    BY <1>4 DEF SpliceAfter
  <2>2. Primitives(1) => Sole(PushedInt(Popped(Machine, 1), Size(1)))
    BY TakenOwners, PushedIntSole
  <2> QED BY <2>1, <2>2, OkSole
<1> QED BY <1>1, <1>2, <1>3, <1>4 DEF SpliceOps

LEMMA InPlaceSole ==
  ASSUME SoundInv, Sole(Machine), Room(mem), NEW op \in InPlaceOps
  PROVE  Owned(InPlaceAfter(op))
<1> DEFINE item == estack[1]
           n == Changed(op, BigInt(Machine, item))
           x == [Machine EXCEPT !.mem[item.at] = IntCell(n)]
           y == PushedInt(Popped(Machine, 1), n)
<1>1. InPlaceAfter(op) = Ok(Primitives(1), IF item.is = "int" THEN x ELSE y)
  BY DEF InPlaceAfter
<1>2. ASSUME Primitives(1), item.is = "int" PROVE Sole(x)
  <2>1. item \in Values(mem) /\ Sound(Machine) /\ Machine.mem = mem
    BY <1>2, Taken, TheMachine
  <2>2. x = WithCell(Machine, item.at, IntCell(n))
    BY DEF WithCell
  <2>3. IntCell(n).holds \notin ListKinds
    BY DEF IntCell, ListKinds
  <2>4. Machine.mem[item.at].holds \notin ListKinds
    BY <1>2, <2>1, NumberHolds, SoundParts DEF ListKinds
  <2> HIDE DEF n, item, x
  <2>5. SameElse(Machine, x) /\ x.estack = Machine.estack
    BY <2>1, <2>2, <2>3, <2>4, CellElse
  <2> QED BY <2>1, <2>5, SoleGrown
<1>3. ASSUME Primitives(1) PROVE Sole(y)
  BY <1>3, TakenOwners, PushedIntSole
<1> HIDE DEF x, y
<1>4. Primitives(1) => Sole(IF item.is = "int" THEN x ELSE y)
  BY <1>2, <1>3
<1> QED BY <1>1, <1>4, OkSole

LEMMA PushedBoolSole ==
  ASSUME NEW m, Sound(m), Sole(m), NEW b
  PROVE  Sole(Pushed(m, BoolOf(b)))
<1>1. ~Owner(BoolOf(b))
  BY DEF BoolOf, Owner
<1> QED BY <1>1, PushedSole

LEMMA NumberMadeSole ==
  ASSUME SoundInv, Sole(Machine), Room(mem), NEW n \in Nat, Primitives(n), NEW i
  PROVE  Sole(PushedInt(Popped(Machine, n), i))
BY TakenOwners, PushedIntSole

LEMMA UnarySole ==
  ASSUME SoundInv, Sole(Machine), Room(mem), NEW op \in UnaryOps
  PROVE  Owned(UnaryAfter(op))
<1> DEFINE n == BigInt(Machine, estack[1])
           r == Popped(Machine, 1)
<1>1. CASE op = "INC"
  <2>1. UnaryAfter(op) = Ok(Primitives(1) /\ Fits(n + 1), PushedInt(r, n + 1))
    BY <1>1 DEF UnaryAfter
  <2> QED BY <2>1, NumberMadeSole, OkSole
<1>2. CASE op = "DEC"
  <2>1. UnaryAfter(op) = Ok(Primitives(1) /\ Fits(n - 1), PushedInt(r, n - 1))
    BY <1>2 DEF UnaryAfter
  <2> QED BY <2>1, NumberMadeSole, OkSole
<1>3. CASE op = "SIGN"
  <2>1. UnaryAfter(op) = Ok(Primitives(1), PushedInt(r, Sign(n)))
    BY <1>3 DEF UnaryAfter
  <2> QED BY <2>1, NumberMadeSole, OkSole
<1>4. CASE op = "NZ"
  <2>1. UnaryAfter(op) = Ok(Primitives(1), Pushed(r, BoolOf(n # 0)))
    BY <1>4 DEF UnaryAfter
  <2>2. Primitives(1) => Sound(r) /\ Sole(r)
    BY TakenOwners
  <2> QED BY <2>1, <2>2, PushedBoolSole, OkSole
<1>5. CASE op = "NOT"
  <2> DEFINE b == ~Bool(Machine, estack[1])
  <2>1. UnaryAfter(op) = Ok(Len(estack) >= 1, Pushed(r, BoolOf(b)))
    BY <1>5 DEF UnaryAfter
  <2>2. Len(estack) >= 1 => Sound(r) /\ Sole(r)
    BY TheMachine, PoppedMachine, PoppedOwner
  <2> HIDE DEF b
  <2> QED BY <2>1, <2>2, PushedBoolSole, OkSole
<1> QED BY <1>1, <1>2, <1>3, <1>4, <1>5 DEF UnaryOps

LEMMA ChosenSole ==
  ASSUME SoundInv, Sole(Machine), Room(mem), Primitives(2), NEW i \in 1..2
  PROVE  Sole(Chosen(Popped(Machine, 2), estack[i]))
<1> DEFINE r == Popped(Machine, 2)
           item == estack[i]
<1>1. /\ 2 \in 0..Len(estack) /\ Sound(r) /\ Sole(r) /\ r.mem = mem
      /\ Sound(Machine) /\ Machine.estack = estack
  BY TakenOwners, TheMachine
<1>2. CASE item.is = "int"
  <2>1. Chosen(r, item) = Pushed(r, item)
    BY <1>2 DEF Chosen
  <2>2. Whole(r) /\ SameElse(r, r)
    BY <1>1, SoundParts, SameElseSame
  <2>3. Sole(Pushed(r, item))
    BY <1>1, <2>2, TakenSole
  <2> QED BY <2>1, <2>3
<1>3. CASE item.is # "int"
  <2>1. Chosen(r, item) = PushedInt(r, BigInt(r, item))
    BY <1>3 DEF Chosen
  <2> HIDE DEF r
  <2> QED BY <1>1, <2>1, PushedIntSole DEF r
<1> QED BY <1>2, <1>3

LEMMA BinarySole ==
  ASSUME SoundInv, Sole(Machine), Room(mem), NEW op \in BinaryOps
  PROVE  Owned(BinaryAfter(op))
<1> DEFINE b == BigInt(Machine, estack[1])
           a == BigInt(Machine, estack[2])
           by == Int64(b)
           r == Popped(Machine, 2)
           t1 == Bool(Machine, estack[1])
           t2 == Bool(Machine, estack[2])
<1>1. /\ Primitives(2) => Sound(r) /\ Sole(r)
      /\ Len(estack) >= 2 => Sound(r) /\ Sole(r)
  BY TheMachine, PoppedMachine, PoppedOwner, TakenOwners
<1>2. ASSUME NEW cond, cond => Sound(r) /\ Sole(r), NEW v
      PROVE  Owned(Ok(cond, Pushed(r, BoolOf(v))))
  <2>1. cond => Sole(Pushed(r, BoolOf(v)))
    BY <1>2, PushedBoolSole
  <2> QED BY <2>1, OkSole
<1>3. ASSUME NEW cond, NEW n PROVE Owned(Ok(Primitives(2) /\ cond, PushedInt(r, n)))
  BY NumberMadeSole, OkSole
<1>4. CASE op \in Shifts
  <2>1. CASE Primitives(1) /\ by = 0
    <3>1. BinaryAfter(op) = Popped(Machine, 1)
      BY <1>4, <2>1 DEF BinaryAfter, Shifts, Bitwise2, Arithmetic2, Comparisons
    <3> QED BY <2>1, <3>1, TakenOwners DEF Owned
  <2>2. CASE ~(Primitives(1) /\ by = 0)
    <3>1. BinaryAfter(op) = Ok(Primitives(2) /\ Computes(op, a, by), PushedInt(r, Computed(op, a, by)))
      BY <1>4, <2>2 DEF BinaryAfter, Shifts, Bitwise2, Arithmetic2, Comparisons
    <3> QED BY <1>3, <3>1
  <2> QED BY <2>1, <2>2
<1>5. CASE op \in Bitwise2 \union Arithmetic2
  <2>1. BinaryAfter(op) = Ok(Primitives(2) /\ Computes(op, a, b), PushedInt(r, Computed(op, a, b)))
    BY <1>5 DEF BinaryAfter, Shifts, Bitwise2, Arithmetic2, Comparisons
  <2> QED BY <1>3, <2>1
<1>6. CASE op \in Comparisons
  <2>1. BinaryAfter(op) = Ok(Primitives(2), Pushed(r, BoolOf(Compared(op, a, b))))
    BY <1>6 DEF BinaryAfter, Shifts, Bitwise2, Arithmetic2, Comparisons
  <2> HIDE DEF a, b, r
  <2> QED BY <1>1, <1>2, <2>1
<1>7. CASE op \in {"MIN", "MAX"}
  <2> DEFINE i == IF op = "MIN" THEN IF a > b THEN 1 ELSE 2 ELSE IF a < b THEN 1 ELSE 2
  <2>1. BinaryAfter(op) = Ok(Primitives(2), Chosen(r, estack[i]))
    BY <1>7 DEF BinaryAfter, Shifts, Bitwise2, Arithmetic2, Comparisons
  <2>2. i \in 1..2
    OBVIOUS
  <2> HIDE DEF i
  <2>3. Primitives(2) => Sole(Chosen(r, estack[i]))
    BY <2>2, ChosenSole
  <2> QED BY <2>1, <2>3, OkSole
<1>8. CASE op = "WITHIN"
  <2> DEFINE v == a <= BigInt(Machine, estack[3]) /\ BigInt(Machine, estack[3]) < b
  <2>1. BinaryAfter(op) = Ok(Primitives(3), Pushed(Popped(Machine, 3), BoolOf(v)))
    BY <1>8 DEF BinaryAfter, Shifts, Bitwise2, Arithmetic2, Comparisons
  <2> HIDE DEF v
  <2>2. Primitives(3) => Sole(Pushed(Popped(Machine, 3), BoolOf(v)))
    BY TakenOwners, PushedBoolSole
  <2> QED BY <2>1, <2>2, OkSole
<1>9. CASE op = "BOOLAND"
  <2>1. BinaryAfter(op) = Ok(Len(estack) >= 2, Pushed(r, BoolOf(t1 /\ t2)))
    BY <1>9 DEF BinaryAfter, Shifts, Bitwise2, Arithmetic2, Comparisons
  <2> HIDE DEF r, t1, t2
  <2> QED BY <1>1, <1>2, <2>1
<1>10. CASE op = "BOOLOR"
  <2>1. BinaryAfter(op) = Ok(Len(estack) >= 2, Pushed(r, BoolOf(t1 \/ t2)))
    BY <1>10 DEF BinaryAfter, Shifts, Bitwise2, Arithmetic2, Comparisons
  <2> HIDE DEF r, t1, t2
  <2> QED BY <1>1, <1>2, <2>1
<1> QED BY <1>4, <1>5, <1>6, <1>7, <1>8, <1>9, <1>10 DEF BinaryOps

\* A list of what is lent, or of nothing that has an owner.
LEMMA SharedList ==
  ASSUME NEW m, Sound(m), Sole(m), Room(m.mem), NEW kind \in ListKinds, NEW items,
         DOMAIN items \subseteq Nat, \A i \in DOMAIN items : Owner(items[i]) => items[i].at \in m.lent
  PROVE  Sole(PushedList(m, kind, items))
<1> DEFINE h == [i \in DOMAIN items |-> -i]
<1>1. Len(m.estack) \in Nat /\ DOMAIN m.estack = 1..Len(m.estack)
  BY SoundParts
<1>2. \A i \in DOMAIN m.estack : i + 0 = i
  BY <1>1
<1>3. Remains(m, m, 0)
  BY <1>1, <1>2, SameElseSame DEF Remains
<1>4. \A i \in DOMAIN items : h[i] = -i
  OBVIOUS
<1> HIDE DEF h
<1>5. Gathers(m, m, 0, items, h)
  BY <1>4 DEF Gathers
<1> QED BY <1>3, <1>5, ListedSole

LEMMA NewListSole ==
  ASSUME SoundInv, Sole(Machine), Room(mem), NEW op, NEW kind \in ListKinds
  PROVE  Owned(NewListAfter(op, kind))
<1> DEFINE item == estack[1]
           r == Popped(Machine, 1)
           n == WordOf(Machine, item)
<1>1. CASE Len(estack) = 0
  <2>1. NewListAfter(op, kind) = Failed
    BY <1>1, TheMachine DEF NewListAfter, Is
  <2> QED BY <2>1 DEF Owned
<1>2. CASE Len(estack) # 0
  <2>1. 1 \in 1..Len(estack) /\ 1 \in 0..Len(estack)
    BY <1>2, TheMachine
  <2>2. Sound(r) /\ r.mem = mem /\ item \in Values(mem) /\ Sole(r)
    BY <2>1, PoppedMachine, PoppedOwner, Operands
  <2>3. CASE item.is = "list" /\ mem[item.at].holds = kind
    <3>1. NewListAfter(op, kind) = Pushed(r, item)
      BY <1>2, <2>1, <2>3 DEF NewListAfter, Is
    <3>2. ~Owner(item)
      BY <2>3 DEF Owner
    <3> HIDE DEF r, item
    <3> QED BY <2>2, <3>1, <3>2, PushedSole DEF Owned
  <2>4. CASE item.is = "list" /\ mem[item.at].holds # kind
    <3> DEFINE items == ItemsOf(item)
               x == Lent(r, ToSet(items))
    <3>1. NewListAfter(op, kind) = PushedList(x, kind, items)
      BY <1>2, <2>1, <2>4 DEF NewListAfter, Is
    <3>2. items \in Seq(Values(mem))
      BY <2>1, <2>4, Listed
    <3> HIDE DEF r, items
    <3>3. DOMAIN items \subseteq Nat /\ \A i \in DOMAIN items : items[i] \in ToSet(items)
      BY <3>2 DEF ToSet
    <3>4. /\ Sound(x) /\ x.mem = mem /\ Sole(x)
          /\ \A i \in DOMAIN items : Owner(items[i]) => items[i].at \in x.lent
      BY <2>2, <3>3, LentSound, LentSole, LentElse DEF GoesOn
    <3> HIDE DEF x
    <3>5. Sole(PushedList(x, kind, items))
      BY <3>3, <3>4, SharedList
    <3> QED BY <3>1, <3>5 DEF Owned
  <2>5. CASE item.is # "list"
    <3> DEFINE items == [i \in 1..n |-> BoolOf(FALSE)]
               cond == IsPrimitive(item) /\ 0 <= n /\ n <= MaxArraySize
    <3>1. NewListAfter(op, kind) = Ok(cond, PushedList(r, kind, items))
      BY <1>2, <2>1, <2>5 DEF NewListAfter, Is
    <3>2. ASSUME cond PROVE Sole(PushedList(r, kind, items))
      <4>1. n \in Int
        BY <2>1, <3>2, Operands
      <4> HIDE DEF n
      <4>2. DOMAIN items \subseteq Nat /\ \A i \in DOMAIN items : ~Owner(items[i])
        BY <4>1 DEF BoolOf, Owner
      <4> HIDE DEF items, r
      <4> QED BY <2>2, <4>2, SharedList
    <3> HIDE DEF cond, items
    <3> QED BY <3>1, <3>2, OkSole
  <2> QED BY <2>3, <2>4, <2>5
<1> QED BY <1>1, <1>2

\* It is the same whether a stack or what is lent is changed first.
LEMMA LentRestacked ==
  ASSUME NEW m, Whole(m), NEW v, NEW items
  PROVE  Lent(WithStack(m, v), items) = WithStack(Lent(m, items), v)
<1> DEFINE at == {i.at : i \in {j \in items : j.is \in {"int", "bytes"}}}
           x == WithStack(m, v)
           y == WithLent(m, m.lent \union at)
<1>1. Whole(x) /\ x.lent = m.lent
  BY WithStackIs
<1>2. Lent(x, items) = WithLent(x, x.lent \union at)
  BY DEF Lent, WithLent
<1>3. Lent(m, items) = y
  BY DEF Lent, WithLent
<1> HIDE DEF at
<1>4. WithLent(x, m.lent \union at) = WithStack(y, v)
  BY DEF Whole, WithLent, WithStack
<1> QED BY <1>1, <1>2, <1>3, <1>4

LEMMA ListOpSole ==
  ASSUME SoundInv, Sole(Machine), Room(mem), NEW op \in ListOps
  PROVE  Owned(ListAfter(op))
<1> DEFINE n == WordOf(Machine, estack[1])
<1>1. /\ Sound(Machine) /\ Machine.mem = mem /\ Machine.estack = estack
      /\ estack \in Seq(Values(mem)) /\ Len(estack) \in Nat /\ DOMAIN estack = 1..Len(estack)
  BY TheMachine
<1>2. CASE op = "PACK"
  <2> DEFINE cond == Primitives(1) /\ 0 <= n /\ n < Len(estack) /\ n <= MaxArraySize
             r == Popped(Machine, n + 1)
             items == SubSeq(estack, 2, n + 1)
             h == [i \in DOMAIN items |-> i + 1]
  <2>1. ListAfter(op) = Ok(cond, PushedList(r, "Array", items))
    BY <1>2 DEF ListAfter
  <2>2. ASSUME cond PROVE Sole(PushedList(r, "Array", items))
    <3>1. n \in Int
      BY <2>2, Taken
    <3>2. 0 <= n /\ n < Len(estack)
      BY <2>2
    <3> HIDE DEF n
    <3>3. n \in Nat /\ n + 1 \in 0..Len(estack) /\ n + 1 \in Nat
      BY <1>1, <3>1, <3>2
    <3>4. Sound(r) /\ r.mem = Machine.mem
      BY <1>1, <3>3, PoppedMachine
    <3>5. Remains(Machine, r, n + 1)
      BY <1>1, <3>3, <3>4, PoppedIs DEF Remains
    <3>6. DOMAIN items = 1..n /\ \A i \in 1..n : items[i] = estack[i + 1]
      BY <1>1, <3>3
    <3>7. \A i \in 1..n : i + 1 \in DOMAIN estack
      BY <1>1, <3>1, <3>2
    <3>8. \A i \in DOMAIN items : h[i] = i + 1
      OBVIOUS
    <3> HIDE DEF r, items, h
    <3>9. Gathers(Machine, r, n + 1, items, h)
      BY <1>1, <3>3, <3>6, <3>7, <3>8 DEF Gathers
    <3>10. "Array" \in ListKinds
      BY DEF ListKinds
    <3> QED BY <1>1, <3>3, <3>4, <3>5, <3>9, <3>10, ListedSole
  <2> HIDE DEF cond, r, items
  <2> QED BY <2>1, <2>2, OkSole
<1>3. CASE op = "UNPACK"
  <2> DEFINE items == ItemsOf(estack[1])
             new == items \o Tail(estack)
             s == [Machine EXCEPT !.estack = items \o Tail(@)]
             x == WithStack(Machine, new)
             y == Lent(Machine, ToSet(items))
             z == Lent(x, ToSet(items))
  <2>1. ListAfter(op) = Ok(Is(1, "list"), PushedInt(Lent(s, ToSet(items)), Len(items)))
    BY <1>3 DEF ListAfter
  <2>2. s = x
    BY <1>1 DEF WithStack
  <2>3. ASSUME Is(1, "list") PROVE Sole(PushedInt(z, Len(items)))
    <3>1. 1 \in 1..Len(estack) /\ estack # <<>>
      BY <1>1, <2>3 DEF Is
    <3>2. items \in Seq(Values(mem))
      BY <2>3, <3>1, Listed DEF Is
    <3>3. Tail(estack) \in Seq(Values(mem))
      BY <1>1, <3>1, HeadTailProperties
    <3> HIDE DEF items
    <3>4. new \in Seq(Values(mem))
      BY <3>2, <3>3, ConcatProperties
    <3>5. \A i \in DOMAIN items : items[i] \in ToSet(items)
      BY <3>2 DEF ToSet
    <3>6. /\ Sound(y) /\ y.mem = mem /\ Sole(y) /\ y.estack = estack
          /\ \A i \in DOMAIN items : Owner(items[i]) => items[i].at \in y.lent
      BY <1>1, <3>5, LentSound, LentSole, LentElse DEF GoesOn
    <3>7. z = WithStack(y, new)
      BY <1>1, SoundParts, LentRestacked
    <3> HIDE DEF y, z
    <3>8. Sole(z)
      BY <3>1, <3>2, <3>6, <3>7, UnpackedSole
    <3>9. Sound(z) /\ z.mem = mem
      BY <3>4, <3>6, <3>7, Restacked
    <3> QED BY <3>8, <3>9, PushedIntSole
  <2> HIDE DEF s, x, items, z
  <2> QED BY <2>1, <2>2, <2>3, OkSole DEF z
<1>4. CASE op = "PICKITEM"
  <2> DEFINE items == ItemsOf(estack[2])
             cond == Is(2, "list") /\ IsPrimitive(estack[1]) /\ 0 <= n /\ n < Len(items)
             r == Popped(Machine, 2)
  <2>1. ListAfter(op) = Ok(cond, Picked(r, items[n + 1]))
    BY <1>4 DEF ListAfter
  <2>2. ASSUME cond PROVE Sole(Picked(r, items[n + 1]))
    <3>1. 1 \in 1..Len(estack) /\ 2 \in 1..Len(estack) /\ 2 \in 0..Len(estack)
      BY <1>1, <2>2 DEF Is
    <3>2. items \in Seq(Values(mem)) /\ Len(items) \in Nat /\ n \in Int
      BY <2>2, <3>1, Listed, Operands DEF Is
    <3>3. Sound(r) /\ r.mem = mem /\ Len(r.estack) \in Nat /\ Sole(r)
      BY <3>1, PoppedMachine, PoppedOwner
    <3>4. 0 <= n /\ n < Len(items)
      BY <2>2
    <3> HIDE DEF items, n, r
    <3>5. n + 1 \in 1..Len(items)
      BY <3>2, <3>4
    <3>6. items[n + 1] \in Values(mem)
      BY <3>2, <3>5, ElementOfSeq
    <3>7. 1 \in 1..(Len(r.estack) + 1)
      BY <3>3
    <3> QED BY <3>3, <3>6, <3>7, PlacedSole DEF Picked
  <2> HIDE DEF cond, r, items
  <2> QED BY <2>1, <2>2, OkSole
<1>5. CASE op \in {"NEWARRAY", "NEWSTRUCT"}
  <2>1. /\ op = "NEWARRAY" => ListAfter(op) = NewListAfter(op, "Array")
        /\ op = "NEWSTRUCT" => ListAfter(op) = NewListAfter(op, "Struct")
    BY DEF ListAfter
  <2>2. "Array" \in ListKinds /\ "Struct" \in ListKinds
    BY DEF ListKinds
  <2> QED BY <1>5, <2>1, <2>2, NewListSole
<1> QED BY <1>2, <1>3, <1>4, <1>5 DEF ListOps

-----------------------------------------------------------------------------
(* Calls                                                                   *)

LEMMA EnteredIs ==
  ASSUME NEW m, Whole(m), NEW k, NEW item
  PROVE  LET y == Entered(m, k, item)
         IN /\ Whole(y) /\ y.mem = m.mem /\ y.estack = m.estack /\ y.astack = m.astack
            /\ y.storage = With(m.storage, k, item) /\ y.lent = m.lent
<1> DEFINE v == With(m.storage, k, item)
           y == WithStorage(m, v)
<1>1. Entered(m, k, item) = y
  BY DEF Entered, WithStorage
<1> HIDE DEF v
<1>2. /\ Whole(y) /\ y.mem = m.mem /\ y.estack = m.estack /\ y.astack = m.astack
      /\ y.storage = v /\ y.lent = m.lent
  BY WithStorageIs
<1> HIDE DEF y
<1> QED BY <1>1, <1>2 DEF v

\* An item of a machine that has the same storage, kept there.
LEMMA EnteredSole ==
  ASSUME NEW m, Sound(m), Sole(m), NEW d \in 0..Len(m.estack), NEW s,
         SameElse(Popped(m, d), s.m), s.m.estack = Popped(m, d).estack, Whole(s.m),
         NEW k, NEW bytes, Keepable(m, s.m, d, s.item)
  PROVE  /\ Sole(Entered(s.m, k, s.item)) /\ Sole(Wrote(Entered(s.m, k, s.item), k, bytes))
         /\ Wrote(Entered(s.m, k, s.item), k, bytes).estack = s.m.estack
<1> DEFINE r == Popped(m, d)
           x == Entered(s.m, k, s.item)
           y == Wrote(x, k, bytes)
<1>1. /\ SameElse(m, r) /\ DOMAIN r.estack = 1..(Len(m.estack) - d)
      /\ \A i \in DOMAIN r.estack : r.estack[i] = m.estack[i + d] /\ i + d \in DOMAIN m.estack
  BY PoppedIs
<1>2. SameElse(r, s.m) /\ s.m.estack = r.estack
  OBVIOUS
<1> HIDE DEF r
<1>3. SameElse(m, s.m)
  BY <1>1, <1>2, SameElseTwice
<1>4. /\ Whole(x) /\ x.mem = s.m.mem /\ x.estack = s.m.estack /\ x.astack = s.m.astack
      /\ x.storage = With(s.m.storage, k, s.item) /\ x.lent = s.m.lent
  BY EnteredIs
<1>5. /\ y.mem = x.mem /\ y.estack = x.estack /\ y.astack = x.astack /\ y.storage = x.storage
      /\ y.lent = x.lent
  <2>1. y.lent = x.lent
    BY <1>4 DEF Wrote, Whole
  <2> QED BY <1>4, <2>1, WroteWith
<1> HIDE DEF x, y
<1>6. Keeping(m, x, d, k, s.item) /\ Keepable(m, x, d, s.item)
  BY <1>1, <1>2, <1>3, <1>4 DEF Keeping, Keepable, SameElse, SameLists, Lists
<1>7. Keeping(m, y, d, k, s.item) /\ Keepable(m, y, d, s.item)
  BY <1>5, <1>6 DEF Keeping, Keepable, SameLists, Lists
<1>8. d \in Nat
  BY SoundParts
<1>9. Sole(x) /\ Sole(y)
  BY <1>6, <1>7, <1>8, KeptSole
<1> QED BY <1>4, <1>5, <1>9 DEF x, y

LEMMA GetSole ==
  ASSUME SoundInv, Sole(Machine), Room(mem), InContext, NEW k, NEW answers \in BOOLEAN
  PROVE  Owned(StorageGet(k, answers))
<1> DEFINE r == Popped(Machine, 2)
<1>1. Sound(r) /\ r.mem = mem /\ r.storage = storage /\ Sole(r)
  <2>1. 2 \in 0..Len(estack)
    BY InContextIs
  <2> QED BY <2>1, InContextIs, PoppedOwner
<1>2. CASE k \in DOMAIN storage
  <2> DEFINE item == storage[k]
             x == Lent(r, {item})
  <2>1. StorageGet(k, answers) = Pushed(x, item)
    BY <1>2 DEF StorageGet
  <2> HIDE DEF r, item
  <2>2. Sound(x) /\ Sole(x) /\ (Owner(item) => item.at \in x.lent)
    BY <1>1, LentSound, LentSole, LentElse DEF GoesOn
  <2> HIDE DEF x
  <2> QED BY <2>1, <2>2, LentPushed DEF Owned
<1>3. CASE k \notin DOMAIN storage
  <2> DEFINE has == NodeHas(k)
             s == Stored(r, has, Len(has))
             x == Lent(s.m, {s.item})
             y == Entered(x, k, s.item)
             t == [m |-> x, item |-> s.item]
  <2>1. has \in Seq(Byte) /\ Len(has) \in Nat
    <3>1. <<>> \in Seq(Byte)
      OBVIOUS
    <3>2. has \in Seq(Byte)
      BY <3>1, ChainAssumption DEF NodeHas
    <3> QED BY <3>2
  <2>2. StorageGet(k, answers) = Ok(answers, PushedStored([s EXCEPT !.m = Entered(Lent(@, {s.item}), k, s.item)]))
    BY <1>3 DEF StorageGet
  <2>3. PushedStored([s EXCEPT !.m = Entered(Lent(@, {s.item}), k, s.item)]) = Pushed(y, s.item)
    <3>1. s = [m |-> s.m, item |-> s.item]
      BY DEF Stored
    <3> HIDE DEF s
    <3>2. [s EXCEPT !.m = Entered(Lent(@, {s.item}), k, s.item)] = [m |-> y, item |-> s.item]
      BY <3>1
    <3> HIDE DEF y
    <3> QED BY <3>2 DEF PushedStored
  <2> HIDE DEF r, has
  <2>4. /\ Sound(s.m) /\ s.m.storage = storage
        /\ s.item \in Slices(s.m.mem) /\ BytesOf(s.m, s.item) = has
    BY <1>1, <2>1, StoredSound DEF GoesOn
  <2>5. Fresh(r, s)
    BY <1>1, StoredFresh
  <2> HIDE DEF s
  <2>6. Sole(s.m)
    BY <1>1, <2>5, SoleGrown DEF Fresh
  <2>7. /\ Sound(x) /\ x.mem = s.m.mem /\ x.storage = storage /\ Sole(x)
        /\ (Owner(s.item) => s.item.at \in x.lent)
    BY <2>4, <2>6, LentSound, LentSole, LentElse DEF GoesOn
  <2>8. BytesOf(x, s.item) = NodeHas(k)
    BY <2>4, <2>7 DEF BytesOf, has
  <2> HIDE DEF x
  <2>9. Sound(y)
    BY <1>3, <2>4, <2>7, <2>8, FetchedSound
  <2>10. Whole(x) /\ Len(x.estack) \in Nat /\ DOMAIN x.estack = 1..Len(x.estack)
    BY <2>7, SoundParts
  <2>11. /\ y.mem = x.mem /\ y.estack = x.estack /\ y.astack = x.astack
         /\ y.storage = With(x.storage, k, s.item) /\ y.lent = x.lent
    BY <2>10, EnteredIs
  <2> HIDE DEF y
  <2>12. \A i \in DOMAIN x.estack : i + 0 = i
    BY <2>10
  <2>13. Keeping(x, y, 0, k, s.item) /\ Keepable(x, y, 0, s.item)
    BY <2>7, <2>10, <2>11, <2>12 DEF Keeping, Keepable, SameLists, Lists
  <2>14. Sole(y)
    BY <2>7, <2>13, KeptSole
  <2>15. Sole(Pushed(y, s.item))
    BY <2>7, <2>9, <2>11, <2>14, LentPushed
  <2> QED BY <2>2, <2>3, <2>15, OkSole
<1> QED BY <1>2, <1>3

LEMMA PutSole ==
  ASSUME SoundInv, Sole(Machine), Room(mem), NEW k, Len(estack) >= 3, IsPrimitive(estack[3])
  PROVE  Sole(StoragePut(k))
<1> DEFINE r == Popped(Machine, 3)
           item == estack[3]
           value == AsSlice(r, item)
           x == Wrote(Entered(value.m, k, value.item), k, BytesOf(value.m, value.item))
<1>1. StoragePut(k) = x
  BY PutMachine
<1>2. Len(estack) \in Nat /\ 3 \in 1..Len(estack) /\ 3 \in 0..Len(estack)
  BY TheMachine
<1>3. /\ Sound(Machine) /\ Machine.estack = estack /\ Machine.mem = mem
      /\ DOMAIN Machine.estack = 1..Len(estack)
  BY <1>2, TheMachine
<1>4. Sound(r) /\ r.mem = mem /\ Sole(r)
  BY <1>2, PoppedMachine, PoppedOwner
<1>5. CASE item.is = "bytes"
  <2>1. value.m = r /\ value.item = item
    BY <1>5 DEF AsSlice
  <2>2. SameElse(r, r) /\ Whole(r)
    BY <1>4, SameElseSame, SoundParts
  <2> HIDE DEF r, value
  <2>3. Keepable(Machine, value.m, 3, value.item)
    BY <1>2, <1>3, <2>1 DEF Keepable
  <2> HIDE DEF item
  <2>4. Sole(x)
    BY <1>2, <1>3, <2>1, <2>2, <2>3, EnteredSole DEF r
  <2> QED BY <1>1, <2>4 DEF value, r, item
<1>6. CASE item.is # "bytes"
  <2> DEFINE old == Bytes(r, item)
             spare == IF item.is = "int" THEN 1 ELSE 0
  <2>1. value = Stored(r, old, spare)
    BY <1>6 DEF AsSlice
  <2>2. Fresh(r, value)
    BY <1>4, <2>1, StoredFresh
  <2> HIDE DEF value
  <2>3. /\ SameElse(r, value.m) /\ value.m.estack = r.estack /\ Whole(value.m)
        /\ Keepable(Machine, value.m, 3, value.item)
    BY <1>3, <1>4, <2>2 DEF Fresh, Keepable
  <2>4. Sole(x)
    BY <1>2, <1>3, <2>3, EnteredSole
  <2> QED BY <1>1, <2>4 DEF value
<1> QED BY <1>5, <1>6

LEMMA StoragePutSole ==
  ASSUME SoundInv, Sole(Machine), Room(mem), NEW k
  PROVE  Owned(StoragePut(k)) /\ Owned(StoragePutEx(k))
<1> DEFINE cond == Len(estack) >= 3 /\ IsPrimitive(estack[3])
           put == StoragePut(k)
           condEx == Len(estack) >= 4 /\ IsPrimitive(estack[3]) /\ IsPrimitive(estack[4])
<1>1. Owned(put)
  <2>1. CASE cond
    BY <2>1, PutSole DEF Owned
  <2>2. CASE ~cond
    <3>1. put = Failed
      BY <2>2 DEF StoragePut, Ok
    <3> HIDE DEF put
    <3> QED BY <3>1 DEF Owned
  <2> QED BY <2>1, <2>2
<1>2. StoragePutEx(k) = Ok(condEx, Popped(put, 1))
  BY DEF StoragePutEx
<1>3. ASSUME condEx PROVE Sole(Popped(put, 1))
  <2>1. Len(estack) \in Nat /\ Len(estack) >= 4 /\ Len(estack) >= 3
    BY <1>3, TheMachine
  <2>2. Sound(put) /\ Sole(put) /\ Len(put.estack) = Len(estack) - 3
    BY <1>3, <2>1, PutMachine, PutSole
  <2> HIDE DEF put
  <2>3. 1 \in 0..Len(put.estack)
    BY <2>1, <2>2
  <2> QED BY <2>2, <2>3, PoppedSole
<1> HIDE DEF put, condEx
<1>4. Owned(StoragePutEx(k))
  BY <1>2, <1>3, OkSole
<1> QED BY <1>1, <1>4 DEF put

LEMMA DeleteSole ==
  ASSUME SoundInv, Sole(Machine), Room(mem), InContext, NEW k
  PROVE  Owned(StorageDelete(k))
<1> DEFINE r == Popped(Machine, 2)
           s == Stored(r, <<>>, 0)
           x == Wrote(Entered(s.m, k, s.item), k, <<>>)
<1>1. StorageDelete(k) = Ok(~estack[1].ReadOnly, x)
  BY DEF StorageDelete
<1>2. /\ Sound(r) /\ r.mem = Machine.mem /\ Sound(Machine) /\ Machine.mem = mem
      /\ 2 \in 0..Len(Machine.estack)
  BY InContextIs, TheMachine
<1>3. Fresh(r, s)
  <2> HIDE DEF r
  <2> QED BY <1>2, StoredFresh
<1> HIDE DEF s
<1>4. /\ SameElse(r, s.m) /\ s.m.estack = r.estack /\ Whole(s.m)
      /\ Keepable(Machine, s.m, 2, s.item)
  BY <1>2, <1>3 DEF Fresh, Keepable
<1>5. Sole(x)
  BY <1>2, <1>4, EnteredSole
<1> HIDE DEF x
<1> QED BY <1>1, <1>5, OkSole DEF x, s

LEMMA StorageOpSole ==
  ASSUME SoundInv, Sole(Machine), Room(mem), NEW op \in StorageOps, NEW answers \in BOOLEAN
  PROVE  Owned(StorageAfter(op, answers))
<1>1. CASE ~InContext
  <2>1. StorageAfter(op, answers) = Failed
    BY <1>1 DEF StorageAfter
  <2> QED BY <2>1 DEF Owned
<1>2. CASE InContext
  <2>1. /\ op = "Storage.Get" => StorageAfter(op, answers) = StorageGet(Entry, answers)
        /\ op = "Storage.Put" => StorageAfter(op, answers) = StoragePut(Entry)
        /\ op = "Storage.PutEx" => StorageAfter(op, answers) = StoragePutEx(Entry)
        /\ op = "Storage.Delete" => StorageAfter(op, answers) = StorageDelete(Entry)
    BY <1>2 DEF StorageAfter
  <2> QED BY <1>2, <2>1, GetSole, StoragePutSole, DeleteSole DEF StorageOps
<1> QED BY <1>1, <1>2

LEMMA InteropSole ==
  ASSUME NEW m, Sound(m), Sole(m), NEW item, item.is \notin {"int", "bytes"}
  PROVE  Sole(Pushed(m, item))
BY PushedSole DEF Owner

LEMMA TookOwners ==
  ASSUME SoundInv, Sole(Machine), NEW what, Is(1, what)
  PROVE  /\ Sound(Popped(Machine, 1)) /\ Popped(Machine, 1).mem = mem /\ Sole(Popped(Machine, 1))
         /\ Len(Popped(Machine, 1).estack) = Len(estack) - 1 /\ Len(estack) \in Nat
<1>1. Len(estack) \in Nat /\ 1 \in 0..Len(estack)
  BY TheMachine DEF Is
<1> QED BY <1>1, TookInterop, PoppedOwner

LEMMA ContextOpSole ==
  ASSUME SoundInv, Sole(Machine), NEW op \in ContextOps
  PROVE  Owned(ContextAfter(op))
<1> DEFINE r == Popped(Machine, 1)
<1>1. Sound(Machine)
  BY TheMachine
<1>2. \A hash, readOnly : Context(hash, readOnly).is = "StorageContext"
  BY DEF Context
<1>3. CASE op = "Storage.GetContext"
  <2>1. ContextAfter(op) = Pushed(Machine, Context(Running, FALSE))
    BY <1>3 DEF ContextAfter
  <2> QED BY <1>1, <1>2, <2>1, InteropSole DEF Owned
<1>4. CASE op = "Storage.GetReadOnlyContext"
  <2>1. ContextAfter(op) = Pushed(Machine, Context(Running, TRUE))
    BY <1>4 DEF ContextAfter
  <2> QED BY <1>1, <1>2, <2>1, InteropSole DEF Owned
<1>5. CASE op = "StorageContext.AsReadOnly"
  <2> DEFINE c == Context(estack[1].ScriptHash, TRUE)
  <2>1. ContextAfter(op) = Ok(Is(1, "StorageContext"), Pushed(r, c))
    BY <1>5 DEF ContextAfter
  <2>2. c.is = "StorageContext"
    BY <1>2
  <2> HIDE DEF c
  <2>3. Is(1, "StorageContext") => Sole(Pushed(r, c))
    BY <2>2, TookOwners, InteropSole
  <2> QED BY <2>1, <2>3, OkSole
<1>6. CASE op = "Contract.GetStorageContext"
  <2> DEFINE c == Context(estack[1].hash, FALSE)
  <2>1. ContextAfter(op) = Ok(Is(1, "contract"), Pushed(r, c))
    BY <1>6 DEF ContextAfter
  <2>2. c.is = "StorageContext"
    BY <1>2
  <2> HIDE DEF c
  <2>3. Is(1, "contract") => Sole(Pushed(r, c))
    BY <2>2, TookOwners, InteropSole
  <2> QED BY <2>1, <2>3, OkSole
<1> QED BY <1>3, <1>4, <1>5, <1>6 DEF ContextOps

LEMMA ChainOpSole ==
  ASSUME SoundInv, Sole(Machine), Room(mem), NEW op \in DOMAIN ChainOps,
         NEW answer \in {NoAnswer} \union {a \in Answers : a.is = ChainOps[op]}
  PROVE  Owned(ChainAfter(op, answer))
<1> DEFINE r == Popped(Machine, 1)
<1>1. CASE answer = NoAnswer
  <2>1. ChainAfter(op, answer) = Failed
    BY <1>1 DEF ChainAfter
  <2> QED BY <2>1 DEF Owned
<1>2. CASE answer # NoAnswer
  <2>1. answer.is \notin {"int", "bytes"}
    BY <1>2, ChainAssumption DEF Interop
  <2>2. Primitives(1) => Sole(Pushed(r, answer))
    BY <2>1, TakenOwners, InteropSole
  <2> HIDE DEF r
  <2>3. CASE op \in {"Blockchain.GetBlock", "Blockchain.GetHeader"}
    <3>1. ChainAfter(op, answer) = Ok(BlockAskedFor, Pushed(r, answer))
      BY <1>2, <2>3 DEF ChainAfter, r
    <3>2. BlockAskedFor => Primitives(1)
      BY DEF BlockAskedFor
    <3> QED BY <2>2, <3>1, <3>2, OkSole
  <2>4. CASE op = "Blockchain.GetContract"
    <3> DEFINE sized == Len(Bytes(Machine, estack[1])) = Uint160Size
    <3>1. ChainAfter(op, answer) = Ok(Primitives(1) /\ sized, Pushed(r, answer))
      BY <1>2, <2>4 DEF ChainAfter, r
    <3> HIDE DEF sized
    <3> QED BY <2>2, <3>1, OkSole
  <2>5. CASE op = "Runtime.GetTime"
    <3>1. ChainAfter(op, answer) = PushedInt(Machine, answer.Timestamp)
      BY <1>2, <2>5 DEF ChainAfter
    <3>2. Sound(Machine) /\ Machine.mem = mem
      BY TheMachine
    <3> QED BY <3>1, <3>2, PushedIntSole DEF Owned
  <2> QED BY <2>3, <2>4, <2>5 DEF ChainOps
<1> QED BY <1>1, <1>2

LEMMA BlockSole ==
  ASSUME SoundInv, Sole(Machine), Room(mem), NEW op \in BlockOps
  PROVE  Owned(BlockAfter(op))
<1> DEFINE r == Popped(Machine, 1)
           txs == estack[1].Transactions
           index == WordOf(Machine, estack[2])
           tx(i) == [is |-> "tx", hash |-> txs[i]]
<1>1. ASSUME Is(1, "block")
      PROVE  /\ Sound(r) /\ r.mem = mem /\ Len(r.estack) = Len(estack) - 1 /\ Sole(r)
             /\ txs \in Seq(Seq(Byte)) /\ Len(estack) \in Nat
  BY <1>1, TookInterop, TookOwners, InteropFields
<1>2. CASE op = "Block.GetTransactionCount"
  <2>1. BlockAfter(op) = Ok(Is(1, "block"), PushedInt(r, Len(txs)))
    BY <1>2 DEF BlockAfter
  <2> HIDE DEF r, txs
  <2>2. Is(1, "block") => Sole(PushedInt(r, Len(txs)))
    BY <1>1, PushedIntSole
  <2> QED BY <2>1, <2>2, OkSole
<1>3. CASE op = "Block.GetTransactions"
  <2> DEFINE items == [i \in DOMAIN txs |-> tx(i)]
             cond == Is(1, "block") /\ Len(txs) <= MaxArraySize
  <2>1. BlockAfter(op) = Ok(cond, PushedList(r, "Array", items))
    BY <1>3 DEF BlockAfter
  <2>2. ASSUME cond PROVE Sole(PushedList(r, "Array", items))
    <3>1. DOMAIN txs \subseteq Nat
      BY <1>1, <2>2
    <3> HIDE DEF txs
    <3>2. DOMAIN items \subseteq Nat /\ \A i \in DOMAIN items : ~Owner(items[i])
      BY <3>1 DEF Owner
    <3>3. "Array" \in ListKinds
      BY DEF ListKinds
    <3> HIDE DEF items, r
    <3> QED BY <1>1, <2>2, <3>2, <3>3, SharedList
  <2> HIDE DEF cond, items, r
  <2> QED BY <2>1, <2>2, OkSole
<1>4. CASE op = "Block.GetTransaction"
  <2> DEFINE cond == /\ Is(1, "block") /\ Len(estack) >= 2 /\ IsPrimitive(estack[2])
                     /\ index + 1 \in DOMAIN txs
             x == Pushed(Popped(r, 1), tx(index + 1))
  <2>1. BlockAfter(op) = Ok(cond, x)
    BY <1>4 DEF BlockAfter
  <2>2. ASSUME cond PROVE Sole(x)
    <3>1. tx(index + 1).is = "tx"
      OBVIOUS
    <3>2. 1 \in 0..Len(r.estack) /\ Sound(r) /\ Sole(r)
      BY <1>1, <2>2
    <3> HIDE DEF r, tx
    <3>3. Sound(Popped(r, 1)) /\ Sole(Popped(r, 1))
      BY <3>2, PoppedSound, PoppedSole
    <3> QED BY <3>1, <3>3, InteropSole
  <2> HIDE DEF cond, x
  <2> QED BY <2>1, <2>2, OkSole
<1> QED BY <1>2, <1>3, <1>4 DEF BlockOps

LEMMA HeaderSole ==
  ASSUME SoundInv, Sole(Machine), Room(mem), NEW op \in HeaderOps
  PROVE  Owned(HeaderAfter(op))
<1> DEFINE r == Popped(Machine, 1)
           header == estack[1]
           cond == Is(1, "header") \/ Is(1, "block")
           x == CASE op = "Header.GetHash" -> PushedBytes(r, header.hash)
                  [] op = "Header.GetPrevHash" -> PushedBytes(r, header.PrevHash)
                  [] op = "Header.GetIndex" -> PushedInt(r, header.Index)
                  [] op = "Header.GetTimestamp" -> PushedInt(r, header.Timestamp)
<1>1. HeaderAfter(op) = Ok(cond, x)
  BY DEF HeaderAfter
<1>2. ASSUME cond PROVE Sole(x)
  <2>1. Sound(r) /\ r.mem = mem /\ Sole(r)
    BY <1>2, TookOwners
  <2> HIDE DEF r, header
  <2>2. /\ Sole(PushedBytes(r, header.hash)) /\ Sole(PushedBytes(r, header.PrevHash))
        /\ Sole(PushedInt(r, header.Index)) /\ Sole(PushedInt(r, header.Timestamp))
    BY <2>1, PushedBytesSole, PushedIntSole
  <2>3. /\ op = "Header.GetHash" => x = PushedBytes(r, header.hash)
        /\ op = "Header.GetPrevHash" => x = PushedBytes(r, header.PrevHash)
        /\ op = "Header.GetIndex" => x = PushedInt(r, header.Index)
        /\ op = "Header.GetTimestamp" => x = PushedInt(r, header.Timestamp)
    OBVIOUS
  <2> HIDE DEF x
  <2> QED BY <2>2, <2>3 DEF HeaderOps
<1> HIDE DEF cond, x
<1> QED BY <1>1, <1>2, OkSole

LEMMA FrameSole ==
  ASSUME SoundInv, Sole(Machine), Room(mem), NEW n
  PROVE  Owned(Frame(n))
<1> DEFINE hash == Kits[kit].frames[n + 1]
<1>1. Frame(n) = Ok(n < Len(Kits[kit].frames), PushedBytes(Machine, hash))
  BY DEF Frame
<1> HIDE DEF hash
<1>2. Sole(PushedBytes(Machine, hash))
  BY TheMachine, PushedBytesSole
<1> QED BY <1>1, <1>2, OkSole

LEMMA WitnessSole ==
  ASSUME SoundInv, Sole(Machine)
  PROVE  Owned(CheckWitness)
<1> DEFINE given == Bytes(Machine, estack[1])
           hash == IF Len(given) = Uint160Size THEN given ELSE KeyHash(given)
           right == Len(given) = Uint160Size \/ (Len(given) = KeySize /\ hash # NoKey)
           known == hash \in Witnesses
           x == Pushed(Popped(Machine, 1), BoolOf(known))
<1>1. CheckWitness = Ok(Primitives(1) /\ right, x)
  BY DEF CheckWitness
<1> HIDE DEF right, known
<1>2. Primitives(1) => Sole(x)
  BY TakenOwners, PushedBoolSole
<1> QED BY <1>1, <1>2, OkSole

LEMMA EngineSole ==
  ASSUME SoundInv, Sole(Machine), Room(mem), NEW op \in EngineOps
  PROVE  Owned(EngineAfter(op))
<1> DEFINE r == Popped(Machine, 1)
<1>1. /\ Sound(Machine) /\ Machine.mem = mem /\ Len(estack) \in Nat /\ Machine.estack = estack
      /\ estack \in Seq(Values(mem))
  BY TheMachine
<1>2. CASE op \in {"ExecutionEngine.GetCallingScriptHash", "ExecutionEngine.GetEntryScriptHash",
                   "ExecutionEngine.GetExecutingScriptHash"}
  <2>1. /\ op = "ExecutionEngine.GetCallingScriptHash" => EngineAfter(op) = Frame(1)
        /\ op = "ExecutionEngine.GetEntryScriptHash" => EngineAfter(op) = Frame(Len(Kits[kit].frames) - 1)
        /\ op = "ExecutionEngine.GetExecutingScriptHash" => EngineAfter(op) = Frame(0)
    BY DEF EngineAfter
  <2> QED BY <1>2, <2>1, FrameSole
<1>3. CASE op = "Runtime.CheckWitness"
  <2>1. EngineAfter(op) = CheckWitness
    BY <1>3 DEF EngineAfter
  <2> QED BY <2>1, WitnessSole
<1>4. CASE op \in {"Runtime.GetTrigger", "Blockchain.GetHeight"}
  <2>1. /\ op = "Runtime.GetTrigger" => EngineAfter(op) = PushedInt(Machine, 16)
        /\ op = "Blockchain.GetHeight" => EngineAfter(op) = PushedInt(Machine, Height)
    BY DEF EngineAfter
  <2> QED BY <1>1, <1>4, <2>1, PushedIntSole DEF Owned
<1>5. CASE op = "Runtime.Log"
  <2>1. EngineAfter(op) = Ok(Primitives(1), r)
    BY <1>5 DEF EngineAfter
  <2> QED BY <2>1, TakenOwners, OkSole
<1>6. CASE op = "Runtime.Notify"
  <2> DEFINE rest == SubSeq(estack, 2, Len(estack))
             g == [i \in DOMAIN rest |-> i + 1]
  <2>1. EngineAfter(op) = r
    BY <1>6 DEF EngineAfter
  <2>2. r = WithStack(Machine, rest)
    BY <1>1 DEF Popped, WithStack
  <2>3. /\ DOMAIN rest = 1..(Len(estack) - 1) /\ \A i \in DOMAIN rest : rest[i] = estack[i + 1]
        /\ DOMAIN estack = 1..Len(estack)
    BY <1>1
  <2>4. \A i \in DOMAIN rest : g[i] = i + 1
    OBVIOUS
  <2> HIDE DEF rest, g
  <2>5. Drawn(estack, rest, g) /\ 0 \notin DOMAIN rest
    BY <1>1, <2>3, <2>4 DEF Drawn
  <2>6. Sole(r)
    BY <1>1, <2>2, <2>5, DrawnSole
  <2> QED BY <2>1, <2>6 DEF Owned
<1>7. CASE op = "Runtime.Platform"
  <2>1. EngineAfter(op) = PushedBytes(Machine, <<78, 69, 79>>)
    BY <1>7 DEF EngineAfter
  <2> QED BY <1>1, <2>1, PushedBytesSole DEF Owned
<1>8. CASE op = "Transaction.GetHash"
  <2> DEFINE x == PushedBytes(r, estack[1].hash)
  <2>1. EngineAfter(op) = Ok(Is(1, "tx"), x)
    BY <1>8 DEF EngineAfter
  <2>2. Is(1, "tx") => Sole(x)
    BY TookOwners, PushedBytesSole
  <2> HIDE DEF x
  <2> QED BY <2>1, <2>2, OkSole
<1> QED BY <1>2, <1>3, <1>4, <1>5, <1>6, <1>7, <1>8 DEF EngineOps

-----------------------------------------------------------------------------
(* Items as bytes                                                          *)

LEMMA SerializeSole ==
  ASSUME SoundInv, Sole(Machine), Room(mem), NEW bytes, NEW spare
  PROVE  Owned(SerializeAfter(bytes, spare))
<1> DEFINE r == Popped(Machine, 1)
           x == PushedStored(Stored(r, bytes, spare))
           cond == Len(estack) >= 1 /\ Serializable(estack[1]) /\ Len(bytes) <= MaxItemSize
<1>1. SerializeAfter(bytes, spare) = Ok(cond, x)
  BY DEF SerializeAfter
<1>2. ASSUME cond PROVE Sole(x)
  <2>1. 1 \in 0..Len(estack)
    BY <1>2, TheMachine
  <2>2. Sound(r) /\ Sole(r) /\ r.mem = mem
    BY <2>1, PoppedMachine, PoppedOwner
  <2> HIDE DEF r
  <2> QED BY <2>2, PushedStoredSole
<1> HIDE DEF cond, x
<1> QED BY <1>1, <1>2, OkSole

\* What owns a cell is at the address it was put at.
LEMMA LiteralAt ==
  ASSUME NEW literal \in Literals, NEW a, Owner(ItemOf(literal, a))
  PROVE  ItemOf(literal, a).at = a
<1>1. CASE literal \in {"int"} \X Int
  BY <1>1 DEF ItemOf, IntAt
<1>2. CASE literal \in {"bytes"} \X Seq(Byte)
  BY <1>2 DEF ItemOf, SliceOf
<1>3. CASE literal \in {"item"} \X ([is : {"bool"}, b : BOOLEAN] \union Interop)
  BY <1>3 DEF ItemOf, Interop, Owner
<1> QED BY <1>1, <1>2, <1>3 DEF Literals, Leaves

LEMMA PartAtIs ==
  ASSUME NEW parts \in Deserialized, NEW at, NEW i \in DOMAIN parts, Owner(PartItem(parts, at, i))
  PROVE  PartItem(parts, at, i).at = at[i]
<1>1. CASE IsList(parts[i])
  <2>1. PartItem(parts, at, i) = ListAt(at[i])
    BY <1>1 DEF PartItem
  <2>2. ~Owner(ListAt(at[i]))
    BY DEF ListAt, Owner
  <2> QED BY <2>1, <2>2
<1>2. CASE ~IsList(parts[i])
  <2>1. PartItem(parts, at, i) = ItemOf(parts[i], at[i]) /\ parts[i] \in Literals
    BY <1>2, PartIs DEF PartItem
  <2> QED BY <2>1, LiteralAt
<1> QED BY <1>1, <1>2

\* The lists in memory are those there were, and those of the parts.
LEMMA FilledLists ==
  ASSUME SoundInv, NEW parts \in Deserialized, NEW at \in Placements(parts),
         NEW a \in Addresses, Filled(parts, at)[a].holds \in ListKinds
  PROVE  \/ mem[a].holds \in ListKinds /\ Filled(parts, at)[a] = mem[a]
         \/ \E i \in DOMAIN parts :
              /\ a = at[i] /\ IsList(parts[i])
              /\ Filled(parts, at)[a].items
                   = [j \in DOMAIN parts[i][2] |-> PartItem(parts, at, parts[i][2][j])]
<1> DEFINE c == Filled(parts, at)
<1>1. CASE ~\E i \in DOMAIN parts : at[i] = a
  <2>1. c[a] = mem[a]
    BY <1>1 DEF Filled
  <2> QED BY <2>1
<1>2. CASE \E i \in DOMAIN parts : at[i] = a
  <2>1. PICK i \in DOMAIN parts : at[i] = a
    BY <1>2
  <2>2. c[a] = PartCell(parts, at, i)
    BY <2>1, FilledIs
  <2> HIDE DEF c
  <2>3. ASSUME ~IsList(parts[i]) PROVE FALSE
    <3>1. parts[i] \in Literals /\ c[a] = CellOf(parts[i])
      BY <2>2, <2>3, PartIs DEF PartCell
    <3>2. c[a].holds \in ListKinds
      BY DEF c
    <3> QED BY <3>1, <3>2, LiteralCell
  <2> DEFINE items == [j \in DOMAIN parts[i][2] |-> PartItem(parts, at, parts[i][2][j])]
  <2>4. c[a] = ListCell(parts[i][1], items)
    BY <2>2, <2>3 DEF PartCell
  <2> HIDE DEF items
  <2>5. c[a].items = items
    BY <2>4 DEF ListCell
  <2> QED BY <2>1, <2>3, <2>5 DEF items, c
<1> QED BY <1>1, <1>2

\* A part is in one list, at one place.
LEMMA NestedOnce ==
  ASSUME NEW parts \in Deserialized,
         NEW i \in DOMAIN parts, IsList(parts[i]), NEW j \in DOMAIN parts[i][2],
         NEW g \in DOMAIN parts, IsList(parts[g]), NEW h \in DOMAIN parts[g][2],
         parts[i][2][j] = parts[g][2][h]
  PROVE  i = g /\ j = h
<1>1. <<i, j>> \in Nested(parts) /\ <<g, h>> \in Nested(parts)
  BY DEF Nested
<1>2. <<i, j>>[1] = i /\ <<i, j>>[2] = j /\ <<g, h>>[1] = g /\ <<g, h>>[2] = h
  OBVIOUS
<1>3. <<i, j>> = <<g, h>>
  BY <1>1, <1>2, DeserializedAssumption
<1> QED BY <1>2, <1>3

\* Each part has one place: the first is on the stack, another in one list.
LEMMA DeserializeSole ==
  ASSUME SoundInv, Sole(Machine), NEW parts \in Deserialized, Placements(parts) # {}
  PROVE  Owned(DeserializeAfter(parts))
<1> DEFINE at == CHOOSE f \in Placements(parts) : TRUE
           c == Filled(parts, at)
           r == Popped(Machine, 1)
           y == WithMem(r, c)
           item(i) == PartItem(parts, at, i)
           x == Pushed(y, item(1))
<1>1. DeserializeAfter(parts) = Ok(Primitives(1), x)
  BY DEF DeserializeAfter, WithMem
<1>2. at \in Placements(parts)
  OBVIOUS
<1> HIDE DEF at
<1>3. /\ 1 \in DOMAIN parts
      /\ \A i \in DOMAIN parts : IsList(parts[i]) =>
           \A j \in DOMAIN parts[i][2] :
             parts[i][2][j] \in DOMAIN parts /\ parts[i][2][j] # 1
  <2>1. parts \in Seq(Leaves \union (ListKinds \X Seq(Nat))) /\ parts # <<>>
    BY DeserializedAssumption
  <2>2. DOMAIN parts = 1..Len(parts) /\ Len(parts) \in Nat /\ 1 \in DOMAIN parts
    BY <2>1
  <2>3. ASSUME NEW i \in DOMAIN parts, IsList(parts[i]), NEW j \in DOMAIN parts[i][2]
        PROVE  parts[i][2][j] \in DOMAIN parts /\ parts[i][2][j] # 1
    <3>1. parts[i][2][j] \in 2..Len(parts)
      BY <2>3, PartIs
    <3> QED BY <2>2, <3>1
  <2> QED BY <2>2, <2>3
<1>4. ASSUME Primitives(1) PROVE Sole(x)
  <2>1. Sound(r) /\ Sole(r) /\ r.mem = mem
    BY <1>4, TakenOwners
  <2>2. Whole(r) /\ r.estack \in Seq(Values(mem)) /\ Len(r.estack) \in Nat
    BY <2>1, SoundParts
  <2>3. /\ Whole(y) /\ y.mem = c /\ y.estack = r.estack /\ y.astack = r.astack
        /\ y.storage = r.storage /\ y.lent = r.lent
    BY <2>2, WithMemIs
  <2> HIDE DEF y, r
  <2>4. SameElse(y, x) /\ x.estack = <<item(1)>> \o r.estack
    BY <2>3, PushedIs
  <2> HIDE DEF x
  <2>5. /\ DOMAIN x.estack = 1..(Len(r.estack) + 1) /\ x.estack[1] = item(1)
        /\ \A i \in 2..(Len(r.estack) + 1) : x.estack[i] = r.estack[i - 1] /\ i - 1 \in DOMAIN r.estack
    BY <2>2, <2>4, OnTop
  <2>6. /\ x.astack = r.astack /\ x.storage = r.storage /\ r.lent \subseteq x.lent
        /\ Lists(x) = Lists(y) /\ \A a \in Lists(y) : x.mem[a].items = c[a].items
    BY <2>3, <2>4 DEF SameElse, SameLists
  \* A place of x keeps what a place of r keeps, or part k.
  <2> DEFINE WasAt(s, u) == /\ u \in Slots(r) /\ In(r, u) = In(x, s)
                            /\ \/ u = s /\ s[1] # "estack"
                               \/ \E i \in 2..(Len(r.estack) + 1) :
                                    s = <<"estack", i>> /\ u = <<"estack", i - 1>>
             IsPart(s, k) == /\ k \in DOMAIN parts /\ In(x, s) = item(k)
                             /\ \/ s = <<"estack", 1>> /\ k = 1
                                \/ \E i \in DOMAIN parts :
                                     /\ IsList(parts[i])
                                     /\ \E j \in DOMAIN parts[i][2] :
                                          s = <<"list", at[i], j>> /\ k = parts[i][2][j]
  <2>7. ASSUME NEW s \in Slots(x)
        PROVE  (\E u : WasAt(s, u)) \/ (\E k : IsPart(s, k))
    <3>1. ASSUME NEW i \in DOMAIN x.estack, s = <<"estack", i>>
          PROVE  (\E u : WasAt(s, u)) \/ (\E k : IsPart(s, k))
      <4>1. In(x, s) = x.estack[i]
        BY <3>1, InIs
      <4>2. CASE i = 1
        <5>1. IsPart(s, 1)
          BY <1>3, <2>5, <3>1, <4>1, <4>2
        <5> QED BY <5>1
      <4>3. CASE i # 1
        <5>1. i \in 2..(Len(r.estack) + 1)
          BY <2>2, <2>5, <4>3
        <5>2. WasAt(s, <<"estack", i - 1>>)
          BY <2>5, <3>1, <4>1, <5>1, Places
        <5> QED BY <5>2
      <4> QED BY <4>2, <4>3
    <3>2. ASSUME NEW a \in Lists(x), NEW j \in DOMAIN x.mem[a].items, s = <<"list", a, j>>
          PROVE  (\E u : WasAt(s, u)) \/ (\E k : IsPart(s, k))
      <4>1. a \in Addresses /\ c[a].holds \in ListKinds /\ x.mem[a].items = c[a].items
        BY <2>3, <2>6 DEF Lists
      <4>2. In(x, s) = c[a].items[j] /\ j \in DOMAIN c[a].items
        BY <3>2, <4>1, InIs
      <4>3. CASE mem[a].holds \in ListKinds /\ c[a] = mem[a]
        <5>1. a \in Lists(r) /\ j \in DOMAIN r.mem[a].items /\ r.mem[a].items[j] = In(x, s)
          BY <2>1, <4>1, <4>2, <4>3 DEF Lists
        <5>2. s \in Slots(r) /\ In(r, s) = In(x, s)
          BY <3>2, <5>1, Places
        <5>3. s[1] # "estack"
          BY <3>2
        <5>4. WasAt(s, s)
          BY <5>2, <5>3
        <5> QED BY <5>4
      <4>4. CASE \E i \in DOMAIN parts :
                   /\ a = at[i] /\ IsList(parts[i])
                   /\ c[a].items = [k \in DOMAIN parts[i][2] |-> item(parts[i][2][k])]
        <5>1. PICK i \in DOMAIN parts :
                   /\ a = at[i] /\ IsList(parts[i])
                   /\ c[a].items = [k \in DOMAIN parts[i][2] |-> item(parts[i][2][k])]
          BY <4>4
        <5> HIDE DEF item
        <5>2. j \in DOMAIN parts[i][2] /\ In(x, s) = item(parts[i][2][j])
          BY <4>2, <5>1
        <5>3. IsPart(s, parts[i][2][j])
          BY <1>3, <3>2, <5>1, <5>2
        <5> QED BY <5>3
      <4> HIDE DEF WasAt, IsPart
      <4> QED BY <1>2, <4>1, <4>3, <4>4, FilledLists DEF c, item
    <3>3. CASE s[1] \in {"astack", "storage"}
      <4>1. s \in Slots(r) /\ In(r, s) = In(x, s)
        BY <2>6, <3>3, SlotIs, InIs, Places
      <4>2. WasAt(s, s)
        BY <3>3, <4>1
      <4> QED BY <4>2
    <3> HIDE DEF WasAt, IsPart
    <3> QED BY <3>1, <3>2, <3>3, SlotIs
  <2> HIDE DEF item
  <2>8. ASSUME NEW s, NEW k, IsPart(s, k), Owner(In(x, s))
        PROVE  In(x, s).at = at[k] /\ mem[at[k]] = Free /\ k \in DOMAIN parts
    <3>1. k \in DOMAIN parts /\ In(x, s) = item(k)
      BY <2>8
    <3> HIDE DEF IsPart
    <3> QED BY <1>2, <2>8, <3>1, PartAtIs, PlacementIs DEF item
  <2>9. ASSUME NEW s, NEW u, WasAt(s, u), Owner(In(x, s))
        PROVE  u \in Slots(r) /\ In(r, u) = In(x, s) /\ mem[In(x, s).at] # Free
    <3>1. u \in Slots(r) /\ In(r, u) = In(x, s)
      BY <2>9
    <3> QED BY <2>1, <2>9, <3>1, OwnsSomething
  \* Two places of x are of two places of r, or keep two parts.
  <2>10. ASSUME NEW s, NEW t, NEW u, WasAt(s, u), WasAt(t, u) PROVE s = t
    <3>1. CASE u[1] = "estack"
      <4>1. PICK i \in 2..(Len(r.estack) + 1) : s = <<"estack", i>> /\ u = <<"estack", i - 1>>
        BY <2>10, <3>1
      <4>2. PICK j \in 2..(Len(r.estack) + 1) : t = <<"estack", j>> /\ u = <<"estack", j - 1>>
        BY <2>10, <3>1
      <4>3. i - 1 = j - 1
        BY <4>1, <4>2
      <4> QED BY <2>2, <4>1, <4>2, <4>3
    <3>2. CASE u[1] # "estack"
      BY <2>10, <3>2
    <3> QED BY <3>1, <3>2
  <2>11. ASSUME NEW s, NEW t, NEW k, IsPart(s, k), IsPart(t, k) PROVE s = t
    <3>1. CASE k = 1
      BY <1>3, <2>11, <3>1
    <3>2. CASE k # 1
      <4>1. PICK i \in DOMAIN parts : /\ IsList(parts[i])
                                      /\ \E j \in DOMAIN parts[i][2] :
                                           s = <<"list", at[i], j>> /\ k = parts[i][2][j]
        BY <2>11, <3>2
      <4>2. PICK j \in DOMAIN parts[i][2] : s = <<"list", at[i], j>> /\ k = parts[i][2][j]
        BY <4>1
      <4>3. PICK g \in DOMAIN parts : /\ IsList(parts[g])
                                      /\ \E h \in DOMAIN parts[g][2] :
                                           t = <<"list", at[g], h>> /\ k = parts[g][2][h]
        BY <2>11, <3>2
      <4>4. PICK h \in DOMAIN parts[g][2] : t = <<"list", at[g], h>> /\ k = parts[g][2][h]
        BY <4>3
      <4>5. /\ IsList(parts[i]) /\ j \in DOMAIN parts[i][2]
            /\ IsList(parts[g]) /\ h \in DOMAIN parts[g][2]
            /\ parts[i][2][j] = parts[g][2][h]
        BY <4>1, <4>2, <4>3, <4>4
      <4>6. i = g /\ j = h
        BY <4>5, NestedOnce, Zenon
      <4> QED BY <4>2, <4>4, <4>6
    <3> QED BY <3>1, <3>2
  <2> HIDE DEF WasAt, IsPart
  <2>12. ASSUME NEW s \in Slots(x), NEW t \in Slots(x), s # t, Share(x, s, t)
         PROVE  In(x, s).at \in x.lent
    <3>1. Owner(In(x, s)) /\ Owner(In(x, t)) /\ In(x, s).at = In(x, t).at
      BY <2>12 DEF Share
    <3>2. ASSUME NEW u, WasAt(s, u), NEW v, WasAt(t, v) PROVE In(x, s).at \in x.lent
      <4>1. u # v
        BY <2>10, <2>12, <3>2
      <4>2. u \in Slots(r) /\ v \in Slots(r) /\ In(r, u) = In(x, s) /\ In(r, v) = In(x, t)
        BY <2>9, <3>1, <3>2
      <4>3. Share(r, u, v)
        BY <3>1, <4>2 DEF Share
      <4> QED BY <2>1, <2>6, <4>1, <4>2, <4>3 DEF Sole
    <3>3. ASSUME NEW k, IsPart(s, k), NEW l, IsPart(t, l) PROVE FALSE
      <4>1. k # l
        BY <2>11, <2>12, <3>3
      <4>2. at[k] = at[l] /\ k \in DOMAIN parts /\ l \in DOMAIN parts
        BY <2>8, <3>1, <3>3
      <4> QED BY <1>2, <4>1, <4>2, PlacementIs
    <3>4. ASSUME NEW u, WasAt(s, u), NEW k, IsPart(t, k) PROVE FALSE
      BY <2>8, <2>9, <3>1, <3>4
    <3>5. ASSUME NEW u, WasAt(t, u), NEW k, IsPart(s, k) PROVE FALSE
      BY <2>8, <2>9, <3>1, <3>5
    <3> QED BY <2>7, <3>2, <3>3, <3>4, <3>5
  <2> QED BY <2>12 DEF Sole
<1> HIDE DEF x
<1> QED BY <1>1, <1>4, OkSole

-----------------------------------------------------------------------------
(* Steps                                                                   *)

LEMMA SameSlots ==
  ASSUME NEW x, NEW y, x.mem = y.mem, x.estack = y.estack, x.astack = y.astack,
         x.storage = y.storage
  PROVE  Slots(x) = Slots(y) /\ \A s : In(x, s) = In(y, s)
<1>1. Lists(x) = Lists(y)
  BY DEF Lists
<1> QED BY <1>1 DEF Slots, In

\* What goes frees no place of what stays.
LEMMA CollectedSlots ==
  ASSUME NEW m, NEW x, x.mem = Collected(m), x.estack = m.estack, x.astack = m.astack,
         x.storage = m.storage, NEW s \in Slots(x)
  PROVE  s \in Slots(m) /\ In(m, s) = In(x, s)
<1>1. \A a \in Addresses : x.mem[a] = m.mem[a] \/ x.mem[a] = Free
  BY DEF Collected
<1>2. Free.holds \notin ListKinds
  BY DEF Free, ListKinds
<1>3. \A a \in Lists(x) : a \in Lists(m) /\ x.mem[a] = m.mem[a]
  BY <1>1, <1>2 DEF Lists
<1>4. CASE \E i \in DOMAIN x.estack : s = <<"estack", i>>
  BY <1>4, Places
<1>5. CASE \E i \in DOMAIN x.astack : s = <<"astack", i>>
  BY <1>5, Places
<1>6. CASE \E k \in DOMAIN x.storage : s = <<"storage", k>>
  BY <1>6, Places
<1>7. CASE \E a \in Lists(x) : \E i \in DOMAIN x.mem[a].items : s = <<"list", a, i>>
  <2>1. PICK a \in Lists(x) : \E i \in DOMAIN x.mem[a].items : s = <<"list", a, i>>
    BY <1>7
  <2>2. PICK i \in DOMAIN x.mem[a].items : s = <<"list", a, i>>
    BY <2>1
  <2>3. a \in Lists(m) /\ i \in DOMAIN m.mem[a].items /\ m.mem[a].items[i] = x.mem[a].items[i]
    BY <1>3, <2>2
  <2>4. In(x, s) = x.mem[a].items[i]
    BY <2>2, Places
  <2>5. s \in Slots(m) /\ In(m, s) = m.mem[a].items[i]
    BY <2>2, <2>3, Places
  <2> QED BY <2>3, <2>4, <2>5
<1> QED BY <1>4, <1>5, <1>6, <1>7, SlotIs

\* What is no longer lent has one place left.
LEMMA EffectSole ==
  ASSUME NEW m, Sound(m), Sole(m), Effect(m)
  PROVE  Sole(Machine)'
<1> DEFINE x == Machine'
           y == WithMem(m, mem')
<1>1. /\ x.mem = mem' /\ x.estack = estack' /\ x.astack = astack' /\ x.storage = storage'
      /\ x.lent = lent'
  BY DEF Machine
<1>2. /\ mem' = Collected(m) /\ estack' = m.estack /\ astack' = m.astack
      /\ storage' = m.storage /\ lent' = {a \in m.lent : Several(y, a)}
  BY DEF Effect, WithMem
<1>3. y.mem = mem' /\ y.estack = m.estack /\ y.astack = m.astack /\ y.storage = m.storage
  BY WithMemIs DEF Sound
<1> HIDE DEF x, y
<1>4. Slots(y) = Slots(x) /\ \A s : In(y, s) = In(x, s)
  BY <1>1, <1>2, <1>3, SameSlots
<1>5. ASSUME NEW s \in Slots(x), NEW t \in Slots(x), s # t, Share(x, s, t)
      PROVE  In(x, s).at \in x.lent
  <2>1. /\ s \in Slots(m) /\ In(m, s) = In(x, s)
        /\ t \in Slots(m) /\ In(m, t) = In(x, t)
    BY <1>1, <1>2, CollectedSlots
  <2>2. In(x, s).at \in m.lent
    BY <1>5, <2>1 DEF Sole, Share
  <2>3. Refers(y, s, In(x, s).at) /\ Refers(y, t, In(x, s).at)
    BY <1>4, <1>5 DEF Refers, Share, Owner
  <2>4. Several(y, In(x, s).at)
    BY <1>4, <1>5, <2>3 DEF Several
  <2> QED BY <1>1, <1>2, <2>2, <2>4
<1>6. Sole(x)
  BY <1>5 DEF Sole
<1> QED BY <1>6 DEF x

LEMMA NoPlaces ==
  ASSUME NEW m, m.estack = <<>>, m.astack = <<>>, m.storage = <<>>,
         m.mem = [a \in Addresses |-> Free]
  PROVE  Sole(m)
<1>1. Free.holds \notin ListKinds
  BY DEF Free, ListKinds
<1>2. Lists(m) = {}
  BY <1>1 DEF Lists
<1>3. DOMAIN m.estack = {} /\ DOMAIN m.astack = {} /\ DOMAIN m.storage = {}
  OBVIOUS
<1>4. Slots(m) = {}
  BY <1>2, <1>3, SlotIs
<1> QED BY <1>4 DEF Sole

LEMMA FaultSole ==
  ASSUME Fault
  PROVE  Sole(Machine)'
<1> DEFINE x == Machine'
<1>1. /\ x.mem = [a \in Addresses |-> Free] /\ x.estack = <<>> /\ x.astack = <<>>
      /\ x.storage = <<>>
  BY DEF Machine, Fault, Began
<1> HIDE DEF x
<1>2. Sole(x)
  BY <1>1, NoPlaces
<1> QED BY <1>2 DEF x

LEMMA RunsSole ==
  ASSUME NEW op, NEW m, Runs(op, m), Outcome(m), Owned(m)
  PROVE  Sole(Machine)'
<1>1. CASE Fault
  BY <1>1, FaultSole
<1>2. CASE ~Fault
  <2>1. m # Failed /\ Effect(m)
    BY <1>2 DEF Runs
  <2> QED BY <2>1, EffectSole DEF Outcome, Owned
<1> QED BY <1>1, <1>2

LEMMA SoleStep ==
  ASSUME SoundInv, Sole(Machine), kit \in DOMAIN Kits, Next
  PROVE  Sole(Machine)'
<1>1. ASSUME NEW op, NEW m, Runs(op, m) PROVE RoomForTwo(mem) /\ Room(mem)
  BY <1>1, FreeRoom DEF Runs
<1>2. CASE Push
  <2>1. PICK op \in Constants : \E m \in PushAfter(op) : Runs(op, m)
    BY <1>2 DEF Push, Used
  <2>2. PICK m \in PushAfter(op) : Runs(op, m)
    BY <2>1
  <2> QED BY <1>1, <2>2, PushSound, PushSole, RunsSole
<1>3. CASE StackOp
  <2> PICK op \in StackOps : Runs(op, StackAfter(op))
    BY <1>3 DEF StackOp, Used
  <2> QED BY <1>1, StackOpSound, StackOpSole, RunsSole
<1>4. CASE Cat
  <2> PICK grow \in 0..1 : Runs("CAT", CatAfter(grow))
    BY <1>4 DEF Cat, Used
  <2> QED BY <1>1, CatSound, CatSole, RunsSole
<1>5. CASE Splice
  <2> PICK op \in SpliceOps : Runs(op, SpliceAfter(op))
    BY <1>5 DEF Splice, Used
  <2> QED BY <1>1, SpliceSound, SpliceSole, RunsSole
<1>6. CASE ChangeInPlace
  <2> PICK op \in InPlaceOps : Runs(op, InPlaceAfter(op))
    BY <1>6 DEF ChangeInPlace, Used
  <2> QED BY <1>1, InPlaceSound, InPlaceSole, RunsSole
<1>7. CASE \E op \in Used(UnaryOps) : Runs(op, UnaryAfter(op))
  <2> PICK op \in UnaryOps : Runs(op, UnaryAfter(op))
    BY <1>7 DEF Used
  <2> QED BY <1>1, UnarySound, UnarySole, RunsSole
<1>8. CASE \E op \in Used(BinaryOps) : Runs(op, BinaryAfter(op))
  <2> PICK op \in BinaryOps : Runs(op, BinaryAfter(op))
    BY <1>8 DEF Used
  <2> QED BY <1>1, BinarySound, BinarySole, RunsSole
<1>9. CASE UseList
  <2> PICK op \in ListOps : Runs(op, ListAfter(op))
    BY <1>9 DEF UseList, Used
  <2> QED BY <1>1, ListOpSound, ListOpSole, RunsSole
<1>16. CASE UseSerialized
  <2>1. CASE \E op \in Used({"Runtime.Serialize"}), bytes \in Serialized, spare \in 0..1 :
               Runs(op, SerializeAfter(bytes, spare))
    <3>1. PICK op : \E bytes \in Serialized : \E spare \in 0..1 : Runs(op, SerializeAfter(bytes, spare))
      BY <2>1
    <3>2. PICK bytes \in Serialized : \E spare \in 0..1 : Runs(op, SerializeAfter(bytes, spare))
      BY <3>1
    <3>3. PICK spare \in 0..1 : Runs(op, SerializeAfter(bytes, spare))
      BY <3>2
    <3> QED BY <1>1, <3>3, SerializeSound, SerializeSole, RunsSole
  <2>2. CASE \E op \in Used({"Runtime.Deserialize"}) : Runs(op, Failed)
    BY <2>2, RunsSole DEF Outcome, Owned
  <2>3. CASE \E op \in Used({"Runtime.Deserialize"}) :
               \E parts \in Deserialized : Placements(parts) # {} /\ Runs(op, DeserializeAfter(parts))
    <3>1. PICK op : \E parts \in Deserialized :
                     Placements(parts) # {} /\ Runs(op, DeserializeAfter(parts))
      BY <2>3
    <3>2. PICK parts \in Deserialized : Placements(parts) # {} /\ Runs(op, DeserializeAfter(parts))
      BY <3>1
    <3> QED BY <3>2, DeserializeSound, DeserializeSole, RunsSole
  <2> QED BY <1>16, <2>1, <2>2, <2>3 DEF UseSerialized
<1>10. CASE UseStorage
  <2>1. CASE \E op \in Used(StorageOps), answers \in BOOLEAN : Runs(op, StorageAfter(op, answers))
    <3> PICK op \in StorageOps, answers \in BOOLEAN : Runs(op, StorageAfter(op, answers))
      BY <2>1 DEF Used
    <3> QED BY <1>1, StorageOpSound, StorageOpSole, RunsSole
  <2>2. CASE \E op \in Used(ContextOps) : Runs(op, ContextAfter(op))
    <3> PICK op \in ContextOps : Runs(op, ContextAfter(op))
      BY <2>2 DEF Used
    <3> QED BY ContextOpSound, ContextOpSole, RunsSole
  <2> QED BY <1>10, <2>1, <2>2 DEF UseStorage
<1>11. CASE AskForBlock
  <2>1. CASE \E op \in Used(DOMAIN ChainOps) :
               \E answer \in {NoAnswer} \union {a \in Answers : a.is = ChainOps[op]} :
                 Runs(op, ChainAfter(op, answer))
    <3>1. PICK op \in DOMAIN ChainOps :
                 \E answer \in {NoAnswer} \union {a \in Answers : a.is = ChainOps[op]} :
                   Runs(op, ChainAfter(op, answer))
      BY <2>1 DEF Used
    <3>2. PICK answer \in {NoAnswer} \union {a \in Answers : a.is = ChainOps[op]} :
                 Runs(op, ChainAfter(op, answer))
      BY <3>1
    <3> QED BY <1>1, <3>2, ChainOpSound, ChainOpSole, RunsSole
  <2>2. CASE \E op \in Used(TransactionOps) : Runs(op, Failed)
    <3> PICK op \in TransactionOps : Runs(op, Failed)
      BY <2>2 DEF Used
    <3> QED BY RunsSole DEF Outcome, Owned
  <2> QED BY <1>11, <2>1, <2>2 DEF AskForBlock
<1>12. CASE UseBlock
  <2>1. CASE \E op \in Used(BlockOps) : Runs(op, BlockAfter(op))
    <3> PICK op \in BlockOps : Runs(op, BlockAfter(op))
      BY <2>1 DEF Used
    <3> QED BY <1>1, BlockSound, BlockSole, RunsSole
  <2>2. CASE \E op \in Used(HeaderOps) : Runs(op, HeaderAfter(op))
    <3> PICK op \in HeaderOps : Runs(op, HeaderAfter(op))
      BY <2>2 DEF Used
    <3> QED BY <1>1, HeaderSound, HeaderSole, RunsSole
  <2> QED BY <1>12, <2>1, <2>2 DEF UseBlock
<1>13. CASE AskEngine
  <2> PICK op \in EngineOps : Runs(op, EngineAfter(op))
    BY <1>13 DEF AskEngine, Used
  <2> QED BY <1>1, EngineSound, EngineSole, RunsSole
<1>14. CASE CallStub
  <2> PICK op \in Calls(Stubs) : Runs(op, Machine)
    BY <1>14 DEF CallStub, Used
  <2> QED BY RunsSole DEF Outcome, Owned, SoundInv
<1>15. CASE CallUnknown
  <2> PICK op : Runs(op, Failed)
    BY <1>15 DEF CallUnknown, Used
  <2> QED BY RunsSole DEF Outcome, Owned
<1> QED BY <1>2, <1>3, <1>4, <1>5, <1>6, <1>7, <1>8, <1>9, <1>10, <1>11, <1>12, <1>13, <1>14, <1>15,
         <1>16 DEF Next, Compute

\* What earlier instructions left is each at an address of its own.
LEMMA SoleInit ==
  ASSUME Init
  PROVE  Sole(Machine)
<1> DEFINE x == Machine
           left == Kits[kit].stack
<1>1. /\ x.mem = mem /\ x.estack = estack /\ x.astack = astack /\ x.storage = storage
  BY DEF Machine
<1>2. left \in Seq(Literals)
  BY KitsAssumption DEF Init
<1>3. /\ mem = [a \in Addresses |-> IF a \in DOMAIN left THEN CellOf(left[a]) ELSE Free]
      /\ estack = [i \in DOMAIN left |-> ItemOf(left[i], i)]
      /\ astack = <<>> /\ storage = <<>>
  BY DEF Init
<1> HIDE DEF x, left
<1>4. \A i \in DOMAIN left : left[i] \in Literals
  BY <1>2
<1>5. Free.holds \notin ListKinds
  BY DEF Free, ListKinds
<1>6. Lists(x) = {}
  BY <1>1, <1>3, <1>4, <1>5, LiteralCell DEF Lists
<1>7. DOMAIN astack = {} /\ DOMAIN storage = {}
  BY <1>3
<1>8. ASSUME NEW s \in Slots(x)
      PROVE  \E i \in DOMAIN left : s = <<"estack", i>>
  BY <1>1, <1>3, <1>6, <1>7, SlotIs
<1>9. \A i \in DOMAIN left : Owner(ItemOf(left[i], i)) => ItemOf(left[i], i).at = i
  BY <1>4, LiteralAt
<1>10. ASSUME NEW s \in Slots(x), NEW t \in Slots(x), s # t, Share(x, s, t)
       PROVE  FALSE
  <2>1. PICK i \in DOMAIN left : s = <<"estack", i>>
    BY <1>8
  <2>2. PICK j \in DOMAIN left : t = <<"estack", j>>
    BY <1>8
  <2>3. In(x, s) = ItemOf(left[i], i) /\ In(x, t) = ItemOf(left[j], j)
    BY <1>1, <1>3, <2>1, <2>2, InIs
  <2>4. i = j
    BY <1>9, <1>10, <2>3 DEF Share
  <2> QED BY <1>10, <2>1, <2>2, <2>4
<1>11. Sole(x)
  BY <1>10 DEF Sole
<1> QED BY <1>11 DEF x

\* The inductive invariant.
SoleInv == IInv /\ Sole(Machine)

LEMMA SoleInvInit == Init => SoleInv
BY InvInit, SoleInit DEF SoleInv

LEMMA SoleInvStep == SoleInv /\ [Next]_vars => SoleInv'
<1> SUFFICES ASSUME SoleInv, [Next]_vars PROVE SoleInv'
  OBVIOUS
<1>1. IInv'
  BY InvStep DEF SoleInv
<1>2. CASE Next
  <2>1. SoundInv /\ kit \in DOMAIN Kits /\ Sole(Machine)
    BY DEF SoleInv, IInv
  <2>2. Sole(Machine)'
    BY <1>2, <2>1, SoleStep
  <2> QED BY <1>1, <2>2 DEF SoleInv
<1>3. CASE UNCHANGED vars
  <2>1. Machine' = Machine
    BY <1>3 DEF vars, Machine
  <2>2. Sole(Machine)' <=> Sole(Machine)
    BY <2>1 DEF Sole
  <2> QED BY <1>1, <2>2 DEF SoleInv
<1> QED BY <1>2, <1>3

\* A number or an array of bytes that INVERT, NEGATE, ABS or CAT may change where
\* it is has no second place that leads to it, but if UNPACK, a list made of a
\* list or storage handed it out while they kept it, whatever the script
\* (stack_item.go, vm.go).
THEOREM OneOwner == Spec => []SoleOwner
<1>1. Init => SoleInv
  BY SoleInvInit
<1>2. SoleInv /\ [Next]_vars => SoleInv'
  BY SoleInvStep
<1>3. SoleInv => SoleOwner
  <2> SUFFICES ASSUME SoleInv, NEW s \in Slots(Machine), NEW t \in Slots(Machine),
                      s # t, Owns(s), Refers(Machine, t, In(Machine, s).at)
               PROVE  In(Machine, s).at \in lent
    BY DEF SoleOwner
  <2>1. Share(Machine, s, t)
    BY DEF Owns, Refers, Share, Owner
  <2>2. Machine.lent = lent
    BY DEF Machine
  <2> QED BY <2>1, <2>2 DEF SoleInv, Sole
<1> QED BY <1>1, <1>2, <1>3, PTL DEF Spec
=============================================================================
