------------------------------- MODULE HostProofs -------------------------------
(***************************************************************************)
(* Whatever instructions a script is made of: nothing on its stacks or in  *)
(* its storage points at what is not there, storage keeps what was put in  *)
(* it, and what a script goes on after has been paid for.                  *)
(*                                                                         *)
(* The inductive invariant Sound is about a machine, so that it can be     *)
(* followed through the parts of an instruction, each of which makes a     *)
(* machine of a machine.                                                   *)
(***************************************************************************)
EXTENDS Host, NumbersProofs, FiniteSetTheorems

Cells ==
  {Free} \union [holds : {"int"}, n : Int] \union [holds : {"bytes"}, bytes : Seq(Byte)]
    \union [holds : ListKinds, items : Seq(Items)]
Memory == [Addresses -> Cells]
\* The items that point, if at all, at what they should.
Values(cells) == {item \in Items : Fitting(cells, item)}
Slices(cells) == {item \in Values(cells) : item.is = "bytes"}

Whole(m) ==
  m = [mem |-> m.mem, estack |-> m.estack, astack |-> m.astack, storage |-> m.storage,
       written |-> m.written, spoilt |-> m.spoilt, lent |-> m.lent]
ListsSound(cells) ==
  \A a \in Addresses : cells[a].holds \in ListKinds => cells[a].items \in Seq(Values(cells))
Kept(m) ==
  /\ DOMAIN m.written \subseteq DOMAIN m.storage
  /\ \A k \in DOMAIN m.storage \ m.spoilt :
       BytesOf(m, m.storage[k]) = IF k \in DOMAIN m.written THEN m.written[k] ELSE NodeHas(k)
Sound(m) ==
  /\ Whole(m)
  /\ m.mem \in Memory /\ ListsSound(m.mem)
  /\ m.estack \in Seq(Values(m.mem)) /\ m.astack \in Seq(Values(m.mem))
  /\ \A k \in DOMAIN m.storage : m.storage[k] \in Slices(m.mem)
  /\ Kept(m)
SoundInv == Sound(Machine)

-----------------------------------------------------------------------------
(* Memory                                                                  *)

\* d has all that c has, and perhaps something where c has nothing.
Grows(c, d) == \A a \in Addresses : c[a] # Free => d[a] = c[a]

LEMMA HoldsSomething ==
  ASSUME NEW c \in Memory, NEW item \in Values(c), item.is \in {"int", "bytes", "list"}
  PROVE  item.at \in Addresses /\ c[item.at] # Free
<1>1. item.at \in Addresses
  BY DEF Values, Items, Interop
<1>2. c[item.at].holds \in {"int", "bytes"} \union ListKinds
  BY DEF Values, Fitting
<1>3. Free.holds = "nothing" /\ "nothing" \notin {"int", "bytes"} \union ListKinds
  BY DEF Free, ListKinds
<1> QED BY <1>1, <1>2, <1>3

LEMMA ValuesGrow ==
  ASSUME NEW c \in Memory, NEW d \in Memory, Grows(c, d)
  PROVE  Values(c) \subseteq Values(d)
<1> SUFFICES ASSUME NEW item \in Values(c) PROVE Fitting(d, item)
  BY DEF Values
<1>1. item.is \in {"int", "bytes", "list"} => d[item.at] = c[item.at]
  BY HoldsSomething DEF Grows
<1>2. Fitting(c, item)
  BY DEF Values
<1> QED BY <1>1, <1>2 DEF Fitting

LEMMA InMoreValues ==
  ASSUME NEW S, NEW T, S \subseteq T, NEW s \in Seq(S)
  PROVE  s \in Seq(T)
OBVIOUS

\* A machine of another memory, stack or storage.
WithStack(m, v) == [m EXCEPT !.estack = v]
WithAlt(m, v) == [m EXCEPT !.astack = v]
WithStorage(m, v) == [m EXCEPT !.storage = v]
WithLent(m, v) == [m EXCEPT !.lent = v]
Put(c, a, cell) == [c EXCEPT ![a] = cell]
WithCell(m, a, cell) == [m EXCEPT !.mem[a] = cell]

LEMMA WithStackIs ==
  ASSUME NEW m, Whole(m), NEW v
  PROVE  /\ Whole(WithStack(m, v))
         /\ WithStack(m, v).mem = m.mem
         /\ WithStack(m, v).estack = v
         /\ WithStack(m, v).astack = m.astack
         /\ WithStack(m, v).storage = m.storage
         /\ WithStack(m, v).written = m.written
         /\ WithStack(m, v).spoilt = m.spoilt
         /\ WithStack(m, v).lent = m.lent
BY DEF Whole, WithStack

LEMMA WithAltIs ==
  ASSUME NEW m, Whole(m), NEW v
  PROVE  /\ Whole(WithAlt(m, v))
         /\ WithAlt(m, v).mem = m.mem
         /\ WithAlt(m, v).estack = m.estack
         /\ WithAlt(m, v).astack = v
         /\ WithAlt(m, v).storage = m.storage
         /\ WithAlt(m, v).written = m.written
         /\ WithAlt(m, v).spoilt = m.spoilt
         /\ WithAlt(m, v).lent = m.lent
BY DEF Whole, WithAlt

LEMMA WithStorageIs ==
  ASSUME NEW m, Whole(m), NEW v
  PROVE  /\ Whole(WithStorage(m, v))
         /\ WithStorage(m, v).mem = m.mem
         /\ WithStorage(m, v).estack = m.estack
         /\ WithStorage(m, v).astack = m.astack
         /\ WithStorage(m, v).storage = v
         /\ WithStorage(m, v).written = m.written
         /\ WithStorage(m, v).spoilt = m.spoilt
         /\ WithStorage(m, v).lent = m.lent
BY DEF Whole, WithStorage

LEMMA WithLentIs ==
  ASSUME NEW m, Whole(m), NEW v
  PROVE  /\ Whole(WithLent(m, v))
         /\ WithLent(m, v).mem = m.mem
         /\ WithLent(m, v).estack = m.estack
         /\ WithLent(m, v).astack = m.astack
         /\ WithLent(m, v).storage = m.storage
         /\ WithLent(m, v).written = m.written
         /\ WithLent(m, v).spoilt = m.spoilt
         /\ WithLent(m, v).lent = v
BY DEF Whole, WithLent

LEMMA WithCellIs ==
  ASSUME NEW m, Whole(m), NEW a, NEW cell
  PROVE  /\ Whole(WithCell(m, a, cell))
         /\ WithCell(m, a, cell).mem = Put(m.mem, a, cell)
         /\ WithCell(m, a, cell).estack = m.estack
         /\ WithCell(m, a, cell).astack = m.astack
         /\ WithCell(m, a, cell).storage = m.storage
         /\ WithCell(m, a, cell).written = m.written
         /\ WithCell(m, a, cell).spoilt = m.spoilt
         /\ WithCell(m, a, cell).lent = m.lent
BY DEF Whole, WithCell, Put

WithMem(m, v) == [m EXCEPT !.mem = v]
LEMMA WithMemIs ==
  ASSUME NEW m, Whole(m), NEW v
  PROVE  /\ Whole(WithMem(m, v))
         /\ WithMem(m, v).mem = v
         /\ WithMem(m, v).estack = m.estack
         /\ WithMem(m, v).astack = m.astack
         /\ WithMem(m, v).storage = m.storage
         /\ WithMem(m, v).written = m.written
         /\ WithMem(m, v).spoilt = m.spoilt
         /\ WithMem(m, v).lent = m.lent
BY DEF Whole, WithMem

LEMMA WroteWith ==
  ASSUME NEW m, Whole(m), NEW k, NEW bytes, NEW x, x = Wrote(m, k, bytes)
  PROVE  /\ Whole(x) /\ x.mem = m.mem /\ x.estack = m.estack /\ x.astack = m.astack
         /\ x.storage = m.storage /\ x.written = With(m.written, k, bytes)
         /\ x.spoilt = m.spoilt \ {k}
<1>1. Whole(x)
  BY DEF Whole, Wrote
<1>2. x.mem = m.mem /\ x.estack = m.estack
  BY DEF Whole, Wrote
<1>3. x.astack = m.astack /\ x.storage = m.storage
  BY DEF Whole, Wrote
<1>4. x.written = With(m.written, k, bytes)
  BY DEF Whole, Wrote
<1>5. x.spoilt = m.spoilt \ {k}
  BY DEF Whole, Wrote
<1> QED BY <1>1, <1>2, <1>3, <1>4, <1>5

\* A machine that goes on from another, with the same storage.
Follows(m, x) ==
  /\ Whole(x) /\ x.mem \in Memory /\ ListsSound(x.mem) /\ Grows(m.mem, x.mem)
  /\ x.storage = m.storage /\ x.written = m.written /\ x.spoilt = m.spoilt

\* The bytes of a slice stay what they are when the memory grows.
LEMMA BytesStay ==
  ASSUME NEW m, NEW x, m.mem \in Memory, Grows(m.mem, x.mem), NEW slice \in Slices(m.mem)
  PROVE  BytesOf(x, slice) = BytesOf(m, slice)
<1>1. slice \in Values(m.mem) /\ slice.is = "bytes"
  BY DEF Slices
<1>2. slice.at \in Addresses /\ m.mem[slice.at] # Free
  BY <1>1, HoldsSomething
<1>3. x.mem[slice.at] = m.mem[slice.at]
  BY <1>2 DEF Grows
<1> QED BY <1>3 DEF BytesOf

LEMMA FollowsSound ==
  ASSUME NEW m, Sound(m), NEW x, Follows(m, x),
         x.estack \in Seq(Values(x.mem)), x.astack \in Seq(Values(x.mem))
  PROVE  Sound(x)
<1>1. m.mem \in Memory /\ x.mem \in Memory /\ Grows(m.mem, x.mem)
  BY DEF Sound, Follows
<1>2. Values(m.mem) \subseteq Values(x.mem)
  BY <1>1, ValuesGrow
<1>3. \A k \in DOMAIN x.storage : x.storage[k] = m.storage[k] /\ x.storage[k] \in Slices(m.mem)
  BY DEF Sound, Follows
<1>4. \A k \in DOMAIN x.storage : x.storage[k] \in Slices(x.mem)
  BY <1>2, <1>3 DEF Slices
<1>5. \A k \in DOMAIN x.storage : BytesOf(x, x.storage[k]) = BytesOf(m, m.storage[k])
  BY <1>1, <1>3, BytesStay
<1>6. Kept(x)
  <2>1. x.storage = m.storage /\ x.written = m.written /\ x.spoilt = m.spoilt /\ Kept(m)
    BY DEF Sound, Follows
  <2> QED BY <1>5, <2>1 DEF Kept
<1> QED BY <1>4, <1>6 DEF Sound, Follows

LEMMA GrowsSame ==
  ASSUME NEW c
  PROVE  Grows(c, c)
BY DEF Grows

-----------------------------------------------------------------------------
(* Stacks                                                                  *)

LEMMA Restacked ==
  ASSUME NEW m, Sound(m), NEW items \in Seq(Values(m.mem))
  PROVE  /\ Sound(WithStack(m, items))
         /\ WithStack(m, items).mem = m.mem /\ WithStack(m, items).estack = items
         /\ WithStack(m, items).astack = m.astack /\ WithStack(m, items).storage = m.storage
         /\ WithStack(m, items).written = m.written /\ WithStack(m, items).spoilt = m.spoilt
<1> DEFINE x == WithStack(m, items)
<1>1. Whole(m)
  BY DEF Sound
<1>2. /\ Whole(x) /\ x.mem = m.mem /\ x.estack = items /\ x.astack = m.astack
      /\ x.storage = m.storage /\ x.written = m.written /\ x.spoilt = m.spoilt
  BY <1>1, WithStackIs
<1> HIDE DEF x
<1>3. Follows(m, x) /\ x.astack \in Seq(Values(x.mem))
  BY <1>2, GrowsSame DEF Follows, Sound
<1>4. Sound(x)
  BY <1>2, <1>3, FollowsSound
<1> QED BY <1>2, <1>4 DEF x

LEMMA PoppedSound ==
  ASSUME NEW m, Sound(m), NEW n \in 0..Len(m.estack)
  PROVE  /\ Sound(Popped(m, n)) /\ Popped(m, n).mem = m.mem
         /\ Popped(m, n).estack = SubSeq(m.estack, n + 1, Len(m.estack))
         /\ Len(Popped(m, n).estack) = Len(m.estack) - n
         /\ Popped(m, n).astack = m.astack /\ Popped(m, n).storage = m.storage
         /\ Popped(m, n).written = m.written /\ Popped(m, n).spoilt = m.spoilt
<1> DEFINE items == SubSeq(m.estack, n + 1, Len(m.estack))
<1>1. m.estack \in Seq(Values(m.mem)) /\ Len(m.estack) \in Nat
  BY DEF Sound
<1>2. items \in Seq(Values(m.mem)) /\ Len(items) = Len(m.estack) - n
  BY <1>1, SubSeqProperties
<1>3. Popped(m, n) = WithStack(m, items)
  BY DEF Popped, WithStack
<1> HIDE DEF items
<1>4. /\ Sound(Popped(m, n)) /\ Popped(m, n).mem = m.mem /\ Popped(m, n).estack = items
      /\ Popped(m, n).astack = m.astack /\ Popped(m, n).storage = m.storage
      /\ Popped(m, n).written = m.written /\ Popped(m, n).spoilt = m.spoilt
  BY <1>2, <1>3, Restacked
<1> QED BY <1>2, <1>4 DEF items

LEMMA PushedSound ==
  ASSUME NEW m, Sound(m), NEW item \in Values(m.mem)
  PROVE  /\ Sound(Pushed(m, item)) /\ Pushed(m, item).mem = m.mem
         /\ Pushed(m, item).estack = <<item>> \o m.estack
         /\ Pushed(m, item).astack = m.astack /\ Pushed(m, item).storage = m.storage
         /\ Pushed(m, item).written = m.written /\ Pushed(m, item).spoilt = m.spoilt
<1> DEFINE items == <<item>> \o m.estack
<1>1. m.estack \in Seq(Values(m.mem)) /\ <<item>> \in Seq(Values(m.mem))
  BY DEF Sound
<1>2. items \in Seq(Values(m.mem))
  BY <1>1, ConcatProperties
<1>3. Pushed(m, item) = WithStack(m, items)
  BY DEF Pushed, WithStack
<1> HIDE DEF items
<1>4. /\ Sound(Pushed(m, item)) /\ Pushed(m, item).mem = m.mem /\ Pushed(m, item).estack = items
      /\ Pushed(m, item).astack = m.astack /\ Pushed(m, item).storage = m.storage
      /\ Pushed(m, item).written = m.written /\ Pushed(m, item).spoilt = m.spoilt
  BY <1>2, <1>3, Restacked
<1> QED BY <1>4 DEF items

-----------------------------------------------------------------------------
(* New cells                                                               *)

Room(c) == \E a \in Addresses : c[a] = Free
RoomForTwo(c) == \E a, b \in Addresses : a # b /\ c[a] = Free /\ c[b] = Free

\* x goes on from m with more in its memory, and everything else but what is on
\* its evaluation stack as it was.
GoesOn(m, x) ==
  /\ Sound(x) /\ Grows(m.mem, x.mem) /\ Values(m.mem) \subseteq Values(x.mem)
  /\ x.astack = m.astack /\ x.storage = m.storage
  /\ x.written = m.written /\ x.spoilt = m.spoilt

LEMMA NewAtFree ==
  ASSUME NEW m, Room(m.mem)
  PROVE  NewAt(m) \in Addresses /\ m.mem[NewAt(m)] = Free
<1> DEFINE S == FreeCells(m)
<1>1. S \in SUBSET Nat /\ S # {}
  BY BoundsAssumption DEF FreeCells, Room
<1>2. \E x \in S : \A y \in S : x <= y
  BY <1>1, Least
<1>3. NewAt(m) \in S
  BY <1>2 DEF NewAt, Min
<1> QED BY <1>3 DEF FreeCells

LEMMA NewCell ==
  ASSUME NEW m, Sound(m), Room(m.mem), NEW cell \in Cells,
         cell.holds \in ListKinds => cell.items \in Seq(Values(m.mem))
  PROVE  LET x == WithCell(m, NewAt(m), cell)
         IN /\ GoesOn(m, x) /\ x.estack = m.estack
            /\ NewAt(m) \in Addresses /\ x.mem[NewAt(m)] = cell
            /\ RoomForTwo(m.mem) => Room(x.mem)
<1> DEFINE a == NewAt(m)
           x == WithCell(m, a, cell)
<1>1. a \in Addresses /\ m.mem[a] = Free
  BY NewAtFree
<1>2. Whole(m) /\ m.mem \in Memory /\ ListsSound(m.mem)
  BY DEF Sound
<1> HIDE DEF a
<1>3. /\ Whole(x) /\ x.mem = Put(m.mem, a, cell) /\ x.estack = m.estack /\ x.astack = m.astack
      /\ x.storage = m.storage /\ x.written = m.written /\ x.spoilt = m.spoilt
  BY <1>2, WithCellIs
<1> HIDE DEF x
<1>4. x.mem \in Memory /\ x.mem[a] = cell /\ \A b \in Addresses : b # a => x.mem[b] = m.mem[b]
  BY <1>1, <1>2, <1>3 DEF Memory, Put
<1>5. Grows(m.mem, x.mem)
  BY <1>1, <1>4 DEF Grows
<1>6. Values(m.mem) \subseteq Values(x.mem)
  BY <1>2, <1>4, <1>5, ValuesGrow
<1>7. ListsSound(x.mem)
  <2> SUFFICES ASSUME NEW b \in Addresses, x.mem[b].holds \in ListKinds
               PROVE  x.mem[b].items \in Seq(Values(x.mem))
    BY DEF ListsSound
  <2>1. x.mem[b].items \in Seq(Values(m.mem))
    BY <1>2, <1>4 DEF ListsSound
  <2> QED BY <1>6, <2>1, InMoreValues
<1>8. Follows(m, x)
  BY <1>3, <1>4, <1>5, <1>7 DEF Follows
<1>9. m.estack \in Seq(Values(m.mem)) /\ m.astack \in Seq(Values(m.mem))
  BY DEF Sound
<1>10. x.estack \in Seq(Values(x.mem)) /\ x.astack \in Seq(Values(x.mem))
  BY <1>3, <1>6, <1>9, InMoreValues
<1>11. Sound(x)
  BY <1>8, <1>10, FollowsSound
<1>12. RoomForTwo(m.mem) => Room(x.mem)
  BY <1>4 DEF RoomForTwo, Room
<1>13. GoesOn(m, x)
  BY <1>3, <1>5, <1>6, <1>11 DEF GoesOn
<1> QED BY <1>1, <1>3, <1>4, <1>12, <1>13 DEF x, a

LEMMA GoesOnPushed ==
  ASSUME NEW m, NEW x, GoesOn(m, x), NEW item \in Values(x.mem)
  PROVE  /\ GoesOn(m, Pushed(x, item)) /\ Pushed(x, item).mem = x.mem
         /\ Pushed(x, item).estack = <<item>> \o x.estack
<1>1. Sound(x)
  BY DEF GoesOn
<1>2. /\ Sound(Pushed(x, item)) /\ Pushed(x, item).mem = x.mem
      /\ Pushed(x, item).astack = x.astack /\ Pushed(x, item).storage = x.storage
      /\ Pushed(x, item).written = x.written /\ Pushed(x, item).spoilt = x.spoilt
      /\ Pushed(x, item).estack = <<item>> \o x.estack
  BY <1>1, PushedSound
<1> QED BY <1>2 DEF GoesOn

LEMMA PushedIntSound ==
  ASSUME NEW m, Sound(m), Room(m.mem), NEW n \in Int
  PROVE  GoesOn(m, PushedInt(m, n))
<1> DEFINE a == NewAt(m)
           x == WithCell(m, a, IntCell(n))
<1>1. IntCell(n) \in Cells /\ IntCell(n).holds = "int" /\ "int" \notin ListKinds
  BY DEF IntCell, Cells, ListKinds
<1>2. GoesOn(m, x) /\ a \in Addresses /\ x.mem[a] = IntCell(n)
  BY <1>1, NewCell
<1>3. PushedInt(m, n) = Pushed(x, IntAt(a))
  BY DEF PushedInt, WithCell
<1> HIDE DEF x, a
<1>4. IntAt(a) \in Items /\ IntAt(a).is = "int" /\ IntAt(a).at = a
  BY <1>2 DEF IntAt, Items
<1>5. IntAt(a) \in Values(x.mem)
  BY <1>1, <1>2, <1>4 DEF Values, Fitting
<1> QED BY <1>2, <1>3, <1>5, GoesOnPushed

LEMMA PushedListSound ==
  ASSUME NEW m, Sound(m), Room(m.mem), NEW kind \in ListKinds, NEW items \in Seq(Values(m.mem))
  PROVE  GoesOn(m, PushedList(m, kind, items))
<1> DEFINE a == NewAt(m)
           x == WithCell(m, a, ListCell(kind, items))
<1>1. items \in Seq(Items)
  <2>1. Values(m.mem) \subseteq Items
    BY DEF Values
  <2> QED BY <2>1, InMoreValues
<1>2. /\ ListCell(kind, items) \in Cells /\ ListCell(kind, items).holds = kind
      /\ ListCell(kind, items).items = items
  BY <1>1 DEF ListCell, Cells
<1>3. GoesOn(m, x) /\ a \in Addresses /\ x.mem[a] = ListCell(kind, items)
  BY <1>2, NewCell
<1>4. PushedList(m, kind, items) = Pushed(x, ListAt(a))
  BY DEF PushedList, WithCell
<1> HIDE DEF x, a
<1>5. ListAt(a) \in Items /\ ListAt(a).is = "list" /\ ListAt(a).at = a
  BY <1>3 DEF ListAt, Items
<1>6. ListAt(a) \in Values(x.mem)
  BY <1>2, <1>3, <1>5 DEF Values, Fitting
<1> QED BY <1>3, <1>4, <1>6, GoesOnPushed

LEMMA SliceOfIs ==
  ASSUME NEW a \in Addresses, NEW off \in Nat, NEW len \in Nat
  PROVE  /\ SliceOf(a, off, len) \in Items /\ SliceOf(a, off, len).is = "bytes"
         /\ SliceOf(a, off, len).at = a /\ SliceOf(a, off, len).off = off
         /\ SliceOf(a, off, len).len = len
BY DEF SliceOf, Items

LEMMA ArrayIs ==
  ASSUME NEW bytes \in Seq(Byte)
  PROVE  Array(bytes) \in Cells /\ Array(bytes).holds = "bytes" /\ Array(bytes).bytes = bytes
BY DEF Array, Cells

\* The bytes of a new slice are those stored, and there may be room behind them.
LEMMA StoredSound ==
  ASSUME NEW m, Sound(m), Room(m.mem), NEW bytes \in Seq(Byte), NEW spare \in Nat
  PROVE  LET s == Stored(m, bytes, spare)
         IN /\ GoesOn(m, s.m) /\ s.m.estack = m.estack
            /\ s.item \in Slices(s.m.mem) /\ BytesOf(s.m, s.item) = bytes
            /\ RoomForTwo(m.mem) => Room(s.m.mem)
<1> DEFINE a == NewAt(m)
           more == [i \in 1..spare |-> 0]
           all == bytes \o more
           x == WithCell(m, a, Array(all))
           item == SliceOf(a, 0, Len(bytes))
<1>1. more \in Seq(Byte) /\ Len(more) = spare
  BY DEF Byte
<1>2. /\ all \in Seq(Byte) /\ Len(all) = Len(bytes) + spare /\ Len(bytes) \in Nat
      /\ \A i \in 1..(Len(bytes) + spare) : all[i] = IF i <= Len(bytes) THEN bytes[i] ELSE more[i - Len(bytes)]
  BY <1>1, ConcatProperties
<1>3. Stored(m, bytes, spare) = [m |-> x, item |-> item]
  BY DEF Stored, WithCell
<1> HIDE DEF more, all
<1>4. Array(all) \in Cells /\ Array(all).holds = "bytes" /\ Array(all).bytes = all
  BY <1>2, ArrayIs
<1>5. "bytes" \notin ListKinds
  BY DEF ListKinds
<1>6. /\ GoesOn(m, x) /\ x.estack = m.estack /\ a \in Addresses /\ x.mem[a] = Array(all)
      /\ RoomForTwo(m.mem) => Room(x.mem)
  BY <1>4, <1>5, NewCell
<1> HIDE DEF x, a
<1>7. /\ item \in Items /\ item.is = "bytes" /\ item.at = a /\ item.off = 0
      /\ item.len = Len(bytes)
  BY <1>2, <1>6 DEF SliceOf, Items
<1> HIDE DEF item
<1>8. item \in Slices(x.mem)
  <2>1. x.mem[item.at].holds = "bytes" /\ item.off + item.len <= Len(x.mem[item.at].bytes)
    BY <1>2, <1>4, <1>6, <1>7
  <2> QED BY <1>7, <2>1 DEF Slices, Values, Fitting
<1>9. BytesOf(x, item) = bytes
  <2>1. BytesOf(x, item) = SubSeq(all, 1, Len(bytes))
    BY <1>2, <1>4, <1>6, <1>7 DEF BytesOf
  <2>2. /\ SubSeq(all, 1, Len(bytes)) \in Seq(Byte) /\ Len(SubSeq(all, 1, Len(bytes))) = Len(bytes)
        /\ \A i \in 1..Len(bytes) : SubSeq(all, 1, Len(bytes))[i] = bytes[i]
    BY <1>2
  <2> QED BY <2>1, <2>2, SeqEqual
<1>10. Stored(m, bytes, spare).m = x /\ Stored(m, bytes, spare).item = item
  BY <1>3
<1> QED BY <1>6, <1>8, <1>9, <1>10

LEMMA PushedStoredSound ==
  ASSUME NEW m, Sound(m), Room(m.mem), NEW bytes \in Seq(Byte), NEW spare \in Nat
  PROVE  GoesOn(m, PushedStored(Stored(m, bytes, spare)))
<1> DEFINE s == Stored(m, bytes, spare)
<1>1. GoesOn(m, s.m) /\ s.item \in Values(s.m.mem)
  BY StoredSound DEF Slices
<1>2. PushedStored(s) = Pushed(s.m, s.item)
  BY DEF PushedStored
<1> HIDE DEF s
<1>3. GoesOn(m, PushedStored(s))
  BY <1>1, <1>2, GoesOnPushed
<1> QED BY <1>3 DEF s

LEMMA PushedBytesSound ==
  ASSUME NEW m, Sound(m), Room(m.mem), NEW bytes \in Seq(Byte)
  PROVE  GoesOn(m, PushedBytes(m, bytes))
<1>1. PushedBytes(m, bytes) = PushedStored(Stored(m, bytes, 0)) /\ 0 \in Nat
  BY DEF PushedBytes
<1>2. GoesOn(m, PushedStored(Stored(m, bytes, 0)))
  BY <1>1, PushedStoredSound
<1> QED BY <1>1, <1>2

-----------------------------------------------------------------------------
(* What items are worth                                                    *)

LEMMA SliceHolds ==
  ASSUME NEW m, m.mem \in Memory, NEW item \in Values(m.mem), item.is = "bytes"
  PROVE  /\ item.at \in Addresses /\ item.off \in Nat /\ item.len \in Nat
         /\ m.mem[item.at] \in [holds : {"bytes"}, bytes : Seq(Byte)]
         /\ item.off + item.len <= Len(m.mem[item.at].bytes)
         /\ BytesOf(m, item) \in Seq(Byte) /\ Len(BytesOf(m, item)) = item.len
<1>1. item \in Items /\ Fitting(m.mem, item)
  BY DEF Values
<1>2. item.at \in Addresses /\ item.off \in Nat /\ item.len \in Nat
  BY <1>1 DEF Items, Interop
<1>3. m.mem[item.at].holds = "bytes" /\ item.off + item.len <= Len(m.mem[item.at].bytes)
  BY <1>1 DEF Fitting
<1>4. m.mem[item.at] \in [holds : {"bytes"}, bytes : Seq(Byte)]
  BY <1>2, <1>3 DEF Memory, Cells, Free, ListKinds
<1> DEFINE b == m.mem[item.at].bytes
<1>5. b \in Seq(Byte) /\ Len(b) \in Nat /\ item.off + item.len <= Len(b)
  BY <1>3, <1>4
<1>6. BytesOf(m, item) = SubSeq(b, item.off + 1, item.off + item.len)
  BY DEF BytesOf
<1> HIDE DEF b
<1>7. /\ SubSeq(b, item.off + 1, item.off + item.len) \in Seq(Byte)
      /\ Len(SubSeq(b, item.off + 1, item.off + item.len)) = item.len
  BY <1>2, <1>5, SubSeqProperties
<1> QED BY <1>2, <1>3, <1>4, <1>6, <1>7

LEMMA NumberHolds ==
  ASSUME NEW m, m.mem \in Memory, NEW item \in Values(m.mem), item.is = "int"
  PROVE  item.at \in Addresses /\ m.mem[item.at].holds = "int" /\ m.mem[item.at].n \in Int
<1>1. item \in Items /\ m.mem[item.at].holds = "int"
  BY DEF Values, Fitting
<1>2. item.at \in Addresses
  BY <1>1 DEF Items, Interop
<1>3. m.mem[item.at] \in [holds : {"int"}, n : Int]
  BY <1>1, <1>2 DEF Memory, Cells, Free, ListKinds
<1> QED BY <1>1, <1>2, <1>3

LEMMA ListHolds ==
  ASSUME NEW m, m.mem \in Memory, ListsSound(m.mem), NEW item \in Values(m.mem), item.is = "list"
  PROVE  /\ item.at \in Addresses /\ m.mem[item.at].holds \in ListKinds
         /\ m.mem[item.at].items \in Seq(Values(m.mem))
<1>1. item \in Items /\ m.mem[item.at].holds \in ListKinds
  BY DEF Values, Fitting
<1>2. item.at \in Addresses
  BY <1>1 DEF Items, Interop
<1> QED BY <1>1, <1>2 DEF ListsSound

LEMMA Worth ==
  ASSUME NEW m, m.mem \in Memory, NEW item \in Values(m.mem), IsPrimitive(item)
  PROVE  BigInt(m, item) \in Int /\ Bytes(m, item) \in Seq(Byte) /\ Len(Bytes(m, item)) \in Nat
<1>1. item.is \in {"int", "bytes", "bool"}
  BY DEF IsPrimitive
<1>2. CASE item.is = "int"
  <2>1. m.mem[item.at].n \in Int
    BY <1>2, NumberHolds
  <2>2. IntToBytes(m.mem[item.at].n) \in Seq(Byte)
    BY <2>1, NumbersReadBack
  <2>3. BigInt(m, item) = m.mem[item.at].n /\ Bytes(m, item) = IntToBytes(m.mem[item.at].n)
    BY <1>2 DEF BigInt, Bytes
  <2> QED BY <2>1, <2>2, <2>3
<1>3. CASE item.is = "bytes"
  <2>1. BytesOf(m, item) \in Seq(Byte)
    BY <1>3, SliceHolds
  <2>2. BytesToInt(BytesOf(m, item)) \in Int
    BY <2>1, BytesToIntType
  <2>3. BigInt(m, item) = BytesToInt(BytesOf(m, item)) /\ Bytes(m, item) = BytesOf(m, item)
    BY <1>3 DEF BigInt, Bytes
  <2> QED BY <2>1, <2>2, <2>3
<1>4. CASE item.is = "bool"
  <2>1. <<1>> \in Seq(Byte) /\ <<>> \in Seq(Byte)
    BY DEF Byte
  <2>2. /\ BigInt(m, item) = IF item.b THEN 1 ELSE 0
        /\ Bytes(m, item) = IF item.b THEN <<1>> ELSE <<>>
    BY <1>4 DEF BigInt, Bytes
  <2> QED BY <2>1, <2>2
<1> QED BY <1>1, <1>2, <1>3, <1>4

-----------------------------------------------------------------------------
(* Copies and parts                                                        *)

LEMMA StaysSame ==
  ASSUME NEW m, Sound(m)
  PROVE  GoesOn(m, m)
BY GrowsSame DEF GoesOn

\* A copy of an item, in the machine it needs.
Copies(m, c) ==
  /\ GoesOn(m, c.m) /\ c.m.estack = m.estack /\ c.item \in Values(c.m.mem)

LEMMA AsSliceSound ==
  ASSUME NEW m, Sound(m), Room(m.mem), NEW item \in Values(m.mem), IsPrimitive(item)
  PROVE  LET s == AsSlice(m, item)
         IN /\ Copies(m, s) /\ s.item \in Slices(s.m.mem)
            /\ BytesOf(s.m, s.item) = Bytes(m, item)
            /\ RoomForTwo(m.mem) => Room(s.m.mem)
<1> DEFINE s == AsSlice(m, item)
<1>1. CASE item.is = "bytes"
  <2>1. s.m = m /\ s.item = item
    BY <1>1 DEF AsSlice
  <2>2. BytesOf(m, item) = Bytes(m, item)
    BY <1>1 DEF Bytes
  <2> QED BY <1>1, <2>1, <2>2, StaysSame DEF Copies, Slices
<1>2. CASE item.is # "bytes"
  <2> DEFINE spare == IF item.is = "int" THEN 1 ELSE 0
             bytes == Bytes(m, item)
  <2>1. bytes \in Seq(Byte) /\ spare \in Nat
    BY Worth DEF Sound
  <2>2. s = Stored(m, bytes, spare)
    BY <1>2 DEF AsSlice
  <2> HIDE DEF spare, bytes, s
  <2>3. /\ GoesOn(m, s.m) /\ s.m.estack = m.estack
        /\ s.item \in Slices(s.m.mem) /\ BytesOf(s.m, s.item) = bytes
        /\ RoomForTwo(m.mem) => Room(s.m.mem)
    BY <2>1, <2>2, StoredSound
  <2> QED BY <2>3 DEF Copies, Slices, bytes, s
<1> QED BY <1>1, <1>2

LEMMA DupSound ==
  ASSUME NEW m, Sound(m), Room(m.mem), NEW item \in Values(m.mem)
  PROVE  Copies(m, Dup(m, item))
<1>1. m.mem \in Memory
  BY DEF Sound
<1>2. CASE item.is = "int"
  <2> DEFINE a == NewAt(m)
             cell == m.mem[item.at]
             x == WithCell(m, a, cell)
  <2>1. item.at \in Addresses /\ cell.holds = "int"
    BY <1>1, <1>2, NumberHolds
  <2>2. cell \in Cells /\ "int" \notin ListKinds
    BY <1>1, <2>1 DEF Memory, ListKinds
  <2>3. Dup(m, item) = [m |-> x, item |-> IntAt(a)]
    BY <1>2 DEF Dup, WithCell
  <2> HIDE DEF cell
  <2>4. GoesOn(m, x) /\ x.estack = m.estack /\ a \in Addresses /\ x.mem[a] = cell
    BY <2>1, <2>2, NewCell
  <2> HIDE DEF x, a
  <2>5. IntAt(a) \in Items /\ IntAt(a).is = "int" /\ IntAt(a).at = a
    BY <2>4 DEF IntAt, Items
  <2>6. IntAt(a) \in Values(x.mem)
    BY <2>1, <2>4, <2>5 DEF Values, Fitting
  <2>7. Dup(m, item).m = x /\ Dup(m, item).item = IntAt(a)
    BY <2>3
  <2> QED BY <2>4, <2>6, <2>7 DEF Copies
<1>3. CASE item.is = "bytes"
  <2>1. BytesOf(m, item) \in Seq(Byte) /\ 0 \in Nat
    BY <1>1, <1>3, SliceHolds
  <2>2. Dup(m, item) = Stored(m, BytesOf(m, item), 0)
    BY <1>3 DEF Dup
  <2> QED BY <2>1, <2>2, StoredSound DEF Copies, Slices
<1>4. CASE item.is \notin {"int", "bytes"}
  <2>1. Dup(m, item).m = m /\ Dup(m, item).item = item
    BY <1>4 DEF Dup
  <2> QED BY <2>1, StaysSame DEF Copies
<1> QED BY <1>2, <1>3, <1>4

LEMMA GoesOnRestacked ==
  ASSUME NEW m, NEW x, GoesOn(m, x), NEW items \in Seq(Values(x.mem))
  PROVE  GoesOn(m, WithStack(x, items))
<1>1. Sound(x)
  BY DEF GoesOn
<1>2. /\ Sound(WithStack(x, items)) /\ WithStack(x, items).mem = x.mem
      /\ WithStack(x, items).astack = x.astack /\ WithStack(x, items).storage = x.storage
      /\ WithStack(x, items).written = x.written /\ WithStack(x, items).spoilt = x.spoilt
  BY <1>1, Restacked
<1> QED BY <1>2 DEF GoesOn

LEMMA PlacedSound ==
  ASSUME NEW m, Sound(m), Room(m.mem), NEW item \in Values(m.mem), NEW n \in 1..(Len(m.estack) + 1)
  PROVE  GoesOn(m, Placed(m, item, n))
<1> DEFINE c == Dup(m, item)
           V == Values(c.m.mem)
           e == m.estack
           upper == SubSeq(e, 1, n - 1)
           lower == SubSeq(e, n, Len(e))
<1>1. GoesOn(m, c.m) /\ c.m.estack = e /\ c.item \in V
  BY DupSound DEF Copies
<1>2. Sound(c.m)
  BY <1>1 DEF GoesOn
<1>3. e \in Seq(V) /\ Len(e) \in Nat
  BY <1>1, <1>2 DEF Sound
<1>4. Placed(m, item, n) = WithStack(c.m, upper \o <<c.item>> \o lower)
  BY <1>1 DEF Placed, WithStack
<1> HIDE DEF c, e, V
<1>5. upper \in Seq(V) /\ lower \in Seq(V)
  BY <1>3, SubSeqProperties DEF e
<1>6. <<c.item>> \in Seq(V)
  BY <1>1
<1> HIDE DEF upper, lower
<1>7. upper \o <<c.item>> \in Seq(V)
  BY <1>5, <1>6, ConcatProperties
<1>8. upper \o <<c.item>> \o lower \in Seq(V)
  BY <1>5, <1>7, ConcatProperties
<1> QED BY <1>1, <1>4, <1>8, GoesOnRestacked DEF V

LEMMA PlacedStays ==
  ASSUME NEW m, Sound(m), Room(m.mem), NEW item \in Values(m.mem), NEW n \in 1..(Len(m.estack) + 1)
  PROVE  Sound(Placed(m, item, n))
BY PlacedSound DEF GoesOn

LEMMA LentSound ==
  ASSUME NEW m, Sound(m), NEW items
  PROVE  /\ GoesOn(m, Lent(m, items)) /\ Lent(m, items).mem = m.mem
         /\ Lent(m, items).estack = m.estack
<1> DEFINE v == m.lent \union {i.at : i \in {j \in items : j.is \in {"int", "bytes"}}}
           x == WithLent(m, v)
<1>1. Lent(m, items) = x
  BY DEF Lent, WithLent
<1> HIDE DEF v
<1>2. Whole(m) /\ m.estack \in Seq(Values(m.mem)) /\ m.astack \in Seq(Values(m.mem))
      /\ m.mem \in Memory /\ ListsSound(m.mem)
  BY DEF Sound
<1>3. /\ Whole(x) /\ x.mem = m.mem /\ x.estack = m.estack /\ x.astack = m.astack
      /\ x.storage = m.storage /\ x.written = m.written /\ x.spoilt = m.spoilt
  BY <1>2, WithLentIs
<1> HIDE DEF x
<1>4. Follows(m, x)
  BY <1>2, <1>3, GrowsSame DEF Follows
<1>5. Sound(x)
  BY <1>2, <1>3, <1>4, FollowsSound
<1> QED BY <1>1, <1>3, <1>5, GrowsSame DEF GoesOn

-----------------------------------------------------------------------------
(* What is changed where it is                                             *)

\* The cell can take the place of another: nothing that points at that one is
\* unfit for it.
Replaces(old, cell) ==
  /\ cell \in Cells /\ cell.holds = old.holds /\ cell.holds \in {"int", "bytes"}
  /\ cell.holds = "bytes" => Len(cell.bytes) = Len(old.bytes)
\* x is m with another cell at a, which leaves alone what storage has but for
\* entries spoilt.
Changes(m, x, a, cell) ==
  /\ Whole(x) /\ x.mem = Put(m.mem, a, cell)
  /\ x.estack = m.estack /\ x.astack = m.astack
  /\ x.storage = m.storage /\ x.written = m.written /\ m.spoilt \subseteq x.spoilt
  /\ \A k \in DOMAIN m.storage \ x.spoilt : BytesOf(x, m.storage[k]) = BytesOf(m, m.storage[k])

LEMMA ChangesSound ==
  ASSUME NEW m, Sound(m), NEW a \in Addresses, NEW cell, Replaces(m.mem[a], cell),
         NEW x, Changes(m, x, a, cell)
  PROVE  Sound(x) /\ Values(x.mem) = Values(m.mem)
<1>1. /\ m.mem \in Memory /\ ListsSound(m.mem) /\ m.estack \in Seq(Values(m.mem))
      /\ m.astack \in Seq(Values(m.mem)) /\ Kept(m)
      /\ \A k \in DOMAIN m.storage : m.storage[k] \in Slices(m.mem)
  BY DEF Sound
<1>2. x.mem \in Memory /\ x.mem[a] = cell /\ \A b \in Addresses : b # a => x.mem[b] = m.mem[b]
  BY <1>1 DEF Changes, Replaces, Memory, Put
<1>3. "int" \notin ListKinds /\ "bytes" \notin ListKinds /\ "int" # "bytes"
  BY DEF ListKinds
<1>4. Values(x.mem) = Values(m.mem)
  <2> SUFFICES ASSUME NEW item \in Items PROVE Fitting(x.mem, item) <=> Fitting(m.mem, item)
    BY DEF Values
  <2>1. item.is \in {"int", "bytes", "list"} => item.at \in Addresses
    BY DEF Items, Interop
  <2>2. CASE item.is \in {"int", "bytes", "list"} /\ item.at = a
    BY <1>2, <1>3, <2>2 DEF Fitting, Replaces
  <2>3. CASE ~(item.is \in {"int", "bytes", "list"} /\ item.at = a)
    BY <1>2, <2>1, <2>3 DEF Fitting
  <2> QED BY <2>2, <2>3
<1>5. ListsSound(x.mem)
  BY <1>1, <1>2, <1>3, <1>4 DEF ListsSound, Replaces
<1>6. Kept(x)
  BY <1>1 DEF Kept, Changes
<1>7. \A k \in DOMAIN x.storage : x.storage[k] \in Slices(x.mem)
  BY <1>1, <1>4 DEF Changes, Slices
<1> QED BY <1>1, <1>2, <1>4, <1>5, <1>6, <1>7 DEF Sound, Changes

LEMMA NumberReplaced ==
  ASSUME NEW m, Sound(m), NEW item \in Values(m.mem), item.is = "int", NEW n \in Int
  PROVE  Sound([m EXCEPT !.mem[item.at] = IntCell(n)])
<1> DEFINE a == item.at
           x == WithCell(m, a, IntCell(n))
<1>1. Whole(m) /\ m.mem \in Memory /\ \A k \in DOMAIN m.storage : m.storage[k] \in Slices(m.mem)
  BY DEF Sound
<1>2. a \in Addresses /\ m.mem[a].holds = "int"
  BY <1>1, NumberHolds
<1>3. IntCell(n) \in Cells /\ IntCell(n).holds = "int" /\ "int" # "bytes"
  BY DEF IntCell, Cells
<1>4. /\ Whole(x) /\ x.mem = Put(m.mem, a, IntCell(n)) /\ x.estack = m.estack
      /\ x.astack = m.astack /\ x.storage = m.storage /\ x.written = m.written
      /\ x.spoilt = m.spoilt
  BY <1>1, WithCellIs
<1>5. x = [m EXCEPT !.mem[item.at] = IntCell(n)]
  BY DEF WithCell
<1> HIDE DEF x, a
<1>6. ASSUME NEW k \in DOMAIN m.storage
      PROVE  BytesOf(x, m.storage[k]) = BytesOf(m, m.storage[k])
  <2>1. m.storage[k] \in Values(m.mem) /\ m.storage[k].is = "bytes"
    BY <1>1 DEF Slices
  <2>2. m.storage[k].at \in Addresses /\ m.mem[m.storage[k].at].holds = "bytes"
    BY <1>1, <2>1 DEF Values, Fitting, Items, Interop
  <2>3. m.storage[k].at # a
    BY <1>2, <1>3, <2>2
  <2>4. x.mem[m.storage[k].at] = m.mem[m.storage[k].at]
    BY <1>1, <1>4, <2>2, <2>3 DEF Put, Memory
  <2> QED BY <2>4 DEF BytesOf
<1>7. Changes(m, x, a, IntCell(n)) /\ Replaces(m.mem[a], IntCell(n))
  BY <1>2, <1>3, <1>4, <1>6 DEF Changes, Replaces
<1> QED BY <1>2, <1>5, <1>7, ChangesSound

\* What append writes over, when the array has room after the slice.
Appended(m, slice, bytes) ==
  LET all == m.mem[slice.at].bytes
      end == slice.off + slice.len
  IN [i \in DOMAIN all |-> IF i \in (end + 1)..(end + Len(bytes)) THEN bytes[i - end] ELSE all[i]]
AppendedCell(m, slice, bytes) == [m.mem[slice.at] EXCEPT !.bytes = Appended(m, slice, bytes)]
InPlace(m, slice, bytes) ==
  [m EXCEPT !.mem[slice.at].bytes = Appended(m, slice, bytes),
            !.spoilt = @ \union Overwritten(m, slice, bytes)]

LEMMA InPlaceIs ==
  ASSUME NEW m, Whole(m), NEW slice, NEW bytes, NEW x, x = InPlace(m, slice, bytes)
  PROVE  /\ Whole(x)
         /\ x.mem = Put(m.mem, slice.at, AppendedCell(m, slice, bytes))
         /\ x.estack = m.estack /\ x.astack = m.astack /\ x.storage = m.storage
         /\ x.written = m.written /\ x.spoilt = m.spoilt \union Overwritten(m, slice, bytes)
<1>1. Whole(x)
  BY DEF Whole, InPlace
<1>2. x.mem = Put(m.mem, slice.at, AppendedCell(m, slice, bytes))
  BY DEF Whole, InPlace, Put, AppendedCell
<1>3. x.estack = m.estack /\ x.astack = m.astack /\ x.storage = m.storage
  BY DEF Whole, InPlace
<1>4. x.written = m.written /\ x.spoilt = m.spoilt \union Overwritten(m, slice, bytes)
  BY DEF Whole, InPlace
<1> QED BY <1>1, <1>2, <1>3, <1>4

LEMMA SliceInArray ==
  ASSUME NEW m, m.mem \in Memory, NEW k \in DOMAIN m.storage,
         \A j \in DOMAIN m.storage : m.storage[j] \in Slices(m.mem)
  PROVE  /\ m.storage[k].at \in Addresses /\ m.storage[k].off \in Nat /\ m.storage[k].len \in Nat
         /\ m.mem[m.storage[k].at].bytes \in Seq(Byte)
         /\ m.storage[k].off + m.storage[k].len <= Len(m.mem[m.storage[k].at].bytes)
<1>1. m.storage[k] \in Values(m.mem) /\ m.storage[k].is = "bytes"
  BY DEF Slices
<1> QED BY <1>1, SliceHolds

LEMMA AppendedInPlace ==
  ASSUME NEW m, Sound(m), NEW slice \in Slices(m.mem), NEW bytes \in Seq(Byte),
         Fills(m, slice, bytes)
  PROVE  /\ Sound(InPlace(m, slice, bytes))
         /\ SliceOf(slice.at, slice.off, slice.len + Len(bytes)) \in Values(InPlace(m, slice, bytes).mem)
<1> DEFINE x == InPlace(m, slice, bytes)
           a == slice.at
           all == m.mem[a].bytes
           end == slice.off + slice.len
           new == Appended(m, slice, bytes)
           cell == AppendedCell(m, slice, bytes)
           more == SliceOf(a, slice.off, slice.len + Len(bytes))
<1>1. /\ Whole(m) /\ m.mem \in Memory
      /\ \A k \in DOMAIN m.storage : m.storage[k] \in Slices(m.mem)
  BY DEF Sound
<1>2. slice \in Values(m.mem) /\ slice.is = "bytes"
  BY DEF Slices
<1>3. /\ a \in Addresses /\ slice.off \in Nat /\ slice.len \in Nat
      /\ m.mem[a] \in [holds : {"bytes"}, bytes : Seq(Byte)]
      /\ slice.off + slice.len <= Len(m.mem[a].bytes)
  BY <1>1, <1>2, SliceHolds
<1>4. all \in Seq(Byte) /\ Len(all) \in Nat /\ end \in Nat /\ Len(bytes) \in Nat
  BY <1>3
<1>5. slice.off + slice.len + Len(bytes) <= Len(all)
  BY DEF Fills
<1>6. new = [i \in 1..Len(all) |-> IF i \in (end + 1)..(end + Len(bytes)) THEN bytes[i - end] ELSE all[i]]
  BY <1>4 DEF Appended
<1>7. ASSUME NEW i \in 1..Len(all)
      PROVE  (IF i \in (end + 1)..(end + Len(bytes)) THEN bytes[i - end] ELSE all[i]) \in Byte
  <2>1. CASE i \in (end + 1)..(end + Len(bytes))
    <3>1. i - end \in 1..Len(bytes)
      BY <1>4, <2>1
    <3> QED BY <2>1, <3>1, ElementOfSeq
  <2>2. CASE i \notin (end + 1)..(end + Len(bytes))
    BY <1>4, <2>2, ElementOfSeq
  <2> QED BY <2>1, <2>2
<1> HIDE DEF all, end, new
<1>8. new \in Seq(Byte) /\ Len(new) = Len(all)
  BY <1>4, <1>6, <1>7
<1>9. cell \in Cells /\ cell.holds = "bytes" /\ cell.bytes = new
  BY <1>3, <1>8 DEF Cells, AppendedCell, new
<1>10. Replaces(m.mem[a], cell)
  BY <1>3, <1>8, <1>9 DEF Replaces, all
<1>11. /\ Whole(x) /\ x.mem = Put(m.mem, a, cell)
       /\ x.estack = m.estack /\ x.astack = m.astack /\ x.storage = m.storage
       /\ x.written = m.written /\ x.spoilt = m.spoilt \union Overwritten(m, slice, bytes)
  BY <1>1, InPlaceIs
<1> HIDE DEF x, cell
<1>12. ASSUME NEW k \in DOMAIN m.storage \ x.spoilt
       PROVE  BytesOf(x, m.storage[k]) = BytesOf(m, m.storage[k])
  <2> DEFINE kept == m.storage[k]
  <2>1. /\ kept.at \in Addresses /\ kept.off \in Nat /\ kept.len \in Nat
        /\ m.mem[kept.at].bytes \in Seq(Byte)
        /\ kept.off + kept.len <= Len(m.mem[kept.at].bytes)
    BY <1>1, SliceInArray
  <2>2. k \notin Overwritten(m, slice, bytes)
    BY <1>11
  <2>3. \/ kept.at # a
        \/ kept.off + kept.len <= end
        \/ kept.off >= end + Len(bytes)
    BY <1>4, <2>1, <2>2 DEF Overwritten, end
  <2> HIDE DEF kept
  <2>4. CASE kept.at # a
    <3>1. x.mem[kept.at] = m.mem[kept.at]
      BY <1>1, <1>11, <2>1, <2>4 DEF Put, Memory
    <3> QED BY <3>1 DEF BytesOf, kept
  <2>5. CASE kept.at = a
    <3>1. x.mem[kept.at].bytes = new /\ m.mem[kept.at].bytes = all
      BY <1>1, <1>3, <1>9, <1>11, <2>5 DEF Put, Memory, all
    <3> DEFINE p == kept.off + 1
               q == kept.off + kept.len
               s == SubSeq(new, p, q)
               t == SubSeq(all, p, q)
    <3>2. p \in 1..(Len(all) + 1) /\ q \in (p - 1)..Len(all)
      BY <2>1, <3>1, <1>4
    <3>3. /\ s \in Seq(Byte) /\ Len(s) = q - p + 1
          /\ \A i \in 1..(q - p + 1) : s[i] = new[p + i - 1]
      BY <1>4, <1>8, <3>2, SubSeqProperties
    <3>4. /\ t \in Seq(Byte) /\ Len(t) = q - p + 1
          /\ \A i \in 1..(q - p + 1) : t[i] = all[p + i - 1]
      BY <1>4, <3>2, SubSeqProperties
    <3>5. ASSUME NEW i \in 1..(q - p + 1) PROVE new[p + i - 1] = all[p + i - 1]
      <4>1. i \in 1..kept.len
        BY <2>1
      <4>2. p + i - 1 = kept.off + i
        BY <2>1, <4>1
      <4>3. kept.off + i \in 1..Len(all)
        BY <1>4, <2>1, <3>1, <4>1
      <4>4. kept.off + i \notin (end + 1)..(end + Len(bytes))
        BY <1>4, <2>1, <2>3, <2>5, <4>1
      <4> QED BY <1>6, <4>2, <4>3, <4>4
    <3>6. s = t
      BY <3>3, <3>4, <3>5, SeqEqual
    <3>7. BytesOf(x, kept) = s /\ BytesOf(m, kept) = t
      BY <3>1 DEF BytesOf
    <3> QED BY <3>6, <3>7 DEF kept
  <2> QED BY <2>4, <2>5
<1>13. Changes(m, x, a, cell)
  BY <1>11, <1>12 DEF Changes
<1>14. Sound(x) /\ Values(x.mem) = Values(m.mem)
  BY <1>3, <1>10, <1>13, ChangesSound
<1>15. /\ more \in Items /\ more.is = "bytes" /\ more.at = a /\ more.off = slice.off
       /\ more.len = slice.len + Len(bytes)
  BY <1>3, <1>4, SliceOfIs
<1> HIDE DEF more
<1>16. more \in Values(m.mem)
  <2>1. slice.off + (slice.len + Len(bytes)) <= Len(m.mem[a].bytes)
    BY <1>3, <1>4, <1>5 DEF all
  <2> QED BY <1>3, <1>15, <2>1 DEF Values, Fitting
<1> QED BY <1>14, <1>16 DEF more, x

LEMMA AppendedSound ==
  ASSUME NEW m, Sound(m), Room(m.mem), NEW slice \in Slices(m.mem), NEW bytes \in Seq(Byte),
         NEW grow \in Nat
  PROVE  Sound(AppendedTo(m, slice, bytes, grow))
<1>1. CASE Fills(m, slice, bytes)
  <2> DEFINE x == InPlace(m, slice, bytes)
             more == SliceOf(slice.at, slice.off, slice.len + Len(bytes))
  <2>1. AppendedTo(m, slice, bytes, grow) = Pushed(x, more)
    BY <1>1 DEF AppendedTo, InPlace, Appended
  <2>2. Sound(x) /\ more \in Values(x.mem)
    BY <1>1, AppendedInPlace
  <2> HIDE DEF x, more
  <2> QED BY <2>1, <2>2, PushedSound
<1>2. CASE ~Fills(m, slice, bytes)
  <2> DEFINE all == BytesOf(m, slice) \o bytes
  <2>1. BytesOf(m, slice) \in Seq(Byte)
    BY SliceHolds DEF Slices, Sound
  <2>2. all \in Seq(Byte)
    BY <2>1, ConcatProperties
  <2>3. AppendedTo(m, slice, bytes, grow) = PushedStored(Stored(m, all, grow))
    BY <1>2 DEF AppendedTo
  <2> HIDE DEF all
  <2> QED BY <2>2, <2>3, PushedStoredSound DEF GoesOn
<1> QED BY <1>1, <1>2

-----------------------------------------------------------------------------
(* Storage                                                                 *)

\* x has item as entry k of its storage, and on record that it was put there.
Keeps(m, x, k, item) ==
  /\ Whole(x) /\ x.mem = m.mem /\ x.estack = m.estack /\ x.astack = m.astack
  /\ x.storage = With(m.storage, k, item)
  /\ \/ x.written = With(m.written, k, BytesOf(m, item)) /\ x.spoilt = m.spoilt \ {k}
     \/ /\ x.written = m.written /\ x.spoilt = m.spoilt
        /\ k \notin DOMAIN m.storage /\ BytesOf(m, item) = NodeHas(k)

LEMMA KeepsSound ==
  ASSUME NEW m, Sound(m), NEW k, NEW item \in Slices(m.mem), NEW x, Keeps(m, x, k, item)
  PROVE  Sound(x)
<1>1. /\ Kept(m) /\ \A j \in DOMAIN m.storage : m.storage[j] \in Slices(m.mem)
      /\ m.mem \in Memory /\ ListsSound(m.mem) /\ m.estack \in Seq(Values(m.mem))
      /\ m.astack \in Seq(Values(m.mem))
  BY DEF Sound
<1>2. /\ x.mem = m.mem /\ x.estack = m.estack /\ x.astack = m.astack
      /\ x.storage = With(m.storage, k, item) /\ Whole(x)
  BY DEF Keeps
<1>3. DOMAIN x.storage = DOMAIN m.storage \union {k}
  BY <1>2 DEF With
<1>4. \A j \in DOMAIN x.storage : x.storage[j] = IF j = k THEN item ELSE m.storage[j]
  BY <1>2 DEF With
<1>5. \A j \in DOMAIN x.storage : x.storage[j] \in Slices(x.mem)
  BY <1>1, <1>2, <1>3, <1>4
<1>6. \A s : BytesOf(x, s) = BytesOf(m, s)
  BY <1>2 DEF BytesOf
<1>7. Kept(x)
  <2>1. CASE x.written = With(m.written, k, BytesOf(m, item)) /\ x.spoilt = m.spoilt \ {k}
    <3>1. /\ DOMAIN x.written = DOMAIN m.written \union {k}
          /\ \A j \in DOMAIN x.written :
               x.written[j] = IF j = k THEN BytesOf(m, item) ELSE m.written[j]
      BY <2>1 DEF With
    <3>2. DOMAIN x.written \subseteq DOMAIN x.storage
      BY <1>1, <1>3, <3>1 DEF Kept
    <3>3. ASSUME NEW j \in DOMAIN x.storage \ x.spoilt
          PROVE  BytesOf(x, x.storage[j]) = IF j \in DOMAIN x.written THEN x.written[j] ELSE NodeHas(j)
      <4>1. CASE j = k
        BY <1>4, <1>6, <3>1, <4>1
      <4>2. CASE j # k
        BY <1>1, <1>3, <1>4, <1>6, <2>1, <3>1, <4>2 DEF Kept
      <4> QED BY <4>1, <4>2
    <3> QED BY <3>2, <3>3 DEF Kept
  <2>2. CASE /\ x.written = m.written /\ x.spoilt = m.spoilt
             /\ k \notin DOMAIN m.storage /\ BytesOf(m, item) = NodeHas(k)
    <3>1. DOMAIN x.written \subseteq DOMAIN x.storage /\ k \notin DOMAIN x.written
      BY <1>1, <1>3, <2>2 DEF Kept
    <3>2. ASSUME NEW j \in DOMAIN x.storage \ x.spoilt
          PROVE  BytesOf(x, x.storage[j]) = IF j \in DOMAIN x.written THEN x.written[j] ELSE NodeHas(j)
      <4>1. CASE j = k
        BY <1>4, <1>6, <2>2, <3>1, <4>1
      <4>2. CASE j # k
        BY <1>1, <1>3, <1>4, <1>6, <2>2, <4>2 DEF Kept
      <4> QED BY <4>1, <4>2
    <3> QED BY <3>1, <3>2 DEF Kept
  <2> QED BY <2>1, <2>2 DEF Keeps
<1> QED BY <1>1, <1>2, <1>5, <1>7 DEF Sound

LEMMA PutSound ==
  ASSUME NEW m, Sound(m), NEW k, NEW item \in Slices(m.mem)
  PROVE  LET x == Wrote(Entered(m, k, item), k, BytesOf(m, item))
         IN Sound(x) /\ x.estack = m.estack /\ x.mem = m.mem
<1> DEFINE e == WithStorage(m, With(m.storage, k, item))
           x == Wrote(e, k, BytesOf(m, item))
<1>1. Entered(m, k, item) = e
  BY DEF Entered, WithStorage
<1>2. Whole(m)
  BY DEF Sound
<1>3. /\ Whole(e) /\ e.mem = m.mem /\ e.estack = m.estack /\ e.astack = m.astack
      /\ e.storage = With(m.storage, k, item) /\ e.written = m.written /\ e.spoilt = m.spoilt
  BY <1>2, WithStorageIs
<1> HIDE DEF e
<1>4. /\ Whole(x) /\ x.mem = e.mem /\ x.estack = e.estack /\ x.astack = e.astack
      /\ x.storage = e.storage /\ x.written = With(e.written, k, BytesOf(m, item))
      /\ x.spoilt = e.spoilt \ {k}
  BY <1>3, WroteWith
<1> HIDE DEF x
<1>5. Keeps(m, x, k, item)
  BY <1>3, <1>4 DEF Keeps
<1>6. Sound(x)
  BY <1>5, KeepsSound
<1> QED BY <1>1, <1>3, <1>4, <1>6 DEF x

LEMMA FetchedSound ==
  ASSUME NEW m, Sound(m), NEW k, k \notin DOMAIN m.storage, NEW item \in Slices(m.mem),
         BytesOf(m, item) = NodeHas(k)
  PROVE  Sound(Entered(m, k, item)) /\ Entered(m, k, item).mem = m.mem
<1> DEFINE e == WithStorage(m, With(m.storage, k, item))
<1>1. Entered(m, k, item) = e
  BY DEF Entered, WithStorage
<1>2. Whole(m)
  BY DEF Sound
<1>3. /\ Whole(e) /\ e.mem = m.mem /\ e.estack = m.estack /\ e.astack = m.astack
      /\ e.storage = With(m.storage, k, item) /\ e.written = m.written /\ e.spoilt = m.spoilt
  BY <1>2, WithStorageIs
<1> HIDE DEF e
<1>4. Keeps(m, e, k, item)
  BY <1>3 DEF Keeps
<1> QED BY <1>1, <1>3, <1>4, KeepsSound

-----------------------------------------------------------------------------
(* Instructions                                                            *)

Outcome(m) == m = Failed \/ Sound(m)

LEMMA OkSound ==
  ASSUME NEW cond, NEW m, cond => Sound(m)
  PROVE  Outcome(Ok(cond, m))
BY DEF Outcome, Ok

LEMMA TheMachine ==
  ASSUME SoundInv
  PROVE  /\ Sound(Machine) /\ Whole(Machine)
         /\ Machine.mem = mem /\ Machine.estack = estack /\ Machine.astack = astack
         /\ Machine.storage = storage /\ Machine.written = written /\ Machine.spoilt = spoilt
         /\ Machine.lent = lent
         /\ mem \in Memory /\ ListsSound(mem)
         /\ estack \in Seq(Values(mem)) /\ Len(estack) \in Nat
         /\ astack \in Seq(Values(mem)) /\ Len(astack) \in Nat
<1>1. Sound(Machine) /\ Whole(Machine)
  BY DEF SoundInv, Sound
<1>2. /\ Machine.mem = mem /\ Machine.estack = estack /\ Machine.astack = astack
      /\ Machine.storage = storage /\ Machine.written = written /\ Machine.spoilt = spoilt
      /\ Machine.lent = lent
  BY DEF Machine
<1>3. mem \in Memory /\ ListsSound(mem) /\ estack \in Seq(Values(mem)) /\ astack \in Seq(Values(mem))
  BY <1>1, <1>2 DEF Sound
<1> QED BY <1>1, <1>2, <1>3

\* What an int64 keeps of a number is an int64, and the number if it is one.
LEMMA Int64Is ==
  ASSUME NEW n \in Int
  PROVE  /\ Int64(n) \in Words /\ Int64(n) \in Int
         /\ n \in Words => Int64(n) = n
BY MaxInt64Assumption DEF Int64, Words

LEMMA Operands ==
  ASSUME SoundInv, NEW i \in 1..Len(estack)
  PROVE  /\ estack[i] \in Values(mem) /\ estack[i] \in Items /\ Fitting(mem, estack[i])
         /\ IsPrimitive(estack[i]) =>
              /\ BigInt(Machine, estack[i]) \in Int /\ WordOf(Machine, estack[i]) \in Int
              /\ Bytes(Machine, estack[i]) \in Seq(Byte)
              /\ Len(Bytes(Machine, estack[i])) \in Nat
<1>1. estack[i] \in Values(mem)
  BY TheMachine, ElementOfSeq
<1>2. IsPrimitive(estack[i]) =>
        /\ BigInt(Machine, estack[i]) \in Int /\ Bytes(Machine, estack[i]) \in Seq(Byte)
        /\ Len(Bytes(Machine, estack[i])) \in Nat
  BY <1>1, TheMachine, Worth
<1>3. IsPrimitive(estack[i]) => WordOf(Machine, estack[i]) \in Int
  BY <1>2, Int64Is DEF WordOf
<1> QED BY <1>1, <1>2, <1>3 DEF Values

LEMMA PoppedMachine ==
  ASSUME SoundInv, NEW n \in 0..Len(estack)
  PROVE  LET r == Popped(Machine, n)
         IN /\ Sound(r) /\ r.mem = mem /\ r.astack = astack /\ r.storage = storage
            /\ r.estack = SubSeq(estack, n + 1, Len(estack)) /\ Len(r.estack) = Len(estack) - n
            /\ r.written = written /\ r.spoilt = spoilt
BY TheMachine, PoppedSound

\* The instructions that only move items.
LEMMA RolledSound ==
  ASSUME NEW m, Sound(m), NEW n \in 0..(Len(m.estack) - 1)
  PROVE  Sound(Rolled(m, n)) /\ Sound(Dropped(m, n)) /\ Sound(Swapped(m, n))
<1> DEFINE e == m.estack
           V == Values(m.mem)
           without == RemoveAt(e, n + 1)
           upper == SubSeq(e, 1, (n + 1) - 1)
           lower == SubSeq(e, (n + 1) + 1, Len(e))
           swapped == [e EXCEPT ![1] = e[n + 1], ![n + 1] = e[1]]
<1>1. e \in Seq(V) /\ Len(e) \in Nat
  BY DEF Sound
<1>2. n + 1 \in 1..Len(e) /\ 1 \in 1..Len(e)
  BY <1>1
<1>3. without = upper \o lower
  BY DEF RemoveAt
<1>4. upper \in Seq(V) /\ lower \in Seq(V)
  BY <1>1, <1>2, SubSeqProperties
<1>5. <<e[n + 1]>> \in Seq(V)
  BY <1>1, <1>2
<1>6. swapped \in Seq(V)
  BY <1>1, <1>2
<1>7. /\ Rolled(m, n) = WithStack(m, <<e[n + 1]>> \o without)
      /\ Dropped(m, n) = WithStack(m, without)
      /\ Swapped(m, n) = WithStack(m, swapped)
  BY DEF Rolled, Dropped, Swapped, WithStack
<1> HIDE DEF e, V, without, swapped, upper, lower
<1>8. without \in Seq(V)
  BY <1>3, <1>4, ConcatProperties
<1>9. <<e[n + 1]>> \o without \in Seq(V)
  BY <1>5, <1>8, ConcatProperties
<1> QED BY <1>6, <1>7, <1>8, <1>9, Restacked DEF V

LEMMA PushSound ==
  ASSUME SoundInv, Room(mem), kit \in DOMAIN Kits, NEW op \in Constants, NEW m \in PushAfter(op)
  PROVE  Outcome(m)
<1>1. Kits[kit].ints \subseteq Int /\ Kits[kit].data \subseteq Seq(Byte)
  BY KitsAssumption
<1>2. Sound(Machine) /\ Room(Machine.mem)
  BY TheMachine
<1>3. CASE op = "PUSH"
  <2> PICK n \in Kits[kit].ints : m = PushedInt(Machine, n)
    BY <1>3 DEF PushAfter
  <2> QED BY <1>1, <1>2, PushedIntSound DEF Outcome, GoesOn
<1>4. CASE op # "PUSH"
  <2> PICK b \in Kits[kit].data : m = PushedBytes(Machine, b)
    BY <1>4 DEF PushAfter
  <2> QED BY <1>1, <1>2, PushedBytesSound DEF Outcome, GoesOn
<1> QED BY <1>3, <1>4

LEMMA AltSound ==
  ASSUME NEW m, Sound(m), NEW items \in Seq(Values(m.mem))
  PROVE  Sound(WithAlt(m, items)) /\ WithAlt(m, items).mem = m.mem
<1> DEFINE x == WithAlt(m, items)
<1>1. /\ Whole(m) /\ m.mem \in Memory /\ ListsSound(m.mem) /\ m.estack \in Seq(Values(m.mem))
      /\ \A k \in DOMAIN m.storage : m.storage[k] \in Slices(m.mem)
  BY DEF Sound
<1>2. /\ Whole(x) /\ x.mem = m.mem /\ x.estack = m.estack /\ x.astack = items
      /\ x.storage = m.storage /\ x.written = m.written /\ x.spoilt = m.spoilt
  BY <1>1, WithAltIs
<1> HIDE DEF x
<1>3. Follows(m, x)
  BY <1>1, <1>2, GrowsSame DEF Follows
<1>4. Sound(x)
  BY <1>1, <1>2, <1>3, FollowsSound
<1> QED BY <1>2, <1>4 DEF x

\* A number is taken off the stack, and says how far down it goes.
Below(lowest) ==
  /\ Len(estack) > 0 /\ IsPrimitive(estack[1])
  /\ lowest <= WordOf(Machine, estack[1]) /\ WordOf(Machine, estack[1]) < Len(estack) - 1 + lowest

LEMMA BelowIs ==
  ASSUME SoundInv, NEW lowest \in 0..1, Below(lowest)
  PROVE  LET n == WordOf(Machine, estack[1])
             r == Popped(Machine, 1)
         IN /\ n \in Nat /\ lowest <= n /\ n <= Len(estack) - 2 + lowest /\ Len(estack) \in Nat
            /\ Len(estack) > 1
            /\ Sound(r) /\ r.mem = mem /\ Len(r.estack) = Len(estack) - 1
<1>1. Len(estack) \in Nat /\ 1 \in 1..Len(estack) /\ IsPrimitive(estack[1])
  BY TheMachine DEF Below
<1>2. WordOf(Machine, estack[1]) \in Int
  BY <1>1, Operands
<1> DEFINE n == WordOf(Machine, estack[1])
<1>3. n \in Int /\ lowest <= n /\ n < Len(estack) - 1 + lowest
  BY <1>2 DEF Below
<1> HIDE DEF n
<1>4. n \in Nat /\ lowest <= n /\ n <= Len(estack) - 2 + lowest /\ Len(estack) > 1
  BY <1>1, <1>3
<1>5. 1 \in 0..Len(estack)
  BY <1>1
<1> QED BY <1>1, <1>4, <1>5, PoppedMachine DEF n

LEMMA StackOpSound ==
  ASSUME SoundInv, Room(mem), NEW op \in StackOps
  PROVE  Outcome(StackAfter(op))
<1> DEFINE height == Len(estack)
           r == Popped(Machine, 1)
           n == WordOf(Machine, estack[1])
<1>1. /\ Sound(Machine) /\ Machine.mem = mem /\ Machine.estack = estack /\ height \in Nat
      /\ astack \in Seq(Values(mem))
  BY TheMachine
<1>2. \A i \in 1..height : estack[i] \in Values(mem)
  BY Operands
<1>3. CASE op \in {"DUP", "OVER", "TUCK"}
  <2>1. op = "DUP" => StackAfter(op) = Ok(height >= 1, Placed(Machine, estack[1], 1))
    BY DEF StackAfter
  <2>2. op = "OVER" => StackAfter(op) = Ok(height >= 2, Placed(Machine, estack[2], 1))
    BY DEF StackAfter
  <2>3. op = "TUCK" => StackAfter(op) = Ok(height >= 2, Placed(Machine, estack[1], 3))
    BY DEF StackAfter
  <2>4. ASSUME NEW i \in 1..height, NEW j \in 1..(height + 1)
        PROVE  Sound(Placed(Machine, estack[i], j))
    BY <1>1, <1>2, PlacedStays
  <2>5. height >= 1 => Sound(Placed(Machine, estack[1], 1))
    BY <1>1, <2>4
  <2>6. height >= 2 => Sound(Placed(Machine, estack[2], 1)) /\ Sound(Placed(Machine, estack[1], 3))
    BY <1>1, <2>4
  <2> QED BY <1>3, <2>1, <2>2, <2>3, <2>5, <2>6, OkSound
<1>4. CASE op \in {"SWAP", "ROT", "NIP", "DROP"}
  <2>1. op = "SWAP" => StackAfter(op) = Ok(height >= 2, Swapped(Machine, 1))
    BY DEF StackAfter
  <2>2. op = "ROT" => StackAfter(op) = Ok(height >= 3, Rolled(Machine, 2))
    BY DEF StackAfter
  <2>3. op = "NIP" => StackAfter(op) = Ok(height >= 2, Dropped(Machine, 1))
    BY DEF StackAfter
  <2>4. op = "DROP" => StackAfter(op) = Ok(height >= 1, Dropped(Machine, 0))
    BY DEF StackAfter
  <2>5. height >= 1 => Sound(Dropped(Machine, 0))
    BY <1>1, RolledSound
  <2>6. height >= 2 => Sound(Swapped(Machine, 1)) /\ Sound(Dropped(Machine, 1))
    BY <1>1, RolledSound
  <2>7. height >= 3 => Sound(Rolled(Machine, 2))
    BY <1>1, RolledSound
  <2> QED BY <1>1, <1>4, <2>1, <2>2, <2>3, <2>4, <2>5, <2>6, <2>7, OkSound
<1>5. CASE op = "DEPTH"
  <2>1. StackAfter(op) = PushedInt(Machine, height)
    BY <1>5 DEF StackAfter
  <2> QED BY <1>1, <2>1, PushedIntSound DEF Outcome, GoesOn
<1>6. CASE op \in {"PICK", "ROLL", "XDROP", "XSWAP"}
  <2>1. op = "PICK" => StackAfter(op) = Ok(Below(0), Placed(r, estack[n + 2], 1))
    BY DEF StackAfter, Below
  <2>2. op = "ROLL" => StackAfter(op) = Ok(Below(0), Rolled(r, n))
    BY DEF StackAfter, Below
  <2>3. op = "XDROP" => StackAfter(op) = Ok(Below(0), Dropped(r, n))
    BY DEF StackAfter, Below
  <2>4. op = "XSWAP" => StackAfter(op) = Ok(Below(0), Swapped(r, n))
    BY DEF StackAfter, Below
  <2>5. Below(0) => /\ n \in 0..(Len(r.estack) - 1) /\ n + 2 \in 1..height
                    /\ 1 \in 1..(Len(r.estack) + 1) /\ Sound(r) /\ r.mem = mem
    BY BelowIs
  <2> HIDE DEF n, r
  <2>6. Below(0) => Sound(Placed(r, estack[n + 2], 1))
    BY <1>2, <2>5, PlacedStays
  <2>7. Below(0) => Sound(Rolled(r, n)) /\ Sound(Dropped(r, n)) /\ Sound(Swapped(r, n))
    BY <2>5, RolledSound
  <2> QED BY <1>6, <2>1, <2>2, <2>3, <2>4, <2>6, <2>7, OkSound DEF n, r
<1>7. CASE op = "XTUCK"
  <2>1. StackAfter(op) = Ok(Below(1), Placed(r, estack[2], n + 1))
    BY <1>7 DEF StackAfter, Below
  <2>2. Below(1) => /\ n + 1 \in 1..(Len(r.estack) + 1) /\ 2 \in 1..height
                    /\ Sound(r) /\ r.mem = mem
    BY BelowIs
  <2> HIDE DEF n, r
  <2>3. Below(1) => Sound(Placed(r, estack[2], n + 1))
    BY <1>2, <2>2, PlacedStays
  <2> QED BY <2>1, <2>3, OkSound DEF n, r
<1>8. CASE op = "TOALTSTACK"
  <2> DEFINE x == WithAlt(r, <<estack[1]>> \o astack)
  <2>1. height >= 1 => Sound(r) /\ r.mem = mem /\ r.astack = astack
    BY <1>1, PoppedMachine
  <2>2. StackAfter(op) = Ok(height >= 1, [r EXCEPT !.astack = <<estack[1]>> \o @])
    BY <1>8 DEF StackAfter
  <2>3. height >= 1 => x = [r EXCEPT !.astack = <<estack[1]>> \o @]
    BY <2>1 DEF WithAlt
  <2> HIDE DEF r
  <2>4. ASSUME height >= 1 PROVE Sound(x)
    <3>1. <<estack[1]>> \in Seq(Values(mem))
      BY <1>1, <1>2, <2>4
    <3>2. <<estack[1]>> \o astack \in Seq(Values(mem))
      BY <1>1, <3>1, ConcatProperties
    <3> QED BY <2>1, <2>4, <3>2, AltSound
  <2> QED BY <2>2, <2>3, <2>4, OkSound
<1>9. CASE op = "FROMALTSTACK"
  <2> DEFINE x == WithAlt(Machine, Tail(astack))
  <2>1. StackAfter(op) = Ok(astack # <<>>, Pushed([Machine EXCEPT !.astack = Tail(@)], Head(astack)))
    BY <1>9 DEF StackAfter
  <2>2. x = [Machine EXCEPT !.astack = Tail(@)]
    BY TheMachine DEF WithAlt
  <2>3. ASSUME astack # <<>> PROVE Sound(Pushed(x, Head(astack)))
    <3>1. Tail(astack) \in Seq(Values(mem)) /\ Head(astack) \in Values(mem)
      BY <1>1, <2>3, HeadTailProperties
    <3>2. Sound(x) /\ x.mem = mem
      BY <1>1, <3>1, AltSound
    <3> HIDE DEF x
    <3> QED BY <3>1, <3>2, PushedSound
  <2> QED BY <2>1, <2>2, <2>3, OkSound
<1>10. CASE op = "DUPFROMALTSTACK"
  <2>1. StackAfter(op) = Ok(astack # <<>>, Placed(Machine, Head(astack), 1))
    BY <1>10 DEF StackAfter
  <2>2. astack # <<>> => Head(astack) \in Values(mem)
    BY <1>1, HeadTailProperties
  <2>3. astack # <<>> => Sound(Placed(Machine, Head(astack), 1))
    BY <1>1, <2>2, PlacedStays
  <2> QED BY <2>1, <2>3, OkSound
<1> QED BY <1>3, <1>4, <1>5, <1>6, <1>7, <1>8, <1>9, <1>10 DEF StackOps

LEMMA CatSound ==
  ASSUME SoundInv, RoomForTwo(mem), NEW grow \in 0..1
  PROVE  Outcome(CatAfter(grow))
<1> DEFINE added == Bytes(Machine, estack[1])
           r == Popped(Machine, 2)
           s == AsSlice(r, estack[2])
           fits == Len(Bytes(Machine, estack[2])) + Len(added) <= MaxItemSize
<1>1. CatAfter(grow) = Ok(Primitives(2) /\ fits, AppendedTo(s.m, s.item, added, grow))
  BY DEF CatAfter
<1>2. ASSUME Primitives(2) PROVE Sound(AppendedTo(s.m, s.item, added, grow))
  <2>1. Len(estack) \in Nat /\ 1 \in 1..Len(estack) /\ 2 \in 1..Len(estack) /\ 2 \in 0..Len(estack)
    BY <1>2, TheMachine DEF Primitives
  <2>2. IsPrimitive(estack[1]) /\ IsPrimitive(estack[2])
    BY <1>2 DEF Primitives
  <2>3. added \in Seq(Byte) /\ estack[2] \in Values(mem)
    BY <2>1, <2>2, Operands
  <2>4. Sound(r) /\ r.mem = mem
    BY <2>1, PoppedMachine
  <2>5. Room(mem)
    BY DEF Room, RoomForTwo
  <2> HIDE DEF r
  <2>6. GoesOn(r, s.m) /\ s.item \in Slices(s.m.mem) /\ Room(s.m.mem)
    BY <2>2, <2>3, <2>4, <2>5, AsSliceSound DEF Copies
  <2> HIDE DEF s, added
  <2> QED BY <2>3, <2>6, AppendedSound DEF GoesOn
<1> HIDE DEF fits
<1> QED BY <1>1, <1>2, OkSound

LEMMA PartSound ==
  ASSUME NEW m, Sound(m), Room(m.mem), NEW item \in Values(m.mem), IsPrimitive(item),
         NEW off \in Nat, NEW len \in Nat, off + len <= Len(Bytes(m, item))
  PROVE  Sound(Part(m, item, off, len))
<1> DEFINE s == AsSlice(m, item)
           slice == s.item
           part == SliceOf(slice.at, slice.off + off, len)
<1>1. GoesOn(m, s.m) /\ slice \in Slices(s.m.mem) /\ BytesOf(s.m, slice) = Bytes(m, item)
  BY AsSliceSound DEF Copies
<1>2. Part(m, item, off, len) = Pushed(s.m, part)
  BY DEF Part
<1> HIDE DEF s
<1>3. Sound(s.m) /\ s.m.mem \in Memory
  BY <1>1 DEF GoesOn, Sound
<1>4. slice \in Values(s.m.mem) /\ slice.is = "bytes"
  BY <1>1 DEF Slices
<1>5. /\ slice.at \in Addresses /\ slice.off \in Nat /\ slice.len \in Nat
      /\ s.m.mem[slice.at] \in [holds : {"bytes"}, bytes : Seq(Byte)]
      /\ slice.off + slice.len <= Len(s.m.mem[slice.at].bytes)
      /\ Len(BytesOf(s.m, slice)) = slice.len
  BY <1>3, <1>4, SliceHolds
<1>6. off + len <= slice.len
  BY <1>1, <1>5
<1> HIDE DEF slice
<1>7. /\ part \in Items /\ part.is = "bytes" /\ part.at = slice.at
      /\ part.off = slice.off + off /\ part.len = len
  <2>1. slice.off + off \in Nat
    BY <1>5
  <2> QED BY <1>5, <2>1, SliceOfIs
<1> HIDE DEF part
<1>8. part.off + part.len <= Len(s.m.mem[slice.at].bytes)
  <2> DEFINE whole == Len(s.m.mem[slice.at].bytes)
  <2>1. whole \in Nat /\ slice.off + slice.len <= whole
    BY <1>5
  <2> HIDE DEF whole
  <2>2. (slice.off + off) + len <= whole
    BY <1>5, <1>6, <2>1
  <2> QED BY <1>7, <2>2 DEF whole
<1>9. part \in Values(s.m.mem)
  BY <1>5, <1>7, <1>8 DEF Values, Fitting
<1> QED BY <1>2, <1>3, <1>9, PushedSound

\* Operands, popped: what an instruction that takes n of them begins with.
LEMMA Taken ==
  ASSUME SoundInv, NEW n \in Nat, Primitives(n)
  PROVE  /\ Sound(Popped(Machine, n)) /\ Popped(Machine, n).mem = mem
         /\ \A i \in 1..n :
              /\ estack[i] \in Values(mem) /\ IsPrimitive(estack[i])
              /\ BigInt(Machine, estack[i]) \in Int /\ WordOf(Machine, estack[i]) \in Int
              /\ Bytes(Machine, estack[i]) \in Seq(Byte) /\ Len(Bytes(Machine, estack[i])) \in Nat
              /\ Bytes(Popped(Machine, n), estack[i]) = Bytes(Machine, estack[i])
              /\ BigInt(Popped(Machine, n), estack[i]) = BigInt(Machine, estack[i])
<1>1. Len(estack) \in Nat /\ n <= Len(estack) /\ n \in 0..Len(estack)
  BY TheMachine DEF Primitives
<1>2. Sound(Popped(Machine, n)) /\ Popped(Machine, n).mem = mem /\ Machine.mem = mem
  BY <1>1, PoppedMachine, TheMachine
<1> SUFFICES ASSUME NEW i \in 1..n
             PROVE  /\ estack[i] \in Values(mem) /\ IsPrimitive(estack[i])
                    /\ BigInt(Machine, estack[i]) \in Int /\ WordOf(Machine, estack[i]) \in Int
                    /\ Bytes(Machine, estack[i]) \in Seq(Byte)
                    /\ Len(Bytes(Machine, estack[i])) \in Nat
                    /\ Bytes(Popped(Machine, n), estack[i]) = Bytes(Machine, estack[i])
                    /\ BigInt(Popped(Machine, n), estack[i]) = BigInt(Machine, estack[i])
  BY <1>2
<1>3. i \in 1..Len(estack) /\ IsPrimitive(estack[i])
  BY <1>1 DEF Primitives
<1>4. /\ Bytes(Popped(Machine, n), estack[i]) = Bytes(Machine, estack[i])
      /\ BigInt(Popped(Machine, n), estack[i]) = BigInt(Machine, estack[i])
  BY <1>2 DEF Bytes, BigInt, BytesOf
<1> QED BY <1>3, <1>4, Operands

LEMMA SpliceSound ==
  ASSUME SoundInv, Room(mem), NEW op \in SpliceOps
  PROVE  Outcome(SpliceAfter(op))
<1> DEFINE l == WordOf(Machine, estack[1])
           Size(i) == Len(Bytes(Machine, estack[i]))
           Lesser(a, b) == IF a < b THEN a ELSE b
<1>1. CASE op = "LEFT"
  <2> DEFINE cond == Primitives(2) /\ l >= 0
             x == Part(Popped(Machine, 2), estack[2], 0, Lesser(l, Size(2)))
  <2>1. SpliceAfter(op) = Ok(cond, x)
    BY <1>1 DEF SpliceAfter
  <2>2. ASSUME cond PROVE Sound(x)
    <3>1. /\ Sound(Popped(Machine, 2)) /\ Popped(Machine, 2).mem = mem
          /\ estack[2] \in Values(mem) /\ IsPrimitive(estack[2])
          /\ l \in Nat /\ Size(2) \in Nat
          /\ Len(Bytes(Popped(Machine, 2), estack[2])) = Size(2)
      BY <2>2, Taken
    <3> HIDE DEF l, Size
    <3>2. Lesser(l, Size(2)) \in Nat /\ 0 + Lesser(l, Size(2)) <= Size(2)
      BY <3>1
    <3> HIDE DEF Lesser
    <3> QED BY <3>1, <3>2, PartSound
  <2> HIDE DEF cond, x
  <2> QED BY <2>1, <2>2, OkSound
<1>2. CASE op = "RIGHT"
  <2> DEFINE cond == Primitives(2) /\ l >= 0 /\ l <= Size(2)
             x == Part(Popped(Machine, 2), estack[2], Size(2) - l, l)
  <2>1. SpliceAfter(op) = Ok(cond, x)
    BY <1>2 DEF SpliceAfter
  <2>2. ASSUME cond PROVE Sound(x)
    <3>1. /\ Sound(Popped(Machine, 2)) /\ Popped(Machine, 2).mem = mem
          /\ estack[2] \in Values(mem) /\ IsPrimitive(estack[2])
          /\ l \in Nat /\ Size(2) \in Nat
          /\ Len(Bytes(Popped(Machine, 2), estack[2])) = Size(2)
      BY <2>2, Taken
    <3>2. l <= Size(2)
      BY <2>2
    <3> HIDE DEF l, Size
    <3>3. (Size(2) - l) \in Nat /\ (Size(2) - l) + l <= Size(2)
      BY <3>1, <3>2
    <3> QED BY <3>1, <3>3, PartSound
  <2> HIDE DEF cond, x
  <2> QED BY <2>1, <2>2, OkSound
<1>3. CASE op = "SUBSTR"
  <2> DEFINE o == WordOf(Machine, estack[2])
             last == Int64(l + o)
             r == Popped(Machine, 3)
             cond == Primitives(3) /\ l >= 0 /\ o >= 0 /\ (o <= Size(3) => o <= last)
             part == Part(r, estack[3], o, Lesser(last, Size(3)) - o)
             x == IF o > Size(3) THEN PushedBytes(r, <<>>) ELSE part
  <2>1. SpliceAfter(op) = Ok(cond, x)
    BY <1>3 DEF SpliceAfter
  <2>2. ASSUME cond PROVE Sound(x)
    <3>1. /\ Sound(r) /\ r.mem = mem
          /\ estack[3] \in Values(mem) /\ IsPrimitive(estack[3])
          /\ l \in Nat /\ o \in Nat /\ Size(3) \in Nat
          /\ Len(Bytes(r, estack[3])) = Size(3)
      BY <2>2, Taken
    <3>4. last \in Int
      BY <3>1, Int64Is
    <3>5. o <= Size(3) => o <= last
      BY <2>2
    <3> HIDE DEF l, o, last, r, Size
    <3>2. CASE o > Size(3)
      <4>1. <<>> \in Seq(Byte)
        OBVIOUS
      <4>2. Sound(PushedBytes(r, <<>>))
        BY <3>1, <4>1, PushedBytesSound DEF GoesOn
      <4> QED BY <3>2, <4>2
    <3>3. CASE ~(o > Size(3))
      <4> DEFINE n == Lesser(last, Size(3)) - o
      <4>1. n \in Nat /\ o + n <= Size(3)
        BY <3>1, <3>3, <3>4, <3>5
      <4> HIDE DEF n
      <4>2. Sound(part)
        BY <3>1, <4>1, PartSound DEF n
      <4> QED BY <3>3, <4>2
    <3> QED BY <3>2, <3>3
  <2> HIDE DEF cond, x
  <2> QED BY <2>1, <2>2, OkSound
<1>4. CASE op = "SIZE"
  <2>1. SpliceAfter(op) = Ok(Primitives(1), PushedInt(Popped(Machine, 1), Size(1)))
    BY <1>4 DEF SpliceAfter
  <2>2. ASSUME Primitives(1) PROVE Sound(PushedInt(Popped(Machine, 1), Size(1)))
    <3>1. Sound(Popped(Machine, 1)) /\ Popped(Machine, 1).mem = mem /\ Size(1) \in Int
      BY <2>2, Taken
    <3> HIDE DEF Size
    <3> QED BY <3>1, PushedIntSound DEF GoesOn
  <2> QED BY <2>1, <2>2, OkSound
<1> QED BY <1>1, <1>2, <1>3, <1>4 DEF SpliceOps

LEMMA InPlaceSound ==
  ASSUME SoundInv, Room(mem), NEW op \in InPlaceOps
  PROVE  Outcome(InPlaceAfter(op))
<1> DEFINE item == estack[1]
           n == Changed(op, BigInt(Machine, item))
           x == [Machine EXCEPT !.mem[item.at] = IntCell(n)]
           y == PushedInt(Popped(Machine, 1), n)
<1>1. InPlaceAfter(op) = Ok(Primitives(1), IF item.is = "int" THEN x ELSE y)
  BY DEF InPlaceAfter
<1>2. ASSUME Primitives(1) PROVE Sound(x) \/ item.is # "int"
  <2>1. item \in Values(mem) /\ BigInt(Machine, item) \in Int
    BY <1>2, Taken
  <2>2. n \in Int
    BY <2>1 DEF InPlaceOps, Changed, Not, Magnitude
  <2>3. Sound(Machine) /\ Machine.mem = mem
    BY TheMachine
  <2> HIDE DEF n, item
  <2> QED BY <2>1, <2>2, <2>3, NumberReplaced
<1>3. ASSUME Primitives(1) PROVE Sound(y)
  <2>1. BigInt(Machine, item) \in Int /\ Sound(Popped(Machine, 1)) /\ Popped(Machine, 1).mem = mem
    BY <1>3, Taken
  <2>2. n \in Int
    BY <2>1 DEF InPlaceOps, Changed, Not, Magnitude
  <2> HIDE DEF n
  <2> QED BY <2>1, <2>2, PushedIntSound DEF GoesOn
<1> HIDE DEF x, y
<1>4. Primitives(1) => Sound(IF item.is = "int" THEN x ELSE y)
  BY <1>2, <1>3
<1> QED BY <1>1, <1>4, OkSound

LEMMA PushedBool ==
  ASSUME NEW m, Sound(m), NEW b \in BOOLEAN
  PROVE  Sound(Pushed(m, BoolOf(b)))
<1>1. BoolOf(b) \in Values(m.mem)
  BY DEF BoolOf, Values, Items, Fitting
<1> HIDE DEF BoolOf
<1> QED BY <1>1, PushedSound

\* An instruction that takes n numbers and pushes one.
LEMMA NumberMade ==
  ASSUME SoundInv, Room(mem), NEW n \in Nat, Primitives(n), NEW i \in Int
  PROVE  Sound(PushedInt(Popped(Machine, n), i))
<1>1. Sound(Popped(Machine, n)) /\ Popped(Machine, n).mem = mem
  BY Taken
<1> QED BY <1>1, PushedIntSound DEF GoesOn

LEMMA UnarySound ==
  ASSUME SoundInv, Room(mem), NEW op \in UnaryOps
  PROVE  Outcome(UnaryAfter(op))
<1> DEFINE n == BigInt(Machine, estack[1])
           r == Popped(Machine, 1)
<1>1. Primitives(1) => n \in Int /\ Sound(r)
  BY Taken
<1>2. CASE op = "INC"
  <2> DEFINE i == n + 1
  <2>1. UnaryAfter(op) = Ok(Primitives(1) /\ Fits(i), PushedInt(r, i))
    BY <1>2 DEF UnaryAfter
  <2>2. Primitives(1) => i \in Int
    BY <1>1
  <2> HIDE DEF i
  <2>3. Primitives(1) => Sound(PushedInt(r, i))
    BY <2>2, NumberMade
  <2> QED BY <2>1, <2>3, OkSound
<1>3. CASE op = "DEC"
  <2> DEFINE i == n - 1
  <2>1. UnaryAfter(op) = Ok(Primitives(1) /\ Fits(i), PushedInt(r, i))
    BY <1>3 DEF UnaryAfter
  <2>2. Primitives(1) => i \in Int
    BY <1>1
  <2> HIDE DEF i
  <2>3. Primitives(1) => Sound(PushedInt(r, i))
    BY <2>2, NumberMade
  <2> QED BY <2>1, <2>3, OkSound
<1>4. CASE op = "SIGN"
  <2>1. UnaryAfter(op) = Ok(Primitives(1), PushedInt(r, Sign(n)))
    BY <1>4 DEF UnaryAfter
  <2>2. Sign(n) \in Int
    BY DEF Sign
  <2> HIDE DEF n
  <2> QED BY <2>1, <2>2, NumberMade, OkSound
<1>5. CASE op = "NZ"
  <2>1. UnaryAfter(op) = Ok(Primitives(1), Pushed(r, BoolOf(n # 0)))
    BY <1>5 DEF UnaryAfter
  <2>2. (n # 0) \in BOOLEAN
    OBVIOUS
  <2> HIDE DEF n, r
  <2>3. Primitives(1) => Sound(Pushed(r, BoolOf(n # 0)))
    BY <1>1, <2>2, PushedBool
  <2> QED BY <2>1, <2>3, OkSound
<1>6. CASE op = "NOT"
  <2> DEFINE b == ~Bool(Machine, estack[1])
  <2>1. UnaryAfter(op) = Ok(Len(estack) >= 1, Pushed(r, BoolOf(b)))
    BY <1>6 DEF UnaryAfter
  <2>2. b \in BOOLEAN
    OBVIOUS
  <2>3. Len(estack) >= 1 => Sound(r)
    BY TheMachine, PoppedMachine
  <2> HIDE DEF b, r
  <2>4. Len(estack) >= 1 => Sound(Pushed(r, BoolOf(b)))
    BY <2>2, <2>3, PushedBool
  <2> QED BY <2>1, <2>4, OkSound
<1> QED BY <1>2, <1>3, <1>4, <1>5, <1>6 DEF UnaryOps

LEMMA ChosenSound ==
  ASSUME NEW m, Sound(m), Room(m.mem), NEW item \in Values(m.mem), IsPrimitive(item)
  PROVE  Sound(Chosen(m, item))
<1>1. CASE item.is = "int"
  BY <1>1, PushedSound DEF Chosen
<1>2. CASE item.is # "int"
  <2>1. BigInt(m, item) \in Int
    BY Worth DEF Sound
  <2> QED BY <1>2, <2>1, PushedIntSound DEF Chosen, GoesOn
<1> QED BY <1>1, <1>2

LEMMA ComputeSound ==
  ASSUME SoundInv, Room(mem), NEW op \in Bitwise2 \union Arithmetic2 \union Shifts,
         NEW b, Primitives(2) => b \in Int
  PROVE  LET a == BigInt(Machine, estack[2])
         IN Outcome(Ok(Primitives(2) /\ Computes(op, a, b),
                       PushedInt(Popped(Machine, 2), Computed(op, a, b))))
<1> DEFINE a == BigInt(Machine, estack[2])
           cond == Primitives(2) /\ Computes(op, a, b)
           n == Computed(op, a, b)
<1>1. Primitives(2) => a \in Int /\ b \in Int
  BY Taken
<1> HIDE DEF a
<1>2. cond => n \in Int
  BY <1>1, ComputedType
<1> HIDE DEF n
<1>3. cond => Sound(PushedInt(Popped(Machine, 2), n))
  BY <1>2, NumberMade
<1> HIDE DEF cond
<1>4. Outcome(Ok(cond, PushedInt(Popped(Machine, 2), n)))
  BY <1>3, OkSound
<1> QED BY <1>4 DEF cond, n, a

LEMMA ComparedType ==
  ASSUME NEW op \in Comparisons, NEW a, NEW b
  PROVE  Compared(op, a, b) \in BOOLEAN
<1>1. CASE op = "NUMEQUAL"
  <2>1. Compared(op, a, b) = (a = b)
    BY <1>1 DEF Compared
  <2> QED BY <2>1
<1>2. CASE op = "NUMNOTEQUAL"
  <2>1. Compared(op, a, b) = (a # b)
    BY <1>2 DEF Compared
  <2> QED BY <2>1
<1>3. CASE op = "LT"
  <2>1. Compared(op, a, b) = (a < b)
    BY <1>3 DEF Compared
  <2> QED BY <2>1
<1>4. CASE op = "GT"
  <2>1. Compared(op, a, b) = (a > b)
    BY <1>4 DEF Compared
  <2> QED BY <2>1
<1>5. CASE op = "LTE"
  <2>1. Compared(op, a, b) = (a <= b)
    BY <1>5 DEF Compared
  <2> QED BY <2>1
<1>6. CASE op = "GTE"
  <2>1. Compared(op, a, b) = (a >= b)
    BY <1>6 DEF Compared
  <2> QED BY <2>1
<1> QED BY <1>1, <1>2, <1>3, <1>4, <1>5, <1>6 DEF Comparisons

LEMMA BinarySound ==
  ASSUME SoundInv, Room(mem), NEW op \in BinaryOps
  PROVE  Outcome(BinaryAfter(op))
<1> DEFINE b == BigInt(Machine, estack[1])
           a == BigInt(Machine, estack[2])
           by == Int64(b)
           r == Popped(Machine, 2)
           t1 == Bool(Machine, estack[1])
           t2 == Bool(Machine, estack[2])
<1>1. /\ Primitives(2) => Sound(r) /\ r.mem = mem
      /\ Len(estack) >= 2 => Sound(r)
  BY TheMachine, PoppedMachine, Taken
<1>0. Primitives(2) => b \in Int /\ by \in Int
  BY Taken, Int64Is
<1>2. ASSUME NEW cond, cond => Sound(r), NEW v \in BOOLEAN
      PROVE  Outcome(Ok(cond, Pushed(r, BoolOf(v))))
  <2>1. cond => Sound(Pushed(r, BoolOf(v)))
    BY <1>2, PushedBool
  <2> QED BY <2>1, OkSound
<1>3. CASE op \in Shifts
  <2>1. CASE Primitives(1) /\ by = 0
    <3>1. BinaryAfter(op) = Popped(Machine, 1)
      BY <1>3, <2>1 DEF BinaryAfter, Shifts, Bitwise2, Arithmetic2, Comparisons
    <3> QED BY <2>1, <3>1, Taken DEF Outcome
  <2>2. CASE ~(Primitives(1) /\ by = 0)
    <3>1. BinaryAfter(op) = Ok(Primitives(2) /\ Computes(op, a, by), PushedInt(r, Computed(op, a, by)))
      BY <1>3, <2>2 DEF BinaryAfter, Shifts, Bitwise2, Arithmetic2, Comparisons
    <3> HIDE DEF by
    <3> QED BY <1>0, <1>3, <3>1, ComputeSound
  <2> QED BY <2>1, <2>2
<1>4. CASE op \in Bitwise2 \union Arithmetic2
  <2>1. BinaryAfter(op) = Ok(Primitives(2) /\ Computes(op, a, b), PushedInt(r, Computed(op, a, b)))
    BY <1>4 DEF BinaryAfter, Shifts, Bitwise2, Arithmetic2, Comparisons
  <2> HIDE DEF b
  <2> QED BY <1>0, <1>4, <2>1, ComputeSound
<1>5. CASE op \in Comparisons
  <2>1. BinaryAfter(op) = Ok(Primitives(2), Pushed(r, BoolOf(Compared(op, a, b))))
    BY <1>5 DEF BinaryAfter, Shifts, Bitwise2, Arithmetic2, Comparisons
  <2> HIDE DEF a, b, r
  <2>2. Compared(op, a, b) \in BOOLEAN
    BY <1>5, ComparedType
  <2> QED BY <1>1, <1>2, <2>1, <2>2
<1>6. CASE op \in {"MIN", "MAX"}
  <2> DEFINE i == IF op = "MIN" THEN IF a > b THEN 1 ELSE 2 ELSE IF a < b THEN 1 ELSE 2
  <2>1. BinaryAfter(op) = Ok(Primitives(2), Chosen(r, estack[i]))
    BY <1>6 DEF BinaryAfter, Shifts, Bitwise2, Arithmetic2, Comparisons
  <2>2. i \in 1..2
    OBVIOUS
  <2> HIDE DEF i, r
  <2>3. ASSUME Primitives(2) PROVE Sound(Chosen(r, estack[i]))
    <3>1. estack[i] \in Values(mem) /\ IsPrimitive(estack[i])
      BY <2>2, <2>3, Taken
    <3> QED BY <1>1, <2>3, <3>1, ChosenSound
  <2> QED BY <2>1, <2>3, OkSound
<1>7. CASE op = "WITHIN"
  <2> DEFINE v == a <= BigInt(Machine, estack[3]) /\ BigInt(Machine, estack[3]) < b
  <2>1. BinaryAfter(op) = Ok(Primitives(3), Pushed(Popped(Machine, 3), BoolOf(v)))
    BY <1>7 DEF BinaryAfter, Shifts, Bitwise2, Arithmetic2, Comparisons
  <2>2. v \in BOOLEAN
    OBVIOUS
  <2> HIDE DEF v
  <2>3. Primitives(3) => Sound(Pushed(Popped(Machine, 3), BoolOf(v)))
    BY <2>2, Taken, PushedBool
  <2> QED BY <2>1, <2>3, OkSound
<1>8. CASE op = "BOOLAND"
  <2>1. BinaryAfter(op) = Ok(Len(estack) >= 2, Pushed(r, BoolOf(t1 /\ t2)))
    BY <1>8 DEF BinaryAfter, Shifts, Bitwise2, Arithmetic2, Comparisons
  <2>2. (t1 /\ t2) \in BOOLEAN
    OBVIOUS
  <2> HIDE DEF r, t1, t2
  <2> QED BY <1>1, <1>2, <2>1, <2>2
<1>9. CASE op = "BOOLOR"
  <2>1. BinaryAfter(op) = Ok(Len(estack) >= 2, Pushed(r, BoolOf(t1 \/ t2)))
    BY <1>9 DEF BinaryAfter, Shifts, Bitwise2, Arithmetic2, Comparisons
  <2>2. (t1 \/ t2) \in BOOLEAN
    OBVIOUS
  <2> HIDE DEF r, t1, t2
  <2> QED BY <1>1, <1>2, <2>1, <2>2
<1> QED BY <1>3, <1>4, <1>5, <1>6, <1>7, <1>8, <1>9 DEF BinaryOps

-----------------------------------------------------------------------------
(* Lists                                                                   *)

LEMMA Listed ==
  ASSUME SoundInv, NEW i \in 1..Len(estack), estack[i].is = "list"
  PROVE  /\ ItemsOf(estack[i]) \in Seq(Values(mem)) /\ Len(ItemsOf(estack[i])) \in Nat
         /\ mem[estack[i].at].holds \in ListKinds
<1>1. estack[i] \in Values(mem)
  BY Operands
<1>2. /\ Machine.mem = mem /\ mem \in Memory /\ ListsSound(mem)
  BY TheMachine
<1>3. mem[estack[i].at].items \in Seq(Values(mem)) /\ mem[estack[i].at].holds \in ListKinds
  BY <1>1, <1>2, ListHolds
<1> QED BY <1>3 DEF ItemsOf

LEMMA ListMade ==
  ASSUME NEW m, Sound(m), Room(m.mem), NEW kind \in ListKinds, NEW items \in Seq(Values(m.mem)),
         NEW shown
  PROVE  Sound(PushedList(Lent(m, shown), kind, items))
<1>1. Sound(Lent(m, shown)) /\ Lent(m, shown).mem = m.mem
  BY LentSound DEF GoesOn
<1> QED BY <1>1, PushedListSound DEF GoesOn

LEMMA NewListSound ==
  ASSUME SoundInv, Room(mem), NEW op, NEW kind \in ListKinds
  PROVE  Outcome(NewListAfter(op, kind))
<1> DEFINE item == estack[1]
           r == Popped(Machine, 1)
           n == WordOf(Machine, item)
<1>1. CASE Len(estack) = 0
  <2>1. NewListAfter(op, kind) = Failed
    BY <1>1, TheMachine DEF NewListAfter, Is
  <2> QED BY <2>1 DEF Outcome
<1>2. CASE Len(estack) # 0
  <2>1. 1 \in 1..Len(estack) /\ 1 \in 0..Len(estack)
    BY <1>2, TheMachine
  <2>2. Sound(r) /\ r.mem = mem /\ item \in Values(mem)
    BY <2>1, PoppedMachine, Operands
  <2>3. CASE item.is = "list" /\ mem[item.at].holds = kind
    <3>1. NewListAfter(op, kind) = Pushed(r, item)
      BY <1>2, <2>1, <2>3 DEF NewListAfter, Is
    <3> HIDE DEF r, item
    <3> QED BY <2>2, <3>1, PushedSound DEF Outcome
  <2>4. CASE item.is = "list" /\ mem[item.at].holds # kind
    <3> DEFINE items == ItemsOf(item)
    <3>1. NewListAfter(op, kind) = PushedList(Lent(r, ToSet(items)), kind, items)
      BY <1>2, <2>1, <2>4 DEF NewListAfter, Is
    <3>2. items \in Seq(Values(mem))
      BY <2>1, <2>4, Listed
    <3> HIDE DEF r, items
    <3>3. Sound(PushedList(Lent(r, ToSet(items)), kind, items))
      BY <2>2, <3>2, ListMade
    <3> QED BY <3>1, <3>3 DEF Outcome
  <2>5. CASE item.is # "list"
    <3> DEFINE items == [i \in 1..n |-> BoolOf(FALSE)]
               cond == IsPrimitive(item) /\ 0 <= n /\ n <= MaxArraySize
    <3>1. NewListAfter(op, kind) = Ok(cond, PushedList(r, kind, items))
      BY <1>2, <2>1, <2>5 DEF NewListAfter, Is
    <3>2. ASSUME cond PROVE Sound(PushedList(r, kind, items))
      <4>1. n \in Int
        BY <2>1, <3>2, Operands
      <4>2. n \in Nat
        BY <3>2, <4>1
      <4>3. BoolOf(FALSE) \in Values(mem)
        BY DEF BoolOf, Values, Items, Fitting
      <4> HIDE DEF n
      <4> DEFINE f == BoolOf(FALSE)
                 V == Values(mem)
      <4>4. items \in Seq(V)
        <5>1. f \in V
          BY <4>3
        <5> HIDE DEF f, V
        <5>2. items = [i \in 1..n |-> f]
          BY DEF f
        <5> HIDE DEF items
        <5> QED BY <4>2, <5>1, <5>2
      <4> HIDE DEF items, r
      <4> QED BY <2>2, <4>4, PushedListSound DEF GoesOn
    <3> HIDE DEF cond, items
    <3> QED BY <3>1, <3>2, OkSound
  <2> QED BY <2>3, <2>4, <2>5
<1> QED BY <1>1, <1>2

LEMMA ListOpSound ==
  ASSUME SoundInv, Room(mem), NEW op \in ListOps
  PROVE  Outcome(ListAfter(op))
<1> DEFINE n == WordOf(Machine, estack[1])
<1>1. /\ Sound(Machine) /\ Machine.mem = mem /\ Machine.estack = estack
      /\ estack \in Seq(Values(mem)) /\ Len(estack) \in Nat
  BY TheMachine
<1>2. CASE op = "PACK"
  <2> DEFINE cond == Primitives(1) /\ 0 <= n /\ n < Len(estack) /\ n <= MaxArraySize
             r == Popped(Machine, n + 1)
             items == SubSeq(estack, 2, n + 1)
  <2>1. ListAfter(op) = Ok(cond, PushedList(r, "Array", items))
    BY <1>2 DEF ListAfter
  <2>2. ASSUME cond PROVE Sound(PushedList(r, "Array", items))
    <3>1. n \in Int
      BY <2>2, Taken
    <3>2. 0 <= n /\ n < Len(estack)
      BY <2>2
    <3> HIDE DEF n
    <3>3. n + 1 \in 0..Len(estack) /\ n + 1 \in Int /\ \A i \in 2..(n + 1) : i \in 1..Len(estack)
      BY <1>1, <3>1, <3>2
    <3>4. Sound(r) /\ r.mem = mem
      BY <3>3, PoppedMachine
    <3>5. \A i \in 2..(n + 1) : estack[i] \in Values(mem)
      BY <1>1, <3>3, ElementOfSeq
    <3>6. items \in Seq(Values(mem))
      BY <3>3, <3>5, SubSeqProperties
    <3>7. "Array" \in ListKinds
      BY DEF ListKinds
    <3> HIDE DEF r, items
    <3> QED BY <3>4, <3>6, <3>7, PushedListSound DEF GoesOn
  <2> HIDE DEF cond, r, items
  <2> QED BY <2>1, <2>2, OkSound
<1>3. CASE op = "UNPACK"
  <2> DEFINE items == ItemsOf(estack[1])
             s == [Machine EXCEPT !.estack = items \o Tail(@)]
             x == WithStack(Machine, items \o Tail(estack))
             y == PushedInt(Lent(x, ToSet(items)), Len(items))
  <2>1. ListAfter(op) = Ok(Is(1, "list"), PushedInt(Lent(s, ToSet(items)), Len(items)))
    BY <1>3 DEF ListAfter
  <2>2. s = x
    BY <1>1 DEF WithStack
  <2>3. ASSUME Is(1, "list") PROVE Sound(y)
    <3>1. 1 \in 1..Len(estack) /\ estack # <<>>
      BY <1>1, <2>3 DEF Is
    <3>2. items \in Seq(Values(mem)) /\ Len(items) \in Nat
      BY <2>3, <3>1, Listed DEF Is
    <3>3. Tail(estack) \in Seq(Values(mem))
      BY <1>1, <3>1, HeadTailProperties
    <3> HIDE DEF items
    <3>4. items \o Tail(estack) \in Seq(Values(mem))
      BY <3>2, <3>3, ConcatProperties
    <3>5. Sound(x) /\ x.mem = mem
      BY <1>1, <3>4, Restacked
    <3> HIDE DEF x
    <3>6. Sound(Lent(x, ToSet(items))) /\ Lent(x, ToSet(items)).mem = mem
      BY <3>5, LentSound DEF GoesOn
    <3> QED BY <3>2, <3>6, PushedIntSound DEF GoesOn
  <2> HIDE DEF s, x, items
  <2> QED BY <2>1, <2>2, <2>3, OkSound
<1>4. CASE op = "PICKITEM"
  <2> DEFINE items == ItemsOf(estack[2])
             cond == Is(2, "list") /\ IsPrimitive(estack[1]) /\ 0 <= n /\ n < Len(items)
             r == Popped(Machine, 2)
  <2>1. ListAfter(op) = Ok(cond, Picked(r, items[n + 1]))
    BY <1>4 DEF ListAfter
  <2>2. ASSUME cond PROVE Sound(Picked(r, items[n + 1]))
    <3>1. 1 \in 1..Len(estack) /\ 2 \in 1..Len(estack) /\ 2 \in 0..Len(estack)
      BY <1>1, <2>2 DEF Is
    <3>2. items \in Seq(Values(mem)) /\ Len(items) \in Nat /\ n \in Int
      BY <2>2, <3>1, Listed, Operands DEF Is
    <3>3. Sound(r) /\ r.mem = mem /\ Len(r.estack) \in Nat
      BY <3>1, PoppedMachine
    <3>4. 0 <= n /\ n < Len(items)
      BY <2>2
    <3> HIDE DEF items, n, r
    <3>5. n + 1 \in 1..Len(items)
      BY <3>2, <3>4
    <3>6. items[n + 1] \in Values(mem)
      BY <3>2, <3>5, ElementOfSeq
    <3>7. 1 \in 1..(Len(r.estack) + 1)
      BY <3>3
    <3> QED BY <3>3, <3>6, <3>7, PlacedStays DEF Picked
  <2> HIDE DEF cond, r, items
  <2> QED BY <2>1, <2>2, OkSound
<1>5. CASE op \in {"NEWARRAY", "NEWSTRUCT"}
  <2>1. /\ op = "NEWARRAY" => ListAfter(op) = NewListAfter(op, "Array")
        /\ op = "NEWSTRUCT" => ListAfter(op) = NewListAfter(op, "Struct")
    BY DEF ListAfter
  <2>2. "Array" \in ListKinds /\ "Struct" \in ListKinds
    BY DEF ListKinds
  <2> QED BY <1>5, <2>1, <2>2, NewListSound
<1> QED BY <1>2, <1>3, <1>4, <1>5 DEF ListOps

-----------------------------------------------------------------------------
(* Calls                                                                   *)

LEMMA InContextIs ==
  ASSUME SoundInv, InContext
  PROVE  /\ Len(estack) \in Nat /\ Len(estack) >= 2
         /\ Sound(Popped(Machine, 2)) /\ Popped(Machine, 2).mem = mem
         /\ Popped(Machine, 2).storage = storage
<1>1. Len(estack) \in Nat /\ Len(estack) >= 2 /\ 2 \in 0..Len(estack)
  BY TheMachine DEF InContext
<1> QED BY <1>1, PoppedMachine

LEMMA GetSound ==
  ASSUME SoundInv, Room(mem), InContext, NEW k, NEW answers \in BOOLEAN
  PROVE  Outcome(StorageGet(k, answers))
<1> DEFINE r == Popped(Machine, 2)
<1>1. Sound(r) /\ r.mem = mem /\ r.storage = storage
  BY InContextIs
<1>2. CASE k \in DOMAIN storage
  <2> DEFINE item == storage[k]
             x == Lent(r, {item})
  <2>1. StorageGet(k, answers) = Pushed(x, item)
    BY <1>2 DEF StorageGet
  <2>2. item \in Values(mem)
    BY <1>1, <1>2 DEF Sound, Slices
  <2> HIDE DEF r, item
  <2>3. Sound(x) /\ x.mem = mem
    BY <1>1, LentSound DEF GoesOn
  <2> HIDE DEF x
  <2> QED BY <2>1, <2>2, <2>3, PushedSound DEF Outcome
<1>3. CASE k \notin DOMAIN storage
  <2> DEFINE has == NodeHas(k)
             s == Stored(r, has, Len(has))
             x == Lent(s.m, {s.item})
             y == Entered(x, k, s.item)
  <2>1. has \in Seq(Byte) /\ Len(has) \in Nat
    <3>1. <<>> \in Seq(Byte)
      OBVIOUS
    <3>2. has \in Seq(Byte)
      BY <3>1, ChainAssumption DEF NodeHas
    <3> QED BY <3>2
  <2>2. StorageGet(k, answers) = Ok(answers, PushedStored([s EXCEPT !.m = Entered(Lent(@, {s.item}), k, s.item)]))
    BY <1>3 DEF StorageGet
  <2>3. PushedStored([s EXCEPT !.m = Entered(Lent(@, {s.item}), k, s.item)]) = Pushed(y, s.item)
    <3>1. s = [m |-> s.m, item |-> s.item]
      BY DEF Stored
    <3> HIDE DEF s
    <3>2. [s EXCEPT !.m = Entered(Lent(@, {s.item}), k, s.item)] = [m |-> y, item |-> s.item]
      BY <3>1
    <3> HIDE DEF y
    <3> QED BY <3>2 DEF PushedStored
  <2> HIDE DEF r, has
  <2>4. /\ Sound(s.m) /\ s.m.storage = storage
        /\ s.item \in Slices(s.m.mem) /\ BytesOf(s.m, s.item) = has
    BY <1>1, <2>1, StoredSound DEF GoesOn
  <2> HIDE DEF s
  <2>5. Sound(x) /\ x.mem = s.m.mem /\ x.storage = storage
    BY <2>4, LentSound DEF GoesOn
  <2>6. BytesOf(x, s.item) = NodeHas(k)
    BY <2>4, <2>5 DEF BytesOf, has
  <2> HIDE DEF x
  <2>7. Sound(y) /\ y.mem = s.m.mem
    BY <1>3, <2>4, <2>5, <2>6, FetchedSound
  <2> HIDE DEF y
  <2>8. Sound(Pushed(y, s.item))
    BY <2>4, <2>7, PushedSound DEF Slices
  <2> QED BY <2>2, <2>3, <2>8, OkSound
<1> QED BY <1>2, <1>3

LEMMA PutMachine ==
  ASSUME SoundInv, Room(mem), NEW k, Len(estack) >= 3, IsPrimitive(estack[3])
  PROVE  LET value == AsSlice(Popped(Machine, 3), estack[3])
             x == Wrote(Entered(value.m, k, value.item), k, BytesOf(value.m, value.item))
         IN /\ StoragePut(k) = Ok(Len(estack) >= 3 /\ IsPrimitive(estack[3]), x)
            /\ StoragePut(k) = x /\ Sound(x) /\ Len(x.estack) = Len(estack) - 3
<1> DEFINE r == Popped(Machine, 3)
           value == AsSlice(r, estack[3])
           x == Wrote(Entered(value.m, k, value.item), k, BytesOf(value.m, value.item))
<1>1. StoragePut(k) = Ok(Len(estack) >= 3 /\ IsPrimitive(estack[3]), x)
  BY DEF StoragePut
<1>2. StoragePut(k) = x
  BY <1>1 DEF Ok
<1>3. Len(estack) \in Nat /\ 3 \in 1..Len(estack) /\ 3 \in 0..Len(estack)
  BY TheMachine
<1>4. Sound(r) /\ r.mem = mem /\ Len(r.estack) = Len(estack) - 3 /\ estack[3] \in Values(mem)
  BY <1>3, PoppedMachine, Operands
<1> HIDE DEF r
<1>5. GoesOn(r, value.m) /\ value.m.estack = r.estack /\ value.item \in Slices(value.m.mem)
  BY <1>4, AsSliceSound DEF Copies
<1> HIDE DEF value
<1>6. Sound(value.m)
  BY <1>5 DEF GoesOn
<1>7. Sound(x) /\ x.estack = value.m.estack
  BY <1>5, <1>6, PutSound
<1> QED BY <1>1, <1>2, <1>4, <1>5, <1>7 DEF value, r

LEMMA StoragePutSound ==
  ASSUME SoundInv, Room(mem), NEW k
  PROVE  Outcome(StoragePut(k)) /\ Outcome(StoragePutEx(k))
<1> DEFINE cond == Len(estack) >= 3 /\ IsPrimitive(estack[3])
           put == StoragePut(k)
           condEx == Len(estack) >= 4 /\ IsPrimitive(estack[3]) /\ IsPrimitive(estack[4])
<1>1. Outcome(put)
  <2>1. CASE cond
    BY <2>1, PutMachine DEF Outcome
  <2>2. CASE ~cond
    <3>1. put = Failed
      BY <2>2 DEF StoragePut, Ok
    <3> HIDE DEF put
    <3> QED BY <3>1 DEF Outcome
  <2> QED BY <2>1, <2>2
<1>2. StoragePutEx(k) = Ok(condEx, Popped(put, 1))
  BY DEF StoragePutEx
<1>3. ASSUME condEx PROVE Sound(Popped(put, 1))
  <2>1. Len(estack) \in Nat /\ Len(estack) >= 4 /\ Len(estack) >= 3
    BY <1>3, TheMachine
  <2>2. Sound(put) /\ Len(put.estack) = Len(estack) - 3
    BY <1>3, <2>1, PutMachine
  <2> HIDE DEF put
  <2>3. 1 \in 0..Len(put.estack)
    BY <2>1, <2>2
  <2> QED BY <2>2, <2>3, PoppedSound
<1> HIDE DEF put, condEx
<1>4. Outcome(StoragePutEx(k))
  BY <1>2, <1>3, OkSound
<1> QED BY <1>1, <1>4 DEF put

LEMMA DeleteSound ==
  ASSUME SoundInv, Room(mem), InContext, NEW k
  PROVE  Outcome(StorageDelete(k))
<1> DEFINE r == Popped(Machine, 2)
           s == Stored(r, <<>>, 0)
           x == Wrote(Entered(s.m, k, s.item), k, <<>>)
<1>1. StorageDelete(k) = Ok(~estack[1].ReadOnly, x)
  BY DEF StorageDelete
<1>2. Sound(r) /\ r.mem = mem
  BY InContextIs
<1> HIDE DEF r
<1>3. <<>> \in Seq(Byte) /\ 0 \in Nat
  OBVIOUS
<1>4. Sound(s.m) /\ s.item \in Slices(s.m.mem) /\ BytesOf(s.m, s.item) = <<>>
  BY <1>2, <1>3, StoredSound DEF GoesOn
<1> HIDE DEF s
<1>5. Sound(Wrote(Entered(s.m, k, s.item), k, BytesOf(s.m, s.item)))
  BY <1>4, PutSound
<1>6. Sound(x)
  BY <1>4, <1>5
<1> HIDE DEF x
<1> QED BY <1>1, <1>6, OkSound

LEMMA StorageOpSound ==
  ASSUME SoundInv, Room(mem), NEW op \in StorageOps, NEW answers \in BOOLEAN
  PROVE  Outcome(StorageAfter(op, answers))
<1>1. CASE ~InContext
  <2>1. StorageAfter(op, answers) = Failed
    BY <1>1 DEF StorageAfter
  <2> QED BY <2>1 DEF Outcome
<1>2. CASE InContext
  <2>1. /\ op = "Storage.Get" => StorageAfter(op, answers) = StorageGet(Entry, answers)
        /\ op = "Storage.Put" => StorageAfter(op, answers) = StoragePut(Entry)
        /\ op = "Storage.PutEx" => StorageAfter(op, answers) = StoragePutEx(Entry)
        /\ op = "Storage.Delete" => StorageAfter(op, answers) = StorageDelete(Entry)
    BY <1>2 DEF StorageAfter
  <2> QED BY <1>2, <2>1, GetSound, StoragePutSound, DeleteSound DEF StorageOps
<1> QED BY <1>1, <1>2

LEMMA InteropValue ==
  ASSUME NEW c, NEW item \in Interop
  PROVE  item \in Values(c)
<1>1. item.is \notin {"int", "bytes", "list"}
  BY DEF Interop
<1> QED BY <1>1 DEF Values, Items, Fitting

LEMMA InteropFields ==
  ASSUME NEW item \in Items
  PROVE  /\ item.is = "StorageContext" => item.ScriptHash \in Seq(Byte)
         /\ item.is \in {"contract", "tx", "header", "block"} => item.hash \in Seq(Byte)
         /\ item.is \in {"header", "block"} =>
              item.PrevHash \in Seq(Byte) /\ item.Index \in Nat /\ item.Timestamp \in Nat
         /\ item.is = "block" => item.Transactions \in Seq(Seq(Byte))
BY DEF Items, Interop

LEMMA ContextIs ==
  ASSUME NEW hash \in Seq(Byte), NEW readOnly \in BOOLEAN
  PROVE  Context(hash, readOnly) \in Interop
BY DEF Context, Interop

\* A call that takes an interop item off the stack.
LEMMA TookInterop ==
  ASSUME SoundInv, NEW what, Is(1, what)
  PROVE  /\ Sound(Popped(Machine, 1)) /\ Popped(Machine, 1).mem = mem
         /\ Len(Popped(Machine, 1).estack) = Len(estack) - 1
         /\ estack[1] \in Items /\ estack[1].is = what
<1>1. Len(estack) \in Nat /\ 1 \in 1..Len(estack) /\ 1 \in 0..Len(estack)
  BY TheMachine DEF Is
<1> QED BY <1>1, PoppedMachine, Operands DEF Is

LEMMA PushedInterop ==
  ASSUME NEW m, Sound(m), NEW item \in Interop
  PROVE  Sound(Pushed(m, item))
BY PushedSound, InteropValue

LEMMA ContextOpSound ==
  ASSUME SoundInv, kit \in DOMAIN Kits, NEW op \in ContextOps
  PROVE  Outcome(ContextAfter(op))
<1> DEFINE r == Popped(Machine, 1)
<1>1. Running \in Seq(Byte) /\ Sound(Machine)
  <2>1. Kits[kit].frames \in Seq(Seq(Byte)) /\ Kits[kit].frames # <<>>
    BY KitsAssumption
  <2> QED BY <2>1, HeadTailProperties, TheMachine DEF Running
<1>2. CASE op = "Storage.GetContext"
  <2>1. ContextAfter(op) = Pushed(Machine, Context(Running, FALSE))
    BY <1>2 DEF ContextAfter
  <2> QED BY <1>1, <2>1, ContextIs, PushedInterop DEF Outcome
<1>3. CASE op = "Storage.GetReadOnlyContext"
  <2>1. ContextAfter(op) = Pushed(Machine, Context(Running, TRUE))
    BY <1>3 DEF ContextAfter
  <2> QED BY <1>1, <2>1, ContextIs, PushedInterop DEF Outcome
<1>4. CASE op = "StorageContext.AsReadOnly"
  <2> DEFINE c == Context(estack[1].ScriptHash, TRUE)
  <2>1. ContextAfter(op) = Ok(Is(1, "StorageContext"), Pushed(r, c))
    BY <1>4 DEF ContextAfter
  <2>2. ASSUME Is(1, "StorageContext") PROVE Sound(Pushed(r, c))
    <3>1. Sound(r) /\ estack[1].ScriptHash \in Seq(Byte)
      BY <2>2, TookInterop, InteropFields
    <3> QED BY <3>1, ContextIs, PushedInterop
  <2> QED BY <2>1, <2>2, OkSound
<1>5. CASE op = "Contract.GetStorageContext"
  <2> DEFINE c == Context(estack[1].hash, FALSE)
  <2>1. ContextAfter(op) = Ok(Is(1, "contract"), Pushed(r, c))
    BY <1>5 DEF ContextAfter
  <2>2. ASSUME Is(1, "contract") PROVE Sound(Pushed(r, c))
    <3>1. Sound(r) /\ estack[1].hash \in Seq(Byte)
      BY <2>2, TookInterop, InteropFields
    <3> QED BY <3>1, ContextIs, PushedInterop
  <2> QED BY <2>1, <2>2, OkSound
<1> QED BY <1>2, <1>3, <1>4, <1>5 DEF ContextOps

LEMMA ChainOpSound ==
  ASSUME SoundInv, Room(mem), NEW op \in DOMAIN ChainOps,
         NEW answer \in {NoAnswer} \union {a \in Answers : a.is = ChainOps[op]}
  PROVE  Outcome(ChainAfter(op, answer))
<1> DEFINE r == Popped(Machine, 1)
<1>1. CASE answer = NoAnswer
  <2>1. ChainAfter(op, answer) = Failed
    BY <1>1 DEF ChainAfter
  <2> QED BY <2>1 DEF Outcome
<1>2. CASE answer # NoAnswer
  <2>1. answer \in Interop /\ answer.is = ChainOps[op]
    BY <1>2, ChainAssumption
  <2>2. Primitives(1) => Sound(Pushed(r, answer))
    BY <2>1, Taken, PushedInterop
  <2> HIDE DEF r
  <2>3. CASE op \in {"Blockchain.GetBlock", "Blockchain.GetHeader"}
    <3>1. ChainAfter(op, answer) = Ok(BlockAskedFor, Pushed(r, answer))
      BY <1>2, <2>3 DEF ChainAfter, r
    <3>2. BlockAskedFor => Primitives(1)
      BY DEF BlockAskedFor
    <3> QED BY <2>2, <3>1, <3>2, OkSound
  <2>4. CASE op = "Blockchain.GetContract"
    <3> DEFINE sized == Len(Bytes(Machine, estack[1])) = Uint160Size
    <3>1. ChainAfter(op, answer) = Ok(Primitives(1) /\ sized, Pushed(r, answer))
      BY <1>2, <2>4 DEF ChainAfter, r
    <3> HIDE DEF sized
    <3> QED BY <2>2, <3>1, OkSound
  <2>5. CASE op = "Runtime.GetTime"
    <3>1. ChainAfter(op, answer) = PushedInt(Machine, answer.Timestamp)
      BY <1>2, <2>5 DEF ChainAfter
    <3>2. answer.is = "header"
      BY <2>1, <2>5 DEF ChainOps
    <3>3. answer.Timestamp \in Nat
      BY <2>1, <3>2 DEF Interop
    <3>4. Sound(Machine) /\ Machine.mem = mem /\ answer.Timestamp \in Int
      BY <3>3, TheMachine
    <3> QED BY <3>1, <3>4, PushedIntSound DEF Outcome, GoesOn
  <2> QED BY <2>3, <2>4, <2>5 DEF ChainOps
<1> QED BY <1>1, <1>2

LEMMA BlockSound ==
  ASSUME SoundInv, Room(mem), NEW op \in BlockOps
  PROVE  Outcome(BlockAfter(op))
<1> DEFINE r == Popped(Machine, 1)
           txs == estack[1].Transactions
           index == WordOf(Machine, estack[2])
           tx(i) == [is |-> "tx", hash |-> txs[i]]
<1>1. ASSUME Is(1, "block")
      PROVE  /\ Sound(r) /\ r.mem = mem /\ Len(r.estack) = Len(estack) - 1
             /\ txs \in Seq(Seq(Byte)) /\ Len(txs) \in Nat
  BY <1>1, TookInterop, InteropFields
<1>2. ASSUME Is(1, "block"), NEW i \in DOMAIN txs PROVE tx(i) \in Interop
  <2>1. txs[i] \in Seq(Byte)
    BY <1>1, <1>2
  <2> HIDE DEF txs
  <2> QED BY <2>1 DEF Interop
<1>3. CASE op = "Block.GetTransactionCount"
  <2>1. BlockAfter(op) = Ok(Is(1, "block"), PushedInt(r, Len(txs)))
    BY <1>3 DEF BlockAfter
  <2> HIDE DEF r, txs
  <2>2. Is(1, "block") => Sound(PushedInt(r, Len(txs)))
    BY <1>1, PushedIntSound DEF GoesOn
  <2> QED BY <2>1, <2>2, OkSound
<1>4. CASE op = "Block.GetTransactions"
  <2> DEFINE items == [i \in DOMAIN txs |-> tx(i)]
             cond == Is(1, "block") /\ Len(txs) <= MaxArraySize
  <2>1. BlockAfter(op) = Ok(cond, PushedList(r, "Array", items))
    BY <1>4 DEF BlockAfter
  <2>2. ASSUME cond PROVE Sound(PushedList(r, "Array", items))
    <3>1. \A i \in DOMAIN txs : tx(i) \in Values(mem)
      BY <1>2, <2>2, InteropValue
    <3>2. DOMAIN txs = 1..Len(txs) /\ Len(txs) \in Nat
      BY <1>1, <2>2
    <3> HIDE DEF txs
    <3>3. items \in Seq(Values(mem))
      BY <3>1, <3>2
    <3>4. "Array" \in ListKinds
      BY DEF ListKinds
    <3> HIDE DEF items, r
    <3> QED BY <1>1, <2>2, <3>3, <3>4, PushedListSound DEF GoesOn
  <2> HIDE DEF cond, items, r
  <2> QED BY <2>1, <2>2, OkSound
<1>5. CASE op = "Block.GetTransaction"
  <2> DEFINE cond == /\ Is(1, "block") /\ Len(estack) >= 2 /\ IsPrimitive(estack[2])
                     /\ index + 1 \in DOMAIN txs
             x == Pushed(Popped(r, 1), tx(index + 1))
  <2>1. BlockAfter(op) = Ok(cond, x)
    BY <1>5 DEF BlockAfter
  <2>2. ASSUME cond PROVE Sound(x)
    <3>1. tx(index + 1) \in Interop
      BY <1>2, <2>2
    <3>2. 1 \in 0..Len(r.estack) /\ Sound(r)
      BY <1>1, <2>2, TheMachine
    <3> HIDE DEF r, tx
    <3>3. Sound(Popped(r, 1))
      BY <3>2, PoppedSound
    <3> QED BY <3>1, <3>3, PushedInterop
  <2> HIDE DEF cond, x
  <2> QED BY <2>1, <2>2, OkSound
<1> QED BY <1>3, <1>4, <1>5 DEF BlockOps

LEMMA HeaderSound ==
  ASSUME SoundInv, Room(mem), NEW op \in HeaderOps
  PROVE  Outcome(HeaderAfter(op))
<1> DEFINE r == Popped(Machine, 1)
           header == estack[1]
           cond == Is(1, "header") \/ Is(1, "block")
           x == CASE op = "Header.GetHash" -> PushedBytes(r, header.hash)
                  [] op = "Header.GetPrevHash" -> PushedBytes(r, header.PrevHash)
                  [] op = "Header.GetIndex" -> PushedInt(r, header.Index)
                  [] op = "Header.GetTimestamp" -> PushedInt(r, header.Timestamp)
<1>1. HeaderAfter(op) = Ok(cond, x)
  BY DEF HeaderAfter
<1>2. ASSUME cond PROVE Sound(x)
  <2>1. Sound(r) /\ r.mem = mem /\ header \in Items /\ header.is \in {"header", "block"}
    BY <1>2, TookInterop
  <2>2. /\ header.hash \in Seq(Byte) /\ header.PrevHash \in Seq(Byte)
        /\ header.Index \in Int /\ header.Timestamp \in Int
    BY <2>1, InteropFields
  <2> HIDE DEF r, header
  <2>3. /\ Sound(PushedBytes(r, header.hash)) /\ Sound(PushedBytes(r, header.PrevHash))
        /\ Sound(PushedInt(r, header.Index)) /\ Sound(PushedInt(r, header.Timestamp))
    BY <2>1, <2>2, PushedBytesSound, PushedIntSound DEF GoesOn
  <2>4. /\ op = "Header.GetHash" => x = PushedBytes(r, header.hash)
        /\ op = "Header.GetPrevHash" => x = PushedBytes(r, header.PrevHash)
        /\ op = "Header.GetIndex" => x = PushedInt(r, header.Index)
        /\ op = "Header.GetTimestamp" => x = PushedInt(r, header.Timestamp)
    OBVIOUS
  <2> HIDE DEF x
  <2> QED BY <2>3, <2>4 DEF HeaderOps
<1> HIDE DEF cond, x
<1> QED BY <1>1, <1>2, OkSound

LEMMA FrameSound ==
  ASSUME SoundInv, Room(mem), kit \in DOMAIN Kits, NEW n \in Nat
  PROVE  Outcome(Frame(n))
<1> DEFINE frames == Kits[kit].frames
           cond == n < Len(frames)
<1>1. Frame(n) = Ok(cond, PushedBytes(Machine, frames[n + 1]))
  BY DEF Frame
<1>2. frames \in Seq(Seq(Byte))
  BY KitsAssumption
<1> HIDE DEF frames
<1>3. cond => frames[n + 1] \in Seq(Byte)
  BY <1>2
<1> HIDE DEF cond
<1>4. cond => Sound(PushedBytes(Machine, frames[n + 1]))
  BY <1>3, TheMachine, PushedBytesSound DEF GoesOn
<1> QED BY <1>1, <1>4, OkSound

LEMMA WitnessSound ==
  ASSUME SoundInv
  PROVE  Outcome(CheckWitness)
<1> DEFINE given == Bytes(Machine, estack[1])
           hash == IF Len(given) = Uint160Size THEN given ELSE KeyHash(given)
           right == Len(given) = Uint160Size \/ (Len(given) = KeySize /\ hash # NoKey)
           known == hash \in Witnesses
           x == Pushed(Popped(Machine, 1), BoolOf(known))
<1>1. CheckWitness = Ok(Primitives(1) /\ right, x)
  BY DEF CheckWitness
<1>2. known \in BOOLEAN
  OBVIOUS
<1> HIDE DEF right, known
<1>3. Primitives(1) => Sound(x)
  BY <1>2, Taken, PushedBool
<1> QED BY <1>1, <1>3, OkSound

LEMMA EngineSound ==
  ASSUME SoundInv, Room(mem), kit \in DOMAIN Kits, NEW op \in EngineOps
  PROVE  Outcome(EngineAfter(op))
<1> DEFINE r == Popped(Machine, 1)
<1>1. Sound(Machine) /\ Machine.mem = mem /\ Len(estack) \in Nat /\ Machine.estack = estack
  BY TheMachine
<1>2. CASE op \in {"ExecutionEngine.GetCallingScriptHash", "ExecutionEngine.GetEntryScriptHash",
                   "ExecutionEngine.GetExecutingScriptHash"}
  <2>1. /\ op = "ExecutionEngine.GetCallingScriptHash" => EngineAfter(op) = Frame(1)
        /\ op = "ExecutionEngine.GetEntryScriptHash" => EngineAfter(op) = Frame(Len(Kits[kit].frames) - 1)
        /\ op = "ExecutionEngine.GetExecutingScriptHash" => EngineAfter(op) = Frame(0)
    BY DEF EngineAfter
  <2>2. Kits[kit].frames \in Seq(Seq(Byte)) /\ Kits[kit].frames # <<>>
    BY KitsAssumption
  <2>3. Len(Kits[kit].frames) - 1 \in Nat
    BY <2>2
  <2> QED BY <1>2, <2>1, <2>3, FrameSound
<1>3. CASE op = "Runtime.CheckWitness"
  <2>1. EngineAfter(op) = CheckWitness
    BY <1>3 DEF EngineAfter
  <2> QED BY <2>1, WitnessSound
<1>4. CASE op \in {"Runtime.GetTrigger", "Blockchain.GetHeight"}
  <2>1. /\ op = "Runtime.GetTrigger" => EngineAfter(op) = PushedInt(Machine, 16)
        /\ op = "Blockchain.GetHeight" => EngineAfter(op) = PushedInt(Machine, Height)
    BY DEF EngineAfter
  <2>2. 16 \in Int /\ Height \in Int
    BY ChainAssumption
  <2> QED BY <1>1, <1>4, <2>1, <2>2, PushedIntSound DEF Outcome, GoesOn
<1>5. CASE op = "Runtime.Log"
  <2>1. EngineAfter(op) = Ok(Primitives(1), r)
    BY <1>5 DEF EngineAfter
  <2> QED BY <2>1, Taken, OkSound
<1>6. CASE op = "Runtime.Notify"
  <2>1. EngineAfter(op) = r
    BY <1>6 DEF EngineAfter
  <2>2. r = WithStack(Machine, SubSeq(estack, 2, Len(estack)))
    BY <1>1 DEF Popped, WithStack
  <2>3. SubSeq(estack, 2, Len(estack)) \in Seq(Values(mem))
    BY TheMachine, SubSeqProperties
  <2>4. Sound(r)
    BY <1>1, <2>2, <2>3, Restacked
  <2> QED BY <2>1, <2>4 DEF Outcome
<1>7. CASE op = "Runtime.Platform"
  <2>1. EngineAfter(op) = PushedBytes(Machine, <<78, 69, 79>>)
    BY <1>7 DEF EngineAfter
  <2>2. <<78, 69, 79>> \in Seq(Byte)
    BY DEF Byte
  <2> QED BY <1>1, <2>1, <2>2, PushedBytesSound DEF Outcome, GoesOn
<1>8. CASE op = "Transaction.GetHash"
  <2> DEFINE x == PushedBytes(r, estack[1].hash)
  <2>1. EngineAfter(op) = Ok(Is(1, "tx"), x)
    BY <1>8 DEF EngineAfter
  <2>2. ASSUME Is(1, "tx") PROVE Sound(x)
    <3>1. Sound(r) /\ r.mem = mem /\ estack[1].hash \in Seq(Byte)
      BY <2>2, TookInterop, InteropFields
    <3> HIDE DEF r
    <3> QED BY <3>1, PushedBytesSound DEF GoesOn
  <2> QED BY <2>1, <2>2, OkSound
<1> QED BY <1>2, <1>3, <1>4, <1>5, <1>6, <1>7, <1>8 DEF EngineOps

-----------------------------------------------------------------------------
(* Items as bytes                                                          *)

LEMMA SerializeSound ==
  ASSUME SoundInv, Room(mem), NEW bytes \in Serialized, NEW spare \in 0..1
  PROVE  Outcome(SerializeAfter(bytes, spare))
<1> DEFINE cond == Len(estack) >= 1 /\ Serializable(estack[1]) /\ Len(bytes) <= MaxItemSize
           r == Popped(Machine, 1)
           x == PushedStored(Stored(r, bytes, spare))
<1>1. SerializeAfter(bytes, spare) = Ok(cond, x)
  BY DEF SerializeAfter
<1>2. ASSUME cond PROVE Sound(x)
  <2>1. 1 \in 0..Len(estack)
    BY <1>2, TheMachine
  <2>2. Sound(r) /\ r.mem = mem
    BY <2>1, PoppedMachine
  <2>3. bytes \in Seq(Byte) /\ spare \in Nat
    BY SerializedAssumption
  <2> HIDE DEF r
  <2> QED BY <2>2, <2>3, PushedStoredSound DEF GoesOn
<1> HIDE DEF cond, x
<1> QED BY <1>1, <1>2, OkSound

\* What earlier instructions left is in the cells its items point at.
LEMMA LiteralIs ==
  ASSUME NEW literal \in Literals, NEW a \in Addresses, NEW c \in Memory, c[a] = CellOf(literal)
  PROVE  ItemOf(literal, a) \in Values(c)
<1>1. CASE literal \in {"int"} \X Int
  <2>1. c[a] = IntCell(literal[2]) /\ ItemOf(literal, a) = IntAt(a)
    BY <1>1 DEF CellOf, ItemOf
  <2>2. IntCell(literal[2]).holds = "int"
    BY DEF IntCell
  <2>3. IntAt(a) \in Items /\ IntAt(a).is = "int" /\ IntAt(a).at = a
    BY DEF IntAt, Items
  <2> QED BY <2>1, <2>2, <2>3 DEF Values, Fitting
<1>2. CASE literal \in {"bytes"} \X Seq(Byte)
  <2> DEFINE bytes == literal[2]
             item == SliceOf(a, 0, Len(bytes))
  <2>1. c[a] = Array(bytes) /\ ItemOf(literal, a) = item
    BY <1>2 DEF CellOf, ItemOf
  <2>2. bytes \in Seq(Byte) /\ Len(bytes) \in Nat /\ 0 \in Nat
    BY <1>2
  <2> HIDE DEF bytes
  <2>3. Array(bytes).holds = "bytes" /\ Array(bytes).bytes = bytes
    BY <2>2, ArrayIs
  <2>4. item \in Items /\ item.is = "bytes" /\ item.at = a /\ item.off = 0 /\ item.len = Len(bytes)
    BY <2>2, SliceOfIs
  <2> HIDE DEF item
  <2> QED BY <2>1, <2>2, <2>3, <2>4 DEF Values, Fitting
<1>3. CASE literal \in {"item"} \X ([is : {"bool"}, b : BOOLEAN] \union Interop)
  <2>1. ItemOf(literal, a) = literal[2]
    BY <1>3 DEF ItemOf
  <2>2. CASE literal[2] \in Interop
    BY <2>1, <2>2, InteropValue
  <2>3. CASE literal[2] \in [is : {"bool"}, b : BOOLEAN]
    <3>1. literal[2] \in Items /\ literal[2].is = "bool"
      BY <2>3 DEF Items
    <3> QED BY <2>1, <3>1 DEF Values, Fitting
  <2> QED BY <1>3, <2>2, <2>3
<1> QED BY <1>1, <1>2, <1>3 DEF Literals, Leaves

LEMMA LiteralCell ==
  ASSUME NEW literal \in Literals
  PROVE  CellOf(literal) \in Cells /\ CellOf(literal).holds \notin ListKinds
<1>1. CASE literal \in {"int"} \X Int
  BY <1>1 DEF CellOf, IntCell, Cells, ListKinds
<1>2. CASE literal \in {"bytes"} \X Seq(Byte)
  BY <1>2 DEF CellOf, Array, Cells, ListKinds
<1>3. CASE literal \in {"item"} \X ([is : {"bool"}, b : BOOLEAN] \union Interop)
  BY <1>3 DEF CellOf, Free, Cells, ListKinds
<1> QED BY <1>1, <1>2, <1>3 DEF Literals, Leaves

\* A part is a leaf, or a list of parts.
LEMMA PartIs ==
  ASSUME NEW parts \in Deserialized, NEW i \in DOMAIN parts
  PROVE  /\ ~IsList(parts[i]) => parts[i] \in Literals
         /\ IsList(parts[i]) =>
              /\ parts[i][1] \in ListKinds /\ parts[i][2] \in Seq(Nat)
              /\ \A j \in DOMAIN parts[i][2] : parts[i][2][j] \in 2..Len(parts)
<1> DEFINE part == parts[i]
<1>1. parts \in Seq(Leaves \union (ListKinds \X Seq(Nat)))
  BY DeserializedAssumption
<1>2. part \in Leaves \union (ListKinds \X Seq(Nat))
  BY <1>1
<1>3. CASE part \in Leaves
  <2>1. part[1] \in {"int", "bytes", "item"}
    BY <1>3 DEF Leaves
  <2> QED BY <1>3, <2>1 DEF IsList, ListKinds, Literals
<1>4. CASE part \in ListKinds \X Seq(Nat)
  <2>1. part[1] \in ListKinds /\ part[2] \in Seq(Nat)
    BY <1>4
  <2>2. IsList(part)
    BY <2>1 DEF IsList
  <2>3. ASSUME NEW j \in DOMAIN part[2] PROVE part[2][j] \in 2..Len(parts)
    <3>1. <<i, j>> \in Nested(parts)
      BY <2>2, <2>3 DEF Nested
    <3>2. <<i, j>>[1] = i /\ <<i, j>>[2] = j
      OBVIOUS
    <3> QED BY <3>1, <3>2, DeserializedAssumption
  <2> QED BY <2>1, <2>2, <2>3
<1> QED BY <1>2, <1>3, <1>4

LEMMA PlacementIs ==
  ASSUME SoundInv, NEW parts \in Deserialized, NEW at \in Placements(parts)
  PROVE  \A i \in DOMAIN parts :
           /\ at[i] \in Addresses /\ mem[at[i]] = Free
           /\ \A j \in DOMAIN parts : at[i] = at[j] => i = j
<1>1. at \in [DOMAIN parts -> FreeCells(Machine)] /\ IsInjective(at)
  BY DEF Placements, Injection
<1>2. FreeCells(Machine) = {a \in Addresses : mem[a] = Free}
  BY TheMachine DEF FreeCells
<1> QED BY <1>1, <1>2 DEF IsInjective

\* The memory with the parts in it.
LEMMA FilledIs ==
  ASSUME SoundInv, NEW parts \in Deserialized, NEW at \in Placements(parts)
  PROVE  /\ Filled(parts, at) \in Memory /\ Grows(mem, Filled(parts, at))
         /\ ListsSound(Filled(parts, at))
         /\ \A i \in DOMAIN parts : Filled(parts, at)[at[i]] = PartCell(parts, at, i)
         /\ \A i \in DOMAIN parts : PartItem(parts, at, i) \in Values(Filled(parts, at))
<1> DEFINE c == Filled(parts, at)
           item(i) == PartItem(parts, at, i)
           cell(i) == PartCell(parts, at, i)
<1>1. \A i \in DOMAIN parts : at[i] \in Addresses /\ mem[at[i]] = Free
  BY PlacementIs
<1>2. mem \in Memory /\ ListsSound(mem)
  BY TheMachine
<1>3. parts \in Seq(Leaves \union (ListKinds \X Seq(Nat))) /\ DOMAIN parts = 1..Len(parts) /\ Len(parts) \in Nat
  BY DeserializedAssumption
<1>4. ASSUME NEW i \in DOMAIN parts PROVE c[at[i]] = cell(i)
  <2>1. \E j \in DOMAIN parts : at[j] = at[i]
    OBVIOUS
  <2>2. PICK j \in DOMAIN parts : j = (CHOOSE k \in DOMAIN parts : at[k] = at[i]) /\ at[j] = at[i]
    BY <2>1
  <2>3. j = i
    BY <2>2, PlacementIs
  <2> HIDE DEF cell
  <2> QED BY <1>1, <2>1, <2>2, <2>3 DEF Filled, cell
<1>5. \A a \in Addresses : (~\E i \in DOMAIN parts : at[i] = a) => c[a] = mem[a]
  BY DEF Filled
<1>6. \A i \in DOMAIN parts :
        /\ ~IsList(parts[i]) => /\ parts[i] \in Literals /\ item(i) = ItemOf(parts[i], at[i])
                                /\ cell(i) = CellOf(parts[i])
        /\ IsList(parts[i]) => /\ parts[i][1] \in ListKinds /\ item(i) = ListAt(at[i])
                               /\ cell(i) = ListCell(parts[i][1],
                                     [j \in DOMAIN parts[i][2] |-> item(parts[i][2][j])])
  BY PartIs DEF PartItem, PartCell
<1> HIDE DEF c, item, cell
<1>7. ASSUME NEW i \in DOMAIN parts PROVE item(i) \in Items
  <2>1. CASE IsList(parts[i])
    <3>1. item(i) = ListAt(at[i]) /\ at[i] \in Addresses
      BY <1>1, <1>6, <2>1
    <3>2. ListAt(at[i]) \in [is : {"int", "list"}, at : Addresses]
      BY <3>1, Zenon DEF ListAt
    <3>3. [is : {"int", "list"}, at : Addresses] \subseteq Items
      BY DEF Items
    <3> QED BY <3>1, <3>2, <3>3
  <2>2. CASE ~IsList(parts[i])
    <3> DEFINE d == [mem EXCEPT ![at[i]] = CellOf(parts[i])]
    <3>1. CellOf(parts[i]) \in Cells
      BY <1>6, <2>2, LiteralCell
    <3>2. d \in Memory /\ d[at[i]] = CellOf(parts[i])
      BY <1>1, <1>2, <3>1 DEF Memory
    <3> HIDE DEF d
    <3> QED BY <1>1, <1>6, <2>2, <3>2, LiteralIs DEF Values
  <2> QED BY <2>1, <2>2
<1>8. ASSUME NEW i \in DOMAIN parts, IsList(parts[i])
      PROVE  /\ cell(i).holds = parts[i][1] /\ cell(i).items \in Seq(Items) /\ cell(i) \in Cells
             /\ DOMAIN cell(i).items = DOMAIN parts[i][2]
             /\ \A j \in DOMAIN parts[i][2] : cell(i).items[j] = item(parts[i][2][j])
  <2> DEFINE refs == parts[i][2]
             items == [j \in DOMAIN refs |-> item(refs[j])]
  <2>1. refs \in Seq(Nat) /\ \A j \in DOMAIN refs : refs[j] \in DOMAIN parts
    BY <1>3, <1>8, PartIs
  <2>2. parts[i][1] \in ListKinds /\ cell(i) = ListCell(parts[i][1], items)
    BY <1>6, <1>8
  <2>3. \A j \in DOMAIN refs : items[j] = item(refs[j]) /\ items[j] \in Items
    BY <1>7, <2>1
  <2>4. DOMAIN refs = 1..Len(refs) /\ Len(refs) \in Nat /\ DOMAIN items = DOMAIN refs
    BY <2>1
  <2> HIDE DEF refs
  <2>5. items \in Seq(Items)
    BY <2>3, <2>4
  <2> HIDE DEF items
  <2>6. cell(i).holds = parts[i][1] /\ cell(i).items = items /\ cell(i) \in Cells
    BY <2>2, <2>5 DEF ListCell, Cells
  <2> QED BY <2>3, <2>4, <2>5, <2>6 DEF refs
<1>9. \A i \in DOMAIN parts : cell(i) \in Cells
  BY <1>6, <1>8, LiteralCell
<1>10. c \in Memory
  <2>1. \A a \in Addresses : c[a] \in Cells
    BY <1>2, <1>4, <1>5, <1>9 DEF Memory
  <2>2. c = [a \in Addresses |-> c[a]]
    BY DEF c, Filled
  <2> QED BY <2>1, <2>2 DEF Memory
<1>11. Grows(mem, c)
  BY <1>1, <1>5 DEF Grows
<1>12. ASSUME NEW i \in DOMAIN parts PROVE item(i) \in Values(c)
  <2>1. CASE IsList(parts[i])
    <3>1. item(i).is = "list" /\ item(i).at = at[i]
      <4>1. item(i) = ListAt(at[i])
        BY <1>6, <2>1
      <4>2. ListAt(at[i]).is = "list" /\ ListAt(at[i]).at = at[i]
        BY DEF ListAt
      <4> QED BY <4>1, <4>2
    <3>2. c[at[i]] = cell(i)
      BY <1>4
    <3>3. cell(i).holds = parts[i][1]
      BY <1>8, <2>1
    <3>4. parts[i][1] \in ListKinds
      BY <1>6, <2>1
    <3>5. c[at[i]].holds \in ListKinds
      BY <3>2, <3>3, <3>4
    <3> QED BY <1>7, <3>1, <3>5 DEF Values, Fitting
  <2>2. CASE ~IsList(parts[i])
    <3>1. parts[i] \in Literals /\ item(i) = ItemOf(parts[i], at[i]) /\ cell(i) = CellOf(parts[i])
      BY <1>6, <2>2
    <3>2. c[at[i]] = CellOf(parts[i]) /\ at[i] \in Addresses
      BY <1>1, <1>4, <3>1
    <3> QED BY <1>10, <3>1, <3>2, LiteralIs
  <2> QED BY <2>1, <2>2
<1>13. Values(mem) \subseteq Values(c)
  BY <1>2, <1>10, <1>11, ValuesGrow
<1>14. ListsSound(c)
  <2> SUFFICES ASSUME NEW a \in Addresses, c[a].holds \in ListKinds
               PROVE  c[a].items \in Seq(Values(c))
    BY DEF ListsSound
  <2>1. CASE ~\E i \in DOMAIN parts : at[i] = a
    <3>1. mem[a].items \in Seq(Values(mem)) /\ c[a] = mem[a]
      BY <1>2, <1>5, <2>1 DEF ListsSound
    <3> QED BY <1>13, <3>1, InMoreValues
  <2>2. CASE \E i \in DOMAIN parts : at[i] = a
    <3>1. PICK i \in DOMAIN parts : at[i] = a
      BY <2>2
    <3>2. c[a] = cell(i)
      BY <1>4, <3>1
    <3>3. IsList(parts[i])
      BY <1>6, <3>2, LiteralCell
    <3>4. cell(i).items \in Seq(Items)
      BY <1>8, <3>3
    <3>5. \A j \in DOMAIN cell(i).items : cell(i).items[j] \in Values(c)
      <4>1. \A j \in DOMAIN parts[i][2] : parts[i][2][j] \in DOMAIN parts
        BY <1>3, <3>3, PartIs
      <4> QED BY <1>8, <1>12, <3>3, <4>1
    <3> QED BY <3>2, <3>4, <3>5
  <2> QED BY <2>1, <2>2
<1> QED BY <1>4, <1>10, <1>11, <1>12, <1>14 DEF c, item, cell

LEMMA DeserializeSound ==
  ASSUME SoundInv, NEW parts \in Deserialized, Placements(parts) # {}
  PROVE  Outcome(DeserializeAfter(parts))
<1> DEFINE at == CHOOSE f \in Placements(parts) : TRUE
           c == Filled(parts, at)
           r == Popped(Machine, 1)
           x == WithMem(r, c)
           item == PartItem(parts, at, 1)
<1>1. DeserializeAfter(parts) = Ok(Primitives(1), Pushed(x, item))
  BY DEF DeserializeAfter, WithMem
<1>2. at \in Placements(parts)
  OBVIOUS
<1>3. 1 \in DOMAIN parts
  BY DeserializedAssumption
<1> HIDE DEF at
<1>4. c \in Memory /\ Grows(mem, c) /\ ListsSound(c) /\ item \in Values(c)
  BY <1>2, <1>3, FilledIs
<1> HIDE DEF c, item
<1>5. ASSUME Primitives(1) PROVE Sound(Pushed(x, item))
  <2>1. Sound(r) /\ r.mem = mem
    BY <1>5, Taken
  <2>2. /\ Whole(r) /\ mem \in Memory /\ r.estack \in Seq(Values(mem))
        /\ r.astack \in Seq(Values(mem))
    BY <2>1 DEF Sound
  <2> HIDE DEF r
  <2>3. /\ Whole(x) /\ x.mem = c /\ x.estack = r.estack /\ x.astack = r.astack
        /\ x.storage = r.storage /\ x.written = r.written /\ x.spoilt = r.spoilt
    BY <2>2, WithMemIs
  <2> HIDE DEF x
  <2>4. Values(mem) \subseteq Values(c)
    BY <1>4, <2>2, ValuesGrow
  <2>5. x.estack \in Seq(Values(x.mem)) /\ x.astack \in Seq(Values(x.mem))
    BY <2>2, <2>3, <2>4, InMoreValues
  <2>6. Follows(r, x)
    BY <1>4, <2>1, <2>3 DEF Follows
  <2>7. Sound(x)
    BY <2>1, <2>5, <2>6, FollowsSound
  <2> QED BY <1>4, <2>3, <2>7, PushedSound
<1> HIDE DEF x
<1> QED BY <1>1, <1>5, OkSound

-----------------------------------------------------------------------------
(* What is given back                                                      *)

\* The lists the stacks lead to.
InUse(m) == {a \in Lists(m) : \A lists \in Holding(m) : a \in lists}

LEMMA ReachedValues ==
  ASSUME NEW m, Sound(m), NEW lists \in SUBSET Lists(m)
  PROVE  Within(m, lists) \subseteq Values(m.mem)
<1>1. /\ m.mem \in Memory /\ ListsSound(m.mem) /\ m.estack \in Seq(Values(m.mem))
      /\ m.astack \in Seq(Values(m.mem)) /\ \A k \in DOMAIN m.storage : m.storage[k] \in Slices(m.mem)
  BY DEF Sound
<1>2. ToSet(m.estack) \subseteq Values(m.mem) /\ ToSet(m.astack) \subseteq Values(m.mem)
  BY <1>1 DEF ToSet
<1>3. Range(m.storage) \subseteq Values(m.mem)
  BY <1>1 DEF Range, Slices
<1>4. ASSUME NEW a \in lists PROVE ToSet(m.mem[a].items) \subseteq Values(m.mem)
  <2>1. m.mem[a].items \in Seq(Values(m.mem))
    BY <1>1 DEF ListsSound, Lists
  <2> QED BY <2>1 DEF ToSet
<1>5. InStacks(m) \subseteq Values(m.mem)
  BY <1>2, <1>3 DEF InStacks
<1> QED BY <1>4, <1>5 DEF Within

LEMMA InUseClosed ==
  ASSUME NEW m, Sound(m), NEW item \in Within(m, InUse(m)), item.is = "list"
  PROVE  item.at \in InUse(m)
<1>1. InUse(m) \in SUBSET Lists(m)
  BY DEF InUse
<1>2. item \in Values(m.mem)
  BY <1>1, ReachedValues
<1>3. item.at \in Lists(m)
  <2>1. m.mem \in Memory /\ ListsSound(m.mem)
    BY DEF Sound
  <2>2. item.at \in Addresses /\ m.mem[item.at].holds \in ListKinds
    BY <1>2, <2>1, ListHolds
  <2> QED BY <2>2 DEF Lists
<1>4. ASSUME NEW lists \in Holding(m) PROVE item.at \in lists
  <2>1. InUse(m) \subseteq lists
    BY DEF InUse
  <2>2. Within(m, InUse(m)) \subseteq Within(m, lists)
    BY <2>1 DEF Within
  <2> QED BY <2>2 DEF Holding
<1> QED BY <1>3, <1>4 DEF InUse

\* What can be reached is where it was, and so is all it leads to.
LEMMA CollectedSound ==
  ASSUME NEW m, Sound(m), NEW x, Whole(x), x.mem = Collected(m),
         x.estack = m.estack, x.astack = m.astack, x.storage = m.storage,
         x.written = m.written, x.spoilt = m.spoilt
  PROVE  Sound(x)
<1> DEFINE c == m.mem
           d == x.mem
           used == InMemory(Reached(m))
<1>1. /\ c \in Memory /\ ListsSound(c) /\ m.estack \in Seq(Values(c)) /\ m.astack \in Seq(Values(c))
      /\ \A k \in DOMAIN m.storage : m.storage[k] \in Slices(c)
      /\ Kept(m)
  BY DEF Sound
<1>2. d = [a \in Addresses |-> IF a \in used THEN c[a] ELSE Free]
  BY DEF Collected
<1>3. d \in Memory
  BY <1>1, <1>2 DEF Memory, Cells
<1>4. InUse(m) \in SUBSET Lists(m) /\ Reached(m) = Within(m, InUse(m))
  BY DEF InUse, Reached
<1>5. Reached(m) \subseteq Values(c)
  BY <1>4, ReachedValues
<1> HIDE DEF d, c, used
<1>6. ASSUME NEW item \in Reached(m), item.is \in {"int", "bytes", "list"}
      PROVE  item.at \in used /\ item.at \in Addresses /\ d[item.at] = c[item.at]
  <2>1. item.at \in used
    BY <1>6 DEF InMemory, used
  <2>2. item.at \in Addresses
    BY <1>1, <1>5, <1>6, HoldsSomething
  <2> QED BY <1>2, <2>1, <2>2
<1>7. Reached(m) \subseteq Values(d)
  <2> SUFFICES ASSUME NEW item \in Reached(m) PROVE item \in Values(d)
    OBVIOUS
  <2>1. item \in Items /\ Fitting(c, item)
    BY <1>5 DEF Values
  <2>2. Fitting(d, item)
    BY <1>6, <2>1 DEF Fitting
  <2> QED BY <2>1, <2>2 DEF Values
<1>8. InStacks(m) \subseteq Reached(m)
  BY <1>4 DEF Within
<1>9. m.estack \in Seq(Values(d)) /\ m.astack \in Seq(Values(d))
  <2>1. \A i \in 1..Len(m.estack) : m.estack[i] \in Reached(m)
    BY <1>1, <1>8 DEF InStacks, ToSet
  <2>2. \A i \in 1..Len(m.astack) : m.astack[i] \in Reached(m)
    BY <1>1, <1>8 DEF InStacks, ToSet
  <2> QED BY <1>1, <1>7, <2>1, <2>2
<1>10. \A k \in DOMAIN m.storage : m.storage[k] \in Reached(m)
  BY <1>8 DEF InStacks, Range
<1>11. \A k \in DOMAIN m.storage : m.storage[k] \in Slices(d)
  BY <1>1, <1>7, <1>10 DEF Slices
<1>12. \A k \in DOMAIN m.storage : BytesOf(x, m.storage[k]) = BytesOf(m, m.storage[k])
  <2> SUFFICES ASSUME NEW k \in DOMAIN m.storage
               PROVE  BytesOf(x, m.storage[k]) = BytesOf(m, m.storage[k])
    OBVIOUS
  <2>1. m.storage[k].is = "bytes"
    BY <1>1 DEF Slices
  <2>2. d[m.storage[k].at] = c[m.storage[k].at]
    BY <1>6, <1>10, <2>1
  <2> QED BY <2>2 DEF BytesOf, c, d
<1>13. Kept(x)
  BY <1>1, <1>12 DEF Kept
<1>14. ListsSound(d)
  <2> SUFFICES ASSUME NEW a \in Addresses, d[a].holds \in ListKinds
               PROVE  d[a].items \in Seq(Values(d))
    BY DEF ListsSound
  <2>1. Free.holds \notin ListKinds
    BY DEF Free, ListKinds
  <2>2. a \in used /\ d[a] = c[a]
    BY <1>2, <2>1
  <2>3. PICK item \in Reached(m) : item.is \in {"int", "bytes", "list"} /\ item.at = a
    BY <2>2 DEF InMemory, used
  <2>4. item.is = "list"
    <3>1. Fitting(c, item)
      BY <1>5 DEF Values
    <3> QED BY <2>2, <2>3, <3>1 DEF Fitting, ListKinds
  <2>5. a \in InUse(m)
    BY <1>4, <2>3, <2>4, InUseClosed
  <2>6. c[a].items \in Seq(Values(c))
    BY <1>1, <2>2 DEF ListsSound
  <2>7. ToSet(c[a].items) \subseteq Reached(m)
    BY <1>4, <2>5 DEF Within, c
  <2>8. \A i \in 1..Len(c[a].items) : c[a].items[i] \in Reached(m)
    BY <2>6, <2>7 DEF ToSet
  <2> QED BY <1>7, <2>2, <2>6, <2>8
<1> QED BY <1>3, <1>9, <1>11, <1>13, <1>14 DEF Sound, c, d

-----------------------------------------------------------------------------
(* Steps                                                                   *)

LEMMA FreeRoom ==
  ASSUME Cardinality(FreeCells(Machine)) >= 3
  PROVE  RoomForTwo(mem) /\ Room(mem)
<1> DEFINE S == {a \in Addresses : mem[a] = Free}
<1>1. Machine.mem = mem
  BY DEF Machine
<1>2. FreeCells(Machine) = S
  BY <1>1 DEF FreeCells
<1>3. IsFiniteSet(1..Cardinality(Addresses))
  BY BoundsAssumption, FS_Interval
<1>4. IsFiniteSet(Addresses)
  BY <1>3, BoundsAssumption
<1>5. IsFiniteSet(S) /\ Cardinality(S) >= 3
  BY <1>2, <1>4, FS_Subset
<1>6. S # {}
  BY <1>5, FS_EmptySet
<1>7. PICK a : a \in S
  BY <1>6
<1>8. Cardinality(S) \in Nat /\ Cardinality(S \ {a}) = Cardinality(S) - 1
  BY <1>5, <1>7, FS_RemoveElement, FS_CardinalityType
<1>9. S \ {a} # {}
  <2>1. Cardinality({}) = 0 /\ Cardinality(S \ {a}) >= 2
    BY <1>5, <1>8, FS_EmptySet
  <2> HIDE DEF S
  <2> QED BY <2>1
<1>10. PICK b : b \in S \ {a}
  BY <1>9
<1> QED BY <1>7, <1>10 DEF RoomForTwo, Room

LEMMA EffectSound ==
  ASSUME NEW m, Sound(m), Effect(m)
  PROVE  SoundInv'
<1> DEFINE x == Machine'
<1>1. /\ Whole(x) /\ x.mem = mem' /\ x.estack = estack' /\ x.astack = astack'
      /\ x.storage = storage' /\ x.written = written' /\ x.spoilt = spoilt'
  BY DEF Machine, Whole
<1>2. /\ mem' = Collected(m) /\ estack' = m.estack /\ astack' = m.astack
      /\ storage' = m.storage /\ written' = m.written /\ spoilt' = m.spoilt
  BY DEF Effect
<1> HIDE DEF x
<1>3. Sound(x)
  BY <1>1, <1>2, CollectedSound
<1> QED BY <1>3 DEF SoundInv, x

LEMMA BeganSound ==
  ASSUME Began.mem = mem', Began.estack = estack', Began.astack = astack',
         Began.storage = storage', Began.written = written', Began.spoilt = spoilt'
  PROVE  SoundInv'
<1> DEFINE x == Machine'
<1>1. /\ Whole(x) /\ x.mem = mem' /\ x.estack = estack' /\ x.astack = astack'
      /\ x.storage = storage' /\ x.written = written' /\ x.spoilt = spoilt'
  BY DEF Machine, Whole
<1>2. /\ x.mem = [a \in Addresses |-> Free] /\ x.estack = <<>> /\ x.astack = <<>>
      /\ x.storage = <<>> /\ x.written = <<>> /\ x.spoilt = {}
  BY <1>1 DEF Began
<1> HIDE DEF x
<1>3. x.mem \in Memory /\ ListsSound(x.mem)
  BY <1>2 DEF Memory, Cells, ListsSound, Free, ListKinds
<1>4. DOMAIN x.storage = {} /\ DOMAIN x.written = {}
  BY <1>2
<1>5. Kept(x)
  BY <1>4 DEF Kept
<1>6. Sound(x)
  BY <1>1, <1>2, <1>3, <1>4, <1>5 DEF Sound
<1> QED BY <1>6 DEF SoundInv, x

LEMMA FaultSound ==
  ASSUME Fault
  PROVE  SoundInv'
BY BeganSound DEF Fault, Began

\* One instruction, whichever it is.
LEMMA RunsSound ==
  ASSUME NEW op, NEW m, Runs(op, m), Outcome(m)
  PROVE  SoundInv'
<1>1. CASE Fault
  BY <1>1, FaultSound
<1>2. CASE ~Fault
  <2>1. m # Failed /\ Effect(m)
    BY <1>2 DEF Runs
  <2> QED BY <2>1, EffectSound DEF Outcome
<1> QED BY <1>1, <1>2

LEMMA SoundStep ==
  ASSUME SoundInv, kit \in DOMAIN Kits, Next
  PROVE  SoundInv'
<1>1. ASSUME NEW op, NEW m, Runs(op, m) PROVE RoomForTwo(mem) /\ Room(mem)
  BY <1>1, FreeRoom DEF Runs
<1>2. CASE Push
  <2>1. PICK op \in Constants : \E m \in PushAfter(op) : Runs(op, m)
    BY <1>2 DEF Push, Used
  <2>2. PICK m \in PushAfter(op) : Runs(op, m)
    BY <2>1
  <2> QED BY <1>1, <2>2, PushSound, RunsSound
<1>3. CASE StackOp
  <2> PICK op \in StackOps : Runs(op, StackAfter(op))
    BY <1>3 DEF StackOp, Used
  <2> QED BY <1>1, StackOpSound, RunsSound
<1>4. CASE Cat
  <2> PICK grow \in 0..1 : Runs("CAT", CatAfter(grow))
    BY <1>4 DEF Cat, Used
  <2> QED BY <1>1, CatSound, RunsSound
<1>5. CASE Splice
  <2> PICK op \in SpliceOps : Runs(op, SpliceAfter(op))
    BY <1>5 DEF Splice, Used
  <2> QED BY <1>1, SpliceSound, RunsSound
<1>6. CASE ChangeInPlace
  <2> PICK op \in InPlaceOps : Runs(op, InPlaceAfter(op))
    BY <1>6 DEF ChangeInPlace, Used
  <2> QED BY <1>1, InPlaceSound, RunsSound
<1>7. CASE \E op \in Used(UnaryOps) : Runs(op, UnaryAfter(op))
  <2> PICK op \in UnaryOps : Runs(op, UnaryAfter(op))
    BY <1>7 DEF Used
  <2> QED BY <1>1, UnarySound, RunsSound
<1>8. CASE \E op \in Used(BinaryOps) : Runs(op, BinaryAfter(op))
  <2> PICK op \in BinaryOps : Runs(op, BinaryAfter(op))
    BY <1>8 DEF Used
  <2> QED BY <1>1, BinarySound, RunsSound
<1>9. CASE UseList
  <2> PICK op \in ListOps : Runs(op, ListAfter(op))
    BY <1>9 DEF UseList, Used
  <2> QED BY <1>1, ListOpSound, RunsSound
<1>16. CASE UseSerialized
  <2>1. CASE \E op \in Used({"Runtime.Serialize"}), bytes \in Serialized, spare \in 0..1 :
               Runs(op, SerializeAfter(bytes, spare))
    <3>1. PICK op : \E bytes \in Serialized : \E spare \in 0..1 : Runs(op, SerializeAfter(bytes, spare))
      BY <2>1
    <3>2. PICK bytes \in Serialized : \E spare \in 0..1 : Runs(op, SerializeAfter(bytes, spare))
      BY <3>1
    <3>3. PICK spare \in 0..1 : Runs(op, SerializeAfter(bytes, spare))
      BY <3>2
    <3> QED BY <1>1, <3>3, SerializeSound, RunsSound
  <2>2. CASE \E op \in Used({"Runtime.Deserialize"}) : Runs(op, Failed)
    BY <2>2, RunsSound DEF Outcome
  <2>3. CASE \E op \in Used({"Runtime.Deserialize"}) :
               \E parts \in Deserialized : Placements(parts) # {} /\ Runs(op, DeserializeAfter(parts))
    <3>1. PICK op : \E parts \in Deserialized :
                     Placements(parts) # {} /\ Runs(op, DeserializeAfter(parts))
      BY <2>3
    <3>2. PICK parts \in Deserialized : Placements(parts) # {} /\ Runs(op, DeserializeAfter(parts))
      BY <3>1
    <3> QED BY <3>2, DeserializeSound, RunsSound
  <2> QED BY <1>16, <2>1, <2>2, <2>3 DEF UseSerialized
<1>10. CASE UseStorage
  <2>1. CASE \E op \in Used(StorageOps), answers \in BOOLEAN : Runs(op, StorageAfter(op, answers))
    <3> PICK op \in StorageOps, answers \in BOOLEAN : Runs(op, StorageAfter(op, answers))
      BY <2>1 DEF Used
    <3> QED BY <1>1, StorageOpSound, RunsSound
  <2>2. CASE \E op \in Used(ContextOps) : Runs(op, ContextAfter(op))
    <3> PICK op \in ContextOps : Runs(op, ContextAfter(op))
      BY <2>2 DEF Used
    <3> QED BY ContextOpSound, RunsSound
  <2> QED BY <1>10, <2>1, <2>2 DEF UseStorage
<1>11. CASE AskForBlock
  <2>1. CASE \E op \in Used(DOMAIN ChainOps) :
               \E answer \in {NoAnswer} \union {a \in Answers : a.is = ChainOps[op]} :
                 Runs(op, ChainAfter(op, answer))
    <3>1. PICK op \in DOMAIN ChainOps :
                 \E answer \in {NoAnswer} \union {a \in Answers : a.is = ChainOps[op]} :
                   Runs(op, ChainAfter(op, answer))
      BY <2>1 DEF Used
    <3>2. PICK answer \in {NoAnswer} \union {a \in Answers : a.is = ChainOps[op]} :
                 Runs(op, ChainAfter(op, answer))
      BY <3>1
    <3> QED BY <1>1, <3>2, ChainOpSound, RunsSound
  <2>2. CASE \E op \in Used(TransactionOps) : Runs(op, Failed)
    <3> PICK op \in TransactionOps : Runs(op, Failed)
      BY <2>2 DEF Used
    <3> QED BY RunsSound DEF Outcome
  <2> QED BY <1>11, <2>1, <2>2 DEF AskForBlock
<1>12. CASE UseBlock
  <2>1. CASE \E op \in Used(BlockOps) : Runs(op, BlockAfter(op))
    <3> PICK op \in BlockOps : Runs(op, BlockAfter(op))
      BY <2>1 DEF Used
    <3> QED BY <1>1, BlockSound, RunsSound
  <2>2. CASE \E op \in Used(HeaderOps) : Runs(op, HeaderAfter(op))
    <3> PICK op \in HeaderOps : Runs(op, HeaderAfter(op))
      BY <2>2 DEF Used
    <3> QED BY <1>1, HeaderSound, RunsSound
  <2> QED BY <1>12, <2>1, <2>2 DEF UseBlock
<1>13. CASE AskEngine
  <2> PICK op \in EngineOps : Runs(op, EngineAfter(op))
    BY <1>13 DEF AskEngine, Used
  <2> QED BY <1>1, EngineSound, RunsSound
<1>14. CASE CallStub
  <2> PICK op \in Calls(Stubs) : Runs(op, Machine)
    BY <1>14 DEF CallStub, Used
  <2> QED BY RunsSound DEF Outcome, SoundInv
<1>15. CASE CallUnknown
  <2> PICK op : Runs(op, Failed)
    BY <1>15 DEF CallUnknown, Used
  <2> QED BY RunsSound DEF Outcome
<1> QED BY <1>2, <1>3, <1>4, <1>5, <1>6, <1>7, <1>8, <1>9, <1>10, <1>11, <1>12, <1>13, <1>14, <1>15, <1>16
         DEF Next, Compute

LEMMA SoundInit ==
  ASSUME Init
  PROVE  SoundInv
<1> DEFINE x == Machine
           left == Kits[kit].stack
<1>1. /\ Whole(x) /\ x.mem = mem /\ x.estack = estack /\ x.astack = astack
      /\ x.storage = storage /\ x.written = written /\ x.spoilt = spoilt
  BY DEF Machine, Whole
<1>2. left \in Seq(Literals) /\ Len(left) <= Cardinality(Addresses)
  BY KitsAssumption DEF Init
<1>3. /\ mem = [a \in Addresses |-> IF a \in DOMAIN left THEN CellOf(left[a]) ELSE Free]
      /\ estack = [i \in DOMAIN left |-> ItemOf(left[i], i)]
      /\ astack = <<>> /\ storage = <<>> /\ written = <<>> /\ spoilt = {}
  BY DEF Init
<1> HIDE DEF x, left
<1>4. Len(left) \in Nat /\ DOMAIN left = 1..Len(left) /\ DOMAIN left \subseteq Addresses
  BY <1>2, BoundsAssumption
<1>5. \A i \in DOMAIN left : left[i] \in Literals
  BY <1>2
<1>6. mem \in Memory
  BY <1>3, <1>5, LiteralCell DEF Memory, Cells
<1>7. Free.holds \notin ListKinds
  BY DEF Free, ListKinds
<1>8. ListsSound(mem)
  BY <1>3, <1>5, <1>7, LiteralCell DEF ListsSound
<1>9. ASSUME NEW i \in DOMAIN left PROVE ItemOf(left[i], i) \in Values(mem)
  <2>1. mem[i] = CellOf(left[i]) /\ i \in Addresses /\ left[i] \in Literals
    BY <1>3, <1>4, <1>5
  <2> QED BY <1>6, <2>1, LiteralIs
<1>10. estack \in Seq(Values(mem))
  BY <1>3, <1>4, <1>9
<1>11. DOMAIN storage = {} /\ DOMAIN written = {}
  BY <1>3
<1>12. Kept(x)
  BY <1>1, <1>11 DEF Kept
<1>13. Sound(x)
  BY <1>1, <1>3, <1>6, <1>8, <1>10, <1>11, <1>12 DEF Sound
<1> QED BY <1>13 DEF SoundInv, x

-----------------------------------------------------------------------------
(* Prices                                                                  *)

LEMMA PricesNat ==
  ASSUME NEW op \in DOMAIN Registered
  PROVE  Registered[op] \in 0..1000
<1>1. \A p \in Stubs : p = <<p[1], p[2]>> /\ p[2] \in 0..1000
  BY DEF Stubs, AccountStubs, AssetStubs, AttributeStubs, BlockchainStubs, ContractStubs,
         EnumeratorStubs, HeaderStubs, IteratorStubs, FindStub, TransactionStubs, ContainerStub
<1>2. \A p \in Prices : p = <<p[1], p[2]>> /\ p[2] \in 0..1000
  BY <1>1 DEF Prices, BlockPrices, ChainPrices, HeaderPrices, RuntimePrices, EnginePrices,
              StoragePrices
<1>3. op \in Calls(Prices)
  BY DEF Registered
<1>4. \E n \in {p[2] : p \in Prices} : <<op, n>> \in Prices
  BY <1>2, <1>3 DEF Calls
<1>5. Registered[op] \in {p[2] : p \in Prices}
  BY <1>3, <1>4 DEF Registered
<1> QED BY <1>2, <1>5

\* The limit, and what may come on top of it.
Rest == MaxInt64 - GasLimit
LEMMA GasIs ==
  /\ GAS = 1000 * interopGasRatio /\ GAS \in Nat \ {0} /\ interopGasRatio \in Nat \ {0}
  /\ GasLimit \in Nat /\ MaxInt64 \in Nat /\ Rest \in Nat /\ 5000 * GAS <= Rest
<1>1. GAS = 1000 * interopGasRatio /\ interopGasRatio \in Nat \ {0}
  BY GasAssumption DEF GAS, toFixed8
<1>2. GAS \in Nat \ {0}
  BY <1>1
<1>3. GasLimit \in Nat /\ MaxInt64 \in Nat /\ GasLimit + 5000 * GAS <= MaxInt64
  BY GasAssumption, BoundsAssumption, MaxInt64Assumption
<1> HIDE DEF GAS
<1>4. Rest \in Nat /\ 5000 * GAS <= Rest
  BY <1>2, <1>3 DEF Rest
<1> QED BY <1>1, <1>2, <1>3, <1>4

LEMMA ProductIs ==
  ASSUME NEW m \in Nat, NEW n \in Nat
  PROVE  m * n \in Nat /\ (n >= 1 => m * n >= m)
<1>1. m * n \in Nat
  OBVIOUS
<1>2. ASSUME n >= 1 PROVE m * n >= m
  <2>1. m * (n - 1) >= 0 /\ n - 1 \in Nat
    BY <1>2
  <2>2. m * n = m * (n - 1) + m
    BY <1>2
  <2> QED BY <2>1, <2>2
<1> QED BY <1>1, <1>2

LEMMA LargerProduct ==
  ASSUME NEW m \in Nat, NEW n \in Nat, m <= n, NEW k \in Nat
  PROVE  m * k <= n * k
<1> DEFINE d == n - m
<1>1. d \in Nat /\ n = m + d
  OBVIOUS
<1>2. d * k \in Nat
  BY <1>1
<1> HIDE DEF d
<1>3. (m + d) * k = m * k + d * k
  BY <1>1
<1>4. m * k \in Nat
  OBVIOUS
<1> QED BY <1>1, <1>2, <1>3, <1>4

\* What a call is charged for, looked at in turn.
LEMMA OperandIs ==
  ASSUME SoundInv, NEW i \in Nat, NumberAt(i)
  PROVE  Operand(i) \in Int /\ SizeOf(i) \in Nat
<1>1. i + 1 \in 1..Len(estack) /\ IsPrimitive(estack[i + 1])
  BY TheMachine DEF NumberAt
<1> QED BY <1>1, Operands DEF Operand, SizeOf

LEMMA BitIs ==
  ASSUME NEW n \in Int, NEW i \in 0..1
  PROVE  Bit(n, i) \in 0..1
BY DEF Bit

LEMMA SizedPrice ==
  ASSUME NEW n \in Nat
  PROVE  GAS * (Quo(n - 1, 1024) + 1) \in Nat \ {0}
<1>1. Quo(n - 1, 1024) \in Nat
  <2>1. CASE n = 0
    <3>1. Magnitude(n - 1) = 1 /\ Magnitude(1024) = 1024 /\ 1 \div 1024 = 0
      <4>1. n - 1 < 0 /\ 0 - (n - 1) = 1
        BY <2>1
      <4>2. Magnitude(n - 1) = 1
        BY <4>1 DEF Magnitude
      <4>3. Magnitude(1024) = 1024
        BY DEF Magnitude
      <4>4. 1 \div 1024 = 0
        OBVIOUS
      <4> QED BY <4>2, <4>3, <4>4
    <3>2. Quo(n - 1, 1024) = 0
      BY <2>1, <3>1 DEF Quo
    <3> QED BY <3>2
  <2>2. CASE n # 0
    <3>1. Magnitude(n - 1) = n - 1 /\ Magnitude(1024) = 1024 /\ ~(n - 1 < 0)
      BY <2>2 DEF Magnitude
    <3>2. Quo(n - 1, 1024) = (n - 1) \div 1024
      BY <3>1 DEF Quo
    <3> QED BY <2>2, <3>2
  <2> QED BY <2>1, <2>2
<1> HIDE DEF Quo
<1> DEFINE m == Quo(n - 1, 1024) + 1
<1>2. m \in Nat \ {0}
  BY <1>1
<1> HIDE DEF m
<1>3. GAS * m \in Nat /\ GAS * m >= GAS
  BY <1>2, GasIs, ProductIs
<1>4. GAS * m \in Nat \ {0}
  BY <1>3, GasIs
<1> QED BY <1>4 DEF m

\* The years that cost what their number says: so few, nothing wraps.
LEMMA RenewalIs ==
  ASSUME NEW years \in 1..MaxYears
  PROVE  RenewalPrice(years) \in 1..Rest
<1> DEFINE p == 5000 * GAS
<1>1. GAS \in Nat \ {0} /\ GasLimit \in Nat /\ MaxInt64 \in Nat /\ Rest \in Nat
  BY GasIs
<1>2. p \in Nat \ {0}
  BY <1>1
<1>3. MaxYears = Rest \div p
  BY DEF MaxYears, Rest
<1> HIDE DEF p
<1>4. Rest \div p \in Nat /\ (Rest \div p) * p <= Rest
  BY <1>1, <1>2
<1>5. years \in Nat /\ years >= 1 /\ years <= Rest \div p
  BY <1>3, <1>4
<1>6. years * p <= Rest
  <2> DEFINE q == Rest \div p
  <2>1. q \in Nat /\ q * p <= Rest /\ years <= q
    BY <1>4, <1>5
  <2> HIDE DEF q
  <2>2. years * p <= q * p
    BY <1>2, <1>5, <2>1, LargerProduct
  <2>3. years * p \in Nat /\ q * p \in Nat
    BY <1>2, <1>5, <2>1, ProductIs
  <2> QED BY <1>1, <2>1, <2>2, <2>3
<1>7. (years * 5000) * GAS = years * p
  BY <1>1, <1>5 DEF p
<1> DEFINE y == years * 5000
<1>8. y \in Nat /\ y >= 1
  BY <1>5
<1>9. (y * GAS) = years * p
  BY <1>7
<1> HIDE DEF y
<1>10. y * GAS \in Nat /\ y * GAS >= y
  BY <1>1, <1>8, ProductIs
<1>11. Rest <= MaxInt64
  BY <1>1 DEF Rest
<1>12. y \in Words
  BY <1>1, <1>6, <1>8, <1>9, <1>10, <1>11 DEF Words
<1>13. y * GAS \in Words
  BY <1>1, <1>6, <1>9, <1>10, <1>11 DEF Words
<1>14. Int64(y) = y /\ Int64(y * GAS) = y * GAS
  BY <1>8, <1>10, <1>12, <1>13, Int64Is
<1>15. RenewalPrice(years) = y * GAS
  BY <1>14 DEF RenewalPrice, y
<1> QED BY <1>1, <1>6, <1>8, <1>9, <1>10, <1>15

LEMMA RatioIs ==
  ASSUME NEW n \in 1..1000
  PROVE  toFixed8(n) \in 1..Rest
<1> DEFINE r == interopGasRatio
<1>1. r \in Nat \ {0} /\ GAS = 1000 * r /\ Rest \in Nat /\ 5000 * GAS <= Rest
  BY GasIs
<1>2. n * r \in Nat /\ n * r >= n
  BY <1>1, ProductIs
<1>3. n * r <= 1000 * r
  BY <1>1, LargerProduct
<1>4. toFixed8(n) = n * r
  BY DEF toFixed8
<1> HIDE DEF r
<1> QED BY <1>1, <1>2, <1>3, <1>4

LEMMA OwnPriceIs ==
  ASSUME NEW op, HasOwnPrice(op)
  PROVE  SyscallPrice(op) \in 1..Rest
<1> DEFINE n == Registered[op]
<1>1. SyscallPrice(op) = toFixed8(n)
  BY DEF SyscallPrice
<1>2. n \in 1..1000
  BY PricesNat DEF HasOwnPrice
<1> HIDE DEF n
<1> QED BY <1>1, <1>2, RatioIs

\* The price of a call is more than nothing and no more than is left above the
\* limit, but where the comment of NoCallIsFree says.
LEMMA SyscallPriceIs ==
  ASSUME SoundInv, NEW op, PriceKnown(op)
  PROVE  /\ SyscallPrice(op) \in Int
         /\ (op \notin Deployments \union SizedPuts /\ (op \in Renewals => Operand(1) \in 1..MaxYears))
               => SyscallPrice(op) \in 1..Rest
<1>1. GAS \in Nat \ {0} /\ Rest \in Nat /\ 5000 * GAS <= Rest
  BY GasIs
<1>2. CASE HasOwnPrice(op)
  BY <1>2, OwnPriceIs
<1>3. CASE ~HasOwnPrice(op)
  <2>1. CASE op \in Creations
    <3>1. SyscallPrice(op) = 5000 * GAS
      BY <1>3, <2>1 DEF SyscallPrice, Creations, Renewals, Deployments, SizedPuts
    <3> QED BY <1>1, <3>1
  <2>2. CASE op \in Renewals
    <3> DEFINE years == Operand(1)
    <3>1. SyscallPrice(op) = RenewalPrice(years)
      BY <1>3, <2>2 DEF SyscallPrice, Creations, Renewals, Deployments, SizedPuts
    <3>2. NumberAt(1)
      BY <2>2 DEF PriceKnown, Renewals, Deployments, SizedPuts
    <3>3. years \in Int
      BY <3>2, OperandIs
    <3> HIDE DEF years
    <3>4. RenewalPrice(years) \in Int
      <4> DEFINE y == Int64(years * 5000)
      <4>1. y \in Int
        BY <3>3, Int64Is
      <4> HIDE DEF y
      <4>2. y * GAS \in Int
        BY <1>1, <4>1
      <4>3. Int64(y * GAS) \in Int
        BY <4>2, Int64Is
      <4> QED BY <4>3 DEF RenewalPrice, y
    <3>5. years \in 1..MaxYears => RenewalPrice(years) \in 1..Rest
      BY RenewalIs
    <3> QED BY <2>2, <3>1, <3>4, <3>5 DEF years
  <2>3. CASE op \in Deployments
    <3> DEFINE props == Operand(3)
    <3>1. SyscallPrice(op) = DeploymentPrice(props)
      BY <1>3, <2>3 DEF SyscallPrice, Creations, Renewals, Deployments, SizedPuts
    <3>2. NumberAt(3)
      BY <2>3 DEF PriceKnown, Renewals, Deployments, SizedPuts
    <3>3. props \in Int
      BY <3>2, OperandIs
    <3> HIDE DEF props
    <3>4. Bit(props, 0) \in 0..1 /\ Bit(props, 1) \in 0..1
      BY <3>3, BitIs
    <3> DEFINE fee == 100 + 400 * Bit(props, 0) + 500 * Bit(props, 1)
    <3>5. fee \in Int /\ DeploymentPrice(props) = GAS * fee
      BY <3>4 DEF DeploymentPrice
    <3> HIDE DEF fee
    <3>6. GAS * fee \in Int
      BY <1>1, <3>5
    <3> QED BY <2>3, <3>1, <3>5, <3>6
  <2>4. CASE op \in SizedPuts
    <3> DEFINE n == SizeOf(1) + SizeOf(2)
    <3>1. SyscallPrice(op) = GAS * (Quo(n - 1, 1024) + 1)
      BY <1>3, <2>4 DEF SyscallPrice, Creations, Renewals, Deployments, SizedPuts
    <3>2. NumberAt(1) /\ NumberAt(2)
      BY <2>4 DEF PriceKnown, Renewals, Deployments, SizedPuts
    <3>3. n \in Nat
      BY <3>2, OperandIs
    <3> HIDE DEF n
    <3> QED BY <2>4, <3>1, <3>3, SizedPrice
  <2>5. CASE op \notin Creations \union Renewals \union Deployments \union SizedPuts
    <3>1. SyscallPrice(op) = GAS
      BY <1>3, <2>5 DEF SyscallPrice
    <3> QED BY <1>1, <3>1
  <2> QED BY <2>1, <2>2, <2>3, <2>4, <2>5
<1> QED BY <1>2, <1>3

LEMMA PriceIs ==
  ASSUME SoundInv, NEW op, PriceKnown(op)
  PROVE  /\ Price(op) \in Int
         /\ (op \notin Constants \union Deployments \union SizedPuts
               /\ (op \in Renewals => Operand(1) \in 1..MaxYears))
               => Price(op) \in 1..Rest
<1>1. CASE op \in Constants
  BY <1>1 DEF Price
<1>2. CASE op \in Syscalls /\ op \notin Constants
  <2>1. Price(op) = SyscallPrice(op)
    BY <1>2 DEF Price
  <2> HIDE DEF SyscallPrice
  <2> QED BY <2>1, SyscallPriceIs
<1>3. CASE op \notin Syscalls /\ op \notin Constants
  <2>1. Price(op) = toFixed8(1)
    BY <1>3 DEF Price
  <2>2. toFixed8(1) \in 1..Rest /\ Rest \in Nat
    BY RatioIs, GasIs
  <2> QED BY <2>1, <2>2
<1> QED BY <1>1, <1>2, <1>3

LEMMA Paid ==
  ASSUME SoundInv, gas \in Words, gas <= GasLimit, NEW op, NEW m, Runs(op, m),
         op \notin Constants \union Deployments \union SizedPuts,
         (PriceKnown(op) /\ op \in Renewals) => Operand(1) \in 1..MaxYears
  PROVE  gas' > gas \/ state' = "fault"
<1>1. CASE ~PriceKnown(op)
  BY <1>1 DEF Runs, Fault
<1>2. CASE PriceKnown(op)
  <2> DEFINE price == Price(op)
  <2>1. gas' = Int64(gas + price)
    BY <1>2 DEF Runs
  <2>2. price \in 1..Rest
    BY <1>2, PriceIs
  <2> HIDE DEF price
  <2>3. GasLimit \in Nat /\ MaxInt64 \in Nat /\ Rest = MaxInt64 - GasLimit
    BY GasIs DEF Rest
  <2>4. gas + price \in Words /\ gas + price \in Int /\ gas \in Int
    BY <2>2, <2>3 DEF Words
  <2>5. gas' = gas + price
    BY <2>1, <2>4, Int64Is
  <2> QED BY <2>2, <2>3, <2>4, <2>5
<1> QED BY <1>1, <1>2

-----------------------------------------------------------------------------
(* What holds of every script                                              *)

\* The inductive invariant.
IInv ==
  /\ SoundInv /\ gas \in Words /\ state \in {"run", "fault"}
  /\ (state = "run" /\ GasLimit > 0) => gas <= GasLimit
  /\ kit \in DOMAIN Kits /\ steps \in 0..Kits[kit].steps

LEMMA SomethingRuns ==
  ASSUME Next
  PROVE  \E op : \E m : Runs(op, m)
<1>1. Push => \E op : \E m : Runs(op, m)
  BY DEF Push
<1>2. UseStorage => \E op : \E m : Runs(op, m)
  BY DEF UseStorage
<1>3. AskForBlock => \E op : \E m : Runs(op, m)
  BY DEF AskForBlock
<1>4. (Cat \/ UseBlock \/ Compute) => \E op : \E m : Runs(op, m)
  BY DEF Cat, UseBlock, Compute
<1>5. (StackOp \/ Splice \/ ChangeInPlace \/ UseList) => \E op : \E m : Runs(op, m)
  BY DEF StackOp, Splice, ChangeInPlace, UseList
<1>7. UseSerialized => \E op : \E m : Runs(op, m)
  BY DEF UseSerialized
<1>6. (AskEngine \/ CallStub \/ CallUnknown) => \E op : \E m : Runs(op, m)
  BY DEF AskEngine, CallStub, CallUnknown
<1> QED BY <1>1, <1>2, <1>3, <1>4, <1>5, <1>6, <1>7 DEF Next

LEMMA InvInit == Init => IInv
<1> SUFFICES ASSUME Init PROVE IInv
  OBVIOUS
<1>1. kit \in DOMAIN Kits /\ gas = Kits[kit].gas /\ state = "run" /\ steps = 0
  BY DEF Init
<1>2. /\ Kits[kit].gas \in 0..MaxInt64 /\ (GasLimit > 0 => Kits[kit].gas <= GasLimit)
      /\ Kits[kit].steps \in Nat
  BY <1>1, KitsAssumption
<1>3. gas \in Words
  BY <1>1, <1>2, MaxInt64Assumption DEF Words
<1> QED BY <1>1, <1>2, <1>3, SoundInit DEF IInv

LEMMA InvStep == IInv /\ [Next]_vars => IInv'
<1> SUFFICES ASSUME IInv, [Next]_vars PROVE IInv'
  OBVIOUS
<1>1. CASE Next
  <2>1. PICK op : \E m : Runs(op, m)
    BY <1>1, SomethingRuns
  <2>2. PICK m : Runs(op, m)
    BY <2>1
  <2>3. SoundInv'
    BY <1>1, SoundStep DEF IInv
  <2>4. kit' = kit /\ steps' = steps + 1 /\ steps < Kits[kit].steps
    BY <2>2 DEF Runs
  <2>5. Kits[kit].steps \in Nat /\ kit \in DOMAIN Kits
    BY KitsAssumption DEF IInv
  <2>6. steps' \in 0..Kits[kit'].steps /\ kit' \in DOMAIN Kits
    BY <2>4, <2>5 DEF IInv
  <2>7. gas' \in Words
    <3>1. CASE ~PriceKnown(op)
      BY <2>2, <3>1 DEF Runs, IInv
    <3>2. CASE PriceKnown(op)
      <4> DEFINE price == Price(op)
      <4>1. gas' = Int64(gas + price) /\ price \in Int
        BY <2>2, <3>2, PriceIs DEF Runs, IInv
      <4> HIDE DEF price
      <4>2. gas + price \in Int
        BY <4>1, MaxInt64Assumption DEF IInv, Words
      <4> QED BY <4>1, <4>2, Int64Is
    <3> QED BY <3>1, <3>2
  <2>8. state' \in {"run", "fault"}
    BY <2>2 DEF Runs, Fault, Effect
  <2>9. (state' = "run" /\ GasLimit > 0) => gas' <= GasLimit
    <3>1. CASE Fault
      BY <3>1 DEF Fault
    <3>2. CASE ~Fault
      <4>1. ~OutOfGas(gas')
        BY <2>2, <3>2 DEF Runs
      <4> QED BY <2>7, <4>1, BoundsAssumption, MaxInt64Assumption DEF OutOfGas, Words
    <3> QED BY <3>1, <3>2
  <2> QED BY <2>3, <2>6, <2>7, <2>8, <2>9 DEF IInv
<1>2. CASE UNCHANGED vars
  <2>1. Machine' = Machine
    BY <1>2 DEF vars, Machine
  <2>2. SoundInv' <=> SoundInv
    BY <2>1 DEF SoundInv
  <2> QED BY <1>2, <2>2 DEF vars, IInv
<1> QED BY <1>1, <1>2

LEMMA InvTypeOK == IInv => TypeOK
<1> SUFFICES ASSUME IInv PROVE TypeOK
  OBVIOUS
<1>1. /\ mem \in Memory /\ ListsSound(mem) /\ estack \in Seq(Values(mem)) /\ astack \in Seq(Values(mem))
      /\ Machine.mem = mem /\ Machine.estack = estack /\ Machine.astack = astack
      /\ Machine.storage = storage
  BY TheMachine DEF IInv
<1>2. \A k \in DOMAIN storage : storage[k] \in Values(mem)
  BY <1>1 DEF IInv, SoundInv, Sound, Slices
<1>3. ASSUME NEW slot \in Slots(Machine) PROVE In(Machine, slot) \in Values(mem)
  <2>1. CASE \E i \in DOMAIN estack : slot = <<"estack", i>>
    BY <1>1, <2>1 DEF In
  <2>2. CASE \E i \in DOMAIN astack : slot = <<"astack", i>>
    BY <1>1, <2>2 DEF In
  <2>3. CASE \E k \in DOMAIN storage : slot = <<"storage", k>>
    BY <1>1, <1>2, <2>3 DEF In
  <2>4. CASE \E a \in Lists(Machine) : \E i \in DOMAIN mem[a].items : slot = <<"list", a, i>>
    <3>1. PICK a \in Lists(Machine) : \E i \in DOMAIN mem[a].items : slot = <<"list", a, i>>
      BY <2>4
    <3>2. mem[a].items \in Seq(Values(mem))
      BY <1>1 DEF Lists, ListsSound
    <3>3. PICK i \in DOMAIN mem[a].items : slot = <<"list", a, i>>
      BY <3>1
    <3>4. In(Machine, slot) = mem[a].items[i]
      BY <1>1, <3>3 DEF In
    <3> QED BY <3>2, <3>4
  <2> QED BY <1>1, <2>1, <2>2, <2>3, <2>4 DEF Slots
<1>4. ASSUME NEW slot \in Slots(Machine)
      PROVE  In(Machine, slot) \in Items /\ Fitting(mem, In(Machine, slot))
  BY <1>3 DEF Values
<1> QED BY <1>4 DEF TypeOK, IInv

\* Every item on a stack, in a list or in storage is of a kind the VM has, and
\* what it points at is there: a number, a list, or an array as long as the
\* slice needs, whatever the script (stack_item.go, main.go).
THEOREM ItemsFit == Spec => []TypeOK
<1>1. Init => IInv
  BY InvInit
<1>2. IInv /\ [Next]_vars => IInv'
  BY InvStep
<1>3. IInv => TypeOK
  BY InvTypeOK
<1> QED BY <1>1, <1>2, <1>3, PTL DEF Spec

\* An entry of the storage has what the script last put in it, or else what the
\* node has, unless CAT wrote over it where it is (main.go's storage map).
THEOREM StorageHolds == Spec => []StorageKept
<1>1. Init => IInv
  BY InvInit
<1>2. IInv /\ [Next]_vars => IInv'
  BY InvStep
<1>3. IInv => StorageKept
  <2> SUFFICES ASSUME IInv PROVE StorageKept
    OBVIOUS
  <2>1. Kept(Machine) /\ Machine.storage = storage /\ Machine.written = written
        /\ Machine.spoilt = spoilt
    BY TheMachine DEF IInv, SoundInv, Sound
  <2> QED BY <2>1 DEF Kept, StorageKept
<1> QED BY <1>1, <1>2, <1>3, PTL DEF Spec

\* What the other actions run is none of the four kinds.
LEMMA PaidFor ==
  ASSUME IInv, Next, GasLimit > 0
  PROVE  gas' > gas \/ state' = "fault" \/ Push \/ Renewal
<1> DEFINE special == Constants \union Deployments \union SizedPuts
<1>1. SoundInv /\ gas \in Words
  BY DEF IInv
<1>2. ASSUME NEW op, NEW m, Runs(op, m), op \notin special,
             (PriceKnown(op) /\ op \in Renewals) => Operand(1) \in 1..MaxYears
      PROVE  gas' > gas \/ state' = "fault"
  <2>1. gas <= GasLimit
    BY <1>2 DEF Runs, IInv
  <2> QED BY <1>1, <1>2, <2>1, Paid
<1>3. ASSUME NEW op \in StackOps \union {"CAT"} \union SpliceOps \union InPlaceOps \union UnaryOps
                           \union BinaryOps \union ListOps \union StorageOps \union ContextOps,
             NEW m, Runs(op, m)
      PROVE  gas' > gas \/ state' = "fault"
  <2>1. op \notin special /\ op \notin Renewals
    BY DEF Constants, Renewals, StackOps, SpliceOps, InPlaceOps, UnaryOps, BinaryOps, ListOps,
           StorageOps, ContextOps, Bitwise2, Arithmetic2, Shifts, Comparisons, Deployments,
           SizedPuts
  <2> QED BY <1>2, <1>3, <2>1
<1>4. ASSUME NEW op \in DOMAIN ChainOps \union TransactionOps \union BlockOps \union HeaderOps
                           \union EngineOps \union {"Runtime.Serialize", "Runtime.Deserialize"},
             NEW m, Runs(op, m)
      PROVE  gas' > gas \/ state' = "fault"
  <2>1. op \notin special /\ op \notin Renewals
    BY DEF Constants, Renewals, ChainOps, TransactionOps, BlockOps, HeaderOps, EngineOps,
           Deployments, SizedPuts
  <2> QED BY <1>2, <1>4, <2>1
<1>5. CASE CallStub
  <2> PICK op \in Used(Calls(Stubs)) : Runs(op, Machine)
    BY <1>5 DEF CallStub
  <2>1. op \notin special
    BY DEF Used, Calls, Stubs, AccountStubs, AssetStubs, AttributeStubs, BlockchainStubs,
           ContractStubs, EnumeratorStubs, HeaderStubs, IteratorStubs, FindStub,
           TransactionStubs, ContainerStub, Constants, Deployments, SizedPuts
  <2>2. CASE op \in Renewals /\ PriceKnown(op) /\ Operand(1) \notin 1..MaxYears
    <3>1. NumberAt(1)
      BY <2>2 DEF PriceKnown, Renewals, Deployments, SizedPuts
    <3>2. op \in Used(Renewals)
      BY <2>2 DEF Used
    <3> QED BY <2>2, <3>1, <3>2 DEF Renewal
  <2>3. CASE ~(op \in Renewals /\ PriceKnown(op) /\ Operand(1) \notin 1..MaxYears)
    BY <1>2, <2>1, <2>3
  <2> QED BY <2>2, <2>3
<1> HIDE DEF special
<1>6. CASE CallUnknown
  BY <1>6 DEF CallUnknown, Runs, Fault
<1>7. CASE StackOp \/ Cat \/ Splice \/ ChangeInPlace \/ UseList
  BY <1>3, <1>7 DEF StackOp, Cat, Splice, ChangeInPlace, UseList, Used
<1>8. CASE Compute \/ UseStorage
  BY <1>3, <1>8 DEF Compute, UseStorage, Used
<1>9. CASE AskForBlock \/ UseBlock \/ AskEngine
  BY <1>4, <1>9 DEF AskForBlock, UseBlock, AskEngine, Used
<1>10. CASE UseSerialized
  BY <1>4, <1>10 DEF UseSerialized, Used
<1> QED BY <1>5, <1>6, <1>7, <1>8, <1>9, <1>10 DEF Next

\* With a limit set, whatever a script goes on after raises the gas it consumed:
\* none of the prices is nothing or less, and no sum of them passes the end of
\* int64 before the limit stops it.  What does not is a push, or a renewal of no
\* years, of less, or of more than MaxYears (main.go:1666-1668, vm.go:516-521).
THEOREM CallsArePaidFor == Spec => NoCallIsFree
<1>1. Init => IInv
  BY InvInit
<1>2. IInv /\ [Next]_vars => IInv'
  BY InvStep
<1>3. IInv /\ [Next]_vars =>
        [GasLimit > 0 => gas' > gas \/ state' = "fault" \/ Push \/ Renewal]_vars
  BY PaidFor
<1> QED BY <1>1, <1>2, <1>3, PTL DEF Spec, NoCallIsFree
=============================================================================
