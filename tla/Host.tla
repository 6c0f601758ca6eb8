---------------------------------- MODULE Host ----------------------------------
(***************************************************************************)
(* A script and its host (cli/main.go): the values on its stacks, which    *)
(* are pointers and slices of Go, the storage the CLI keeps for it, the    *)
(* node it asks for what it lacks, and the price of all it does.           *)
(*                                                                         *)
(* Numbers, byte arrays and lists are in cells of memory, so that it can   *)
(* be told which instruction copies a value and which hands out the value  *)
(* itself.  One instruction of the script per step.                        *)
(***************************************************************************)
EXTENDS Numbers, Words, Functions

CONSTANTS
  Kits,             \* what scripts are made of, see KitsAssumption
  Addresses,        \* of memory: a bound of the model
  MaxArraySize, MaxItemSize, GasLimit,
  interopGasRatio,  \* of 0.001 GAS
  ByIndexSize,      \* a block is asked for by an index of at most this size
  MaxIndex,         \* math.MaxUint32
  Uint160Size, Uint256Size, KeySize,
  Witnesses,        \* the script hashes given to the CLI as -wits
  KeyHash(_),       \* script hash of a public key's bytes, NoKey if it is none
  NoKey,
  Height,           \* of the chain, as the node gave it when the CLI began
  Answers,          \* blocks, headers and contracts the node sends
  Ledger,           \* the storage the node has, by script hash and key
  Serialized,       \* byte arrays SerializeItem makes
  Deserialized      \* items DeserializeItem makes, see DeserializedAssumption

VARIABLES
  mem,              \* what each address holds
  estack, astack,   \* evaluation and alt stack, top first
  storage,          \* the map of that name: slices by script hash and key
  gas,              \* v.gasConsumed, an int64
  state,            \* "run", or "fault", after which the CLI exits; a script may
                    \* end, in HALT, after any instruction
  kit,              \* which of Kits this script is made of
  steps,            \* instructions so far
  written, spoilt, lent   \* history: what was put in storage; entries of it
                    \* overwritten in place; cells that were handed out while
                    \* something else kept them

vars == <<mem, estack, astack, storage, gas, state, kit, steps, written, spoilt, lent>>

-----------------------------------------------------------------------------
(* Items and memory                                                        *)

\* A slice has len bytes from off on, of an array that may go on after them.
IntAt(a) == [is |-> "int", at |-> a]
SliceOf(a, off, len) == [is |-> "bytes", at |-> a, off |-> off, len |-> len]
BoolOf(b) == [is |-> "bool", b |-> b]
ListAt(a) == [is |-> "list", at |-> a]
Context(hash, readOnly) == [is |-> "StorageContext", ScriptHash |-> hash, ReadOnly |-> readOnly]

\* Interop items, which point at nothing in the memory of the model.
Interop ==
  [is : {"StorageContext"}, ScriptHash : Seq(Byte), ReadOnly : BOOLEAN]
    \union [is : {"contract", "tx"}, hash : Seq(Byte)]
    \union [is : {"header"}, hash : Seq(Byte), PrevHash : Seq(Byte), Index : Nat, Timestamp : Nat]
    \union [is : {"block"}, hash : Seq(Byte), PrevHash : Seq(Byte), Index : Nat, Timestamp : Nat,
            Transactions : Seq(Seq(Byte))]
Items ==
  [is : {"int", "list"}, at : Addresses] \union [is : {"bytes"}, at : Addresses, off : Nat, len : Nat]
    \union [is : {"bool"}, b : BOOLEAN] \union Interop

\* A kit: instructions and system calls, by name; the operands PUSH instructions
\* have; what earlier instructions left on the stack, and the gas they took; the
\* hashes of the scripts on the invocation stack, the running one first; and how
\* many more instructions there are, a bound of the model.
Leaves ==
  ({"int"} \X Int) \union ({"bytes"} \X Seq(Byte)) \union ({"item"} \X [is : {"bool"}, b : BOOLEAN])
Literals == Leaves \union ({"item"} \X Interop)
ASSUME KitsAssumption ==
  \A k \in DOMAIN Kits :
    /\ DOMAIN Kits[k] = {"ops", "ints", "data", "stack", "gas", "frames", "steps"}
    /\ Kits[k].ints \subseteq Int /\ Kits[k].data \subseteq Seq(Byte)
    /\ Kits[k].stack \in Seq(Literals) /\ Len(Kits[k].stack) <= Cardinality(Addresses)
    /\ Kits[k].frames \in Seq(Seq(Byte)) /\ Kits[k].frames # <<>>
    /\ Kits[k].gas \in 0..MaxInt64 /\ (GasLimit > 0 => Kits[k].gas <= GasLimit)
    /\ Kits[k].steps \in Nat

\* An item that was serialized, the first of its parts: a list has others of them,
\* and each of those is in one list.
ListKinds == {"Array", "Struct"}
IsList(part) == part[1] \in ListKinds
Nested(parts) ==
  UNION {{i} \X DOMAIN parts[i][2] : i \in {l \in DOMAIN parts : IsList(parts[l])}}
ASSUME DeserializedAssumption ==
  \A parts \in Deserialized :
    /\ parts \in Seq(Leaves \union (ListKinds \X Seq(Nat))) /\ parts # <<>>
    /\ \A x, y \in Nested(parts) :
         LET PartAt(place) == parts[place[1]][2][place[2]]
         IN PartAt(x) \in 2..Len(parts) /\ (x # y => PartAt(x) # PartAt(y))
ASSUME SerializedAssumption == Serialized \subseteq Seq(Byte)
ASSUME BoundsAssumption ==
  /\ Cardinality(Addresses) \in Nat /\ Addresses = 1..Cardinality(Addresses)
  /\ MaxArraySize \in Nat /\ MaxItemSize \in Nat /\ GasLimit \in Nat
  /\ ByIndexSize \in Nat /\ Uint256Size \in Nat /\ ByIndexSize < Uint256Size
ASSUME ChainAssumption ==
  /\ Answers \subseteq Interop /\ Height \in Nat
  /\ \A k \in DOMAIN Ledger : Ledger[k] \in Seq(Byte)

Free == [holds |-> "nothing"]
IntCell(n) == [holds |-> "int", n |-> n]
Array(bytes) == [holds |-> "bytes", bytes |-> bytes]
ListCell(kind, items) == [holds |-> kind, items |-> items]

Lists(m) == {a \in Addresses : m.mem[a].holds \in ListKinds}
InStacks(m) == ToSet(m.estack) \union ToSet(m.astack) \union Range(m.storage)
Within(m, lists) == InStacks(m) \union UNION {ToSet(m.mem[a].items) : a \in lists}
\* The fewest lists that hold every list of the stacks, or of one another.
Holding(m) ==
  {lists \in SUBSET Lists(m) :
     \A item \in Within(m, lists) : item.is = "list" => item.at \in lists}
Reached(m) == Within(m, {a \in Lists(m) : \A lists \in Holding(m) : a \in lists})
InMemory(items) == {i.at : i \in {j \in items : j.is \in {"int", "bytes", "list"}}}
Collected(m) ==
  LET used == InMemory(Reached(m))
  IN [a \in Addresses |-> IF a \in used THEN m.mem[a] ELSE Free]

\* The places of a machine that keep an item.
Slots(m) ==
  {<<"estack", i>> : i \in DOMAIN m.estack} \union {<<"astack", i>> : i \in DOMAIN m.astack}
    \union {<<"storage", k>> : k \in DOMAIN m.storage}
    \union UNION {{<<"list", a, i>> : i \in DOMAIN m.mem[a].items} :
                    a \in Lists(m)}
In(m, slot) ==
  CASE slot[1] = "estack" -> m.estack[slot[2]]
    [] slot[1] = "astack" -> m.astack[slot[2]]
    [] slot[1] = "storage" -> m.storage[slot[2]]
    [] slot[1] = "list" -> m.mem[slot[2]].items[slot[3]]

-----------------------------------------------------------------------------
(* An instruction makes a machine of a machine, or fails.                  *)

Machine ==
  [mem |-> mem, estack |-> estack, astack |-> astack, storage |-> storage,
   written |-> written, spoilt |-> spoilt, lent |-> lent]
Failed == [failed |-> TRUE]
Ok(cond, m) == IF cond THEN m ELSE Failed

FreeCells(m) == {a \in Addresses : m.mem[a] = Free}
NewAt(m) == Min(FreeCells(m))

Popped(m, n) == [m EXCEPT !.estack = SubSeq(@, n + 1, Len(@))]
Pushed(m, item) == [m EXCEPT !.estack = <<item>> \o @]
PushedInt(m, n) ==
  LET a == NewAt(m) IN Pushed([m EXCEPT !.mem[a] = IntCell(n)], IntAt(a))
\* spare: how much more the array was made to hold.
Stored(m, bytes, spare) ==
  LET a == NewAt(m)
  IN [m |-> [m EXCEPT !.mem[a] = Array(bytes \o [i \in 1..spare |-> 0])],
      item |-> SliceOf(a, 0, Len(bytes))]
PushedStored(s) == Pushed(s.m, s.item)
PushedBytes(m, bytes) == PushedStored(Stored(m, bytes, 0))
PushedList(m, kind, items) ==
  LET a == NewAt(m) IN Pushed([m EXCEPT !.mem[a] = ListCell(kind, items)], ListAt(a))

\* What address a holds for a literal, and the item there.
CellOf(literal) ==
  CASE literal[1] = "int" -> IntCell(literal[2])
    [] literal[1] = "bytes" -> Array(literal[2])
    [] literal[1] = "item" -> Free
ItemOf(literal, a) ==
  CASE literal[1] = "int" -> IntAt(a)
    [] literal[1] = "bytes" -> SliceOf(a, 0, Len(literal[2]))
    [] literal[1] = "item" -> literal[2]

BytesOf(m, slice) == SubSeq(m.mem[slice.at].bytes, slice.off + 1, slice.off + slice.len)

IsPrimitive(item) == item.is \in {"int", "bytes", "bool"}
BigInt(m, item) ==
  CASE item.is = "int" -> m.mem[item.at].n
    [] item.is = "bool" -> IF item.b THEN 1 ELSE 0
    [] item.is = "bytes" -> BytesToInt(BytesOf(m, item))
Bytes(m, item) ==
  CASE item.is = "int" -> IntToBytes(m.mem[item.at].n)
    [] item.is = "bool" -> IF item.b THEN <<1>> ELSE <<>>
    [] item.is = "bytes" -> BytesOf(m, item)
\* Where the code needs an index, a length or a price, it takes the low 64 bits.
WordOf(m, item) == Int64(BigInt(m, item))
Bool(m, item) ==
  CASE item.is = "int" -> WordOf(m, item) # 0
    [] item.is = "bool" -> item.b
    [] item.is = "bytes" -> \E i \in 1..item.len : BytesOf(m, item)[i] # 0
    [] OTHER -> TRUE

\* The bytes of an item that has some are those bytes, of another they are new;
\* the bytes of a number are in an array of whole words.
AsSlice(m, item) ==
  IF item.is = "bytes" THEN [m |-> m, item |-> item]
  ELSE Stored(m, Bytes(m, item), IF item.is = "int" THEN 1 ELSE 0)

\* Dup: lists and interop items are not copied.
Dup(m, item) ==
  CASE item.is = "int" ->
         LET a == NewAt(m) IN [m |-> [m EXCEPT !.mem[a] = m.mem[item.at]], item |-> IntAt(a)]
    [] item.is = "bytes" -> Stored(m, BytesOf(m, item), 0)
    [] OTHER -> [m |-> m, item |-> item]

\* A copy of item, as the n-th of the stack.
Placed(m, item, n) ==
  LET copy == Dup(m, item)
  IN [copy.m EXCEPT !.estack = SubSeq(@, 1, n - 1) \o <<copy.item>> \o SubSeq(@, n, Len(@))]

\* What is handed out while something else keeps it.
Lent(m, items) ==
  [m EXCEPT !.lent = @ \union {i.at : i \in {j \in items : j.is \in {"int", "bytes"}}}]

-----------------------------------------------------------------------------
(* Pushes and stack operations                                             *)

Constants == {"PUSH", "PUSHDATA"}
PushAfter(op) ==
  IF op = "PUSH" THEN {PushedInt(Machine, n) : n \in Kits[kit].ints}
  ELSE {PushedBytes(Machine, b) : b \in Kits[kit].data}

\* Item n of the stack, counted from 0, comes to the top.
Rolled(m, n) == [m EXCEPT !.estack = <<@[n + 1]>> \o RemoveAt(@, n + 1)]
Swapped(m, n) ==
  [m EXCEPT !.estack = [@ EXCEPT ![1] = m.estack[n + 1], ![n + 1] = m.estack[1]]]
Dropped(m, n) == [m EXCEPT !.estack = RemoveAt(@, n + 1)]

StackOps ==
  {"DUP", "OVER", "TUCK", "SWAP", "ROT", "NIP", "DROP", "DEPTH", "PICK", "ROLL", "XDROP",
   "XSWAP", "XTUCK", "TOALTSTACK", "FROMALTSTACK", "DUPFROMALTSTACK"}
StackAfter(op) ==
  LET m == Machine
      height == Len(estack)
      \* For those that take a number first.
      r == Popped(m, 1)
      n == WordOf(m, estack[1])
      Below(lowest) ==
        height > 0 /\ IsPrimitive(estack[1]) /\ lowest <= n /\ n < height - 1 + lowest
  IN CASE op = "DUP" -> Ok(height >= 1, Placed(m, estack[1], 1))
       [] op = "OVER" -> Ok(height >= 2, Placed(m, estack[2], 1))
       [] op = "TUCK" -> Ok(height >= 2, Placed(m, estack[1], 3))
       [] op = "SWAP" -> Ok(height >= 2, Swapped(m, 1))
       [] op = "ROT" -> Ok(height >= 3, Rolled(m, 2))
       [] op = "NIP" -> Ok(height >= 2, Dropped(m, 1))
       [] op = "DROP" -> Ok(height >= 1, Dropped(m, 0))
       [] op = "DEPTH" -> PushedInt(m, height)
       [] op = "PICK" -> Ok(Below(0), Placed(r, estack[n + 2], 1))
       [] op = "ROLL" -> Ok(Below(0), Rolled(r, n))
       [] op = "XDROP" -> Ok(Below(0), Dropped(r, n))
       [] op = "XSWAP" -> Ok(Below(0), Swapped(r, n))
       [] op = "XTUCK" -> Ok(Below(1), Placed(r, estack[2], n + 1))
       [] op = "TOALTSTACK" -> Ok(height >= 1, [r EXCEPT !.astack = <<estack[1]>> \o @])
       [] op = "FROMALTSTACK" ->
            Ok(astack # <<>>, Pushed([m EXCEPT !.astack = Tail(@)], Head(astack)))
       [] op = "DUPFROMALTSTACK" -> Ok(astack # <<>>, Placed(m, Head(astack), 1))

Is(i, what) == Len(estack) >= i /\ estack[i].is = what
Primitives(n) == Len(estack) >= n /\ \A i \in 1..n : IsPrimitive(estack[i])

-----------------------------------------------------------------------------
(* Splice operations                                                       *)

\* Go's append: in the array if it has room after the slice, whatever else may
\* be a slice of those bytes, and else in a new one, larger by grow.
Fills(m, slice, bytes) == slice.off + slice.len + Len(bytes) <= Len(m.mem[slice.at].bytes)
Overwritten(m, slice, bytes) ==
  {k \in DOMAIN m.storage :
     LET kept == m.storage[k]
     IN /\ kept.at = slice.at
        /\ kept.off + kept.len > slice.off + slice.len
        /\ kept.off < slice.off + slice.len + Len(bytes)}
AppendedTo(m, slice, bytes, grow) ==
  LET end == slice.off + slice.len
  IN IF Fills(m, slice, bytes)
     THEN Pushed([m EXCEPT
            !.mem[slice.at].bytes =
              [i \in DOMAIN @ |-> IF i \in (end + 1)..(end + Len(bytes)) THEN bytes[i - end] ELSE @[i]],
            !.spoilt = @ \union Overwritten(m, slice, bytes)],
            SliceOf(slice.at, slice.off, slice.len + Len(bytes)))
     ELSE PushedStored(Stored(m, BytesOf(m, slice) \o bytes, grow))

CatAfter(grow) ==
  LET added == Bytes(Machine, estack[1])
      s == AsSlice(Popped(Machine, 2), estack[2])
  IN Ok(Primitives(2) /\ Len(Bytes(Machine, estack[2])) + Len(added) <= MaxItemSize,
        AppendedTo(s.m, s.item, added, grow))

\* Mutant: a part is as long as the whole.
WholeFrom(m, item, off, len) ==
  LET s == AsSlice(m, item) IN Pushed(s.m, SliceOf(s.item.at, s.item.off + off, s.item.len))
\* A part of a slice is a slice of the same array.
Part(m, item, off, len) ==
  LET s == AsSlice(m, item) IN Pushed(s.m, SliceOf(s.item.at, s.item.off + off, len))

SpliceOps == {"SUBSTR", "LEFT", "RIGHT", "SIZE"}
SpliceAfter(op) ==
  LET m == Machine
      l == WordOf(m, estack[1])
      Size(i) == Len(Bytes(m, estack[i]))
      Least(a, b) == IF a < b THEN a ELSE b
  IN CASE op = "LEFT" ->
            Ok(Primitives(2) /\ l >= 0, Part(Popped(m, 2), estack[2], 0, Least(l, Size(2))))
       [] op = "RIGHT" ->
            Ok(Primitives(2) /\ l >= 0 /\ l <= Size(2), Part(Popped(m, 2), estack[2], Size(2) - l, l))
       [] op = "SUBSTR" ->
            LET o == WordOf(m, estack[2])
                last == Int64(l + o)
            IN Ok(Primitives(3) /\ l >= 0 /\ o >= 0 /\ (o <= Size(3) => o <= last),
                  IF o > Size(3) THEN PushedBytes(Popped(m, 3), <<>>)
                  ELSE Part(Popped(m, 3), estack[3], o, Least(last, Size(3)) - o))
       [] op = "SIZE" -> Ok(Primitives(1), PushedInt(Popped(m, 1), Size(1)))

-----------------------------------------------------------------------------
(* Numbers and booleans                                                    *)

\* These change the number where it is; of bytes or a boolean they make one.
InPlaceOps == {"INVERT", "NEGATE", "ABS"}
Changed(op, n) == CASE op = "INVERT" -> Not(n) [] op = "NEGATE" -> -n [] op = "ABS" -> Magnitude(n)
InPlaceAfter(op) ==
  LET item == estack[1]
      n == Changed(op, BigInt(Machine, item))
  IN Ok(Primitives(1),
        IF item.is = "int" THEN [Machine EXCEPT !.mem[item.at] = IntCell(n)]
        ELSE PushedInt(Popped(Machine, 1), n))

UnaryOps == {"INC", "DEC", "SIGN", "NZ", "NOT"}
UnaryAfter(op) ==
  LET n == BigInt(Machine, estack[1])
      r == Popped(Machine, 1)
  IN CASE op = "INC" -> Ok(Primitives(1) /\ Fits(n + 1), PushedInt(r, n + 1))
       [] op = "DEC" -> Ok(Primitives(1) /\ Fits(n - 1), PushedInt(r, n - 1))
       [] op = "SIGN" -> Ok(Primitives(1), PushedInt(r, Sign(n)))
       [] op = "NZ" -> Ok(Primitives(1), Pushed(r, BoolOf(n # 0)))
       [] op = "NOT" -> Ok(Len(estack) >= 1, Pushed(r, BoolOf(~Bool(Machine, estack[1]))))

\* MIN and MAX push the operand itself.
Chosen(m, item) == IF item.is = "int" THEN Pushed(m, item) ELSE PushedInt(m, BigInt(m, item))
BinaryOps ==
  Bitwise2 \union Arithmetic2 \union Shifts \union Comparisons
    \union {"MIN", "MAX", "WITHIN", "BOOLAND", "BOOLOR"}
BinaryAfter(op) ==
  LET m == Machine
      b == BigInt(m, estack[1])
      a == BigInt(m, estack[2])
      by == Int64(b)
      r == Popped(m, 2)
      Truth(i) == Bool(m, estack[i])
  IN CASE op \in Shifts /\ Primitives(1) /\ by = 0 -> Popped(m, 1)
       [] op \in Shifts /\ ~(Primitives(1) /\ by = 0) ->
            Ok(Primitives(2) /\ Computes(op, a, by), PushedInt(r, Computed(op, a, by)))
       [] op \in Bitwise2 \union Arithmetic2 ->
            Ok(Primitives(2) /\ Computes(op, a, b), PushedInt(r, Computed(op, a, b)))
       [] op \in Comparisons -> Ok(Primitives(2), Pushed(r, BoolOf(Compared(op, a, b))))
       [] op = "MIN" -> Ok(Primitives(2), Chosen(r, estack[IF a > b THEN 1 ELSE 2]))
       [] op = "MAX" -> Ok(Primitives(2), Chosen(r, estack[IF a < b THEN 1 ELSE 2]))
       [] op = "WITHIN" ->
            LET x == BigInt(m, estack[3])
            IN Ok(Primitives(3), Pushed(Popped(m, 3), BoolOf(a <= x /\ x < b)))
       [] op = "BOOLAND" -> Ok(Len(estack) >= 2, Pushed(r, BoolOf(Truth(1) /\ Truth(2))))
       [] op = "BOOLOR" -> Ok(Len(estack) >= 2, Pushed(r, BoolOf(Truth(1) \/ Truth(2))))

-----------------------------------------------------------------------------
(* Lists: what they hand out.  How they are changed and counted is         *)
(* ItemHeap's; VALUES and the clone of a struct hand out items as UNPACK   *)
(* does.                                                                   *)

ItemsOf(item) == mem[item.at].items

\* Converting a list copies the references to its items.
NewListAfter(op, kind) ==
  LET item == estack[1]
      r == Popped(Machine, 1)
      n == WordOf(Machine, item)
  IN CASE Len(estack) = 0 -> Failed
       [] Is(1, "list") ->
            IF mem[item.at].holds = kind THEN Pushed(r, item)
            ELSE PushedList(Lent(r, ToSet(ItemsOf(item))), kind, ItemsOf(item))
       [] OTHER ->
            Ok(IsPrimitive(item) /\ 0 <= n /\ n <= MaxArraySize,
               PushedList(r, kind, [i \in 1..n |-> BoolOf(FALSE)]))

\* Mutant: an item is handed out without its copy.
PickedShared(m, item) == Pushed(m, item)
Picked(m, item) == Placed(m, item, 1)

ListOps == {"PACK", "UNPACK", "PICKITEM", "NEWARRAY", "NEWSTRUCT"}
ListAfter(op) ==
  LET m == Machine
      n == WordOf(m, estack[1])
  IN CASE op = "PACK" ->
            Ok(Primitives(1) /\ 0 <= n /\ n < Len(estack) /\ n <= MaxArraySize,
               PushedList(Popped(m, n + 1), "Array", SubSeq(estack, 2, n + 1)))
       [] op = "UNPACK" ->
            LET items == ItemsOf(estack[1])
            IN Ok(Is(1, "list"),
                  PushedInt(Lent([m EXCEPT !.estack = items \o Tail(@)], ToSet(items)), Len(items)))
       [] op = "PICKITEM" ->
            Ok(Is(2, "list") /\ IsPrimitive(estack[1]) /\ 0 <= n /\ n < Len(ItemsOf(estack[2])),
               Picked(Popped(m, 2), ItemsOf(estack[2])[n + 1]))
       [] op = "NEWARRAY" -> NewListAfter(op, "Array")
       [] op = "NEWSTRUCT" -> NewListAfter(op, "Struct")

-----------------------------------------------------------------------------
(* Items as bytes: what is new of them, and whose.  Which bytes stand for  *)
(* which item is serializeItemTo's in Records.                             *)

\* serializeItemTo may meet no interop item, and no list at two places, as it
\* takes none out of `seen' again.
Alone(item) ==
  LET m == [Machine EXCEPT !.estack = <<item>>, !.astack = <<>>, !.storage = <<>>]
  IN [m EXCEPT !.mem = Collected(m)]
Serializable(item) ==
  LET m == Alone(item)
  IN \A x \in Slots(m) :
       \/ IsPrimitive(In(m, x))
       \/ In(m, x).is = "list" /\ \A y \in Slots(m) : x # y => In(m, y) # In(m, x)

\* The buffer may have room left.
SerializeAfter(bytes, spare) ==
  Ok(Len(estack) >= 1 /\ Serializable(estack[1]) /\ Len(bytes) <= MaxItemSize,
     PushedStored(Stored(Popped(Machine, 1), bytes, spare)))

\* All parts are new, and each has a cell of its own.
Placements(parts) == Injection(DOMAIN parts, FreeCells(Machine))
PartItem(parts, at, i) ==
  IF IsList(parts[i]) THEN ListAt(at[i]) ELSE ItemOf(parts[i], at[i])
PartCell(parts, at, i) ==
  LET part == parts[i]
  IN IF IsList(part)
     THEN ListCell(part[1], [j \in DOMAIN part[2] |-> PartItem(parts, at, part[2][j])])
     ELSE CellOf(part)
Filled(parts, at) ==
  [a \in Addresses |->
     IF \E i \in DOMAIN parts : at[i] = a
     THEN PartCell(parts, at, CHOOSE i \in DOMAIN parts : at[i] = a) ELSE mem[a]]
DeserializeAfter(parts) ==
  LET at == CHOOSE f \in Placements(parts) : TRUE
  IN Ok(Primitives(1),
        Pushed([Popped(Machine, 1) EXCEPT !.mem = Filled(parts, at)], PartItem(parts, at, 1)))

-----------------------------------------------------------------------------
(* Storage.  System calls are named without their System or Neo, unless    *)
(* the two differ.                                                         *)

\* The first operands of a call: a storage context and, under it, a key.
InContext == Is(1, "StorageContext") /\ Len(estack) >= 2 /\ IsPrimitive(estack[2])
Entry == <<estack[1].ScriptHash, Bytes(Machine, estack[2])>>

NodeHas(k) == IF k \in DOMAIN Ledger THEN Ledger[k] ELSE <<>>

With(f, k, v) == [x \in DOMAIN f \union {k} |-> IF x = k THEN v ELSE f[x]]
Entered(m, k, item) == [m EXCEPT !.storage = With(@, k, item)]
\* history: what the script has made of entry k.
Wrote(m, k, bytes) ==
  [m EXCEPT !.written = With(@, k, bytes), !.spoilt = @ \ {k}]

\* What was got from the node is kept as if it had been put; hex.DecodeString
\* works within the array it made for the text, twice as long.
StorageGet(k, answers) ==
  LET r == Popped(Machine, 2)
      fetched == Stored(r, NodeHas(k), Len(NodeHas(k)))
  IN IF k \in DOMAIN storage THEN Pushed(Lent(r, {storage[k]}), storage[k])
     ELSE Ok(answers, PushedStored([fetched EXCEPT !.m = Entered(Lent(@, {fetched.item}), k, fetched.item)]))

\* Whether the context is read only is not looked at.
StoragePut(k) ==
  LET value == AsSlice(Popped(Machine, 3), estack[3])
  IN Ok(Len(estack) >= 3 /\ IsPrimitive(estack[3]), Wrote(Entered(value.m, k, value.item), k, BytesOf(value.m, value.item)))

\* PutEx takes its flags off the stack before it puts.
StoragePutEx(k) ==
  LET put == StoragePut(k)
  IN Ok(Len(estack) >= 4 /\ IsPrimitive(estack[3]) /\ IsPrimitive(estack[4]), Popped(put, 1))

\* Mutant: a deleted entry is forgotten, and asked for again.
Forgotten(k) ==
  LET r == Popped(Machine, 2)
  IN Ok(~estack[1].ReadOnly, Wrote([r EXCEPT !.storage = [x \in DOMAIN @ \ {k} |-> @[x]]], k, <<>>))

\* A deleted entry is there, and empty.
StorageDelete(k) ==
  LET empty == Stored(Popped(Machine, 2), <<>>, 0)
  IN Ok(~estack[1].ReadOnly, Wrote(Entered(empty.m, k, empty.item), k, <<>>))

StorageOps == {"Storage.Get", "Storage.Put", "Storage.PutEx", "Storage.Delete"}
StorageAfter(op, answers) ==
  CASE ~InContext -> Failed
    [] op = "Storage.Get" /\ InContext -> StorageGet(Entry, answers)
    [] op = "Storage.Put" /\ InContext -> StoragePut(Entry)
    [] op = "Storage.PutEx" /\ InContext -> StoragePutEx(Entry)
    [] op = "Storage.Delete" /\ InContext -> StorageDelete(Entry)

\* Any script may have the context of any contract.
Running == Head(Kits[kit].frames)
ContextOps ==
  {"Storage.GetContext", "Storage.GetReadOnlyContext", "StorageContext.AsReadOnly",
   "Contract.GetStorageContext"}
ContextAfter(op) ==
  CASE op = "Storage.GetContext" -> Pushed(Machine, Context(Running, FALSE))
    [] op = "Storage.GetReadOnlyContext" -> Pushed(Machine, Context(Running, TRUE))
    [] op = "StorageContext.AsReadOnly" ->
         Ok(Is(1, "StorageContext"),
            Pushed(Popped(Machine, 1), Context(estack[1].ScriptHash, TRUE)))
    [] op = "Contract.GetStorageContext" ->
         Ok(Is(1, "contract"), Pushed(Popped(Machine, 1), Context(estack[1].hash, FALSE)))

-----------------------------------------------------------------------------
(* The chain: blocks, headers and contracts are asked for and taken apart. *)

ChainOps == [op \in {"Blockchain.GetBlock", "Blockchain.GetHeader", "Blockchain.GetContract",
                     "Runtime.GetTime"} |->
               CASE op = "Blockchain.GetBlock" -> "block"
                 [] op = "Blockchain.GetContract" -> "contract"
                 [] OTHER -> "header"]
\* getBlockHashFromElement: an index, for which the node has a hash, or a hash.
BlockAskedFor ==
  /\ Primitives(1)
  /\ LET size == Len(Bytes(Machine, estack[1]))
     IN IF size <= ByIndexSize THEN WordOf(Machine, estack[1]) \in 0..MaxIndex ELSE size = Uint256Size
\* answer: what the node sends, or NoAnswer; what cannot be read as a block is
\* taken for one all the same, with the fields that could.
NoAnswer == [is |-> "nothing"]
ChainAfter(op, answer) ==
  CASE answer = NoAnswer -> Failed
    [] answer # NoAnswer /\ op \in {"Blockchain.GetBlock", "Blockchain.GetHeader"} ->
         Ok(BlockAskedFor, Pushed(Popped(Machine, 1), answer))
    [] answer # NoAnswer /\ op = "Blockchain.GetContract" ->
         Ok(Primitives(1) /\ Len(Bytes(Machine, estack[1])) = Uint160Size,
            Pushed(Popped(Machine, 1), answer))
    [] answer # NoAnswer /\ op = "Runtime.GetTime" -> PushedInt(Machine, answer.Timestamp)

\* getTransactionAndHeight does not read what the node answers, and then refuses
\* the transaction for having no id.
TransactionOps ==
  {"System.Blockchain.GetTransaction", "Neo.Blockchain.GetTransaction",
   "Blockchain.GetTransactionHeight"}

BlockOps == {"Block.GetTransaction", "Block.GetTransactionCount", "Block.GetTransactions"}
BlockAfter(op) ==
  LET r == Popped(Machine, 1)
      txs == estack[1].Transactions
      index == WordOf(Machine, estack[2])
      tx(i) == [is |-> "tx", hash |-> txs[i]]
  IN CASE op = "Block.GetTransactionCount" -> Ok(Is(1, "block"), PushedInt(r, Len(txs)))
       [] op = "Block.GetTransactions" ->
            Ok(Is(1, "block") /\ Len(txs) <= MaxArraySize,
               PushedList(r, "Array", [i \in DOMAIN txs |-> tx(i)]))
       [] op = "Block.GetTransaction" ->
            Ok(Is(1, "block") /\ Len(estack) >= 2 /\ IsPrimitive(estack[2])
                 /\ index + 1 \in DOMAIN txs,
               Pushed(Popped(r, 1), tx(index + 1)))

\* A header is popped from a header or a block.
HeaderOps == {"Header.GetHash", "Header.GetPrevHash", "Header.GetIndex", "Header.GetTimestamp"}
HeaderAfter(op) ==
  LET r == Popped(Machine, 1)
      header == estack[1]
  IN Ok(Is(1, "header") \/ Is(1, "block"),
        CASE op = "Header.GetHash" -> PushedBytes(r, header.hash)
          [] op = "Header.GetPrevHash" -> PushedBytes(r, header.PrevHash)
          [] op = "Header.GetIndex" -> PushedInt(r, header.Index)
          [] op = "Header.GetTimestamp" -> PushedInt(r, header.Timestamp))

-----------------------------------------------------------------------------
(* The engine and its surroundings                                         *)

\* n is counted from the running script.
Frame(n) ==
  LET frames == Kits[kit].frames
  IN Ok(n < Len(frames), PushedBytes(Machine, frames[n + 1]))

\* By the hash of a script, or by a public key.
CheckWitness ==
  LET given == Bytes(Machine, estack[1])
      hash == IF Len(given) = Uint160Size THEN given ELSE KeyHash(given)
  IN Ok(Primitives(1) /\ (Len(given) = Uint160Size \/ (Len(given) = KeySize /\ hash # NoKey)),
        Pushed(Popped(Machine, 1), BoolOf(hash \in Witnesses)))

EngineOps ==
  {"ExecutionEngine.GetCallingScriptHash", "ExecutionEngine.GetEntryScriptHash",
   "ExecutionEngine.GetExecutingScriptHash", "Runtime.CheckWitness", "Runtime.GetTrigger",
   "Runtime.Log", "Runtime.Notify", "Runtime.Platform", "Blockchain.GetHeight",
   "Transaction.GetHash"}
EngineAfter(op) ==
  LET r == Popped(Machine, 1)
  IN CASE op = "ExecutionEngine.GetCallingScriptHash" -> Frame(1)
       [] op = "ExecutionEngine.GetEntryScriptHash" -> Frame(Len(Kits[kit].frames) - 1)
       [] op = "ExecutionEngine.GetExecutingScriptHash" -> Frame(0)
       [] op = "Runtime.CheckWitness" -> CheckWitness
       [] op = "Runtime.GetTrigger" -> PushedInt(Machine, 16)
       [] op = "Runtime.Log" -> Ok(Primitives(1), r)
       [] op = "Runtime.Notify" -> r            \* even of nothing
       [] op = "Runtime.Platform" -> PushedBytes(Machine, <<78, 69, 79>>)
       [] op = "Blockchain.GetHeight" -> PushedInt(Machine, Height)
       [] op = "Transaction.GetHash" -> Ok(Is(1, "tx"), PushedBytes(r, estack[1].hash))

-----------------------------------------------------------------------------
(* Prices                                                                  *)

\* Calls with what they cost, in units of 0.001 GAS; these do nothing yet.
AccountStubs ==
  {"Account.GetBalance", "Account.GetScriptHash", "Account.GetVotes"} \X {1}
    \union {<<"Account.IsStandard", 100>>}
AssetStubs ==
  {"Asset.GetAdmin", "Asset.GetAmount", "Asset.GetAssetId", "Asset.GetAssetType",
   "Asset.GetAvailable", "Asset.GetIssuer", "Asset.GetOwner", "Asset.GetPrecision"} \X {1}
    \union {"Asset.Create", "Asset.Renew"} \X {0}
AttributeStubs == {"Attribute.GetData", "Attribute.GetUsage"} \X {1}
BlockchainStubs == {"Blockchain.GetAccount", "Blockchain.GetAsset"} \X {100}
ContractStubs ==
  {"Contract.Create", "Contract.Destroy", "Contract.GetScript"} \X {1}
    \union {<<"Blockchain.GetValidators", 200>>}
EnumeratorStubs ==
  {"Contract.IsPayable", "Contract.Migrate", "Enumerator.Concat", "Enumerator.Create",
   "Enumerator.Next", "Enumerator.Value", "Header.GetConsensusData"} \X {1}
HeaderStubs == {"Header.GetMerkleRoot", "Header.GetNextConsensus"} \X {1}
IteratorStubs ==
  {"Header.GetVersion", "Input.GetHash", "Input.GetIndex", "InvocationTransaction.GetScript",
   "Iterator.Concat", "Iterator.Create", "Iterator.Key", "Iterator.Keys", "Iterator.Values",
   "Output.GetAssetId", "Output.GetScriptHash", "Output.GetValue"} \X {1}
FindStub == {<<"Storage.Find", 1>>}
TransactionStubs ==
  {"Transaction.GetAttributes", "Transaction.GetInputs", "Transaction.GetOutputs",
   "Transaction.GetType"} \X {1}
    \union {"Transaction.GetReferences", "Transaction.GetUnspentCoins",
            "Transaction.GetWitnesses"} \X {200}
    \union {<<"Witness.GetVerificationScript", 100>>}
\* Its price is left out, and so 0.
ContainerStub == {<<"ExecutionEngine.GetScriptContainer", 0>>}
Stubs ==
  AccountStubs \union AssetStubs \union AttributeStubs \union BlockchainStubs
    \union ContractStubs \union EnumeratorStubs \union HeaderStubs \union IteratorStubs
    \union FindStub \union TransactionStubs \union ContainerStub

BlockPrices == BlockOps \X {1}
ChainPrices ==
  {"Blockchain.GetContract", "Blockchain.GetHeader", "Neo.Blockchain.GetTransaction",
   "Blockchain.GetTransactionHeight"} \X {100}
    \union {"Blockchain.GetBlock", "System.Blockchain.GetTransaction"} \X {200}
    \union {<<"Blockchain.GetHeight", 1>>}
HeaderPrices == HeaderOps \X {1}
RuntimePrices ==
  {"Runtime.GetTime", "Runtime.GetTrigger", "Runtime.Log", "Runtime.Notify",
   "Runtime.Platform", "Runtime.Serialize", "Runtime.Deserialize"} \X {1}
    \union {<<"Runtime.CheckWitness", 200>>}
EnginePrices ==
  {"ExecutionEngine.GetCallingScriptHash", "ExecutionEngine.GetEntryScriptHash",
   "ExecutionEngine.GetExecutingScriptHash", "Transaction.GetHash"} \X {1}
StoragePrices ==
  {"Storage.Get", "Storage.Delete"} \X {100}
    \union {"Storage.Put", "Storage.PutEx"} \X {1000} \union ContextOps \X {1}
Prices ==
  Stubs \union BlockPrices \union ChainPrices \union HeaderPrices \union RuntimePrices
    \union EnginePrices \union StoragePrices
Calls(prices) == {p[1] : p \in prices}
Registered ==
  [op \in Calls(Prices) |-> CHOOSE n \in {p[2] : p \in Prices} : <<op, n>> \in Prices]

toFixed8(n) == n * interopGasRatio
GAS == toFixed8(1000)
\* The CLI's limit is 500 GAS, far from the end of int64.
ASSUME GasAssumption ==
  interopGasRatio \in Nat \ {0} /\ GasLimit + 5000 * GAS <= MaxInt64
\* Bit 0 of the properties is HasStorage, bit 1 HasDynamicInvoke.
DeploymentPrice(props) ==
  GAS * (100 + 400 * Bit(props, 0) + 500 * Bit(props, 1))

\* What getSyscallPrice peeks at: an element below the top, 0 for none.
Renewals == {"Asset.Renew", "AntShares.Asset.Renew"}
Creations == {"Asset.Create", "AntShares.Asset.Create"}
Deployments == {"AntShares.Contract.Create", "AntShares.Contract.Migrate"}
SizedPuts == {"AntShares.Storage.Put"}
SizeOf(i) == Len(Bytes(Machine, estack[i + 1]))
\* The number there, as getSyscallPrice takes it.
Operand(i) == WordOf(Machine, estack[i + 1])
NumberAt(i) == Len(estack) > i /\ IsPrimitive(estack[i + 1])

\* Mutant: a price of nothing is a price as well.
HasAnyPrice(op) == op \in DOMAIN Registered
HasOwnPrice(op) == op \in DOMAIN Registered /\ Registered[op] > 0

\* Before an instruction is charged for, it can fail for want of an operand.
PriceKnown(op) ==
  CASE op \in Renewals -> NumberAt(1)
    [] op \in Deployments -> NumberAt(3)
    [] op \in SizedPuts -> NumberAt(1) /\ NumberAt(2)
    [] OTHER -> TRUE
\* Fixed8FromInt64 of a product of int64s.
RenewalPrice(years) == Int64(Int64(years * 5000) * GAS)
SyscallPrice(op) ==
  CASE HasOwnPrice(op) -> toFixed8(Registered[op])
    [] ~HasOwnPrice(op) /\ op \in Creations -> 5000 * GAS
    [] ~HasOwnPrice(op) /\ op \in Renewals -> RenewalPrice(Operand(1))
    [] ~HasOwnPrice(op) /\ op \in Deployments -> DeploymentPrice(Operand(3))
    [] ~HasOwnPrice(op) /\ op \in SizedPuts -> GAS * (Quo((SizeOf(1) + SizeOf(2)) - 1, 1024) + 1)
    [] OTHER -> GAS

Syscalls ==
  DOMAIN Registered \union Creations \union Renewals \union Deployments \union SizedPuts
    \union {"unknown"}
Price(op) ==
  IF op \in Constants THEN 0 ELSE IF op \in Syscalls THEN SyscallPrice(op) ELSE toFixed8(1)

-----------------------------------------------------------------------------
(* Steps                                                                   *)

\* Nothing yet: storage is empty when the CLI begins.
Began ==
  [mem |-> [a \in Addresses |-> Free], estack |-> <<>>, astack |-> <<>>, storage |-> <<>>,
   written |-> <<>>, spoilt |-> {}, lent |-> {}]

\* On FAULT main ends with log.Fatalln: nothing is left.
Fault ==
  /\ state' = "fault" /\ mem' = Began.mem /\ estack' = <<>> /\ astack' = <<>>
  /\ storage' = <<>> /\ written' = <<>> /\ spoilt' = {} /\ lent' = {}

\* What is lent is so until one place only keeps it.
Refers(m, slot, a) == LET item == In(m, slot) IN item.is \in {"int", "bytes"} /\ item.at = a
Several(m, a) ==
  \E x, y \in Slots(m) : x # y /\ Refers(m, x, a) /\ Refers(m, y, a)

Effect(m) ==
  /\ state' = "run"
  /\ mem' = Collected(m)
  /\ estack' = m.estack /\ astack' = m.astack /\ storage' = m.storage
  /\ written' = m.written /\ spoilt' = m.spoilt
  /\ lent' = {a \in m.lent : Several([m EXCEPT !.mem = mem'], a)}

OutOfGas(spent) == GasLimit > 0 /\ spent > GasLimit

\* (*VM).execute.
Runs(op, m) ==
  /\ state = "run" /\ steps < Kits[kit].steps
  /\ Cardinality(FreeCells(Machine)) >= 3
  /\ steps' = steps + 1 /\ kit' = kit
  /\ IF ~PriceKnown(op) THEN gas' = gas /\ Fault
     ELSE /\ gas' = Int64(gas + Price(op))
          /\ IF OutOfGas(gas') \/ m = Failed THEN Fault ELSE Effect(m)

Used(ops) == ops \intersect Kits[kit].ops
Push == \E op \in Used(Constants) : \E m \in PushAfter(op) : Runs(op, m)
StackOp == \E op \in Used(StackOps) : Runs(op, StackAfter(op))
Cat == \E op \in Used({"CAT"}) : \E grow \in 0..1 : Runs(op, CatAfter(grow))
Splice == \E op \in Used(SpliceOps) : Runs(op, SpliceAfter(op))
ChangeInPlace == \E op \in Used(InPlaceOps) : Runs(op, InPlaceAfter(op))
Compute ==
  \/ \E op \in Used(UnaryOps) : Runs(op, UnaryAfter(op))
  \/ \E op \in Used(BinaryOps) : Runs(op, BinaryAfter(op))
UseList == \E op \in Used(ListOps) : Runs(op, ListAfter(op))
UseSerialized ==
  \/ \E op \in Used({"Runtime.Serialize"}), bytes \in Serialized, spare \in 0..1 :
       Runs(op, SerializeAfter(bytes, spare))
  \/ \E op \in Used({"Runtime.Deserialize"}) :
       \/ Runs(op, Failed)
       \/ \E parts \in Deserialized : Placements(parts) # {} /\ Runs(op, DeserializeAfter(parts))
UseStorage ==
  \/ \E op \in Used(StorageOps), answers \in BOOLEAN : Runs(op, StorageAfter(op, answers))
  \/ \E op \in Used(ContextOps) : Runs(op, ContextAfter(op))
AskForBlock ==
  \/ \E op \in Used(DOMAIN ChainOps) :
       \E answer \in {NoAnswer} \union {a \in Answers : a.is = ChainOps[op]} :
         Runs(op, ChainAfter(op, answer))
  \/ \E op \in Used(TransactionOps) : Runs(op, Failed)
UseBlock ==
  \/ \E op \in Used(BlockOps) : Runs(op, BlockAfter(op))
  \/ \E op \in Used(HeaderOps) : Runs(op, HeaderAfter(op))
AskEngine == \E op \in Used(EngineOps) : Runs(op, EngineAfter(op))
CallStub == \E op \in Used(Calls(Stubs)) : Runs(op, Machine)
CallUnknown == \E op \in Used(Syscalls \ DOMAIN Registered) : Runs(op, Failed)

\* What earlier instructions left on the stack has item n at address n.
Init ==
  /\ kit \in DOMAIN Kits
  /\ LET left == Kits[kit].stack
     IN /\ mem = [a \in Addresses |-> IF a \in DOMAIN left THEN CellOf(left[a]) ELSE Free]
        /\ estack = [i \in DOMAIN left |-> ItemOf(left[i], i)]
  /\ astack = <<>> /\ storage = <<>> /\ written = <<>> /\ spoilt = {} /\ lent = {}
  /\ gas = Kits[kit].gas /\ state = "run" /\ steps = 0

Next ==
  \/ Push \/ StackOp \/ Cat \/ Splice \/ ChangeInPlace \/ Compute \/ UseList \/ UseSerialized
  \/ UseStorage \/ AskForBlock \/ UseBlock \/ AskEngine \/ CallStub \/ CallUnknown

Spec == Init /\ [][Next]_vars

-----------------------------------------------------------------------------
(* Properties                                                              *)

Fitting(cells, item) ==
  CASE item.is = "int" -> cells[item.at].holds = "int"
    [] item.is = "bytes" ->
         cells[item.at].holds = "bytes" /\ item.off + item.len <= Len(cells[item.at].bytes)
    [] item.is = "list" -> cells[item.at].holds \in ListKinds
    [] OTHER -> TRUE

\* Every item is of a kind the VM has, and its cell holds what it should: no
\* slice is longer than its array, nothing points at a cell given back.
TypeOK ==
  /\ \A slot \in Slots(Machine) :
       LET item == In(Machine, slot) IN item \in Items /\ Fitting(mem, item)
  /\ gas \in Words /\ state \in {"run", "fault"} /\ kit \in DOMAIN Kits
  /\ steps \in 0..Kits[kit].steps

\* INVERT, NEGATE and ABS change a number where it is, and CAT appends to bytes
\* where they are.  They change one value only: a number or an array of bytes
\* has one place that leads to it, unless it came from UNPACK, from a list made
\* of a list or from storage, where something else kept it (stack_item.go:173).
Owns(slot) == In(Machine, slot).is \in {"int", "bytes"}
SoleOwner ==
  \A x, y \in Slots(Machine) :
    LET a == In(Machine, x).at IN x # y /\ Owns(x) /\ Refers(Machine, y, a) => a \in lent

\* Storage has what was last put in it, nothing where it was deleted last, and
\* elsewhere what the node has; nothing else changes an entry, but CAT appending
\* to the first part of what Get gave of it.
StorageKept ==
  /\ DOMAIN written \subseteq DOMAIN storage
  /\ \A k \in DOMAIN storage \ spoilt :
       BytesOf(Machine, storage[k]) = IF k \in DOMAIN written THEN written[k] ELSE NodeHas(k)

\* Within its gas limit a script that goes on after an instruction has paid for
\* it, but for pushes and for Asset.Renew, whose price is by the year: it costs
\* nothing or gives gas back for no years or less, and may for so many that the
\* price is no int64 any more (main.go:1666-1668, fixed8.go:62-64).
MaxYears == (MaxInt64 - GasLimit) \div (5000 * GAS)
Renewal ==
  \E op \in Used(Renewals) : NumberAt(1) /\ Operand(1) \notin 1..MaxYears /\ Runs(op, Machine)
NoCallIsFree ==
  [][GasLimit > 0 => gas' > gas \/ state' = "fault" \/ Push \/ Renewal]_vars
=============================================================================
