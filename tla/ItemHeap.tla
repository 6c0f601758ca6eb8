------------------------------- MODULE ItemHeap -------------------------------
(***************************************************************************)
(* Arrays, structs and maps on the evaluation stack (pkg/vm/vm.go,         *)
(* stack.go, stack_item.go): containers are shared by reference, and       *)
(* itemCount and size keep count of the items that hang together with the  *)
(* stacks, one adjustment at a time, by traversals that follow references. *)
(*                                                                         *)
(* One script runs, one instruction per step.  A primitive item, whatever  *)
(* its value, is Primitive, and where an instruction takes a number or a   *)
(* key from it, it may be any: an index within the list or not, a key of   *)
(* the map or a new one.                                                   *)
(***************************************************************************)
EXTENDS Integers, SequencesExt

CONSTANTS
  Primitive,       \* any item that is no container
  Addresses,       \* of containers; an instruction waits for ever that needs
                   \* more: a bound of the model, the program has none
  Ops,             \* the instructions scripts use
  MaxStackSize,
  MaxArraySize,
  MaxHeight,       \* of the evaluation stack: a bound of the model
  MaxVisits,       \* of a traversal: one that makes more is taken for endless
  MaxOver, MaxUnder  \* of over and under: a bound of the model

VARIABLES
  heap,            \* what each address holds
  estack,          \* the evaluation stack, top first
  itemCount,       \* v.itemCount
  size,            \* v.size
  outcome,         \* "running"; "fault"; "crash", the process is lost
  over, under      \* history: changes that counted too much, too little, see
                   \* Meddling

vars == <<heap, estack, itemCount, size, outcome, over, under>>

Items == {Primitive} \union Addresses
Kinds == {"none", "Array", "Struct", "Map"}
\* The items of a map are its values; its keys are primitive and distinct.
Cell == [kind : Kinds, items : Seq(Items)]
Of(kind, items) == [kind |-> kind, items |-> items]
Free == Of("none", <<>>)

ASSUME AddressesAssumption == Primitive \notin Addresses /\ IsFiniteSet(Addresses)
ASSUME BoundsAssumption ==
  /\ MaxStackSize \in Nat /\ MaxArraySize \in Nat \ {0} /\ MaxHeight \in Nat
  /\ MaxOver \in Nat /\ MaxUnder \in Nat
  /\ MaxVisits \in Nat
  /\ MaxVisits > MaxHeight + MaxArraySize + Cardinality(Addresses) * MaxArraySize

TypeOK ==
  /\ heap \in [Addresses -> Cell]
  /\ \A r \in Addresses : Len(heap[r].items) <= MaxArraySize
  /\ estack \in Seq(Items)
  /\ itemCount \in [Addresses -> Nat]
  /\ size \in Int
  /\ outcome \in {"running", "fault", "crash"}
  /\ over \in 0..MaxOver /\ under \in 0..MaxUnder

-----------------------------------------------------------------------------
(* The heap                                                                *)

IsStruct(h, item) == item # Primitive /\ h[item].kind = "Struct"
Contents(h, S) == (UNION {ToSet(h[r].items) : r \in S}) \ {Primitive}

\* S and all that it leads to.
Closure(h, S) ==
  LET closed == {T \in SUBSET Addresses : S \subseteq T /\ Contents(h, T) \subseteq T}
  IN {r \in Addresses : \A T \in closed : r \in T}

\* The containers that hang together with the stack.
Reachable(h, st) == Closure(h, ToSet(st) \ {Primitive})

\* What is allocated takes some free cell, one being as good as another.
FreeCells(m) == {r \in Addresses : m.heap[r].kind = "none" /\ m.count[r] = 0}
AFreeCell(m) == CHOOSE r \in Addresses : r \in FreeCells(m)
Room(m) == FreeCells(m) # {}

\* The collector frees what neither the stack nor itemCount leads to.
Collected(m) ==
  LET used == Closure(m.heap, (ToSet(m.estack) \ {Primitive})
                                \union {r \in Addresses : m.count[r] > 0})
  IN [r \in Addresses |-> IF r \in used THEN m.heap[r] ELSE Free]

-----------------------------------------------------------------------------
(* An instruction is a sequence of changes to a state m of the machine.    *)
(* Where the code follows references, m.todo is what is to be visited, in  *)
(* order: what a visit comes upon is visited before what is next to it.    *)

Machine ==
  [heap |-> heap, estack |-> estack, count |-> itemCount, size |-> size, todo |-> <<>>,
   endless |-> FALSE]

Skipped(m) == [m EXCEPT !.todo = Tail(@)]

\* updateSizeAdd, of one item.
Adding(m) ==
  LET item == Head(m.todo)
      one == [Skipped(m) EXCEPT !.size = @ + 1]
  IN IF item = Primitive THEN one
     ELSE IF m.count[item] > 0 THEN [one EXCEPT !.count[item] = @ + 1]
     ELSE [one EXCEPT !.count[item] = 1, !.todo = m.heap[item].items \o @]

\* Mutant: the contents go with the first reference.
RemovingEager(m) ==
  LET item == Head(m.todo)
      one == [Skipped(m) EXCEPT !.size = @ - 1]
  IN IF item = Primitive THEN one
     ELSE [one EXCEPT !.count[item] = IF @ > 1 THEN @ - 1 ELSE 0,
                      !.todo = m.heap[item].items \o @]

\* updateSizeRemove, of one item.
Removing(m) ==
  LET item == Head(m.todo)
      one == [Skipped(m) EXCEPT !.size = @ - 1]
  IN IF item = Primitive THEN one
     ELSE IF m.count[item] > 1 THEN [one EXCEPT !.count[item] = @ - 1]
     ELSE [one EXCEPT !.count[item] = 0, !.todo = m.heap[item].items \o @]

\* Mutant: a struct is stored itself.
NotCopying(m) == Skipped(m)

\* Clone, of one field: todo has fields, of new containers.  A copy that finds
\* no free cell waits.
FieldsOf(h, r) == [i \in DOMAIN h[r].items |-> <<r, i>>]
Copying(m) ==
  LET field == Head(m.todo)
      item == m.heap[field[1]].items[field[2]]
      new == AFreeCell(m)
      h == [m.heap EXCEPT ![new] = m.heap[item], ![field[1]].items[field[2]] = new]
  IN IF ~IsStruct(m.heap, item) THEN Skipped(m)
     ELSE IF ~Room(m) THEN m
     ELSE [Skipped(m) EXCEPT !.heap = h, !.todo = FieldsOf(h, new) \o @]

Visiting(how, m) ==
  CASE m.todo = <<>> -> m
    [] m.todo # <<>> /\ how = "add" -> Adding(m)
    [] m.todo # <<>> /\ how = "remove" -> Removing(m)
    [] m.todo # <<>> /\ how = "copy" -> Copying(m)
Visited(how, m, todo) ==
  LET after[n \in 0..MaxVisits] ==
        IF n = 0 THEN [m EXCEPT !.todo = todo] ELSE Visiting(how, after[n - 1])
  IN after[MaxVisits]

Ended(m) == [m EXCEPT !.endless = @ \/ m.todo # <<>>, !.todo = <<>>]
Added(m, items) == Ended(Visited("add", m, items))
Removed(m, items) == Ended(Visited("remove", m, items))

\* A number of elements is pushed, the last first, or popped.
PushedAll(m, items) == Added([m EXCEPT !.estack = items \o @], Reverse(items))
Pushed(m, item) == PushedAll(m, <<item>>)
Popped(m, n) ==
  Removed([m EXCEPT !.estack = SubSeq(@, n + 1, Len(@))], SubSeq(m.estack, 1, n))

\* A new container on the stack, in a free cell.
PushedNew(m, cell) ==
  LET r == AFreeCell(m) IN Pushed([m EXCEPT !.heap[r] = cell], r)

\* A new container that has copies of the structs in cell, their nested structs
\* copied too.
Copied(m, cell) ==
  LET r == AFreeCell(m)
      h == [m.heap EXCEPT ![r] = cell]
  IN [m |-> Visited("copy", [m EXCEPT !.heap = h], FieldsOf(h, r)), item |-> r]
CloneIfStruct(m, item) ==
  IF IsStruct(m.heap, item) THEN Copied(m, m.heap[item]) ELSE [m |-> m, item |-> item]
RoomToClone(m, item) ==
  IsStruct(m.heap, item) => Room(m) /\ Copied(m, m.heap[item]).m.todo = <<>>

-----------------------------------------------------------------------------
(* How an instruction ends                                                 *)

Effect(m) ==
  /\ Len(m.estack) <= MaxHeight
  /\ heap' = Collected(m)
  /\ estack' = m.estack
  /\ itemCount' = m.count
  /\ size' = m.size

\* The deferred function of execute.  A traversal without end exhausts the
\* goroutine's stack, from which Go does not recover.
Finish(m) ==
  /\ Effect(m)
  /\ outcome' = CASE m.endless -> "crash" [] m.size > MaxStackSize -> "fault" [] OTHER -> "running"

Done(m) == Finish(m) /\ UNCHANGED <<over, under>>

Panic(m) ==
  /\ Effect(m)
  /\ outcome' = IF m.endless THEN "crash" ELSE "fault"
  /\ UNCHANGED <<over, under>>

\* An instruction that changes a container has popped it before.  If nothing
\* else on the stack leads to it, its contents may be counted no more, and
\* counting the change is counting too much or too little.
Meddling(p, obj, adds, removes) ==
  LET lost == IF obj \in Reachable(p.heap, p.estack) THEN 0 ELSE 1
  IN /\ over' = over + lost * adds /\ over' <= MaxOver
     /\ under' = under + lost * removes /\ under' <= MaxUnder

-----------------------------------------------------------------------------
(* Operands.  An instruction pops `args' elements, the last of which, its  *)
(* object, is of one of `kinds'; `key' is the place of a key, 0 for none.  *)

Kind(item) == IF item = Primitive THEN "Primitive" ELSE heap[item].kind
Lists == {"Array", "Struct"}
Containers == {"Array", "Struct", "Map"}
Takes(args, kinds, key) == [args |-> args, kinds |-> kinds, key |-> key]
Operands ==
  [NEWARRAY |-> Takes(1, {"Primitive", "Array", "Struct"}, 0),
   NEWSTRUCT |-> Takes(1, {"Primitive", "Array", "Struct"}, 0),
   PACK |-> Takes(1, {"Primitive"}, 0),
   UNPACK |-> Takes(1, Lists, 0),
   REVERSE |-> Takes(1, Lists, 0),
   APPEND |-> Takes(2, Lists, 0),
   PICKITEM |-> Takes(2, Containers, 1),
   HASKEY |-> Takes(2, Containers, 1),
   REMOVE |-> Takes(2, Containers, 1),
   SETITEM |-> Takes(3, Containers, 2),
   KEYS |-> Takes(1, {"Map"}, 0),
   VALUES |-> Takes(1, Containers, 0),
   ARRAYSIZE |-> Takes(1, Containers \union {"Primitive"}, 0)]
\* These look at the stack before they change it.
Looks == [DUP |-> 1, DROP |-> 1, OVER |-> 2, SWAP |-> 2, ROT |-> 3]

GoodKey(o) == o.key > 0 => estack[o.key] = Primitive
Ready(op) ==
  /\ op \in Ops
  /\ Len(estack) >= Operands[op].args
  /\ GoodKey(Operands[op])
  /\ Kind(estack[Operands[op].args]) \in Operands[op].kinds
ReadyTo(op) == op \in Ops /\ Len(estack) >= Looks[op]

TooFewOperands ==
  \/ \E op \in Ops \intersect DOMAIN Operands :
       Len(estack) < Operands[op].args /\ Panic(Popped(Machine, Len(estack)))
  \/ \E op \in Ops \intersect DOMAIN Looks : Len(estack) < Looks[op] /\ Panic(Machine)

\* validateMapKey panics before the object is popped.
InvalidKey ==
  \E op \in Ops \intersect DOMAIN Operands :
    LET o == Operands[op]
    IN /\ Len(estack) >= o.args /\ ~GoodKey(o)
       /\ Panic(Popped(Machine, o.key))

WrongType ==
  \E op \in Ops \intersect DOMAIN Operands :
    LET o == Operands[op]
    IN /\ Len(estack) >= o.args /\ GoodKey(o)
       /\ Kind(estack[o.args]) \notin o.kinds
       /\ Panic(Popped(Machine, o.args))

-----------------------------------------------------------------------------
(* Instructions                                                            *)

\* Any instruction that pushes a number, a boolean or bytes.
Push == "PUSH" \in Ops /\ Done(Pushed(Machine, Primitive))

StackOp ==
  \/ ReadyTo("DUP") /\ Done(Pushed(Machine, estack[1]))
  \/ ReadyTo("OVER") /\ Done(Pushed(Machine, estack[2]))
  \/ ReadyTo("DROP") /\ Done(Popped(Machine, 1))
  \/ ReadyTo("SWAP") /\ Done([Machine EXCEPT !.estack = <<@[2], @[1]>> \o SubSeq(@, 3, Len(@))])
  \/ ReadyTo("ROT") /\ Done([Machine EXCEPT !.estack = <<@[3], @[1], @[2]>> \o SubSeq(@, 4, Len(@))])

Primitives(n) == [i \in 1..n |-> Primitive]

New(op, kind) ==
  /\ Ready(op)
  /\ LET item == estack[1]
         p == Popped(Machine, 1)
     IN \/ Kind(item) = kind /\ Done(Pushed(p, item))
        \/ /\ Kind(item) \in Lists \ {kind} /\ Room(p)
           /\ Done(PushedNew(p, Of(kind, heap[item].items)))
        \/ /\ item = Primitive /\ Room(p)
           /\ \E n \in 0..MaxArraySize : Done(PushedNew(p, Of(kind, Primitives(n))))
        \/ item = Primitive /\ Panic(p)     \* it is above MaxArraySize

NewArray == New("NEWARRAY", "Array")
NewStruct == New("NEWSTRUCT", "Struct")
NewMap == "NEWMAP" \in Ops /\ Room(Machine) /\ Done(PushedNew(Machine, Of("Map", <<>>)))

\* Mutant: a full container takes one more.
FullTooLate(obj) == Len(heap[obj].items) > MaxArraySize
Full(obj) == Len(heap[obj].items) >= MaxArraySize

\* Mutant: what is appended is not counted.
StoredUncounted(m, obj, item) == [m EXCEPT !.heap[obj].items = Append(@, item)]
Stored(m, obj, item) == Added([m EXCEPT !.heap[obj].items = Append(@, item)], <<item>>)

AppendItem ==
  /\ Ready("APPEND")
  /\ LET obj == estack[2]
         p == Popped(Machine, 2)
         c == CloneIfStruct(p, estack[1])
     IN /\ RoomToClone(p, estack[1])
        /\ \/ Full(obj) /\ Panic(p)
           \/ ~Full(obj) /\ Finish(Stored(c.m, obj, c.item)) /\ Meddling(p, obj, 1, 0)

Pack ==
  /\ Ready("PACK")
  /\ LET p == Popped(Machine, 1)
     IN \/ Panic(p)                          \* it is above the limits
        \/ \E n \in 0..MaxArraySize :
             /\ n <= Len(p.estack) /\ Room(p)
             /\ Done(PushedNew(Popped(p, n), Of("Array", SubSeq(p.estack, 1, n))))

Unpack ==
  /\ Ready("UNPACK")
  /\ LET items == heap[estack[1]].items
     IN Done(PushedAll(Popped(Machine, 1), <<Primitive>> \o items))

PickItem ==
  /\ Ready("PICKITEM")
  /\ LET cell == heap[estack[2]]
         p == Popped(Machine, 2)
     IN \/ \E i \in DOMAIN cell.items : Done(Pushed(p, cell.items[i]))
        \/ Panic(p)                          \* no such index or key

\* Mutant: the item that is replaced stays counted.
ReplacedUncounted(m, obj, i, item) ==
  Added([m EXCEPT !.heap[obj].items[i] = item], <<item>>)
Replaced(m, obj, i, item) ==
  Added([Removed(m, <<m.heap[obj].items[i]>>) EXCEPT !.heap[obj].items[i] = item], <<item>>)

SetItem ==
  /\ Ready("SETITEM")
  /\ LET obj == estack[3]
         p == Popped(Machine, 3)
         c == CloneIfStruct(p, estack[1])
     IN /\ RoomToClone(p, estack[1])
        /\ \/ \E i \in DOMAIN heap[obj].items :
                Finish(Replaced(c.m, obj, i, c.item)) /\ Meddling(p, obj, 0, 1)
           \/ /\ Kind(obj) = "Map" /\ ~Full(obj)
              /\ Finish(Stored(c.m, obj, c.item)) /\ Meddling(p, obj, 1, 0)
           \/ (Kind(obj) \in Lists \/ Full(obj)) /\ Panic(p)

ReverseItems ==
  /\ Ready("REVERSE")
  /\ Done([Popped(Machine, 1) EXCEPT !.heap[estack[1]].items = Reverse(@)])

RemoveItem ==
  /\ Ready("REMOVE")
  /\ LET obj == estack[2]
         p == Popped(Machine, 2)
     IN \/ \E i \in DOMAIN heap[obj].items :
             /\ Finish([Removed(p, <<heap[obj].items[i]>>) EXCEPT !.heap[obj].items = RemoveAt(@, i)])
             /\ Meddling(p, obj, 0, 1)
        \/ Kind(obj) = "Map" /\ Done(p)      \* no such key
        \/ Kind(obj) \in Lists /\ Panic(p)   \* no such index

Keys ==
  /\ Ready("KEYS")
  /\ LET p == Popped(Machine, 1)
     IN Room(p) /\ Done(PushedNew(p, Of("Array", Primitives(Len(heap[estack[1]].items)))))

Values ==
  /\ Ready("VALUES")
  /\ LET items == heap[estack[1]].items
         p == Popped(Machine, 1)
         c == Copied(p, Of("Array", items))
     IN Room(p) /\ c.m.todo = <<>> /\ Done(Pushed(c.m, c.item))

HasKey ==
  /\ Ready("HASKEY")
  /\ LET p == Popped(Machine, 2)
     IN Done(Pushed(p, Primitive)) \/ (Kind(estack[2]) \in Lists /\ Panic(p))   \* negative index
ArraySize == Ready("ARRAYSIZE") /\ Done(Pushed(Popped(Machine, 1), Primitive))

Init ==
  /\ heap = [r \in Addresses |-> Free]
  /\ estack = <<>>
  /\ itemCount = [r \in Addresses |-> 0]
  /\ size = 0
  /\ outcome = "running" /\ over = 0 /\ under = 0

Next ==
  /\ outcome = "running"
  /\ \/ TooFewOperands \/ InvalidKey \/ WrongType
     \/ Push \/ StackOp
     \/ NewArray \/ NewStruct \/ NewMap
     \/ AppendItem \/ Pack \/ Unpack \/ PickItem \/ SetItem \/ ReverseItems \/ RemoveItem
     \/ Keys \/ Values \/ HasKey \/ ArraySize

Spec == Init /\ [][Next]_vars

-----------------------------------------------------------------------------
(* Properties                                                              *)

Occurrences(item, s) == Cardinality({i \in DOMAIN s : s[i] = item})
Fields(h, S) == {f \in S \X (1..MaxArraySize) : f[2] \in DOMAIN h[f[1]].items}
Having(h, S, item) == {f \in Fields(h, S) : h[f[1]].items[f[2]] = item}
Counted == {r \in Addresses : itemCount[r] > 0}
InUse == Len(estack) + Cardinality(Fields(heap, Reachable(heap, estack)))

\* As long as no container was changed that the stack led to no more, itemCount
\* is the number of references, from the stack and from containers counted
\* themselves, and v.size is all of these: every pop, push, copy, replacement and
\* removal of updateSizeAdd and updateSizeRemove is exact, also after a fault, and
\* for structures that share parts or contain themselves.
CountsExact ==
  over = 0 /\ under = 0 /\ outcome # "crash" =>
    /\ \A r \in Addresses :
         itemCount[r] = Occurrences(r, estack) + Cardinality(Having(heap, Counted, r))
    /\ size = Len(estack) + Cardinality(Fields(heap, Counted))

\* The items that hang together with the stack are within MaxStackSize while the
\* script goes on, unless SETITEM or REMOVE changed a container the stack led to
\* no more; APPEND to such a container, and a new key of such a map, only makes
\* v.size too large.
LimitHolds == under = 0 /\ outcome = "running" => InUse <= MaxStackSize

\* A struct never contains itself through structs alone, since APPEND and SETITEM
\* store copies: Clone and Equals, which follow structs, end.  Of any structs, one
\* contains none of them.
Structs(h) == {r \in Addresses : h[r].kind = "Struct"}
StructsAcyclic ==
  \A S \in SUBSET Structs(heap) : S # {} => \E r \in S : Contents(heap, {r}) \intersect S = {}

\* updateSizeRemove comes to an end, also in structures that contain themselves,
\* unless SETITEM or REMOVE changed a container the stack led to no more.
TraversalsEnd == outcome = "crash" => under > 0

\* Every panic of an instruction ends in a fault of the machine, as execute's
\* comment says, and so does a traversal without end.
PanicsRecovered == outcome # "crash"

\* "MaxStackSize is the maximum number of items allowed to be on all stacks at
\* once": of a script that goes on, all items in use are counted.
ItemsInUseWithinLimit == outcome = "running" => InUse <= MaxStackSize
=============================================================================
