# A TLA+ verification of neovm

neovm (`src/`) is a virtual machine for NEO contracts, a fork of the VM of
neo-go: a stack machine with an invocation stack of contexts, the cryptographic
and compound-item instructions of NEO 2, and a command line program that runs
one script against a remote ledger.  This directory holds TLA+ modules that
model it, the TLC configurations that check them on small instances, and
theorems that TLAPS proves for all instances.

    tlc -config CheckMultisigSearch.cfg MCCheckMultisig.tla
    tlc -config VMControlCalls.cfg MCVMControl.tla
    tlc -config ItemHeapCounts.cfg MCItemHeap.tla
    tlc -config Codecs.cfg MCCodecs.tla
    tlc -config Host.cfg MCHost.tla
    tlapm VMControlProofs.tla
    tlapm ItemHeapProofs.tla

`PROJECT.json` lists every run, theorem, hazard and finding, and maps each
definition to the lines of source it stands for.

## 1. The system

| Part | Source | State | Operations | Hard behaviour | Modules |
|---|---|---|---|---|---|
| VM control | `pkg/vm/vm.go`, `context.go`, `state.go` | state flags, invocation stack, current stacks, gas, breakpoints | `New`, `Load`, `LoadScript`, `AddBreakPoint`, `Run`, `Step`, `StepInto`, `StepOut`, `StepOver`; JMP, CALL, APPCALL, TAILCALL, CALLI..CALLEDT, RET | pointers held in three places at once, frames that move items, faults halfway through an instruction, state shared by run and debugger | `VMControl`, `VMControlProofs`, `ItemCountProofs` |
| CHECKMULTISIG | `vm.go:1235-1549`, `keys/publickey.go` | two channels, three workers, the ends of the search | one call | the only concurrency: any order of answers, panics in goroutines, leaving early | `MultisigCall`, `MultisigVerdict`, `CheckMultisig`, `CheckMultisigProofs` |
| Stacks | `pkg/vm/stack.go` | lists of elements, shared item counter `size`, `itemCount` | push, pop, insert, remove, swap, roll, clear | counting of shared and nested containers | `VMControl`, `ItemHeap`, `ItemHeapProofs`, `Host` |
| Stack items | `pkg/vm/stack_item.go`, `vm.go:926-1340` | arrays, structs, maps, byte arrays, integers, by reference | APPEND, SETITEM, REMOVE, REVERSE, VALUES, PACK... | aliasing, cycles, the count of items that hang together | `ItemHeap`, `ItemHeapProofs`, `Host` |
| Arithmetic and splice | `vm.go:571-925`, `emit/bigint.go` | none | one instruction each | limits on integers and items, results computed in place | `Numbers`, `NumbersProofs`, `Host` |
| Interop | `pkg/vm/interop.go`, `cli/main.go` | registered getters, storage cache of the CLI | SYSCALL | cache over the node's storage, slices shared with it, prices read off the stack | `Host`, `HostProofs`, `OwnerProofs` |
| Iterators | `pkg/vm/interop_iterators.go` | position | create, next, key, value, concat | slices held while the array changes | none |
| Serialization | `pkg/vm/serialization.go` | set of items seen | serialize, deserialize | shared and cyclic structures | `Records`, `Codecs` |
| emit, contract checks | `pkg/vm/emit`, `contract_checks.go` | none | build and recognise scripts | thresholds of the encodings | `Numbers` in part |
| Binary io | `pkg/io` | buffer, sticky error | read, write, sizes | thresholds, errors seen late | `BinaryIO`, `BinaryIOProofs` |
| Numbers, hashes | `pkg/util`, `pkg/crypto` | none | conversions | signs and bounds | `Texts`, `Records` |
| Ledger records | `pkg/core`, `pkg/smartcontract` | cached hashes | encode, decode, JSON, hash, verify, lists of entries | field order, stale hashes, what one side writes and the other does not read | `Records`, `Texts`, `Codecs` |
| Keys, addresses | `pkg/crypto/keys`, `pkg/encoding` | none | public keys, WIF, NEP-2, base 58 | which text is taken for what | `Records`, `Texts` |

Interaction: the host (the CLI, or a program embedding the package) loads a
script and calls `Run` or the stepping functions.  `Run` calls `Step`, which
calls `Context.Next` and `execute`; `execute` recovers every panic of the
instruction into `faultState`.  Contexts point to evaluation and alt stacks that
may be shared; all of them count their items in one `v.size`.  `getScript`,
`getPrice` and the interop getters are callbacks of the host; the CLI's getters
ask a node over HTTP for what they lack and keep what is storage.  Only
CHECKMULTISIG starts goroutines, and it joins none of them.  Nothing is
persisted, and no message can be lost: there is no crash recovery to model.

What makes each part correct:

* CHECKMULTISIG: the verdict is the sequential one for every schedule; no
  goroutine blocks for good.
* VM control: contexts, current stacks and ownership agree; nesting, items and
  gas are bounded; a run ends in exactly one way; a fault stays a fault.
* Stacks and items: `v.size` is what is reachable, structures built from
  structs stay acyclic, no instruction changes an item it did not mean to.
* Interop: storage answers what was last put, and what the node has where
  nothing was; every call is paid for; a value has one owner unless the code
  means to share it.
* Codecs: decoding inverts encoding, nothing that was cut is accepted, what
  follows is left alone, sizes agree with what is written, a record has one hash
  wherever it is.

The hazards behind these, each at its line, are in `PROJECT.json`.

## 2. CHECKMULTISIG

`CheckMultisig.tla` has one action per step of the VM's goroutine that another
goroutine can observe (the send of a task, the receipt of an answer) and per
step of a worker (take, answer, leave, panic).  `pc` is the place of the VM's
goroutine; `k1 k2 s1 s2 taskCount sigok` are the locals of `checkMultisigPar`;
`tasks`, `closed` and `results` are its channels, with their capacities.  One
signature takes the sequential path, `CheckOne`.  A key or a signature is its
position in the list popped; what ecdsa decides is a relation given as input,
together with the sets of undecodable keys, keys at infinity and signatures too
short to slice.  A panic in the VM's goroutine is a FAULT, in a worker the end
of the process (`crashed`).

`MultisigCall.tla` defines the question: `AllMatch` says that some
order-preserving assignment of signatures to distinct keys exists.
`MultisigVerdict.tla` is the abstract specification, one atomic answer or, where
`MayFault` allows, a fault; `ImplementsVerdict` is the refinement.

Abstracted: which bytes make a key decodable or a signature valid; the cache of
decoded keys, which changes no answer; the pop of the elements, whose failures
are faults before anything starts.

| Run | Question | Bounds |
|---|---|---|
| `multisig_search` | verdict, ends, channels, refinement | every relation between up to 3 signatures and 4 keys; key 1 possibly undecodable, key 2 possibly infinity, signature 0 possibly short; 3 workers (the code's number), symmetric |
| `multisig_liveness` | calls end, workers leave | up to 2 signatures and 3 keys, no symmetry |
| `multisig_panics` | violated: panics are recovered | 2 keys, 2 signatures |

Three signatures and four keys are the least for which both ends advance past a
key, the pair in the middle is decided by answers in both orders, and a
signature is left over; all relations are tried.  Fairness: `WF` of the VM's
goroutine and of each worker, which is what the Go scheduler gives a goroutine
that can run.  `WorkersLeave` is stated for calls that return: when an
undecodable key panics in the middle of a search, `tasks` is never closed and
the workers stay for ever.  That is what the code does (`vm.go:1532`), and no
document promises otherwise.  The comment at `vm.go:1243` says that surplus keys
"just mean that some keys didn't sign"; yet whether an undecodable surplus key
faults the call depends on the schedule, which `MayFault` admits.

Proved (`CheckMultisigProofs.tla`), for any number of keys, signatures and
workers and any capacity of `tasks` of at least 2: type correctness,
`VerdictIsMatching`, `EndsNeverMeet`, `ChannelsNeverFull`, and
`Spec => ImplementsVerdict`.  None of these is inductive.  The invariant is
`SearchInv`: every task under way, wherever it is (queued, being verified,
answered), belongs to the lower or the upper end, and there is at most one for
each; `taskCount` counts exactly them; an end without one has matched its last
signature; and `WindowDecides`: the signatures and keys left between the ends
can be matched exactly if the whole call can.  The last is preserved by four
lemmas on order-preserving matchings (`SkipFirst`, `SkipLast`,
`TakeFirst`, `TakeLast`), which are the reason why the greedy search from both
ends is right.  Assumed of the constants: the inputs are well formed
(`InputsAssumption`), there is a worker, `tasks` holds two.

## 3. VM control

`VMControl.tla` has an action per kind of instruction that moves control or
items between stacks, per exit of the loops in `Run`, `StepInto`, `StepOut` and
`StepOver`, and per operation of the host.  A step is one instruction (`Step` and
`execute` in one, the deferred function included: it is in `Done` and
`Panicked`).

| Variable | In the code |
|---|---|
| `state` | `v.state`, as a set of flags |
| `istack` | `v.istack`: contexts, top first, with `ip`, `nextip`, `breakPoints`, `rvcount`, stack pointers, `hasDynamicInvoke` |
| `stacks` | the heap of `Stack` values, by address |
| `estack`, `astack` | `v.estack`, `v.astack` |
| `size`, `gas` | `v.size`, `v.gasConsumed` |
| `mode`, `expSize` | which host call is in progress, and its local |
| `failed`, `entryStack` | history variables of the properties |

Abstracted: an instruction takes one position (operands are in its record, and
`TRUNCATED` stands for one whose operands are missing); instructions that only
compute are represented by PUSH and DROP; items are primitive, so `size` counts
elements; prices are `getPrice`'s for the instructions present, and `gas` is an
int64 that wraps around (`Words.tla`).  Of the system calls there is one, RENEW,
the CLI's `Neo.Asset.Renew`: it does nothing, and an item the script pushes
decides its price, which may be 0 or less (`main.go:1666-1668`).  `RenewalPrice`
gives the price of each item; its arithmetic is in `Host`.  CHECKMULTISIG's
price, a hundred times a number of the script in `int`, can wrap as well, but a
number that large is more than the stack holds, and the instruction faults.
Nothing is charged, nor is the limit looked at, where a script falls off its
end (`vm.go:516`).  Stack addresses are reused once no pointer leads to them.
Breakpoints are a set of each context, although `Copy` shares the array behind
the slice.  `LoadScript` is only called on an empty invocation stack; the host
does not call `Step` directly, nor `AddBreakPointRel`.

| Run | Question | Bounds |
|---|---|---|
| `vm_calls` | the stacks, their owners, the item count, isolation of frames, termination | 19472 pairs of scripts, 4 and 2 instructions long: two pushes, every kind of call with good and bad operands, an instruction that uses the result; and renewals in a loop, before a DROP and without operands; depth 3, 3 items, gas 30 |
| `vm_debugger` | how `Run` ends, faults are inert, calls return | 16 pairs of scripts with a loop, a recursion, a script call, a failure and two loops of renewals; breakpoints 0..2; all host operations in any order |
| `vm_unfault` | violated: a failure lasts until `Load` | as above, `Load`, `Run`, `StepOut` |
| `vm_break` | violated: `Run` stops before a breakpoint | as above, `Load`, `Run`, `AddBreakPoint` |

Depth 3 lets a shared frame sit on an isolated one on a shared one, with the
limit reached by each kind of call; 3 items let a call take some, leave some and
exceed the limit.  `MaxSize` and `MaxGas` stop the host, not the machine, since a
host may reload for ever.  `CHECK_DEADLOCK` is off because a host may stop
calling.  Fairness: `WF_vars(Engine)`, a host call in progress goes on (it is an
ordinary loop of one goroutine); no fairness for the host.  `CallsReturn` needs
the gas limit and holds because each cycle of a script contains an instruction
that is not free.  It has one exception, and the runs have scripts that need it:
one that renews an asset again and again at no price, or gains by it, can pay for
all it does and never ends.  `MaxInt64` is 63, and the prices of a renewal are
0, one above the limit, one below it, one that gives back exactly what a turn of
the loop costs, and one that gives back more, until `gas` wraps around
(`MCRenewalPrice`).

Proved (`VMControlProofs.tla`), for all scripts, limits, breakpoints and host
calls: type correctness, `IstackBounded`, `CurrentStacks`, `StacksOwned`,
`DynamicOnlyIfAllowed`, `ResultOnEntryStack`, `RunEndsProperly`, `FaultIsInert`.
The argument: `StepShape` reduces every action to one of five shapes of change
to the invocation stack (it keeps, grows, replaces, returns or resets), and the
inductive `FramesInv` is proved shape by shape.  It adds to the properties what
they rest on: where `estack` may point even after a failure halfway through a
call (`EstackPlaced`), and that the bottom frame returns everything on the
stack it was loaded on (`BottomFrame`), which is what a tail call must not
destroy.  `RunInv` does the same for the states between two instructions of
`Run`.  Assumed of the constants: the limits are naturals and the first is
positive, there are at least two stack addresses, names of scripts are not
items of another kind, a renewal's price is an int64.

The end of `VMControlProofs.tla` proves `FramesIsolated` from `FramesInv`: every
instruction writes the current stacks, stacks nobody points to, or, returning,
puts items on a stack of the caller; `StacksOwned` says the alt stack a return
empties is not one further down (`Below`), also after a failure has left the
current stacks behind; and putting items on top keeps what is below
(`ConcatExtends`).

`ItemCountProofs.tla` proves what the count of items is worth.  An item is
counted by its place, a stack and a position on it (`Places`), so that sums over
stacks are cardinalities of finite sets, and a stack that changes, is added or
exchanges items with another has a lemma each (`CountChanged`, `CountAdded`,
`CountExchanged`).  Over the stacks in use before a step and the ones it makes
current (`InUse`), every instruction moves `size` by as many items as it adds or
takes (`ExecuteBalanced`); a step leaves stacks behind but brings none into use
that is not among these (`LiveNext`).  Hence `LiveItems` never exceeds `size`
(`LiveItemsCounted`), which makes `ItemsWithinLimit` inductive: `execute` faults
when `size` exceeds the limit, and a machine that did not fail is below it.
`LeakOnlyAtFrameEnd` follows because keeping a context or adding one leaves
nothing behind as long as the current stacks are the top context's (`LiveKept`).
The proof is where this property got its exception: after `StepOut` has turned
FAULT into BREAK the current stacks may be nobody's, and any call then loses the
items on them.

Only model-checked: the liveness properties, which the provers cannot state
steps of.

## 4. Items and their count

`ItemHeap.tla` has an action per instruction that builds, reads or changes an
array, a struct or a map, and the stack operations that copy references to
them.  `heap` is what Go's pointers lead to, `itemCount` and `size` are
`v.itemCount` and `v.size`.  An instruction is a sequence of changes to a record
(`Machine`) in the order of the code: each pop subtracts (`Removed`, which is
`updateSizeRemove`), each push and each store adds (`Added`), and in between the
container changes.  `Finish` and `Panic` are the two ends of `execute`'s deferred
function, and a traversal that never ends is `crash`.

Where the code calls itself for every item of a container (`updateSizeAdd`,
`updateSizeRemove`, `Clone`), the model makes one visit after another: `todo` is
what is still to be visited, in the order of the code, and a visit puts what it
comes upon in front (`Adding`, `Removing`, `Copying`).  `Visited` makes
`MaxVisits` visits, and a traversal that has not come to an end by then is taken
for endless.  `BoundsAssumption` makes that more visits than there are items on
the stack and in all containers, which is what a traversal needs that visits no
container's contents twice; one that ends later, after visiting shared contents
several times, is not told apart from one without end.  This can only happen
after a change of the kind `under` below counts, and in the counterexample of
`item_traversal` the array does contain itself.

Abstracted: a primitive item has no value, so an index, a length or a key taken
from one may be any, valid or not; map keys are not kept.  Addresses nothing
leads to are collected at the end of an instruction.  One evaluation stack
stands for all, which share `size` and `itemCount`.

`over` and `under` are history variables: the changes made to a container that
nothing on the stack led to any more.  Pop has given its items back then, so
APPEND adds what is never subtracted, and SETITEM and REMOVE subtract what was
already subtracted.

| Run | Question | Bounds |
|---|---|---|
| `item_counts` | are the counts exact, does the limit hold, do traversals end | all instructions, 3 containers of up to 2 items, 4 stack elements, `MaxStackSize` 5; two changes of kind `over`, none of kind `under` |
| `item_limit` | violated: items in use stay within the limit | lists only, two changes of kind `under` |
| `item_traversal` | violated: every instruction ends or faults | lists only, one change of kind `under` |

`MaxVisits` is 13 in the first run and 20 in the others, where 12 are the items
on the stack, those UNPACK may add and those in all containers.  Three
containers of two items are enough for one shared twice by another, for
cycles of two and for a structure reachable from a cycle; four elements are what
SETITEM needs when its object is also held elsewhere; more than five items fault.
The addresses are symmetric: `AFreeCell` chooses one that nothing refers to, and
all such are alike.  `CHECK_DEADLOCK` is off since a fault ends a script.

`item_counts` says exactly when the machine's own accounting can be trusted:
`CountsExact` holds for shared and self-containing structures and after faults,
until a container is changed after its last reference was popped; after an
APPEND of that kind `v.size` only errs on the safe side (`LimitHolds`).  The two
violated runs show what the remaining kind does.

`ItemHeapProofs.tla` proves all five invariants of `item_counts` for every
script, any number of containers, and all limits.  Assumed of the constants: the
addresses are finitely many and no primitive item, the limits are naturals and
the size of an array is positive, and `MaxVisits` is as above.

The inductive `IInv` says that nothing refers to a free cell (`Sound`), that no
struct contains itself (`Acyclic`), and what the accounts are worth.  The
reference count alone is not inductive: a traversal is in the midst of changing
it, and an instruction changes containers between its pops and pushes.  So the
accounts are kept in `Spare`, by how much a container's count exceeds the
references from the stack and from counted containers, and `SpareSize`, the same
of `v.size`; `IInv` has them 0 (`Exact`) as long as nothing was counted too much
or too little, and not negative (`Covering`) as long as nothing was counted too
little.  Both hold of a machine, so that an instruction is followed through its
parts:

* one visit of `updateSizeAdd` or `updateSizeRemove` keeps `Spare`, corrected by
  what is in `todo`, and takes one from what is left to visit (`AddLeft`,
  `RemoveLeft`): the length of `todo` and the fields of the containers whose
  contents are still to be counted or given back.  So traversals end, also in
  cycles, and change the accounts by exactly the items they were called with
  (`AddedIs`, `RemovedIs`);
* removing needs that what is removed was counted (`Covers`), for otherwise the
  last reference is taken for gone too early, or a container's contents are given
  back a second time; that is what a change of kind `under` destroys, and why `TraversalsEnd`,
  `CountsExact` and `LimitHolds` make an exception of it;
* what the stack leads to has a count above 0 (`Rooted`): the smallest set that
  has what is on the stack and all that leads to is within the counted ones.  So
  `LimitHolds` follows from `Covering` and the limit on `v.size`; what the
  collector frees is in no account (`AfterIs`);
* a copy has new containers only, which lead to structs that are new as well
  (`CopiedInside`), so that storing it closes no cycle of structs (`AcyclicStore`);
* a change of one container moves the accounts by the difference of its old and
  new items if it is counted, and else by nothing (`Recounted`).

Then every instruction is one lemma (`PushKeeps` to `RemoveItemKeeps`), and
`NextKeeps` and `CountsInvariant` put them together.

## 5. Records on the wire

`BinaryIO.tla` is package `io`: the writer and the reader with their sticky
errors, variable-length integers and bytes, and the sizes of `size.go`.
`Records.tla` has every `EncodeBinary` and `DecodeBinary` of packages
`transaction`, `block`, `state`, `smartcontract` and `keys`, and the items of
`serialization.go`.  For each record there are two lists of steps, one
translated from the encoder and one from the decoder, never one from the other;
`Encode` and `Decode` follow them.  That is where a field written and not read,
or read in another order, shows.  `Texts.tla` has the other forms: `Fixed8`,
names of types, JSON, parameters as given on a command line, WIF, NEP-2 and
addresses.

`Codecs.tla` follows one record from the program that builds it to the one that
reads it:

| Action | In the code |
|---|---|
| `TakeHash`, `HashOneOfABlock` | the first call of `Hash`, which is kept |
| `AddTo`, `AddToOneOfABlock` | `AddInput`, `AddOutput`, `AddVerificationHash` |
| `RebuildMerkleRoot` | the method of that name |
| `AppendEntry`, `PutUnclaimed`, `RemoveUnclaimed` | `Append` of the transfer logs, `Put` and `Remove` of `UnclaimedBalances` |
| `Send`, `SendTrimmed`, `SendJson` | `EncodeBinary`, `Trim`, `MarshalJSON` |
| `CutOff`, `Follow` | the tail is lost; another record comes behind |
| `Receive` | `DecodeBinary`, `UnmarshalJSON`, the parsers of texts, into a fresh object |

Abstracted: a wire is a sequence of units, one for each integer or run of bytes,
so that data is cut between units and a read that asks for another number of
bytes than was written is an error.  Hashes and signatures are terms.  Tables of
names are spelt alike where they are written and read.  `Output.Position`, which
is not encoded, is left out.  A container is known by an identity, as `seen` in
`serialization.go` does; one that contains itself is refused on the same line as
one that occurs twice, and only the latter is built.

| Run | Question | Bounds |
|---|---|---|
| `codecs` | what comes back, what is refused, hashes, block verification, sizes, lists | samples of 33 kinds (`MCCodecs.tla`), among them records that do not fit; all lists of up to 4 of 3 inputs and of 3 hashes; up to 2 inputs and outputs, 3 entries put into a list |

Samples have every transaction type, every class of attribute, lengths on both
sides of each threshold and each branch of a decoder.  Lists of four are the
least with two groups of two, and trees of four leaves have an odd level and an
even one.  `MaxArraySize` is the code's; TLC's integers have 32 bits, so 2^32 - 1
and 2^64 - 1 are replaced by smaller numbers that keep their order;
`MaxValidatorsVoted` is 4 for 1024.  `CHECK_DEADLOCK` is off since a record that
was read is done.

`RoundTrip` and `JsonRoundTrip` are equivalences: a record is read back the same
exactly if it is one of those `Fits` and `FitsJson` describe.  What these leave
out is thus not a blind spot but what the code does not carry over, and section
8 lists what surprised us in it.  `CutIsNoticed` and `LeavesRest` are about
decoders that read too much or too little, which a round trip alone does not
show; `SameName` and `BlockVerifies` about the hashes that are computed once and
not again when the record changes.

Proved (`BinaryIOProofs.tla`), for any thresholds in the code's order, any
`MaxArraySize` and anything behind: `VarUintRoundTrip` and `VarBytesRoundTrip`
(what was written is read, and what follows is left), `ReadErrorSticks` (after
an error `ReadVarUint` takes nothing and returns zero) and `CutVarUintIsNoticed`
(without its tail a number is refused).  The argument goes by `VarUintForms`,
the four forms a number has, and `ReadsUnit`, what one read does to a wire
that begins with a unit.  They assume `WidthsAssumption` (253 + 2 < 2^16 - 1 <
2^32 - 1 < 2^64 - 1, as an order) and `MaxArraySizeAssumption`.  A reader without
an error is written `At(units, e, v)` with a false `e`, because the provers take
a constant `FALSE` in a record for a formula.

Only model-checked: everything about whole records.  Encoders and decoders
follow lists and nest, which takes RECURSIVE operators and induction over data.

## 6. A script and its host

`Host.tla` runs one script against the CLI's host.  Its point is memory:
numbers, byte arrays and lists are in cells (`mem`), and an item on a stack, in a
list or in storage is a pointer to one, for bytes with an offset and a length.
Go's `append` writes into the array if it has room.  So the model tells
instructions that copy a value from those that hand it out, and changes in place
(INVERT, NEGATE, ABS, CAT) show wherever the cell is used.

| Variable | In the code |
|---|---|
| `mem` | what pointers and slices lead to; unused cells are collected |
| `estack`, `astack` | the stacks |
| `storage` | the map `storage` of `cli/main.go`, by script hash and key |
| `gas` | `v.gasConsumed`, an int64 |
| `state` | `run`, or `fault`, after which `main` ends by `log.Fatalln` |
| `kit`, `steps` | the bounds of this script |
| `written`, `spoilt`, `lent` | history: what the script put; entries an append overwrote; cells handed out while another place kept them |

One step is one instruction or system call, `Runs`: its price is found and
charged, then it takes effect or fails.  A price may itself fail for want of an
operand, as `getSyscallPrice` peeks at the stack.  The system calls of the names
`System` and `Neo` have one operator where they do the same.  `Numbers.tla` has
the conversion between numbers and bytes and the arithmetic of scripts, which is
unbounded but for the limit on numbers.  `Words.tla` has the int64: where the
code takes an index, a length, a truth value or a price from a number it keeps
the low 64 bits (`WordOf`), so that 2^64 is false and SUBSTR's `l + o` may come
out negative; prices are products and gas a sum of int64s.

Abstracted: what the node answers is one of `Answers` or nothing; an unreachable
node or a malformed answer is nothing.  Serialize and Deserialize are about
memory too: which items are refused (`Serializable`: no interop item, no list at
two places, since `seen` is never unwound), that the bytes are in an array of
their own, and that all parts of the item made are new.  Which bytes stand for
which item is section 5; here Serialize makes any of `Serialized`, and
Deserialize any of `Deserialized` or fails.  VALUES and the clone of a struct hand
out items as UNPACK does; how containers change and are counted is section 4.
The frames of the invocation stack are given, section 3 has how they come about.
A script may end after any instruction, and `CHECK_DEADLOCK` is off for that.

A script is made of a kit: instructions, operands, what earlier instructions
left on the stack, and how many more there are.

| Kit | Bears on | Steps |
|---|---|---|
| `storage` | cache, deletion, the slices Get and Put share with the stack | 6 |
| `contexts` | read-only contexts, contexts of other contracts | 6 |
| `alias` | lists, their conversions, changes in place | 5 |
| `splice` | parts of byte arrays and appending to them | 5 |
| `shuffle`, `arithmetic` | every stack and number instruction, good and bad operands | 4 |
| `chain` | blocks, headers and transactions, asked for and taken apart | 5 |
| `engine` | script hashes, witnesses, the runtime | 3 |
| `bytes` | Serialize and Deserialize, of lists with shared parts and interop items | 5 |
| `renewals` | the price of a renewal by its number of years, with gas one unit below the limit | 6 |
| `calls` | every registered call and those that are not, with its price | 2 |

Six steps are a Put, a Get, a part, an append and a Get again, with one to spare.
The constants are stand-ins for the code's, small enough that both sides of each
limit occur: hashes have 2 and 3 bytes for 20 and 32, keys 4 for 33, an index 1
for 5, numbers 4 bits for 256, items 3 bytes for 2^20, lists 3 items for 1024.
The gas limit is the CLI's, 500 GAS.  Gas is counted in 0.001 GAS for 10^-8
(`interopGasRatio` is 1 for 100000) and in 24 bits for 64.  There, a renewal of
2 years wraps around to a gain, as one of 18,446,745 years does in the code, and
one of 262144 years costs exactly 0, as one of 2^53 does; 2^24 years are 0 years
to `Int64()`, as 2^64 are.

`SoleOwner` says exactly which values may have a second owner.  `StorageKept`
relates the cache to what the script wrote and what the node has; it leaves out
only the entries an append has overwritten, which `spoilt` records.
`NoCallIsFree` is about the two tables of prices and the int64s they are summed
in: with a gas limit, a script that goes on has paid for every instruction but
pushes and renewals outside `1..MaxYears`.  `MaxYears` is the number up to which
a price is an int64 and so is the gas it is added to: 18,446,743 in the CLI.
What a renewal outside costs is left open, for it may be anything (section 8).
The property supposes a gas limit because a machine without one can consume
until `gasConsumed` wraps around; the CLI sets one.

Proved (`NumbersProofs.tla`), for numbers of any size and sign: making bytes of a
number and a number of the bytes undo each other (`NumbersReadBack`), AND, OR
and XOR do what they do to every bit (`BitsMakeBits`), DIV and MOD belong
together (`QuotientAndRemainder`).  The functions of `Numbers` recurse over
`Span(k)`, the numbers no longer than `k`, which halving does not leave.  The
induction is over sets: a set of naturals that has a number whenever it has all
smaller ones has them all (`Everything`).

Proved (`HostProofs.tla`), for any kits, answers of the node, sizes and limits:
`TypeOK`, `StorageKept` and `NoCallIsFree`.  The inductive invariant is `Sound`.
To what the properties say it adds what is in every list, whether a stack leads
to it or not.  It is a property of a machine, so that it can be followed through
an instruction, whose parts each make a machine of a machine:

* A new cell leaves all that was in memory as it was (`Grows`, `GoesOn`), so an
  item keeps fitting and an entry of the storage keeps its bytes.
* A change in place (INVERT, NEGATE, ABS, CAT into spare room) replaces a cell
  by one of the same kind and at least the same length (`Changes`,
  `Replaces`).  CAT alone can change bytes that a slice shows, and it records the
  entries it overwrites in `spoilt`.
* A storage call changes one entry, or none (`Keeps`).
* The collection leaves what the stacks and the storage lead to (`Collected`).
  That is defined as the least closed set of lists, not as the last of a sequence
  of approximations, so no induction is needed.

There is a lemma for each group of instructions; `RunsSound` concludes for
`Runs`.  `NoCallIsFree` rests on the tables of prices, where a call without a
price of its own costs something for any operands (`PriceIs`), a renewal if it is
of 1 to `MaxYears` years (`RenewalIs`), and no such price is above
`MaxInt64 - GasLimit`.  The invariant adds that the gas of a script that goes on
is within its limit, so that the sum does not wrap (`Paid`).  Assumed of the
constants: a kit's operands and literals are integers, bytes and interop items
(`KitsAssumption`); addresses are numbered, limits are naturals, an index is
shorter than a hash (`BoundsAssumption`); the node answers with interop items
and bytes (`ChainAssumption`); what is deserialized is a tree of lists with
leaves that are new (`DeserializedAssumption`); there is a ratio, and the limit
and 5000 GAS together are an int64 (`GasAssumption`).  The first describes what
scripts and the host can push; the others hold of the code's constants and types.

Proved (`OwnerProofs.tla`), from the same assumptions: `SoleOwner`, whatever the
script (`OneOwner`).  The invariant adds `Sole` to `Sound`: two places that lead to
one cell lead to a lent one.  Counting the places of a cell through every
instruction would be hopeless, so the proof follows the places instead.  What an
instruction leaves at a place is lent, or is in a cell that was free, or came from
a place of the machine before, and no two places came from the same one
(`Derives`, and `Rearranges` for the evaluation stack).  That is enough for `Sole`
(`Derived`), and it is shown for each of the few ways an instruction moves items:
push, pop, copy, exchange, alt stack, list, storage.  `Sound` is needed because a
free cell is new only if nothing leads to it yet (`OwnsSomething`).  The collection
takes `lent` back where one place is left, which the definition of `Several` pairs
with `Sole` (`EffectSole`).

## 7. Findings

1. A signature shorter than 64 bytes ends the process from a worker
   (`multisig_panics`).
2. `StepOut` turns FAULT into BREAK, and `Run` then goes on (`vm_unfault`).
3. Breakpoints are compared with the instruction executed last (`vm_break`).
4. REMOVE and SETITEM subtract an item twice when they pop the last reference to
   its container, so more items than `MaxStackSize` fit (`item_limit`).
5. On an array that contains itself the same makes `updateSizeRemove` recurse
   without end (`item_traversal`).

## 8. Met while modelling, without a run of their own

In the machine:

* `Load` empties the stacks without giving their items back to `v.size`, so a
  reloaded machine faults with fewer items than the limit.
* `StepOver` from state NONE toggles to BREAK first, so its loop ends after one
  instruction inside the callee, contrary to the comment at `vm.go:420-421`.
* A TAILCALL inside a CALLE frame replaces the frame's `rvcount` by -1, so the
  caller gets any number of items.
* The limit on big integers is not applied by INVERT, NEGATE, ABS, AND, OR and
  XOR.
* INVERT, NEGATE and ABS of a number taken out by UNPACK change it in the list.

In the host:

* CAT onto the LEFT part of a value got from storage can overwrite the stored
  value, since Get keeps the slice it hands out.
* Put does not look at `ReadOnly`, only Delete does.
* `Asset.Renew` multiplies the number of years by 5000 and 10^8 in int64 without
  looking at its sign or for an overflow (`main.go:1668`, `fixed8.go:63`).  A
  negative number gives gas back, as 18,446,745 years do; 2^53 cost nothing.  A
  script that pays for a loop that way never ends, whatever the gas limit.
* The price of a Put by size ("price for storage PUT is 1 GAS per 1 KiB",
  `main.go:1672`) is never reached for the calls that are registered, which have
  a flat price.
* `Blockchain.GetTransaction` and `GetTransactionHeight` never read the node's
  answer and always fail.

In the records:

* `UnspentCoin` writes the number of its states a second time and does not read
  it (`unspent_coin.go:39`).
* `getVarIntSize` and `WriteVarUint` disagree at 0xFFFF and from 2^32 - 1 on.
* A transaction or block changed after its hash was taken keeps the old hash.
* A `Fixed8` between -1 and 0 loses its sign in text; the unlimited amount of a
  `RegisterTX`, -1, is one.
* An item that contains the same container twice, even side by side, is not
  serialized.
* `inferParamType` takes hex for a public key by its beginning, contrary to its
  comment on hex of 32 and 64 bytes.
* `WIFDecode` of a key with a compression flag other than 1 panics: its message
  names byte 34 of an array of 34 (`wif.go`).

## 9. Not modelled, and what could come next

* Iterators and enumerators: the CLI registers stubs that do nothing for them
  (and `Host` models these); nothing else in the repository calls the functions.
* `Parameter.TryParse` and `NEP5TransferFromNotification`, EQUAL of structs, the
  hash instructions, CHECKSIG and VERIFY, public keys recovered from signatures.
* `emit` but for numbers, `contract_checks.go`: they build and recognise scripts
  byte by byte, which no model here has.
* Opcode tables, RPC, logging, flags: no behaviour, or input and output only.
* Digests, ciphers and curves: terms in `Texts`, a relation in `CheckMultisig`.

Not proved, and left to TLC: liveness, as far as there is any (sections 2 and
3); what encoders and decoders do to whole records, an induction over nested
data (section 5), so that the invariants of `Codecs` are checked over bounded
inputs only, but for the numbers and byte strings all records are made of
(`BinaryIOProofs`).
