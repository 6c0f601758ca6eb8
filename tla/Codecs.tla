-------------------------------- MODULE Codecs --------------------------------
(***************************************************************************)
(* One record from the program that builds it to the one that reads it.    *)
(* It starts as one of Samples, may be changed through its methods, is     *)
(* written in binary or as JSON, may lose its tail on the way or have      *)
(* another record behind it, and is read into a fresh object.              *)
(***************************************************************************)
EXTENDS Texts

CONSTANTS
  Samples,         \* [kind |-> the set of records of that kind to start from]
  Inputs, Outputs, \* what AddInput and AddOutput are given
  MaxAdded,        \* how long the lists of a transaction may get
  Puts, Transfers, \* what is put into a list of unclaimed balances, and into a log
  MaxPuts,
  Verifier         \* the script hash AddVerificationHash is given

ASSUME BoundsAssumption == MaxAdded \in Nat /\ MaxPuts \in Nat

VARIABLES
  phase,    \* where the record is: "built", "sent", "read", "refused"
  kind,     \* its kind, a string
  rec,      \* the record, a function of its fields
  changed,  \* has what the hash of rec is taken from changed since it was?
  put,      \* of a list of fixed-size entries: those put into it and not removed, in order
  form,     \* how it was sent: "whole", "cut", "followed", "json"
  wire,     \* the units sent
  got       \* the reader after reading: its v is the record read

vars == <<phase, kind, rec, changed, put, form, wire, got>>

-----------------------------------------------------------------------------
(* Hashes, and what may change after one was taken                         *)

HashAll(txs) == [i \in DOMAIN txs |-> [txs[i] EXCEPT !.hash = Hash("Transaction", txs[i])]]
Hashes256(txs) == [i \in DOMAIN txs |-> Hash("Transaction", txs[i])]

AddInput(t, in) == [t EXCEPT !.Inputs = @ \o <<in>>]
AddOutput(t, out) == [t EXCEPT !.Outputs = @ \o <<out>>]
AddVerificationHash(t) ==
  [t EXCEPT !.Attributes = @ \o <<[Usage |-> Script, Data |-> Verifier]>>]

\* A node of the tree is the pair of its children, a leaf is a hash.
Node(l, r) == Unit(32, <<"node", l, r>>)
\* Mutant: an odd leaf goes up without a partner.
OddLeafDropped(leaves) ==
  [i \in 1..(Len(leaves) \div 2) |-> Node(leaves[2 * i - 1], leaves[2 * i])]
Parents(leaves) ==
  [i \in 1..((Len(leaves) + 1) \div 2) |->
     Node(leaves[2 * i - 1], leaves[IF 2 * i - 1 = Len(leaves) THEN 2 * i - 1 ELSE 2 * i])]
RECURSIVE buildMerkleTree(_)
buildMerkleTree(leaves) == IF Len(leaves) = 1 THEN leaves[1] ELSE buildMerkleTree(Parents(leaves))

Verify(b) ==
  /\ b.Transactions # <<>>
  /\ \A i \in DOMAIN b.Transactions : (b.Transactions[i].Type = MinerType) = (i = 1)
  /\ b.MerkleRoot = buildMerkleTree(Hashes256(b.Transactions))

-----------------------------------------------------------------------------
(* Lists of entries of a fixed size, in one run of bytes                   *)

EntrySize ==
  CASE kind = "UnclaimedBalances" -> UnclaimedBalanceSize
    [] kind = "NEP5TransferLog" -> NEP5TransferSize
    [] kind = "TransferLog" -> TransferSize
EntryKind ==
  CASE kind = "UnclaimedBalances" -> "UnclaimedBalance"
    [] kind = "NEP5TransferLog" -> "NEP5Transfer"
    [] kind = "TransferLog" -> "Transfer"

\* The units of raw that begin an entry, raw being cut every EntrySize bytes.
Starts(raw) == {i \in DOMAIN raw : SizeOf(SubSeq(raw, 1, i - 1)) % EntrySize = 0}
ReadAt(raw, i) == DecodeRecord(NewReader(SubSeq(raw, i, Len(raw))), EntryKind)
WidthOf(raw, i) == Len(raw) - i + 1 - Len(ReadAt(raw, i).in)
\* What is read from the n-th byte on.
EntryAfter(raw, n) ==
  LET at == {i \in DOMAIN raw : SizeOf(SubSeq(raw, 1, i - 1)) = n}
  IN IF at = {} THEN NoBytes ELSE ReadAt(raw, CHOOSE i \in at : TRUE).v

\* ForEach of both lists; the log goes from the last entry to the first.
ForEach(raw) ==
  [j \in 1..(SizeOf(raw) \div EntrySize) |->
     IF kind = "UnclaimedBalances" THEN EntryAfter(raw, (j - 1) * EntrySize)
     ELSE EntryAfter(raw, SizeOf(raw) - j * EntrySize)]

Appended(raw, entry) == raw \o EncodeRecord(NewWriter, EntryKind, entry).out

\* Mutant: the last entry is not moved.
RemovedLast(raw, i) == SubSeq(raw, 1, Len(raw) - WidthOf(raw, i))
\* Remove: the last entry replaces the one removed.
Removed(raw, i) ==
  LET w == WidthOf(raw, i)
      last == Len(raw) - w + 1
      kept == SubSeq(raw, 1, last - 1)
  IN [j \in 1..(last - 1) |-> IF j \in i..(i + w - 1) THEN raw[last + j - i] ELSE kept[j]]

-----------------------------------------------------------------------------
(* Inputs in order                                                         *)

Cmp(a, b) == IF a.PrevHash = b.PrevHash THEN a.PrevIndex < b.PrevIndex
             ELSE a.PrevHash.v[2] < b.PrevHash.v[2]
MapInputsToSorted(ins) == SortSeq(ins, Cmp)
HaveDuplicateInputs(ins) ==
  LET s == MapInputsToSorted(ins) IN \E i \in 2..Len(s) : s[i] = s[i - 1]
\* Mutant: a group is closed by the index as well.
GroupsByInput(ins) ==
  LET s == MapInputsToSorted(ins)
      firsts == SetToSortSeq({i \in DOMAIN s : i = 1 \/ s[i] # s[i - 1]}, <)
  IN [g \in DOMAIN firsts |->
        SubSeq(s, firsts[g], IF g = Len(firsts) THEN Len(s) ELSE firsts[g + 1] - 1)]
GroupInputsByPrevHash(ins) ==
  LET s == MapInputsToSorted(ins)
      firsts == SetToSortSeq({i \in DOMAIN s : i = 1 \/ s[i].PrevHash # s[i - 1].PrevHash}, <)
  IN [g \in DOMAIN firsts |->
        SubSeq(s, firsts[g], IF g = Len(firsts) THEN Len(s) ELSE firsts[g + 1] - 1)]

-----------------------------------------------------------------------------
(* Building                                                                *)

Init ==
  /\ phase = "built" /\ form = "whole" /\ wire = <<>> /\ got = NewReader(<<>>)
  /\ kind \in DOMAIN Samples /\ rec \in Samples[kind]
  /\ changed = FALSE /\ put = <<>>

Build(r, c) ==
  /\ phase = "built" /\ rec' = r /\ changed' = (changed \/ c)
  /\ UNCHANGED <<phase, kind, put, form, wire, got>>

Hashed(r) == r.hash # Unset

TakeHash ==
  /\ kind \in {"Transaction", "Block"} /\ CanHash(kind, rec)
  /\ Build([rec EXCEPT !.hash = Hash(kind, rec)], FALSE)

Grown(t) ==
  {AddInput(t, in) : in \in {i \in Inputs : Len(t.Inputs) < MaxAdded}}
    \union {AddOutput(t, out) : out \in {o \in Outputs : Len(t.Outputs) < MaxAdded}}
    \union {AddVerificationHash(t) : i \in {1} \ DOMAIN t.Attributes}

AddTo == kind = "Transaction" /\ \E t \in Grown(rec) : Build(t, Hashed(rec))

\* One output at most, to keep the blocks few.
AddToOneOfABlock ==
  /\ kind = "Block"
  /\ \E i \in DOMAIN rec.Transactions, out \in Outputs :
       /\ rec.Transactions[i].Outputs = <<>>
       /\ Build([rec EXCEPT !.Transactions[i] = AddOutput(@, out)], FALSE)

HashOneOfABlock ==
  /\ kind = "Block"
  /\ \E i \in DOMAIN rec.Transactions :
       Build([rec EXCEPT !.Transactions[i].hash = Hash("Transaction", rec.Transactions[i])], FALSE)

\* The hash of the block is kept, and the transactions' are taken.
RebuildMerkleRoot ==
  /\ kind = "Block" /\ rec.Transactions # <<>>
  /\ LET root == buildMerkleTree(Hashes256(rec.Transactions))
     IN Build([rec EXCEPT !.MerkleRoot = root, !.Transactions = HashAll(@)],
              Hashed(rec) /\ root # rec.MerkleRoot)

AppendEntry ==
  /\ phase = "built" /\ Len(put) < MaxPuts
  /\ kind \in {"NEP5TransferLog", "TransferLog"}
  /\ \E e \in Transfers[EntryKind] :
       rec' = [rec EXCEPT !.Raw = Appended(@, e)] /\ put' = put \o <<e>>
  /\ UNCHANGED <<phase, kind, changed, form, wire, got>>

\* An output is put once.
PutUnclaimed ==
  /\ phase = "built" /\ kind = "UnclaimedBalances" /\ Len(put) < MaxPuts
  /\ \E e \in Puts :
       /\ \A i \in DOMAIN put : <<put[i].Tx, put[i].Index>> # <<e.Tx, e.Index>>
       /\ rec' = [rec EXCEPT !.Raw = Appended(@, e)] /\ put' = put \o <<e>>
  /\ UNCHANGED <<phase, kind, changed, form, wire, got>>

RemoveUnclaimed ==
  /\ phase = "built" /\ kind = "UnclaimedBalances"
  /\ \E i \in Starts(rec.Raw) :
       LET e == ReadAt(rec.Raw, i).v
       IN /\ rec' = [rec EXCEPT !.Raw = Removed(@, i)]
          /\ put' = SelectSeq(put, LAMBDA p : <<p.Tx, p.Index>> # <<e.Tx, e.Index>>)
  /\ UNCHANGED <<phase, kind, changed, form, wire, got>>

-----------------------------------------------------------------------------
(* Sending and reading                                                     *)

Sendable ==
  kind \notin {"UnclaimedBalances", "NEP5TransferLog", "TransferLog", "Hashes", "Inputs"}

Send ==
  /\ phase = "built" /\ Sendable
  /\ LET w == CASE kind \in TextKinds -> IF CanWriteText(kind, rec)
                                         THEN [NewWriter EXCEPT !.out = WriteText(kind, rec)]
                                         ELSE FailWrite(NewWriter)
                [] kind = "Text" -> NewWriter
                [] OTHER -> EncodeRecord(NewWriter, kind, rec)
     IN IF w.err THEN phase' = "refused" /\ UNCHANGED wire ELSE phase' = "sent" /\ wire' = w.out
  /\ UNCHANGED <<kind, rec, changed, put, form, got>>

\* Trim: a block of which only the hashes of the transactions are kept.
SendTrimmed ==
  /\ phase = "built" /\ kind = "Block"
  /\ LET slim == [rec EXCEPT !.Transactions = [i \in DOMAIN @ |-> [H |-> Hash("Transaction", @[i])]]]
     IN /\ kind' = "TrimmedBlock" /\ rec' = slim /\ phase' = "sent"
        /\ wire' = EncodeRecord(NewWriter, "TrimmedBlock", slim).out
  /\ UNCHANGED <<changed, put, form, got>>

SendJson ==
  /\ phase = "built" /\ kind \in {"Transaction", "Block", "Parameter", "MPTRootState"}
  /\ phase' = "read" /\ form' = "json" /\ got' = ToldBy(kind, rec)
  /\ UNCHANGED <<kind, rec, changed, put, wire>>

CutOff ==
  /\ phase = "sent" /\ form = "whole" /\ kind # "Text"
  /\ \E n \in 0..(Len(wire) - 1) : wire' = SubSeq(wire, 1, n)
  /\ form' = "cut"
  /\ UNCHANGED <<phase, kind, rec, changed, put, got>>

Follow ==
  /\ phase = "sent" /\ form = "whole" /\ kind \notin TextKinds \union {"Text"}
  /\ wire' = wire \o wire /\ form' = "followed"
  /\ UNCHANGED <<phase, kind, rec, changed, put, got>>

Receive ==
  /\ phase = "sent" /\ phase' = "read"
  /\ got' = CASE kind \in TextKinds -> ReadText(kind, wire, IF kind = "NEP2" THEN rec.Given ELSE 0)
              [] kind = "Text" -> NewParameterFromString(rec)
              [] OTHER -> DecodeRecord(NewReader(wire), kind)
  /\ UNCHANGED <<kind, rec, changed, put, form, wire>>

Next ==
  \/ TakeHash \/ AddTo \/ AddToOneOfABlock \/ HashOneOfABlock \/ RebuildMerkleRoot
  \/ AppendEntry \/ PutUnclaimed \/ RemoveUnclaimed
  \/ Send \/ SendTrimmed \/ SendJson \/ CutOff \/ Follow \/ Receive

Spec == Init /\ [][Next]_vars

-----------------------------------------------------------------------------
(* Properties                                                              *)

Without(f, r) == [g \in DOMAIN r \ {f} |-> r[g]]
RECURSIVE PlainItem(_)
PlainItem(item) ==
  LET i == Without("Id", item)
  IN CASE i.Type \in {ArrayT, StructT} ->
            [i EXCEPT !.Value = [k \in DOMAIN @ |-> PlainItem(@[k])]]
       [] i.Type = MapT ->
            [i EXCEPT !.Value = [k \in DOMAIN @ |-> [@[k] EXCEPT !.Value = PlainItem(@)]]]
       [] OTHER -> i
\* A record without what is not sent: cached hashes and the identity of containers.
Plain(k, r) ==
  CASE k \in {"Transaction", "Header", "TrimmedBlock"} -> Without("hash", r)
    [] k = "Block" ->
         [Without("hash", r) EXCEPT !.Transactions = [i \in DOMAIN @ |-> Without("hash", @[i])]]
    [] k = "Item" -> PlainItem(r)
    [] k = "NotificationEvent" -> [r EXCEPT !.Item = PlainItem(@)]
    [] OTHER -> r

\* The parameter that inferParamType's comment and ParseParamType make of a text.
Documented(text) ==
  LET isKey == LooksLikeKey(text) /\ KeyWidth(text.first) = text.bytes.n
      type == IF text.given # "" THEN ParseParamType(text.given)
              ELSE IF text.looks = "hex"
                   THEN IF isKey THEN PublicKeyType ELSE ByLength(text.bytes.n)
                   ELSE inferParamType(text)
  IN [Type |-> type, Value |-> IF isKey /\ type = PublicKeyType THEN KeyBytes(text) ELSE text.bytes]
FitsText(text) ==
  IF text.given = "" THEN text.looks = "hex" /\ LooksLikeKey(text) => KeyWidth(text.first) = text.bytes.n
  ELSE /\ Adjusts(ParseParamType(text.given), text)
       /\ ParseParamType(text.given) = PublicKeyType => KeyWidth(text.first) = text.bytes.n

\* What reading a record should give, of what is sent of it.
Meant(k, r) ==
  CASE k = "Text" -> Documented(r)
    [] k = "WIF" -> [r EXCEPT !.Version = WIFVersion]
    [] k = "NEP2" -> [Key |-> r.Key]
    [] OTHER -> Plain(k, r)

RECURSIVE HasInterop(_)
HasInterop(item) ==
  CASE item.Type = InteropT -> TRUE
    [] item.Type \in {ArrayT, StructT} -> \E i \in DOMAIN item.Value : HasInterop(item.Value[i])
    [] item.Type = MapT -> \E i \in DOMAIN item.Value : HasInterop(item.Value[i].Value)
    [] OTHER -> FALSE
FitsItem(item) == IsInjective(IdsWithin(item)) /\ ~HasInterop(item)
FitsAttribute(a) ==
  CASE a.Usage \in ECDH -> a.Data.n = 33
    [] a.Usage = Script -> a.Data.n = 20
    [] a.Usage \in Hashes -> a.Data.n = 32
    [] a.Usage = DescriptionURL -> a.Data.n < 256
    [] OTHER -> a.Usage \in Remarks
FitsTransaction(t) ==
  /\ t.Type \notin {VotingType, AgencyType}
  /\ \A i \in DOMAIN t.Attributes : FitsAttribute(t.Attributes[i])
  /\ \A i \in DOMAIN t.Outputs : t.Outputs[i].Amount >= 0
  /\ t.Type = InvocationType =>
       t.Script.n > 0 /\ t.Gas >= 0 /\ (t.Version = 0 => t.Gas = 0)
  /\ t.Type = PublishType /\ t.Version = 0 => ~t.NeedStorage
\* The records that can be written and read back.
Fits(k, r) ==
  CASE k = "Transaction" -> FitsTransaction(r)
    [] k = "Attribute" -> FitsAttribute(r)
    [] k = "Block" -> \A i \in DOMAIN r.Transactions : FitsTransaction(r.Transactions[i])
    [] k = "Item" -> FitsItem(r)
    [] k = "NotificationEvent" -> FitsItem(r.Item)
    [] k = "Parameter" -> r.Type # VoidType
    [] k = "PublicKey" -> r.Prefix = 0 \/ r.X.v[2] # NoPoint
    [] k = "StorageItem" -> r.Value.n <= MaxArraySize
    [] k = "Text" -> FitsText(r)
    [] k = "WIF" -> r.Key.n = 32 /\ r.Version \in {0, WIFVersion}
    [] k = "NEP2" -> r.Given = r.Locking
    [] OTHER -> TRUE

Received(f) == phase = "read" /\ form = f
Full == IF kind \in TextKinds THEN WriteText(kind, rec) ELSE EncodeRecord(NewWriter, kind, rec).out
\* UnspentCoin's second count, which is never read.
Unread == IF kind = "UnspentCoin" THEN VarUint(Len(rec.States)) ELSE <<>>

\* Type invariant.
TypeOK ==
  /\ phase \in {"built", "sent", "read", "refused"}
  /\ kind \in DOMAIN Samples \union {"TrimmedBlock"}
  /\ changed \in BOOLEAN /\ form \in {"whole", "cut", "followed", "json"}
  /\ \A i \in DOMAIN wire : wire[i].n \in Nat

\* What a record's EncodeBinary writes its DecodeBinary reads back as the same
\* record, exactly if the record is one that fits: not an invocation without a
\* script or with gas its version does not write, a negative amount, an attribute
\* of another length than its usage has, an item with a container twice (even
\* side by side, as `seen' is never unwound, serialization.go:38), and so on.
RoundTrip ==
  /\ phase = "refused" /\ form = "whole" => ~Fits(kind, rec)
  /\ Received("whole") =>
       (Fits(kind, rec) <=> ~got.err /\ Plain(kind, got.v) = Meant(kind, rec))

\* A record that lost its tail is refused, whatever is lost; only the second count
\* of an UnspentCoin (unspent_coin.go:39) is not missed.
CutIsNoticed ==
  Received("cut") /\ Fits(kind, rec) => (got.err <=> Len(wire) < Len(Full) - Len(Unread))

\* Reading a record leaves what follows it for the next one, as ReadArray and every
\* record with something after a list rely on; UnspentCoin leaves its second count.
LeavesRest ==
  Received("followed") /\ Fits(kind, rec) => ~got.err /\ got.in = Unread \o Full

\* A transaction or block is known by the same hash where it is read, unless it
\* was changed after its hash was taken: AddInput, AddOutput, AddVerificationHash
\* and RebuildMerkleRoot leave the hash as it was (transaction.go:89, block.go:49).
SameName ==
  Received("whole") /\ kind \in {"Transaction", "Block", "TrimmedBlock"} /\ ~got.err /\ Hashed(rec)
    => (got.v.hash = rec.hash <=> ~changed)

NoneStale(b) ==
  \A i \in DOMAIN b.Transactions :
    b.Transactions[i].hash \in {Unset, createHash("Transaction", b.Transactions[i])}
\* A block that verifies where it is made verifies where it is read, unless one of
\* its transactions was changed after its hash went into the Merkle root: then
\* nothing shows at the maker's, and every reader refuses the block.
BlockVerifies ==
  Received("whole") /\ kind = "Block" /\ ~got.err /\ Verify(rec)
    => (Verify(got.v) <=> NoneStale(rec))

\* A Merkle root tells which transactions a block has, and among blocks of one
\* length their order as well (merkle_tree.go:54, an odd leaf paired with itself).
MerkleBinds ==
  kind = "Hashes" =>
    \A other \in Samples["Hashes"] :
      buildMerkleTree(other.Leaves) = buildMerkleTree(rec.Leaves) =>
        /\ ToSet(other.Leaves) = ToSet(rec.Leaves)
        /\ Len(other.Leaves) = Len(rec.Leaves) => other = rec

\* Sizes told before writing are those written: of entries that lists without a
\* count are cut by, and of variable-length values but for lengths of exactly
\* 0xFFFF and of 2^32 - 1 and more (size.go:41 against binaryWriter.go:104).
SizesAgree ==
  phase = "sent" /\ form = "whole" =>
    CASE kind = "NEP5Transfer" -> SizeOf(wire) = NEP5TransferSize
      [] kind = "Transfer" -> SizeOf(wire) = TransferSize
      [] kind = "UnclaimedBalance" -> SizeOf(wire) = UnclaimedBalanceSize
      [] kind = "VarUint" ->
           (getVarIntSize(rec.V) = SizeOf(wire)) = (rec.V < Max32 /\ rec.V # Max16)
      [] kind = "StorageItem" ->
           (GetVarSizeOfBytes(rec.Value) + 1 = SizeOf(wire)) = (rec.Value.n # Max16)
      [] kind = "MPTRoot" ->
           GetVarSizeOfSlice([i \in DOMAIN rec.Witness |-> SizeOf(
               EncodeRecord(NewWriter, "Witness", rec.Witness[i]).out)]) + 69 = SizeOf(wire)
      [] OTHER -> TRUE

\* A log of transfers gives back, newest first, what was appended, and a list of
\* unclaimed balances what was put and not removed, each once, though Remove
\* moves the last entry to the place of the one removed.
ListsReadBack ==
  CASE kind \in {"NEP5TransferLog", "TransferLog"} -> ForEach(rec.Raw) = Reverse(put)
    [] kind = "UnclaimedBalances" ->
         Len(ForEach(rec.Raw)) = Len(put) /\ ToSet(ForEach(rec.Raw)) = ToSet(put)
    [] OTHER -> TRUE

SmallNegative(f) == -Decimals < f /\ f < 0
Amounts(t) ==
  {t.Outputs[i].Amount : i \in DOMAIN t.Outputs}
    \union (IF t.Type = RegisterType THEN {t.Amount} ELSE {})
    \union (IF t.Type = InvocationType THEN {t.Gas} ELSE {})
IsCurrent(k, r) == r.hash \in {Unset, createHash(k, r)}
TransactionFitsJson(t) ==
  /\ CanHash("Transaction", t) /\ IsCurrent("Transaction", t)
  /\ ~\E a \in Amounts(t) : SmallNegative(a)
  /\ t.Type = RegisterType => t.Name \notin {Spaced, NotJson}
  /\ t.Type = PublishType => \A i \in DOMAIN t.ParamList : t.ParamList[i].T \in DOMAIN ParamTypeNames
RECURSIVE HasNull(_)
HasNull(p) ==
  CASE p.Type \in BytesTypes -> p.Value = Null
    [] p.Type = ArrayType -> \E i \in DOMAIN p.Value : HasNull(p.Value[i])
    [] p.Type = MapType -> \E i \in DOMAIN p.Value : HasNull(p.Value[i].Value)
    [] OTHER -> p.Type = VoidType
FitsJson(k, r) ==
  CASE k = "Transaction" -> TransactionFitsJson(r)
    [] k = "Block" ->
         IsCurrent("Base", r) /\ \A i \in DOMAIN r.Transactions : TransactionFitsJson(r.Transactions[i])
    [] k = "Parameter" -> ~HasNull(r)
    [] k = "MPTRootState" -> r.Flag \in MPTRootStateFlags
\* What is written as JSON is read back the same, exactly if it fits: not with an
\* amount between -1 and 0, whose sign is lost (fixed8.go:101; the unlimited amount
\* of a RegisterTX is one), nor an asset with white space in its name, nor after
\* a change that left the hash behind, nor a parameter without a value.
JsonRoundTrip ==
  Received("json") =>
    (FitsJson(kind, rec) <=> ~got.err /\ Plain(kind, got.v) = Plain(kind, rec))

\* Inputs that occur twice are found, and the groups are the inputs by transaction,
\* each input once and no transaction in two groups (input.go:57).
InputsGrouped ==
  kind = "Inputs" =>
    LET groups == GroupInputsByPrevHash(rec.Inputs)
    IN /\ HaveDuplicateInputs(rec.Inputs) <=> ~IsInjective(rec.Inputs)
       /\ FlattenSeq(groups) = MapInputsToSorted(rec.Inputs)
       /\ \A g, h \in DOMAIN groups : \A i \in DOMAIN groups[g], j \in DOMAIN groups[h] :
            groups[g][i].PrevHash = groups[h][j].PrevHash <=> g = h
=============================================================================
