-------------------------------- MODULE Records --------------------------------
(***************************************************************************)
(* The binary form of every record of packages transaction, block, state,  *)
(* smartcontract and keys, and of the items of package vm.                 *)
(*                                                                         *)
(* What an EncodeBinary writes and what a DecodeBinary reads are two lists *)
(* of steps, each translated from its own method; Encode and Decode follow *)
(* them.  A record is a function of its fields.  Bytes and strings are     *)
(* units; a Fixed8 is an integer, as its 8 bytes hold any int64.           *)
(***************************************************************************)
EXTENDS BinaryIO

CONSTANT MaxValidatorsVoted   \* state.MaxValidatorsVoted
ASSUME MaxValidatorsAssumption == MaxValidatorsVoted \in Nat

-----------------------------------------------------------------------------
(* Steps                                                                   *)

Num(n, f) == [op |-> "num", n |-> n, f |-> f]             \* an integer of n bytes
Bool(f) == [op |-> "bool", f |-> f]
Bytes(n, f) == [op |-> "bytes", n |-> n, f |-> f]         \* an array of n bytes
Tagged(n, f) == [op |-> "tagged", n |-> n, f |-> f]       \* bytes whose first is not written
Short(f) == [op |-> "short", f |-> f]                     \* bytes, their length in one byte
Var(f) == [op |-> "var", f |-> f]                         \* WriteVarBytes, WriteString
Sized(f) == [op |-> "sized", f |-> f]                     \* the same, of any size
Nullable(f) == [op |-> "nullable", f |-> f]               \* the same, MaxU64 for none
VarNum(f) == [op |-> "varnum", f |-> f]
Count(f) == [op |-> "count", f |-> f]                     \* the length of a list again
Const(n, v) == [op |-> "const", n |-> n, v |-> v]         \* an integer that must be v
Pad(n, v) == [op |-> "pad", n |-> n, v |-> v]             \* an integer, v, that is ignored
Arr(f, kind, max) == [op |-> "array", f |-> f, kind |-> kind, max |-> max]
Sub(f, kind) == [op |-> "sub", f |-> f, kind |-> kind]    \* a record in a field
By(kind) == [op |-> "by", kind |-> kind]                  \* more of the same record
Check(c) == [op |-> "check", c |-> c]                     \* Acceptable(c, rec), or an error
Default(f, v) == [op |-> "default", f |-> f, v |-> v]     \* what an absent field is read as
Fail == [op |-> "fail"]

Null == Unit(-1, <<>>)
List(f, kind) == Arr(f, kind, MaxArraySize)      \* WriteArray, ReadArray
Listed(f, kind) == Arr(f, kind, MaxU64)          \* a count and a loop
Hash256(f) == Bytes(32, f)
Hash160(f) == Bytes(20, f)

-----------------------------------------------------------------------------
(* transaction                                                             *)

MinerType == 0
IssueType == 1
ClaimType == 2
EnrollmentType == 32
VotingType == 36
RegisterType == 64
ContractType == 128
StateType == 144
AgencyType == 176
PublishType == 208
InvocationType == 209

\* AttrUsage, by how the data is sized.
ECDH == {2, 3}
Script == 32
CertURL == 128
DescriptionURL == 129
Hashes == {0, 48} \union 161..175
Remarks == {144} \union 240..255

AttributeEncode(a) ==
  <<Num(1, "Usage"),
    CASE a.Usage \in ECDH -> Tagged(33, "Data")
      [] a.Usage \in Remarks -> Sized("Data")
      [] a.Usage = DescriptionURL -> Short("Data")
      [] a.Usage \in {Script} \union Hashes -> Bytes(0, "Data")
      [] OTHER -> Fail>>
AttributeData(a) ==
  <<CASE a.Usage \in ECDH -> Tagged(33, "Data")
      [] a.Usage \in Hashes -> Bytes(32, "Data")
      [] a.Usage = Script -> Bytes(20, "Data")
      [] a.Usage = DescriptionURL -> Short("Data")
      [] a.Usage \in Remarks -> Sized("Data")
      [] OTHER -> Fail>>
AttributeDecode == <<Num(1, "Usage"), By("AttributeData")>>

InputEncode == <<Hash256("PrevHash"), Num(2, "PrevIndex")>>
InputDecode == <<Hash256("PrevHash"), Num(2, "PrevIndex")>>
\* Mutant: the amount and the address in the other order.
OutputSwapped == <<Hash256("AssetID"), Hash160("ScriptHash"), Num(8, "Amount")>>
OutputEncode == <<Hash256("AssetID"), Num(8, "Amount"), Hash160("ScriptHash")>>
OutputDecode == <<Hash256("AssetID"), Num(8, "Amount"), Hash160("ScriptHash")>>
WitnessEncode == <<Var("InvocationScript"), Var("VerificationScript")>>
WitnessDecode == <<Var("InvocationScript"), Var("VerificationScript")>>
DescriptorEncode == <<Num(1, "Type"), Var("Key"), Var("Field"), Var("Value")>>
DescriptorDecode == <<Num(1, "Type"), Var("Key"), Var("Field"), Var("Value")>>

InvocationEncode(t) == <<Var("Script")>> \o (IF t.Version >= 1 THEN <<Num(8, "Gas")>> ELSE <<>>)
InvocationGas(t) ==
  IF t.Version >= 1 THEN <<Num(8, "Gas"), Check("Gas")>> ELSE <<Default("Gas", 0)>>
InvocationDecode == <<Var("Script"), Check("Script"), By("InvocationGas")>>

PublishStorage(t) ==
  IF t.Version >= 1 THEN <<Bool("NeedStorage")>> ELSE <<Default("NeedStorage", FALSE)>>
PublishTexts == <<Var("Name"), Var("CodeVersion"), Var("Author"), Var("Email"), Var("Description")>>
PublishEncode(t) ==
  <<Var("Script"), Listed("ParamList", "ParamType"), Num(1, "ReturnType")>>
    \o PublishStorage(t) \o PublishTexts
PublishDecode ==
  <<Var("Script"), Listed("ParamList", "ParamType"), Num(1, "ReturnType"),
    By("PublishStorage")>> \o PublishTexts

RegisterEncode ==
  <<Num(1, "AssetType"), Var("Name"), Num(8, "Amount"), Num(1, "Precision"),
    Sub("Owner", "PublicKey"), Hash160("Admin")>>
RegisterDecode ==
  <<Num(1, "AssetType"), Var("Name"), Num(8, "Amount"), Num(1, "Precision"),
    Sub("Owner", "PublicKey"), Hash160("Admin")>>

\* The data of a transaction are fields of the same record; its Version is also
\* that of the data, as NewInvocationTX and decodeData see to.
DataEncode(t) ==
  CASE t.Type = MinerType -> <<Num(4, "Nonce")>>
    [] t.Type = ClaimType -> <<List("Claims", "Input")>>
    [] t.Type = EnrollmentType -> <<Sub("PublicKey", "PublicKey")>>
    [] t.Type = RegisterType -> RegisterEncode
    [] t.Type = StateType -> <<List("Descriptors", "StateDescriptor")>>
    [] t.Type = PublishType -> PublishEncode(t)
    [] t.Type = InvocationType -> InvocationEncode(t)
    [] t.Type \in {IssueType, ContractType} -> <<>>
    [] OTHER -> <<Fail>>
decodeData(t) ==
  CASE t.Type = InvocationType -> InvocationDecode
    [] t.Type = MinerType -> <<Num(4, "Nonce")>>
    [] t.Type = ClaimType -> <<List("Claims", "Input")>>
    [] t.Type \in {ContractType, IssueType} -> <<>>
    [] t.Type = RegisterType -> RegisterDecode
    [] t.Type = EnrollmentType -> <<Sub("PublicKey", "PublicKey")>>
    [] t.Type = PublishType -> PublishDecode
    [] t.Type = StateType -> <<List("Descriptors", "StateDescriptor")>>
    [] OTHER -> <<Fail>>

Points == <<List("Attributes", "Attribute"), List("Inputs", "Input"), List("Outputs", "Output")>>
encodeHashableFields(t) ==
  IF t.Type \in {VotingType, AgencyType} THEN <<Fail>>    \* there is no data for these
  ELSE <<Num(1, "Type"), Num(1, "Version")>> \o DataEncode(t) \o Points
TransactionEncode(t) == encodeHashableFields(t) \o <<List("Scripts", "Witness")>>
TransactionDecode ==
  <<Num(1, "Type"), Num(1, "Version"), By("decodeData")>> \o Points
    \o <<Check("Outputs"), List("Scripts", "Witness"), Check("Hash")>>

-----------------------------------------------------------------------------
(* block                                                                   *)

BaseHashable ==
  <<Num(4, "Version"), Hash256("PrevHash"), Hash256("MerkleRoot"), Num(4, "Timestamp"),
    Num(4, "Index"), Num(8, "ConsensusData"), Hash160("NextConsensus")>>
\* Mutant: the two hashes in the other order.
RootBeforePrev ==
  <<Num(4, "Version"), Hash256("MerkleRoot"), Hash256("PrevHash"), Num(4, "Timestamp"),
    Num(4, "Index"), Num(8, "ConsensusData"), Hash160("NextConsensus"), Check("BaseHash")>>
BaseHashed ==
  <<Num(4, "Version"), Hash256("PrevHash"), Hash256("MerkleRoot"), Num(4, "Timestamp"),
    Num(4, "Index"), Num(8, "ConsensusData"), Hash160("NextConsensus"), Check("BaseHash")>>
BaseEncode == BaseHashable \o <<Const(1, 1), Sub("Script", "Witness")>>
BaseDecode == BaseHashed \o <<Const(1, 1), Sub("Script", "Witness")>>
HeaderEncode == BaseEncode \o <<Const(1, 0)>>
\* Mutant: the byte after the witness is forgotten.
HeaderUnpadded == BaseDecode
HeaderDecode == BaseDecode \o <<Const(1, 0)>>
BlockEncode == BaseEncode \o <<List("Transactions", "Transaction")>>
BlockDecode == BaseDecode \o <<List("Transactions", "Transaction")>>
Trim == BaseHashable \o <<Pad(1, 1), Sub("Script", "Witness"), Listed("Transactions", "Uint256")>>
NewBlockFromTrimmedBytes ==
  BaseHashed \o <<Pad(1, 1), Sub("Script", "Witness"), Listed("Transactions", "Uint256")>>

-----------------------------------------------------------------------------
(* state                                                                   *)

UnspentEncode == <<Hash256("Tx"), Num(2, "Index"), Num(8, "Value")>>
UnspentDecode == <<Hash256("Tx"), Num(2, "Index"), Num(8, "Value")>>
UnclaimedEncode ==
  <<Hash256("Tx"), Num(2, "Index"), Num(4, "Start"), Num(4, "End"), Num(8, "Value")>>
UnclaimedDecode ==
  <<Hash256("Tx"), Num(2, "Index"), Num(4, "Start"), Num(4, "End"), Num(8, "Value")>>
\* A balance is an entry of the map Balances, the map a list in the order of some
\* iteration; Unclaimed.Raw is the list of what was put into it.
BalanceFields == <<Hash256("Asset"), Listed("Unspent", "UnspentBalance")>>
AccountEncode ==
  <<Num(1, "Version"), Hash160("ScriptHash"), Bool("IsFrozen"), List("Votes", "PublicKey"),
    Listed("Balances", "Balance"), Listed("Unclaimed", "UnclaimedBalance")>>
AccountDecode ==
  <<Num(1, "Version"), Hash160("ScriptHash"), Bool("IsFrozen"), List("Votes", "PublicKey"),
    Listed("Balances", "Balance"), Listed("Unclaimed", "UnclaimedBalance")>>
AssetEncode ==
  <<Hash256("ID"), Num(1, "AssetType"), Var("Name"), Num(8, "Amount"), Num(8, "Available"),
    Num(1, "Precision"), Num(1, "FeeMode"), Hash160("FeeAddress"), Sub("Owner", "PublicKey"),
    Hash160("Admin"), Hash160("Issuer"), Num(4, "Expiration"), Bool("IsFrozen")>>
AssetDecode ==
  <<Hash256("ID"), Num(1, "AssetType"), Var("Name"), Num(8, "Amount"), Num(8, "Available"),
    Num(1, "Precision"), Num(1, "FeeMode"), Hash160("FeeAddress"), Sub("Owner", "PublicKey"),
    Hash160("Admin"), Hash160("Issuer"), Num(4, "Expiration"), Bool("IsFrozen")>>
ContractEncode ==
  <<Var("Script"), List("ParamList", "ParamType"), Num(1, "ReturnType"), Num(1, "Properties")>>
    \o PublishTexts
ContractDecode ==
  <<Var("Script"), List("ParamList", "ParamType"), Num(1, "ReturnType"), Num(1, "Properties")>>
    \o PublishTexts
RootBaseEncode == <<Num(1, "Version"), Num(4, "Index"), Hash256("PrevHash"), Hash256("Root")>>
RootBaseDecode == <<Num(1, "Version"), Num(4, "Index"), Hash256("PrevHash"), Hash256("Root")>>
\* The witness is a list of at most one, empty for nil.
RootEncode == RootBaseEncode \o <<List("Witness", "Witness")>>
RootDecode == RootBaseDecode \o <<Arr("Witness", "Witness", 1)>>
RootStateEncode == <<Num(1, "Flag")>> \o RootEncode
RootStateDecode == <<Num(1, "Flag")>> \o RootDecode
TrackerEncode == <<Num(8, "Balance"), Num(4, "LastUpdatedBlock")>>
TrackerDecode == <<Num(8, "Balance"), Num(4, "LastUpdatedBlock")>>
\* The trackers are a map, in the order of some iteration.
BalancesEncode == <<Num(4, "NextTransferBatch"), Listed("Trackers", "Tracked")>>
BalancesDecode == <<Num(4, "NextTransferBatch"), Listed("Trackers", "Tracked")>>
MetadataFields == <<Num(8, "Decimals")>>
NEP5TransferEncode ==
  <<Hash160("Asset"), Hash256("Tx"), Hash160("From"), Hash160("To"), Num(4, "Block"),
    Num(4, "Timestamp"), Num(8, "Amount"), Num(4, "Index")>>
NEP5TransferDecode ==
  <<Hash160("Asset"), Hash256("Tx"), Hash160("From"), Hash160("To"), Num(4, "Block"),
    Num(4, "Timestamp"), Num(8, "Amount"), Num(4, "Index")>>
TransferEncode ==
  <<Hash256("Tx"), Num(4, "Block"), Num(4, "Timestamp"), Num(8, "Amount"), Bool("IsGoverning"),
    Bool("IsSent")>>
\* Mutant: the flag added last is not read.
TransferOutdated ==
  <<Hash256("Tx"), Num(4, "Block"), Num(4, "Timestamp"), Num(8, "Amount"), Bool("IsGoverning")>>
TransferDecode ==
  <<Hash256("Tx"), Num(4, "Block"), Num(4, "Timestamp"), Num(8, "Amount"), Bool("IsGoverning"),
    Bool("IsSent")>>
\* Sizes that lists of such records without a count rely on.
NEP5TransferSize == 20 * 3 + 8 + 4 + 4 + 32 + 4
TransferSize == 2 + 8 + 4 + 4 + 32
UnclaimedBalanceSize == 32 + 2 + 4 + 4 + 8
StorageItemEncode == <<Var("Value"), Bool("IsConst")>>
StorageItemDecode == <<Var("Value"), Bool("IsConst")>>
\* The number of states is written twice.
UnspentCoinEncode == <<Num(4, "Height"), List("States", "OutputState"), Count("States")>>
UnspentCoinDecode == <<Num(4, "Height"), List("States", "OutputState")>>
OutputStateEncode == OutputEncode \o <<Num(4, "SpendHeight"), Num(1, "State")>>
OutputStateDecode == OutputDecode \o <<Num(4, "SpendHeight"), Num(1, "State")>>
ValidatorEncode == <<Sub("PublicKey", "PublicKey"), Bool("Registered"), Num(8, "Votes")>>
ValidatorDecode == <<Sub("PublicKey", "PublicKey"), Bool("Registered"), Num(8, "Votes")>>
ValidatorsCountFields == [i \in 1..MaxValidatorsVoted |-> Num(8, i)]
EventEncode == <<Hash160("ScriptHash"), Sub("Item", "Item")>>
EventDecode == <<Hash160("ScriptHash"), Sub("Item", "Item")>>
ExecResultEncode ==
  <<Hash256("TxHash"), Num(1, "Trigger"), Var("VMState"), Num(8, "GasConsumed"),
    List("Stack", "Parameter"), List("Events", "NotificationEvent")>>
ExecResultDecode ==
  <<Hash256("TxHash"), Num(1, "Trigger"), Var("VMState"), Num(8, "GasConsumed"),
    List("Stack", "Parameter"), List("Events", "NotificationEvent")>>

-----------------------------------------------------------------------------
(* smartcontract                                                           *)

SignatureType == 0
BoolType == 1
IntegerType == 2
Hash160Type == 3
Hash256Type == 4
ByteArrayType == 5
PublicKeyType == 6
StringType == 7
ArrayType == 16
MapType == 18
InteropInterfaceType == 240
VoidType == 255
BytesTypes == {ByteArrayType, PublicKeyType, SignatureType}

ParameterEncode(p) ==
  <<Num(1, "Type")>> \o
  CASE p.Type = BoolType -> <<Bool("Value")>>
    [] p.Type \in BytesTypes -> <<Nullable("Value")>>
    [] p.Type = StringType -> <<Var("Value")>>
    [] p.Type = IntegerType -> <<Num(8, "Value")>>
    [] p.Type = ArrayType -> <<List("Value", "Parameter")>>
    [] p.Type = MapType -> <<List("Value", "ParameterPair")>>
    [] p.Type = Hash160Type -> <<Hash160("Value")>>
    [] p.Type = Hash256Type -> <<Hash256("Value")>>
    [] p.Type = InteropInterfaceType -> <<>>
    [] OTHER -> <<Fail>>
ParameterValue(p) ==
  CASE p.Type = BoolType -> <<Bool("Value")>>
    [] p.Type \in BytesTypes -> <<Nullable("Value")>>
    [] p.Type = StringType -> <<Var("Value")>>
    [] p.Type = IntegerType -> <<Num(8, "Value")>>
    [] p.Type = ArrayType -> <<List("Value", "Parameter")>>
    [] p.Type = MapType -> <<List("Value", "ParameterPair")>>
    [] p.Type = Hash160Type -> <<Hash160("Value")>>
    [] p.Type = Hash256Type -> <<Hash256("Value")>>
    [] p.Type = InteropInterfaceType -> <<>>
    [] OTHER -> <<Fail>>
ParameterDecode == <<Num(1, "Type"), By("ParameterValue")>>
PairEncode == <<Sub("Key", "Parameter"), Sub("Value", "Parameter")>>
PairDecode == <<Sub("Key", "Parameter"), Sub("Value", "Parameter")>>

-----------------------------------------------------------------------------
(* keys                                                                    *)

\* The curve is a table: the points of abscissa x are those of ordinates 2x and
\* 2x + 1, and there are none for NoPoint.  A run of bytes is a pair of which the
\* second part is told apart.
NoPoint == 9
OnCurve(x, y) == x.v[2] # NoPoint /\ y.v[2] \in {2 * x.v[2], 2 * x.v[2] + 1}
decodeCompressedY(x, prefix) == Unit(32, <<"some", (2 * x.v[2]) + (prefix % 2)>>)

\* getBytes; a prefix of 0 is infinity, of 4 the uncompressed form.
PublicKeyEncode(k) ==
  CASE k.Prefix = 0 -> <<Num(1, "Prefix")>>
    [] k.Prefix = 4 -> <<Num(1, "Prefix"), Bytes(32, "X"), Bytes(32, "Y")>>
    [] OTHER -> <<Num(1, "Prefix"), Bytes(32, "X")>>
PublicKeyPoint(k) ==
  CASE k.Prefix = 0 -> <<>>
    [] k.Prefix \in {2, 3} -> <<Bytes(32, "X"), Check("Decompressed")>>
    [] k.Prefix = 4 -> <<Bytes(32, "X"), Bytes(32, "Y"), Check("OnCurve")>>
    [] OTHER -> <<Fail>>
PublicKeyDecode == <<Num(1, "Prefix"), By("PublicKeyPoint")>>

-----------------------------------------------------------------------------
(* Items of package vm.  A container has an id, by which an item that      *)
(* occurs twice is known; decoding makes new containers, of id 0.          *)

ByteArrayT == 0
BooleanT == 1
IntegerT == 2
ArrayT == 128
StructT == 129
MapT == 130
InteropT == -1
Nested == {ArrayT, StructT, MapT}

RECURSIVE IdsWithin(_)
IdsWithin(item) ==
  CASE item.Type \in {ArrayT, StructT} ->
         FoldLeft(LAMBDA a, i : a \o IdsWithin(i), <<item.Id>>, item.Value)
    [] item.Type = MapT ->
         FoldLeft(LAMBDA a, e : a \o IdsWithin(e.Value), <<item.Id>>, item.Value)
    [] OTHER -> <<>>
\* serializeItemTo never takes an item out of `seen'.
SeenOnce(item) == IsInjective(IdsWithin(item))

ItemFields(item) ==
  CASE item.Type = ByteArrayT -> <<Var("Value")>>
    [] item.Type = BooleanT -> <<Bool("Value")>>
    [] item.Type = IntegerT -> <<Var("Value")>>
    [] item.Type \in {ArrayT, StructT} -> <<Listed("Value", "Item")>>
    [] item.Type = MapT -> <<Listed("Value", "MapElement")>>
    [] OTHER -> <<Fail>>
serializeItemTo(item) ==
  IF SeenOnce(item) THEN <<Num(1, "Type")>> \o ItemFields(item) ELSE <<Fail>>
DecodeBinaryStackItem == <<Num(1, "Type"), By("ItemFields"), Check("New")>>

-----------------------------------------------------------------------------
(* Which steps a kind of record has, and following them                    *)

Encoder(kind, rec) ==
  CASE kind = "Transaction" -> TransactionEncode(rec) [] kind = "Attribute" -> AttributeEncode(rec)
    [] kind = "Input" -> InputEncode [] kind = "Output" -> OutputEncode
    [] kind = "Witness" -> WitnessEncode [] kind = "StateDescriptor" -> DescriptorEncode
    [] kind = "Header" -> HeaderEncode [] kind = "Block" -> BlockEncode [] kind = "TrimmedBlock" -> Trim
    [] kind = "UnspentBalance" -> UnspentEncode [] kind = "UnclaimedBalance" -> UnclaimedEncode
    [] kind = "Balance" -> BalanceFields [] kind = "Account" -> AccountEncode
    [] kind = "Asset" -> AssetEncode [] kind = "Contract" -> ContractEncode
    [] kind = "MPTRoot" -> RootEncode [] kind = "MPTRootState" -> RootStateEncode
    [] kind = "NEP5Tracker" -> TrackerEncode [] kind = "NEP5Balances" -> BalancesEncode
    [] kind = "Tracked" -> <<Hash160("Asset")>> \o TrackerEncode
    [] kind = "NEP5Metadata" -> MetadataFields [] kind = "NEP5Transfer" -> NEP5TransferEncode
    [] kind = "Transfer" -> TransferEncode [] kind = "StorageItem" -> StorageItemEncode
    [] kind = "UnspentCoin" -> UnspentCoinEncode [] kind = "OutputState" -> OutputStateEncode
    [] kind = "Validator" -> ValidatorEncode [] kind = "ValidatorsCount" -> ValidatorsCountFields
    [] kind = "NotificationEvent" -> EventEncode [] kind = "AppExecResult" -> ExecResultEncode
    [] kind = "Parameter" -> ParameterEncode(rec) [] kind = "ParameterPair" -> PairEncode
    [] kind = "PublicKey" -> PublicKeyEncode(rec) [] kind = "Item" -> serializeItemTo(rec)
    [] kind = "MapElement" -> <<Sub("Key", "Item"), Sub("Value", "Item")>>
    [] kind = "ParamType" -> <<Num(1, "T")>> [] kind = "Uint256" -> <<Hash256("H")>>
    [] kind = "VarUint" -> <<VarNum("V")>>

Decoder(kind, rec) ==
  CASE kind = "Transaction" -> TransactionDecode [] kind = "decodeData" -> decodeData(rec)
    [] kind = "InvocationGas" -> InvocationGas(rec) [] kind = "PublishStorage" -> PublishStorage(rec)
    [] kind = "Attribute" -> AttributeDecode [] kind = "AttributeData" -> AttributeData(rec)
    [] kind = "Input" -> InputDecode [] kind = "Output" -> OutputDecode
    [] kind = "Witness" -> WitnessDecode [] kind = "StateDescriptor" -> DescriptorDecode
    [] kind = "Header" -> HeaderDecode [] kind = "Block" -> BlockDecode
    [] kind = "TrimmedBlock" -> NewBlockFromTrimmedBytes
    [] kind = "UnspentBalance" -> UnspentDecode [] kind = "UnclaimedBalance" -> UnclaimedDecode
    [] kind = "Balance" -> BalanceFields [] kind = "Account" -> AccountDecode
    [] kind = "Asset" -> AssetDecode [] kind = "Contract" -> ContractDecode
    [] kind = "MPTRoot" -> RootDecode [] kind = "MPTRootState" -> RootStateDecode
    [] kind = "NEP5Tracker" -> TrackerDecode [] kind = "NEP5Balances" -> BalancesDecode
    [] kind = "Tracked" -> <<Hash160("Asset")>> \o TrackerDecode
    [] kind = "NEP5Metadata" -> MetadataFields [] kind = "NEP5Transfer" -> NEP5TransferDecode
    [] kind = "Transfer" -> TransferDecode [] kind = "StorageItem" -> StorageItemDecode
    [] kind = "UnspentCoin" -> UnspentCoinDecode [] kind = "OutputState" -> OutputStateDecode
    [] kind = "Validator" -> ValidatorDecode [] kind = "ValidatorsCount" -> ValidatorsCountFields
    [] kind = "NotificationEvent" -> EventDecode [] kind = "AppExecResult" -> ExecResultDecode
    [] kind = "Parameter" -> ParameterDecode [] kind = "ParameterValue" -> ParameterValue(rec)
    [] kind = "ParameterPair" -> PairDecode
    [] kind = "PublicKey" -> PublicKeyDecode [] kind = "PublicKeyPoint" -> PublicKeyPoint(rec)
    [] kind = "Item" -> DecodeBinaryStackItem [] kind = "ItemFields" -> ItemFields(rec)
    [] kind = "MapElement" -> <<Sub("Key", "Item"), Sub("Value", "Item")>>
    [] kind = "ParamType" -> <<Num(1, "T")>> [] kind = "Uint256" -> <<Hash256("H")>>
    [] kind = "VarUint" -> <<VarNum("V")>>

\* Mutant: none is written as if it were some.
NoneWritten(w, b) == WriteVarBytes(w, b)
WriteNullable(w, b) == IF b = Null THEN WriteVarUint(w, MaxU64) ELSE WriteVarBytes(w, b)

RECURSIVE Encode(_, _, _)
EncodeRecord(w, kind, rec) == Encode(w, Encoder(kind, rec), rec)
EncodeStep(w, s, rec) ==
  CASE s.op = "num" -> WriteBytes(w, Unit(s.n, rec[s.f]))
    [] s.op = "bool" -> WriteBytes(w, Unit(1, IF rec[s.f] THEN 1 ELSE 0))
    [] s.op = "bytes" -> WriteBytes(w, rec[s.f])
    [] s.op = "tagged" -> WriteBytes(w, Unit(rec[s.f].n - 1, rec[s.f].v))
    [] s.op = "short" -> WriteBytes(WriteBytes(w, Unit(1, rec[s.f].n % 256)), rec[s.f])
    [] s.op \in {"var", "sized"} -> WriteVarBytes(w, rec[s.f])
    [] s.op = "nullable" -> WriteNullable(w, rec[s.f])
    [] s.op = "varnum" -> WriteVarUint(w, rec[s.f])
    [] s.op = "count" -> WriteVarUint(w, Len(rec[s.f]))
    [] s.op \in {"const", "pad"} -> WriteBytes(w, Unit(s.n, s.v))
    [] s.op = "array" ->
         FoldLeft(LAMBDA a, e : EncodeRecord(a, s.kind, e), WriteVarUint(w, Len(rec[s.f])), rec[s.f])
    [] s.op = "sub" -> EncodeRecord(w, s.kind, rec[s.f])
    [] s.op = "default" -> w
    [] s.op = "fail" -> FailWrite(w)
Encode(w, steps, rec) == FoldLeft(LAMBDA a, s : EncodeStep(a, s, rec), w, steps)

\* createHash of a transaction and of a block: a hash stands for what it is taken
\* from, and both hashes, of one and of two rounds, are taken together.
Unset == Unit(32, <<>>)
Hashable(kind, rec) == IF kind = "Transaction" THEN encodeHashableFields(rec) ELSE BaseHashable
createHash(kind, rec) == Unit(32, <<"hash", Encode(NewWriter, Hashable(kind, rec), rec).out>>)
CanHash(kind, rec) == ~Encode(NewWriter, Hashable(kind, rec), rec).err

Acceptable(c, rec) ==
  CASE c = "Script" -> rec.Script.n > 0
    [] c = "Gas" -> rec.Gas >= 0
    [] c = "Outputs" -> \A i \in DOMAIN rec.Outputs : rec.Outputs[i].Amount >= 0
    [] c = "Decompressed" -> rec.X.v[2] # NoPoint
    [] c = "OnCurve" -> OnCurve(rec.X, rec.Y)
    [] c = "Hash" -> CanHash("Transaction", rec)
    [] OTHER -> TRUE
\* Mutant: the hash is left to whoever asks for it first, and is zero till then.
HashLeftUnset(c, rec) ==
  CASE c \in {"Hash", "BaseHash"} -> rec @@ [hash |-> Unset]
    [] c = "Decompressed" -> rec @@ [Y |-> decodeCompressedY(rec.X, rec.Prefix)]
    [] c = "New" /\ rec.Type \in Nested -> rec @@ [Id |-> 0]
    [] OTHER -> rec
\* What a check computes besides.
Completed(c, rec) ==
  CASE c = "Hash" -> rec @@ [hash |-> createHash("Transaction", rec)]
    [] c = "BaseHash" -> rec @@ [hash |-> createHash("Base", rec)]
    [] c = "Decompressed" -> rec @@ [Y |-> decodeCompressedY(rec.X, rec.Prefix)]
    [] c = "New" /\ rec.Type \in Nested -> rec @@ [Id |-> 0]
    [] OTHER -> rec

\* A reader together with the record read so far.
RECURSIVE Decode(_, _, _)
DecodeRecord(r, kind) == Decode(r, Decoder(kind, << >>), << >>)
DecodeList(r, kind, n) ==
  FoldLeft(LAMBDA a, i : LET e == DecodeRecord(a, kind)
                         IN [e EXCEPT !.v = IF e.err THEN a.v ELSE Append(a.v, e.v)],
           [r EXCEPT !.v = <<>>], [i \in 1..n |-> i])
\* What follows a number n that was read.
Counted(s, n) ==
  CASE s.op = "sized" -> ReadBytes(n, n.v)
    [] s.op = "nullable" -> IF n.v = MaxU64 THEN [n EXCEPT !.v = Null] ELSE ReadBytes(n, n.v)
    [] s.op = "varnum" -> n
    [] s.op = "array" ->
         IF n.v > s.max THEN [FailRead(n) EXCEPT !.v = <<>>] ELSE DecodeList(n, s.kind, n.v)
Read(r, s) ==
  CASE s.op \in {"num", "const", "pad"} -> ReadUint(r, s.n)
    [] s.op = "bool" -> LET b == ReadUint(r, 1) IN [b EXCEPT !.v = b.v # 0]
    [] s.op = "bytes" -> ReadBytes(r, s.n)
    [] s.op = "tagged" -> LET b == ReadBytes(r, s.n - 1) IN [b EXCEPT !.v = Unit(s.n, b.v.v)]
    [] s.op = "short" -> LET n == ReadUint(r, 1) IN ReadBytes(n, n.v)
    [] s.op = "var" -> ReadVarBytes(r)
    [] s.op \in {"sized", "nullable", "varnum", "array"} -> Counted(s, ReadVarUint(r))
    [] s.op = "sub" -> DecodeRecord(r, s.kind)
\* b, the reader after step s, with the record rec read till then.
Taken(rec, s, b) ==
  CASE s.op = "const" -> [b EXCEPT !.v = rec, !.err = @ \/ b.v # s.v]
    [] s.op = "pad" -> [b EXCEPT !.v = rec]
    [] OTHER -> [b EXCEPT !.v = IF b.err THEN rec ELSE rec @@ (s.f :> b.v)]
\* After an error nothing more is read and the record is given up.
Decode(r, steps, rec) ==
  FoldLeft(LAMBDA a, s :
             IF a.err THEN a
             ELSE CASE s.op = "by" -> Decode(a, Decoder(s.kind, a.v), a.v)
                    [] s.op = "check" -> IF Acceptable(s.c, a.v) THEN [a EXCEPT !.v = Completed(s.c, @)]
                                         ELSE FailRead(a)
                    [] s.op = "fail" -> FailRead(a)
                    [] s.op = "default" -> [a EXCEPT !.v = @ @@ (s.f :> s.v)]
                    [] OTHER -> Taken(a.v, s, Read(a, s)),
           [r EXCEPT !.v = rec], steps)
=============================================================================
