--------------------------------- MODULE Texts --------------------------------
(***************************************************************************)
(* The forms records and values have in text: numbers and names, the JSON  *)
(* of transactions, blocks, parameters and state roots, parameters given   *)
(* on a command line, and keys and addresses in base 58.                   *)
(*                                                                         *)
(* Reading what was written is one operator, Told, as nothing happens to a *)
(* text in between; it is [err, v] like what a reader returns.             *)
(***************************************************************************)
EXTENDS Records

CONSTANTS
  Spaced, NotJson, \* names of assets that are JSON with white space, and not JSON
  Compact          \* what JSON makes of Spaced

Told(v) == [in |-> <<>>, err |-> FALSE, v |-> v]
Untold == [in |-> <<>>, err |-> TRUE, v |-> NoBytes]

-----------------------------------------------------------------------------
(* Numbers: a sign, an integer and the digits after the point              *)

Decimals == 100000000
Digits(n) == [i \in 1..8 |-> (n \div 10^(8 - i)) % 10]
TrimRight(d) == SubSeq(d, 1, Max({0} \union {i \in DOMAIN d : d[i] # 0}))
Fraction(s) == FoldLeft(LAMBDA a, i : a + s.frac[i] * 10^(8 - i), 0, [i \in DOMAIN s.frac |-> i])

Fixed8String(f) ==
  LET val == IF f < 0 THEN -f ELSE f
  IN [neg |-> f < 0, int |-> val \div Decimals, frac |-> TrimRight(Digits(val % Decimals))]
\* Mutant: a fraction counts up whatever the sign.
FractionAdded(s) == (IF s.neg THEN -s.int ELSE s.int) * Decimals + Fraction(s)
\* The sign is that of the integer before the point, and -0 is 0.
Fixed8FromString(s) ==
  LET ip == IF s.neg THEN -s.int ELSE s.int
  IN IF ip < 0 THEN ip * Decimals - Fraction(s) ELSE ip * Decimals + Fraction(s)
Retold(f) == Fixed8FromString(Fixed8String(f))

-----------------------------------------------------------------------------
(* Names.  Every list of names is spelt alike where it is written and read. *)

TXTypes == {MinerType, IssueType, ClaimType, EnrollmentType, VotingType, RegisterType,
            ContractType, StateType, AgencyType, PublishType, InvocationType}
AttrUsages == ECDH \union {Script, CertURL, DescriptionURL} \union Hashes \union Remarks
MPTRootStateFlags == {0, 1, 3}

ParamTypeNames ==
  SignatureType :> "signature" @@ BoolType :> "boolean" @@ IntegerType :> "integer"
    @@ Hash160Type :> "hash160" @@ Hash256Type :> "hash256" @@ ByteArrayType :> "bytearray"
    @@ PublicKeyType :> "publickey" @@ StringType :> "string" @@ ArrayType :> "array"
    @@ MapType :> "map" @@ InteropInterfaceType :> "interopinterface" @@ VoidType :> "void"
Aliases == "bool" :> BoolType @@ "int" :> IntegerType @@ "bytes" :> ByteArrayType
             @@ "key" :> PublicKeyType @@ "struct" :> ArrayType
UnknownType == -1
ParseParamType(name) ==
  IF name \in DOMAIN Aliases THEN Aliases[name]
  ELSE IF \E t \in DOMAIN ParamTypeNames : ParamTypeNames[t] = name
       THEN CHOOSE t \in DOMAIN ParamTypeNames : ParamTypeNames[t] = name ELSE UnknownType

-----------------------------------------------------------------------------
(* JSON.  A field that is left out when zero is read as zero.              *)

\* Hash of a transaction and of a block; a hash already taken is kept.
Hash(k, r) == IF r.hash = Unset THEN createHash(k, r) ELSE r.hash

TransactionMarshals(t) ==
  /\ CanHash("Transaction", t)
  /\ t.Type = RegisterType => t.Name # NotJson
\* Every name in it is one that is read.
TransactionNamed(t) ==
  /\ t.Type \in TXTypes
  /\ \A i \in DOMAIN t.Attributes : t.Attributes[i].Usage \in AttrUsages
  /\ t.Type = PublishType =>
       \A i \in DOMAIN t.ParamList : t.ParamList[i].T \in DOMAIN ParamTypeNames
RetoldData(t) ==
  CASE t.Type = RegisterType ->
         [t EXCEPT !.Amount = Retold(@), !.Name = IF @ = Spaced THEN Compact ELSE @]
    [] t.Type = InvocationType -> [t EXCEPT !.Gas = Retold(@)]
    [] OTHER -> t
RetoldTransaction(t) ==
  LET outs == [i \in DOMAIN t.Outputs |-> [t.Outputs[i] EXCEPT !.Amount = Retold(@)]]
      new == [RetoldData(t) EXCEPT !.Outputs = outs]
  IN [new EXCEPT !.hash = createHash("Transaction", new)]
TransactionToldBy(t) ==
  LET new == RetoldTransaction(t)
  IN IF TransactionMarshals(t) /\ TransactionNamed(t) /\ new.hash = Hash("Transaction", t)
     THEN Told(new) ELSE Untold

\* The block's own fields and its transactions are read apart.
BaseToldBy(b) ==
  LET new == [b EXCEPT !.hash = createHash("Base", b)]
  IN IF new.hash = Hash("Base", b) THEN Told(new) ELSE Untold
BlockToldBy(b) ==
  LET txs == [i \in DOMAIN b.Transactions |-> TransactionToldBy(b.Transactions[i])]
  IN IF ~BaseToldBy(b).err /\ \A i \in DOMAIN txs : ~txs[i].err
     THEN Told([BaseToldBy(b).v EXCEPT !.Transactions = [i \in DOMAIN txs |-> txs[i].v]]) ELSE Untold

\* null is read as a string, which is then empty.
RECURSIVE ParameterToldBy(_)
ParameterToldBy(p) ==
  CASE p.Type \in BytesTypes -> Told([p EXCEPT !.Value = IF @ = Null THEN NoBytes ELSE @])
    [] p.Type = ArrayType ->
         IF \E i \in DOMAIN p.Value : ParameterToldBy(p.Value[i]).err THEN Untold
         ELSE Told([p EXCEPT !.Value = [i \in DOMAIN @ |-> ParameterToldBy(@[i]).v]])
    [] p.Type = MapType ->
         Told([p EXCEPT !.Value = [i \in DOMAIN @ |-> [Key |-> ParameterToldBy(@[i].Key).v,
                                                       Value |-> ParameterToldBy(@[i].Value).v]]])
    [] p.Type = VoidType -> Untold
    [] OTHER -> Told(p)

RootStateToldBy(s) == IF s.Flag \in MPTRootStateFlags THEN Told(s) ELSE Untold

ToldBy(kind, rec) ==
  CASE kind = "Transaction" -> TransactionToldBy(rec) [] kind = "Block" -> BlockToldBy(rec)
    [] kind = "Parameter" -> ParameterToldBy(rec) [] kind = "MPTRootState" -> RootStateToldBy(rec)

-----------------------------------------------------------------------------
(* Parameters of a command line.  A text is what it looks like ("int",     *)
(* "bool", "address", "hex" or "string"), the bytes it stands for and, in  *)
(* hexadecimal, the first of them and whether those from the second on     *)
(* begin with a point of the curve.  given is the name before the colon,   *)
(* "" if there is none.                                                    *)

\* NewPublicKeyFromString reads a key from the front and leaves the rest.
KeyWidth(first) == CASE first = 0 -> 1 [] first \in {2, 3} -> 33 [] first = 4 -> 65 [] OTHER -> 0
LooksLikeKey(text) ==
  /\ text.looks = "hex" /\ KeyWidth(text.first) \in 1..text.bytes.n
  /\ text.first # 0 => text.point
\* The bytes of the key itself, compressed.
KeyBytes(text) ==
  IF text.first = 0 THEN Unit(1, text.bytes.v) ELSE Unit(33, text.bytes.v)

ByLength(n) == CASE n = 20 -> Hash160Type [] n = 32 -> Hash256Type [] n = 64 -> SignatureType
                 [] OTHER -> ByteArrayType
inferParamType(text) ==
  CASE text.looks = "int" -> IntegerType
    [] text.looks = "bool" -> BoolType
    [] text.looks = "address" -> Hash160Type
    [] LooksLikeKey(text) -> PublicKeyType
    [] text.looks = "hex" /\ ~LooksLikeKey(text) -> ByLength(text.bytes.n)
    [] OTHER -> StringType

Adjusts(type, text) ==
  CASE type = SignatureType -> text.looks = "hex" /\ text.bytes.n = 64
    [] type = BoolType -> text.looks = "bool"
    [] type = IntegerType -> text.looks = "int"
    [] type = Hash160Type -> text.looks = "address" \/ (text.looks = "hex" /\ text.bytes.n = 20)
    [] type = Hash256Type -> text.looks = "hex" /\ text.bytes.n = 32
    [] type = ByteArrayType -> text.looks = "hex"
    [] type = PublicKeyType -> LooksLikeKey(text)
    [] OTHER -> type = StringType
adjustValToType(type, text) ==
  [Type |-> type, Value |-> IF type = PublicKeyType THEN KeyBytes(text) ELSE text.bytes]
NewParameterFromString(text) ==
  LET type == IF text.given = "" THEN inferParamType(text) ELSE ParseParamType(text.given)
  IN IF Adjusts(type, text) THEN Told(adjustValToType(type, text)) ELSE Untold

-----------------------------------------------------------------------------
(* Base 58 with a checksum                                                 *)

Checksum(units) == Unit(4, <<"sum", units>>)
CheckEncode(units) == Append(units, Checksum(units))
CheckDecode(units) ==
  IF units = <<>> THEN Untold
  ELSE IF Last(units).n = 4 /\ Last(units) = Checksum(Front(units)) THEN Told(Front(units)) ELSE Untold

AddressPrefix == 23
WIFVersion == 128
nepFlag == 224

\* What a NEP-2 text holds of a key locked with a passphrase.
Locked(key, pass) == Unit(32, <<"locked", key, pass>>)
Unlocked(units, pass) == IF units.v[3] = pass THEN units.v[2] ELSE Unit(32, <<"locked", units, pass>>)
AddressHash(key) == Unit(4, <<"address", key>>)

TextKinds == {"Address", "WIF", "NEP2"}
WriteText(kind, rec) ==
  CheckEncode(
    CASE kind = "Address" -> <<Unit(1, AddressPrefix), rec.ScriptHash>>
      [] kind = "WIF" -> <<Unit(1, IF rec.Version = 0 THEN WIFVersion ELSE rec.Version), rec.Key>>
                           \o (IF rec.Compressed THEN <<Unit(1, 1)>> ELSE <<>>)
      [] kind = "NEP2" -> <<Unit(1, 1), Unit(1, 66), Unit(1, nepFlag), AddressHash(rec.Key),
                            Locked(rec.Key, rec.Locking)>>)
CanWriteText(kind, rec) == kind = "WIF" => rec.Key.n = 32

StringToUint160(b) == IF b[1].v = AddressPrefix THEN Told([ScriptHash |-> b[2]]) ELSE Untold
WIFDecode(b) ==
  CASE b[1].v # WIFVersion -> Untold
    [] b[1].v = WIFVersion /\ Len(b) = 2 ->
         Told([Version |-> WIFVersion, Key |-> b[2], Compressed |-> FALSE])
    [] OTHER -> IF b[3].v = 1 THEN Told([Version |-> WIFVersion, Key |-> b[2], Compressed |-> TRUE])
                ELSE Untold
NEP2Decrypt(b, pass) ==
  LET key == Unlocked(b[5], pass)
  IN IF <<b[1].v, b[2].v, b[3].v>> = <<1, 66, nepFlag>> /\ AddressHash(key) = b[4]
     THEN Told([Key |-> key]) ELSE Untold
\* pass is the passphrase, for NEP-2.
ReadText(kind, units, pass) ==
  LET b == CheckDecode(units)
  IN CASE b.err -> Untold
       [] kind = "Address" /\ ~b.err -> StringToUint160(b.v)
       [] kind = "WIF" /\ ~b.err -> WIFDecode(b.v)
       [] kind = "NEP2" /\ ~b.err -> NEP2Decrypt(b.v, pass)
=============================================================================
