------------------------------- MODULE MCCodecs -------------------------------
(***************************************************************************)
(* Records of every kind for Codecs, among them those that do not fit.     *)
(***************************************************************************)
EXTENDS Codecs

B(n, k) == Unit(n, <<"some", k>>)
H(k) == B(32, k)
A(k) == B(20, k)
S(n) == IF n = 0 THEN NoBytes ELSE B(n, n)

Key(k) == [Prefix |-> 2 + (k % 2), X |-> H(k \div 2), Y |-> H(k)]
Infinity == [Prefix |-> 0]
Uncompressed == [Prefix |-> 4, X |-> H(1), Y |-> H(3)]
OffCurve == [Prefix |-> 2, X |-> H(NoPoint), Y |-> H(0)]

In(h, i) == [PrevHash |-> H(h), PrevIndex |-> i]
Out(h, a) == [AssetID |-> H(h), Amount |-> a, ScriptHash |-> A(h)]
Wit(n) == [InvocationScript |-> S(n), VerificationScript |-> S(n + 2)]
Attr(u, d) == [Usage |-> u, Data |-> d]
Attrs == {Attr(2, B(33, 2)), Attr(32, A(1)), Attr(32, B(21, 1)), Attr(0, H(1)), Attr(175, H(2)),
          Attr(128, S(3)), Attr(129, S(255)), Attr(129, S(256)), Attr(144, S(0)), Attr(255, S(300))}

Tx(type, version, attrs, ins, outs, fields) ==
  [Type |-> type, Version |-> version, Attributes |-> attrs, Inputs |-> ins, Outputs |-> outs,
   Scripts |-> <<Wit(3)>>, hash |-> Unset] @@ fields
Plainly(type, fields) == Tx(type, 0, <<>>, <<In(1, 0)>>, <<>>, fields)
Invocation(v, n, g) == Tx(InvocationType, v, <<>>, <<>>, <<>>, [Script |-> S(n), Gas |-> g])
Publish(v, storage) ==
  Tx(PublishType, v, <<>>, <<>>, <<>>,
     [Script |-> S(5), ParamList |-> <<[T |-> 0], [T |-> 255]>>, ReturnType |-> 5,
      NeedStorage |-> storage, Name |-> S(3), CodeVersion |-> S(5), Author |-> S(0),
      Email |-> S(6), Description |-> S(300)])
Register(name, amount) ==
  Plainly(RegisterType, [AssetType |-> 1, Name |-> name, Amount |-> amount, Precision |-> 8,
                         Owner |-> Key(3), Admin |-> A(2)])
MCSpaced == B(9, 9)
MCNotJson == B(6, 6)
MCCompact == B(7, 7)
Miner(n) == Tx(MinerType, 0, <<>>, <<>>, <<>>, [Nonce |-> n])
Contract == Plainly(ContractType, <<>>)
Txs ==
  {Miner(7), Contract, Plainly(IssueType, <<>>),
   Plainly(VotingType, <<>>), Plainly(ClaimType, [Claims |-> <<In(2, 1), In(1, 1)>>]),
   Plainly(EnrollmentType, [PublicKey |-> Key(2)]),
   Plainly(StateType, [Descriptors |-> <<[Type |-> 64, Key |-> S(3), Value |-> S(0), Field |-> S(5)]>>]),
   Register(MCCompact, -1), Register(MCSpaced, 5), Register(MCNotJson, -Decimals),
   Register(S(0), -Decimals - 5), Publish(0, FALSE), Publish(0, TRUE), Publish(1, TRUE),
   [Publish(1, TRUE) EXCEPT !.ParamList = <<[T |-> 8]>>],
   Invocation(0, 5, 0), Invocation(0, 5, 9), Invocation(1, 5, 120000000), Invocation(1, 0, 0),
   Invocation(1, 5, -2), Tx(ContractType, 0, <<Attr(129, S(3))>>, <<In(2, 0), In(1, 1)>>,
     <<Out(1, Decimals \div 4), Out(2, -1)>>, <<>>),
   Tx(ContractType, 0, <<Attr(128, S(3))>>, <<>>, <<>>, <<>>)}

Base == [Version |-> 1, PrevHash |-> H(1), MerkleRoot |-> H(2), Timestamp |-> 11, Index |-> 12,
         ConsensusData |-> 13, NextConsensus |-> A(3), Script |-> Wit(5), hash |-> Unset]
BlockOf(txs) == Base @@ [Transactions |-> txs]
Blocks == {BlockOf(<<>>), BlockOf(<<Contract>>), BlockOf(<<Miner(7)>>), BlockOf(<<Miner(7), Contract>>),
           BlockOf(<<Miner(7), Miner(8)>>), BlockOf(<<Miner(7), Invocation(1, 0, 0)>>),
           BlockOf(<<Miner(7), Register(MCCompact, -1)>>)}

Unspent(h) == [Tx |-> H(h), Index |-> h, Value |-> -5]
Unclaim(h, v) == [Tx |-> H(h), Index |-> 1, Start |-> 2, End |-> 3, Value |-> v]
Account == [Version |-> 0, ScriptHash |-> A(1), IsFrozen |-> TRUE, Votes |-> <<Key(2), Infinity>>,
            Balances |-> <<[Asset |-> H(1), Unspent |-> <<Unspent(1), Unspent(2)>>],
                           [Asset |-> H(2), Unspent |-> <<>>]>>,
            Unclaimed |-> <<Unclaim(1, 4), Unclaim(2, 4)>>]
Asset == [ID |-> H(1), AssetType |-> 0, Name |-> S(3), Amount |-> -1, Available |-> 5,
          Precision |-> 8, FeeMode |-> 0, FeeAddress |-> A(1), Owner |-> Key(2), Admin |-> A(2),
          Issuer |-> A(3), Expiration |-> 9, IsFrozen |-> FALSE]
ContractState == [Script |-> S(5), ParamList |-> <<[T |-> 7]>>, ReturnType |-> 5, Properties |-> 3,
                  Name |-> S(3), CodeVersion |-> S(0), Author |-> S(5), Email |-> S(6),
                  Description |-> S(300)]
Root(ws) == [Version |-> 0, Index |-> 1, PrevHash |-> H(1), Root |-> H(2), Witness |-> ws]
Tracker == [Balance |-> -3, LastUpdatedBlock |-> 4]
NEP5(i) == [Asset |-> A(1), Tx |-> H(2), From |-> A(3), To |-> A(4), Block |-> 5, Timestamp |-> 6,
            Amount |-> -7, Index |-> i]
Moved(b) == [Tx |-> H(2), Block |-> 5, Timestamp |-> 6, Amount |-> -7, IsGoverning |-> b,
             IsSent |-> ~b]
Coin(n) == [Height |-> 3, States |-> [i \in 1..n |-> Out(i, 5) @@ [SpendHeight |-> 1, State |-> 2]]]

Bin(n) == [Type |-> ByteArrayT, Value |-> S(n)]
Array(id, items) == [Type |-> ArrayT, Id |-> id, Value |-> items]
Map(id, elems) == [Type |-> MapT, Id |-> id, Value |-> elems]
Items ==
  {Bin(0), Bin(5), [Type |-> BooleanT, Value |-> TRUE], [Type |-> IntegerT, Value |-> S(3)],
   [Type |-> InteropT], Array(1, <<>>), Array(1, <<Bin(3), Array(2, <<>>)>>),
   Array(1, <<Array(2, <<>>), Array(2, <<>>)>>), Array(1, <<Array(1, <<>>)>>),
   [Type |-> StructT, Id |-> 1, Value |-> <<Array(2, <<Bin(3)>>), Array(3, <<Bin(3)>>)>>],
   Map(1, <<[Key |-> Bin(3), Value |-> Array(2, <<>>)], [Key |-> Bin(5), Value |-> Map(3, <<>>)]>>),
   Map(1, <<[Key |-> Bin(3), Value |-> [Type |-> InteropT]]>>)}

Param(t, v) == [Type |-> t, Value |-> v]
Params ==
  {Param(BoolType, FALSE), Param(ByteArrayType, Null), Param(ByteArrayType, S(0)),
   Param(SignatureType, S(64)), Param(StringType, S(3)), Param(IntegerType, -9),
   Param(Hash160Type, A(1)), Param(Hash256Type, H(1)), [Type |-> InteropInterfaceType],
   [Type |-> VoidType], Param(ArrayType, <<Param(IntegerType, 1), Param(ArrayType, <<>>)>>),
   Param(MapType, <<[Key |-> Param(StringType, S(3)), Value |-> Param(BoolType, TRUE)]>>)}

Text(given, looks, n, first, point) ==
  [given |-> given, looks |-> looks, bytes |-> S(n), first |-> first, point |-> point]
ParameterTexts ==
  {Text("", "int", 4, 1, FALSE), Text("", "bool", 3, 0, FALSE), Text("", "address", 20, 0, FALSE),
   Text("", "string", 5, 0, FALSE), Text("string", "hex", 33, 2, TRUE), Text("nothing", "hex", 5, 1, FALSE),
   Text("hash256", "hex", 32, 0, FALSE), Text("bytes", "string", 5, 0, FALSE), Text("int", "hex", 3, 3, TRUE)}
  \union {Text(g, "hex", n, f, p) : g \in {"", "key", "hash160"}, n \in {1, 20, 32, 33, 34, 64, 65},
                                    f \in {0, 2, 4, 9}, p \in BOOLEAN}
WIFs == {[Version |-> v, Key |-> H(1), Compressed |-> c] : v \in {0, 128, 129}, c \in BOOLEAN}
          \union {[Version |-> 0, Key |-> B(31, 1), Compressed |-> TRUE]}
NEP2s == {[Key |-> H(1), Locking |-> p, Given |-> q] : p, q \in {1, 2}}

\* All lists of up to four of three inputs.
InputLists ==
  {[Inputs |-> l] : l \in UNION {[1..n -> {In(1, 0), In(1, 2), In(2, 0)}] : n \in 0..4}}
\* All lists of one to four of three hashes.
Leaves == {[Leaves |-> l] : l \in UNION {[1..n -> {H(1), H(2), H(3)}] : n \in 1..4}}

MCSamples ==
  [k \in {"Transaction"} |-> Txs]
  @@ [Attribute |-> Attrs, Block |-> Blocks, Header |-> {Base}, Account |-> {Account},
      Asset |-> {Asset}, Contract |-> {ContractState}, MPTRoot |-> {Root(<<>>), Root(<<Wit(3)>>)},
      MPTRootState |-> {Root(<<>>) @@ [Flag |-> f] : f \in {1, 2}},
      NEP5Balances |-> {[NextTransferBatch |-> 1,
        Trackers |-> <<[Asset |-> A(1)] @@ Tracker, [Asset |-> A(2)] @@ Tracker>>]},
      NEP5Metadata |-> {[Decimals |-> 8]}, NEP5Transfer |-> {NEP5(1)},
      Transfer |-> {Moved(TRUE), Moved(FALSE)}, UnclaimedBalance |-> {Unclaim(1, -4)},
      StorageItem |-> {[Value |-> S(n), IsConst |-> n = 0] :
                       n \in {0, 252, 253, Max16 - 1, Max16, Max16 + 1, MaxArraySize, MaxArraySize + 1}},
      UnspentCoin |-> {Coin(0), Coin(2)},
      Validator |-> {[PublicKey |-> Key(3), Registered |-> TRUE, Votes |-> 5]},
      ValidatorsCount |-> {[i \in 1..MaxValidatorsVoted |-> i]},
      NotificationEvent |-> {[ScriptHash |-> A(1), Item |-> i] : i \in Items},
      AppExecResult |-> {[TxHash |-> H(1), Trigger |-> 16, VMState |-> S(5), GasConsumed |-> 7,
        Stack |-> <<Param(IntegerType, -9)>>, Events |-> <<[ScriptHash |-> A(1), Item |-> Bin(3)]>>]},
      Parameter |-> Params, Item |-> Items,
      PublicKey |-> {Key(2), Key(3), Infinity, Uncompressed, OffCurve},
      VarUint |-> {[V |-> v] : v \in {0, 252, 253, Max16 - 1, Max16, Max16 + 1, Max32 - 1, Max32, MaxU64}},
      UnclaimedBalances |-> {[Raw |-> <<>>]}, NEP5TransferLog |-> {[Raw |-> <<>>]},
      TransferLog |-> {[Raw |-> <<>>]}, Hashes |-> Leaves,
      Inputs |-> InputLists, Text |-> ParameterTexts, WIF |-> WIFs, NEP2 |-> NEP2s,
      Address |-> {[ScriptHash |-> A(1)]}]

MCInputs == {In(1, 2)}
MCOutputs == {Out(1, 5)}
MCPuts == {Unclaim(1, 4), Unclaim(2, 5), Unclaim(3, 6)}
MCTransfers == [NEP5Transfer |-> {NEP5(1), NEP5(2)}, Transfer |-> {Moved(TRUE), Moved(FALSE)}]
MCVerifier == A(9)
=============================================================================
