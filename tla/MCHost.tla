--------------------------------- MODULE MCHost ---------------------------------
(***************************************************************************)
(* Scripts for Host, each with the instructions that bear on one question, *)
(* begun with the operands they need.                                      *)
(***************************************************************************)
EXTENDS Host

Us == <<1, 1>>
Them == <<2, 2>>
MCLedger == (<<Us, <<7>>>> :> <<5, 6>>)
MCWitnesses == {Us, <<9, 9>>}
MCNoKey == <<>>
MCKeyHash(bytes) == IF bytes = <<2, 0, 0, 9>> THEN <<9, 9>> ELSE MCNoKey

Header == [is |-> "header", hash |-> <<1, 2, 3>>, PrevHash |-> <<0, 0, 0>>, Index |-> 1, Timestamp |-> 3]
Block(n) == [Header EXCEPT !.is = "block"] @@ ("Transactions" :> [i \in 1..n |-> <<i, i, i>>])
MCAnswers == {Header, Block(0), Block(2), Block(4), [is |-> "contract", hash |-> Them]}

Num(n) == <<"int", n>>
Data(bytes) == <<"bytes", bytes>>
Item(item) == <<"item", item>>
WriterOf(hash) == Item(Context(hash, FALSE))
ReaderOf(hash) == Item(Context(hash, TRUE))

MCSerialized == {<<>>, <<1, 1>>, <<128, 0>>, <<2, 2, 3, 0>>}
MCDeserialized ==
  {<<Item(BoolOf(TRUE))>>, <<Data(<<3>>)>>,
   <<<<"Array", <<2>>>>, <<"Struct", <<3>>>>, Num(1)>>}

Kit(ops, ints, data, stack, spent, most) ==
  [ops |-> ops, ints |-> ints, data |-> data, stack |-> stack, gas |-> spent,
   frames |-> <<Us, Them>>, steps |-> most]

AllKits ==
  [storage |-> Kit({"Storage.Get", "Storage.Put", "Storage.Delete", "Storage.GetContext", "PUSHDATA",
                    "CAT", "LEFT", "PUSH"}, {1}, {<<7>>, <<3, 4>>},
                   <<WriterOf(Us), Data(<<7>>), Data(<<3, 4>>)>>, 1, 6),
   contexts |-> Kit({"Storage.Get", "Storage.Put", "Storage.PutEx", "Storage.Delete", "PUSHDATA",
                     "Storage.GetReadOnlyContext", "StorageContext.AsReadOnly",
                     "Contract.GetStorageContext", "SWAP", "DUP"}, {}, {<<7>>},
                    <<Item([is |-> "contract", hash |-> Them]), Data(<<7>>), Num(3), Num(1)>>, 100, 6),
   alias |-> Kit({"PACK", "UNPACK", "PICKITEM", "NEWSTRUCT", "NEWARRAY", "NEGATE", "INVERT", "DUP", "OVER",
                  "CAT", "DROP", "TOALTSTACK", "DUPFROMALTSTACK"}, {}, {},
                 <<Num(2), Num(1), Data(<<3>>), Num(0)>>, 0, 5),
   shuffle |-> Kit(StackOps, {}, {}, <<Num(1), Num(2), Data(<<>>), Num(0)>>, 0, 4),
   splice |-> Kit(SpliceOps \union {"CAT", "DUP", "ABS"}, {}, {},
                  <<Num(1), Num(1), Data(<<1, 2, 3>>), Num(-129), Data(<<5>>)>>, 0, 5),
   arithmetic |-> Kit(InPlaceOps \union UnaryOps \union BinaryOps, {}, {},
                      <<Num(-2), Num(5), Data(<<250>>), Item(BoolOf(TRUE))>>, 0, 4),
   chain |-> Kit(DOMAIN ChainOps \union TransactionOps \union BlockOps \union HeaderOps
                   \union {"Transaction.GetHash", "UNPACK", "SWAP", "DROP"}, {}, {},
                 <<Num(1), Num(0), Data(<<1, 2, 3>>), Data(Us)>>, 0, 5),
   engine |-> Kit(EngineOps \union {"PUSH", "PUSHDATA", "Blockchain.GetBlock"}, {-1},
                  {<<2, 0, 0, 9>>, <<3, 0, 0, 9>>, Us, Them, <<101>>}, <<>>, 0, 3),
   bytes |-> Kit({"Runtime.Serialize", "Runtime.Deserialize", "PACK", "UNPACK", "CAT", "NEGATE", "DUP",
                  "ROT"}, {}, {}, <<Num(1), Data(<<3>>), Num(2), Item(Header)>>, 0, 5),
   renewals |-> Kit(Renewals \union {"ROT", "SWAP", "DROP", "NOT", "NZ"}, {}, {},
                    <<Num(2), Num(262144), Num(-1), Num(1), Num(16777216)>>, 499999, 6),
   calls |-> Kit(Syscalls, {}, {}, <<Item(BoolOf(TRUE)), Num(1), Num(-1), Num(3)>>, 0, 2)]

\* TLC evaluates what a .cfg substitutes again at each use: of this, one kit only.
MCKits == [name \in DOMAIN AllKits |-> AllKits[name]]
=============================================================================
