\* Stand-ins, in this order: hashes and keys have 2, 3 and 4 bytes for 20, 32 and
\* 33, an index 1 byte for 5, numbers 4 bits for 256, items 3 bytes for 2^20 and
\* lists 3 items for 1024.  Gas is counted in 0.001 GAS, for 10^-8, and in 24 bits
\* for 64; the gas limit is the CLI's own, 500 GAS.
CONSTANTS
  Uint160Size = 2
  Uint256Size = 3
  KeySize = 4
  ByIndexSize = 1
  MaxIndex = 100
  MaxBits = 4
  MaxItemSize = 3
  MaxArraySize = 3
  GasLimit = 500000
  interopGasRatio = 1
  MaxInt64 = 8388607
  Height = 9
  Addresses = {1, 2, 3, 4, 5, 6, 7, 8, 9}
  Witnesses <- MCWitnesses
  KeyHash <- MCKeyHash
  NoKey <- MCNoKey
  Answers <- MCAnswers
  Ledger <- MCLedger
  Serialized <- MCSerialized
  Deserialized <- MCDeserialized
  Kits <- MCKits
SPECIFICATION Spec
INVARIANTS TypeOK SoleOwner StorageKept
PROPERTIES NoCallIsFree
CHECK_DEADLOCK FALSE
