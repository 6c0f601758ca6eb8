\* Records of every kind, with 2^32 - 1 and 2^64 - 1 replaced by smaller numbers
\* above MaxArraySize, as TLC's integers have 32 bits.
CONSTANTS
  Max16 = 65535
  Max32 = 2147483640
  MaxU64 = 2147483647
  MaxArraySize = 16777216
  MaxValidatorsVoted = 4
  Samples <- MCSamples
  Inputs <- MCInputs
  Outputs <- MCOutputs
  MaxAdded = 2
  Puts <- MCPuts
  Transfers <- MCTransfers
  MaxPuts = 3
  Verifier <- MCVerifier
  Spaced <- MCSpaced
  NotJson <- MCNotJson
  Compact <- MCCompact
SPECIFICATION Spec
INVARIANTS
  TypeOK RoundTrip CutIsNoticed LeavesRest SameName BlockVerifies MerkleBinds SizesAgree
  ListsReadBack JsonRoundTrip InputsGrouped
CHECK_DEADLOCK FALSE
