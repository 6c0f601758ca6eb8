\* Every kind of call and return, between two scripts.
SPECIFICATION FairSpec
CONSTANTS
  Codes <- CallCodes
  Scripts <- MCScripts
  Entry = "main"
  Unknown = "none"
  StackIds = {s1, s2, s3, s4, s5, s6, s7, s8, s9, s10}
  MaxInvocationStackSize = 3
  MaxStackSize = 3
  GasLimit = 30
  MaxInt64 = 63
  RenewalPrice <- MCRenewalPrice
  BreakPoints <- NoBreakPoints
  HostOps <- CallHost
  MaxSize = 3
  MaxGas = 40
INVARIANTS TypeOK IstackBounded CurrentStacks StacksOwned DynamicOnlyIfAllowed ResultOnEntryStack ItemsWithinLimit
PROPERTIES FramesIsolated LeakOnlyAtFrameEnd CallsReturn
\* The host may stop calling.
CHECK_DEADLOCK FALSE
