\* StepOut on a machine that failed.
SPECIFICATION Spec
CONSTANTS
  Codes <- DebugCodes
  Scripts <- MCScripts
  Entry = "main"
  Unknown = "none"
  StackIds = {s1, s2, s3, s4, s5, s6, s7, s8, s9, s10}
  MaxInvocationStackSize = 3
  MaxStackSize = 2
  GasLimit = 12
  MaxInt64 = 63
  RenewalPrice <- MCRenewalPrice
  BreakPoints <- MCBreakPoints
  HostOps <- StepHost
  MaxSize = 2
  MaxGas = 13
INVARIANT FailedStaysFailed
CHECK_DEADLOCK FALSE
