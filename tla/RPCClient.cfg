SPECIFICATION FairSpec
CHECK_DEADLOCK FALSE
CONSTANTS
  RPCRetryMax = 2
  RetryDelay = 1
  MaxDelay = 3
  Width = 5
  Ops <- MCOps
  Configs <- MCConfigs
  MaxCalls = 2
  None = None
  c1 = c1
  c2 = c2
INVARIANT TypeOK
INVARIANT SuccessSticks
INVARIANT RefusalIsFinal
INVARIANT BackoffSane
PROPERTY ImplementsRemoteCall
PROPERTY CallReturns
