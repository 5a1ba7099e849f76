SPECIFICATION FairSpec
CONSTANTS
  Callers = {a, b}
  Commands = {go, halt}
  WriteTimeout = 2
  MaxSeq = 3
INVARIANTS ClientTypeOK NumbersFollowCalls BlockedWriteEnds
PROPERTIES SendReturns ImplementsPort
