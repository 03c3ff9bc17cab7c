SPECIFICATION Spec
CHECK_DEADLOCK FALSE
CONSTANTS
  QueueSize = 2
  IndexMod = 4
  Tags = {t1, t2}
  ChainLengths <- OneAndTwo
  MaxInterest = 0
  NestsPolls = FALSE
  CallbackSends = 2
  KeepsBudget = FALSE
  BusyFlags = {0, 1}
INVARIANT TypeOK
INVARIANT DescriptorsAccounted
INVARIANT NoLostKick
PROPERTY LedgerKept
