SPECIFICATION FairSpec
CONSTANTS
  QueueSize = 2
  IndexMod = 4
  Tags = {t1}
  ChainLengths <- TwoOnly
  MaxInterest = 1
  NestsPolls = TRUE
  CallbackSends = 2
  KeepsBudget = TRUE
  BusyFlags = {0, 1}
INVARIANTS NoLostWakeup OneBottomHalf
PROPERTIES EveryBufferComesBack 
