SPECIFICATION Spec
CONSTANTS
  f1 = f1
  f2 = f2
  none = none
  File <- Files
  NoFile = none
  Wanted <- BothAndData
  Refnum <- Refnums
  MaxSize = 1
  Shared <- SecondData
  Foreign <- First
CHECK_DEADLOCK FALSE
INVARIANTS RingsInOrder EofTrue ForksReachable
