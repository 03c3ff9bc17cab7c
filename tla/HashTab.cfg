SPECIFICATION TabSpec
CONSTANTS
  k1 = k1
  k2 = k2
  k3 = k3
  short = short
  two = two
  three = three
  Key <- Keys3
  Hash <- Hashes
  Value <- Values
  Length <- Lengths
  MinSlots = 4
  MinWords = 4
  MaxSlots = 8
  MaxWords = 8
  MaxInstalls = 1
CHECK_DEADLOCK FALSE
INVARIANTS GrowthInOrder LastInstalledFound
