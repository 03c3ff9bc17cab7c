SPECIFICATION Spec
CONSTANTS
  Edids <- EdidsValue
  boardFBMappedSize = 4194304
  BootDepths = {8, 16, 32}
  BootSizes <- BootSizesValue
  MaxTimers = 2
  MaxOpens = 2
  CancelTorn = TRUE
CHECK_DEADLOCK FALSE
INVARIANTS ModesListed ShownIsSaid VblServed
PROPERTY BlankTrue
