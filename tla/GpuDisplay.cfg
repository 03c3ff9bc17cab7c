SPECIFICATION FairSpec
CONSTANTS
  MaxInFlight = 2
  Tiles <- TwoTiles
  PollsTorn = FALSE
INVARIANTS UpdatesAccounted CommandAlone NoStaleResource
PROPERTIES DrawnIsShown ModeEnds
