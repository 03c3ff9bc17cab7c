SPECIFICATION Spec
CONSTANTS
  NBuf = 3
  Buttons = {left, right}
  Positions = {p1, p2}
  MaxWheel = 1
SYMMETRY PositionSymmetry
INVARIANTS BuffersAccounted ClicksFollowPackets 
