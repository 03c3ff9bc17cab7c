SPECIFICATION Spec
CONSTANTS
  root = root
  outer = outer
  inner = inner
  spare = spare
  file = file
  x = x
  y = y
  dotdot = dotdot
  gone = gone
  noname = noname
  Node <- AllNodes
  Dirs <- Directories
  Root = root
  NoFile = gone
  Name = {x, y}
  NoName = noname
  DotDot = dotdot
  Fid <- Fids
  RootFid = 2
  ChunkMax = 2
  Tree <- SmallTree
  Known <- AllButSpare
  Worlds <- WorldsValue
CHECK_DEADLOCK FALSE
INVARIANTS BrowseTrue 
  
