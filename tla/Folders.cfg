SPECIFICATION FoldersSpec
CONSTANTS
  root = root
  dir = dir
  file = file
  spare = spare
  x = x
  y = y
  h = h
  dotdot = dotdot
  gone = gone
  noname = noname
  Node <- AllNodes
  Dirs <- Directories
  Root = root
  NoFile = gone
  Name <- Names
  NoName = noname
  DotDot = dotdot
  Fid <- Fids
  RootFid = 2
  ChunkMax = 2
  Tree <- SmallTree
  MaxNames = 2
  Cookie <- Cookies
  Hidden <- Conceals
  ListFid = 22
  MyFid = 3
  InBuffer = 2
  MaxIndex = 3
INVARIANTS  OneKindAsRelisted ListingInOrder
