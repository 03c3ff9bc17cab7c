SPECIFICATION Spec
CONSTANTS
  nineP1 = nineP1
  nineP2 = nineP2
  alien = alien
  else = else
  rom = rom
  folder = folder
  root = root
  Driver <- Drivers
  Alien <- Aliens
  Original = rom
  Else = else
  Dir <- Folders
  RootDir = root
  Slots = 4
  MaxDrives = 3
INVARIANTS  VolumesMounted DirectoriesKept
