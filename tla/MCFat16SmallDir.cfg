SPECIFICATION Spec
CONSTANTS
  SectorSize <- MCSectorSize
  DirEntrySize = 2
  FatEntrySize = 2
  Disks <- SmallDirDisks
  Paths <- MCPaths
  ReadSizes = {3}
  Lower <- MCLower
  NonUtf8 <- MCNonUtf8
  MaxRepeats = 2
INVARIANT FirstClusterIsSearched
