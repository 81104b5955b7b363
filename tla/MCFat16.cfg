SPECIFICATION FairSpec
CONSTANTS
  SectorSize <- MCSectorSize
  DirEntrySize = 2
  FatEntrySize = 2
  Disks <- GoodDisks
  Paths <- MCPaths
  ReadSizes = {0, 3, 9}
  Lower <- MCLower
  NonUtf8 <- MCNonUtf8
  MaxRepeats = 2
INVARIANTS ReadsNextBytes OpenIsLookup StaysOnVolume
PROPERTY CallReturns
