SPECIFICATION Spec
CONSTANTS
  Regions <- MCSmallRegions
  BootCtx = 100
  Hardware = {200}
  Virt <- MCVirt
  Path <- MCPath
  Flags = {"ro", "rw"}
  Odd = "odd"
  CachedVirt = {"a"}
  Ranges <- MCRanges
  Tasks = {1, 2}
  InitTask = 1
  MaxRefs = 2
  None = None
INVARIANTS RefCountExact PagesAreSeparate ValidationHolds TlbCoherent
