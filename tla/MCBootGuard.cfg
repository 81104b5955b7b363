SPECIFICATION Spec
CONSTANTS
  Fan = 8
  WordPages = 128
  Image <- MCImage
  VramPages = 1
  VramPhys = 40
  RcPerPage = 8
  MemoryMaps <- MCMemoryMaps
  MaxRegions = 2
  Tasks = {1, 2}
  FirstTask = 1
  PAGE_SIZE = 2
  Builds = {"debug", "release"}
  Addrs <- MCAddrs
  Lens <- MCLens
  CallAddrs = {0, 15, 64}
  CallLens = {0, 1, 96}
INVARIANT StackGuardFaults
