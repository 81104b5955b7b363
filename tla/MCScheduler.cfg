SPECIFICATION Spec
CONSTANTS
  MaxTaskId = 3
  boot = boot
  other = other
  PageCtx <- MCPageCtx
  BootCtx = boot
  Pc = {1}
  Results = {"ok"}
  Calls <- MCSwitchingCalls
  KbdCap = 1
  SplitKeeps = 1
  SplitLoses = 1
  MaxKeys = 0
INVARIANTS MapsAgree ContextIsOwn
