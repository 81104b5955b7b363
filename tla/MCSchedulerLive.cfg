SPECIFICATION FairSpec
CONSTANTS
  MaxTaskId = 3
  boot = boot
  other = other
  PageCtx <- MCOneCtx
  BootCtx = boot
  Pc = {1}
  Results = {"ok"}
  Calls <- MCBlockingCalls
  KbdCap = 2
  SplitKeeps = 1
  SplitLoses = 1
  MaxKeys = 3
INVARIANTS TrapNotLost KeysInOrder
PROPERTIES EveryTaskHasItsOwnCpu PitSwitchReturns EveryTaskRuns KeyIsDelivered
