SPECIFICATION FairSpec
CONSTANTS
  Tasks = {t1, t2}
  Blocks = {b1, b2, b3}
  Null = Null
INVARIANTS MutualExclusion ListIsSound NoLostWakeup WakesOnlyWaiters
PROPERTY EverySleeperWakes
