SPECIFICATION FairSpec
CONSTANTS
  t1 = t1
  t2 = t2
  t3 = t3
  c1 = c1
  c2 = c2
  NULL = NULL
  Thread <- TwoThreads
  Core <- TwoCores
  InitThread = t1
  MAX_PRIORITIES = 1
  MAX_YIELDS = 1
  YieldCauses = {}
  SleepCauses = {}
  Timeouts = {}
  MaxClock = 0
CHECK_DEADLOCK FALSE
PROPERTY ExitedIsReleased
