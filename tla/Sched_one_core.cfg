SPECIFICATION FairSpec
CONSTANTS
  t1 = t1
  t2 = t2
  t3 = t3
  c1 = c1
  c2 = c2
  NULL = NULL
  Thread <- ThreeThreads
  Core <- OneCore
  InitThread = t1
  MAX_PRIORITIES = 2
  MAX_YIELDS = 2
  YieldCauses = {"SCHED_IO"}
  SleepCauses = {"OTHER"}
  Timeouts = {0, 1}
  MaxClock = 1
INVARIANTS
  LinkedOnce
PROPERTIES
  ExitedIsReleased
  TimeoutFires
  
  
